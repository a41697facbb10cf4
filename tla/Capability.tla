------------------------------ MODULE Capability ------------------------------
(***************************************************************************)
(* The capability registry (internal/capability, with the PublishSchema    *)
(* RPC): publication of schema documents and the warning about breaking    *)
(* changes; the validation of property values by what is published is      *)
(* module SchemaValidation.  Publications are single transactions; Get and *)
(* List only read.                                                         *)
(*                                                                         *)
(* A document is parsed already: its properties, definitions and command   *)
(* parameters are functions from names to types.  A type is concrete or a  *)
(* $ref, whose target is the name of a definition.                         *)
(***************************************************************************)
EXTENDS Auth, FiniteSets

CONSTANTS
    Publishers,     \* identities
    Documents,      \* what they publish
    MaxInt,         \* greatest int
    MaxPublished    \* bound on the publications

(* What parsing makes of a valid document: its version has three numbers,  *)
(* and the bounds of a type are numbers.                                   *)
TypeDef(t) == t # None /\ {t.Min, t.Max} \subseteq Int \cup {None}
Schema(d) ==
    /\ d.version.nums \in [1..3 -> Nat]
    /\ IsFiniteSet(DOMAIN d.definitions)
    /\ \A types \in {d.definitions, d.properties} \cup {d.commands[c] : c \in DOMAIN d.commands} :
          None \notin DOMAIN types /\ \A x \in DOMAIN types : TypeDef(types[x])

ASSUME CapabilityAssumption ==
    /\ MaxInt \in Nat /\ MaxPublished \in Nat
    /\ None \notin Documents
    /\ \A d \in Documents : d.valid => Schema(d)

VARIABLES
    schemas,    \* the capability_schemas bucket: <<name, version>> -> document
    warnings,   \* breaking changes logged: [name, from, to]
    published   \* history: the documents in the order of their publication

capabilityVars == <<schemas, warnings, published>>

CapabilityInit == schemas = <<>> /\ warnings = {} /\ published = <<>>

Get(k) == IF k \in DOMAIN schemas THEN schemas[k] ELSE None

(***************************************************************************)
(* Versions.  A version is three numerals, possibly with leading zeros.    *)
(***************************************************************************)
parseSemver(v) == IF \E i \in 1..3 : v.nums[i] > MaxInt THEN None ELSE v.nums

less(v, o) == \E i \in 1..3 : v[i] < o[i] /\ \A j \in 1..(i - 1) : v[j] = o[j]

(* The names that old declares and new does not, or with another type.     *)
Changed(old, new) == {x \in DOMAIN old : x \notin DOMAIN new \/ old[x].Type # new[x].Type}

detectBreakingChanges(old, new) ==
    Changed(old.properties, new.properties)
    \cup {c \in DOMAIN old.commands : c \notin DOMAIN new.commands
                                      \/ Changed(old.commands[c], new.commands[c]) # {}}

warnIfBreaking(latest, next) ==
    LET v == parseSemver(latest.version)
        w == parseSemver(next.version)
        breaks == /\ w # None /\ v[1] = w[1] /\ less(v, w)
                  /\ detectBreakingChanges(latest, next) # {}
    IN  IF breaks THEN {[name |-> next.name, from |-> v, to |-> w]} ELSE {}

(* A faulty latestInTx, with the operands of less swapped.                 *)
earliestInTx(name) ==
    LET named == {d \in {schemas[k] : k \in DOMAIN schemas} :
                    d.name = name /\ parseSemver(d.version) # None}
    IN  {d \in named : \A e \in named : ~less(parseSemver(e.version), parseSemver(d.version))}

(* The schemas that latestInTx may answer: there is more than one when a   *)
(* version was published in several spellings.                             *)
latestInTx(name) ==
    LET named == {d \in {schemas[k] : k \in DOMAIN schemas} :
                    d.name = name /\ parseSemver(d.version) # None}
    IN  {d \in named : \A e \in named : ~less(parseSemver(d.version), parseSemver(e.version))}

(***************************************************************************)
(* PublishSchema                                                           *)
(***************************************************************************)
publishKey(d) == <<d.name, d.version>>

(* The meta-schema decides.                                                *)
validateAndParse(d) == d.valid

(* A faulty Publish that accepts a version again.                          *)
RefusedIfInvalid(d) == IF ~validateAndParse(d) THEN "InvalidArgument" ELSE "OK"

Refused(d) ==
    IF ~validateAndParse(d) THEN "InvalidArgument"
    ELSE IF Get(publishKey(d)) # None THEN "AlreadyExists" ELSE "OK"

Publish(d) ==
    /\ Refused(d) = "OK" /\ Len(published) < MaxPublished
    /\ IF latestInTx(d.name) = {} THEN UNCHANGED warnings
       ELSE \E latest \in latestInTx(d.name) : warnings' = warnings \cup warnIfBreaking(latest, d)
    /\ schemas' = [k \in DOMAIN schemas \cup {publishKey(d)} |->
                      IF k = publishKey(d) THEN d ELSE schemas[k]]
    /\ published' = Append(published, d)

(* A refused document leaves no trace.                                     *)
PublishSchema(id, d) ==
    \/ Authorize(id, "PublishSchema", None, <<>>) /\ Publish(d)
    \/ ~Authorize(id, "PublishSchema", None, <<>>) /\ UNCHANGED capabilityVars
    \/ Authorize(id, "PublishSchema", None, <<>>) /\ Refused(d) # "OK" /\ UNCHANGED capabilityVars

CapabilityNext == \E id \in Publishers, d \in Documents : PublishSchema(id, d)

CapabilitySpec == CapabilityInit /\ [][CapabilityNext]_capabilityVars

(***************************************************************************)
(* Properties                                                              *)
(***************************************************************************)
(* F-13: a schema, once published, stays what it is, whatever is published *)
(* after it and by whom.                                                   *)
PublishedSchemasAreImmutable ==
    [][\A k \in DOMAIN schemas : Get(k)' = Get(k)]_capabilityVars

(* What clients of a schema rely on, and versions as single numbers.       *)
Interface(d) ==
    {<<p, d.properties[p].Type>> : p \in DOMAIN d.properties} \cup {<<c>> : c \in DOMAIN d.commands}
    \cup UNION {{<<c, x, d.commands[c][x].Type>> : x \in DOMAIN d.commands[c]} : c \in DOMAIN d.commands}

Rank(v) == (v[1] * (MaxInt + 1) + v[2]) * (MaxInt + 1) + v[3]
Release(i) == Rank(parseSemver(published[i].version))
Releases(name) == {i \in DOMAIN published : published[i].name = name /\ parseSemver(published[i].version) # None}

(* While the releases of a schema appear in ascending order, nothing that  *)
(* clients of one of them rely on is missing from a later one with the     *)
(* same major version without a warning at one of the steps that lead from *)
(* the one to the other, although Publish only compares with the latest.   *)
BreakingUpgradesAreWarned ==
    \A i, j \in DOMAIN published :
      LET name == published[i].name
          ascending == \A k, l \in Releases(name) : l < k /\ k <= j => Release(l) < Release(k)
      IN  /\ i < j /\ {i, j} \subseteq Releases(name) /\ ascending
          /\ published[i].version.nums[1] = published[j].version.nums[1]
          /\ ~(Interface(published[i]) \subseteq Interface(published[j]))
          => \E w \in warnings : w.name = name /\ Rank(w.from) >= Release(i) /\ Rank(w.to) <= Release(j)
=============================================================================
