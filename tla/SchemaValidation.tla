--------------------------- MODULE SchemaValidation ---------------------------
(***************************************************************************)
(* The validation of property values by the schemas of the capability      *)
(* registry (internal/capability/schema.go and validate.go): references    *)
(* between types are followed, then kind, range and enumeration decide.    *)
(***************************************************************************)
EXTENDS Capability

CONSTANTS
    Values,         \* property values: [kind, val]
    NaN,            \* the float64 that is not a number
    Float64,        \* float64(n), for every int n
    Paths           \* property paths

Ints == -MaxInt - 1 .. MaxInt

(* A value is of one kind, and numbers are in the range of int.            *)
ASSUME ValuesAssumption ==
    \A v \in Values : /\ v = [kind |-> v.kind, val |-> v.val]
                      /\ v.kind = "int" => v.val \in Ints
                      /\ v.kind = "float" => v.val \in Ints \cup {NaN}

FloatBounds(t) == \A n \in Ints : n \in {t.Min, t.Max} => Float64[n] = n

(* A conversion to float64 rounds an int to a neighbouring float64, so it  *)
(* keeps the order and the bounds of schemas, which are float64s already.  *)
ASSUME FloatAssumption ==
    /\ NaN \notin Int
    /\ Float64 \in [Ints -> -MaxInt - 1 .. MaxInt + 1]
    /\ \A m, n \in Ints : m <= n => Float64[m] <= Float64[n]
    /\ \A d \in Documents : d.valid =>
          \A types \in {d.definitions, d.properties} : \A x \in DOMAIN types : FloatBounds(types[x])

(* One turn of ResolveType's loop.  The type None stands for the errors: a *)
(* circular or an undefined reference.                                     *)
FollowRef(s, c) ==
    IF c.type = None \/ c.type.Ref = None THEN c
    ELSE IF c.type.Ref \in c.seen \/ c.type.Ref \notin DOMAIN s.definitions
    THEN [c EXCEPT !.type = None]
    ELSE [type |-> s.definitions[c.type.Ref], seen |-> c.seen \cup {c.type.Ref}]

(* Before the loop, and after each number of turns.                        *)
Unresolved(t) == [type |-> t, seen |-> {}]

Turns(s, t, n) ==
    LET turn[k \in 0 .. n] == IF k = 0 THEN Unresolved(t) ELSE FollowRef(s, turn[k - 1])
    IN  turn

(* A faulty ResolveType that resolves one reference only.                  *)
ResolveOnce(s, t) ==
    IF t.Ref = None THEN t
    ELSE IF t.Ref \in DOMAIN s.definitions /\ s.definitions[t.Ref].Ref = None THEN s.definitions[t.Ref]
    ELSE None

(* A turn that does not end the loop has seen another definition, so that  *)
(* the loop is over one turn after there are no more.                      *)
ResolveType(s, t) ==
    LET n == Cardinality(DOMAIN s.definitions) + 1 IN Turns(s, t, n)[n].type

(* NaN is neither below nor above anything.                                *)
checkRange(t, x) ==
    x = NaN \/ ((t.Min # None => x >= t.Min) /\ (t.Max # None => x <= t.Max))

TypeNames == {"bool", "int", "float", "string", "bytes", "enum", "array", "object"}

Conforms(t, v) ==
    \/ t.Type \in {"bool", "string", "bytes"} /\ v.kind = t.Type
    \/ t.Type = "int" /\ v.kind = "int" /\ checkRange(t, Float64[v.val])
    \/ t.Type = "float" /\ v.kind = "float" /\ checkRange(t, v.val)
    \/ t.Type = "enum" /\ v.kind = "string" /\ v.val \in t.Values
    \/ t.Type \in {"array", "object"}

(* A reference to "" passes the meta-schema and is a type without a name.  *)
validateValue(t, v) ==
    IF t.Type \notin TypeNames THEN "Internal"
    ELSE IF Conforms(t, v) THEN "OK" ELSE "InvalidArgument"

ValidateProperty(s, path, v) ==
    IF path \notin DOMAIN s.properties THEN "NotFound"
    ELSE LET t == ResolveType(s, s.properties[path])
         IN  IF t = None THEN "Internal" ELSE validateValue(t, v)
-----------------------------------------------------------------------------
(* A concrete type's values; what else float64 cannot tell from them; and  *)
(* the definitions that references lead to: those in every set that holds  *)
(* the first and whatever its members refer to.                            *)
Above(t) == IF t.Min = None THEN -MaxInt - 1 ELSE t.Min
Below(t) == IF t.Max = None THEN MaxInt + 1 ELSE t.Max
Domain(t) == CASE t.Type \in {"int", "float"} -> {[kind |-> t.Type, val |-> n] : n \in Above(t) .. Below(t)}
               [] t.Type = "enum"             -> {[kind |-> "string", val |-> x] : x \in t.Values}
               [] t.Type \in {"array", "object"} -> Values
               [] OTHER                       -> {v \in Values : v.kind = t.Type}

Blurred(t) == CASE t.Type = "int"   -> {[kind |-> "int", val |-> n] :
                                            n \in {x \in Ints : Float64[x] # x /\ Float64[x] \in Above(t) .. Below(t)}}
                [] t.Type = "float" -> {[kind |-> "float", val |-> NaN]}
                [] OTHER            -> {}

Closed(s, R) == \A x \in R : s.definitions[x].Ref \in DOMAIN s.definitions => s.definitions[x].Ref \in R
LeadsTo(s, n) ==
    {m \in DOMAIN s.definitions : \A R \in SUBSET DOMAIN s.definitions : n \in R /\ Closed(s, R) => m \in R}

Targets(s, t) ==
    LET types == IF t.Ref \in DOMAIN s.definitions
                 THEN {s.definitions[m] : m \in LeadsTo(s, t.Ref)} ELSE {t}
    IN  {x \in types : x.Ref = None /\ x.Type \in TypeNames}

(* ValidateProperty accepts all values of the type that a property leads   *)
(* to through its references, and no others but NaN, which passes for a    *)
(* float whatever its range, and the ints that are outside the range and   *)
(* rounded into it; it tells undeclared properties and references that     *)
(* lead nowhere from values that do not fit.                               *)
ValidationIsExact ==
    \A k \in DOMAIN schemas, path \in Paths, v \in Values :
      LET s == Get(k)
          types == IF path \in DOMAIN s.properties THEN Targets(s, s.properties[path]) ELSE {}
      IN  ValidateProperty(s, path, v) =
            IF path \notin DOMAIN s.properties THEN "NotFound"
            ELSE IF types = {} THEN "Internal"
            ELSE IF \E t \in types : v \in Domain(t) \cup Blurred(t) THEN "OK" ELSE "InvalidArgument"
=============================================================================
