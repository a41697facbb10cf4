------------------------------- MODULE JwksCache -------------------------------
(***************************************************************************)
(* The signing keys of JWTValidator (internal/auth/jwt.go).  Every call of *)
(* Validate first refreshes the shared keys from the identity provider,    *)
(* falls back on what is cached when that fails, and gives up when the     *)
(* cache is too old as well.  Calls overlap, the provider rotates its keys *)
(* and may be unreachable.                                                 *)
(*                                                                         *)
(* A set of keys is the number of the provider's document it came from.    *)
(* Instead of points in time the model keeps the time since, in ticks, and *)
(* lets it saturate where nothing depends on it any more.                  *)
(***************************************************************************)
EXTENDS Integers

CONSTANTS
    Validations,        \* calls of Validate
    jwksMaxStaleness,   \* how long cached keys outlive a failing provider
    Timeout,            \* of the HTTP client, response body included
    MaxRotations        \* bound on the documents the provider publishes

ASSUME JwksAssumption ==
    /\ jwksMaxStaleness \in Nat /\ Timeout \in Nat
    /\ MaxRotations \in Nat

Documents == 0 .. MaxRotations

(* Ages that no comparison distinguishes from a greater one.               *)
Ancient == jwksMaxStaleness + Timeout + 1
Ages == 0 .. Ancient
Older(a) == IF a < Ancient THEN a + 1 ELSE a

VARIABLES
    current,    \* the document the provider serves
    replaced,   \* time since the provider replaced each document
    keys,       \* v.keys
    fetched,    \* time.Since(v.lastFetched)
    validation  \* the calls of Validate

jwksVars == <<current, replaced, keys, fetched, validation>>

(* pc: "idle"; "asking": the request is on its way; "answered": the answer *)
(* is; "refreshed": refresh returned; "decided": the verdict is out.       *)
(* waited is the time since the request, doc the document in the answer,   *)
(* and later the keys copied under the lock.                               *)
Validation ==
    [pc : {"idle", "asking", "answered", "refreshed", "decided"}, waited : 0 .. Timeout,
     doc : Documents, failed : BOOLEAN, code : {"none", "checked", "Unavailable"}]

NotValidating == [pc |-> "idle", waited |-> 0, doc |-> 0, failed |-> FALSE, code |-> "none"]

(* The ranges of the variables; above all, no request outlives the timeout. *)
JwksTypeOK ==
    /\ current \in Documents
    /\ replaced \in [Documents -> Ages]
    /\ keys \in Documents
    /\ fetched \in Ages
    /\ validation \in [Validations -> Validation]

(* NewJWTValidator returns once a first fetch succeeded.                   *)
JwksInit ==
    /\ current = 0
    /\ replaced = [d \in Documents |-> 0]
    /\ keys = 0 /\ fetched = 0
    /\ validation = [c \in Validations |-> NotValidating]

(***************************************************************************)
(* refresh                                                                 *)
(***************************************************************************)
Fetch(c) ==
    /\ validation[c].pc = "idle"
    /\ validation' = [validation EXCEPT ![c] = [NotValidating EXCEPT !.pc = "asking"]]
    /\ UNCHANGED <<current, replaced, keys, fetched>>

(* The provider answers with the document of the moment.                   *)
ProviderAnswers(c) ==
    /\ validation[c].pc = "asking"
    /\ validation' = [validation EXCEPT ![c].pc = "answered", ![c].doc = current]
    /\ UNCHANGED <<current, replaced, keys, fetched>>

(* A complete answer takes the place of the keys, whoever got the present  *)
(* ones and however new they are.                                          *)
Install(c) ==
    /\ validation[c].pc = "answered"
    /\ keys' = validation[c].doc /\ fetched' = 0
    /\ validation' = [validation EXCEPT ![c].pc = "refreshed"]
    /\ UNCHANGED <<current, replaced>>

(* A faulty refresh that counts attempts as fetches.                       *)
RefreshFailsButCounts(c) ==
    /\ validation[c].pc \in {"asking", "answered"}
    /\ validation' = [validation EXCEPT ![c].pc = "refreshed", ![c].failed = TRUE]
    /\ fetched' = 0
    /\ UNCHANGED <<current, replaced, keys>>

(* No connection, a timeout, a status other than 200, or a document        *)
(* without usable keys.                                                    *)
RefreshFails(c) ==
    /\ validation[c].pc \in {"asking", "answered"}
    /\ validation' = [validation EXCEPT ![c].pc = "refreshed", ![c].failed = TRUE]
    /\ UNCHANGED <<current, replaced, keys, fetched>>

(***************************************************************************)
(* Validate after refresh: keys and age are copied under the read lock;    *)
(* the token is then checked against the copy.                             *)
(***************************************************************************)
Decide(c) ==
    /\ validation[c].pc = "refreshed"
    /\ validation' = [validation EXCEPT ![c].pc = "decided", ![c].doc = keys, ![c].code =
            IF validation[c].failed /\ fetched > jwksMaxStaleness THEN "Unavailable" ELSE "checked"]
    /\ UNCHANGED <<current, replaced, keys, fetched>>

Return(c) ==
    /\ validation[c].pc = "decided"
    /\ validation' = [validation EXCEPT ![c] = NotValidating]
    /\ UNCHANGED <<current, replaced, keys, fetched>>

(***************************************************************************)
(* The provider and time.  Only requests take time: the code between the   *)
(* answer and the verdict waits for nothing but short critical sections.   *)
(***************************************************************************)
Rotate ==
    /\ current < MaxRotations
    /\ current' = current + 1
    /\ UNCHANGED <<replaced, keys, fetched, validation>>

Tick ==
    /\ \A c \in Validations : validation[c].pc \notin {"refreshed", "decided"}
    /\ \A c \in Validations :
          validation[c].pc \in {"asking", "answered"} => validation[c].waited < Timeout
    /\ replaced' = [d \in Documents |-> IF d < current THEN Older(replaced[d]) ELSE 0]
    /\ fetched' = Older(fetched)
    /\ validation' = [c \in Validations |->
                         IF validation[c].pc = "idle" THEN validation[c]
                         ELSE [validation[c] EXCEPT !.waited = @ + 1]]
    /\ UNCHANGED <<current, keys>>

ValidateStep(c) ==
    \/ Fetch(c) \/ ProviderAnswers(c) \/ Install(c) \/ RefreshFails(c)
    \/ Decide(c) \/ Return(c)

JwksNext ==
    \/ \E c \in Validations : ValidateStep(c)
    \/ Rotate
    \/ Tick

JwksSpec == JwksInit /\ [][JwksNext]_jwksVars

(***************************************************************************)
(* Properties                                                              *)
(***************************************************************************)
(* A token is checked against keys the provider served lately: within the  *)
(* client's timeout when the call's own refresh succeeded, although an     *)
(* older answer to another call may have replaced what it fetched; else    *)
(* within the staleness window on top of it.                               *)
ChecksByRecentKeys ==
    \A c \in Validations : validation[c].code = "checked" =>
        replaced[validation[c].doc] <=
            IF validation[c].failed THEN jwksMaxStaleness + Timeout ELSE Timeout
=============================================================================
