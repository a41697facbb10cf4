----------------------------- MODULE DeviceService -----------------------------
(***************************************************************************)
(* The request path of the gateway (internal/service/device_service.go)    *)
(* over the persistent registry (internal/registry/bbolt.go), the          *)
(* capability registry and the transport adapters: authentication,         *)
(* authorization, schema checks, routing, and a stop of the gateway at any *)
(* point followed by a start with another configuration.                   *)
(*                                                                         *)
(* A device has one property.  Presence is module Presence, subscribers    *)
(* are module Broker and commands are module CommandRouter; what an        *)
(* adapter does with a read or a write is its own module.                  *)
(***************************************************************************)
EXTENDS Auth

CONSTANTS Calls,         \* RPCs in flight
          DeviceIds,     \* IDs a registration may ask for
          AutoIds,       \* the IDs "dev-00001", "dev-00002", ... as a sequence
          Transports,
          Refs,          \* capability references of devices
          NoRef,         \* the one of them that is not of the form name@version
          Values,        \* property values
          Empty,         \* the one of them that holds nothing
          Schema,        \* the values the schema of a reference admits
          ACLs, Requests, Keys, Tokens,
          Configs,       \* gateway configurations: [adapters, capability]
          MaxRegistrations, MaxRestarts

ASSUME ServiceAssumption ==
    /\ NoRef \in Refs /\ Empty \in Values /\ None \notin Values
    /\ Schema \in [Refs -> SUBSET (Values \ {Empty})]
    /\ AutoIds \in Seq(STRING) /\ "store" \notin Transports /\ None \notin {"OK", "GetProperty", "SetProperty", "store"}
    /\ MaxRegistrations \in Nat /\ MaxRestarts \in Nat

(* ACLs are lists of entries, of which a new device has none, and API keys *)
(* have one of the roles.                                                  *)
ASSUME PolicyAssumption ==
    /\ <<>> \in ACLs
    /\ \A acl \in ACLs : DOMAIN acl \subseteq Nat /\ \A i \in DOMAIN acl : acl[i].Allow \in BOOLEAN
    /\ \A s \in DOMAIN Keys : Keys[s].role \in Roles

(* The places that hold values: the in-memory store, and the devices that  *)
(* are reached through the adapter of a transport.                         *)
Places == Transports \cup {"store"}

Ids == DeviceIds \cup {AutoIds[i] : i \in DOMAIN AutoIds}

VARIABLES
    config,      \* adapters: transports that have one; capability: schemas are checked
    devices,     \* the devices bucket
    sequence,    \* its sequence number
    schemas,     \* references published so far
    store,       \* the in-memory PropertyStore
    call,        \* the RPCs
    reply,       \* the answer given in the last step, if it gave one
    born,        \* number of registrations so far
    restarts,
    last         \* history: the last write to each place since the start

persistent == <<devices, sequence, schemas>>
vars == <<config, persistent, store, call, reply, born, restarts, last>>

IdleCall == [pc |-> "idle", op |-> None, permit |-> FALSE, dev |-> None, snap |-> None, val |-> None,
             code |-> None, from |-> None, wrote |-> FALSE]

(* A call goes on, ends without an effect, or ends having written.         *)
GoesOn(c, rec) == call' = [call EXCEPT ![c] = rec] /\ reply' = IdleCall
Answers(c, rec) == call' = [call EXCEPT ![c] = IdleCall] /\ reply' = rec
Ends(c, code) == Answers(c, [IdleCall EXCEPT !.code = code])
Effects(c, code) ==
    Answers(c, [IdleCall EXCEPT !.op = call[c].op, !.permit = call[c].permit, !.code = code, !.wrote = TRUE])

(* A gateway that has just started, before its first request.              *)
Started ==
    /\ config \in Configs
    /\ store = [d \in Ids |-> None]
    /\ call = [c \in Calls |-> IdleCall] /\ reply = IdleCall
    /\ last = [p \in Places |-> [d \in Ids |-> None]]

(* The first start, which creates the database.                            *)
Init ==
    /\ Started
    /\ devices = [d \in Ids |-> None]
    /\ sequence = 0
    /\ schemas = {}
    /\ born = 0 /\ restarts = 0

(***************************************************************************)
(* Routing: the adapter of a transport, built in or custom, or "store".    *)
(***************************************************************************)
HasAdapter(t) == t \in config.adapters

Reader(t) == IF HasAdapter(t) THEN t ELSE "store"

(* A faulty SetProperty whose http writes fall through to the store.       *)
WriterFallsThrough(t) == IF t = "http" THEN "store" ELSE Reader(t)

(* The http adapter has no writes.                                         *)
Writer(t) == IF t = "http" /\ Reader(t) = "http" THEN None ELSE Reader(t)

(***************************************************************************)
(* The error classes of the adapters and their status codes.               *)
(***************************************************************************)
mqttStatusError == [invalidTopic |-> "InvalidArgument", circuitOpen |-> "Unavailable",
                    deadline |-> "DeadlineExceeded", other |-> "Internal"]
httpStatusError == [status404 |-> "NotFound", status401 |-> "Unauthenticated", status403 |-> "PermissionDenied",
                    status408 |-> "DeadlineExceeded", status429 |-> "ResourceExhausted",
                    status5xx |-> "Unavailable", status4xx |-> "InvalidArgument",
                    deadline |-> "DeadlineExceeded", other |-> "Internal"]
canStatusError == [unknown |-> "NotFound", noFrameYet |-> "NotFound", missingLabel |-> "InvalidArgument",
                   notOpen |-> "Unavailable", deadline |-> "DeadlineExceeded", other |-> "Internal"]
customStatusError == [writeNotSupported |-> "Unimplemented", notFound |-> "NotFound",
                      invalidArgument |-> "InvalidArgument", deadline |-> "DeadlineExceeded", other |-> "Internal"]

(* The same for schemas.                                                   *)
capabilityRefStatusError == [notFound |-> "NotFound", propertyNotDeclared |-> "NotFound",
                             invalidPropertyValue |-> "InvalidArgument", other |-> "Internal"]

StatusError(t) == CASE t = "mqtt" -> mqttStatusError
                    [] t = "http" -> httpStatusError
                    [] t = "can"  -> canStatusError
                    [] OTHER      -> customStatusError

ErrorCodes(t) == {StatusError(t)[e] : e \in DOMAIN StatusError(t)}

(***************************************************************************)
(* Entering an RPC: authentication, then                                   *)
(*   - GetDevice, GetProperty, SetProperty: the registry lookup and        *)
(*     authorization against the device found;                             *)
(*   - RegisterDevice, ListDevices, DeleteDevice: authorization without a  *)
(*     device or, for a deletion, without its ACL.                         *)
(***************************************************************************)
(* A faulty entry that authorizes before it has the ACL.                   *)
AdmitWithoutACL(who, op, d) ==
    IF who.code # "OK" THEN who.code
    ELSE IF devices[d] = None THEN "NotFound"
    ELSE IF ~Authorize(who.id, op, d, <<>>) THEN "PermissionDenied" ELSE "OK"

Admit(who, op, d) ==
    IF who.code # "OK" THEN who.code
    ELSE IF devices[d] = None THEN "NotFound"
    ELSE IF ~Authorize(who.id, op, d, devices[d].ACL) THEN "PermissionDenied" ELSE "OK"

AdmitNoDevice(who, op, d) ==
    IF who.code # "OK" THEN who.code
    ELSE IF ~Authorize(who.id, op, IF op = "DeleteDevice" THEN d ELSE None, <<>>) THEN "PermissionDenied" ELSE "OK"

(* History of authorization: whether the table of req42.adoc F-19 and the  *)
(* override of F-20, which this restates apart from the code's matrix, let *)
(* id read or change what op does.  F-20 does not say which of two entries *)
(* that contradict each other counts.                                      *)
Permitted(id, op, d, acl) ==
    LET said == {acl[i].Allow : i \in {j \in DOMAIN acl : acl[j].Subject = id.Subject}}
    IN  IF said # {} THEN TRUE \in said
        ELSE \/ id.Role \in {"admin", "operator"}
             \/ id.Role = "reader" /\ op = "GetProperty"
             \/ id.Role = "device" /\ op = "RegisterDevice"
             \/ id.Role = "device" /\ op \in {"GetProperty", "SetProperty"} /\ id.DeviceID = d

(* c enters with code, and goes on if that is "OK" and final is FALSE.     *)
Entered(c, rec, code, final) ==
    IF code = "OK" /\ ~final THEN GoesOn(c, [rec EXCEPT !.pc = "checked"]) ELSE Ends(c, code)

Found(d) == [Transport |-> devices[d].Transport, Capability |-> devices[d].Capability, born |-> devices[d].born]

(* The values a request carries; some of the wire's are Empty here.        *)
fromProtoValue(op) == IF op = "SetProperty" THEN Values ELSE {None}

Enter(c) ==
    /\ call[c].pc = "idle"
    /\ \E op \in {"GetDevice", "GetProperty", "SetProperty"}, d \in Ids, req \in Requests :
       \E v \in fromProtoValue(op) :
          LET who == authenticate(req, Keys, Tokens)
          IN  Entered(c, [IdleCall EXCEPT !.op = op, !.dev = d, !.val = v, !.snap = Found(d),
                                           !.permit = Permitted(who.id, op, d, devices[d].ACL)],
                      Admit(who, op, d), op = "GetDevice")
    /\ UNCHANGED <<config, persistent, store, born, restarts, last>>

EnterNoDevice(c) ==
    /\ call[c].pc = "idle"
    /\ \E op \in {"RegisterDevice", "ListDevices", "DeleteDevice"}, req \in Requests :
       \E d \in CASE op = "RegisterDevice" -> DeviceIds \cup {None}
                  [] op = "ListDevices"    -> {None}
                  [] op = "DeleteDevice"   -> Ids :
          LET who == authenticate(req, Keys, Tokens)
          IN  Entered(c, [IdleCall EXCEPT !.op = op, !.dev = d, !.permit = Permitted(who.id, op, d, <<>>)],
                      AdmitNoDevice(who, op, d), op = "ListDevices")
    /\ UNCHANGED <<config, persistent, store, born, restarts, last>>

(***************************************************************************)
(* RegisterDevice                                                          *)
(***************************************************************************)
(* Whether a reference is of the form name@version.                        *)
splitCapabilityRef(r) == r # NoRef

(* F-14: the declared schema must exist.  Looking it up may fail otherwise. *)
CheckReference(c) ==
    /\ call[c].pc = "checked" /\ call[c].op = "RegisterDevice"
    /\ \E t \in Transports, r \in Refs :
          IF config.capability /\ ~splitCapabilityRef(r) THEN Ends(c, "NotFound")
          ELSE \/ config.capability /\ Ends(c, capabilityRefStatusError.other)
               \/ config.capability /\ r \notin schemas /\ Ends(c, capabilityRefStatusError.notFound)
               \/ /\ config.capability => r \in schemas
                  /\ GoesOn(c, [call[c] EXCEPT !.pc = "register",
                                               !.snap = [Transport |-> t, Capability |-> r, born |-> 0]])
    /\ UNCHANGED <<config, persistent, store, born, restarts, last>>

Registered(c, d) ==
    LET snap == [call[c].snap EXCEPT !.born = born + 1]
    IN  /\ devices' = [devices EXCEPT ![d] = [Transport |-> snap.Transport, Capability |-> snap.Capability,
                                              ACL |-> <<>>, born |-> snap.born]]
        /\ sequence' = sequence + (IF call[c].dev = None THEN 1 ELSE 0)
        /\ born' = born + 1
        /\ GoesOn(c, [call[c] EXCEPT !.pc = "watch", !.dev = d, !.snap = snap, !.wrote = TRUE])

(* A faulty registration that trusts a generated ID to be free.            *)
RegisterTrusting(c) ==
    LET d == IF call[c].dev = None THEN AutoIds[sequence + 1] ELSE call[c].dev
    IN  /\ call[c].pc = "register" /\ born < MaxRegistrations
        /\ call[c].dev = None => sequence < Len(AutoIds)
        /\ call[c].dev = None \/ devices[d] = None
        /\ Registered(c, d)
        /\ UNCHANGED <<config, schemas, store, restarts, last>>

(* BboltRegistry.Register, one transaction: a taken ID rolls the sequence  *)
(* number back with everything else.                                       *)
Register(c) ==
    LET d == IF call[c].dev = None THEN AutoIds[sequence + 1] ELSE call[c].dev
    IN  /\ call[c].pc = "register" /\ born < MaxRegistrations
        /\ call[c].dev = None => sequence < Len(AutoIds)
        /\ \/ /\ devices[d] # None
              /\ Ends(c, "AlreadyExists")
              /\ UNCHANGED <<devices, sequence, born>>
           \/ devices[d] = None /\ Registered(c, d)
        /\ UNCHANGED <<config, schemas, store, restarts, last>>

(* WatchDevice on the adapter, whose failure is ignored, and Touch, which  *)
(* are the adapters' and module Presence's.                                *)
Watch(c) ==
    /\ call[c].pc = "watch"
    /\ Effects(c, "OK")
    /\ UNCHANGED <<config, persistent, store, born, restarts, last>>

(* DeleteDevice leaves the PropertyStore as it is.                         *)
Delete(c) ==
    LET d == call[c].dev
    IN  /\ call[c].pc = "checked" /\ call[c].op = "DeleteDevice"
        /\ \/ devices[d] = None /\ Ends(c, "NotFound") /\ UNCHANGED devices
           \/ /\ devices[d] # None
              /\ devices' = [devices EXCEPT ![d] = None]
              /\ Effects(c, "OK")
        /\ UNCHANGED <<config, sequence, schemas, store, born, restarts, last>>

(***************************************************************************)
(* GetProperty                                                             *)
(***************************************************************************)
(* toProtoValue: a value that holds nothing cannot be answered.  It came   *)
(* from p.                                                                 *)
AnswersValue(c, p, v) ==
    IF v = Empty THEN Ends(c, "Internal")
    ELSE Answers(c, [IdleCall EXCEPT !.op = "GetProperty", !.permit = call[c].permit, !.code = "OK",
                                     !.val = v, !.from = p])

(* The PropertyStore.                                                      *)
Get(c, d) == IF store[d] = None THEN Ends(c, "NotFound") ELSE AnswersValue(c, "store", store[d])
Set(d, v) == store' = [store EXCEPT ![d] = v]

(* An adapter answers with a value that the device reported, or with an    *)
(* error.                                                                  *)
ReadProperty(c, h) ==
    \/ \E v \in Values : AnswersValue(c, h, v)
    \/ \E code \in ErrorCodes(h) : Ends(c, code)

Read(c) ==
    LET h == Reader(call[c].snap.Transport)
    IN  /\ call[c].pc = "checked" /\ call[c].op = "GetProperty"
        /\ \/ h = "store" /\ Get(c, call[c].dev)
           \/ h # "store" /\ ReadProperty(c, h)
        /\ UNCHANGED <<config, persistent, store, born, restarts, last>>

(***************************************************************************)
(* SetProperty                                                             *)
(***************************************************************************)
(* A faulty check that leaves adapters to judge their own values.          *)
ValidateStoreOnly(c) ==
    LET r == call[c].snap.Capability
    IN  /\ call[c].pc = "checked" /\ call[c].op = "SetProperty"
        /\ IF Reader(call[c].snap.Transport) = "store" /\ config.capability /\ call[c].val \notin Schema[r]
           THEN Ends(c, "InvalidArgument") ELSE GoesOn(c, [call[c] EXCEPT !.pc = "write"])
        /\ UNCHANGED <<config, persistent, store, born, restarts, last>>

(* F-15: the value against the schema.  A device with another kind of      *)
(* reference dates from before schemas were checked.  Looking the schema   *)
(* up may fail otherwise, and so may resolving a $ref of it.               *)
Validate(c) ==
    LET r == call[c].snap.Capability
    IN  /\ call[c].pc = "checked" /\ call[c].op = "SetProperty"
        /\ IF ~config.capability \/ ~splitCapabilityRef(r) THEN GoesOn(c, [call[c] EXCEPT !.pc = "write"])
           ELSE \/ Ends(c, capabilityRefStatusError.other)
                \/ IF r \notin schemas THEN Ends(c, capabilityRefStatusError.notFound)
                   ELSE IF Schema[r] = {} THEN Ends(c, capabilityRefStatusError.propertyNotDeclared)
                   ELSE IF call[c].val \notin Schema[r] THEN Ends(c, capabilityRefStatusError.invalidPropertyValue)
                   ELSE GoesOn(c, [call[c] EXCEPT !.pc = "write"])
        /\ UNCHANGED <<config, persistent, store, born, restarts, last>>

(* History: c's value went to p, checked against the registration c found. *)
Sent(c, p) ==
    last' = [last EXCEPT ![p][call[c].dev] = [val |-> call[c].val, ref |-> call[c].snap.Capability,
                                              born |-> call[c].snap.born]]

(* The write, with UpdateStatus (module Presence) and, where the adapter   *)
(* does not announce its own updates, Publish (module Broker).  Only these *)
(* two routes notice that a value holds nothing, once it is written.  What *)
(* a device makes of a value is its own matter: an acknowledgement says    *)
(* that it was received, an error need not mean that it was not.           *)
Write(c) ==
    LET d == call[c].dev
        h == Writer(call[c].snap.Transport)
        answer == IF call[c].val = Empty /\ h \notin {"mqtt", "can"} THEN "Internal" ELSE "OK"
    IN  /\ call[c].pc = "write"
        /\ \/ /\ h = None
              /\ Ends(c, "Unimplemented")
              /\ UNCHANGED <<store, last>>
           \/ /\ h = "store"
              /\ Set(d, call[c].val)
              /\ Sent(c, h)
              /\ Effects(c, answer)
           \/ /\ h \notin {None, "store"}
              /\ Sent(c, h)
              /\ \E code \in {answer} \cup ErrorCodes(h) : Effects(c, code)
              /\ UNCHANGED store
           \/ /\ h \notin {None, "store"}
              /\ \E code \in ErrorCodes(h) : Ends(c, code)
              /\ UNCHANGED <<store, last>>
        /\ UNCHANGED <<config, persistent, born, restarts>>

(***************************************************************************)
(* Schemas and ACLs; a stop and the next start.                            *)
(***************************************************************************)
(* CapabilityService.PublishSchema; what is published stays.               *)
PublishSchema(r) ==
    /\ r \notin schemas \cup {NoRef}
    /\ schemas' = schemas \cup {r}
    /\ reply' = IdleCall
    /\ UNCHANGED <<config, devices, sequence, store, call, born, restarts, last>>

UpdateACL(d) ==
    /\ devices[d] # None
    /\ \E acl \in ACLs : devices' = [devices EXCEPT ![d].ACL = acl]
    /\ reply' = IdleCall
    /\ UNCHANGED <<config, sequence, schemas, store, call, born, restarts, last>>

(* main.go opens the same database, perhaps with other adapters.           *)
Restart ==
    /\ restarts < MaxRestarts
    /\ restarts' = restarts + 1
    /\ config' \in Configs
    /\ store' = [d \in Ids |-> None]
    /\ call' = [c \in Calls |-> IdleCall] /\ reply' = IdleCall
    /\ last' = [p \in Places |-> [d \in Ids |-> None]]
    /\ UNCHANGED <<persistent, born>>

Handler(c) == \/ Enter(c) \/ EnterNoDevice(c) \/ CheckReference(c) \/ Register(c) \/ Watch(c)
              \/ Delete(c) \/ Read(c) \/ Validate(c) \/ Write(c)

Next ==
    \/ \E c \in Calls : Handler(c)
    \/ \E r \in Refs : PublishSchema(r)
    \/ \E d \in Ids : UpdateACL(d)
    \/ Restart

Spec == Init /\ [][Next]_vars

(***************************************************************************)
(* Properties                                                              *)
(***************************************************************************)
Device == [Transport : Transports, Capability : Refs, ACL : ACLs, born : 0..MaxRegistrations]

(* Records keep their shape; a registered device has a number of its own,  *)
(* and the sequence number never runs ahead of the registrations made.     *)
TypeOK ==
    /\ config \in Configs
    /\ devices \in [Ids -> Device \cup {None}]
    /\ born \in 0..MaxRegistrations /\ sequence \in 0..born
    /\ schemas \subseteq Refs \ {NoRef}
    /\ store \in [Ids -> Values \cup {None}]
    /\ \A c \in Calls : call[c].val \in Values \cup {None}

(* A call has read a value, or changed a value or a registration, only if  *)
(* the caller's role or the device's ACL, as the call found it, allows the *)
(* operation, whatever is deleted, registered or changed meanwhile.        *)
AuthorizedEffects ==
    \A r \in {reply} \cup {call[c] : c \in Calls} :
       r.wrote \/ (r.op = "GetProperty" /\ r.code = "OK") => r.permit

(* No write is invisible: wherever the last write for a registration went, *)
(* reads that find this registration, while it lasts, are answered from    *)
(* there.  The in-memory store always answers, with the very value that    *)
(* was written.                                                            *)
ReadsSeeWrites ==
    [][\A c \in Calls, p \in Places :
          LET d == call[c].dev
          IN  /\ call[c].op = "GetProperty" /\ call[c].pc = "checked" /\ reply'.code # None /\ call'[c] = IdleCall
              /\ devices[d] # None /\ devices[d].born = call[c].snap.born
              /\ last[p][d] # None /\ last[p][d].born = devices[d].born
              => /\ reply'.code = "OK" => reply'.from = p
                 /\ p = "store" /\ last[p][d].val # Empty => reply'.code = "OK" /\ reply'.val = last[p][d].val]_vars

(* The state has its types, and while schemas are checked, every value     *)
(* that was sent anywhere fits the published schema that the registration  *)
(* found by the call named, also when the device was deleted or registered *)
(* anew before the value arrived; and a value that breaks the schema of    *)
(* the registration it meets is from a call that found an earlier one.     *)
SchemaHolds ==
    TypeOK /\ (config.capability =>
       \A p \in Places, d \in Ids : last[p][d] # None =>
          LET w == last[p][d]
              r == devices[d].Capability
          IN  /\ w.ref # NoRef => w.ref \in schemas /\ w.val \in Schema[w.ref]
              /\ devices[d] # None /\ r # NoRef /\ w.val \notin Schema[r] => w.born < devices[d].born)

(* A registration never replaces another one: between two registrations    *)
(* of an ID lies a deletion.                                               *)
RegisterNeverReplaces ==
    [][\A d \in Ids : devices[d] # None /\ devices'[d] # None => devices'[d].born = devices[d].born]_vars
=============================================================================
