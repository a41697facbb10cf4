------------------------ MODULE DeviceService_proofs ------------------------
(***************************************************************************)
(* Proofs about DeviceService, for any number of concurrent calls, any     *)
(* devices, transports, schemas, policies and configurations; and about    *)
(* JwksCache, which checks the tokens of those calls.                      *)
(***************************************************************************)
EXTENDS DeviceService, JwksCache, WellFoundedInduction, TLAPS

(* A non-empty set of positions in an ACL has a first one.                 *)
LEMMA FirstPosition ==
  ASSUME NEW S, S \subseteq Nat, S # {}
  PROVE  \E i \in S : \A j \in S : i <= j
<1>1. PICK i \in S : \A j \in S : ~(<<j, i>> \in OpToRel(<, Nat))
  BY NatLessThanWellFounded, WFMin, Zenon
<1>2. \A j \in S : ~(j < i)
  BY <1>1, Zenon DEF OpToRel
<1> QED
  BY <1>2

(* An ACL of the devices bucket, or of no device.                          *)
LEMMA AuthorizeIsPermission ==
  ASSUME NEW id, id.Role \in Roles, NEW acl \in ACLs, NEW d,
         NEW op \in {"GetProperty", "SetProperty", "RegisterDevice", "DeleteDevice"},
         NEW x, op \in {"GetProperty", "SetProperty"} => x = d,
         Authorize(id, op, x, acl)
  PROVE  Permitted(id, op, d, acl)
<1> DEFINE mine == {i \in DOMAIN acl : acl[i].Subject = id.Subject}
           said == {acl[i].Allow : i \in {j \in DOMAIN acl : acl[j].Subject = id.Subject}}
<1>1. CASE mine # {}
  <2> DEFINE first == CHOOSE i \in mine : \A j \in mine : i <= j
  <2>1. first \in mine
    BY <1>1, FirstPosition, PolicyAssumption, Zenon
  <2>2. acl[first].Allow
    BY <1>1 DEF Authorize
  <2>3. acl[first].Allow = TRUE
    BY <2>1, <2>2, PolicyAssumption
  <2> HIDE DEF first
  <2>4. TRUE \in said
    BY <2>1, <2>3, Zenon
  <2> QED
    BY <2>4, Zenon DEF Permitted
<1>2. CASE mine = {}
  <2>1. rbacAllows(id, op, x)
    BY <1>2 DEF Authorize
  <2>2. said = {}
    BY <1>2
  <2>3. \/ id.Role \in {"admin", "operator"}
        \/ id.Role = "reader" /\ op = "GetProperty"
        \/ id.Role = "device" /\ op = "RegisterDevice"
        \/ id.Role = "device" /\ op \in {"GetProperty", "SetProperty"} /\ id.DeviceID = d
    BY <2>1 DEF rbacAllows, rbac, Row, Roles
  <2> QED
    BY <2>2, <2>3, Zenon DEF Permitted
<1> QED
  BY <1>1, <1>2

(* Authorize decides what the table of F-19 and the override of F-20 say,  *)
(* for an existing device and an ACL that does not contradict itself about *)
(* a subject: nobody gets in who may not, nobody is refused who may        *)
(* (internal/auth: Authorize, rbacAllows).                                 *)
THEOREM AuthorizeFollowsThePolicy ==
  ASSUME NEW id, id.Role \in Roles, NEW d, d # None, NEW acl \in ACLs,
         \A i, j \in DOMAIN acl : acl[i].Subject = acl[j].Subject => acl[i].Allow = acl[j].Allow,
         NEW op \in {"GetProperty", "SetProperty", "RegisterDevice", "DeleteDevice"}
  PROVE  Authorize(id, op, d, acl) <=> Permitted(id, op, d, acl)
<1> DEFINE mine == {i \in DOMAIN acl : acl[i].Subject = id.Subject}
           said == {acl[i].Allow : i \in {j \in DOMAIN acl : acl[j].Subject = id.Subject}}
<1>1. Authorize(id, op, d, acl) => Permitted(id, op, d, acl)
  BY AuthorizeIsPermission
<1>2. ASSUME Permitted(id, op, d, acl), mine # {} PROVE Authorize(id, op, d, acl)
  <2> DEFINE first == CHOOSE i \in mine : \A j \in mine : i <= j
  <2>1. first \in mine
    BY <1>2, FirstPosition, PolicyAssumption, Zenon
  <2>2. said # {}
    BY <2>1, Zenon
  <2>3. TRUE \in said
    BY <1>2, <2>2, Zenon DEF Permitted
  <2>4. PICK i \in mine : acl[i].Allow = TRUE
    BY <2>3, Zenon
  <2> HIDE DEF first
  <2>5. acl[first].Allow
    BY <2>1, <2>4
  <2> QED
    BY <1>2, <2>5 DEF first, Authorize
<1>3. ASSUME Permitted(id, op, d, acl), mine = {} PROVE Authorize(id, op, d, acl)
  <2>1. said = {}
    BY <1>3
  <2>2. \/ id.Role \in {"admin", "operator"}
        \/ id.Role = "reader" /\ op = "GetProperty"
        \/ id.Role = "device" /\ op = "RegisterDevice"
        \/ id.Role = "device" /\ op \in {"GetProperty", "SetProperty"} /\ id.DeviceID = d
    BY <1>3, <2>1, Zenon DEF Permitted
  <2>3. rbacAllows(id, op, d)
    BY <2>2 DEF rbacAllows, rbac, Row, Roles
  <2> QED
    BY <1>3, <2>3 DEF Authorize
<1> QED
  BY <1>1, <1>2, <1>3

(* Whoever is let in has one of the roles.                                 *)
LEMMA AuthenticateGivesRole ==
  ASSUME NEW req, authenticate(req, Keys, Tokens).code = "OK"
  PROVE  authenticate(req, Keys, Tokens).id.Role \in Roles
<1>1. CASE req.cert # None
  BY <1>1 DEF authenticate, Identified, IdentityFromPeerCert, Roles
<1>2. CASE req.cert = None /\ req.key # None
  <2> DEFINE match == {s \in DOMAIN Keys : Keys[s].key = req.key}
             s == CHOOSE s \in match : TRUE
  <2>1. authenticate(req, Keys, Tokens) = Authenticate(req.key, Keys)
    BY <1>2 DEF authenticate
  <2>2. match # {}
    BY <2>1 DEF Authenticate, Rejected
  <2>3. s \in DOMAIN Keys
    BY <2>2
  <2>4. Authenticate(req.key, Keys) = [id |-> [Subject |-> s, Role |-> Keys[s].role, DeviceID |-> None],
                                       code |-> "OK"]
    BY <2>2 DEF Authenticate, Identified
  <2> HIDE DEF s
  <2> QED
    BY <2>1, <2>3, <2>4, PolicyAssumption
<1>3. CASE req.cert = None /\ req.key = None
  BY <1>3 DEF authenticate, ValidateToken, Identified, Rejected, parseRole, Roles
<1> QED
  BY <1>1, <1>2, <1>3
-----------------------------------------------------------------------------
(***************************************************************************)
(* The inductive invariant.                                                *)
(***************************************************************************)
Snapshot == [Transport : Transports, Capability : Refs, born : 0 .. MaxRegistrations]
Ops == {"GetDevice", "GetProperty", "SetProperty", "RegisterDevice", "ListDevices", "DeleteDevice"}
Call == [pc : {"idle", "checked", "register", "watch", "write"}, op : Ops \cup {None},
         permit : BOOLEAN, dev : Ids \cup {None}, snap : Snapshot \cup {None},
         val : Values \cup {None}, code : {None}, from : {None}, wrote : BOOLEAN]
SentValue == [val : Values, ref : Refs, born : 0 .. MaxRegistrations]

Types ==
    /\ TypeOK
    /\ call \in [Calls -> Call]
    /\ last \in [Places -> [Ids -> SentValue \cup {None}]]

(* What is known of registration number b, of an ID d: it is not newer     *)
(* than the one there is, and if it is that one, it has this transport and *)
(* this reference.                                                         *)
Tells(d, b, t, r) ==
    /\ b <= born
    /\ devices[d] # None =>
          /\ b <= devices[d].born
          /\ b = devices[d].born => devices[d].Transport = t /\ devices[d].Capability = r

(* A handler found out about a device before it went on.                   *)
Knows(r) ==
    /\ r.dev \in Ids /\ r.snap \in Snapshot
    /\ Tells(r.dev, r.snap.born, r.snap.Transport, r.snap.Capability)

Fits(v, r) == config.capability /\ r # NoRef => r \in schemas /\ v \in Schema[r]

CallOK(r) ==
    /\ r.pc = "idle" => r = IdleCall
    /\ r.pc # "idle" => r.permit
    /\ r.pc = "write" => r.op = "SetProperty"
    /\ r.pc \in {"register", "watch"} => r.op = "RegisterDevice" /\ r.snap \in Snapshot
    /\ r.pc = "checked" /\ r.op = "DeleteDevice" => r.dev \in Ids
    /\ r.pc # "idle" /\ r.op \in {"GetProperty", "SetProperty"} => Knows(r)
    /\ r.pc # "idle" /\ r.op = "SetProperty" => r.val \in Values
    /\ r.pc = "write" => Fits(r.val, r.snap.Capability)

(* The last write to a place, and the registration its call had found.     *)
SentOK(p, d) == last[p][d] # None =>
    /\ p = "store" => store[d] = last[p][d].val
    /\ \E t \in Transports : p = Reader(t) /\ Tells(d, last[p][d].born, t, last[p][d].ref)
    /\ Fits(last[p][d].val, last[p][d].ref)

IInv ==
    /\ Types
    /\ \A c \in Calls : CallOK(call[c])
    /\ \A d \in Ids : devices[d] # None => devices[d].born <= born
    /\ \A p \in Places, d \in Ids : SentOK(p, d)

(* The answer of the last step.                                            *)
GoodReply == reply.wrote \/ (reply.op = "GetProperty" /\ reply.code = "OK") => reply.permit
-----------------------------------------------------------------------------
(* A call that is not underway has done nothing.                           *)
LEMMA IdleIsOK == IdleCall \in Call /\ CallOK(IdleCall) /\ CallOK(IdleCall)'
<1>1. IdleCall \in Call
  BY DEF IdleCall, Call
<1> QED
  BY <1>1 DEF CallOK, IdleCall

(* The database of a first start is empty.                                 *)
LEMMA InitIInv == Init => IInv /\ GoodReply
<1> SUFFICES ASSUME Init PROVE IInv /\ GoodReply
  OBVIOUS
<1>1. TypeOK
  <2>1. call = [c \in Calls |-> IdleCall] /\ IdleCall.val \in Values \cup {None}
    BY DEF Init, Started, IdleCall
  <2> QED
    BY <2>1, ServiceAssumption DEF Init, Started, TypeOK
<1>2. Types
  BY <1>1, IdleIsOK DEF Init, Started, Types
<1>3. ASSUME NEW c \in Calls PROVE CallOK(call[c])
  BY IdleIsOK DEF Init, Started
<1>4. ASSUME NEW d \in Ids PROVE devices[d] = None /\ \A p \in Places : SentOK(p, d)
  BY DEF Init, Started, SentOK
<1>5. GoodReply
  BY ServiceAssumption DEF Init, Started, GoodReply, IdleCall
<1> QED
  BY <1>2, <1>3, <1>4, <1>5, Zenon DEF IInv

(* What was known of registrations remains true.                           *)
StillTrue == \A d \in Ids, b \in 0 .. MaxRegistrations : \A t, r : Tells(d, b, t, r) => Tells(d, b, t, r)'

(* Steps that change no registration, and no schema but a new one, leave   *)
(* alone what calls and writes rely on.                                    *)
LEMMA SameDevices ==
  ASSUME UNCHANGED <<devices, born>>
  PROVE  StillTrue
  BY DEF StillTrue, Tells

LEMMA CallStays ==
  ASSUME NEW r, CallOK(r), StillTrue, UNCHANGED config, schemas \subseteq schemas'
  PROVE  CallOK(r)'
<1>1. Knows(r) => Knows(r)'
  <2> SUFFICES ASSUME Knows(r) PROVE Knows(r)'
    OBVIOUS
  <2>1. r.snap.born \in 0 .. MaxRegistrations /\ r.dev \in Ids
    BY DEF Knows, Snapshot
  <2> QED
    BY <2>1, Zenon DEF Knows, StillTrue
<1>2. Fits(r.val, r.snap.Capability) => Fits(r.val, r.snap.Capability)'
  BY DEF Fits
<1> QED
  BY <1>1, <1>2, Zenon DEF CallOK

LEMMA SentStays ==
  ASSUME Types, NEW p \in Places, NEW d \in Ids, SentOK(p, d), StillTrue,
         UNCHANGED <<config, store, last>>, schemas \subseteq schemas'
  PROVE  SentOK(p, d)'
<1> SUFFICES ASSUME last[p][d] # None PROVE SentOK(p, d)'
  BY DEF SentOK
<1>1. PICK t \in Transports : p = Reader(t) /\ Tells(d, last[p][d].born, t, last[p][d].ref)
  BY DEF SentOK
<1>2. last[p][d].born \in 0 .. MaxRegistrations
  BY DEF Types, SentValue
<1>3. Tells(d, last[p][d].born, t, last[p][d].ref)'
  <2>1. \A b \in 0 .. MaxRegistrations : \A u, r : Tells(d, b, u, r) => Tells(d, b, u, r)'
    BY DEF StillTrue
  <2>2. PICK b, r : b \in 0 .. MaxRegistrations /\ b = last[p][d].born /\ r = last[p][d].ref
    BY <1>2
  <2>3. Tells(d, b, t, r)'
    BY <1>1, <2>1, <2>2, Zenon
  <2> QED
    BY <2>2, <2>3
<1>4. Reader(t)' = Reader(t)
  BY DEF Reader, HasAdapter
<1>5. Fits(last[p][d].val, last[p][d].ref)'
  BY DEF SentOK, Fits
<1> QED
  BY <1>1, <1>3, <1>4, <1>5 DEF SentOK

(* A step that changes only where one call is, and perhaps registrations.  *)
LEMMA OneCall ==
  ASSUME IInv, NEW c \in Calls, NEW rec \in Call, CallOK(rec)',
         call' = [call EXCEPT ![c] = rec],
         devices' \in [Ids -> Device \cup {None}],
         born' \in 0 .. MaxRegistrations, sequence' \in 0 .. born',
         \A d \in Ids : devices'[d] # None => devices'[d].born <= born',
         StillTrue, UNCHANGED <<config, schemas, store, last>>
  PROVE  IInv'
<1>1. call' \in [Calls -> Call] /\ \A x \in Calls : call'[x] = IF x = c THEN rec ELSE call[x]
  BY DEF IInv, Types
<1>2. \A x \in Calls : call'[x].val \in Values \cup {None}
  BY <1>1 DEF Call
<1>3. Types'
  BY <1>1, <1>2, Zenon DEF IInv, Types, TypeOK
<1>4. ASSUME NEW x \in Calls PROVE CallOK(call[x])'
  <2>1. CASE x = c
    <3>1. call'[x] = rec
      BY <1>1, <2>1
    <3> QED
      BY <3>1
  <2>2. CASE x # c
    <3>1. call'[x] = call[x] /\ CallOK(call[x])
      BY <1>1, <2>2 DEF IInv
    <3>2. PICK r : r = call[x]
      OBVIOUS
    <3>3. CallOK(r)'
      BY <3>1, <3>2, CallStays
    <3> QED
      BY <3>1, <3>2, <3>3
  <2> QED
    BY <2>1, <2>2
<1>5. ASSUME NEW p \in Places, NEW d \in Ids PROVE SentOK(p, d)'
  BY SentStays DEF IInv
<1> QED
  BY <1>3, <1>4, <1>5, Zenon DEF IInv

(* The same, and no registration changes either.                           *)
LEMMA OnlyCall ==
  ASSUME IInv, NEW c \in Calls, NEW rec \in Call, CallOK(rec),
         call' = [call EXCEPT ![c] = rec],
         UNCHANGED <<config, persistent, store, born, last>>
  PROVE  IInv'
<1>1. StillTrue /\ CallOK(rec)'
  BY SameDevices, CallStays DEF persistent
<1>2. /\ UNCHANGED <<config, devices, sequence, schemas, store, born, last>>
      /\ devices' \in [Ids -> Device \cup {None}] /\ born' \in 0 .. MaxRegistrations /\ sequence' \in 0 .. born'
      /\ \A d \in Ids : devices'[d] # None => devices'[d].born <= born'
  BY Zenon DEF persistent, IInv, Types, TypeOK
<1> QED
  BY <1>1, <1>2, OneCall, Zenon

(* A step without an answer, or with one that had no effect.               *)
LEMMA NoEffect ==
  ASSUME \/ reply' = IdleCall
         \/ \E code : reply' = [IdleCall EXCEPT !.code = code]
  PROVE  GoodReply'
<1>1. ~reply'.wrote /\ reply'.op = None /\ (reply' = IdleCall => reply'.code = None)
  BY DEF IdleCall
<1>2. None # "GetProperty" /\ None # "SetProperty"
  BY ServiceAssumption
<1> QED
  BY <1>1, <1>2 DEF GoodReply

(* A call ends.                                                            *)
LEMMA EndsIsOK ==
  ASSUME IInv, NEW c \in Calls, NEW code, Ends(c, code),
         UNCHANGED <<config, persistent, store, born, last>>
  PROVE  IInv' /\ GoodReply'
<1>1. call' = [call EXCEPT ![c] = IdleCall] /\ reply' = [IdleCall EXCEPT !.code = code]
  BY DEF Ends, Answers
<1>2. IInv'
  BY <1>1, IdleIsOK, OnlyCall, Zenon
<1> QED
  BY <1>1, <1>2, NoEffect, Zenon

(* A call goes on.                                                         *)
LEMMA GoesOnIsOK ==
  ASSUME IInv, NEW c \in Calls, NEW rec \in Call, CallOK(rec), GoesOn(c, rec),
         UNCHANGED <<config, persistent, store, born, last>>
  PROVE  IInv' /\ GoodReply'
<1>1. call' = [call EXCEPT ![c] = rec] /\ reply' = IdleCall
  BY DEF GoesOn
<1> QED
  BY <1>1, OnlyCall, NoEffect, Zenon

(* The record of a call that goes on after it was entered.                 *)
LEMMA EntryRecord ==
  ASSUME NEW r \in Call, r.wrote = FALSE
  PROVE  LET rec == [r EXCEPT !.pc = "checked"]
         IN  /\ rec \in Call /\ rec.pc = "checked"
             /\ rec.op = r.op /\ rec.permit = r.permit /\ rec.dev = r.dev
             /\ rec.snap = r.snap /\ rec.val = r.val
  BY DEF Call

(* GetDevice, GetProperty and SetProperty enter with what they found.      *)
LEMMA EnterIsOK ==
  ASSUME IInv, NEW c \in Calls, Enter(c)
  PROVE  IInv' /\ GoodReply'
<1>1. PICK op \in {"GetDevice", "GetProperty", "SetProperty"}, d \in Ids, req \in Requests :
      \E v \in fromProtoValue(op) :
          LET who == authenticate(req, Keys, Tokens)
          IN  Entered(c, [IdleCall EXCEPT !.op = op, !.dev = d, !.val = v, !.snap = Found(d),
                                           !.permit = Permitted(who.id, op, d, devices[d].ACL)],
                      Admit(who, op, d), op = "GetDevice")
  BY Zenon DEF Enter
<1> DEFINE who == authenticate(req, Keys, Tokens)
           permit == Permitted(who.id, op, d, devices[d].ACL)
<1>2. PICK v \in fromProtoValue(op) :
          Entered(c, [IdleCall EXCEPT !.op = op, !.dev = d, !.val = v, !.snap = Found(d),
                                       !.permit = permit], Admit(who, op, d), op = "GetDevice")
  BY <1>1, Zenon
<1> DEFINE r == [IdleCall EXCEPT !.op = op, !.dev = d, !.val = v, !.snap = Found(d), !.permit = permit]
           rec == [r EXCEPT !.pc = "checked"]
<1>3. UNCHANGED <<config, persistent, store, born, last>>
  BY DEF Enter
<1>4. \/ Ends(c, Admit(who, op, d))
      \/ Admit(who, op, d) = "OK" /\ op # "GetDevice" /\ GoesOn(c, rec)
  BY <1>2 DEF Entered
<1> HIDE DEF who
<1>5. CASE Ends(c, Admit(who, op, d))
  BY <1>3, <1>5, EndsIsOK
<1>6. CASE Admit(who, op, d) = "OK" /\ op # "GetDevice" /\ GoesOn(c, rec)
  <2>1. /\ who.code = "OK" /\ devices[d] # None
        /\ Authorize(who.id, op, d, devices[d].ACL)
    BY <1>6 DEF Admit
  <2>2. devices[d] \in Device
    BY <2>1 DEF IInv, Types, TypeOK
  <2>3. who.id.Role \in Roles
    BY <2>1, AuthenticateGivesRole DEF who
  <2>4. permit
    BY <1>6, <2>1, <2>2, <2>3, AuthorizeIsPermission DEF Device
  <2>5. Found(d) \in Snapshot /\ Found(d).born = devices[d].born
        /\ Found(d).Transport = devices[d].Transport /\ Found(d).Capability = devices[d].Capability
    BY <2>2 DEF Found, Device, Snapshot
  <2>6. v \in Values \cup {None} /\ (op = "SetProperty" => v \in Values)
    BY DEF fromProtoValue
  <2>7. permit = TRUE
    BY <2>4, Zenon DEF Permitted
  <2> HIDE DEF permit
  <2>8. /\ r \in Call /\ r.wrote = FALSE
        /\ r.op = op /\ r.permit = TRUE /\ r.dev = d /\ r.snap = Found(d) /\ r.val = v
    <3>1. IdleCall \in Call /\ IdleCall.wrote = FALSE /\ op \in Ops
      BY IdleIsOK DEF IdleCall, Ops
    <3> QED
      BY <2>5, <2>6, <2>7, <3>1, Zenon DEF Call
  <2> HIDE DEF r
  <2>9. /\ rec \in Call /\ rec.pc = "checked"
        /\ rec.op = op /\ rec.permit = TRUE /\ rec.dev = d /\ rec.snap = Found(d) /\ rec.val = v
    BY <2>8, EntryRecord, Zenon
  <2> HIDE DEF rec
  <2>10. devices[d].born <= born /\ devices[d].born \in Nat
    BY <2>1, <2>2 DEF IInv, Device
  <2>11. Knows(rec)
    BY <2>5, <2>9, <2>10 DEF Knows, Tells
  <2>12. CallOK(rec)
    BY <1>6, <2>6, <2>9, <2>11 DEF CallOK
  <2> QED
    BY <1>3, <1>6, <2>9, <2>12, GoesOnIsOK
<1> QED
  BY <1>4, <1>5, <1>6

(* RegisterDevice, ListDevices and DeleteDevice enter.                     *)
LEMMA EnterNoDeviceIsOK ==
  ASSUME IInv, NEW c \in Calls, EnterNoDevice(c)
  PROVE  IInv' /\ GoodReply'
<1>1. PICK op \in {"RegisterDevice", "ListDevices", "DeleteDevice"}, req \in Requests :
      \E d \in CASE op = "RegisterDevice" -> DeviceIds \cup {None}
                 [] op = "ListDevices"    -> {None}
                 [] op = "DeleteDevice"   -> Ids :
          LET who == authenticate(req, Keys, Tokens)
          IN  Entered(c, [IdleCall EXCEPT !.op = op, !.dev = d, !.permit = Permitted(who.id, op, d, <<>>)],
                      AdmitNoDevice(who, op, d), op = "ListDevices")
  BY Zenon DEF EnterNoDevice
<1> DEFINE who == authenticate(req, Keys, Tokens)
<1>2. PICK d \in CASE op = "RegisterDevice" -> DeviceIds \cup {None}
                   [] op = "ListDevices"    -> {None}
                   [] op = "DeleteDevice"   -> Ids :
          Entered(c, [IdleCall EXCEPT !.op = op, !.dev = d, !.permit = Permitted(who.id, op, d, <<>>)],
                  AdmitNoDevice(who, op, d), op = "ListDevices")
  BY <1>1, Zenon
<1> DEFINE permit == Permitted(who.id, op, d, <<>>)
           r == [IdleCall EXCEPT !.op = op, !.dev = d, !.permit = permit]
           rec == [r EXCEPT !.pc = "checked"]
<1>3. UNCHANGED <<config, persistent, store, born, last>>
  BY DEF EnterNoDevice
<1>4. d \in Ids \cup {None} /\ (op = "DeleteDevice" => d \in Ids)
  BY DEF Ids
<1>5. \/ Ends(c, AdmitNoDevice(who, op, d))
      \/ AdmitNoDevice(who, op, d) = "OK" /\ op # "ListDevices" /\ GoesOn(c, rec)
  BY <1>2 DEF Entered
<1> HIDE DEF who
<1>6. CASE Ends(c, AdmitNoDevice(who, op, d))
  BY <1>3, <1>6, EndsIsOK
<1>7. CASE AdmitNoDevice(who, op, d) = "OK" /\ op # "ListDevices" /\ GoesOn(c, rec)
  <2>1. who.code = "OK" /\ Authorize(who.id, op, IF op = "DeleteDevice" THEN d ELSE None, <<>>)
    BY <1>7 DEF AdmitNoDevice
  <2>2. who.id.Role \in Roles
    BY <2>1, AuthenticateGivesRole DEF who
  <2>3. permit
    BY <1>7, <2>1, <2>2, AuthorizeIsPermission, PolicyAssumption
  <2>4. permit = TRUE
    BY <2>3 DEF Permitted
  <2> HIDE DEF permit
  <2>5. r \in Call /\ r.wrote = FALSE /\ r.op = op /\ r.permit = TRUE /\ r.dev = d
    <3>1. IdleCall \in Call /\ IdleCall.wrote = FALSE /\ op \in Ops
      BY IdleIsOK DEF IdleCall, Ops
    <3> QED
      BY <1>4, <2>4, <3>1, Zenon DEF Call
  <2> HIDE DEF r
  <2>6. rec \in Call /\ rec.pc = "checked" /\ rec.op = op /\ rec.permit = TRUE /\ rec.dev = d
    BY <2>5, EntryRecord, Zenon
  <2> HIDE DEF rec
  <2>7. CallOK(rec)
    BY <1>4, <1>7, <2>6 DEF CallOK
  <2> QED
    BY <1>3, <1>7, <2>6, <2>7, GoesOnIsOK
<1> QED
  BY <1>5, <1>6, <1>7

(* RegisterDevice checks the reference of the device.                      *)
LEMMA CheckReferenceIsOK ==
  ASSUME IInv, NEW c \in Calls, CheckReference(c)
  PROVE  IInv' /\ GoodReply'
<1>1. UNCHANGED <<config, persistent, store, born, last>>
  BY DEF CheckReference
<1>2. call[c] \in Call /\ CallOK(call[c]) /\ call[c].pc = "checked" /\ call[c].op = "RegisterDevice"
  BY DEF IInv, Types, CheckReference
<1>3. ASSUME NEW code, Ends(c, code) PROVE IInv' /\ GoodReply'
  BY <1>1, <1>3, EndsIsOK
<1>4. ASSUME NEW t \in Transports, NEW r \in Refs,
             GoesOn(c, [call[c] EXCEPT !.pc = "register",
                                       !.snap = [Transport |-> t, Capability |-> r, born |-> 0]])
      PROVE  IInv' /\ GoodReply'
  <2> DEFINE snap == [Transport |-> t, Capability |-> r, born |-> 0]
             rec == [call[c] EXCEPT !.pc = "register", !.snap = snap]
  <2>1. snap \in Snapshot
    BY ServiceAssumption DEF Snapshot
  <2> HIDE DEF snap
  <2>2. rec \in Call
    BY <1>2, <2>1, Zenon DEF Call
  <2>3. rec.pc = "register" /\ rec.op = "RegisterDevice" /\ rec.snap = snap /\ rec.permit = call[c].permit
    BY <1>2 DEF Call
  <2>4. CallOK(rec)
    BY <1>2, <2>1, <2>3 DEF CallOK
  <2>5. GoesOn(c, rec)
    BY <1>4 DEF snap
  <2> HIDE DEF rec
  <2> QED
    BY <1>1, <2>2, <2>4, <2>5, GoesOnIsOK
<1> QED
  BY <1>3, <1>4, Zenon DEF CheckReference

(* What the answer of a call that had an effect says.                      *)
LEMMA EffectsAnswer ==
  ASSUME IInv, NEW c \in Calls, NEW code, Effects(c, code)
  PROVE  /\ call' = [call EXCEPT ![c] = IdleCall]
         /\ reply'.op = call[c].op /\ reply'.permit = call[c].permit
  BY DEF Effects, Answers, IdleCall

(* BboltRegistry.Register makes a device that no call knows yet.           *)
LEMMA RegisterIsOK ==
  ASSUME IInv, NEW c \in Calls, Register(c)
  PROVE  IInv' /\ GoodReply'
<1> DEFINE d == IF call[c].dev = None THEN AutoIds[sequence + 1] ELSE call[c].dev
<1>1. /\ call[c].pc = "register" /\ born < MaxRegistrations
      /\ call[c].dev = None => sequence < Len(AutoIds)
      /\ UNCHANGED <<config, schemas, store, last>>
      /\ \/ Ends(c, "AlreadyExists") /\ UNCHANGED <<devices, sequence, born>>
         \/ devices[d] = None /\ Registered(c, d)
  BY DEF Register
<1>2. call[c] \in Call /\ CallOK(call[c]) /\ TypeOK
  BY DEF IInv, Types
<1>3. d \in Ids
  <2>1. sequence \in Nat
    BY <1>2 DEF TypeOK
  <2> QED
    BY <1>1, <1>2, <2>1, ServiceAssumption DEF Call, Ids
<1> HIDE DEF d
<1>4. CASE Ends(c, "AlreadyExists") /\ UNCHANGED <<devices, sequence, born>>
  BY <1>1, <1>4, EndsIsOK DEF persistent
<1>5. CASE devices[d] = None /\ Registered(c, d)
  <2> DEFINE snap == [call[c].snap EXCEPT !.born = born + 1]
             rec == [call[c] EXCEPT !.pc = "watch", !.dev = d, !.snap = snap, !.wrote = TRUE]
             dev == [Transport |-> snap.Transport, Capability |-> snap.Capability, ACL |-> <<>>,
                     born |-> snap.born]
  <2>1. /\ devices' = [devices EXCEPT ![d] = dev]
        /\ sequence' = sequence + (IF call[c].dev = None THEN 1 ELSE 0)
        /\ born' = born + 1
        /\ call' = [call EXCEPT ![c] = rec] /\ reply' = IdleCall
    BY <1>5 DEF Registered, GoesOn
  <2>2. call[c].snap \in Snapshot /\ call[c].op = "RegisterDevice" /\ call[c].permit
    BY <1>1, <1>2 DEF CallOK
  <2>3. born \in Nat /\ born + 1 \in 0 .. MaxRegistrations /\ sequence' \in 0 .. born'
    BY <1>1, <1>2, <2>1, ServiceAssumption DEF TypeOK
  <2>4. snap \in Snapshot /\ snap.born = born + 1
    BY <2>2, <2>3 DEF Snapshot
  <2> HIDE DEF snap
  <2>5. dev \in Device /\ dev.born = born + 1
    BY <2>4, PolicyAssumption DEF Device, Snapshot
  <2>6. rec \in Call /\ rec.pc = "watch" /\ rec.op = "RegisterDevice" /\ rec.permit /\ rec.snap = snap
    BY <1>2, <1>3, <2>2, <2>4, Zenon DEF Call
  <2> HIDE DEF rec, dev
  <2>7. /\ devices' \in [Ids -> Device \cup {None}] /\ devices'[d] = dev
        /\ \A e \in Ids \ {d} : devices'[e] = devices[e]
    BY <1>2, <1>3, <2>1, <2>5 DEF TypeOK
  <2>8. \A e \in Ids : devices'[e] # None => devices'[e].born <= born'
    <3>1. ASSUME NEW e \in Ids, e # d, devices[e] # None PROVE devices[e].born \in Nat /\ devices[e].born <= born
      BY <1>2, <3>1 DEF IInv, TypeOK, Device
    <3> QED
      BY <2>1, <2>3, <2>5, <2>7, <3>1
  <2>9. StillTrue
    <3> SUFFICES ASSUME NEW e \in Ids, NEW b \in 0 .. MaxRegistrations, NEW t, NEW r, Tells(e, b, t, r)
                 PROVE  Tells(e, b, t, r)'
      BY DEF StillTrue
    <3>1. b \in Nat /\ b <= born /\ b <= born' /\ b # born + 1
      BY <2>1, <2>3, ServiceAssumption DEF Tells
    <3>2. CASE e = d
      BY <2>3, <2>5, <2>7, <3>1, <3>2 DEF Tells
    <3>3. CASE e # d
      BY <2>7, <3>1, <3>3 DEF Tells
    <3> QED
      BY <3>2, <3>3
  <2>10. PICK r \in Call : r = rec /\ r.pc = "watch" /\ r.op = "RegisterDevice" /\ r.permit /\ r.snap \in Snapshot
    BY <2>4, <2>6, Zenon
  <2>11. CallOK(r)'
    BY <2>10 DEF CallOK
  <2>12. IInv'
    BY <1>1, <2>1, <2>3, <2>7, <2>8, <2>9, <2>10, <2>11, OneCall, Zenon
  <2> QED
    BY <2>1, <2>12, NoEffect, Zenon
<1> QED
  BY <1>1, <1>4, <1>5

(* The rest of RegisterDevice.                                             *)
LEMMA WatchIsOK ==
  ASSUME IInv, NEW c \in Calls, Watch(c)
  PROVE  IInv' /\ GoodReply'
<1>1. call[c].op = "RegisterDevice" /\ call[c].permit
  BY DEF Watch, IInv, CallOK
<1>2. /\ call' = [call EXCEPT ![c] = IdleCall]
      /\ reply'.op = call[c].op /\ reply'.permit = call[c].permit
  BY EffectsAnswer DEF Watch
<1>3. IInv'
  BY <1>2, IdleIsOK, OnlyCall, Zenon DEF Watch
<1> QED
  BY <1>1, <1>2, <1>3, Zenon DEF GoodReply

(* DeleteDevice.                                                           *)
LEMMA DeleteIsOK ==
  ASSUME IInv, NEW c \in Calls, Delete(c)
  PROVE  IInv' /\ GoodReply'
<1> DEFINE d == call[c].dev
<1>1. /\ call[c].op = "DeleteDevice" /\ call[c].permit /\ d \in Ids
      /\ UNCHANGED <<config, sequence, schemas, store, born, last>>
  BY DEF Delete, IInv, CallOK
<1> HIDE DEF d
<1>2. CASE Ends(c, "NotFound") /\ UNCHANGED devices
  BY <1>1, <1>2, EndsIsOK DEF persistent
<1>3. CASE devices' = [devices EXCEPT ![d] = None] /\ Effects(c, "OK")
  <2>1. /\ call' = [call EXCEPT ![c] = IdleCall]
        /\ reply'.op = call[c].op /\ reply'.permit = call[c].permit
    BY <1>3, EffectsAnswer
  <2>2. TypeOK
    BY DEF IInv, Types
  <2>3. /\ devices' \in [Ids -> Device \cup {None}] /\ devices'[d] = None
        /\ \A e \in Ids \ {d} : devices'[e] = devices[e]
    BY <1>1, <1>3, <2>2 DEF TypeOK
  <2>4. StillTrue
    BY <1>1, <2>3 DEF StillTrue, Tells
  <2>5. \A e \in Ids : devices'[e] # None => devices'[e].born <= born'
    BY <1>1, <2>3 DEF IInv
  <2>6. IInv'
    <3>1. born' \in 0 .. MaxRegistrations /\ sequence' \in 0 .. born'
      BY <1>1, <2>2, Zenon DEF TypeOK
    <3> QED
      BY <1>1, <2>1, <2>3, <2>4, <2>5, <3>1, IdleIsOK, OneCall, Zenon
  <2> QED
    BY <1>1, <2>1, <2>6 DEF GoodReply
<1> QED
  BY <1>2, <1>3 DEF Delete, d

(* GetProperty.                                                            *)
LEMMA ReadIsOK ==
  ASSUME IInv, NEW c \in Calls, Read(c)
  PROVE  IInv' /\ GoodReply'
<1>1. UNCHANGED <<config, persistent, store, born, last>> /\ call[c].permit = TRUE
  <2>1. call[c].permit /\ call[c].permit \in BOOLEAN
    BY DEF Read, IInv, CallOK, Types, Call
  <2> QED
    BY <2>1 DEF Read
<1>2. ASSUME NEW code, Ends(c, code) PROVE IInv' /\ GoodReply'
  BY <1>1, <1>2, EndsIsOK
<1>3. ASSUME NEW p, NEW v, AnswersValue(c, p, v) PROVE IInv' /\ GoodReply'
  <2>1. CASE Ends(c, "Internal")
    BY <1>2, <2>1
  <2>2. CASE Answers(c, [IdleCall EXCEPT !.op = "GetProperty", !.permit = call[c].permit,
                                         !.code = "OK", !.val = v, !.from = p])
    <3>1. /\ call' = [call EXCEPT ![c] = IdleCall]
          /\ reply'.op = "GetProperty" /\ reply'.permit = TRUE
      BY <1>1, <2>2 DEF Answers, IdleCall
    <3>2. IInv'
      BY <1>1, <3>1, IdleIsOK, OnlyCall, Zenon
    <3> QED
      BY <3>1, <3>2 DEF GoodReply
  <2> QED
    BY <1>3, <2>1, <2>2 DEF AnswersValue
<1> QED
  BY <1>2, <1>3 DEF Read, Get, ReadProperty

(* SetProperty checks the value.                                           *)
LEMMA ValidateIsOK ==
  ASSUME IInv, NEW c \in Calls, Validate(c)
  PROVE  IInv' /\ GoodReply'
<1> DEFINE rec == [call[c] EXCEPT !.pc = "write"]
<1>1. UNCHANGED <<config, persistent, store, born, last>>
  BY DEF Validate
<1>2. call[c] \in Call /\ CallOK(call[c]) /\ call[c].pc = "checked" /\ call[c].op = "SetProperty"
  BY DEF IInv, Types, Validate
<1>3. ASSUME NEW code, Ends(c, code) PROVE IInv' /\ GoodReply'
  BY <1>1, <1>3, EndsIsOK
<1>4. CASE /\ GoesOn(c, rec)
           /\ Fits(call[c].val, call[c].snap.Capability)
  <2>1. /\ rec \in Call /\ rec.pc = "write" /\ rec.op = call[c].op /\ rec.permit = call[c].permit
        /\ rec.dev = call[c].dev /\ rec.snap = call[c].snap /\ rec.val = call[c].val
    BY <1>2 DEF Call
  <2> HIDE DEF rec
  <2>2. CallOK(rec)
    BY <1>2, <1>4, <2>1, Zenon DEF CallOK, Knows
  <2> QED
    BY <1>1, <1>4, <2>1, <2>2, GoesOnIsOK
<1> HIDE DEF rec
<1>5. \/ \E code : Ends(c, code)
      \/ /\ GoesOn(c, rec)
         /\ Fits(call[c].val, call[c].snap.Capability)
  BY DEF Validate, splitCapabilityRef, Fits, rec
<1> QED
  BY <1>3, <1>4, <1>5

(* Reading a device goes where writing it went, unless writes have no way. *)
LEMMA WriterIsReader ==
  ASSUME NEW t \in Transports, Writer(t) # None
  PROVE  Writer(t) = Reader(t) /\ (Reader(t) # "store" => Reader(t) \in Transports)
  BY DEF Writer, Reader

(* A write that goes to h, the place c's device is written to.             *)
LEMMA WrittenIsOK ==
  ASSUME IInv, NEW c \in Calls, NEW h, NEW code,
         call[c].pc = "write", h = Writer(call[c].snap.Transport), h # None,
         IF h = "store" THEN Set(call[c].dev, call[c].val) ELSE UNCHANGED store,
         Sent(c, h), Effects(c, code),
         UNCHANGED <<config, persistent, born>>
  PROVE  IInv' /\ GoodReply'
<1>0. PICK d \in Ids, v \in Values, snap \in Snapshot :
          /\ d = call[c].dev /\ v = call[c].val /\ snap = call[c].snap
          /\ call[c].op = "SetProperty" /\ call[c].permit
          /\ Tells(d, snap.born, snap.Transport, snap.Capability) /\ Fits(v, snap.Capability)
  <2>1. call[c].op = "SetProperty" /\ call[c].permit /\ Knows(call[c])
        /\ call[c].val \in Values /\ Fits(call[c].val, call[c].snap.Capability)
    BY DEF IInv, CallOK
  <2> QED
    BY <2>1, Zenon DEF Knows
<1>1. snap.Transport \in Transports /\ snap.Capability \in Refs /\ snap.born \in 0 .. MaxRegistrations
  BY DEF Snapshot
<1>2. h = Reader(snap.Transport) /\ h \in Places
  BY <1>0, <1>1, WriterIsReader DEF Places
<1>3. /\ call' = [call EXCEPT ![c] = IdleCall]
      /\ reply'.op = call[c].op /\ reply'.permit = call[c].permit
  BY EffectsAnswer
<1>4. GoodReply'
  BY <1>0, <1>3 DEF GoodReply
<1>5. /\ TypeOK /\ call \in [Calls -> Call] /\ last \in [Places -> [Ids -> SentValue \cup {None}]]
      /\ store \in [Ids -> Values \cup {None}] /\ UNCHANGED <<devices, sequence, schemas>>
  BY DEF IInv, Types, TypeOK, persistent
<1>6. /\ call' \in [Calls -> Call] /\ call'[c] = IdleCall
      /\ \A x \in Calls \ {c} : call'[x] = call[x]
  BY <1>3, <1>5, IdleIsOK
<1> DEFINE w == [val |-> v, ref |-> snap.Capability, born |-> snap.born]
<1>7. w \in SentValue /\ w.val = v /\ w.ref = snap.Capability /\ w.born = snap.born
  BY <1>1 DEF SentValue
<1>8. last' = [last EXCEPT ![h][d] = w]
  BY <1>0 DEF Sent
<1> HIDE DEF w
<1>9. /\ last' \in [Places -> [Ids -> SentValue \cup {None}]] /\ last'[h][d] = w
      /\ \A p \in Places, e \in Ids : (p # h \/ e # d) => last'[p][e] = last[p][e]
  BY <1>2, <1>5, <1>7, <1>8
<1>10. /\ store' \in [Ids -> Values \cup {None}]
       /\ h = "store" => store'[d] = v
       /\ \A e \in Ids : h # "store" \/ e # d => store'[e] = store[e]
  BY <1>0, <1>5, Zenon DEF Set
<1>11. Types'
  <2>1. \A x \in Calls : call'[x].val \in Values \cup {None}
    BY <1>6 DEF Call
  <2> QED
    BY <1>5, <1>6, <1>9, <1>10, <2>1, Zenon DEF Types, TypeOK
<1>s. StillTrue
  BY <1>5, SameDevices
<1>12. ASSUME NEW x \in Calls PROVE CallOK(call[x])'
  <2>1. CASE x = c
    BY <1>6, <2>1 DEF CallOK, IdleCall
  <2>2. CASE x # c
    <3>1. PICK r : r = call[x] /\ r = call'[x] /\ CallOK(r)
      BY <1>6, <2>2 DEF IInv
    <3>2. CallOK(r)'
      BY <1>5, <1>s, <3>1, CallStays
    <3> QED
      BY <3>1, <3>2
  <2> QED
    BY <2>1, <2>2
<1>13. \A t : Reader(t)' = Reader(t)
  BY DEF Reader, HasAdapter
<1>14. \A e, b, t, r : Tells(e, b, t, r)' <=> Tells(e, b, t, r)
  BY <1>5 DEF Tells
<1>15. \A x, r : Fits(x, r)' <=> Fits(x, r)
  BY <1>5 DEF Fits
<1>16. SentOK(h, d)'
  <2>1. Reader(snap.Transport)' = h
    BY <1>2, <1>13, Zenon
  <2>2. Tells(d, w.born, snap.Transport, w.ref)' /\ Fits(w.val, w.ref)'
    BY <1>0, <1>7, <1>14, <1>15
  <2>3. h = "store" => store'[d] = w.val
    BY <1>7, <1>10
  <2> QED
    BY <1>1, <1>9, <2>1, <2>2, <2>3 DEF SentOK
<1>17. ASSUME NEW p \in Places, NEW e \in Ids, p # h \/ e # d PROVE SentOK(p, e)'
  <2>1. SentOK(p, e) /\ last'[p][e] = last[p][e] /\ (p = "store" => store'[e] = store[e])
    BY <1>9, <1>10, <1>17, Zenon DEF IInv
  <2> QED
    BY <1>13, <1>14, <1>15, <2>1 DEF SentOK
<1>18. \A e \in Ids : devices'[e] # None => devices'[e].born <= born'
  BY <1>5, Zenon DEF IInv
<1> QED
  BY <1>4, <1>11, <1>12, <1>16, <1>17, <1>18, Zenon DEF IInv

(* SetProperty writes, or is refused.                                      *)
LEMMA WriteIsOK ==
  ASSUME IInv, NEW c \in Calls, Write(c)
  PROVE  IInv' /\ GoodReply'
<1> DEFINE h == Writer(call[c].snap.Transport)
<1>1. call[c].pc = "write" /\ UNCHANGED <<config, persistent, born, restarts>>
  BY DEF Write
<1>2. \/ UNCHANGED <<store, last>> /\ \E code : Ends(c, code)
      \/ h = "store" /\ Set(call[c].dev, call[c].val) /\ Sent(c, h) /\ \E code : Effects(c, code)
      \/ h \notin {None, "store"} /\ UNCHANGED store /\ Sent(c, h) /\ \E code : Effects(c, code)
  BY Zenon DEF Write
<1> HIDE DEF h
<1>3. CASE UNCHANGED <<store, last>> /\ \E code : Ends(c, code)
  BY <1>1, <1>3, EndsIsOK
<1>4. CASE h = "store" /\ Set(call[c].dev, call[c].val) /\ Sent(c, h) /\ \E code : Effects(c, code)
  <2>1. h # None
    BY <1>4, ServiceAssumption
  <2> QED
    BY <1>1, <1>4, <2>1, WrittenIsOK DEF h
<1>5. CASE h \notin {None, "store"} /\ UNCHANGED store /\ Sent(c, h) /\ \E code : Effects(c, code)
  BY <1>1, <1>5, WrittenIsOK, Zenon DEF h
<1> QED
  BY <1>2, <1>3, <1>4, <1>5

(* A step in which no call moves and nothing is written.                   *)
LEMMA OthersStay ==
  ASSUME IInv, Types', StillTrue, schemas \subseteq schemas', UNCHANGED <<config, store, call, last>>,
         \A d \in Ids : devices'[d] # None => devices'[d].born <= born'
  PROVE  IInv'
<1>1. ASSUME NEW c \in Calls PROVE CallOK(call[c])'
  <2>1. PICK r : r = call[c] /\ CallOK(r)
    BY DEF IInv
  <2>2. CallOK(r)'
    BY <2>1, CallStays
  <2> QED
    BY <2>1, <2>2
<1>2. ASSUME NEW p \in Places, NEW d \in Ids PROVE SentOK(p, d)'
  BY SentStays DEF IInv
<1> QED
  BY <1>1, <1>2, Zenon DEF IInv

(* PublishSchema and UpdateACL leave alone what calls know of devices.     *)
LEMMA OthersAreOK ==
  ASSUME IInv, \/ \E r \in Refs : PublishSchema(r)
               \/ \E d \in Ids : UpdateACL(d)
               \/ Restart
  PROVE  IInv' /\ GoodReply'
<1>0. reply' = IdleCall
  BY DEF PublishSchema, UpdateACL, Restart
<1>1. ASSUME NEW r \in Refs, PublishSchema(r) PROVE IInv'
  <2>1. /\ schemas' \subseteq Refs \ {NoRef} /\ schemas \subseteq schemas'
        /\ UNCHANGED <<config, devices, sequence, store, call, born, last>>
    BY <1>1 DEF PublishSchema, IInv, Types, TypeOK
  <2>2. Types'
    BY <2>1 DEF IInv, Types, TypeOK
  <2>s. StillTrue
    BY <2>1, SameDevices
  <2> QED
    BY <2>1, <2>2, <2>s, OthersStay DEF IInv
<1>2. ASSUME NEW d \in Ids, UpdateACL(d) PROVE IInv'
  <2>1. PICK acl \in ACLs : devices' = [devices EXCEPT ![d].ACL = acl]
    BY <1>2, Zenon DEF UpdateACL
  <2>2. /\ devices[d] # None
        /\ UNCHANGED <<config, sequence, schemas, store, call, born, last>>
    BY <1>2 DEF UpdateACL
  <2>3. devices \in [Ids -> Device \cup {None}] /\ devices[d] \in Device
    BY <2>2 DEF IInv, Types, TypeOK
  <2> DEFINE dev == [devices[d] EXCEPT !.ACL = acl]
  <2>4. /\ dev \in Device /\ dev.Transport = devices[d].Transport
        /\ dev.Capability = devices[d].Capability /\ dev.born = devices[d].born
    BY <2>3 DEF Device
  <2>5. devices' = [devices EXCEPT ![d] = dev]
    BY <2>1, <2>3
  <2> HIDE DEF dev
  <2>6. /\ devices' \in [Ids -> Device \cup {None}]
        /\ \A e \in Ids : /\ devices'[e] # None => devices[e] # None
                          /\ devices'[e] # None => /\ devices'[e].Transport = devices[e].Transport
                                                   /\ devices'[e].Capability = devices[e].Capability
                                                   /\ devices'[e].born = devices[e].born
    BY <2>2, <2>3, <2>4, <2>5
  <2>7. Types'
    BY <2>2, <2>6, Zenon DEF IInv, Types, TypeOK
  <2>8. StillTrue
    BY <2>2, <2>6 DEF StillTrue, Tells
  <2>9. \A e \in Ids : devices'[e] # None => devices'[e].born <= born'
    BY <2>2, <2>6 DEF IInv
  <2> QED
    BY <2>2, <2>7, <2>8, <2>9, OthersStay
<1>3. ASSUME Restart PROVE IInv'
  <2>1. /\ config' \in Configs /\ UNCHANGED <<devices, sequence, schemas, born>>
        /\ store' = [d \in Ids |-> None] /\ last' = [p \in Places |-> [d \in Ids |-> None]]
        /\ call' = [c \in Calls |-> IdleCall]
    BY <1>3 DEF Restart, persistent
  <2>2. call' \in [Calls -> Call] /\ \A c \in Calls : call'[c] = IdleCall /\ call'[c].val = None
    BY <2>1, IdleIsOK DEF IdleCall
  <2>3. Types'
    BY <2>1, <2>2, Zenon DEF IInv, Types, TypeOK
  <2>4. ASSUME NEW c \in Calls PROVE CallOK(call[c])'
    BY <2>2 DEF CallOK, IdleCall
  <2>5. ASSUME NEW p \in Places, NEW d \in Ids PROVE SentOK(p, d)'
    BY <2>1 DEF SentOK
  <2>6. \A d \in Ids : devices'[d] # None => devices'[d].born <= born'
    BY <2>1 DEF IInv
  <2> QED
    BY <2>3, <2>4, <2>5, <2>6, Zenon DEF IInv
<1> QED
  BY <1>0, <1>1, <1>2, <1>3, NoEffect

(* Every step of the gateway keeps the invariant.                          *)
LEMMA NextIInv == IInv /\ GoodReply /\ [Next]_vars => IInv' /\ GoodReply'
<1> SUFFICES ASSUME IInv, GoodReply, [Next]_vars PROVE IInv' /\ GoodReply'
  OBVIOUS
<1>1. ASSUME NEW c \in Calls, Handler(c) PROVE IInv' /\ GoodReply'
  BY <1>1, EnterIsOK, EnterNoDeviceIsOK, CheckReferenceIsOK, RegisterIsOK, WatchIsOK,
     DeleteIsOK, ReadIsOK, ValidateIsOK, WriteIsOK DEF Handler
<1>2. CASE UNCHANGED vars
  <2>1. UNCHANGED <<config, devices, sequence, schemas, store, call, reply, born, last>>
    BY <1>2 DEF vars, persistent
  <2>2. Types'
    BY <2>1 DEF IInv, Types, TypeOK
  <2>3. StillTrue
    BY <2>1, SameDevices
  <2>4. IInv'
    BY <2>1, <2>2, <2>3, OthersStay DEF IInv
  <2> QED
    BY <2>1, <2>4 DEF GoodReply
<1> QED
  BY <1>1, <1>2, OthersAreOK DEF Next
-----------------------------------------------------------------------------
(* The invariant, and what it says of replies, hold in every state.        *)
LEMMA IInvInvariant == Spec => [](IInv /\ GoodReply)
BY InitIInv, NextIInv, PTL DEF Spec

(* No call reads or changes anything that the caller was not permitted,    *)
(* although the device may be another one by the time the call takes       *)
(* effect (GetProperty, SetProperty, DeleteDevice, RegisterDevice).        *)
THEOREM EffectsAreAuthorized == Spec => []AuthorizedEffects
<1>1. IInv /\ GoodReply => AuthorizedEffects
  <2> SUFFICES ASSUME IInv, GoodReply PROVE AuthorizedEffects
    OBVIOUS
  <2>1. ASSUME NEW c \in Calls
        PROVE  call[c].wrote \/ (call[c].op = "GetProperty" /\ call[c].code = "OK") => call[c].permit
    <3>1. CASE call[c].pc = "idle"
      BY <3>1, ServiceAssumption DEF IInv, CallOK, IdleCall
    <3>2. CASE call[c].pc # "idle"
      BY <3>2 DEF IInv, CallOK
    <3> QED
      BY <3>1, <3>2, Zenon
  <2> QED
    BY <2>1 DEF AuthorizedEffects, GoodReply
<1> QED
  BY <1>1, IInvInvariant, PTL

(* Every value that was sent anywhere fits the schema of the registration  *)
(* that its call found, whatever happened to the device meanwhile, and it  *)
(* breaks the schema of the registration it meets only if its call found   *)
(* an earlier one (SetProperty).                                           *)
THEOREM ValuesFitTheSchema == Spec => []SchemaHolds
<1>1. IInv => SchemaHolds
  <2> SUFFICES ASSUME IInv, config.capability, NEW p \in Places, NEW d \in Ids, last[p][d] # None
      PROVE  /\ last[p][d].ref # NoRef => last[p][d].ref \in schemas /\ last[p][d].val \in Schema[last[p][d].ref]
             /\ devices[d] # None /\ devices[d].Capability # NoRef
                /\ last[p][d].val \notin Schema[devices[d].Capability]
                => last[p][d].born < devices[d].born
    BY Zenon DEF SchemaHolds, IInv, Types
  <2>1. last[p][d].ref # NoRef => last[p][d].ref \in schemas /\ last[p][d].val \in Schema[last[p][d].ref]
    BY Zenon DEF IInv, SentOK, Fits
  <2>2. ASSUME devices[d] # None
        PROVE  /\ last[p][d].born \in Nat /\ devices[d].born \in Nat /\ last[p][d].born <= devices[d].born
               /\ last[p][d].born = devices[d].born => devices[d].Capability = last[p][d].ref
    <3>1. last[p][d] \in SentValue /\ devices[d] \in Device
      BY <2>2 DEF IInv, Types, TypeOK
    <3>2. SentOK(p, d)
      BY DEF IInv
    <3> QED
      BY <2>2, <3>1, <3>2 DEF SentOK, Tells, SentValue, Device
  <2> QED
    BY <2>1, <2>2
<1> QED
  BY <1>1, IInvInvariant, PTL

(* A registration, with a given or a generated ID, never replaces another. *)
THEOREM RegistrationsLast == Spec => RegisterNeverReplaces
<1>1. ASSUME IInv, [Next]_vars, NEW d \in Ids, devices[d] # None, devices'[d] # None
      PROVE  devices'[d].born = devices[d].born
  <2>0. devices \in [Ids -> Device \cup {None}] /\ devices[d] \in Device
    BY <1>1 DEF IInv, Types, TypeOK
  <2>1. CASE UNCHANGED devices
    BY <2>1
  <2>2. ASSUME NEW e \in Ids, UpdateACL(e) PROVE devices'[d].born = devices[d].born
    BY <2>0, <2>2 DEF UpdateACL, Device
  <2>3. ASSUME NEW c \in Calls, Register(c) PROVE devices'[d].born = devices[d].born
    BY <1>1, <2>0, <2>3, Zenon DEF Register, Registered
  <2>4. ASSUME NEW c \in Calls, Delete(c) PROVE devices'[d].born = devices[d].born
    BY <1>1, <2>0, <2>4 DEF Delete
  <2>5. ASSUME NEW c \in Calls, Handler(c) PROVE devices'[d].born = devices[d].born
    <3>1. CASE \/ Enter(c) \/ EnterNoDevice(c) \/ CheckReference(c) \/ Watch(c)
               \/ Read(c) \/ Validate(c) \/ Write(c)
      BY <2>1, <3>1, Zenon
         DEF Enter, EnterNoDevice, CheckReference, Watch, Read, Validate, Write, persistent
    <3> QED
      BY <2>3, <2>4, <2>5, <3>1 DEF Handler
  <2>6. CASE UNCHANGED vars \/ Restart \/ \E r \in Refs : PublishSchema(r)
    BY <2>1, <2>6 DEF vars, persistent, Restart, PublishSchema
  <2> QED
    BY <1>1, <2>2, <2>5, <2>6, Zenon DEF Next
<1>2. IInv /\ [Next]_vars
      => [\A d \in Ids : devices[d] # None /\ devices'[d] # None => devices'[d].born = devices[d].born]_vars
  BY <1>1
<1> QED
  BY IInvInvariant, <1>2, PTL DEF Spec, RegisterNeverReplaces

(* GetProperty looks where SetProperty has written, and the store gives    *)
(* back what was put there, whatever was deleted, registered again or      *)
(* reconfigured in between.                                                *)
THEOREM ReadsFindWrites == Spec => ReadsSeeWrites
<1> DEFINE Ended(c, p) ==
             LET d == call[c].dev
             IN  /\ call[c].op = "GetProperty" /\ call[c].pc = "checked" /\ reply'.code # None /\ call'[c] = IdleCall
                 /\ devices[d] # None /\ devices[d].born = call[c].snap.born
                 /\ last[p][d] # None /\ last[p][d].born = devices[d].born
           Sees(c, p) ==
             LET d == call[c].dev
             IN  /\ reply'.code = "OK" => reply'.from = p
                 /\ p = "store" /\ last[p][d].val # Empty => reply'.code = "OK" /\ reply'.val = last[p][d].val
<1>1. ASSUME IInv, [Next]_vars, NEW c \in Calls, NEW p \in Places, Ended(c, p) PROVE Sees(c, p)
  <2>1. call \in [Calls -> Call] /\ call[c].pc # IdleCall.pc /\ IdleCall.code = None
    BY <1>1 DEF IInv, Types, IdleCall
  <2>2. Read(c)
    <3>1. ~UNCHANGED call
      BY <1>1, <2>1
    <3>2. reply' # IdleCall
      BY <1>1, <2>1
    <3>3. PICK x \in Calls : Handler(x)
      BY <1>1, <3>1, <3>2 DEF Next, vars, PublishSchema, UpdateACL, Restart
    <3>4. \E rec : call' = [call EXCEPT ![x] = rec]
      BY <3>3, Zenon DEF Handler, Enter, EnterNoDevice, Entered, CheckReference, Register, Registered, Watch,
                  Delete, Read, Get, ReadProperty, AnswersValue, Validate, Write, GoesOn, Ends, Effects, Answers
    <3>5. x = c
      BY <1>1, <2>1, <3>4, Zenon
    <3> QED
      BY <1>1, <3>3, <3>5, Zenon DEF Handler, Enter, EnterNoDevice, CheckReference, Register, Watch,
                              Delete, Validate, Write
  <2>d. PICK d \in Ids, snap \in Snapshot :
            /\ d = call[c].dev /\ snap = call[c].snap
            /\ devices[d] # None /\ devices[d].born = snap.born
            /\ Tells(d, snap.born, snap.Transport, snap.Capability)
    BY <1>1, Zenon DEF IInv, CallOK, Knows
  <2>3. SentOK(p, d) /\ last[p][d] # None /\ last[p][d].born = devices[d].born /\ last[p][d] \in SentValue
    <3>1. SentOK(p, d)
      BY <1>1, <2>d, Zenon DEF IInv
    <3>2. last \in [Places -> [Ids -> SentValue \cup {None}]]
      BY <1>1 DEF IInv, Types
    <3>3. last[p][d] \in SentValue \cup {None}
      BY <2>d, <3>2
    <3> QED
      BY <1>1, <2>d, <3>1, <3>3
  <2>4. PICK t \in Transports : p = Reader(t) /\ Tells(d, last[p][d].born, t, last[p][d].ref)
    BY <2>3 DEF SentOK
  <2>5. p = Reader(snap.Transport)
    BY <2>d, <2>3, <2>4 DEF Tells
  <2>6. ASSUME NEW u, AnswersValue(c, p, u)
        PROVE  /\ reply'.code = "OK" => reply'.from = p
               /\ u # Empty => reply'.code = "OK" /\ reply'.val = u
    BY <2>6, Zenon DEF AnswersValue, Ends, Answers, IdleCall
  <2>7. CASE p = "store"
    <3>1. store[d] = last[p][d].val /\ store[d] # None
      BY <2>3, <2>7, ServiceAssumption DEF SentOK, SentValue
    <3>2. AnswersValue(c, p, last[p][d].val)
      BY <2>2, <2>d, <2>5, <2>7, <3>1 DEF Read, Get
    <3> QED
      BY <2>d, <2>6, <3>2
  <2>8. CASE p # "store"
    <3>1. CASE \E u \in Values : AnswersValue(c, p, u)
      BY <2>6, <2>8, <3>1
    <3>2. CASE \E code \in ErrorCodes(p) : Ends(c, code)
      <4>1. PICK code \in ErrorCodes(p) : reply' = [IdleCall EXCEPT !.code = code]
        BY <3>2 DEF Ends, Answers
      <4>2. code # "OK"
        BY DEF ErrorCodes, StatusError, mqttStatusError, httpStatusError, canStatusError, customStatusError
      <4>3. reply'.code # "OK"
        BY <4>1, <4>2 DEF IdleCall
      <4> QED
        BY <2>8, <4>3
    <3> QED
      BY <2>2, <2>d, <2>5, <2>8, <3>1, <3>2, Zenon DEF Read, ReadProperty
  <2> QED
    BY <2>7, <2>8, Zenon
<1>2. IInv /\ [Next]_vars
      => [\A c \in Calls, p \in Places :
             LET d == call[c].dev
             IN  /\ call[c].op = "GetProperty" /\ call[c].pc = "checked" /\ reply'.code # None /\ call'[c] = IdleCall
                 /\ devices[d] # None /\ devices[d].born = call[c].snap.born
                 /\ last[p][d] # None /\ last[p][d].born = devices[d].born
                 => /\ reply'.code = "OK" => reply'.from = p
                    /\ p = "store" /\ last[p][d].val # Empty => reply'.code = "OK" /\ reply'.val = last[p][d].val]_vars
  BY <1>1
<1> QED
  BY IInvInvariant, <1>2, PTL DEF Spec, ReadsSeeWrites
-----------------------------------------------------------------------------
(* What a call's bearer token is worth was an input so far (Auth's tokens). *)
(* It is decided by Validate, once per call, over the keys that all calls   *)
(* share: module JwksCache, for any window and any timeout.                 *)
(* What the provider still serves, or will serve, is not replaced yet.     *)
Served == \A d \in Documents : d >= current => replaced[d] = 0

(* An answer on its way was current when its call had already asked.       *)
FreshAnswers ==
    \A c \in Validations : validation[c].pc = "answered" => replaced[validation[c].doc] <= validation[c].waited

(* The keys were at most one timeout old when they were installed.         *)
Cached == replaced[keys] <= fetched + Timeout

(* No time passes between a refresh and the verdict.                       *)
Refreshed == \A c \in Validations : validation[c].pc = "refreshed" /\ ~validation[c].failed => fetched = 0

Verdicts == \A c \in Validations : validation[c].code # "none" => validation[c].pc = "decided"

KeysInv == JwksTypeOK /\ Served /\ FreshAnswers /\ Cached /\ Refreshed /\ Verdicts /\ ChecksByRecentKeys

(* After the first fetch of NewJWTValidator the invariant holds.           *)
LEMMA InitKeys == JwksInit => KeysInv
<1>1. 0 \in Documents /\ 0 \in Ages /\ 0 \in 0 .. Timeout
  BY JwksAssumption DEF Documents, Ages, Ancient
<1>2. NotValidating \in Validation
  BY <1>1 DEF NotValidating, Validation
<1> QED
  BY <1>1, <1>2, JwksAssumption
  DEF JwksInit, KeysInv, JwksTypeOK, Served, FreshAnswers, Cached, Refreshed, Verdicts,
      ChecksByRecentKeys, NotValidating

(* The passing of time makes nothing older than it can be told apart.      *)
LEMMA OlderIsAnAge ==
  ASSUME NEW a \in Ages
  PROVE  Older(a) \in Ages /\ Older(a) <= a + 1 /\ Older(a) >= a
BY JwksAssumption DEF Older, Ages, Ancient

(* Every step of a call, a rotation and the passing of time keep it.       *)
LEMMA NextKeys == KeysInv /\ [JwksNext]_jwksVars => KeysInv'
<1> SUFFICES ASSUME KeysInv, [JwksNext]_jwksVars PROVE KeysInv'
  OBVIOUS
<1> USE JwksAssumption
<1>0. JwksTypeOK /\ Served /\ FreshAnswers /\ Cached /\ Refreshed /\ Verdicts /\ ChecksByRecentKeys
  BY DEF KeysInv
<1>a. NotValidating \in Validation
  BY DEF NotValidating, Validation, Documents
<1>1. ASSUME NEW c \in Validations, Fetch(c) PROVE KeysInv'
  BY <1>0, <1>1, <1>a, Zenon
  DEF KeysInv, JwksTypeOK, Served, FreshAnswers, Cached, Refreshed, Verdicts,
      ChecksByRecentKeys, Fetch, NotValidating, Validation
<1>2. ASSUME NEW c \in Validations, ProviderAnswers(c) PROVE KeysInv'
  <2>1. JwksTypeOK'
    <3>1. validation[c] \in Validation /\ current \in Documents
      BY <1>0 DEF JwksTypeOK
    <3>2. [validation[c] EXCEPT !.pc = "answered", !.doc = current] \in Validation
      BY <3>1, Zenon DEF Validation
    <3>3. validation' = [validation EXCEPT ![c] = [validation[c] EXCEPT !.pc = "answered", !.doc = current]]
      BY <1>0, <1>2, Zenon DEF JwksTypeOK, ProviderAnswers, Validation
    <3> QED
      BY <1>0, <1>2, <3>2, <3>3 DEF JwksTypeOK, ProviderAnswers
  <2>2. FreshAnswers'
    BY <1>0, <1>2
    DEF JwksTypeOK, Served, FreshAnswers, ProviderAnswers, Validation, Documents
  <2>3. Verdicts'
    BY <1>0, <1>2 DEF JwksTypeOK, Verdicts, ProviderAnswers, Validation
  <2>4. ChecksByRecentKeys'
    BY <1>0, <1>2
    DEF JwksTypeOK, Verdicts, ChecksByRecentKeys, ProviderAnswers, Validation
  <2> QED
    BY <1>0, <1>2, <2>1, <2>2, <2>3, <2>4
    DEF KeysInv, JwksTypeOK, Served, Cached, Refreshed, ProviderAnswers, Validation
<1>3. ASSUME NEW c \in Validations, Install(c) PROVE KeysInv'
  <2>1. JwksTypeOK'
    BY <1>0, <1>3 DEF JwksTypeOK, Install, Validation, Ages, Ancient
  <2>2. Cached'
    BY <1>0, <1>3
    DEF JwksTypeOK, FreshAnswers, Cached, Install, Validation, Documents, Ages
  <2>3. Verdicts' /\ ChecksByRecentKeys'
    BY <1>0, <1>3 DEF JwksTypeOK, Verdicts, ChecksByRecentKeys, Install, Validation
  <2> QED
    BY <1>0, <1>3, <2>1, <2>2, <2>3
    DEF KeysInv, JwksTypeOK, Served, FreshAnswers, Refreshed, Install, Validation
<1>4. ASSUME NEW c \in Validations, RefreshFails(c) PROVE KeysInv'
  <2>1. JwksTypeOK'
    <3>1. [validation[c] EXCEPT !.pc = "refreshed", !.failed = TRUE] \in Validation
      BY <1>0, Zenon DEF JwksTypeOK, Validation
    <3>2. validation' = [validation EXCEPT ![c] = [validation[c] EXCEPT !.pc = "refreshed", !.failed = TRUE]]
      BY <1>0, <1>4, Zenon DEF JwksTypeOK, RefreshFails, Validation
    <3> QED
      BY <1>0, <1>4, <3>1, <3>2 DEF JwksTypeOK, RefreshFails
  <2>2. Verdicts' /\ ChecksByRecentKeys'
    BY <1>0, <1>4 DEF JwksTypeOK, Verdicts, ChecksByRecentKeys, RefreshFails, Validation
  <2> QED
    BY <1>0, <1>4, <2>1, <2>2
    DEF KeysInv, JwksTypeOK, Served, FreshAnswers, Cached, Refreshed, RefreshFails,
        Validation
<1>5. ASSUME NEW c \in Validations, Decide(c) PROVE KeysInv'
  <2>1. JwksTypeOK' /\ Verdicts'
    BY <1>0, <1>5 DEF JwksTypeOK, Verdicts, Decide, Validation
  <2>2. ChecksByRecentKeys'
    <3>1. replaced[keys] \in Nat /\ fetched \in Nat
      BY <1>0 DEF JwksTypeOK, Ages, Ancient
    <3>2. validation[c].failed /\ fetched <= jwksMaxStaleness => replaced[keys] <= jwksMaxStaleness + Timeout
      BY <1>0, <3>1 DEF Cached
    <3>3. ~validation[c].failed => replaced[keys] <= Timeout
      BY <1>0, <1>5, <3>1 DEF Cached, Refreshed, Decide
    <3> QED
      BY <1>0, <1>5, <3>1, <3>2, <3>3
      DEF JwksTypeOK, ChecksByRecentKeys, Decide, Validation
  <2> QED
    BY <1>0, <1>5, <2>1, <2>2
    DEF KeysInv, JwksTypeOK, Served, FreshAnswers, Cached, Refreshed, Decide, Validation
<1>6. ASSUME NEW c \in Validations, Return(c) PROVE KeysInv'
  BY <1>0, <1>6, <1>a
  DEF KeysInv, JwksTypeOK, Served, FreshAnswers, Cached, Refreshed, Verdicts,
      ChecksByRecentKeys, Return, NotValidating, Validation
<1>7. CASE Rotate
  BY <1>0, <1>7
  DEF KeysInv, JwksTypeOK, Served, FreshAnswers, Cached, Refreshed, Verdicts,
      ChecksByRecentKeys, Rotate, Documents
<1>8. CASE Tick
  <2>1. \A d \in Documents : /\ replaced'[d] \in Ages
                             /\ replaced'[d] <= replaced[d] + 1
                             /\ d >= current => replaced'[d] = 0
    <3> SUFFICES ASSUME NEW d \in Documents
                 PROVE  /\ replaced'[d] \in Ages
                        /\ replaced'[d] <= replaced[d] + 1
                        /\ d >= current => replaced'[d] = 0
      OBVIOUS
    <3>1. replaced[d] \in Ages /\ current \in Nat /\ d \in Nat
      BY <1>0 DEF JwksTypeOK, Documents
    <3>2. replaced'[d] = IF d < current THEN Older(replaced[d]) ELSE 0
      BY <1>8 DEF Tick
    <3>3. Older(replaced[d]) \in Ages /\ Older(replaced[d]) <= replaced[d] + 1
      BY <3>1, OlderIsAnAge
    <3> QED
      BY <3>1, <3>2, <3>3 DEF Ages, Ancient
  <2>2. fetched' \in Ages /\ (fetched' = fetched + 1 \/ fetched' = Ancient)
    BY <1>0, <1>8, OlderIsAnAge DEF JwksTypeOK, Tick, Older, Ages, Ancient
  <2>3. JwksTypeOK'
    BY <1>0, <1>8, <2>1, <2>2 DEF JwksTypeOK, Tick, Validation
  <2>4. Served'
    BY <1>8, <2>1 DEF Served, Tick
  <2>5. FreshAnswers'
    BY <1>0, <1>8, <2>1 DEF JwksTypeOK, FreshAnswers, Tick, Validation, Ages
  <2>6. Cached'
    BY <1>0, <1>8, <2>1, <2>2 DEF JwksTypeOK, Cached, Tick, Ages, Ancient
  <2>7. Refreshed' /\ Verdicts'
    BY <1>0, <1>8 DEF JwksTypeOK, Refreshed, Verdicts, Tick, Validation
  <2>8. ChecksByRecentKeys'
    BY <1>0, <1>8, <2>7 DEF JwksTypeOK, Verdicts, ChecksByRecentKeys, Tick, Validation
  <2> QED
    BY <2>3, <2>4, <2>5, <2>6, <2>7, <2>8 DEF KeysInv
<1>9. CASE UNCHANGED jwksVars
  BY <1>0, <1>9
  DEF KeysInv, JwksTypeOK, Served, FreshAnswers, Cached, Refreshed, Verdicts,
      ChecksByRecentKeys, jwksVars
<1> QED
  BY <1>1, <1>2, <1>3, <1>4, <1>5, <1>6, <1>7, <1>8, <1>9 DEF JwksNext, ValidateStep

(* JWTValidator.Validate checks a token against keys the provider served   *)
(* within the client's timeout, or within the window on top of it when the *)
(* refresh failed, however many calls refresh the shared keys at once.     *)
THEOREM KeysAreRecent == JwksSpec => [](JwksTypeOK /\ ChecksByRecentKeys)
<1>1. KeysInv => JwksTypeOK /\ ChecksByRecentKeys
  BY DEF KeysInv
<1> QED
  BY InitKeys, NextKeys, <1>1, PTL DEF JwksSpec
=============================================================================
