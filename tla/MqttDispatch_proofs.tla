-------------------------- MODULE MqttDispatch_proofs --------------------------
(***************************************************************************)
(* What dispatch delivers in MqttAdapter.  First the waiters: who of those *)
(* it found may go without a payload.  Then the updates: what its fan-out  *)
(* tells of a message, the device and the property, is where the message   *)
(* came from; that is about topics, level by level.  Both rest on the      *)
(* invariant of MqttAdapter_proofs.                                        *)
(***************************************************************************)
EXTENDS MqttAdapter_proofs

(* Who goes without.  Cancel shifts the array a dispatch walks, and that   *)
(* is the only way a waiter of the snapshot is passed over.                *)
Walked == IF dispatching.live THEN waiters[dispatching.msg.topic].arr ELSE dispatching.arr

(* What no step undoes for a call that has registered: its topic stays, it *)
(* does not register again, and while it waits its channel keeps what it   *)
(* has.                                                                    *)
Goes(c, e) ==
    c.pc \in {"publish", "wait", "cancel", "done"} =>
        /\ e.topic = c.topic /\ e.pc \in {"publish", "wait", "cancel", "done"}
        /\ c.pc = "done" => e.pc = "done"
        /\ e.pc \in {"publish", "wait"} => /\ c.pc \in {"publish", "wait"}
                                           /\ c.chan # <<>> => e.chan # <<>>

(* As long as none of the snapshot has left, they are where the dispatch   *)
(* walks, and those it has passed have something in their channels.        *)
AllStay == \A p \in dispatching.owed : call[p].pc # "done"

InPlace ==
    /\ dispatching.owed = {Walked[j] : j \in 1 .. dispatching.len}
    /\ dispatching.live => dispatching.len <= waiters[dispatching.msg.topic].len
    /\ \A j \in 1 .. dispatching.len :
          j < dispatching.i /\ call[Walked[j]].pc \in {"publish", "wait"} => call[Walked[j]].chan # <<>>

ServedInv ==
    dispatching # Idle =>
        /\ \A p \in dispatching.owed : Held(p, dispatching.msg.topic)
        /\ AllStay => InPlace

(* Every place a dispatch still has to go to holds the channel of a request*)
(* on the topic of its message.                                            *)
LEMMA WalkedIsHeld ==
  ASSUME IInv, DispatchSend PROVE Held(Walked[dispatching.i], dispatching.msg.topic)
<1>1. dispatching # Idle /\ dispatching.i <= dispatching.len /\ dispatching \in DispatchRecord
  BY Zenon DEF DispatchSend, IInv, Types
<1>2. dispatching.i \in 1 .. dispatching.len
  BY <1>1 DEF DispatchRecord
<1> QED
  BY <1>1, <1>2, Zenon DEF IInv, ListsOK, DispatchOK, Walked

(* Every step takes every call further.                                    *)
LEMMA CallsGoOn ==
  ASSUME IInv, Next PROVE \A q \in Procs : Goes(call[q], call'[q])
<1>0. call \in [Procs -> CallRecord]
  BY DEF IInv, Types
<1>1. ASSUME NEW p \in Procs, NEW r, call' = [call EXCEPT ![p] = r], Goes(call[p], r)
      PROVE  \A q \in Procs : Goes(call[q], call'[q])
  <2> SUFFICES ASSUME NEW q \in Procs PROVE Goes(call[q], call'[q])
    OBVIOUS
  <2>1. CASE q = p
    BY <1>0, <1>1, <2>1
  <2>2. CASE q # p
    <3>1. call'[q] = call[q]
      BY <1>0, <1>1, <2>2
    <3> QED
      BY <3>1 DEF Goes
  <2> QED
    BY <2>1, <2>2
<1>2. ASSUME NEW p \in Procs, Start(p) \/ Refuse(p) \/ Check(p) \/ Subscribe(p) \/ SubscribeFails(p)
                              \/ Mark(p) \/ registerWaiter(p)
      PROVE  \E r : call' = [call EXCEPT ![p] = r] /\ Goes(call[p], r)
  <2>1. call[p].pc \in {"start", "check", "subscribe", "mark", "register"}
    BY <1>2, Zenon DEF Start, Refuse, Check, Subscribe, SubscribeFails, Mark, registerWaiter
  <2>2. \A r : Goes(call[p], r)
    BY <2>1 DEF Goes
  <2>3. \E r : call' = [call EXCEPT ![p] = r]
    BY <1>2, Zenon DEF Start, Refuse, Check, Subscribe, SubscribeFails, Mark, registerWaiter
  <2> QED
    BY <2>2, <2>3, Zenon
<1>3. ASSUME NEW p \in Procs, Publish(p) \/ PublishFails(p) \/ ContextDone(p) \/ TakeReply(p) \/ Cancel(p)
      PROVE  \E r : call' = [call EXCEPT ![p] = r] /\ Goes(call[p], r)
  <2>0. call[p] \in CallRecord
    BY <1>0
  <2>1. PICK pc, chan :
           /\ call' = [call EXCEPT ![p] = [call[p] EXCEPT !.pc = pc, !.chan = chan]]
           /\ \/ call[p].pc = "publish" /\ pc = "wait" /\ chan = call[p].chan
              \/ call[p].pc \in {"publish", "wait"} /\ pc = "cancel"
              \/ call[p].pc = "cancel" /\ pc = "done"
    <3>1. [call[p] EXCEPT !.pc = "wait"] = [call[p] EXCEPT !.pc = "wait", !.chan = call[p].chan]
      BY <2>0, Zenon DEF CallRecord
    <3>2. [call[p] EXCEPT !.pc = "cancel"] = [call[p] EXCEPT !.pc = "cancel", !.chan = call[p].chan]
      BY <2>0, Zenon DEF CallRecord
    <3>3. [call[p] EXCEPT !.pc = "done"] = [call[p] EXCEPT !.pc = "done", !.chan = call[p].chan]
      BY <2>0, Zenon DEF CallRecord
    <3>4. CASE Publish(p)
      BY <3>1, <3>4, Zenon DEF Publish
    <3>5. CASE PublishFails(p) \/ ContextDone(p)
      BY <3>2, <3>5, Zenon DEF PublishFails, ContextDone
    <3>6. CASE TakeReply(p)
      BY <3>6, Zenon DEF TakeReply
    <3>7. CASE Cancel(p)
      BY <3>3, <3>7, Zenon DEF Cancel
    <3> QED
      BY <1>3, <3>4, <3>5, <3>6, <3>7, Zenon
  <2>r. PICK r : r = [call[p] EXCEPT !.pc = pc, !.chan = chan]
    OBVIOUS
  <2>2. r.pc = pc /\ r.chan = chan /\ r.topic = call[p].topic
    BY <2>0, <2>r DEF CallRecord
  <2>3. Goes(call[p], r)
    BY <2>1, <2>2 DEF Goes
  <2> QED
    BY <2>1, <2>r, <2>3, Zenon
<1>4. CASE DispatchSend
  <2>w. PICK w : w = Walked[dispatching.i]
    OBVIOUS
  <2>1. call' = [call EXCEPT ![w] = [call[w] EXCEPT !.chan = IF @ = <<>> THEN <<dispatching.msg>> ELSE @]]
    BY <1>4, <2>w, Zenon DEF DispatchSend, Walked
  <2>2. Held(w, dispatching.msg.topic)
    BY <1>4, <2>w, WalkedIsHeld
  <2>3. w \in Procs /\ call[w] \in CallRecord
    BY <1>0, <2>2 DEF Held, Procs
  <2>r. PICK r : r = [call[w] EXCEPT !.chan = IF @ = <<>> THEN <<dispatching.msg>> ELSE @]
    BY Zenon
  <2>4. r.pc = call[w].pc /\ r.topic = call[w].topic /\ r.chan # <<>>
    BY <2>3, <2>r DEF CallRecord
  <2>5. Goes(call[w], r)
    BY <2>4 DEF Goes
  <2> QED
    BY <1>1, <2>1, <2>3, <2>r, <2>5, Zenon
<1>5. CASE call' = call
  BY <1>5 DEF Goes
<1>6. ASSUME NEW p \in Procs, Step(p) PROVE \A q \in Procs : Goes(call[q], call'[q])
  BY <1>1, <1>2, <1>3, <1>6, Zenon DEF Step
<1>7. DispatchStart \/ DispatchEnd \/ (\E d \in Publishers : DevicePublishes(d)) \/ ConnectionLost \/ Finished
      => call' = call
  BY Zenon DEF DispatchStart, DispatchEnd, DevicePublishes, ConnectionLost, Finished, vars
<1> QED
  BY <1>4, <1>5, <1>6, <1>7, Zenon DEF Next, Dispatch

(* A dispatch that goes on with the same snapshot keeps the invariant if   *)
(* the places it walks stay as they are while the snapshot is complete.    *)
LEMMA DispatchGoesOn ==
  ASSUME IInv, ServedInv, \A q \in Procs : Goes(call[q], call'[q]),
         dispatching \in DispatchRecord, dispatching # Idle,
         dispatching'.msg = dispatching.msg, dispatching'.len = dispatching.len,
         dispatching'.owed = dispatching.owed, dispatching'.i = dispatching.i,
         AllStay /\ AllStay' /\ InPlace =>
             /\ \A j \in 1 .. dispatching.len : Walked'[j] = Walked[j]
             /\ dispatching'.live => dispatching.len <= waiters'[dispatching.msg.topic].len
  PROVE  ServedInv'
<1>d. PICK d : d = dispatching
  OBVIOUS
<1>1. /\ \A p \in d.owed : Held(p, d.msg.topic)
      /\ AllStay => InPlace
      /\ d.len \in Nat /\ d.i \in Nat
  BY <1>d DEF ServedInv, DispatchRecord
<1>2. \A p, t : Held(p, t) => Held(p, t)' /\ p \in Procs
  BY DEF Held, Goes, Procs
<1>3. \A p \in d.owed : Held(p, d.msg.topic)'
  BY <1>1, <1>2, Zenon
<1>4. AllStay' => AllStay
  <2> SUFFICES ASSUME AllStay', NEW p \in d.owed PROVE call[p].pc # "done"
    BY <1>d, Zenon DEF AllStay
  <2>1. Held(p, d.msg.topic) /\ p \in Procs /\ call'[p].pc # "done"
    BY <1>d, <1>1, <1>2, Zenon DEF AllStay
  <2> QED
    BY <2>1, Zenon DEF Goes, Held
<1>5. ASSUME AllStay' PROVE InPlace'
  <2>w. PICK w, v : w = Walked /\ v = Walked'
    BY Zenon
  <2>1. /\ AllStay /\ InPlace /\ \A j \in 1 .. d.len : v[j] = w[j]
        /\ dispatching'.live => d.len <= waiters'[d.msg.topic].len
    BY <1>d, <1>1, <1>4, <1>5, <2>w, Zenon
  <2>2. /\ d.owed = {w[j] : j \in 1 .. d.len}
        /\ \A j \in 1 .. d.len :
              j < d.i /\ call[w[j]].pc \in {"publish", "wait"} => call[w[j]].chan # <<>>
    BY <1>d, <2>w, <2>1, Zenon DEF InPlace
  <2>3. d.owed = {v[j] : j \in 1 .. d.len}
    BY <2>1, <2>2
  <2>4. ASSUME NEW j \in 1 .. d.len, j < d.i, call'[v[j]].pc \in {"publish", "wait"}
        PROVE  call'[v[j]].chan # <<>>
    <3>1. v[j] = w[j] /\ w[j] \in d.owed
      BY <2>1, <2>2, Zenon
    <3>2. Held(w[j], d.msg.topic) /\ w[j] \in Procs
      BY <1>1, <1>2, <3>1, Zenon
    <3>3. call[w[j]].pc \in {"publish", "wait"} /\ (call[w[j]].chan # <<>> => call'[w[j]].chan # <<>>)
      BY <2>4, <3>1, <3>2, Zenon DEF Goes, Held
    <3> QED
      BY <2>2, <2>4, <3>1, <3>3, Zenon
  <2> QED
    BY <1>d, <2>w, <2>1, <2>3, <2>4 DEF InPlace
<1> QED
  BY <1>d, <1>3, <1>5, Zenon DEF ServedInv

(* registerWaiter writes behind the end of the list, or leaves the array.  *)
LEMMA RegisterServes ==
  ASSUME IInv, ServedInv, NEW p \in Procs, registerWaiter(p) PROVE ServedInv'
<1>t. PICK t : t = call[p].topic
  OBVIOUS
<1>d. PICK d, e : d = dispatching /\ e = dispatching'
  BY Zenon
<1>0. \A q \in Procs : Goes(call[q], call'[q])
  BY CallsGoOn DEF Next, Step
<1>1. CASE dispatching = Idle
  BY <1>1 DEF registerWaiter, Detached, ServedInv
<1>2. CASE dispatching # Idle
  <2>1. d \in DispatchRecord /\ d.len \in Nat /\ (d.live => d.msg.topic \in DOMAIN waiters)
    BY <1>d, <1>2 DEF IInv, Types, ListsOK, DispatchOK, DispatchRecord
  <2>2. /\ DOMAIN waiters' = DOMAIN waiters \cup {t} /\ waiters'[t] = Appended(t, p)
        /\ \A x \in DOMAIN waiters : x # t => waiters'[x] = waiters[x]
        /\ e = IF /\ t \in DOMAIN waiters /\ waiters[t].len = Len(waiters[t].arr)
                  /\ d.msg.topic = t /\ d.live
               THEN [d EXCEPT !.live = FALSE, !.arr = waiters[t].arr] ELSE d
    BY <1>t, <1>d, <1>2 DEF registerWaiter, Detached
  <2>3. CASE t \in DOMAIN waiters /\ waiters[t].len = Len(waiters[t].arr) /\ d.msg.topic = t /\ d.live
    <3>1. /\ e.live = FALSE /\ e.arr = waiters[t].arr /\ e.msg = d.msg /\ e.len = d.len
          /\ e.owed = d.owed /\ e.i = d.i
      BY <2>1, <2>2, <2>3 DEF DispatchRecord
    <3>2. Walked' = Walked
      BY <1>d, <2>3, <3>1 DEF Walked
    <3> QED
      BY <1>0, <1>d, <1>2, <2>1, <3>1, <3>2, DispatchGoesOn, Zenon
  <2>4. CASE e = d /\ (d.live => d.msg.topic # t)
    <3>1. Walked' = Walked /\ (d.live => waiters'[d.msg.topic] = waiters[d.msg.topic])
      BY <1>d, <2>1, <2>2, <2>4, Zenon DEF Walked
    <3>2. AllStay /\ AllStay' /\ InPlace =>
             /\ \A j \in 1 .. dispatching.len : Walked'[j] = Walked[j]
             /\ dispatching'.live => dispatching.len <= waiters'[dispatching.msg.topic].len
      BY <1>d, <2>4, <3>1, Zenon DEF InPlace
    <3> QED
      BY <1>0, <1>d, <1>2, <2>1, <2>4, <3>2, DispatchGoesOn, Zenon
  <2>5. CASE e = d /\ d.live /\ d.msg.topic = t /\ waiters[t].len # Len(waiters[t].arr)
    <3>1. t \in DOMAIN waiters /\ waiters[t] \in Slice /\ waiters[t].len \in 1 .. Len(waiters[t].arr)
      BY <2>1, <2>5, Zenon DEF IInv, Types, ListsOK, SliceOK
    <3>o. PICK old, new : old = waiters[t] /\ new = waiters'[t]
      BY Zenon
    <3>2. /\ new.len = old.len + 1
          /\ \A i \in 1 .. Len(old.arr) : i # new.len => new.arr[i] = old.arr[i]
          /\ old.len \in 1 .. Len(old.arr) /\ Len(old.arr) \in Nat
      <4>1. new = Appended(t, p)
        BY <2>2, <3>o, Zenon
      <4>2. Len(old.arr) \in Nat
        BY <3>1, <3>o DEF Slice
      <4> QED
        BY <3>1, <3>o, <4>1, <4>2, AppendedSlice
    <3>3. Walked = old.arr /\ Walked' = new.arr
      BY <1>d, <2>5, <3>o, Zenon DEF Walked
    <3>4. ASSUME InPlace
          PROVE  /\ \A j \in 1 .. d.len : new.arr[j] = old.arr[j]
                 /\ d.len <= new.len
      <4>1. d.len <= old.len
        BY <1>d, <2>5, <3>o, <3>4, Zenon DEF InPlace
      <4> QED
        BY <2>1, <3>2, <4>1
    <3>5. AllStay /\ AllStay' /\ InPlace =>
             /\ \A j \in 1 .. dispatching.len : Walked'[j] = Walked[j]
             /\ dispatching'.live => dispatching.len <= waiters'[dispatching.msg.topic].len
      BY <1>d, <2>5, <3>o, <3>3, <3>4, Zenon
    <3> QED
      BY <1>0, <1>d, <1>2, <2>1, <2>5, <3>5, DispatchGoesOn, Zenon
  <2> QED
    BY <2>1, <2>2, <2>3, <2>4, <2>5, Zenon
<1> QED
  BY <1>1, <1>2

(* cancel shifts only what comes behind the channel it removes.            *)
LEMMA CancelServes ==
  ASSUME IInv, ServedInv, NEW p \in Procs, Cancel(p) PROVE ServedInv'
<1>t. PICK t, s : t = call[p].topic /\ s = Removed(t, p)
  BY Zenon
<1>d. PICK d, e : d = dispatching /\ e = dispatching'
  BY Zenon
<1>0. \A q \in Procs : Goes(call[q], call'[q])
  BY CallsGoOn DEF Next, Step
<1>1. CASE dispatching = Idle
  BY <1>1 DEF Cancel, Detached, ServedInv
<1>2. CASE dispatching # Idle
  <2>1. d \in DispatchRecord /\ d.len \in Nat /\ (d.live => d.msg.topic \in DOMAIN waiters)
    BY <1>d, <1>2 DEF IInv, Types, ListsOK, DispatchOK, DispatchRecord
  <2>2. /\ waiters' = IF s.len = 0 THEN [x \in DOMAIN waiters \ {t} |-> waiters[x]]
                      ELSE [waiters EXCEPT ![t] = s]
        /\ e = IF s.len = 0 /\ d.msg.topic = t /\ d.live
               THEN [d EXCEPT !.live = FALSE, !.arr = s.arr] ELSE d
        /\ call'[p].pc = "done"
    <3>1. call \in [Procs -> CallRecord]
      BY DEF IInv, Types
    <3>2. call'[p].pc = "done"
      BY <3>1 DEF Cancel, CallRecord
    <3> QED
      BY <1>t, <1>d, <1>2, <3>2, Zenon DEF Cancel, Detached
  <2>3. CASE e = d /\ (d.live => d.msg.topic # t)
    <3>1. d.live => waiters'[d.msg.topic] = waiters[d.msg.topic]
      BY <2>1, <2>2, <2>3
    <3>2. Walked' = Walked
      BY <1>d, <2>3, <3>1, Zenon DEF Walked
    <3>3. AllStay /\ AllStay' /\ InPlace =>
             /\ \A j \in 1 .. dispatching.len : Walked'[j] = Walked[j]
             /\ dispatching'.live => dispatching.len <= waiters'[dispatching.msg.topic].len
      BY <1>d, <2>3, <3>1, <3>2, Zenon DEF InPlace
    <3> QED
      BY <1>0, <1>d, <1>2, <2>1, <2>3, <3>3, DispatchGoesOn, Zenon
  <2>4. CASE d.live /\ d.msg.topic = t
    <3>o. PICK old : old = waiters[t]
      OBVIOUS
    <3>1. t \in DOMAIN waiters /\ old \in Slice /\ old.len \in 1 .. Len(old.arr) /\ Len(old.arr) \in Nat
      BY <2>1, <2>4, <3>o DEF IInv, Types, ListsOK, SliceOK, Slice
    <3>2. \E i \in 1 .. old.len : old.arr[i] = p
      <4>1. CallOK(p, call[p]) /\ call[p].pc = "cancel" /\ Listed(p)
        BY DEF Cancel, IInv, ListsOK
      <4>2. Registered(p)
        BY <4>1 DEF CallOK, Registered, Procs
      <4> QED
        BY <1>t, <3>o, <4>1, <4>2, Zenon DEF Listed
    <3>3. PICK at \in 1 .. old.len :
             /\ s.len = old.len - 1
             /\ old.arr[at] = p
             /\ \A i \in 1 .. Len(old.arr) :
                   s.arr[i] = IF i \in at .. old.len - 1 THEN old.arr[i + 1] ELSE old.arr[i]
      <4>1. /\ waiters[t] \in Slice /\ waiters[t].len \in 1 .. Len(waiters[t].arr)
            /\ \E i \in 1 .. waiters[t].len : waiters[t].arr[i] = p
        BY <3>o, <3>1, <3>2, Zenon
      <4>2. /\ Removed(t, p).len = waiters[t].len - 1
            /\ \E at \in 1 .. waiters[t].len :
                  /\ waiters[t].arr[at] = p
                  /\ \A i \in 1 .. Len(waiters[t].arr) :
                        Removed(t, p).arr[i] = IF i \in at .. waiters[t].len - 1
                                               THEN waiters[t].arr[i + 1] ELSE waiters[t].arr[i]
        BY <3>1, <4>1, RemovedSlice
      <4> QED
        BY <1>t, <3>o, <4>2, Zenon
    <3>4. Walked = old.arr
      BY <1>d, <2>4, <3>o, Zenon DEF Walked
    <3>5. ASSUME AllStay', InPlace, d.owed = e.owed
          PROVE  d.len < at /\ \A j \in 1 .. d.len : s.arr[j] = old.arr[j]
      <4>1. p \notin d.owed
        BY <1>d, <2>2, <3>5, Zenon DEF AllStay
      <4>2. \A j \in 1 .. d.len : old.arr[j] \in d.owed
        BY <1>d, <3>4, <3>5, Zenon DEF InPlace
      <4>3. d.len < at
        BY <2>1, <3>1, <3>3, <4>1, <4>2
      <4> QED
        BY <2>1, <3>1, <3>3, <4>3
    <3>6. CASE s.len = 0
      <4>1. /\ e.live = FALSE /\ e.arr = s.arr /\ e.msg = d.msg /\ e.len = d.len
            /\ e.owed = d.owed /\ e.i = d.i
        BY <2>1, <2>2, <2>4, <3>6 DEF DispatchRecord
      <4>2. Walked' = s.arr
        BY <1>d, <4>1 DEF Walked
      <4>3. AllStay /\ AllStay' /\ InPlace =>
             /\ \A j \in 1 .. dispatching.len : Walked'[j] = Walked[j]
             /\ dispatching'.live => dispatching.len <= waiters'[dispatching.msg.topic].len
        BY <1>d, <3>4, <3>5, <4>1, <4>2, Zenon
      <4> QED
        BY <1>0, <1>d, <1>2, <2>1, <4>1, <4>3, DispatchGoesOn, Zenon
    <3>7. CASE s.len # 0
      <4>1. e = d /\ waiters'[t] = s
        BY <2>2, <3>1, <3>7
      <4>2. Walked' = s.arr
        BY <1>d, <2>4, <4>1, Zenon DEF Walked
      <4>3. AllStay' /\ InPlace => d.len <= s.len
        BY <2>1, <3>1, <3>3, <3>5, <4>1
      <4>4. AllStay /\ AllStay' /\ InPlace =>
             /\ \A j \in 1 .. dispatching.len : Walked'[j] = Walked[j]
             /\ dispatching'.live => dispatching.len <= waiters'[dispatching.msg.topic].len
        BY <1>d, <2>4, <3>4, <3>5, <4>1, <4>2, <4>3, Zenon
      <4> QED
        BY <1>0, <1>d, <1>2, <2>1, <4>1, <4>4, DispatchGoesOn, Zenon
    <3> QED
      BY <3>6, <3>7
  <2> QED
    BY <2>2, <2>3, <2>4, Zenon
<1> QED
  BY <1>1, <1>2

(* dispatch begins with the list as it is, and serves the place it is at.  *)
LEMMA DispatchServes ==
  ASSUME IInv, ServedInv, Dispatch PROVE ServedInv'
<1>0. \A q \in Procs : Goes(call[q], call'[q])
  BY CallsGoOn DEF Next
<1>1. CASE DispatchEnd
  BY <1>1 DEF DispatchEnd, ServedInv
<1>2. CASE DispatchStart
  <2>m. PICK t : t = Head(inbox).topic
    OBVIOUS
  <2>n. PICK n : n = IF t \in DOMAIN waiters THEN waiters[t].len ELSE 0
    OBVIOUS
  <2>1. /\ dispatching'.msg.topic = t /\ (dispatching'.live <=> n > 0) /\ dispatching'.len = n
        /\ dispatching'.i = 1 /\ dispatching'.owed = IF n > 0 THEN Waiting(t) ELSE {}
        /\ UNCHANGED <<waiters, call>>
    BY <1>2, <2>m, <2>n, Zenon DEF DispatchStart, adapter
  <2>2. n \in Nat /\ (n > 0 => n = waiters[t].len /\ t \in DOMAIN waiters /\ SliceOK(t))
    BY <2>n DEF IInv, Types, ListsOK, Slice
  <2>3. CASE n > 0
    <3>1. dispatching'.owed = {waiters[t].arr[j] : j \in 1 .. n}
      BY <2>1, <2>2, <2>3, Zenon DEF Waiting
    <3>2. \A j \in 1 .. n : Held(waiters[t].arr[j], t)
      BY <2>2, <2>3, Zenon DEF SliceOK, Held, Registered
    <3>3. Walked' = waiters[t].arr
      BY <2>1, <2>3, Zenon DEF Walked
    <3>4. \A q \in dispatching'.owed : Held(q, t)'
      BY <2>1, <3>1, <3>2, Zenon DEF Held
    <3>5. InPlace'
      BY <2>1, <2>2, <2>3, <3>1, <3>3 DEF InPlace
    <3> QED
      BY <2>1, <3>4, <3>5, Zenon DEF ServedInv
  <2>4. CASE n = 0
    <3>1. dispatching'.owed = {} /\ dispatching'.len = 0 /\ ~dispatching'.live
      BY <2>1, <2>4
    <3>2. InPlace'
      BY <3>1 DEF InPlace
    <3> QED
      BY <3>1, <3>2, Zenon DEF ServedInv
  <2> QED
    BY <2>2, <2>3, <2>4
<1>3. CASE DispatchSend
  <2>d. PICK d, e, w : d = dispatching /\ e = dispatching' /\ w = Walked
    BY Zenon
  <2>1. /\ d # Idle /\ d \in DispatchRecord /\ d.i \in 1 .. d.len /\ d.len \in Nat /\ d.i \in Nat
        /\ UNCHANGED waiters
        /\ e = [d EXCEPT !.i = @ + 1]
        /\ Held(w[d.i], d.msg.topic)
        /\ call' = [call EXCEPT ![w[d.i]].chan = IF @ = <<>> THEN <<d.msg>> ELSE @]
    <3>1. d # Idle /\ d.i <= d.len /\ d \in DispatchRecord \cup {Idle}
      BY <1>3, <2>d, Zenon DEF DispatchSend, IInv, Types
    <3>2. d \in DispatchRecord /\ d.i \in Nat \ {0} /\ d.len \in Nat
      BY <3>1 DEF DispatchRecord
    <3>3. d.i \in 1 .. d.len
      BY <3>1, <3>2
    <3>4. Held(w[d.i], d.msg.topic)
      BY <1>3, <2>d, WalkedIsHeld
    <3> QED
      BY <1>3, <2>d, <3>1, <3>2, <3>3, <3>4, Zenon DEF DispatchSend, Walked, adapter
  <2>2. /\ e.i = d.i + 1 /\ e.msg = d.msg /\ e.len = d.len /\ e.owed = d.owed /\ e.live = d.live /\ e.arr = d.arr
    BY <2>1 DEF DispatchRecord
  <2>3. Walked' = w
    BY <2>d, <2>1, <2>2, Zenon DEF Walked
  <2>4. call'[w[d.i]].chan # <<>>
    <3>1. w[d.i] \in Procs /\ call[w[d.i]] \in CallRecord /\ call \in [Procs -> CallRecord]
      BY <2>1 DEF Held, Procs, IInv, Types
    <3> QED
      BY <2>1, <3>1 DEF CallRecord
  <2>5. \A p, x : Held(p, x) => Held(p, x)' /\ p \in Procs
    BY <1>0 DEF Held, Goes, Procs
  <2>6. \A p \in e.owed : Held(p, e.msg.topic)'
    BY <2>d, <2>1, <2>2, <2>5, Zenon DEF ServedInv
  <2>7. ASSUME AllStay' PROVE InPlace'
    <3>1. AllStay
      <4> SUFFICES ASSUME NEW p \in d.owed PROVE call[p].pc # "done"
        BY <2>d, Zenon DEF AllStay
      <4>1. Held(p, d.msg.topic) /\ p \in Procs /\ call'[p].pc # "done"
        BY <2>d, <2>1, <2>2, <2>5, <2>7, Zenon DEF AllStay, ServedInv
      <4> QED
        BY <1>0, <4>1, Zenon DEF Goes, Held
    <3>2. /\ d.owed = {w[j] : j \in 1 .. d.len}
          /\ d.live => d.len <= waiters[d.msg.topic].len
          /\ \A j \in 1 .. d.len :
                j < d.i /\ call[w[j]].pc \in {"publish", "wait"} => call[w[j]].chan # <<>>
      BY <2>d, <2>1, <3>1 DEF ServedInv, InPlace
    <3>3. ASSUME NEW j \in 1 .. d.len, j < d.i + 1, call'[w[j]].pc \in {"publish", "wait"}
          PROVE  call'[w[j]].chan # <<>>
      <4>1. CASE j = d.i
        BY <2>4, <4>1
      <4>2. CASE j # d.i
        <5>1. j < d.i
          BY <2>1, <3>3, <4>2
        <5>2. Held(w[j], d.msg.topic) /\ w[j] \in Procs
          BY <2>d, <2>1, <2>5, <3>2, Zenon DEF ServedInv
        <5>3. call[w[j]].pc \in {"publish", "wait"} /\ (call[w[j]].chan # <<>> => call'[w[j]].chan # <<>>)
          BY <1>0, <3>3, <5>2, Zenon DEF Goes, Held
        <5> QED
          BY <3>2, <5>1, <5>3, Zenon
      <4> QED
        BY <4>1, <4>2
    <3> QED
      BY <2>d, <2>1, <2>2, <2>3, <3>2, <3>3 DEF InPlace
  <2> QED
    BY <2>d, <2>2, <2>6, <2>7, Zenon DEF ServedInv
<1> QED
  BY <1>1, <1>2, <1>3 DEF Dispatch

(* Every step keeps the snapshot in place.                                 *)
LEMMA NextServes == IInv /\ ServedInv /\ [Next]_vars => ServedInv'
<1> SUFFICES ASSUME IInv, ServedInv, [Next]_vars PROVE ServedInv'
  BY Zenon
<1>1. CASE UNCHANGED vars
  <2>1. UNCHANGED <<call, waiters, dispatching>>
    BY <1>1, Zenon DEF vars, adapter, network
  <2> QED
    <3>1. AllStay' = AllStay /\ InPlace' = InPlace
      BY <2>1, Zenon DEF AllStay, InPlace, Walked
    <3> QED
      BY <2>1, <3>1, Zenon DEF ServedInv, Held
<1>2. CASE Next /\ UNCHANGED <<waiters, dispatching>>
  <2>1. CASE dispatching = Idle
    BY <1>2, <2>1 DEF ServedInv
  <2>2. CASE dispatching # Idle
    <3>1. dispatching \in DispatchRecord
      BY <2>2 DEF IInv, Types
    <3>2. AllStay /\ AllStay' /\ InPlace =>
             /\ \A j \in 1 .. dispatching.len : Walked'[j] = Walked[j]
             /\ dispatching'.live => dispatching.len <= waiters'[dispatching.msg.topic].len
      BY <1>2, Zenon DEF InPlace, Walked
    <3> QED
      BY <1>2, <2>2, <3>1, <3>2, CallsGoOn, DispatchGoesOn, Zenon
  <2> QED
    BY <2>1, <2>2
<1>3. ASSUME NEW p \in Procs, Step(p), ~registerWaiter(p), ~Cancel(p)
      PROVE  UNCHANGED <<waiters, dispatching>>
  BY <1>3, Zenon DEF Step, Start, Refuse, Check, Subscribe, SubscribeFails, Mark, Publish, PublishFails,
               TakeReply, ContextDone, adapter
<1>4. (\E d \in Publishers : DevicePublishes(d)) \/ ConnectionLost \/ Finished
      => UNCHANGED <<waiters, dispatching>>
  BY Zenon DEF DevicePublishes, ConnectionLost, Finished, vars, adapter
<1> QED
  BY <1>1, <1>2, <1>3, <1>4, RegisterServes, CancelServes, DispatchServes, Zenon DEF Next

(* Among the waiters a dispatch found, one that still waits goes without a *)
(* payload only if another of them has returned while the dispatch was     *)
(* under way: its cancel shifted the array (dispatch, registerWaiter).     *)
THEOREM SkippedOnlyAfterCancel ==
  Spec => [](EveryWaiterIsServed \/ \E p \in dispatching.owed : call[p].pc = "done")
<1>1. Init => ServedInv
  BY DEF Init, ServedInv
<1>2. ASSUME IInv, ServedInv
      PROVE  EveryWaiterIsServed \/ \E p \in dispatching.owed : call[p].pc = "done"
  <2>1. CASE dispatching # Idle /\ dispatching.i > dispatching.len /\ AllStay
    <3>d. PICK d, w : d = dispatching /\ w = Walked
      BY Zenon
    <3>1. /\ d.owed = {w[j] : j \in 1 .. d.len} /\ d.len \in Nat /\ d.i \in Nat /\ d.i > d.len
          /\ \A j \in 1 .. d.len :
                j < d.i /\ call[w[j]].pc \in {"publish", "wait"} => call[w[j]].chan # <<>>
      BY <1>2, <2>1, <3>d DEF ServedInv, InPlace, IInv, Types, DispatchRecord
    <3>2. \A p \in d.owed : call[p].pc = "wait" => call[p].chan # <<>>
      BY <3>1
    <3> QED
      BY <3>d, <3>2, Zenon DEF EveryWaiterIsServed
  <2>2. CASE ~(dispatching # Idle /\ dispatching.i > dispatching.len)
    BY <2>2 DEF EveryWaiterIsServed
  <2> QED
    BY <2>1, <2>2, Zenon DEF AllStay
<1> QED
  BY <1>1, <1>2, NextServes, IInvInvariant, PTL DEF Spec
-----------------------------------------------------------------------------
(* What onUpdate and onHeartbeat are told of a message is true.            *)
Attributed(m) ==
    \A u \in FanOut(m) : m.origin = u /\ \E p \in Procs : call[p].dev = u.dev

AttributionInv ==
    /\ \A i \in 1 .. Len(inbox) : Attributed(inbox[i])
    /\ dispatching # Idle => Attributed(dispatching.msg)
-----------------------------------------------------------------------------
(* Attribution.  The topic of a device whose ID has a level "props" behind *)
(* the first one is that of a property of another device, and nothing      *)
(* keeps such an ID out; the theorem is about all the others.              *)
PlainIds == \A d \in Devices : \A i \in 2 .. Len(d) : d[i] # "props"

(* Topics with the same levels are the same.                               *)
LEMMA SameLevels ==
  ASSUME NEW s \in Topic, NEW t \in Topic, Len(s) = Len(t), \A i \in 1 .. Len(s) : s[i] = t[i]
  PROVE  s = t
BY SeqEqual DEF Topic

(* Requests are nobody's update, whatever the device and the path.         *)
LEMMA RequestsAreNoUpdates ==
  ASSUME NEW m \in Msg, Len(m.topic) > 3, m.topic[Len(m.topic)] \in {"get", "set"}
  PROVE  FanOut(m) = {}
<1>t. PICK t \in Topic : t = m.topic
  BY DEF Msg
<1>1. parseStatusTopic(t).ok = FALSE
  BY <1>t DEF parseStatusTopic
<1>2. parsePropsTopic(t).ok = FALSE
  <2>1. CASE t[1] # "udal" \/ PropsAt(t) = {}
    BY <2>1 DEF parsePropsTopic, parsePropsTopicOrSetAck
  <2>2. CASE t[1] = "udal" /\ PropsAt(t) # {}
    <3>c. PICK cut : cut = CHOOSE i \in PropsAt(t) : \A j \in PropsAt(t) : i <= j
      OBVIOUS
    <3>1. cut \in 3 .. Len(t) - 1 /\ Len(t) \in Nat
      BY <2>2, <3>c, FirstProps DEF PropsAt, Topic
    <3>r. PICK rest : rest = SubSeq(t, cut + 1, Len(t))
      BY Zenon
    <3>2. Len(rest) = Len(t) - cut /\ rest[Len(t) - cut] = t[Len(t)]
      BY <3>1, <3>r DEF Topic
    <3>3. reserved(rest)
      BY <1>t, <3>1, <3>2 DEF reserved, Last
    <3>4. parsePropsTopicOrSetAck(t).ok = TRUE /\ parsePropsTopicOrSetAck(t).rest = rest
      BY <2>2, <3>c, <3>r, Zenon DEF parsePropsTopicOrSetAck
    <3> QED
      BY <3>3, <3>4 DEF parsePropsTopic
  <2> QED
    BY <2>1, <2>2, Zenon
<1> QED
  BY <1>t, <1>1, <1>2 DEF FanOut

(* Nor are acknowledgements.                                               *)
LEMMA AcksAreNoUpdates ==
  ASSUME NEW m \in Msg, NEW d \in Devices, NEW path \in Paths, m.topic = topicSetAck(d, path)
  PROVE  FanOut(m) = {}
<1>t. PICK t \in Topic : t = m.topic
  BY DEF Msg
<1>1. /\ Len(t) = Len(d) + Len(path) + 4 /\ t[Len(t) - 1] = "set" /\ t[Len(t)] = "ack"
      /\ t[1] = "udal" /\ t[Len(d) + 2] = "props"
      /\ Len(d) \in Nat \ {0} /\ Len(path) \in Nat \ {0}
  <2>1. \A i \in 1 .. Len(d) + Len(path) + 2 : t[i] = topicProps(d, path)[i]
    BY <1>t, AckTopic
  <2>2. topicProps(d, path)[1] = "udal" /\ topicProps(d, path)[Len(d) + 2] = "props"
    BY PropsTopic
  <2>3. /\ Len(d) \in Nat \ {0} /\ Len(path) \in Nat \ {0}
        /\ Len(t) = Len(d) + Len(path) + 4 /\ t[Len(t) - 1] = "set" /\ t[Len(t)] = "ack"
    BY <1>t, AckTopic, DeviceIds, PathLevels
  <2> QED
    BY <2>1, <2>2, <2>3
<1>2. parseStatusTopic(t).ok = FALSE
  BY <1>1 DEF parseStatusTopic
<1>3. PropsAt(t) # {} /\ Len(d) + 2 \in PropsAt(t)
  BY <1>1 DEF PropsAt
<1>c. PICK cut : cut = CHOOSE i \in PropsAt(t) : \A j \in PropsAt(t) : i <= j
  OBVIOUS
<1>4. cut \in 3 .. Len(d) + 2
  <2>1. cut \in PropsAt(t) /\ cut <= Len(d) + 2
    BY <1>3, <1>c, FirstProps
  <2> QED
    BY <1>1, <2>1 DEF PropsAt, Topic
<1>r. PICK rest : rest = SubSeq(t, cut + 1, Len(t))
  BY Zenon
<1>5. /\ rest \in Topic /\ Len(rest) = Len(t) - cut /\ Len(rest) \in Nat /\ Len(rest) > 2
      /\ rest[Len(rest)] = "ack" /\ rest[Len(rest) - 1] = "set"
  <2>1. rest \in Topic /\ Len(rest) = Len(t) - cut /\ \A i \in 1 .. Len(t) - cut : rest[i] = t[cut + i]
    BY <1>1, <1>4, <1>r DEF Topic
  <2>2. /\ Len(t) - cut \in 1 .. Len(t) - cut /\ Len(t) - cut - 1 \in 1 .. Len(t) - cut /\ Len(t) - cut > 2
        /\ cut + (Len(t) - cut) = Len(t) /\ cut + (Len(t) - cut - 1) = Len(t) - 1
    BY <1>1, <1>4
  <2> QED
    BY <1>1, <2>1, <2>2
<1>6. SubSeq(rest, Len(rest) - 1, Len(rest)) = <<"set", "ack">>
  <2>s. PICK s : s = SubSeq(rest, Len(rest) - 1, Len(rest))
    BY Zenon
  <2>k. PICK k \in Nat : k = Len(rest) /\ k > 2
    BY <1>5
  <2>1. s \in Seq(Level) /\ Len(s) = 2 /\ s[1] = "set" /\ s[2] = "ack"
    <3>1. s = SubSeq(rest, k - 1, k) /\ rest \in Seq(Level) /\ rest[k] = "ack" /\ rest[k - 1] = "set"
      BY <2>s, <1>5, <2>k DEF Topic
    <3>2. s \in Seq(Level) /\ Len(s) = 2 /\ s[1] = rest[k - 1 + 1 - 1] /\ s[2] = rest[k - 1 + 2 - 1]
      BY <2>k, <3>1
    <3>3. k - 1 + 1 - 1 = k - 1 /\ k - 1 + 2 - 1 = k
      BY <2>k
    <3> QED
      BY <3>1, <3>2, <3>3
  <2>2. <<"set", "ack">> \in Seq(Level)
    BY DEF Level
  <2>3. \A i \in 1 .. Len(s) : s[i] = <<"set", "ack">>[i]
    BY <2>1
  <2> QED
    BY <2>s, <2>1, <2>2, <2>3, SeqEqual, Zenon
<1>7. reserved(rest)
  BY <1>5, <1>6 DEF reserved
<1>8. parsePropsTopicOrSetAck(t).ok = TRUE /\ parsePropsTopicOrSetAck(t).rest = rest
  BY <1>1, <1>3, <1>c, <1>r, Zenon DEF parsePropsTopicOrSetAck
<1>9. parsePropsTopic(t).ok = FALSE
  BY <1>7, <1>8 DEF parsePropsTopic
<1> QED
  BY <1>t, <1>2, <1>9 DEF FanOut

(* The topic of a value is read back as the device and the path it was put *)
(* together from, unless the path ends like a request: a property whose    *)
(* path ends in "get" or "set" has no updates (topicProps and              *)
(* parsePropsTopic are inverse to each other up to that).                  *)
THEOREM ValueTopicsParseBack ==
  ASSUME PlainIds, NEW d \in Devices, NEW path \in Paths
  PROVE  parsePropsTopic(topicProps(d, path)) =
            IF reserved(path) THEN [ok |-> FALSE] ELSE [ok |-> TRUE, dev |-> d, rest |-> path]
<1>t. PICK t \in Topic : t = topicProps(d, path)
  BY PropsTopic
<1>1. /\ Len(t) = Len(d) + Len(path) + 2
      /\ t[1] = "udal" /\ t[Len(d) + 2] = "props"
      /\ \A i \in 1 .. Len(d) : t[i + 1] = d[i]
      /\ \A i \in 1 .. Len(path) : t[Len(d) + 2 + i] = path[i]
  BY <1>t, PropsTopic
<1>2. d \in Topic /\ path \in Topic /\ Len(d) \in Nat \ {0} /\ Len(path) \in Nat \ {0}
  BY DeviceIds, PathLevels DEF Topic
<1>4. Len(d) + 2 \in PropsAt(t) /\ PropsAt(t) # {}
  BY <1>1, <1>2 DEF PropsAt
<1>c. PICK cut : cut = CHOOSE i \in PropsAt(t) : \A j \in PropsAt(t) : i <= j
  OBVIOUS
<1>5. cut = Len(d) + 2
  <2>1. cut \in 3 .. Len(d) + 2 /\ t[cut] = "props"
    <3>1. cut \in PropsAt(t) /\ cut <= Len(d) + 2
      BY <1>4, <1>c, FirstProps
    <3> QED
      BY <1>2, <3>1 DEF PropsAt, Topic
  <2>2. ASSUME cut < Len(d) + 2 PROVE FALSE
    <3>1. cut - 1 \in 2 .. Len(d) /\ cut - 1 \in 1 .. Len(d) /\ (cut - 1) + 1 = cut
      BY <1>2, <2>1, <2>2
    <3>2. d[cut - 1] = "props"
      BY <1>1, <2>1, <3>1
    <3> QED
      BY <3>1, <3>2 DEF PlainIds
  <2> QED
    BY <1>2, <2>1, <2>2
<1>6. SubSeq(t, 2, cut - 1) = d
  <2>s. PICK s : s = SubSeq(t, 2, cut - 1)
    BY Zenon
  <2>1. s \in Topic /\ Len(s) = Len(d) /\ \A i \in 1 .. Len(d) : s[i] = t[i + 1]
    BY <2>s, <1>1, <1>2, <1>5 DEF Topic
  <2>2. \A i \in 1 .. Len(s) : s[i] = d[i]
    BY <1>1, <2>1
  <2>3. s = d
    BY <1>2, <2>1, <2>2, SameLevels
  <2> QED
    BY <2>s, <2>3
<1>7. SubSeq(t, cut + 1, Len(t)) = path
  <2>s. PICK s : s = SubSeq(t, cut + 1, Len(t))
    BY Zenon
  <2>1. s \in Topic /\ Len(s) = Len(path) /\ \A i \in 1 .. Len(path) : s[i] = t[Len(d) + 2 + i]
    BY <2>s, <1>1, <1>2, <1>5 DEF Topic
  <2>2. \A i \in 1 .. Len(s) : s[i] = path[i]
    BY <1>1, <2>1
  <2>3. s = path
    BY <1>2, <2>1, <2>2, SameLevels
  <2> QED
    BY <2>s, <2>3
<1>8. parsePropsTopicOrSetAck(t) = [ok |-> TRUE, dev |-> d, rest |-> path]
  BY <1>1, <1>4, <1>c, <1>6, <1>7, Zenon DEF parsePropsTopicOrSetAck
<1> QED
  BY <1>t, <1>8 DEF parsePropsTopic

(* A value is read as one of the device and the path it was published for. *)
LEMMA ValuesAreUpdates ==
  ASSUME PlainIds, NEW m \in Msg, NEW d \in Devices, NEW path \in Paths, m.topic = topicProps(d, path)
  PROVE  FanOut(m) \subseteq {[dev |-> d, path |-> path]}
<1>1. Len(m.topic) > 3 /\ parseStatusTopic(m.topic).ok = FALSE
  <2>1. Len(m.topic) = Len(d) + Len(path) + 2 /\ Len(d) \in Nat \ {0} /\ Len(path) \in Nat \ {0}
    BY PropsTopic, DeviceIds, PathLevels
  <2> QED
    BY <2>1 DEF parseStatusTopic
<1> QED
  BY <1>1, ValueTopicsParseBack DEF FanOut

(* A heartbeat is read as one of the device it is from.                    *)
LEMMA HeartbeatsAreUpdates ==
  ASSUME PlainIds, NEW m \in Msg, NEW d \in Devices, m.topic = topicStatus(d)
  PROVE  FanOut(m) \subseteq {[dev |-> d, path |-> <<>>]} /\ (FanOut(m) # {} => Len(d) = 1)
<1>t. PICK t \in Topic : t = m.topic
  BY DEF Msg
<1>1. /\ Len(t) = Len(d) + 2 /\ t[1] = "udal" /\ \A i \in 1 .. Len(d) : t[i + 1] = d[i]
      /\ d \in Topic /\ Len(d) \in Nat \ {0}
  BY <1>t, StatusTopic, DeviceIds DEF Topic
<1>2. PropsAt(t) = {}
  <2>1. ASSUME NEW i \in 3 .. Len(t) - 1 PROVE t[i] # "props"
    <3>1. i - 1 \in 2 .. Len(d) /\ i - 1 \in 1 .. Len(d) /\ (i - 1) + 1 = i
      BY <1>1
    <3> QED
      BY <1>1, <3>1, Zenon DEF PlainIds
  <2> QED
    BY <2>1 DEF PropsAt
<1>3. parsePropsTopic(t).ok = FALSE
  BY <1>2 DEF parsePropsTopic, parsePropsTopicOrSetAck
<1>4. CASE Len(d) = 1
  <2>s. PICK s : s = SubSeq(t, 2, 2)
    BY Zenon
  <2>0. t[2] \in Level /\ \A i \in 2 .. 2 : t[i] \in Level
    <3>1. t[2] \in Level
      BY <1>1, <1>4 DEF Topic
    <3>2. \A i \in 2 .. 2 : i = 2
      OBVIOUS
    <3> QED
      BY <3>1, <3>2
  <2>1. s \in Topic /\ Len(s) = 1 /\ s[1] = t[2]
    <3>1. s \in Seq(Level) /\ Len(s) = 1 /\ \A i \in 1 .. 1 : s[i] = t[2 + i - 1]
      BY <2>s, <2>0, SubSeqProperties
    <3> QED
      BY <3>1 DEF Topic
  <2>2. \A i \in 1 .. Len(s) : s[i] = d[i]
    BY <1>1, <1>4, <2>1
  <2>3. s = d
    BY <1>1, <1>4, <2>1, <2>2, SameLevels
  <2>4. parseStatusTopic(t).ok => parseStatusTopic(t).dev = d
    BY <2>s, <2>3 DEF parseStatusTopic
  <2> QED
    BY <1>t, <1>3, <1>4, <2>4 DEF FanOut
<1>5. CASE Len(d) # 1
  <2>k. PICK k \in Nat : k = Len(d) /\ Len(t) = k + 2 /\ k # 1
    BY <1>1, <1>5, Zenon
  <2>1. Len(t) # 3
    BY <2>k
  <2>2. parseStatusTopic(t).ok = FALSE
    BY <2>1 DEF parseStatusTopic
  <2> QED
    BY <1>t, <1>3, <2>2 DEF FanOut
<1> QED
  BY <1>4, <1>5

(* A filter on the properties of e lets values of e through, and no other. *)
LEMMA SameDevice ==
  ASSUME PlainIds, NEW d \in Devices, NEW path \in Paths, NEW e \in Devices, NEW t,
         t = topicProps(d, path),
         \A i \in 1 .. Len(e) : t[i + 1] = e[i], t[Len(e) + 2] = "props"
  PROVE  e = d
<1>1. d \in Topic /\ e \in Topic /\ Len(d) \in Nat \ {0} /\ Len(e) \in Nat \ {0}
  BY DeviceIds DEF Topic
<1>2. t[Len(d) + 2] = "props" /\ \A i \in 1 .. Len(d) : t[i + 1] = d[i]
  BY PropsTopic
<1>3. ASSUME Len(e) < Len(d) PROVE FALSE
  <2>1. Len(e) + 1 \in 2 .. Len(d) /\ Len(e) + 1 \in 1 .. Len(d) /\ (Len(e) + 1) + 1 = Len(e) + 2
    BY <1>1, <1>3
  <2>2. d[Len(e) + 1] = "props"
    BY <1>2, <2>1
  <2> QED
    BY <2>1, <2>2 DEF PlainIds
<1>4. ASSUME Len(d) < Len(e) PROVE FALSE
  <2>1. Len(d) + 1 \in 2 .. Len(e) /\ Len(d) + 1 \in 1 .. Len(e) /\ (Len(d) + 1) + 1 = Len(d) + 2
    BY <1>1, <1>4
  <2>2. e[Len(d) + 1] = "props"
    BY <1>2, <2>1
  <2> QED
    BY <2>1, <2>2 DEF PlainIds
<1>5. Len(e) = Len(d)
  BY <1>1, <1>3, <1>4
<1>6. \A i \in 1 .. Len(e) : e[i] = d[i]
  BY <1>2, <1>5
<1> QED
  BY <1>1, <1>5, <1>6, SameLevels

(* A filter that begins with the levels of e, none of them a wildcard, and *)
(* matches t, does so level by level.                                      *)
LEMMA MatchesLevels ==
  ASSUME NEW f \in Topic, NEW t \in Topic, NEW e \in Devices, validTopicSegment(e), Matches(f, t),
         \A i \in 1 .. Len(e) : f[i + 1] = e[i],
         Len(f) > Len(e) + (IF f[Len(f)] = "#" THEN 1 ELSE 0)
  PROVE  \A i \in 1 .. Len(e) : t[i + 1] = e[i]
<1>1. Len(e) \in Nat \ {0} /\ Len(f) \in Nat
  BY DeviceIds DEF Topic
<1>2. ASSUME NEW i \in 1 .. Len(e) PROVE t[i + 1] = e[i]
  <2>1. e[i] \notin {"+", "#"}
    BY DEF validTopicSegment
  <2>2. i + 1 \in 1 .. (IF f[Len(f)] = "#" THEN Len(f) - 1 ELSE Len(f))
    BY <1>1
  <2>3. f[i + 1] \in {"+", t[i + 1]}
    BY <2>2 DEF Matches, Last
  <2> QED
    BY <2>1, <2>3
<1> QED
  BY <1>2

(* Only calls for a device subscribe to a filter that its values pass.     *)
LEMMA ValuesWereAskedFor ==
  ASSUME PlainIds, NEW c \in CallRecord, Valid(c), NEW f \in TopicsOf(c),
         NEW d \in Devices, NEW path \in Paths, Matches(f, topicProps(d, path))
  PROVE  c.dev = d
<1>t. PICK t \in Topic : t = topicProps(d, path)
  BY PropsTopic
<1>e. PICK e \in Devices : e = c.dev
  BY DEF CallRecord
<1>q. PICK q \in Paths : q = c.path
  BY DEF CallRecord
<1>1. /\ Len(e) \in Nat \ {0} /\ Len(q) \in Nat \ {0} /\ Len(d) \in Nat \ {0} /\ Len(path) \in Nat \ {0}
      /\ e \in Topic /\ f \in Topic /\ validTopicSegment(e) /\ Matches(f, t)
      /\ c.op # "watch" => validTopicSegment(q)
  BY <1>t, <1>e, <1>q, DeviceIds, PathLevels, TopicsAreTopics DEF Topic, Valid
<1>2. CASE f = topicStatus(e)
  <2>1. /\ Len(f) = Len(e) + 2 /\ f[Len(e) + 2] = "status"
        /\ \A i \in 1 .. Len(e) : f[i + 1] = e[i]
    BY <1>2, StatusTopic
  <2>2. Len(t) = Len(f)
    BY <1>1, <2>1 DEF Matches, Last
  <2>3. \A i \in 1 .. Len(e) : t[i + 1] = e[i]
    <3>1. Len(f) > Len(e) + (IF f[Len(f)] = "#" THEN 1 ELSE 0)
      BY <1>1, <2>1
    <3> QED
      BY <1>1, <2>1, <3>1, MatchesLevels, Zenon
  <2>4. t[Len(d) + 2] = "props" /\ Len(t) = Len(d) + Len(path) + 2
    BY <1>t, PropsTopic
  <2>5. Len(d) + 1 \in 1 .. Len(e) /\ Len(d) + 1 \in 2 .. Len(e) /\ (Len(d) + 1) + 1 = Len(d) + 2
    BY <1>1, <2>1, <2>2, <2>4
  <2>6. e[Len(d) + 1] = "props"
    BY <2>3, <2>4, <2>5
  <2> QED
    BY <2>5, <2>6 DEF PlainIds
<1>3. CASE f # topicStatus(e)
  <2>1. /\ \A i \in 1 .. Len(e) : f[i + 1] = e[i]
        /\ f[Len(e) + 2] = "props"
        /\ Len(f) >= Len(e) + 2 + (IF f[Len(f)] = "#" THEN 1 ELSE 0)
    <3>p. PICK s \in Topic : s = topicProps(e, q)
      BY PropsTopic
    <3>1. /\ Len(s) = Len(e) + Len(q) + 2 /\ s[Len(e) + 2] = "props"
          /\ \A i \in 1 .. Len(e) : s[i + 1] = e[i]
          /\ \A i \in 1 .. Len(q) : s[Len(e) + 2 + i] = q[i]
      BY <3>p, PropsTopic
    <3>2. CASE c.op = "read"
      <4>1. f = s
        BY <1>e, <1>q, <1>3, <3>p, <3>2, RepliesByOp DEF TopicsOf
      <4> QED
        BY <1>1, <3>1, <4>1
    <3>3. CASE c.op = "write"
      <4>1. f = topicSetAck(e, q)
        BY <1>e, <1>q, <1>3, <3>3, RepliesByOp DEF TopicsOf
      <4>2. /\ Len(f) = Len(e) + Len(q) + 4
            /\ \A i \in 1 .. Len(e) + Len(q) + 2 : f[i] = s[i]
        BY <3>p, <4>1, AckTopic
      <4>3. \A i \in 1 .. Len(e) : f[i + 1] = e[i]
        <5> SUFFICES ASSUME NEW i \in 1 .. Len(e) PROVE f[i + 1] = e[i]
          OBVIOUS
        <5>1. i + 1 \in 1 .. Len(e) + Len(q) + 2
          BY <1>1
        <5> QED
          BY <3>1, <4>2, <5>1
      <4>4. Len(e) + 2 \in 1 .. Len(e) + Len(q) + 2
        BY <1>1
      <4> QED
        BY <1>1, <3>1, <4>2, <4>3, <4>4
    <3>4. CASE c.op = "watch"
      <4>1. f = topicPropsWildcard(e)
        BY <1>e, <1>3, <3>4, RepliesByOp DEF TopicsOf
      <4>2. /\ Len(f) = Len(e) + 3 /\ f[Len(e) + 2] = "props"
            /\ \A i \in 1 .. Len(e) : f[i + 1] = e[i]
        BY <1>1, <4>1, WildcardTopic, Zenon
      <4> QED
        BY <1>1, <4>2
    <3> QED
      BY <3>2, <3>3, <3>4 DEF CallRecord
  <2>2. \A i \in 1 .. Len(e) : t[i + 1] = e[i]
    <3>1. Len(f) > Len(e) + (IF f[Len(f)] = "#" THEN 1 ELSE 0)
      BY <1>1, <2>1 DEF Topic
    <3> QED
      BY <1>1, <2>1, <3>1, MatchesLevels, Zenon
  <2>3. t[Len(e) + 2] = "props"
    <3>1. Len(e) + 2 \in 1 .. (IF f[Len(f)] = "#" THEN Len(f) - 1 ELSE Len(f))
      BY <1>1, <2>1 DEF Topic
    <3>2. f[Len(e) + 2] \in {"+", t[Len(e) + 2]}
      BY <1>1, <3>1 DEF Matches, Last
    <3> QED
      BY <2>1, <3>2
  <2> QED
    BY <1>t, <1>e, <2>2, <2>3, SameDevice
<1> QED
  BY <1>2, <1>3

(* Nor do heartbeats pass the filters of others.                           *)
LEMMA HeartbeatsWereAskedFor ==
  ASSUME NEW c \in CallRecord, Valid(c), NEW f \in TopicsOf(c),
         NEW d \in Devices, Len(d) = 1, Matches(f, topicStatus(d))
  PROVE  c.dev = d
<1>t. PICK t \in Topic : t = topicStatus(d)
  BY StatusTopic
<1>e. PICK e \in Devices : e = c.dev
  BY DEF CallRecord
<1>q. PICK q \in Paths : q = c.path
  BY DEF CallRecord
<1>1. /\ Len(e) \in Nat \ {0} /\ Len(q) \in Nat \ {0} /\ e \in Topic /\ d \in Topic
      /\ validTopicSegment(e) /\ Matches(f, t) /\ (c.op # "watch" => validTopicSegment(q))
  BY <1>t, <1>e, <1>q, DeviceIds, PathLevels DEF Topic, Valid
<1>2. Len(t) = 3 /\ t[3] = "status" /\ t[2] = d[1]
  <2>1. Len(t) = Len(d) + 2 /\ t[Len(d) + 2] = "status" /\ \A i \in 1 .. Len(d) : t[i + 1] = d[i]
    BY <1>t, StatusTopic, Zenon
  <2> QED
    BY <2>1
<1>3. CASE f = topicStatus(e)
  <2>1. /\ f \in Topic /\ Len(f) = Len(e) + 2 /\ f[Len(e) + 2] = "status" /\ f[2] = e[1]
    <3>1. /\ f \in Topic /\ Len(f) = Len(e) + 2 /\ f[Len(e) + 2] = "status"
          /\ \A i \in 1 .. Len(e) : f[i + 1] = e[i]
      BY <1>3, StatusTopic
    <3>2. 1 \in 1 .. Len(e) /\ 1 + 1 = 2
      BY <1>1
    <3> QED
      BY <3>1, <3>2
  <2>2. Len(f) = 3 /\ f[2] \in {"+", t[2]}
    BY <1>1, <1>2, <2>1 DEF Matches, Last
  <2>3. Len(e) = 1
    <3>k. PICK k \in Nat : k = Len(e)
      BY <1>1
    <3>1. k + 2 = 3
      BY <2>1, <2>2, <3>k, Zenon
    <3> QED
      BY <3>k, <3>1
  <2>4. e[1] # "+"
    BY <1>1, <2>3 DEF validTopicSegment
  <2>5. \A i \in 1 .. Len(e) : e[i] = d[i]
    BY <1>2, <2>1, <2>2, <2>3, <2>4
  <2> QED
    BY <1>e, <1>1, <2>3, <2>5, SameLevels
<1>4. CASE c.op = "read" /\ f # topicStatus(e)
  <2>1. f = topicProps(e, q)
    BY <1>e, <1>q, <1>4, RepliesByOp DEF TopicsOf
  <2>2. /\ Len(f) = Len(e) + Len(q) + 2 /\ f[Len(f)] # "#"
    <3>1. Len(f) = Len(e) + Len(q) + 2 /\ \A i \in 1 .. Len(q) : f[Len(e) + 2 + i] = q[i]
      BY <2>1, PropsTopic
    <3>2. Len(q) \in 1 .. Len(q) /\ Len(e) + 2 + Len(q) = Len(f)
      BY <1>1, <3>1
    <3>3. q[Len(q)] # "#"
      BY <1>1, <1>4, <3>2 DEF validTopicSegment
    <3> QED
      BY <3>1, <3>2, <3>3
  <2> QED
    BY <1>1, <1>2, <2>2 DEF Matches, Last
<1>5. CASE c.op = "write" /\ f # topicStatus(e)
  <2>1. f = topicSetAck(e, q)
    BY <1>e, <1>q, <1>5, RepliesByOp DEF TopicsOf
  <2>2. Len(f) = Len(e) + Len(q) + 4 /\ f[Len(f)] = "ack"
    BY <2>1, AckTopic
  <2> QED
    BY <1>1, <1>2, <2>2 DEF Matches, Last
<1>6. CASE c.op = "watch" /\ f # topicStatus(e)
  <2>1. f = topicPropsWildcard(e)
    BY <1>e, <1>6, RepliesByOp DEF TopicsOf
  <2>2. Len(f) = Len(e) + 3 /\ f[Len(e) + 2] = "props" /\ f[Len(e) + 3] = "#"
    BY <1>1, <2>1, WildcardTopic, Zenon
  <2>3. 3 >= Len(e) + 2 /\ f[Len(e) + 2] \in {"+", t[Len(e) + 2]}
    <3>1. f[Len(f)] = "#" /\ Len(f) - 1 = Len(e) + 2 /\ Len(e) + 2 \in 1 .. Len(f) - 1
      BY <1>1, <2>2
    <3> QED
      BY <1>1, <1>2, <3>1 DEF Matches, Last
  <2>4. Len(e) + 2 = 3
    BY <1>1, <2>3
  <2> QED
    BY <1>2, <2>2, <2>3, <2>4
<1> QED
  BY <1>3, <1>4, <1>5, <1>6 DEF CallRecord

(* What was attributed stays so: no call changes its device.               *)
LEMMA DevicesStay ==
  ASSUME IInv, Next PROVE \A p \in Procs : call'[p].dev = call[p].dev
<1>1. call \in [Procs -> CallRecord]
  BY DEF IInv, Types
<1>2. ASSUME NEW q \in Procs, Step(q), NEW p \in Procs PROVE call'[p].dev = call[p].dev
  <2>0. call[q] \in CallRecord
    BY <1>1
  <2>1. Subscribed(call[q]).dev = call[q].dev
    BY <2>0 DEF Subscribed, CallRecord
  <2>2. CASE Check(q) \/ Mark(q)
    BY <1>1, <2>0, <2>1, <2>2 DEF Check, Mark, CallRecord
  <2>3. CASE Start(q) \/ Refuse(q) \/ Subscribe(q) \/ SubscribeFails(q)
    BY <1>1, <2>0, <2>3 DEF Start, Refuse, Subscribe, SubscribeFails, CallRecord
  <2>4. CASE registerWaiter(q) \/ Publish(q) \/ PublishFails(q) \/ ContextDone(q) \/ Cancel(q)
    <3>1. \E pc : call' = [call EXCEPT ![q].pc = pc]
      BY <2>4 DEF registerWaiter, Publish, PublishFails, ContextDone, Cancel
    <3> QED
      BY <1>1, <2>0, <3>1 DEF CallRecord
  <2>5. CASE TakeReply(q)
    BY <1>1, <2>0, <2>5 DEF TakeReply, CallRecord
  <2> QED
    BY <1>2, <2>2, <2>3, <2>4, <2>5, Zenon DEF Step
<1>3. ASSUME DispatchSend, NEW p \in Procs PROVE call'[p].dev = call[p].dev
  <2>1. \E w, c : call' = [call EXCEPT ![w].chan = c]
    BY <1>3, Zenon DEF DispatchSend
  <2> QED
    BY <1>1, <2>1 DEF CallRecord
<1>4. CASE \/ DispatchStart \/ DispatchEnd \/ ConnectionLost \/ Finished
           \/ \E d \in Publishers : DevicePublishes(d)
  BY <1>4, Zenon DEF DispatchStart, DispatchEnd, ConnectionLost, Finished, DevicePublishes, vars
<1> QED
  BY <1>2, <1>3, <1>4 DEF Next, Dispatch

(* What the broker delivers is attributed from the start.                  *)
LEMMA RequestsAreAttributed ==
  ASSUME NEW c \in CallRecord PROVE Attributed(RequestOf(c))
<1>d. PICK d \in Devices, path \in Paths : d = c.dev /\ path = c.path
  BY DEF CallRecord
<1>s. PICK s \in {"get", "set"} : RequestOf(c).topic = topicProps(d, path) \o <<s>>
  BY <1>d DEF RequestOf, Message, topicGet, topicSet
<1>m. PICK m \in Msg : m = RequestOf(c)
  BY RequestIsMessage
<1>t. PICK t : t = topicProps(d, path) \o <<s>>
  BY Zenon
<1>2. Len(t) = Len(d) + Len(path) + 3 /\ t[Len(t)] = s
  BY <1>t, RequestTopic
<1>k. PICK k \in Nat \ {0}, n \in Nat \ {0} : k = Len(d) /\ n = Len(path)
  BY DeviceIds, PathLevels
<1>3. m.topic = t /\ Len(t) > 3
  <2>1. Len(t) = k + n + 3
    BY <1>2, <1>k
  <2>2. Len(t) > 3
    BY <2>1
  <2> QED
    BY <1>s, <1>m, <1>t, <2>2
<1>4. FanOut(m) = {}
  BY <1>2, <1>3, RequestsAreNoUpdates
<1> QED
  BY <1>m, <1>4 DEF Attributed

(* What a device publishes is reported as its own, whatever filter let it  *)
(* in.                                                                     *)
LEMMA DeviceMessagesAreAttributed ==
  ASSUME PlainIds, IInv, NEW d \in Devices, NEW path \in Paths, NEW good \in BOOLEAN,
         NEW m \in {Message(topicProps(d, path), [dev |-> d, path |-> path], good),
                    Message(topicSetAck(d, path), [dev |-> d, path |-> path], TRUE),
                    Message(topicStatus(d), [dev |-> d, path |-> <<>>], TRUE)},
         NEW f \in brokerSubs, Matches(f, m.topic)
  PROVE  Attributed(m)
<1>1. m \in Msg
  BY DeviceMessages, Zenon
<1>p. PICK p \in Procs : Valid(call[p]) /\ f \in TopicsOf(call[p])
  BY DEF IInv, FiltersOK
<1>2. call[p] \in CallRecord
  BY DEF IInv, Types
<1>3. CASE m = Message(topicProps(d, path), [dev |-> d, path |-> path], good)
  <2>1. m.topic = topicProps(d, path) /\ m.origin = [dev |-> d, path |-> path]
    BY <1>3, Zenon DEF Message
  <2>2. FanOut(m) \subseteq {m.origin} /\ m.origin.dev = d
    <3>1. FanOut(m) \subseteq {[dev |-> d, path |-> path]}
      BY <1>1, <2>1, ValuesAreUpdates, Zenon
    <3>2. [dev |-> d, path |-> path].dev = d
      OBVIOUS
    <3> QED
      BY <2>1, <3>1, <3>2, Zenon
  <2>3. call[p].dev = d
    BY <1>p, <1>2, <2>1, ValuesWereAskedFor
  <2> QED
    BY <2>2, <2>3 DEF Attributed
<1>4. CASE m = Message(topicSetAck(d, path), [dev |-> d, path |-> path], TRUE)
  <2>1. m.topic = topicSetAck(d, path)
    BY <1>4 DEF Message
  <2> QED
    BY <1>1, <2>1, AcksAreNoUpdates, Zenon DEF Attributed
<1>5. CASE m = Message(topicStatus(d), [dev |-> d, path |-> <<>>], TRUE)
  <2>1. m.topic = topicStatus(d) /\ m.origin = [dev |-> d, path |-> <<>>]
    BY <1>5 DEF Message
  <2>2. FanOut(m) \subseteq {m.origin} /\ m.origin.dev = d /\ (FanOut(m) # {} => Len(d) = 1)
    <3>1. FanOut(m) \subseteq {[dev |-> d, path |-> <<>>]} /\ (FanOut(m) # {} => Len(d) = 1)
      BY <1>1, <2>1, HeartbeatsAreUpdates, Zenon
    <3> QED
      BY <2>1, <3>1
  <2>3. Len(d) = 1 => call[p].dev = d
    BY <1>p, <1>2, <2>1, HeartbeatsWereAskedFor
  <2> QED
    BY <2>2, <2>3, Zenon DEF Attributed
<1> QED
  BY <1>3, <1>4, <1>5, Zenon

(* A step leaves the attribution alone if it adds only such messages.      *)
LEMMA AttributionKept ==
  ASSUME IInv, Next, AttributionInv,
         \A i \in 1 .. Len(inbox') : \E m : inbox'[i] = m /\ Attributed(m),
         dispatching' # Idle => \E m : dispatching'.msg = m /\ Attributed(m)
  PROVE  AttributionInv'
<1>1. \A p \in Procs : call'[p].dev = call[p].dev
  BY DevicesStay
<1>2. ASSUME NEW m, Attributed(m)
      PROVE  \A u \in FanOut(m) : m.origin = u /\ \E p \in Procs : call'[p].dev = u.dev
  BY <1>1, <1>2 DEF Attributed
<1>3. ASSUME NEW i \in 1 .. Len(inbox') PROVE Attributed(inbox[i])'
  <2>1. PICK m : inbox'[i] = m /\ Attributed(m)
    OBVIOUS
  <2>2. \A u \in FanOut(m) : m.origin = u /\ \E p \in Procs : call'[p].dev = u.dev
    BY <1>2, <2>1
  <2> QED
    BY <2>1, <2>2 DEF Attributed
<1>4. ASSUME dispatching' # Idle PROVE Attributed(dispatching.msg)'
  <2>1. PICK m : dispatching'.msg = m /\ Attributed(m)
    BY <1>4
  <2>2. \A u \in FanOut(m) : m.origin = u /\ \E p \in Procs : call'[p].dev = u.dev
    BY <1>2, <2>1
  <2> QED
    BY <2>1, <2>2 DEF Attributed
<1> QED
  BY <1>3, <1>4, Zenon DEF AttributionInv, Idle

(* Every step keeps all messages in the inbox attributed.                  *)
LEMMA NextAttribution ==
  ASSUME PlainIds, IInv, AttributionInv, Next PROVE AttributionInv'
<1>0. /\ call \in [Procs -> CallRecord] /\ inbox \in Seq(Msg)
      /\ dispatching \in DispatchRecord \cup {Idle}
  BY DEF IInv, Types
<1>1. UNCHANGED inbox => \A i \in 1 .. Len(inbox') : \E m : inbox'[i] = m /\ Attributed(m)
  BY DEF AttributionInv
<1>2. UNCHANGED dispatching => (dispatching' # Idle => \E m : dispatching'.msg = m /\ Attributed(m))
  BY DEF AttributionInv
<1>3. ASSUME NEW p \in Procs, Publish(p) PROVE AttributionInv'
  <2>m. PICK m \in Msg : m = RequestOf(call[p])
    BY <1>0, RequestIsMessage
  <2>1. Attributed(m) /\ inbox' = inbox \o Delivered(m) /\ UNCHANGED dispatching
    BY <1>0, <1>3, <2>m, RequestsAreAttributed DEF Publish
  <2>2. \A i \in 1 .. Len(inbox') : \/ inbox'[i] = m /\ \E f \in brokerSubs : Matches(f, m.topic)
                                    \/ i \in 1 .. Len(inbox) /\ inbox'[i] = inbox[i]
    BY <2>1, InboxGrows DEF IInv
  <2>3. \A i \in 1 .. Len(inbox') : \E x : inbox'[i] = x /\ Attributed(x)
    BY <2>1, <2>2 DEF AttributionInv
  <2> QED
    BY <1>2, <2>1, <2>3, AttributionKept
<1>4. ASSUME NEW d \in Publishers, DevicePublishes(d) PROVE AttributionInv'
  <2>0. d \in Devices
    BY MqttAssumption
  <2>1. PICK path \in Paths, good \in BOOLEAN :
          \E m \in {Message(topicProps(d, path), [dev |-> d, path |-> path], good),
                    Message(topicSetAck(d, path), [dev |-> d, path |-> path], TRUE),
                    Message(topicStatus(d), [dev |-> d, path |-> <<>>], TRUE)} :
             inbox' = inbox \o Delivered(m)
    BY <1>4, Zenon DEF DevicePublishes
  <2>2. PICK m \in {Message(topicProps(d, path), [dev |-> d, path |-> path], good),
                    Message(topicSetAck(d, path), [dev |-> d, path |-> path], TRUE),
                    Message(topicStatus(d), [dev |-> d, path |-> <<>>], TRUE)} :
             inbox' = inbox \o Delivered(m)
    BY <2>1, Zenon
  <2>3. m \in Msg
    BY <2>0, DeviceMessages, Zenon
  <2>4. \A f \in brokerSubs : Matches(f, m.topic) => Attributed(m)
    BY <2>0, <2>2, DeviceMessagesAreAttributed, Zenon
  <2>5. \A i \in 1 .. Len(inbox') : \/ inbox'[i] = m /\ \E f \in brokerSubs : Matches(f, m.topic)
                                    \/ i \in 1 .. Len(inbox) /\ inbox'[i] = inbox[i]
    BY <2>2, <2>3, InboxGrows, Zenon DEF IInv
  <2>6. \A i \in 1 .. Len(inbox') : \E x : inbox'[i] = x /\ Attributed(x)
    BY <2>4, <2>5, Zenon DEF AttributionInv
  <2>7. UNCHANGED dispatching
    BY <1>4 DEF DevicePublishes
  <2> QED
    BY <1>2, <2>6, <2>7, AttributionKept
<1>5. CASE DispatchStart
  <2>1. Len(inbox) \in Nat \ {0} /\ dispatching'.msg = inbox[1] /\ inbox' = Tail(inbox)
    <3>1. inbox # <<>> /\ dispatching'.msg = Head(inbox) /\ inbox' = Tail(inbox)
      BY <1>5, Zenon DEF DispatchStart
    <3> QED
      BY <1>0, <3>1
  <2>2. Len(inbox') = Len(inbox) - 1 /\ \A i \in 1 .. Len(inbox) - 1 : inbox'[i] = inbox[i + 1]
    BY <1>0, <2>1
  <2>3. \A i \in 1 .. Len(inbox') : \E m : inbox'[i] = m /\ Attributed(m)
    <3> SUFFICES ASSUME NEW i \in 1 .. Len(inbox') PROVE \E m : inbox'[i] = m /\ Attributed(m)
      OBVIOUS
    <3>1. i \in 1 .. Len(inbox) - 1 /\ i + 1 \in 1 .. Len(inbox)
      BY <2>1, <2>2
    <3> QED
      BY <2>2, <3>1 DEF AttributionInv
  <2>4. \E m : dispatching'.msg = m /\ Attributed(m)
    <3>1. 1 \in 1 .. Len(inbox)
      BY <2>1
    <3> QED
      BY <2>1, <3>1 DEF AttributionInv
  <2> QED
    BY <2>3, <2>4, AttributionKept
<1>6. CASE DispatchSend
  <2>1. dispatching # Idle /\ dispatching'.msg = dispatching.msg /\ UNCHANGED inbox
    BY <1>0, <1>6, Zenon DEF DispatchSend, DispatchRecord, network
  <2> QED
    BY <1>1, <2>1, AttributionKept DEF AttributionInv
<1>7. CASE DispatchEnd
  <2>1. dispatching' = Idle /\ UNCHANGED inbox
    BY <1>7 DEF DispatchEnd, network
  <2> QED
    BY <1>1, <2>1, AttributionKept
<1>8. ASSUME NEW p \in Procs, registerWaiter(p) \/ Cancel(p) PROVE AttributionInv'
  <2>1. UNCHANGED inbox
    BY <1>8 DEF registerWaiter, Cancel, network
  <2>2. UNCHANGED dispatching \/ \E t, arr : dispatching' = Detached(t, arr)
    BY <1>8 DEF registerWaiter, Cancel
  <2>3. UNCHANGED dispatching \/ (dispatching # Idle /\ dispatching'.msg = dispatching.msg)
    BY <1>0, <2>2, Zenon DEF Detached, DispatchRecord
  <2>4. dispatching' # Idle => \E m : dispatching'.msg = m /\ Attributed(m)
    BY <1>2, <2>3, Zenon DEF AttributionInv
  <2> QED
    BY <1>1, <2>1, <2>4, AttributionKept, Zenon
<1>9. CASE UNCHANGED <<inbox, dispatching>>
  BY <1>1, <1>2, <1>9, AttributionKept, Zenon
<1>10. ASSUME NEW p \in Procs, Step(p), ~Publish(p), ~registerWaiter(p), ~Cancel(p)
       PROVE  UNCHANGED <<inbox, dispatching>>
  BY <1>10, Zenon DEF Step, Start, Refuse, Check, Subscribe, SubscribeFails, Mark, PublishFails, TakeReply,
               ContextDone, network
<1>11. ConnectionLost \/ Finished => UNCHANGED <<inbox, dispatching>>
  BY DEF ConnectionLost, Finished, vars, network
<1> QED
  BY <1>3, <1>4, <1>5, <1>6, <1>7, <1>8, <1>9, <1>10, <1>11, Zenon DEF Next, Dispatch

(* onUpdate and onHeartbeat are told the device and the path the message   *)
(* is from, never of a request of the gateway's own, and only of devices   *)
(* somebody asked for - unless a device ID has a level "props" behind the  *)
(* first one (dispatch, parsePropsTopic, validTopicSegment).               *)
THEOREM UpdatesNameTheirOrigin == PlainIds => (Spec => []UpdatesAreAttributed)
<1> SUFFICES ASSUME PlainIds PROVE Spec => []UpdatesAreAttributed
  OBVIOUS
<1>1. Init => AttributionInv
  BY DEF Init, AttributionInv
<1>2. IInv /\ AttributionInv /\ [Next]_vars => AttributionInv'
  <2> SUFFICES ASSUME IInv, AttributionInv, [Next]_vars PROVE AttributionInv'
    OBVIOUS
  <2>1. CASE Next
    BY <2>1, NextAttribution
  <2>2. CASE UNCHANGED vars
    BY <2>2 DEF vars, network, AttributionInv, Attributed
  <2> QED
    BY <2>1, <2>2
<1>3. AttributionInv => UpdatesAreAttributed
  BY DEF AttributionInv, Attributed, UpdatesAreAttributed
<1> QED
  BY <1>1, <1>2, <1>3, IInvInvariant, PTL DEF Spec
=============================================================================
