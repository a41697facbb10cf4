--------------------------- MODULE SdkClient_proofs ---------------------------
(***************************************************************************)
(* Subscriptions, for any number of devices, subscribers, paths and        *)
(* updates and any capacity.  First the broker and its handlers; the       *)
(* invariants found there hold of the composition, because the SDK adds no *)
(* behaviour to the broker.  With them, the goroutine of Client.Subscribe  *)
(* hands over what was forwarded to it.                                    *)
(***************************************************************************)
EXTENDS SdkClient, TLAPS

(* TypeOK holds initially: NewBroker is empty.                             *)
LEMMA InitTypeOK == Init => TypeOK
<1> SUFFICES ASSUME Init PROVE TypeOK
  OBVIOUS
<1>1. \A c \in Handlers : queue[c] = <<>> /\ Len(queue[c]) = 0
  BY DEF Init
<1>2. queue \in [Handlers -> Seq(Update)]
  BY DEF Init
<1>3. QED
  BY <1>1, <1>2, BrokerAssumption DEF Init, TypeOK

(* Every critical section of the broker and every step of a handler keeps  *)
(* the types and the capacity of the channels.                             *)
LEMMA NextTypeOK == TypeOK /\ [Next]_vars => TypeOK'
<1> SUFFICES ASSUME TypeOK, [Next]_vars PROVE TypeOK'
  OBVIOUS
<1> USE BrokerAssumption DEF TypeOK
<1>1. ASSUME NEW c \in Handlers, Subscribe(c) PROVE TypeOK'
  BY <1>1 DEF Subscribe
<1>2. ASSUME NEW c \in Handlers, ReadUpdate(c) PROVE TypeOK'
  <2> DEFINE u == Head(queue[c])
  <2>1. queue[c] \in Seq(Update) /\ queue[c] # <<>>
    BY <1>2 DEF ReadUpdate
  <2>2. u \in Update /\ u.n \in Nat
    <3>1. u \in Update
      BY <2>1
    <3>2. QED
      BY <3>1 DEF Update
  <2>3. Tail(queue[c]) \in Seq(Update) /\ Len(Tail(queue[c])) = Len(queue[c]) - 1
    BY <2>1
  <2> HIDE DEF u
  <2>4. queue' \in [Handlers -> Seq(Update)]
    BY <1>2, <2>3 DEF ReadUpdate
  <2>5. \A x \in Handlers : Len(queue'[x]) <= subscriberBuffer
    BY <1>2, <2>1, <2>3 DEF ReadUpdate
  <2>6. cursor' \in [Handlers -> Nat] /\ forwarded' \in [Handlers -> SUBSET Update]
    BY <1>2, <2>2 DEF ReadUpdate, u
  <2>7. QED
    BY <1>2, <2>4, <2>5, <2>6 DEF ReadUpdate
<1>3. ASSUME NEW c \in Handlers, ContextDone(c) PROVE TypeOK'
  BY <1>3 DEF ContextDone
<1>4. ASSUME NEW c \in Handlers, ClientDisconnects(c) PROVE TypeOK'
  BY <1>4 DEF ClientDisconnects
<1>5. ASSUME NEW c \in Handlers, unsubscribe(c) PROVE TypeOK'
  BY <1>5 DEF unsubscribe
<1>6. ASSUME NEW d \in Devices, NEW kind \in Kinds, Publish(d, kind) PROVE TypeOK'
  <2> DEFINE u == [dev |-> d, n |-> published[d] + 1, kind |-> kind]
  <2>1. u \in Update
    BY DEF Update
  <2> HIDE DEF u
  <2>2. queue' = FanOut(d, u)
    BY <1>6 DEF Publish, u
  <2>3. queue' \in [Handlers -> Seq(Update)]
    BY <2>1, <2>2 DEF FanOut
  <2>4. \A c \in Handlers : Len(queue'[c]) <= subscriberBuffer
    BY <2>1, <2>2 DEF FanOut
  <2>5. QED
    BY <1>6, <2>3, <2>4 DEF Publish
<1>7. CASE UNCHANGED vars
  BY <1>7 DEF vars
<1>8. QED
  BY <1>1, <1>2, <1>3, <1>4, <1>5, <1>6, <1>7, Zenon DEF Next, Finished

(* Type correctness and the capacity bound of Broker's channels.           *)
THEOREM TypeCorrect == Spec => []TypeOK
  BY InitTypeOK, NextTypeOK, PTL DEF Spec
-----------------------------------------------------------------------------
(* RegisteredChannelsAreOpen becomes inductive once it also says what a    *)
(* closed channel means: its handler has returned.                         *)
RegistrationInv ==
    /\ RegisteredChannelsAreOpen
    /\ \A c \in Handlers : closed[c] <=> handler[c] = "returned"

(* Subscribe, Publish and unsubscribe exclude each other under b.mu, so no *)
(* step separates "registered" from "open".                                *)
LEMMA NextRegistrationInv ==
    TypeOK /\ RegistrationInv /\ [Next]_vars => RegistrationInv'
<1> SUFFICES ASSUME TypeOK, RegistrationInv, [Next]_vars PROVE RegistrationInv'
  OBVIOUS
<1> USE DEF TypeOK, RegistrationInv, RegisteredChannelsAreOpen
<1>1. ASSUME NEW c \in Handlers, Subscribe(c) PROVE RegistrationInv'
  BY <1>1 DEF Subscribe
<1>2. ASSUME NEW c \in Handlers, ReadUpdate(c) PROVE RegistrationInv'
  BY <1>2 DEF ReadUpdate
<1>3. ASSUME NEW c \in Handlers, ContextDone(c) PROVE RegistrationInv'
  BY <1>3 DEF ContextDone
<1>4. ASSUME NEW c \in Handlers, ClientDisconnects(c) PROVE RegistrationInv'
  BY <1>4 DEF ClientDisconnects
<1>5. ASSUME NEW c \in Handlers, unsubscribe(c) PROVE RegistrationInv'
  BY <1>5 DEF unsubscribe
<1>6. ASSUME NEW d \in Devices, NEW kind \in Kinds, Publish(d, kind)
      PROVE RegistrationInv'
  BY <1>6 DEF Publish
<1>7. CASE UNCHANGED vars
  BY <1>7 DEF vars
<1>8. QED
  BY <1>1, <1>2, <1>3, <1>4, <1>5, <1>6, <1>7 DEF Next, Finished

(* Publish never sends on a closed channel, for any number of subscribers. *)
THEOREM PublishOnlyToOpenChannels == Spec => []RegisteredChannelsAreOpen
<1>1. Init => RegistrationInv
  BY DEF Init, RegistrationInv, RegisteredChannelsAreOpen
<1>2. Spec => []RegistrationInv
  BY <1>1, TypeCorrect, NextRegistrationInv, PTL DEF Spec
<1>3. QED
  BY <1>2, PTL DEF RegistrationInv
-----------------------------------------------------------------------------
(* The order invariant is inductive as it stands, given the types and the  *)
(* fact that a handler not yet reading has an empty channel.               *)
OrderInv ==
    /\ InOrderWithoutDuplicates
    /\ \A c \in Handlers : handler[c] = "idle" => queue[c] = <<>> /\ forwarded[c] = {}
    /\ \A c \in Handlers : cursor[c] <= published[dev[c]]

(* Publish appends a number larger than all it published before, the       *)
(* handler takes the smallest: both keep every channel sorted.             *)
LEMMA NextOrderInv ==
    TypeOK /\ RegistrationInv /\ OrderInv /\ [Next]_vars => OrderInv'
<1> SUFFICES ASSUME TypeOK, RegistrationInv, OrderInv, [Next]_vars PROVE OrderInv'
  OBVIOUS
<1> USE BrokerAssumption DEF OrderInv, InOrderWithoutDuplicates
<1>1. ASSUME NEW c \in Handlers, Subscribe(c) PROVE OrderInv'
  BY <1>1 DEF Subscribe, TypeOK
<1>2. ASSUME NEW c \in Handlers, ReadUpdate(c) PROVE OrderInv'
  <2> DEFINE q == queue[c]
             u == Head(q)
  <2>1. q \in Seq(Update) /\ q # <<>> /\ Len(q) >= 1
    BY <1>2 DEF ReadUpdate, TypeOK
  <2>2. /\ Len(Tail(q)) = Len(q) - 1
        /\ \A i \in 1 .. Len(Tail(q)) : Tail(q)[i] = q[i + 1]
        /\ u = q[1]
    BY <2>1
  <2>3. /\ queue'[c] = Tail(q)
        /\ cursor'[c] = u.n
        /\ forwarded'[c] \subseteq forwarded[c] \cup {u}
        /\ handler[c] = "reading" /\ handler'[c] # "idle"
        /\ \A x \in Handlers \ {c} : /\ queue'[x] = queue[x]
                                     /\ cursor'[x] = cursor[x]
                                     /\ forwarded'[x] = forwarded[x]
                                     /\ handler'[x] = handler[x]
        /\ UNCHANGED <<dev, published>>
    BY <1>2 DEF ReadUpdate, TypeOK
  <2>4. cursor[c] < u.n /\ u.n <= published[dev[c]] /\ u.dev = dev[c]
    BY <2>1, <2>2
  <2>5. cursor[c] \in Nat /\ u.n \in Nat /\ \A v \in Update : v.n \in Nat
    <3>1. u \in Update
      BY <2>1
    <3>2. QED
      BY <3>1 DEF TypeOK, Update
  <2>6. \A v \in forwarded'[c] : v.dev = dev[c] /\ v.n <= u.n
    <3>1. forwarded[c] \subseteq Update
      BY DEF TypeOK
    <3>2. \A v \in forwarded[c] : v.dev = dev[c] /\ v.n <= cursor[c] /\ v.n \in Nat
      BY <2>5, <3>1
    <3> HIDE DEF OrderInv, InOrderWithoutDuplicates, u
    <3>3. QED
      BY <2>3, <2>4, <2>5, <3>2
  <2>sorted. /\ \A i \in 1 .. Len(q) : q[i].dev = dev[c] /\ q[i].n <= published[dev[c]]
             /\ \A i, j \in 1 .. Len(q) : i < j => q[i].n < q[j].n
    OBVIOUS
  <2>shift. \A i \in 1 .. Len(Tail(q)) : i + 1 \in 1 .. Len(q) /\ 1 < i + 1
    BY <2>1, <2>2
  <2>one. 1 \in 1 .. Len(q) /\ Len(q) \in Nat
    BY <2>1
  <2>7. \A i \in 1 .. Len(Tail(q)) : /\ Tail(q)[i].dev = dev[c]
                                     /\ u.n < Tail(q)[i].n
                                     /\ Tail(q)[i].n <= published[dev[c]]
    <3> HIDE DEF OrderInv, InOrderWithoutDuplicates, q, u
    <3>1. QED
      BY <2>2, <2>sorted, <2>shift, <2>one
  <2>8. \A i, j \in 1 .. Len(Tail(q)) : i < j => Tail(q)[i].n < Tail(q)[j].n
    <3> HIDE DEF OrderInv, InOrderWithoutDuplicates, q, u
    <3>1. QED
      BY <2>2, <2>sorted, <2>shift, <2>one
  <2> HIDE DEF q, u
  <2>9. ASSUME NEW x \in Handlers
        PROVE  /\ \A i \in 1 .. Len(queue'[x]) :
                     /\ queue'[x][i].dev = dev[x]
                     /\ cursor'[x] < queue'[x][i].n
                     /\ queue'[x][i].n <= published[dev[x]]
               /\ \A i, j \in 1 .. Len(queue'[x]) :
                     i < j => queue'[x][i].n < queue'[x][j].n
               /\ \A v \in forwarded'[x] : v.dev = dev[x] /\ v.n <= cursor'[x]
               /\ handler'[x] = "idle" => queue'[x] = <<>> /\ forwarded'[x] = {}
               /\ cursor'[x] <= published[dev[x]]
    <3>1. CASE x = c
      BY <2>3, <2>4, <2>6, <2>7, <2>8, <3>1, Zenon
    <3>2. CASE x # c
      BY <2>3, <3>2
    <3>3. QED
      BY <3>1, <3>2
  <2>10. QED
    BY <2>3, <2>9
<1>3. ASSUME NEW c \in Handlers, ContextDone(c) PROVE OrderInv'
  BY <1>3 DEF ContextDone, TypeOK
<1>4. ASSUME NEW c \in Handlers, ClientDisconnects(c) PROVE OrderInv'
  BY <1>4 DEF ClientDisconnects, TypeOK
<1>5. ASSUME NEW c \in Handlers, unsubscribe(c) PROVE OrderInv'
  BY <1>5 DEF unsubscribe, TypeOK
<1>6. ASSUME NEW d \in Devices, NEW kind \in Kinds, Publish(d, kind) PROVE OrderInv'
  <2> DEFINE u == [dev |-> d, n |-> published[d] + 1, kind |-> kind]
  <2>1. /\ u \in Update /\ u.dev = d /\ u.n = published[d] + 1
        /\ \A x \in Devices : published[x] \in Nat /\ published'[x] \in Nat
        /\ \A x \in Devices : published[x] <= published'[x]
        /\ published'[d] = published[d] + 1
    BY <1>6 DEF Update, Publish, TypeOK
  <2> HIDE DEF u
  <2>2. /\ queue' = FanOut(d, u)
        /\ UNCHANGED <<dev, cursor, forwarded, handler>>
    BY <1>6 DEF Publish, u
  <2> SUFFICES ASSUME NEW c \in Handlers
               PROVE  /\ \A i \in 1 .. Len(queue'[c]) :
                            /\ queue'[c][i].dev = dev[c]
                            /\ cursor[c] < queue'[c][i].n
                            /\ queue'[c][i].n <= published'[dev[c]]
                      /\ \A i, j \in 1 .. Len(queue'[c]) :
                            i < j => queue'[c][i].n < queue'[c][j].n
                      /\ \A v \in forwarded[c] : v.dev = dev[c] /\ v.n <= cursor[c]
                      /\ handler[c] = "idle" => queue'[c] = <<>> /\ forwarded[c] = {}
                      /\ cursor[c] <= published'[dev[c]]
    BY <2>2
  <2>3. /\ dev[c] \in Devices /\ cursor[c] \in Nat
        /\ queue[c] \in Seq(Update)
        /\ \A i \in 1 .. Len(queue[c]) : queue[c][i].n \in Nat
    <3>1. queue[c] \in Seq(Update)
      BY DEF TypeOK
    <3>2. \A i \in 1 .. Len(queue[c]) : queue[c][i] \in Update
      BY <3>1
    <3>3. QED
      BY <3>1, <3>2 DEF TypeOK, Update
  <2>4. cursor[c] <= published'[dev[c]]
    BY <2>1, <2>3
  <2>5. CASE c \in subs[d] /\ Len(queue[c]) < subscriberBuffer
    <3>1. dev[c] = d /\ handler[c] # "idle"
      BY <2>5 DEF RegistrationInv, RegisteredChannelsAreOpen
    <3>2. queue'[c] = Append(queue[c], u)
      BY <2>2, <2>5 DEF FanOut
    <3>3. /\ Len(queue'[c]) = Len(queue[c]) + 1
          /\ \A i \in 1 .. Len(queue[c]) : queue'[c][i] = queue[c][i]
          /\ queue'[c][Len(queue[c]) + 1] = u
      BY <2>1, <2>3, <3>2
    <3>4. \A i \in 1 .. Len(queue'[c]) : i \in 1 .. Len(queue[c]) \/ i = Len(queue[c]) + 1
      BY <2>3, <3>3
    <3>5. \A i \in 1 .. Len(queue[c]) : queue[c][i].n < u.n
      BY <2>1, <2>3, <3>1
    <3>6. ASSUME NEW i \in 1 .. Len(queue'[c])
          PROVE  /\ queue'[c][i].dev = dev[c]
                 /\ cursor[c] < queue'[c][i].n
                 /\ queue'[c][i].n <= published'[dev[c]]
      <4>1. CASE i \in 1 .. Len(queue[c])
        <5>1. queue'[c][i] = queue[c][i] /\ queue[c][i].n <= published[dev[c]]
          BY <3>3, <4>1
        <5>2. published[dev[c]] <= published'[dev[c]] /\ published[dev[c]] \in Nat
              /\ published'[dev[c]] \in Nat /\ queue[c][i].n \in Nat
          BY <2>1, <2>3, <4>1
        <5>3. QED
          BY <4>1, <5>1, <5>2
      <4>2. CASE i = Len(queue[c]) + 1
        <5>1. queue'[c][i] = u /\ cursor[c] <= published[d]
          BY <3>1, <3>3, <4>2
        <5>2. QED
          BY <2>1, <2>3, <3>1, <5>1
      <4>3. QED
        BY <3>4, <4>1, <4>2
    <3>7. ASSUME NEW i \in 1 .. Len(queue'[c]), NEW j \in 1 .. Len(queue'[c]), i < j
          PROVE  queue'[c][i].n < queue'[c][j].n
      <4>1. i \in 1 .. Len(queue[c]) /\ queue'[c][i] = queue[c][i]
        BY <2>3, <3>3, <3>7
      <4>2. CASE j \in 1 .. Len(queue[c])
        BY <3>3, <3>7, <4>1, <4>2
      <4>3. CASE j = Len(queue[c]) + 1
        BY <3>3, <3>5, <4>1, <4>3
      <4>4. QED
        BY <3>4, <4>2, <4>3
    <3>8. QED
      BY <2>4, <3>1, <3>6, <3>7
  <2>6. CASE ~(c \in subs[d] /\ Len(queue[c]) < subscriberBuffer)
    <3>1. queue'[c] = queue[c]
      BY <2>2, <2>6 DEF FanOut
    <3>2. QED
      BY <2>1, <2>3, <2>4, <3>1
  <2>7. QED
    BY <2>5, <2>6
<1>7. CASE UNCHANGED vars
  BY <1>7 DEF vars
<1>8. QED
  BY <1>1, <1>2, <1>3, <1>4, <1>5, <1>6, <1>7 DEF Next, Finished

(* A subscriber never sees updates of another device, out of order or      *)
(* twice, however many publishers and subscribers there are.               *)
THEOREM UpdatesInOrder == Spec => []InOrderWithoutDuplicates
<1>1. Init => OrderInv
  BY DEF Init, OrderInv, InOrderWithoutDuplicates
<1>2. Init => RegistrationInv
  BY DEF Init, RegistrationInv, RegisteredChannelsAreOpen
<1>3. Spec => []OrderInv
  BY <1>1, <1>2, TypeCorrect, NextRegistrationInv, NextOrderInv, PTL DEF Spec
<1>4. QED
  BY <1>3, PTL DEF OrderInv
-----------------------------------------------------------------------------
(* The broker's invariants, and that a handler forwards each number once.  *)
ServerInv ==
    /\ TypeOK /\ RegistrationInv /\ OrderInv
    /\ \A c \in Handlers : \A u, v \in forwarded[c] : u.n = v.n => u = v

(* The application has everything forwarded up to the last event received, *)
(* except the one that is on offer.                                        *)
HandedOver(c) ==
    /\ \A i \in 1 .. Len(seen[c]) : seen[c][i] \in forwarded[c]
    /\ \A i, j \in 1 .. Len(seen[c]) : i < j => seen[c][i].n < seen[c][j].n
    /\ \A i \in 1 .. Len(seen[c]) : seen[c][i].n <= received[c]
    /\ rpc[c] = "offer" => \A i \in 1 .. Len(seen[c]) : seen[c][i].n < received[c]
    /\ \A u \in forwarded[c] :
          \/ u.n > received[c]
          \/ u.n = received[c] /\ rpc[c] # "recv" /\ \A i \in 1 .. Len(seen[c]) : seen[c][i].n < u.n
          \/ \E i \in 1 .. Len(seen[c]) : seen[c][i] = u

ReceivedWasSent(c) ==
    received[c] = 0 \/ \E u \in forwarded[c] : u.n = received[c]

ClientInv ==
    /\ rpc \in [Sdk -> {"recv", "offer", "done"}]
    /\ received \in [Sdk -> Nat]
    /\ seen \in [Sdk -> Seq(Update)]
    /\ ctxDone \in [Sdk -> BOOLEAN]
    /\ errCh \in [Sdk -> BOOLEAN]
    /\ \A c \in Sdk : /\ HandedOver(c)
                      /\ ReceivedWasSent(c)
                      /\ errCh[c] => rpc[c] = "done"
                      /\ rpc[c] = "done" => errCh[c] \/ ctxDone[c]
-----------------------------------------------------------------------------
(* A step of the SDK is a step of the broker or leaves it alone.           *)
LEMMA ClientStepIsBrokerStep == [ClientNext]_cvars => [Next]_vars
<1> SUFFICES ASSUME [ClientNext]_cvars PROVE [Next]_vars
  OBVIOUS
<1>1. ASSUME NEW c \in Sdk, \/ SubscribeFails(c) \/ RecvEvent(c) \/ RecvFails(c)
                            \/ TakeUpdate(c) \/ GiveUpOffer(c)
      PROVE  UNCHANGED vars
  BY <1>1 DEF SubscribeFails, RecvEvent, RecvFails, TakeUpdate, GiveUpOffer
<1>2. ASSUME NEW c \in Sdk, Cancel(c) PROVE [Next]_vars
  BY <1>2, SdkClientAssumption DEF Cancel, Next
<1> QED
  BY <1>1, <1>2 DEF ClientNext, GatewayStep, ClientFinished, cvars

(* What a step of the broker does to what is forwarded to one client: it   *)
(* keeps it, or adds one update, later than all before it.                 *)
LEMMA ForwardedGrows ==
  ASSUME ServerInv, [Next]_vars, NEW c \in Handlers
  PROVE  \/ forwarded'[c] = forwarded[c]
         \/ \E u \in Update : /\ forwarded'[c] = forwarded[c] \cup {u}
                              /\ \A v \in forwarded[c] : v.n < u.n
                              /\ u.n > 0
<1>1. ASSUME NEW x \in Handlers, ReadUpdate(x), forwarded'[c] # forwarded[c]
      PROVE  \E u \in Update : /\ forwarded'[c] = forwarded[c] \cup {u}
                               /\ \A v \in forwarded[c] : v.n < u.n
                               /\ u.n > 0
  <2> DEFINE u == Head(queue[x])
  <2>1. x = c /\ forwarded'[c] = forwarded[c] \cup {u}
    BY <1>1 DEF ReadUpdate, ServerInv, TypeOK
  <2>2. queue[c] \in Seq(Update) /\ queue[c] # <<>> /\ Len(queue[c]) >= 1
    BY <1>1, <2>1 DEF ReadUpdate, ServerInv, TypeOK
  <2>3. u \in Update /\ u = queue[c][1] /\ 1 \in 1 .. Len(queue[c])
    BY <2>1, <2>2
  <2>4. cursor[c] \in Nat /\ u.n \in Nat /\ cursor[c] < u.n
    <3>1. cursor[c] < u.n
      BY <2>3 DEF ServerInv, OrderInv, InOrderWithoutDuplicates
    <3> QED
      BY <2>3, <3>1 DEF ServerInv, TypeOK, Update
  <2> HIDE DEF u
  <2>5. ASSUME NEW v \in forwarded[c] PROVE v.n < u.n
    <3>1. v \in Update /\ v.n <= cursor[c]
      BY DEF ServerInv, TypeOK, OrderInv, InOrderWithoutDuplicates
    <3>2. v.n \in Nat
      BY <3>1 DEF Update
    <3> QED
      BY <2>4, <3>1, <3>2
  <2> QED
    BY <2>1, <2>3, <2>4, <2>5
<1>2. ASSUME NEW x \in Handlers, \/ Subscribe(x) \/ ContextDone(x)
                                 \/ ClientDisconnects(x) \/ unsubscribe(x)
      PROVE  forwarded' = forwarded
  BY <1>2 DEF Subscribe, ContextDone, ClientDisconnects, unsubscribe
<1>3. ASSUME NEW d \in Devices, NEW kind \in Kinds, Publish(d, kind)
      PROVE  forwarded' = forwarded
  BY <1>3 DEF Publish
<1>4. CASE UNCHANGED vars
  BY <1>4 DEF vars
<1> QED
  BY <1>1, <1>2, <1>3, <1>4 DEF Next, Finished

(* The broker keeps its invariants in the composition.                     *)
LEMMA NextServerInv == ServerInv /\ [Next]_vars => ServerInv'
<1> SUFFICES ASSUME ServerInv, [Next]_vars PROVE ServerInv'
  OBVIOUS
<1>1. TypeOK' /\ RegistrationInv' /\ OrderInv'
  BY NextTypeOK, NextRegistrationInv, NextOrderInv DEF ServerInv
<1>2. ASSUME NEW c \in Handlers, NEW u \in forwarded'[c], NEW v \in forwarded'[c], u.n = v.n
      PROVE  u = v
  <2>0. forwarded[c] \subseteq Update
    BY DEF ServerInv, TypeOK
  <2>1. CASE forwarded'[c] = forwarded[c]
    BY <1>2, <2>1 DEF ServerInv
  <2>2. ASSUME NEW w \in Update, forwarded'[c] = forwarded[c] \cup {w},
               \A x \in forwarded[c] : x.n < w.n
        PROVE  u = v
    <3>1. \A x \in forwarded[c] : x.n \in Nat /\ x.n # w.n
      BY <2>0, <2>2 DEF Update
    <3> QED
      BY <1>2, <2>2, <3>1 DEF ServerInv
  <2> QED
    BY <2>1, <2>2, ForwardedGrows
<1> QED
  BY <1>1, <1>2 DEF ServerInv
-----------------------------------------------------------------------------
(* While the goroutine does nothing, forwarding one more update leaves     *)
(* what has been handed over as it is.                                     *)
LEMMA ForwardingKeepsHandedOver ==
  ASSUME ServerInv, ClientInv, [Next]_vars, NEW c \in Sdk,
         rpc'[c] = rpc[c], received'[c] = received[c], seen'[c] = seen[c]
  PROVE  HandedOver(c)' /\ ReceivedWasSent(c)'
<1>0. c \in Handlers /\ HandedOver(c) /\ ReceivedWasSent(c) /\ received[c] \in Nat
  BY SdkClientAssumption DEF ClientInv
<1>1. CASE forwarded'[c] = forwarded[c]
  BY <1>0, <1>1 DEF HandedOver, ReceivedWasSent
<1>2. ASSUME NEW u \in Update, forwarded'[c] = forwarded[c] \cup {u},
             \A v \in forwarded[c] : v.n < u.n, u.n > 0
      PROVE  HandedOver(c)' /\ ReceivedWasSent(c)'
  <2>1. u.n > received[c]
    BY <1>0, <1>2 DEF ReceivedWasSent
  <2> QED
    BY <1>0, <1>2, <2>1, Zenon DEF HandedOver, ReceivedWasSent
<1> QED
  BY <1>0, <1>1, <1>2, ForwardedGrows

(* Every step of the goroutine, the application and the gateway keeps what *)
(* has been handed over equal to what was forwarded.                       *)
LEMMA NextClientInv ==
  ASSUME ServerInv, ClientInv, [ClientNext]_cvars
  PROVE  ClientInv'
<1>1. ASSUME NEW c \in Sdk, RecvEvent(c) PROVE ClientInv'
  <2>0. c \in Handlers /\ UNCHANGED <<forwarded, seen, ctxDone, errCh>>
    BY <1>1, SdkClientAssumption DEF RecvEvent, vars
  <2>1. PICK u \in Underway(c) : /\ \A v \in Underway(c) : u.n <= v.n
                                 /\ received' = [received EXCEPT ![c] = u.n]
    BY <1>1, Zenon DEF RecvEvent
  <2>2. /\ u \in forwarded[c] /\ u.n > received[c]
        /\ \A v \in forwarded[c] : v \in Update /\ v.n \in Nat
    BY <2>0 DEF Underway, ServerInv, TypeOK, Update
  <2>3. received[c] \in Nat /\ received'[c] = u.n /\ rpc[c] = "recv" /\ rpc'[c] = "offer"
    BY <1>1, <2>1 DEF RecvEvent, ClientInv
  <2>4. \A v \in forwarded[c] : v.n > received[c] => u.n <= v.n
    BY <2>1 DEF Underway
  <2>5. \A i \in 1 .. Len(seen[c]) : seen[c][i] \in forwarded[c] /\ seen[c][i].n < u.n
    BY <2>2, <2>3 DEF ClientInv, HandedOver
  <2>6. ASSUME NEW v \in forwarded[c]
        PROVE  \/ v.n > u.n
               \/ v.n = u.n
               \/ \E i \in 1 .. Len(seen[c]) : seen[c][i] = v
    <3>1. CASE v.n > received[c]
      BY <2>2, <2>4, <3>1
    <3>2. CASE \E i \in 1 .. Len(seen[c]) : seen[c][i] = v
      BY <3>2
    <3> QED
      BY <2>3, <3>1, <3>2 DEF ClientInv, HandedOver
  <2>7. HandedOver(c)'
    BY <2>0, <2>2, <2>3, <2>5, <2>6 DEF ClientInv, HandedOver
  <2>8. ReceivedWasSent(c)'
    BY <2>0, <2>2, <2>3 DEF ReceivedWasSent
  <2>9. ASSUME NEW x \in Sdk, x # c PROVE HandedOver(x)' /\ ReceivedWasSent(x)'
    BY <1>1, <2>0, <2>1, <2>9 DEF RecvEvent, ClientInv, HandedOver, ReceivedWasSent
  <2> QED
    BY <1>1, <2>0, <2>1, <2>2, <2>7, <2>8, <2>9 DEF RecvEvent, ClientInv
<1>2. ASSUME NEW c \in Sdk, SubscribeFails(c) \/ RecvFails(c) \/ GiveUpOffer(c)
      PROVE  ClientInv'
  <2>0. UNCHANGED <<forwarded, received, seen, ctxDone>>
    BY <1>2 DEF SubscribeFails, RecvFails, GiveUpOffer, vars
  <2>1. /\ rpc' = [rpc EXCEPT ![c] = "done"]
        /\ errCh' \in [Sdk -> BOOLEAN]
        /\ \A x \in Sdk \ {c} : errCh'[x] = errCh[x]
        /\ errCh'[c] \/ ctxDone[c]
    BY <1>2, Zenon DEF SubscribeFails, RecvFails, GiveUpOffer, ClientInv
  <2>2. ASSUME NEW x \in Sdk PROVE HandedOver(x)' /\ ReceivedWasSent(x)'
    <3>1. HandedOver(x) /\ ReceivedWasSent(x)
      BY DEF ClientInv
    <3>2. rpc'[x] = rpc[x] \/ rpc'[x] = "done"
      BY <2>1 DEF ClientInv
    <3>3. ReceivedWasSent(x)'
      BY <2>0, <3>1 DEF ReceivedWasSent
    <3>4. CASE rpc'[x] = rpc[x]
      BY <2>0, <3>1, <3>3, <3>4 DEF HandedOver
    <3>5. CASE rpc'[x] = "done"
      BY <2>0, <3>1, <3>3, <3>5 DEF HandedOver
    <3> QED
      BY <3>2, <3>4, <3>5
  <2> QED
    BY <2>0, <2>1, <2>2 DEF ClientInv
<1>3. ASSUME NEW c \in Sdk, TakeUpdate(c) PROVE ClientInv'
  <2>0. c \in Handlers /\ UNCHANGED <<forwarded, received, ctxDone, errCh>>
    BY <1>3, SdkClientAssumption DEF TakeUpdate, vars
  <2>1. PICK u \in forwarded[c] : u.n = received[c] /\ seen' = [seen EXCEPT ![c] = Append(@, u)]
    BY <1>3, Zenon DEF TakeUpdate
  <2>2. u \in Update /\ \A v \in forwarded[c] : v \in Update /\ v.n \in Nat
    BY <2>0 DEF ServerInv, TypeOK, Update
  <2>3. seen[c] \in Seq(Update) /\ rpc[c] = "offer" /\ rpc'[c] = "recv" /\ HandedOver(c)
    BY <1>3 DEF TakeUpdate, ClientInv
  <2> DEFINE s == seen[c]
             t == seen'[c]
  <2>4. t = Append(s, u)
    BY <2>1 DEF ClientInv
  <2>5. /\ Len(s) \in Nat /\ Len(t) = Len(s) + 1
        /\ \A i \in 1 .. Len(s) : t[i] = s[i]
        /\ t[Len(s) + 1] = u
        /\ t \in Seq(Update)
    BY <2>2, <2>3, <2>4
  <2>6. \A i \in 1 .. Len(t) : i \in 1 .. Len(s) \/ i = Len(s) + 1
    BY <2>5
  <2>7. \A i \in 1 .. Len(s) : s[i] \in forwarded[c] /\ s[i].n < u.n
    BY <2>1, <2>3 DEF HandedOver
  <2>sorted. \A i, j \in 1 .. Len(s) : i < j => s[i].n < s[j].n
    BY <2>3 DEF HandedOver
  <2>8. ASSUME NEW v \in forwarded[c]
        PROVE  v.n > u.n \/ v = u \/ \E i \in 1 .. Len(s) : s[i] = v
    <3>1. v.n = u.n => v = u
      BY <2>0 DEF ServerInv
    <3> QED
      BY <2>1, <2>3, <3>1 DEF HandedOver
  <2> HIDE DEF s, t
  <2>9. \A i \in 1 .. Len(t) : t[i] \in forwarded[c] /\ t[i].n <= u.n
    BY <2>1, <2>2, <2>5, <2>6, <2>7
  <2>10. \A i, j \in 1 .. Len(t) : i < j => t[i].n < t[j].n
    <3> SUFFICES ASSUME NEW i \in 1 .. Len(t), NEW j \in 1 .. Len(t), i < j
                 PROVE  t[i].n < t[j].n
      OBVIOUS
    <3>1. i \in 1 .. Len(s)
      BY <2>5
    <3>2. CASE j \in 1 .. Len(s)
      BY <2>5, <2>sorted, <3>1, <3>2
    <3>3. CASE j = Len(s) + 1
      BY <2>5, <2>7, <3>1, <3>3
    <3> QED
      BY <2>6, <3>2, <3>3
  <2>11. \A v \in forwarded[c] : v.n > u.n \/ \E i \in 1 .. Len(t) : t[i] = v
    <3>1. Len(s) + 1 \in 1 .. Len(t) /\ 1 .. Len(s) \subseteq 1 .. Len(t)
      BY <2>5
    <3> QED
      BY <2>5, <2>8, <3>1
  <2>12. HandedOver(c)'
    BY <2>0, <2>1, <2>3, <2>9, <2>10, <2>11 DEF HandedOver, t
  <2>13. ASSUME NEW x \in Sdk, x # c PROVE HandedOver(x)'
    <3>1. rpc'[x] = rpc[x] /\ seen'[x] = seen[x] /\ HandedOver(x)
      BY <1>3, <2>1, <2>13 DEF TakeUpdate, ClientInv
    <3> QED
      BY <2>0, <3>1, Zenon DEF HandedOver
  <2>14. \A x \in Sdk : ReceivedWasSent(x)'
    BY <2>0 DEF ClientInv, ReceivedWasSent
  <2>15. seen' \in [Sdk -> Seq(Update)]
    BY <2>1, <2>5 DEF ClientInv, t
  <2> QED
    BY <1>3, <2>0, <2>3, <2>12, <2>13, <2>14, <2>15 DEF TakeUpdate, ClientInv
<1>4. CASE \/ \E c \in Sdk : Cancel(c)
           \/ GatewayStep
           \/ ClientFinished
           \/ UNCHANGED cvars
  <2>1. UNCHANGED <<rpc, received, seen, errCh>> /\ [Next]_vars
    BY <1>4, ClientStepIsBrokerStep DEF Cancel, GatewayStep, ClientFinished, clientVars, cvars
  <2>2. /\ ctxDone' \in [Sdk -> BOOLEAN]
        /\ \A c \in Sdk : ctxDone[c] => ctxDone'[c]
    BY <1>4, Zenon DEF Cancel, GatewayStep, ClientFinished, clientVars, cvars, ClientInv
  <2>3. \A c \in Sdk : HandedOver(c)' /\ ReceivedWasSent(c)'
    BY <2>1, ForwardingKeepsHandedOver
  <2> QED
    BY <2>1, <2>2, <2>3 DEF ClientInv
<1> QED
  BY <1>1, <1>2, <1>3, <1>4 DEF ClientNext
-----------------------------------------------------------------------------
(* The SDK's subscribers and the gateway together implement Broker.        *)
THEOREM SdkImplementsBroker == ClientSpec => Spec
<1>1. ClientInit => Init
  BY DEF ClientInit
<1>2. QED
  BY <1>1, ClientStepIsBrokerStep, PTL DEF ClientSpec, Spec

(* The application sees what was forwarded to it, in order, without gaps   *)
(* or duplicates, and an unasked end is an error (Client.Subscribe).       *)
THEOREM NothingIsLostAfterTheBroker == ClientSpec => []AppSeesWhatWasForwarded
<1>1. ClientInit => ServerInv
  BY InitTypeOK DEF ClientInit, Init, ServerInv, RegistrationInv,
                    RegisteredChannelsAreOpen, OrderInv, InOrderWithoutDuplicates
<1>2. ClientInit => ClientInv
  <2> SUFFICES ASSUME ClientInit PROVE ClientInv
    OBVIOUS
  <2>1. \A c \in Sdk : /\ seen[c] = <<>> /\ Len(seen[c]) = 0
                       /\ forwarded[c] = {} /\ received[c] = 0
    BY SdkClientAssumption DEF ClientInit, Init
  <2>2. \A c \in Sdk : HandedOver(c) /\ ReceivedWasSent(c)
    BY <2>1 DEF HandedOver, ReceivedWasSent
  <2>3. seen \in [Sdk -> Seq(Update)]
    BY DEF ClientInit
  <2> QED
    BY <2>2, <2>3 DEF ClientInit, ClientInv
<1>3. ServerInv /\ [ClientNext]_cvars => ServerInv'
  BY ClientStepIsBrokerStep, NextServerInv
<1>4. ServerInv /\ ClientInv => AppSeesWhatWasForwarded
  <2> SUFFICES ASSUME ServerInv, ClientInv, NEW c \in Sdk,
                      NEW u \in forwarded[c], NEW j \in 1 .. Len(seen[c]),
                      u.n <= seen[c][j].n
               PROVE  \E i \in 1 .. Len(seen[c]) : seen[c][i] = u
    BY DEF AppSeesWhatWasForwarded, ClientInv, HandedOver
  <2>1. /\ seen[c][j] \in forwarded[c] /\ seen[c][j].n <= received[c]
        /\ received[c] \in Nat
        /\ \A v \in forwarded[c] : v \in Update
    BY SdkClientAssumption, Zenon DEF ClientInv, HandedOver, ServerInv, TypeOK
  <2>2. u.n \in Nat /\ seen[c][j].n \in Nat
    BY <2>1, Zenon DEF Update
  <2>3. \/ u.n > received[c]
        \/ \A i \in 1 .. Len(seen[c]) : seen[c][i].n < u.n
        \/ \E i \in 1 .. Len(seen[c]) : seen[c][i] = u
    <3>1. \A v \in forwarded[c] :
             \/ v.n > received[c]
             \/ v.n = received[c] /\ rpc[c] # "recv" /\ \A i \in 1 .. Len(seen[c]) : seen[c][i].n < v.n
             \/ \E i \in 1 .. Len(seen[c]) : seen[c][i] = v
      <4>1. HandedOver(c)
        BY Zenon DEF ClientInv
      <4> QED
        BY <4>1, Zenon DEF HandedOver
    <3> QED
      BY <3>1, Zenon
  <2>4. ~(u.n > received[c]) /\ ~(seen[c][j].n < u.n)
    BY <2>1, <2>2
  <2> QED
    BY <2>3, <2>4
<1>5. QED
  BY <1>1, <1>2, <1>3, <1>4, NextClientInv, PTL DEF ClientSpec
=============================================================================
