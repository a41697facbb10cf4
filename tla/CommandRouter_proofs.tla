------------------------- MODULE CommandRouter_proofs -------------------------
(***************************************************************************)
(* Proofs about CommandRouter, for any number of devices, streams and      *)
(* calls and any channel capacity.                                         *)
(*                                                                         *)
(* Correlation is the strengthening behind the properties of SubmitResult: *)
(* of r.pending, the goroutines that hold a result and the result channel, *)
(* at most one knows about a command at any time.  Routing follows a       *)
(* command from the lookup in r.channels to the device.  Lifecycle adds    *)
(* what the refinement of CommandCall needs: a command is in one place of  *)
(* one buffer, and no longer once it was executed or garbled.              *)
(***************************************************************************)
EXTENDS CommandRouter, TLAPS

Correlation ==
    /\ \A c \in Calls : pending[c] \in {c, None}
    /\ \A c \in Calls : pending[c] # None => pc[c] \in {"send", "wait", "expired"}
    /\ \A c \in Calls : \A res \in resultCh[c] :
         res.id = c /\ pending[c] = None /\ pc[c] # "idle"
    /\ \A g \in Goroutines : held[g] # NoResult =>
         /\ held[g].ch = held[g].id
         /\ pending[held[g].ch] = None
         /\ resultCh[held[g].ch] = {}
         /\ pc[held[g].ch] # "idle"
         /\ \A h \in Goroutines : held[h].ch = held[g].ch => h = g

Routing ==
    /\ \A d \in Devices : latest[d] # None => handler[latest[d]] # "idle"
    /\ LatestStreamStaysRegistered
    /\ \A d \in Devices : channels[d] # None => owner[channels[d]] = d
    /\ \A c \in Calls : pc[c] = "send" =>
         target[c] \in Streams /\ owner[target[c]] = addressee[c]
    /\ \A s \in Streams : \A i \in 1..Len(buffer[s]) :
         addressee[buffer[s][i]] = owner[s]
    /\ CommandsReachTheirAddressee

Vouched(r) == <<r.id, r.success>> \in answers \/ (~r.success /\ r.id \in garbled)

(* Command c waits in some stream's channel.                               *)
Buffered(c) == \E s \in Streams : \E i \in 1..Len(buffer[s]) : buffer[s][i] = c

(* No command is in two places.                                            *)
Once ==
    \A s, t \in Streams : \A i \in 1..Len(buffer[s]) : \A j \in 1..Len(buffer[t]) :
        buffer[t][j] = buffer[s][i] => t = s /\ j = i

Queued ==
    \A c \in Calls : Buffered(c) =>
        /\ pc[c] \notin {"idle", "send"}
        /\ executions[c] = 0 /\ c \notin garbled
        /\ pc[c] = "returned" => outcome[c] \in {"DeadlineExceeded", "Internal"}

Progress ==
    \A c \in Calls :
        /\ pc[c] \in {"idle", "send"} => executions[c] = 0 /\ c \notin garbled
        /\ pc[c] = "expired" => outcome[c] \in {"DeadlineExceeded", "Internal"}

Executed ==
    /\ \A c \in Calls : recipients[c] # {} => executions[c] > 0
    /\ \A a \in answers : executions[a[1]] > 0

Credited ==
    /\ \A g \in Goroutines : held[g] # NoResult => Vouched(held[g])
    /\ \A c \in Calls : \A res \in resultCh[c] : Vouched(res)

Lifecycle == Once /\ Queued /\ Progress /\ Executed /\ Credited
-----------------------------------------------------------------------------
(* The command main takes from its channel is a command.                   *)
LEMMA HeadIsCall ==
  ASSUME TypeOK, NEW s \in Streams, buffer[s] # <<>>
  PROVE  Head(buffer[s]) \in Calls /\ Tail(buffer[s]) \in Seq(Calls)
<1>1. buffer[s] \in Seq(Calls)
  BY DEF TypeOK
<1> QED
  BY <1>1

(* Every step keeps the variables in their types and the channels in their *)
(* capacities.                                                             *)
LEMMA TypeStep ==
  ASSUME TypeOK, [Next]_vars
  PROVE  TypeOK'
<1>1. ASSUME NEW c \in Calls, CallStep(c) PROVE TypeOK'
  <2>1. CASE Refuse(c)
    BY <2>1, CommandRouterAssumption
       DEF Refuse, TypeOK, Results, NoResult, Goroutines, Outcomes, vars,
           routerVars, callVars, streamVars, ghostVars
  <2>2. CASE Dispatch(c)
    <3>1. CASE channels[addressee[c]] = None
      BY <2>2, <3>1, Zenon DEF Dispatch, TypeOK, Outcomes, routerVars, streamVars, ghostVars
    <3>2. CASE channels[addressee[c]] # None
      <4>1. /\ pc' = [pc EXCEPT ![c] = "send"]
            /\ target' = [target EXCEPT ![c] = channels[addressee[c]]]
            /\ pending' = [pending EXCEPT ![c] = c]
            /\ UNCHANGED <<outcome, channels, buffer, closed, resultCh, addressee,
                           streamVars, ghostVars, crashed>>
        BY <2>2, <3>2 DEF Dispatch
      <4> QED
        BY <4>1 DEF TypeOK, streamVars, ghostVars
    <3> QED
      BY <3>1, <3>2
  <2>3. CASE SendToChannel(c)
    <3>1. buffer' \in [Streams -> Seq(Calls)]
      <4>1. buffer \in [Streams -> Seq(Calls)]
            /\ buffer' = [buffer EXCEPT ![target[c]] = Append(buffer[target[c]], c)]
        BY <2>3 DEF SendToChannel, TypeOK
      <4>2. CASE target[c] \in Streams
        <5>1. Append(buffer[target[c]], c) \in Seq(Calls)
          BY <4>1, <4>2
        <5> QED
          BY <4>1, <5>1, Zenon
      <4>3. CASE target[c] \notin Streams
        BY <4>1, <4>3, Zenon
      <4> QED
        BY <4>2, <4>3
    <3>2. \A s \in Streams : Len(buffer'[s]) <= commandBuffer
      <4> SUFFICES ASSUME NEW s \in Streams PROVE Len(buffer'[s]) <= commandBuffer
        OBVIOUS
      <4>1. buffer[s] \in Seq(Calls) /\ Len(buffer[s]) <= commandBuffer
        BY DEF TypeOK
      <4>2. CASE s = target[c]
        <5>1. buffer'[s] = Append(buffer[s], c) /\ Len(buffer[s]) < commandBuffer
          BY <2>3, <4>2 DEF SendToChannel, TypeOK
        <5> QED
          BY <4>1, <5>1, CommandRouterAssumption
      <4>3. CASE s # target[c]
        BY <2>3, <4>1, <4>3 DEF SendToChannel, TypeOK
      <4> QED
        BY <4>2, <4>3
    <3> QED
      BY <2>3, <3>1, <3>2 DEF SendToChannel, TypeOK, streamVars, ghostVars
  <2>4. CASE SendOnClosedChannel(c)
    BY <2>4, CommandRouterAssumption
       DEF SendOnClosedChannel, TypeOK, Results, NoResult, Goroutines,
           Outcomes, vars, routerVars, callVars, streamVars, ghostVars
  <2>5. ASSUME NEW o \in {"DeadlineExceeded", "Internal"}, ContextDone(c, o)
       PROVE  TypeOK'
    BY <2>5, CommandRouterAssumption
       DEF ContextDone, TypeOK, Results, NoResult, Goroutines, Outcomes,
           vars, routerVars, callVars, streamVars, ghostVars
  <2>6. CASE ForgetPending(c)
    BY <2>6, CommandRouterAssumption
       DEF ForgetPending, TypeOK, Results, NoResult, Goroutines, Outcomes,
           vars, routerVars, callVars, streamVars, ghostVars
  <2>7. CASE TakeResult(c)
    BY <2>7, CommandRouterAssumption
       DEF TakeResult, TypeOK, Results, NoResult, Goroutines, Outcomes, vars,
           routerVars, callVars, streamVars, ghostVars
  <2> QED
    BY <1>1, <2>1, <2>2, <2>3, <2>4, <2>5, <2>6, <2>7 DEF CallStep
<1>2. ASSUME NEW s \in Streams, StreamStep(s) PROVE TypeOK'
  <2>1. CASE Register(s)
    BY <2>1, CommandRouterAssumption
       DEF Register, TypeOK, Results, NoResult, Goroutines, Outcomes, vars,
           routerVars, callVars, streamVars, ghostVars
  <2>2. CASE DeviceDisconnects(s)
    BY <2>2, CommandRouterAssumption
       DEF DeviceDisconnects, TypeOK, Results, NoResult, Goroutines,
           Outcomes, vars, routerVars, callVars, streamVars, ghostVars
  <2>3. CASE ForwardCommand(s)
    BY <2>3, CommandRouterAssumption
       DEF ForwardCommand, MainReady, TypeOK, Results, NoResult, Goroutines,
           Outcomes, vars, routerVars, callVars, streamVars, ghostVars
  <2>4. CASE ForwardFails(s)
    BY <2>4, CommandRouterAssumption
       DEF ForwardFails, MainReady, TypeOK, Results, NoResult, Goroutines,
           Outcomes, vars, routerVars, callVars, streamVars, ghostVars
  <2>5. CASE HandlerReturns(s)
    BY <2>5, CommandRouterAssumption
       DEF HandlerReturns, MainReady, TypeOK, Results, NoResult, Goroutines,
           Outcomes, vars, routerVars, callVars, streamVars, ghostVars
  <2>6. CASE Unregister(s)
    BY <2>6, CommandRouterAssumption
       DEF Unregister, TypeOK, Results, NoResult, Goroutines, Outcomes, vars,
           routerVars, callVars, streamVars, ghostVars
  <2>7. CASE CloseChannel(s)
    BY <2>7, CommandRouterAssumption
       DEF CloseChannel, TypeOK, Results, NoResult, Goroutines, Outcomes,
           vars, routerVars, callVars, streamVars, ghostVars
  <2>8. CASE EncodeFails(s)
    BY <2>8, CommandRouterAssumption
       DEF EncodeFails, MainReady, TakePending, TypeOK, Results, NoResult,
           Goroutines, Outcomes, vars, routerVars, callVars, streamVars,
           ghostVars
  <2>9. ASSUME NEW c \in Calls, NEW success \in BOOLEAN,
              ReceiveResult(s, c, success)
       PROVE  TypeOK'
    BY <2>9, CommandRouterAssumption
       DEF ReceiveResult, TakePending, TypeOK, Results, NoResult, Goroutines,
           Outcomes, vars, routerVars, callVars, streamVars, ghostVars
  <2>10. CASE ReceiverEnds(s)
    BY <2>10, CommandRouterAssumption
       DEF ReceiverEnds, TypeOK, Results, NoResult, Goroutines, Outcomes,
           vars, routerVars, callVars, streamVars, ghostVars
  <2> QED
    BY <1>2, <2>1, <2>2, <2>3, <2>4, <2>5, <2>6, <2>7, <2>8, <2>9, <2>10 DEF StreamStep
<1>3. ASSUME NEW g \in Goroutines, DeliverResult(g) PROVE TypeOK'
  <2>1. held[g] \in Results /\ held[g].ch \in Calls
    BY <1>3 DEF DeliverResult, TypeOK, Results
  <2>2. resultCh' \in [Calls -> SUBSET Results]
    BY <1>3, <2>1 DEF DeliverResult, TypeOK
  <2>3. held' \in [Goroutines -> Results \cup {NoResult}]
    BY <1>3 DEF DeliverResult, TypeOK
  <2> QED
    BY <1>3, <2>2, <2>3 DEF DeliverResult, TypeOK, callVars, ghostVars
<1>4. CASE UNCHANGED vars
  BY <1>4, CommandRouterAssumption
     DEF TypeOK, Results, NoResult, Goroutines, Outcomes, vars, routerVars,
         callVars, streamVars, ghostVars
<1> QED
  BY <1>1, <1>2, <1>3, <1>4 DEF Next

(* Every step keeps at most one party informed about a command.            *)
LEMMA CorrelationStep ==
  ASSUME TypeOK, Correlation, [Next]_vars
  PROVE  Correlation'
<1>a. /\ pending \in [Calls -> Calls \cup {None}]
      /\ pc \in [Calls -> {"idle", "send", "wait", "expired", "returned"}]
      /\ resultCh \in [Calls -> SUBSET Results]
      /\ held \in [Goroutines -> Results \cup {NoResult}]
  BY DEF TypeOK
<1>b. \A g \in Goroutines : held[g] # NoResult => held[g].ch \in Calls /\ held[g].id \in Calls
  BY <1>a DEF Results
<1>c. NoResult.ch = None /\ None \notin Calls
  BY CommandRouterAssumption DEF NoResult
<1>1. ASSUME NEW c \in Calls, CallStep(c) PROVE Correlation'
  <2>1. CASE Refuse(c)
    BY <2>1, <1>a, <1>b, <1>c
       DEF Refuse, Correlation, vars, routerVars, callVars, streamVars,
           ghostVars
  <2>2. CASE Dispatch(c)
    BY <2>2, <1>a, <1>b, <1>c
       DEF Dispatch, Correlation, vars, routerVars, callVars, streamVars,
           ghostVars
  <2>3. CASE SendToChannel(c)
    BY <2>3, <1>a, <1>b, <1>c
       DEF SendToChannel, Correlation, vars, routerVars, callVars,
           streamVars, ghostVars
  <2>4. CASE SendOnClosedChannel(c)
    BY <2>4, <1>a, <1>b, <1>c
       DEF SendOnClosedChannel, Correlation, vars, routerVars, callVars,
           streamVars, ghostVars
  <2>5. ASSUME NEW o \in {"DeadlineExceeded", "Internal"}, ContextDone(c, o)
       PROVE  Correlation'
    BY <2>5, <1>a, <1>b, <1>c
       DEF ContextDone, Correlation, vars, routerVars, callVars, streamVars,
           ghostVars
  <2>6. CASE ForgetPending(c)
    BY <2>6, <1>a, <1>b, <1>c
       DEF ForgetPending, Correlation, vars, routerVars, callVars,
           streamVars, ghostVars
  <2>7. CASE TakeResult(c)
    BY <2>7, <1>a, <1>b, <1>c
       DEF TakeResult, Correlation, vars, routerVars, callVars, streamVars,
           ghostVars
  <2> QED
    BY <1>1, <2>1, <2>2, <2>3, <2>4, <2>5, <2>6, <2>7 DEF CallStep
<1>2. ASSUME NEW s \in Streams, StreamStep(s) PROVE Correlation'
  <2>1. CASE Register(s)
    BY <2>1, <1>a, <1>b, <1>c
       DEF Register, Correlation, vars, routerVars, callVars, streamVars,
           ghostVars
  <2>2. CASE DeviceDisconnects(s)
    BY <2>2, <1>a, <1>b, <1>c
       DEF DeviceDisconnects, Correlation, vars, routerVars, callVars,
           streamVars, ghostVars
  <2>3. CASE ForwardCommand(s)
    BY <2>3, <1>a, <1>b, <1>c
       DEF ForwardCommand, MainReady, Correlation, vars, routerVars,
           callVars, streamVars, ghostVars
  <2>4. CASE ForwardFails(s)
    BY <2>4, <1>a, <1>b, <1>c
       DEF ForwardFails, MainReady, Correlation, vars, routerVars, callVars,
           streamVars, ghostVars
  <2>5. CASE HandlerReturns(s)
    BY <2>5, <1>a, <1>b, <1>c
       DEF HandlerReturns, MainReady, Correlation, vars, routerVars,
           callVars, streamVars, ghostVars
  <2>6. CASE Unregister(s)
    BY <2>6, <1>a, <1>b, <1>c
       DEF Unregister, Correlation, vars, routerVars, callVars, streamVars,
           ghostVars
  <2>7. CASE CloseChannel(s)
    BY <2>7, <1>a, <1>b, <1>c
       DEF CloseChannel, Correlation, vars, routerVars, callVars, streamVars,
           ghostVars
  <2>8. CASE EncodeFails(s)
    <3> DEFINE x == Head(buffer[s])
               m == <<s, "main">>
    <3>1. x \in Calls /\ m \in Goroutines
      BY <2>8, HeadIsCall DEF EncodeFails, Goroutines
    <3>2. /\ held[m] = NoResult
          /\ pending' = [pending EXCEPT ![x] = None]
          /\ UNCHANGED <<resultCh, pc>>
          /\ pending[x] = None => held' = held
          /\ pending[x] # None =>
               held' = [held EXCEPT ![m] = [ch |-> pending[x], id |-> x, success |-> FALSE]]
      BY <2>8 DEF EncodeFails, TakePending, callVars
    <3> HIDE DEF x, m
    <3>3. CASE pending[x] = None
      BY <1>a, <1>b, <1>c, <3>1, <3>2, <3>3 DEF Correlation
    <3>4. CASE pending[x] # None
      BY <1>a, <1>b, <1>c, <3>1, <3>2, <3>4 DEF Correlation
    <3> QED
      BY <3>3, <3>4
  <2>9. ASSUME NEW c \in Calls, NEW success \in BOOLEAN,
              ReceiveResult(s, c, success)
       PROVE  Correlation'
    BY <2>9, <1>a, <1>b, <1>c
       DEF ReceiveResult, TakePending, Correlation, vars, routerVars,
           callVars, streamVars, ghostVars
  <2>10. CASE ReceiverEnds(s)
    BY <2>10, <1>a, <1>b, <1>c
       DEF ReceiverEnds, Correlation, vars, routerVars, callVars, streamVars,
           ghostVars
  <2> QED
    BY <1>2, <2>1, <2>2, <2>3, <2>4, <2>5, <2>6, <2>7, <2>8, <2>9, <2>10 DEF StreamStep
<1>3. ASSUME NEW g \in Goroutines, DeliverResult(g) PROVE Correlation'
  BY <1>3, <1>a, <1>b, <1>c
     DEF DeliverResult, Correlation, vars, routerVars, callVars, streamVars,
         ghostVars
<1>4. CASE UNCHANGED vars
  BY <1>4, <1>a, <1>b, <1>c
     DEF Correlation, vars, routerVars, callVars, streamVars, ghostVars
<1> QED
  BY <1>1, <1>2, <1>3, <1>4 DEF Next

(* Elements of the buffers after a command was taken from one of them.     *)
LEMMA AfterTail ==
  ASSUME TypeOK, NEW s \in Streams, buffer[s] # <<>>,
         buffer' = [buffer EXCEPT ![s] = Tail(@)]
  PROVE  /\ 1 \in 1..Len(buffer[s]) /\ Head(buffer[s]) = buffer[s][1]
         /\ \A t \in Streams : \A i \in 1..Len(buffer'[t]) :
              \E j \in 1..Len(buffer[t]) :
                 /\ buffer'[t][i] = buffer[t][j]
                 /\ j = IF t = s THEN i + 1 ELSE i
<1>1. \A t \in Streams : buffer[t] \in Seq(Calls)
  BY DEF TypeOK
<1>2. 1 \in 1..Len(buffer[s]) /\ Head(buffer[s]) = buffer[s][1]
  BY <1>1
<1>3. ASSUME NEW t \in Streams, NEW i \in 1..Len(buffer'[t])
      PROVE  \E j \in 1..Len(buffer[t]) :
                 /\ buffer'[t][i] = buffer[t][j]
                 /\ j = IF t = s THEN i + 1 ELSE i
  <2>1. CASE t = s
    <3>1. buffer'[s] = Tail(buffer[s])
      BY DEF TypeOK
    <3>2. i + 1 \in 1..Len(buffer[s]) /\ Tail(buffer[s])[i] = buffer[s][i + 1]
      <4> DEFINE q == buffer[s]
      <4>1. q \in Seq(Calls) /\ q # <<>> /\ i \in 1..Len(Tail(q))
        BY <1>1, <2>1, <3>1, <1>3, Zenon
      <4> HIDE DEF q
      <4>2. Len(Tail(q)) = Len(q) - 1 /\ Len(q) \in Nat
        BY <4>1
      <4>3. i + 1 \in 1..Len(q) /\ Tail(q)[i] = q[i + 1]
        BY <4>1, <4>2
      <4> QED
        BY <4>3 DEF q
    <3> QED
      BY <2>1, <3>1, <3>2, Zenon
  <2>2. CASE t # s
    BY <1>3, <2>2 DEF TypeOK
  <2> QED
    BY <2>1, <2>2
<1> QED
  BY <1>2, <1>3

(* Elements of the buffers after a command was sent to one of them.        *)
LEMMA AfterAppend ==
  ASSUME TypeOK, NEW s \in Streams, NEW c \in Calls,
         buffer' = [buffer EXCEPT ![s] = Append(@, c)],
         NEW t \in Streams, NEW i \in 1..Len(buffer'[t])
  PROVE  \/ i \in 1..Len(buffer[t]) /\ buffer'[t][i] = buffer[t][i]
         \/ t = s /\ i = Len(buffer[t]) + 1 /\ buffer'[t][i] = c
<1>1. buffer[t] \in Seq(Calls)
  BY DEF TypeOK
<1>2. CASE t = s
  <2>1. buffer'[t] = Append(buffer[t], c)
    BY <1>2 DEF TypeOK
  <2>2. CASE i \in 1..Len(buffer[t])
    BY <1>1, <2>1, <2>2
  <2>3. CASE i = Len(buffer[t]) + 1
    BY <1>1, <1>2, <2>1, <2>3
  <2> QED
    BY <1>1, <2>1, <2>2, <2>3
<1>3. CASE t # s
  BY <1>3 DEF TypeOK
<1> QED
  BY <1>2, <1>3

(* Every step keeps commands on their way to the device they are for.      *)
LEMMA RoutingStep ==
  ASSUME TypeOK, Routing, [Next]_vars
  PROVE  Routing'
<1>a. /\ channels \in [Devices -> Streams \cup {None}]
      /\ latest \in [Devices -> Streams \cup {None}]
      /\ target \in [Calls -> Streams \cup {None}]
      /\ owner \in [Streams -> Devices]
      /\ addressee \in [Calls -> Devices]
      /\ recipients \in [Calls -> SUBSET Devices]
      /\ pc \in [Calls -> {"idle", "send", "wait", "expired", "returned"}]
      /\ handler \in [Streams -> {"idle", "loop", "leaving", "unlinked", "returned"}]
  BY DEF TypeOK
<1>b. \A s \in Streams : \A i \in 1..Len(buffer[s]) : buffer[s][i] \in Calls
  BY DEF TypeOK
<1>c. None \notin Streams
  BY CommandRouterAssumption
<1>1. ASSUME NEW c \in Calls, CallStep(c) PROVE Routing'
  <2>1. CASE Refuse(c)
    BY <2>1, <1>a, <1>b, <1>c
       DEF Refuse, Routing, LatestStreamStaysRegistered,
           CommandsReachTheirAddressee, vars, routerVars, callVars,
           streamVars, ghostVars
  <2>2. CASE Dispatch(c)
    BY <2>2, <1>a, <1>b, <1>c
       DEF Dispatch, Routing, LatestStreamStaysRegistered,
           CommandsReachTheirAddressee, vars, routerVars, callVars,
           streamVars, ghostVars
  <2>3. CASE SendToChannel(c)
    BY <2>3, <1>a, <1>b, <1>c
       DEF SendToChannel, Routing, LatestStreamStaysRegistered,
           CommandsReachTheirAddressee, vars, routerVars, callVars,
           streamVars, ghostVars
  <2>4. CASE SendOnClosedChannel(c)
    BY <2>4, <1>a, <1>b, <1>c
       DEF SendOnClosedChannel, Routing, LatestStreamStaysRegistered,
           CommandsReachTheirAddressee, vars, routerVars, callVars,
           streamVars, ghostVars
  <2>5. ASSUME NEW o \in {"DeadlineExceeded", "Internal"}, ContextDone(c, o)
       PROVE  Routing'
    BY <2>5, <1>a, <1>b, <1>c
       DEF ContextDone, Routing, LatestStreamStaysRegistered,
           CommandsReachTheirAddressee, vars, routerVars, callVars,
           streamVars, ghostVars
  <2>6. CASE ForgetPending(c)
    BY <2>6, <1>a, <1>b, <1>c
       DEF ForgetPending, Routing, LatestStreamStaysRegistered,
           CommandsReachTheirAddressee, vars, routerVars, callVars,
           streamVars, ghostVars
  <2>7. CASE TakeResult(c)
    BY <2>7, <1>a, <1>b, <1>c
       DEF TakeResult, Routing, LatestStreamStaysRegistered,
           CommandsReachTheirAddressee, vars, routerVars, callVars,
           streamVars, ghostVars
  <2> QED
    BY <1>1, <2>1, <2>2, <2>3, <2>4, <2>5, <2>6, <2>7 DEF CallStep
<1>2. ASSUME NEW s \in Streams, StreamStep(s) PROVE Routing'
  <2>1. CASE Register(s)
    BY <2>1, <1>a, <1>b, <1>c
       DEF Register, Routing, LatestStreamStaysRegistered,
           CommandsReachTheirAddressee, vars, routerVars, callVars,
           streamVars, ghostVars
  <2>2. CASE DeviceDisconnects(s)
    BY <2>2, <1>a, <1>b, <1>c
       DEF DeviceDisconnects, Routing, LatestStreamStaysRegistered,
           CommandsReachTheirAddressee, vars, routerVars, callVars,
           streamVars, ghostVars
  <2>3. CASE ForwardCommand(s)
    BY <2>3, <1>a, <1>b, <1>c
       DEF ForwardCommand, MainReady, Routing, LatestStreamStaysRegistered,
           CommandsReachTheirAddressee, vars, routerVars, callVars,
           streamVars, ghostVars
  <2>4. CASE ForwardFails(s)
    BY <2>4, <1>a, <1>b, <1>c
       DEF ForwardFails, MainReady, Routing, LatestStreamStaysRegistered,
           CommandsReachTheirAddressee, vars, routerVars, callVars,
           streamVars, ghostVars
  <2>5. CASE HandlerReturns(s)
    BY <2>5, <1>a, <1>b, <1>c
       DEF HandlerReturns, MainReady, Routing, LatestStreamStaysRegistered,
           CommandsReachTheirAddressee, vars, routerVars, callVars,
           streamVars, ghostVars
  <2>6. CASE Unregister(s)
    BY <2>6, <1>a, <1>b, <1>c
       DEF Unregister, Routing, LatestStreamStaysRegistered,
           CommandsReachTheirAddressee, vars, routerVars, callVars,
           streamVars, ghostVars
  <2>7. CASE CloseChannel(s)
    BY <2>7, <1>a, <1>b, <1>c
       DEF CloseChannel, Routing, LatestStreamStaysRegistered,
           CommandsReachTheirAddressee, vars, routerVars, callVars,
           streamVars, ghostVars
  <2>8. CASE EncodeFails(s)
    BY <2>8, <1>a, <1>b, <1>c
       DEF EncodeFails, MainReady, TakePending, Routing,
           LatestStreamStaysRegistered, CommandsReachTheirAddressee, vars,
           routerVars, callVars, streamVars, ghostVars
  <2>9. ASSUME NEW c \in Calls, NEW success \in BOOLEAN,
              ReceiveResult(s, c, success)
       PROVE  Routing'
    BY <2>9, <1>a, <1>b, <1>c
       DEF ReceiveResult, TakePending, Routing, LatestStreamStaysRegistered,
           CommandsReachTheirAddressee, vars, routerVars, callVars,
           streamVars, ghostVars
  <2>10. CASE ReceiverEnds(s)
    BY <2>10, <1>a, <1>b, <1>c
       DEF ReceiverEnds, Routing, LatestStreamStaysRegistered,
           CommandsReachTheirAddressee, vars, routerVars, callVars,
           streamVars, ghostVars
  <2> QED
    BY <1>2, <2>1, <2>2, <2>3, <2>4, <2>5, <2>6, <2>7, <2>8, <2>9, <2>10 DEF StreamStep
<1>3. ASSUME NEW g \in Goroutines, DeliverResult(g) PROVE Routing'
  BY <1>3, <1>a, <1>b, <1>c
     DEF DeliverResult, Routing, LatestStreamStaysRegistered,
         CommandsReachTheirAddressee, vars, routerVars, callVars, streamVars,
         ghostVars
<1>4. CASE UNCHANGED vars
  BY <1>4, <1>a, <1>b, <1>c
     DEF Routing, LatestStreamStaysRegistered, CommandsReachTheirAddressee,
         vars, routerVars, callVars, streamVars, ghostVars
<1> QED
  BY <1>1, <1>2, <1>3, <1>4 DEF Next

(* What is buffered depends on the channels only.                          *)
LEMMA BufferFrame ==
  ASSUME Once, UNCHANGED buffer
  PROVE  Once' /\ \A x \in Calls : Buffered(x)' => Buffered(x)
BY DEF Once, Buffered

(* A sent command is buffered, once, if it was not before.                 *)
LEMMA BufferAppend ==
  ASSUME TypeOK, Once, NEW s \in Streams, NEW c \in Calls, ~Buffered(c),
         buffer' = [buffer EXCEPT ![s] = Append(@, c)]
  PROVE  Once' /\ \A x \in Calls : Buffered(x)' => Buffered(x) \/ x = c
<1>1. \A t \in Streams : \A i \in 1..Len(buffer'[t]) :
        \/ i \in 1..Len(buffer[t]) /\ buffer'[t][i] = buffer[t][i] /\ buffer'[t][i] # c
        \/ t = s /\ i = Len(buffer[t]) + 1 /\ buffer'[t][i] = c
  BY AfterAppend DEF Buffered
<1>2. Once'
  <2> SUFFICES ASSUME NEW t \in Streams, NEW u \in Streams,
                      NEW i \in 1..Len(buffer'[t]), NEW k \in 1..Len(buffer'[u]),
                      buffer'[u][k] = buffer'[t][i]
               PROVE  u = t /\ k = i
    BY DEF Once
  <2>1. CASE buffer'[t][i] = c
    BY <1>1, <2>1
  <2>2. CASE buffer'[t][i] # c
    BY <1>1, <2>2 DEF Once
  <2> QED
    BY <2>1, <2>2
<1>3. \A x \in Calls : Buffered(x)' => Buffered(x) \/ x = c
  BY <1>1 DEF Buffered
<1> QED
  BY <1>2, <1>3

(* A command that is taken out is no longer buffered.                      *)
LEMMA BufferTail ==
  ASSUME TypeOK, Once, NEW s \in Streams, buffer[s] # <<>>,
         buffer' = [buffer EXCEPT ![s] = Tail(@)]
  PROVE  /\ Head(buffer[s]) \in Calls /\ Buffered(Head(buffer[s])) /\ Once'
         /\ \A x \in Calls : Buffered(x)' => Buffered(x) /\ x # Head(buffer[s])
<1> DEFINE y == Head(buffer[s])
<1>1. /\ 1 \in 1..Len(buffer[s]) /\ y = buffer[s][1]
      /\ \A t \in Streams : \A i \in 1..Len(buffer'[t]) :
           \E j \in 1..Len(buffer[t]) :
              /\ buffer'[t][i] = buffer[t][j]
              /\ j = IF t = s THEN i + 1 ELSE i
  BY AfterTail, Zenon
<1>2. y \in Calls
  BY HeadIsCall
<1> HIDE DEF y
<1>3. \A t \in Streams : \A i \in 1..Len(buffer'[t]) : buffer'[t][i] # y
  BY <1>1 DEF Once
<1>4. Once'
  <2> SUFFICES ASSUME NEW t \in Streams, NEW u \in Streams,
                      NEW i \in 1..Len(buffer'[t]), NEW k \in 1..Len(buffer'[u]),
                      buffer'[u][k] = buffer'[t][i]
               PROVE  u = t /\ k = i
    BY DEF Once
  <2>1. PICK j \in 1..Len(buffer[t]) : /\ buffer'[t][i] = buffer[t][j]
                                       /\ j = IF t = s THEN i + 1 ELSE i
    BY <1>1
  <2>2. PICK l \in 1..Len(buffer[u]) : /\ buffer'[u][k] = buffer[u][l]
                                       /\ l = IF u = s THEN k + 1 ELSE k
    BY <1>1
  <2>3. u = t /\ l = j
    BY <2>1, <2>2 DEF Once
  <2> QED
    BY <2>1, <2>2, <2>3
<1>5. \A x \in Calls : Buffered(x)' => Buffered(x) /\ x # y
  BY <1>1, <1>3 DEF Buffered
<1> QED
  BY <1>1, <1>2, <1>4, <1>5, Zenon DEF Buffered, y

(* The other conjuncts of Lifecycle speak of these variables only.         *)
LEMMA LifecycleFrame ==
  ASSUME Lifecycle,
         UNCHANGED <<pc, outcome, executions, recipients, answers, garbled, resultCh,
                     held, buffer>>
  PROVE  Lifecycle'
<1>1. Once' /\ \A x \in Calls : Buffered(x)' => Buffered(x)
  BY BufferFrame DEF Lifecycle
<1>2. Queued' /\ Progress'
  BY <1>1 DEF Lifecycle, Queued, Progress
<1>3. Executed' /\ Credited'
  BY DEF Lifecycle, Executed, Credited, Vouched
<1> QED
  BY <1>1, <1>2, <1>3 DEF Lifecycle

(* Every step keeps a command in one place and its results vouched for.    *)
LEMMA LifecycleStep ==
  ASSUME TypeOK, Correlation, Routing, Lifecycle, [Next]_vars
  PROVE  Lifecycle'
<1>a. /\ pc \in [Calls -> {"idle", "send", "wait", "expired", "returned"}]
      /\ outcome \in [Calls -> Outcomes]
      /\ executions \in [Calls -> Nat]
      /\ recipients \in [Calls -> SUBSET Devices]
      /\ answers \subseteq Calls \X BOOLEAN
      /\ garbled \subseteq Calls
      /\ resultCh \in [Calls -> SUBSET Results]
      /\ held \in [Goroutines -> Results \cup {NoResult}]
  BY DEF TypeOK
<1>b. Once /\ Queued /\ Progress /\ Executed /\ Credited
  BY DEF Lifecycle
<1>1. ASSUME NEW c \in Calls, CallStep(c) PROVE Lifecycle'
  <2>1. CASE Refuse(c)
    <3>1. Once' /\ \A x \in Calls : Buffered(x)' => Buffered(x)
      BY <2>1, <1>b, BufferFrame DEF Refuse, routerVars
    <3>2. Queued' /\ Progress'
      BY <2>1, <1>a, <1>b, <3>1 DEF Refuse, Queued, Progress, ghostVars
    <3>3. Executed' /\ Credited'
      BY <2>1, <1>a, <1>b DEF Refuse, Executed, Credited, Vouched, routerVars, streamVars, ghostVars
    <3> QED
      BY <3>1, <3>2, <3>3 DEF Lifecycle
  <2>2. CASE Dispatch(c)
    <3>1. Once' /\ \A x \in Calls : Buffered(x)' => Buffered(x)
      BY <2>2, <1>b, BufferFrame, Zenon DEF Dispatch, routerVars
    <3>2. Queued' /\ Progress'
      BY <2>2, <1>a, <1>b, <3>1 DEF Dispatch, Queued, Progress, ghostVars
    <3>3. Executed' /\ Credited'
      BY <2>2, <1>a, <1>b DEF Dispatch, Executed, Credited, Vouched, routerVars, streamVars, ghostVars
    <3> QED
      BY <3>1, <3>2, <3>3 DEF Lifecycle
  <2>3. CASE SendToChannel(c)
    <3>1. ~Buffered(c) /\ target[c] \in Streams
      BY <2>3, <1>b, Zenon DEF SendToChannel, Queued, Routing
    <3>2. Once' /\ \A x \in Calls : Buffered(x)' => Buffered(x) \/ x = c
      BY <2>3, <1>b, <3>1, BufferAppend, Zenon DEF SendToChannel
    <3>3. Queued' /\ Progress'
      BY <2>3, <1>a, <1>b, <3>2 DEF SendToChannel, Queued, Progress, ghostVars
    <3>4. Executed' /\ Credited'
      BY <2>3, <1>a, <1>b, Zenon DEF SendToChannel, Executed, Credited, Vouched, streamVars, ghostVars
    <3> QED
      BY <3>2, <3>3, <3>4 DEF Lifecycle
  <2>4. CASE SendOnClosedChannel(c)
    BY <2>4, LifecycleFrame, Zenon
       DEF SendOnClosedChannel, routerVars, callVars, streamVars, ghostVars
  <2>5. ASSUME NEW o \in {"DeadlineExceeded", "Internal"}, ContextDone(c, o)
       PROVE  Lifecycle'
    <3>1. Once' /\ \A x \in Calls : Buffered(x)' => Buffered(x)
      BY <2>5, <1>b, BufferFrame DEF ContextDone, routerVars
    <3>2. Queued' /\ Progress'
      BY <2>5, <1>a, <1>b, <3>1 DEF ContextDone, Queued, Progress, ghostVars
    <3>3. Executed' /\ Credited'
      BY <2>5, <1>a, <1>b DEF ContextDone, Executed, Credited, Vouched, routerVars, streamVars, ghostVars
    <3> QED
      BY <3>1, <3>2, <3>3 DEF Lifecycle
  <2>6. CASE ForgetPending(c)
    <3>1. Once' /\ \A x \in Calls : Buffered(x)' => Buffered(x)
      BY <2>6, <1>b, BufferFrame DEF ForgetPending, routerVars
    <3>2. Queued' /\ Progress'
      BY <2>6, <1>a, <1>b, <3>1 DEF ForgetPending, Queued, Progress, ghostVars
    <3>3. Executed' /\ Credited'
      BY <2>6, <1>a, <1>b DEF ForgetPending, Executed, Credited, Vouched, routerVars, streamVars, ghostVars
    <3> QED
      BY <3>1, <3>2, <3>3 DEF Lifecycle
  <2>7. CASE TakeResult(c)
    <3>1. executions[c] > 0 \/ c \in garbled
      <4>1. PICK res \in resultCh[c] : TRUE
        BY <2>7 DEF TakeResult
      <4>2. res \in Results /\ res.id = c
        BY <1>a, <4>1 DEF Correlation
      <4>3. Vouched(res)
        BY <1>b, <4>1, Zenon DEF Credited
      <4>4. CASE <<c, res.success>> \in answers
        BY <1>b, <4>4 DEF Executed
      <4> QED
        BY <4>2, <4>3, <4>4 DEF Vouched
    <3>2. ~Buffered(c)
      BY <1>a, <1>b, <3>1 DEF Queued
    <3>3. Once' /\ \A x \in Calls : Buffered(x)' => Buffered(x)
      BY <2>7, <1>b, BufferFrame DEF TakeResult
    <3>4. Queued' /\ Progress'
      BY <2>7, <1>a, <1>b, <3>2, <3>3 DEF TakeResult, Queued, Progress, ghostVars
    <3>5. Executed' /\ Credited'
      BY <2>7, <1>a, <1>b DEF TakeResult, Executed, Credited, Vouched, streamVars, ghostVars
    <3> QED
      BY <3>3, <3>4, <3>5 DEF Lifecycle
  <2> QED
    BY <1>1, <2>1, <2>2, <2>3, <2>4, <2>5, <2>6, <2>7 DEF CallStep
<1>2. ASSUME NEW s \in Streams, StreamStep(s) PROVE Lifecycle'
  <2>1. CASE Register(s)
    BY <2>1, LifecycleFrame
       DEF Register, routerVars, callVars, streamVars, ghostVars
  <2>2. CASE DeviceDisconnects(s)
    BY <2>2, LifecycleFrame
       DEF DeviceDisconnects, routerVars, callVars, streamVars, ghostVars
  <2>3. CASE ForwardCommand(s)
    <3> DEFINE y == Head(buffer[s])
    <3>1. /\ y \in Calls /\ Buffered(y) /\ Once'
          /\ \A x \in Calls : Buffered(x)' => Buffered(x) /\ x # y
      BY <2>3, <1>b, BufferTail, Zenon DEF ForwardCommand
    <3>2. /\ executions' = [executions EXCEPT ![y] = executions[y] + 1]
          /\ recipients' = [recipients EXCEPT ![y] = recipients[y] \cup {owner[s]}]
          /\ UNCHANGED <<pc, outcome, answers, garbled, held, resultCh>>
      BY <2>3 DEF ForwardCommand, callVars, streamVars
    <3> HIDE DEF y
    <3>3. Queued' /\ Progress'
      BY <1>a, <1>b, <3>1, <3>2 DEF Queued, Progress
    <3>4. Executed'
      BY <1>a, <1>b, <3>1, <3>2 DEF Executed
    <3>5. Credited'
      BY <1>b, <3>2 DEF Credited, Vouched
    <3> QED
      BY <3>1, <3>3, <3>4, <3>5 DEF Lifecycle
  <2>4. CASE ForwardFails(s)
    <3>1. Once' /\ \A x \in Calls : Buffered(x)' => Buffered(x)
      BY <2>4, <1>b, BufferTail, Zenon DEF ForwardFails
    <3>2. Queued' /\ Progress'
      BY <2>4, <1>b, <3>1 DEF ForwardFails, Queued, Progress, callVars, ghostVars
    <3>3. Executed' /\ Credited'
      BY <2>4, <1>b DEF ForwardFails, Executed, Credited, Vouched, callVars, ghostVars
    <3> QED
      BY <3>1, <3>2, <3>3 DEF Lifecycle
  <2>5. CASE HandlerReturns(s)
    BY <2>5, LifecycleFrame
       DEF HandlerReturns, routerVars, callVars, streamVars, ghostVars
  <2>6. CASE Unregister(s)
    BY <2>6, LifecycleFrame
       DEF Unregister, routerVars, callVars, streamVars, ghostVars
  <2>7. CASE CloseChannel(s)
    BY <2>7, LifecycleFrame
       DEF CloseChannel, routerVars, callVars, streamVars, ghostVars
  <2>8. CASE EncodeFails(s)
    <3> DEFINE y == Head(buffer[s])
               m == <<s, "main">>
    <3>1. /\ y \in Calls /\ Buffered(y) /\ Once'
          /\ \A x \in Calls : Buffered(x)' => Buffered(x) /\ x # y
      BY <2>8, <1>b, BufferTail, Zenon DEF EncodeFails
    <3>2. /\ m \in Goroutines
          /\ garbled' = garbled \cup {y}
          /\ UNCHANGED <<pc, outcome, answers, executions, recipients, resultCh>>
          /\ \/ held' = held
             \/ held' = [held EXCEPT ![m] = [ch |-> pending[y], id |-> y, success |-> FALSE]]
      BY <2>8 DEF EncodeFails, TakePending, Goroutines, callVars
    <3> HIDE DEF y, m
    <3>3. Queued' /\ Progress'
      BY <1>b, <3>1, <3>2 DEF Queued, Progress
    <3>4. Executed'
      BY <1>b, <3>2 DEF Executed
    <3>5. \A r : Vouched(r) => Vouched(r)'
      BY <3>2 DEF Vouched
    <3>6. ASSUME NEW g \in Goroutines, held'[g] # NoResult PROVE Vouched(held[g])'
      <4>1. CASE held'[g] = held[g]
        BY <1>b, <3>2, <3>6, <4>1 DEF Credited, Vouched
      <4>2. CASE held'[g] = [ch |-> pending[y], id |-> y, success |-> FALSE]
        BY <3>2, <4>2 DEF Vouched
      <4> QED
        BY <1>a, <3>2, <4>1, <4>2, Zenon
    <3>7. Credited'
      BY <1>b, <3>2, <3>5, <3>6 DEF Credited
    <3> QED
      BY <3>1, <3>3, <3>4, <3>7 DEF Lifecycle
  <2>9. ASSUME NEW c \in Calls, NEW success \in BOOLEAN,
              ReceiveResult(s, c, success)
       PROVE  Lifecycle'
    <3> DEFINE m == <<s, "recv">>
    <3>1. /\ m \in Goroutines
          /\ recipients[c] # {}
          /\ answers' = answers \cup {<<c, success>>}
          /\ UNCHANGED <<pc, outcome, executions, recipients, garbled, resultCh, buffer>>
          /\ \/ held' = held
             \/ held' = [held EXCEPT ![m] = [ch |-> pending[c], id |-> c, success |-> success]]
      BY <2>9 DEF ReceiveResult, TakePending, Goroutines, callVars
    <3> HIDE DEF m
    <3>2. Once' /\ \A x \in Calls : Buffered(x)' => Buffered(x)
      BY <1>b, <3>1, BufferFrame, Zenon
    <3>3. Queued' /\ Progress'
      BY <1>b, <3>1, <3>2, Zenon DEF Queued, Progress
    <3>4. Executed'
      <4>1. executions[c] > 0
        BY <1>b, <3>1 DEF Executed
      <4>2. ASSUME NEW a \in answers' PROVE executions[a[1]] > 0
        <5>1. CASE a \in answers
          BY <1>b, <5>1 DEF Executed
        <5>2. CASE a = <<c, success>>
          BY <4>1, <5>2
        <5> QED
          BY <3>1, <4>2, <5>1, <5>2
      <4>3. \A x \in Calls : recipients'[x] # {} => executions'[x] > 0
        BY <1>b, <3>1 DEF Executed
      <4> QED
        BY <3>1, <4>2, <4>3 DEF Executed
    <3>5. \A r : Vouched(r) => Vouched(r)'
      BY <3>1 DEF Vouched
    <3>6. ASSUME NEW g \in Goroutines, held'[g] # NoResult PROVE Vouched(held[g])'
      <4>1. CASE held'[g] = held[g]
        BY <1>b, <3>1, <3>6, <4>1 DEF Credited, Vouched
      <4>2. CASE held'[g] = [ch |-> pending[c], id |-> c, success |-> success]
        BY <3>1, <4>2 DEF Vouched
      <4> QED
        BY <1>a, <3>1, <4>1, <4>2
    <3>7. Credited'
      BY <1>b, <3>1, <3>5, <3>6 DEF Credited
    <3> QED
      BY <3>2, <3>3, <3>4, <3>7 DEF Lifecycle
  <2>10. CASE ReceiverEnds(s)
    BY <2>10, LifecycleFrame, Zenon
       DEF ReceiverEnds, routerVars, callVars, streamVars, ghostVars
  <2> QED
    BY <1>2, <2>1, <2>2, <2>3, <2>4, <2>5, <2>6, <2>7, <2>8, <2>9, <2>10, Zenon DEF StreamStep
<1>3. ASSUME NEW g \in Goroutines, DeliverResult(g) PROVE Lifecycle'
  <2>1. Once' /\ \A x \in Calls : Buffered(x)' => Buffered(x)
    BY <1>3, <1>b, BufferFrame, Zenon DEF DeliverResult
  <2>2. Queued' /\ Progress'
    BY <1>3, <1>b, <2>1 DEF DeliverResult, Queued, Progress, callVars, ghostVars
  <2>3. Executed' /\ Credited'
    BY <1>3, <1>a, <1>b DEF DeliverResult, Executed, Credited, Vouched, ghostVars
  <2> QED
    BY <2>1, <2>2, <2>3 DEF Lifecycle
<1>4. CASE UNCHANGED vars
  BY <1>4, LifecycleFrame DEF vars, routerVars, callVars, streamVars, ghostVars
<1> QED
  BY <1>1, <1>2, <1>3, <1>4 DEF Next

IInv == TypeOK /\ Correlation /\ Routing /\ Lifecycle

(* The empty router, with every call and stream still to come, satisfies   *)
(* the inductive invariant.                                                *)
LEMMA InitIInv == Init => IInv
<1> SUFFICES ASSUME Init PROVE IInv
  OBVIOUS
<1>1. TypeOK
  <2>1. /\ buffer \in [Streams -> Seq(Calls)]
        /\ \A s \in Streams : Len(buffer[s]) <= commandBuffer
    <3>1. Len(<<>>) <= commandBuffer /\ <<>> \in Seq(Calls)
      BY CommandRouterAssumption
    <3> QED
      BY <3>1 DEF Init
  <2> QED
    BY <2>1, Zenon DEF Init, TypeOK, Outcomes
<1>2. Correlation
  BY DEF Init, Correlation
<1>3. Routing
  BY DEF Init, Routing, LatestStreamStaysRegistered, CommandsReachTheirAddressee
<1>4. Lifecycle
  BY DEF Init, Lifecycle, Buffered, Once, Queued, Progress, Executed, Credited
<1> QED
  BY <1>1, <1>2, <1>3, <1>4 DEF IInv

(* The invariant holds in every reachable state.                           *)
LEMMA IInvInvariant == Spec => []IInv
<1>1. IInv /\ [Next]_vars => IInv'
  BY TypeStep, CorrelationStep, RoutingStep, LifecycleStep DEF IInv
<1> QED
  BY InitIInv, <1>1, PTL DEF Spec
-----------------------------------------------------------------------------
(* SubmitResult never blocks: the channel it took out of r.pending is      *)
(* empty and no other goroutine holds it.                                  *)
THEOREM SubmitIsNonBlocking == Spec => [](TypeOK /\ SubmitNeverBlocks)
<1>1. IInv => TypeOK /\ SubmitNeverBlocks
  BY DEF IInv, Correlation, SubmitNeverBlocks
<1> QED
  BY IInvInvariant, <1>1, PTL

(* SubmitResult hands every result to the Dispatch that waits for it,      *)
(* whatever the number of streams and calls.                               *)
THEOREM ResultsReachTheirCalls == Spec => []ResultsAreCorrelated
<1>1. IInv => ResultsAreCorrelated
  BY DEF IInv, Correlation, ResultsAreCorrelated, NoResult
<1> QED
  BY IInvInvariant, <1>1, PTL

(* Dispatch leaves nothing behind in r.pending, however it ends.           *)
THEOREM PendingIsReclaimed == Spec => []PendingOnlyWhileWaiting
<1>1. IInv => PendingOnlyWhileWaiting
  BY DEF IInv, Correlation, PendingOnlyWhileWaiting
<1> QED
  BY IInvInvariant, <1>1, PTL

(* The unregister closure of an old stream never takes a newer one out.    *)
THEOREM ReconnectsStayRegistered == Spec => []LatestStreamStaysRegistered
<1>1. IInv => LatestStreamStaysRegistered
  BY DEF IInv, Routing
<1> QED
  BY IInvInvariant, <1>1, PTL

(* No device receives a command addressed to another one, although         *)
(* Dispatch uses the channel it looked up after it released the lock.      *)
THEOREM CommandsAreRouted == Spec => []CommandsReachTheirAddressee
<1>1. IInv => CommandsReachTheirAddressee
  BY DEF IInv, Routing
<1> QED
  BY IInvInvariant, <1>1, PTL

(* The steps of a SendCommand call are steps, or stutters, of the promise. *)
LEMMA CallRefines ==
  ASSUME IInv, NEW c \in Calls, CallStep(c)
  PROVE  [Promise!Next]_(Promise!vars)
<1>a. /\ pc \in [Calls -> {"idle", "send", "wait", "expired", "returned"}]
      /\ outcome \in [Calls -> Outcomes]
      /\ resultCh \in [Calls -> SUBSET Results]
  BY DEF IInv, TypeOK
<1>1. CASE Refuse(c)
  <2>1. Promise!TurnAway(c, "refused")
    BY <1>1, <1>a, Zenon DEF Refuse, ghostVars, Promise!TurnAway, Promise!Fresh
  <2> QED
    BY <2>1 DEF Promise!Next, Promise!Outcomes
<1>2. CASE Dispatch(c)
  <2>1. CASE channels[addressee[c]] = None
    <3>1. Promise!TurnAway(c, "Unimplemented")
      BY <1>2, <1>a, <2>1, Zenon DEF Dispatch, ghostVars, Promise!TurnAway, Promise!Fresh
    <3> QED
      BY <3>1 DEF Promise!Next, Promise!Outcomes
  <2>2. CASE channels[addressee[c]] # None
    <3>1. Promise!Accept(c)
      BY <1>2, <1>a, <2>2, Zenon DEF Dispatch, ghostVars, Promise!Accept, Promise!Fresh
    <3> QED
      BY <3>1 DEF Promise!Next
  <2> QED
    BY <2>1, <2>2, Zenon
<1>3. CASE SendToChannel(c)
  BY <1>3, <1>a DEF SendToChannel, ghostVars, Promise!vars
<1>4. CASE SendOnClosedChannel(c)
  BY <1>4, <1>a DEF SendOnClosedChannel, callVars, ghostVars, Promise!vars
<1>5. ASSUME NEW o \in {"DeadlineExceeded", "Internal"}, ContextDone(c, o)
      PROVE  [Promise!Next]_(Promise!vars)
  BY <1>5, <1>a DEF ContextDone, ghostVars, Promise!vars
<1>6. CASE ForgetPending(c)
  <2>1. outcome[c] \in {"DeadlineExceeded", "Internal"}
    BY <1>6 DEF ForgetPending, IInv, Lifecycle, Progress
  <2>2. PICK o \in {"DeadlineExceeded", "Internal"} : o = outcome[c]
    BY <2>1
  <2>3. Promise!Return(c, o)
    BY <1>6, <1>a, <2>2, Zenon DEF ForgetPending, ghostVars, Promise!Return
  <2>4. o \in Promise!Outcomes
    BY <2>2 DEF Promise!Outcomes
  <2> QED
    BY <2>3, <2>4 DEF Promise!Next
<1>7. CASE TakeResult(c)
  <2>1. PICK res \in resultCh[c] :
          outcome' = [outcome EXCEPT ![c] = IF res.success THEN "ok" ELSE "FailedPrecondition"]
    BY <1>7, Zenon DEF TakeResult
  <2>2. res \in Results /\ res.id = c /\ Vouched(res)
    BY <1>a, <2>1, Zenon DEF IInv, Correlation, Lifecycle, Credited
  <2>3. CASE res.success
    <3>1. <<c, TRUE>> \in answers
      BY <2>2, <2>3 DEF Vouched, Results
    <3>2. Promise!Return(c, "ok")
      BY <1>7, <1>a, <2>1, <2>3, <3>1, Zenon DEF TakeResult, ghostVars, Promise!Return
    <3> QED
      BY <3>2 DEF Promise!Next, Promise!Outcomes
  <2>4. CASE ~res.success
    <3>1. <<c, FALSE>> \in answers \/ c \in garbled
      BY <2>2, <2>4, Zenon DEF Vouched, Results
    <3>2. Promise!Return(c, "FailedPrecondition")
      BY <1>7, <1>a, <2>1, <2>4, <3>1, Zenon DEF TakeResult, ghostVars, Promise!Return
    <3> QED
      BY <3>2 DEF Promise!Next, Promise!Outcomes
  <2> QED
    BY <2>3, <2>4
<1> QED
  BY <1>1, <1>2, <1>3, <1>4, <1>5, <1>6, <1>7 DEF CallStep

(* So are the steps of a StreamCommands handler.                           *)
LEMMA StreamRefines ==
  ASSUME IInv, NEW s \in Streams, StreamStep(s)
  PROVE  [Promise!Next]_(Promise!vars)
<1> USE DEF callVars, streamVars, ghostVars
<1>a. buffer[s] # <<>> =>
        LET x == Head(buffer[s]) IN
        /\ x \in Calls
        /\ executions[x] = 0
        /\ x \notin garbled
        /\ \/ pc[x] \in {"wait", "expired"}
           \/ pc[x] = "returned" /\ outcome[x] \in {"DeadlineExceeded", "Internal"}
  <2> SUFFICES ASSUME buffer[s] # <<>>
               PROVE  LET x == Head(buffer[s]) IN
                      /\ x \in Calls
                      /\ executions[x] = 0
                      /\ x \notin garbled
                      /\ \/ pc[x] \in {"wait", "expired"}
                         \/ pc[x] = "returned" /\ outcome[x] \in {"DeadlineExceeded", "Internal"}
    OBVIOUS
  <2>1. Head(buffer[s]) \in Calls /\ TypeOK
    BY HeadIsCall DEF IInv
  <2>2. 1 \in 1..Len(buffer[s]) /\ Head(buffer[s]) = buffer[s][1]
    BY <2>1 DEF TypeOK
  <2>3. Buffered(Head(buffer[s]))
    BY <2>2 DEF Buffered
  <2> QED
    BY <2>1, <2>3 DEF IInv, Lifecycle, Queued, TypeOK
<1>1. CASE Register(s)
  BY <1>1 DEF Register, Promise!vars
<1>2. CASE DeviceDisconnects(s)
  BY <1>2 DEF DeviceDisconnects, Promise!vars
<1>3. CASE ForwardCommand(s)
  <2>1. executions' = [executions EXCEPT ![Head(buffer[s])] = 1]
    <3>1. executions[Head(buffer[s])] + 1 = 1
      <4>1. executions[Head(buffer[s])] = 0
        BY <1>3, <1>a, Zenon DEF ForwardCommand
      <4> QED
        BY <4>1
    <3> QED
      BY <1>3, <3>1, Zenon DEF ForwardCommand
  <2>2. Promise!Execute(Head(buffer[s]))
    BY <1>3, <1>a, <2>1, Zenon DEF ForwardCommand, Promise!Execute
  <2> QED
    BY <1>3, <1>a, <2>2, Zenon DEF ForwardCommand, Promise!Next
<1>4. CASE ForwardFails(s)
  BY <1>4 DEF ForwardFails, Promise!vars
<1>5. CASE HandlerReturns(s)
  BY <1>5 DEF HandlerReturns, Promise!vars
<1>6. CASE Unregister(s)
  BY <1>6 DEF Unregister, Promise!vars
<1>7. CASE CloseChannel(s)
  BY <1>7 DEF CloseChannel, Promise!vars
<1>8. CASE EncodeFails(s)
  <2>1. Promise!Garble(Head(buffer[s]))
    BY <1>8, <1>a DEF EncodeFails, Promise!Garble
  <2> QED
    BY <1>8, <1>a, <2>1, Zenon DEF EncodeFails, Promise!Next
<1>9. ASSUME NEW c \in Calls, NEW success \in BOOLEAN, ReceiveResult(s, c, success)
      PROVE  [Promise!Next]_(Promise!vars)
  <2>1. executions[c] > 0
    BY <1>9 DEF ReceiveResult, IInv, Lifecycle, Executed
  <2>2. Promise!Answer(c, success)
    BY <1>9, <2>1 DEF ReceiveResult, Promise!Answer
  <2> QED
    BY <2>2 DEF Promise!Next
<1>10. CASE ReceiverEnds(s)
  BY <1>10 DEF ReceiverEnds, Promise!vars
<1> QED
  BY <1>1, <1>2, <1>3, <1>4, <1>5, <1>6, <1>7, <1>8, <1>9, <1>10 DEF StreamStep

(* The router implements CommandCall: a command is executed at most once,  *)
(* never for a call that was turned away, and SendCommand reports success  *)
(* or rejection only when the device, or the encoding, said so.            *)
THEOREM RouterKeepsItsPromise == Spec => KeepsItsPromise
<1>1. Init => Promise!Init
  BY DEF Init, Promise!Init
<1>2. ASSUME IInv, [Next]_vars PROVE [Promise!Next]_(Promise!vars)
  <2>1. ASSUME NEW g \in Goroutines, DeliverResult(g) PROVE UNCHANGED Promise!vars
    BY <2>1 DEF DeliverResult, callVars, ghostVars, Promise!vars
  <2>2. CASE UNCHANGED vars
    BY <2>2 DEF vars, callVars, ghostVars, Promise!vars
  <2> QED
    BY <1>2, <2>1, <2>2, CallRefines, StreamRefines DEF Next
<1> QED
  BY <1>1, <1>2, IInvInvariant, PTL DEF Spec, KeepsItsPromise, Promise!Spec
-----------------------------------------------------------------------------
(* What becomes of a channel: only a stream that has not unregistered is   *)
(* in r.channels, a handler leaves its loop only for a device that is      *)
(* gone, and the process dies at a send to a channel closed since.         *)
Closing ==
    /\ \A d \in Devices : channels[d] # None => handler[channels[d]] \in {"loop", "leaving"}
    /\ \A s \in Streams : handler[s] \in {"leaving", "unlinked", "returned"} => ~connected[s]
    /\ \A s \in Streams : closed[s] <=> handler[s] = "returned"
    /\ crashed => \E c \in Calls : pc[c] = "send" /\ closed[target[c]]

(* Every step keeps to that.                                               *)
LEMMA ClosingStep ==
  ASSUME TypeOK, Routing, Closing, [Next]_vars
  PROVE  Closing'
<1>a. /\ channels \in [Devices -> Streams \cup {None}]
      /\ target \in [Calls -> Streams \cup {None}]
      /\ owner \in [Streams -> Devices]
      /\ closed \in [Streams -> BOOLEAN]
      /\ connected \in [Streams -> BOOLEAN]
      /\ pc \in [Calls -> {"idle", "send", "wait", "expired", "returned"}]
      /\ handler \in [Streams -> {"idle", "loop", "leaving", "unlinked", "returned"}]
  BY DEF TypeOK
<1>h. handler = [r \in Streams |-> handler[r]]
  BY <1>a, Zenon
<1>b. None \notin Streams
  BY CommandRouterAssumption
<1>1. CASE UNCHANGED <<channels, handler, connected, closed, pc, target, crashed>>
  BY <1>1 DEF Closing
<1>2. CASE ~crashed /\ UNCHANGED <<channels, handler, connected, closed, crashed>>
  BY <1>2 DEF Closing
<1>3. ASSUME NEW c \in Calls, SendOnClosedChannel(c) PROVE Closing'
  BY <1>3 DEF SendOnClosedChannel, Closing, routerVars, callVars, streamVars
<1>4. ASSUME NEW s \in Streams, ~crashed,
             Register(s) \/ DeviceDisconnects(s) \/ ForwardFails(s) \/ HandlerReturns(s)
      PROVE  Closing'
  <2>1. CASE Register(s)
    <3>1. /\ handler' = [handler EXCEPT ![s] = "loop"] /\ channels' = [channels EXCEPT ![owner[s]] = s]
          /\ handler[s] = "idle" /\ UNCHANGED <<connected, closed, crashed>>
      BY <2>1, Zenon DEF Register
    <3>2. ASSUME NEW d \in Devices, channels'[d] # None
          PROVE  handler'[channels'[d]] \in {"loop", "leaving"}
      BY <1>a, <3>1, <3>2 DEF Closing
    <3>3. ASSUME NEW r \in Streams
          PROVE  /\ handler'[r] \in {"leaving", "unlinked", "returned"} => ~connected'[r]
                 /\ closed'[r] <=> handler'[r] = "returned"
      BY <1>h, <3>1, SMTT(20) DEF Closing
    <3> QED
      BY <1>4, <3>1, <3>2, <3>3, Zenon DEF Closing
  <2>2. CASE DeviceDisconnects(s) \/ ForwardFails(s) \/ HandlerReturns(s)
    BY <1>4, <2>2, <1>a DEF DeviceDisconnects, ForwardFails, HandlerReturns, MainReady, Closing, routerVars
  <2> QED
    BY <1>4, <2>1, <2>2, Zenon
<1>5. ASSUME NEW s \in Streams, ~crashed, Unregister(s) PROVE Closing'
  <2>1. \A d \in Devices : channels'[d] # None => channels'[d] = channels[d] /\ channels[d] # s
    BY <1>5, <1>a, <1>b, Zenon DEF Unregister, Routing
  <2>2. /\ handler' = [handler EXCEPT ![s] = "unlinked"] /\ handler[s] = "leaving"
        /\ UNCHANGED <<connected, closed, crashed>>
    BY <1>5, Zenon DEF Unregister
  <2>3. ASSUME NEW r \in Streams
        PROVE  handler'[r] = IF r = s THEN "unlinked" ELSE handler[r]
    BY <1>h, <2>2, SMTT(20)
  <2>4. ASSUME NEW d \in Devices, channels'[d] # None
        PROVE  handler'[channels'[d]] \in {"loop", "leaving"}
    <3>1. channels'[d] \in Streams /\ channels'[d] = channels[d] /\ channels[d] # s
      BY <1>a, <2>1, <2>4
    <3> QED
      BY <2>3, <2>4, <3>1 DEF Closing
  <2>5. ASSUME NEW r \in Streams
        PROVE  /\ handler'[r] \in {"leaving", "unlinked", "returned"} => ~connected'[r]
               /\ closed'[r] <=> handler'[r] = "returned"
    BY <2>2, <2>3 DEF Closing
  <2> QED
    BY <1>5, <2>2, <2>4, <2>5, Zenon DEF Closing
<1>6. ASSUME NEW s \in Streams, ~crashed, CloseChannel(s) PROVE Closing'
  BY <1>6, <1>a, <1>b DEF CloseChannel, Closing
<1>7. ASSUME NEW c \in Calls, CallStep(c), ~SendOnClosedChannel(c)
      PROVE  UNCHANGED <<channels, handler, connected, closed, crashed>>
  BY <1>7, Zenon DEF CallStep, Refuse, Dispatch, SendToChannel, ContextDone, ForgetPending, TakeResult,
                     routerVars, streamVars
<1>8. ASSUME NEW s \in Streams, StreamStep(s), ~Register(s), ~DeviceDisconnects(s), ~ForwardFails(s),
             ~HandlerReturns(s), ~Unregister(s), ~CloseChannel(s)
      PROVE  UNCHANGED <<channels, handler, connected, closed, crashed>>
  BY <1>8, Zenon DEF StreamStep, ForwardCommand, EncodeFails, ReceiveResult, ReceiverEnds,
                     routerVars, streamVars
<1>9. ASSUME NEW g \in Goroutines, DeliverResult(g)
      PROVE  UNCHANGED <<channels, handler, connected, closed, crashed>>
  BY <1>9, Zenon DEF DeliverResult
<1>10. UNCHANGED vars => UNCHANGED <<channels, handler, connected, closed, pc, target, crashed>>
  BY DEF vars, routerVars, callVars, streamVars
<1> QED
  BY <1>1, <1>2, <1>3, <1>4, <1>5, <1>6, <1>7, <1>8, <1>9, <1>10, Zenon DEF Next

(* The life of a channel is as Closing says in every reachable state.      *)
LEMMA ClosingInvariant == Spec => []Closing
<1>1. Init => Closing
  BY DEF Init, Closing
<1>2. IInv /\ Closing /\ [Next]_vars => Closing'
  BY ClosingStep DEF IInv
<1> QED
  BY <1>1, <1>2, IInvInvariant, PTL DEF Spec

(* How far CommandRouter is from being safe for concurrent use: the        *)
(* process dies only when a call is in its send to the stream of a device  *)
(* that has gone away, after the handler unregistered and closed the       *)
(* channel that Dispatch had looked up (Dispatch, Register).               *)
THEOREM PanicNeedsALostDevice ==
  Spec => [](SafeForConcurrentUse \/ \E c \in Calls :
                /\ pc[c] = "send" /\ owner[target[c]] = addressee[c]
                /\ handler[target[c]] = "returned" /\ ~connected[target[c]])
<1>1. IInv /\ Closing => SafeForConcurrentUse \/ \E c \in Calls :
                /\ pc[c] = "send" /\ owner[target[c]] = addressee[c]
                /\ handler[target[c]] = "returned" /\ ~connected[target[c]]
  BY DEF IInv, Routing, Closing, SafeForConcurrentUse
<1> QED
  BY <1>1, IInvInvariant, ClosingInvariant, PTL

(* Dispatch never looks up a channel that is closed, nor one whose stream  *)
(* has unregistered: all that can go wrong goes wrong after the lookup.    *)
THEOREM LookupsFindOpenChannels ==
  Spec => [][\A c \in Calls : pc[c] = "idle" /\ pc'[c] = "send" =>
                 /\ handler[target'[c]] \in {"loop", "leaving"}
                 /\ ~closed[target'[c]] /\ owner[target'[c]] = addressee[c]]_vars
<1> DEFINE Looks == \A c \in Calls : pc[c] = "idle" /\ pc'[c] = "send" =>
                        /\ handler[target'[c]] \in {"loop", "leaving"}
                        /\ ~closed[target'[c]] /\ owner[target'[c]] = addressee[c]
<1>1. ASSUME IInv, Closing, [Next]_vars PROVE [Looks]_vars
  <2>a. /\ pc \in [Calls -> {"idle", "send", "wait", "expired", "returned"}]
        /\ target \in [Calls -> Streams \cup {None}]
        /\ channels \in [Devices -> Streams \cup {None}]
        /\ addressee \in [Calls -> Devices]
    BY <1>1 DEF IInv, TypeOK
  <2>1. ASSUME NEW c \in Calls, Dispatch(c) PROVE Looks
    <3> SUFFICES ASSUME NEW b \in Calls, pc[b] = "idle", pc'[b] = "send"
                 PROVE  /\ handler[target'[b]] \in {"loop", "leaving"}
                        /\ ~closed[target'[b]] /\ owner[target'[b]] = addressee[b]
      OBVIOUS
    <3>1. b = c /\ channels[addressee[c]] # None /\ target'[b] = channels[addressee[c]]
      BY <2>1, <2>a, SMTT(20) DEF Dispatch
    <3> QED
      BY <1>1, <2>a, <3>1 DEF Closing, IInv, Routing
  <2>2. ASSUME NEW c \in Calls, CallStep(c), ~Dispatch(c) PROVE Looks
    <3>1. \A b \in Calls : pc'[b] # pc[b] => pc'[b] # "send"
      BY <2>2, <2>a DEF CallStep, Refuse, SendToChannel, SendOnClosedChannel, ContextDone, ForgetPending,
                        TakeResult, callVars
    <3> QED
      BY <3>1
  <2>3. CASE UNCHANGED pc
    BY <2>3
  <2>4. ASSUME NEW s \in Streams, StreamStep(s) PROVE UNCHANGED pc
    BY <2>4, Zenon DEF StreamStep, Register, DeviceDisconnects, ForwardCommand, ForwardFails, HandlerReturns,
                       Unregister, CloseChannel, EncodeFails, ReceiveResult, ReceiverEnds, callVars
  <2>5. ASSUME NEW g \in Goroutines, DeliverResult(g) PROVE UNCHANGED pc
    BY <2>5 DEF DeliverResult, callVars
  <2>6. UNCHANGED vars => UNCHANGED pc
    BY DEF vars, callVars
  <2> QED
    BY <1>1, <2>1, <2>2, <2>3, <2>4, <2>5, <2>6 DEF Next
<1> QED
  BY <1>1, IInvInvariant, ClosingInvariant, PTL DEF Spec
=============================================================================
