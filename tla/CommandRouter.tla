----------------------------- MODULE CommandRouter -----------------------------
(***************************************************************************)
(* api.CommandRouter with the two RPC handlers that use it: SendCommand,   *)
(* which calls Dispatch, and StreamCommands, which registers a device's    *)
(* command channel, forwards commands from it to the device and submits    *)
(* the device's results.                                                   *)
(*                                                                         *)
(* Steps are the code's critical sections and its channel operations.  A   *)
(* StreamCommands handler runs two goroutines, "main" (the select loop)    *)
(* and "recv" (stream.Recv and SubmitResult); the channel Register makes   *)
(* is named after the stream.  A SendCommand call is named after its       *)
(* random command ID, and so is the result channel Dispatch makes.         *)
(***************************************************************************)
EXTENDS Integers, Sequences, FiniteSets

CONSTANTS
    Devices,
    Streams,        \* invocations of the StreamCommands RPC
    Calls,          \* invocations of the SendCommand RPC, and their command IDs
    commandBuffer,  \* capacity of a device's command channel
    None            \* nil: no channel

ASSUME CommandRouterAssumption ==
    /\ commandBuffer \in Nat \ {0}
    /\ None \notin Streams \cup Calls

Goroutines == Streams \X {"main", "recv"}

VARIABLES
    channels,   \* r.channels: device -> stream whose channel is registered
    pending,    \* r.pending: command ID -> result channel
    buffer,     \* contents of each command channel
    closed,     \* is the command channel closed?
    resultCh,   \* contents of each result channel: at most one result
    pc,         \* where each SendCommand call is
    addressee,  \* the DeviceId of the call
    target,     \* Dispatch's local ch: the channel it looked up
    outcome,    \* status returned to the SendCommand caller
    handler,    \* where each stream's main goroutine is
    receiver,   \* where each stream's recv goroutine is
    held,       \* result that goroutine is about to deliver, with its channel
    owner,      \* the device that opened the stream
    latest,     \* the last stream that registered for each device
    connected,  \* is the stream's device still connected?
    executions, \* environment: how often each command reached a device
    recipients, \* environment: the devices it reached
    answers,    \* environment: answers the devices gave
    garbled,    \* commands main answered itself because encoding failed
    crashed     \* the gateway process died of a panic

routerVars == <<channels, pending, buffer, closed, resultCh>>
callVars   == <<pc, addressee, target, outcome>>
streamVars == <<handler, receiver, held, owner, latest, connected>>
ghostVars  == <<executions, recipients, answers, garbled>>
vars == <<routerVars, callVars, streamVars, ghostVars, crashed>>

NoResult == [ch |-> None, id |-> None, success |-> FALSE]
Results  == [ch : Calls, id : Calls, success : BOOLEAN]

Init ==
    /\ channels = [d \in Devices |-> None]
    /\ pending = [c \in Calls |-> None]
    /\ buffer = [s \in Streams |-> <<>>]
    /\ closed = [s \in Streams |-> FALSE]
    /\ resultCh = [c \in Calls |-> {}]
    /\ pc = [c \in Calls |-> "idle"]
    /\ addressee \in [Calls -> Devices]
    /\ target = [c \in Calls |-> None]
    /\ outcome = [c \in Calls |-> "none"]
    /\ handler = [s \in Streams |-> "idle"]
    /\ receiver = [s \in Streams |-> "idle"]
    /\ held = [g \in Goroutines |-> NoResult]
    /\ owner \in [Streams -> Devices]
    /\ latest = [d \in Devices |-> None]
    /\ connected = [s \in Streams |-> TRUE]
    /\ executions = [c \in Calls |-> 0]
    /\ recipients = [c \in Calls |-> {}]
    /\ answers = {}
    /\ garbled = {}
    /\ crashed = FALSE
-----------------------------------------------------------------------------
(* Faulty variants: SubmitResult sends its result again, or serves any     *)
(* waiting call; the timeout path leaves its entry behind; unregister      *)
(* deletes whatever is registered; Dispatch falls back to another device's *)
(* channel; main forwards a command without removing it.                   *)
DeliverAgain(g) ==
    /\ held[g] # NoResult
    /\ resultCh[held[g].ch] = {}
    /\ resultCh' = [resultCh EXCEPT ![held[g].ch] = {held[g]}]
    /\ UNCHANGED <<channels, pending, buffer, closed, callVars, streamVars, ghostVars, crashed>>

TakeAnyPending(g, id, success) ==
    /\ held[g] = NoResult
    /\ \E w \in Calls :
         /\ pending[w] # None
         /\ held' = [held EXCEPT ![g] = [ch |-> pending[w], id |-> id, success |-> success]]
         /\ pending' = [pending EXCEPT ![w] = None]

ReturnWithoutForgetting(c) ==
    /\ pc[c] = "expired"
    /\ pc' = [pc EXCEPT ![c] = "returned"]
    /\ UNCHANGED <<routerVars, addressee, target, outcome, streamVars, ghostVars, crashed>>

UnregisterAnyone(s) ==
    /\ handler[s] = "leaving"
    /\ handler' = [handler EXCEPT ![s] = "unlinked"]
    /\ channels' = [channels EXCEPT ![owner[s]] = None]
    /\ UNCHANGED <<pending, buffer, closed, resultCh, callVars, receiver, held,
                   owner, latest, connected, ghostVars, crashed>>

DispatchToAnyDevice(c) ==
    /\ pc[c] = "idle"
    /\ \E d \in Devices :
         /\ channels[d] # None
         /\ target' = [target EXCEPT ![c] = channels[d]]
    /\ pc' = [pc EXCEPT ![c] = "send"]
    /\ pending' = [pending EXCEPT ![c] = c]
    /\ UNCHANGED <<channels, buffer, closed, resultCh, addressee, outcome, streamVars,
                   ghostVars, crashed>>

ForwardWithoutRemoving(s) ==
    /\ handler[s] = "loop"
    /\ held[<<s, "main">>] = NoResult
    /\ buffer[s] # <<>>
    /\ connected[s]
    /\ executions' = [executions EXCEPT ![Head(buffer[s])] = @ + 1]
    /\ recipients' = [recipients EXCEPT ![Head(buffer[s])] = @ \cup {owner[s]}]
    /\ UNCHANGED <<routerVars, callVars, streamVars, answers, garbled, crashed>>
-----------------------------------------------------------------------------
(* Register, at the start of StreamCommands; then the recv goroutine.      *)
Register(s) ==
    /\ handler[s] = "idle"
    /\ handler' = [handler EXCEPT ![s] = "loop"]
    /\ receiver' = [receiver EXCEPT ![s] = "recv"]
    /\ latest' = [latest EXCEPT ![owner[s]] = s]
    /\ channels' = [channels EXCEPT ![owner[s]] = s]
    /\ UNCHANGED <<pending, buffer, closed, resultCh, callVars, held, owner,
                   connected, ghostVars, crashed>>

DeviceDisconnects(s) ==
    /\ handler[s] # "idle"
    /\ connected[s]
    /\ connected' = [connected EXCEPT ![s] = FALSE]
    /\ UNCHANGED <<routerVars, callVars, handler, receiver, held, owner, latest,
                   ghostVars, crashed>>

(* Main is in its select, not in the middle of a SubmitResult.             *)
MainReady(s) == handler[s] = "loop" /\ held[<<s, "main">>] = NoResult

(* Main takes a command and sends it to the device.                        *)
ForwardCommand(s) ==
    /\ MainReady(s)
    /\ buffer[s] # <<>>
    /\ connected[s]
    /\ buffer' = [buffer EXCEPT ![s] = Tail(@)]
    /\ executions' = [executions EXCEPT ![Head(buffer[s])] = @ + 1]
    /\ recipients' = [recipients EXCEPT ![Head(buffer[s])] = @ \cup {owner[s]}]
    /\ UNCHANGED <<channels, pending, closed, resultCh, callVars, streamVars,
                   answers, garbled, crashed>>

(* Main takes a command, stream.Send fails, the handler returns.           *)
ForwardFails(s) ==
    /\ MainReady(s)
    /\ buffer[s] # <<>>
    /\ ~connected[s]
    /\ buffer' = [buffer EXCEPT ![s] = Tail(@)]
    /\ handler' = [handler EXCEPT ![s] = "leaving"]
    /\ UNCHANGED <<channels, pending, closed, resultCh, callVars, receiver, held,
                   owner, latest, connected, ghostVars, crashed>>

(* Main sees ctx.Done or recvErr and returns.                              *)
HandlerReturns(s) ==
    /\ MainReady(s)
    /\ ~connected[s]
    /\ handler' = [handler EXCEPT ![s] = "leaving"]
    /\ UNCHANGED <<routerVars, callVars, receiver, held, owner, latest, connected,
                   ghostVars, crashed>>

(* The deferred unregister function: first the locked part ...             *)
Unregister(s) ==
    /\ handler[s] = "leaving"
    /\ handler' = [handler EXCEPT ![s] = "unlinked"]
    /\ channels' = IF channels[owner[s]] = s
                   THEN [channels EXCEPT ![owner[s]] = None] ELSE channels
    /\ UNCHANGED <<pending, buffer, closed, resultCh, callVars, receiver, held,
                   owner, latest, connected, ghostVars, crashed>>

(* ... then, outside the lock, close(ch).                                  *)
CloseChannel(s) ==
    /\ handler[s] = "unlinked"
    /\ handler' = [handler EXCEPT ![s] = "returned"]
    /\ closed' = [closed EXCEPT ![s] = TRUE]
    /\ UNCHANGED <<channels, pending, buffer, resultCh, callVars, receiver, held,
                   owner, latest, connected, ghostVars, crashed>>
-----------------------------------------------------------------------------
(* The locked part of SubmitResult, by goroutine g: look the waiting       *)
(* Dispatch up and forget it.  Without one, SubmitResult does nothing.     *)
TakePending(g, id, success) ==
    /\ held[g] = NoResult
    /\ held' = IF pending[id] = None THEN held
               ELSE [held EXCEPT ![g] = [ch |-> pending[id], id |-> id, success |-> success]]
    /\ pending' = [pending EXCEPT ![id] = None]

(* Recv returns a result for a command the device got, over this stream or *)
(* an earlier one, perhaps the second one for it, perhaps long after the   *)
(* call gave up.                                                           *)
ReceiveResult(s, c, success) ==
    /\ receiver[s] = "recv"
    /\ owner[s] \in recipients[c]
    /\ answers' = answers \cup {<<c, success>>}
    /\ TakePending(<<s, "recv">>, c, success)
    /\ UNCHANGED <<channels, buffer, closed, resultCh, callVars, handler, receiver,
                   owner, latest, connected, executions, recipients, garbled, crashed>>

(* Main takes a command whose parameters it cannot encode and submits a    *)
(* negative result itself.                                                 *)
EncodeFails(s) ==
    /\ MainReady(s)
    /\ buffer[s] # <<>>
    /\ buffer' = [buffer EXCEPT ![s] = Tail(@)]
    /\ garbled' = garbled \cup {Head(buffer[s])}
    /\ TakePending(<<s, "main">>, Head(buffer[s]), FALSE)
    /\ UNCHANGED <<channels, closed, resultCh, callVars, handler, receiver, owner, latest,
                   connected, executions, recipients, answers, crashed>>

(* The unlocked end of SubmitResult: ch <- res on a channel of capacity 1. *)
DeliverResult(g) ==
    /\ held[g] # NoResult
    /\ resultCh[held[g].ch] = {}
    /\ resultCh' = [resultCh EXCEPT ![held[g].ch] = {held[g]}]
    /\ held' = [held EXCEPT ![g] = NoResult]
    /\ UNCHANGED <<channels, pending, buffer, closed, callVars, handler, receiver,
                   owner, latest, connected, ghostVars, crashed>>

(* Recv fails once the device is gone and the goroutine ends; recvErr has  *)
(* room for its error.                                                     *)
ReceiverEnds(s) ==
    /\ receiver[s] = "recv"
    /\ held[<<s, "recv">>] = NoResult
    /\ ~connected[s]
    /\ receiver' = [receiver EXCEPT ![s] = "ended"]
    /\ UNCHANGED <<routerVars, callVars, handler, held, owner, latest, connected,
                   ghostVars, crashed>>
-----------------------------------------------------------------------------
(* SendCommand fails a check before it reaches the router.                 *)
Refuse(c) ==
    /\ pc[c] = "idle"
    /\ pc' = [pc EXCEPT ![c] = "returned"]
    /\ outcome' = [outcome EXCEPT ![c] = "refused"]
    /\ UNCHANGED <<routerVars, addressee, target, streamVars, ghostVars, crashed>>

(* Dispatch's first critical section.                                      *)
Dispatch(c) ==
    /\ pc[c] = "idle"
    /\ LET ch == channels[addressee[c]] IN
       \/ /\ ch = None
          /\ pc' = [pc EXCEPT ![c] = "returned"]
          /\ outcome' = [outcome EXCEPT ![c] = "Unimplemented"]
          /\ UNCHANGED <<target, pending>>
       \/ /\ ch # None
          /\ pc' = [pc EXCEPT ![c] = "send"]
          /\ target' = [target EXCEPT ![c] = ch]
          /\ pending' = [pending EXCEPT ![c] = c]
          /\ UNCHANGED outcome
    /\ UNCHANGED <<channels, buffer, closed, resultCh, addressee, streamVars,
                   ghostVars, crashed>>

(* case ch <- cmd, on an open channel with room.                           *)
SendToChannel(c) ==
    /\ pc[c] = "send"
    /\ ~closed[target[c]]
    /\ Len(buffer[target[c]]) < commandBuffer
    /\ buffer' = [buffer EXCEPT ![target[c]] = Append(@, c)]
    /\ pc' = [pc EXCEPT ![c] = "wait"]
    /\ UNCHANGED <<channels, pending, closed, resultCh, addressee, target, outcome,
                   streamVars, ghostVars, crashed>>

(* case ch <- cmd on a channel that was closed since it was looked up: a   *)
(* panic in a handler goroutine, which ends the process.                   *)
SendOnClosedChannel(c) ==
    /\ pc[c] = "send"
    /\ closed[target[c]]
    /\ crashed' = TRUE
    /\ UNCHANGED <<routerVars, callVars, streamVars, ghostVars>>

(* case <-ctx.Done(), in either select: commandTimeout is over             *)
(* (DeadlineExceeded) or the caller cancelled (Internal).                  *)
ContextDone(c, o) ==
    /\ pc[c] \in {"send", "wait"}
    /\ o \in {"DeadlineExceeded", "Internal"}
    /\ pc' = [pc EXCEPT ![c] = "expired"]
    /\ outcome' = [outcome EXCEPT ![c] = o]
    /\ UNCHANGED <<routerVars, addressee, target, streamVars, ghostVars, crashed>>

(* Dispatch's last critical section on that path.                          *)
ForgetPending(c) ==
    /\ pc[c] = "expired"
    /\ pc' = [pc EXCEPT ![c] = "returned"]
    /\ pending' = [pending EXCEPT ![c] = None]
    /\ UNCHANGED <<channels, buffer, closed, resultCh, addressee, target, outcome,
                   streamVars, ghostVars, crashed>>

(* case res := <-resultCh.                                                 *)
TakeResult(c) ==
    /\ pc[c] = "wait"
    /\ \E res \in resultCh[c] :
         outcome' = [outcome EXCEPT ![c] = IF res.success THEN "ok" ELSE "FailedPrecondition"]
    /\ pc' = [pc EXCEPT ![c] = "returned"]
    /\ resultCh' = [resultCh EXCEPT ![c] = {}]
    /\ UNCHANGED <<channels, pending, buffer, closed, addressee, target, streamVars,
                   ghostVars, crashed>>
-----------------------------------------------------------------------------
Terminated ==
    /\ \A c \in Calls : pc[c] = "returned"
    /\ \A s \in Streams : handler[s] = "returned" /\ receiver[s] = "ended"

CallStep(c) ==
    \/ Refuse(c)
    \/ Dispatch(c)
    \/ SendToChannel(c)
    \/ SendOnClosedChannel(c)
    \/ \E o \in {"DeadlineExceeded", "Internal"} : ContextDone(c, o)
    \/ ForgetPending(c)
    \/ TakeResult(c)

StreamStep(s) ==
    \/ Register(s)
    \/ DeviceDisconnects(s)
    \/ ForwardCommand(s)
    \/ ForwardFails(s)
    \/ HandlerReturns(s)
    \/ Unregister(s)
    \/ CloseChannel(s)
    \/ EncodeFails(s)
    \/ \E c \in Calls, success \in BOOLEAN : ReceiveResult(s, c, success)
    \/ ReceiverEnds(s)

Next ==
    \/ /\ ~crashed
       /\ \/ \E c \in Calls : CallStep(c)
          \/ \E s \in Streams : StreamStep(s)
          \/ \E g \in Goroutines : DeliverResult(g)
    \/ (crashed \/ Terminated) /\ UNCHANGED vars

Spec == Init /\ [][Next]_vars
-----------------------------------------------------------------------------
Outcomes == {"none", "refused", "Unimplemented", "ok", "FailedPrecondition",
             "DeadlineExceeded", "Internal"}

(* Type invariant; command and result channels respect their capacities.   *)
TypeOK ==
    /\ channels \in [Devices -> Streams \cup {None}]
    /\ pending \in [Calls -> Calls \cup {None}]
    /\ buffer \in [Streams -> Seq(Calls)]
    /\ \A s \in Streams : Len(buffer[s]) <= commandBuffer
    /\ closed \in [Streams -> BOOLEAN]
    /\ resultCh \in [Calls -> SUBSET Results]
    /\ pc \in [Calls -> {"idle", "send", "wait", "expired", "returned"}]
    /\ addressee \in [Calls -> Devices]
    /\ target \in [Calls -> Streams \cup {None}]
    /\ outcome \in [Calls -> Outcomes]
    /\ handler \in [Streams -> {"idle", "loop", "leaving", "unlinked", "returned"}]
    /\ receiver \in [Streams -> {"idle", "recv", "ended"}]
    /\ held \in [Goroutines -> Results \cup {NoResult}]
    /\ owner \in [Streams -> Devices]
    /\ latest \in [Devices -> Streams \cup {None}]
    /\ connected \in [Streams -> BOOLEAN]
    /\ executions \in [Calls -> Nat]
    /\ recipients \in [Calls -> SUBSET Devices]
    /\ answers \subseteq Calls \X BOOLEAN
    /\ garbled \subseteq Calls
    /\ crashed \in BOOLEAN

(* SubmitResult's unlocked send never blocks and never overtakes another   *)
(* result: the channel it took out of r.pending is empty and nobody else   *)
(* holds it, even when a device answers twice or over two streams at once. *)
SubmitNeverBlocks ==
    \A g \in Goroutines : held[g] # NoResult =>
        /\ resultCh[held[g].ch] = {}
        /\ \A h \in Goroutines : held[h].ch = held[g].ch => h = g

(* A Dispatch call only ever finds its own command's result in its result  *)
(* channel, with several commands in flight for the same device.           *)
ResultsAreCorrelated ==
    /\ \A c \in Calls : \A res \in resultCh[c] : res.id = c
    /\ \A g \in Goroutines : held[g].ch = held[g].id

(* r.pending holds no entry of a call that has returned: timeouts, results *)
(* and their races leak nothing.                                           *)
PendingOnlyWhileWaiting ==
    \A c \in Calls : pending[c] # None => pc[c] \in {"send", "wait", "expired"}

(* Register's comment: a second Register replaces the first, and "the      *)
(* prior one's eventual unregister will not affect the new registration":  *)
(* while the last registered stream serves commands, commands go to it.    *)
LatestStreamStaysRegistered ==
    \A d \in Devices, s \in Streams :
        latest[d] = s /\ handler[s] = "loop" => channels[d] = s

(* A device only ever receives commands addressed to it, also over a       *)
(* channel that was looked up long before the command got into it.         *)
CommandsReachTheirAddressee ==
    \A c \in Calls : recipients[c] \subseteq {addressee[c]}

(* The router implements the promise made to SendCommand's callers:        *)
(* at-most-once execution and outcomes that tell the truth.                *)
Promise == INSTANCE CommandCall WITH
    open <- {c \in Calls : pc[c] \in {"send", "wait", "expired"}},
    outcome <- [c \in Calls |-> IF pc[c] = "returned" THEN outcome[c] ELSE "none"]

(* Refinement of CommandCall by Dispatch, SubmitResult and StreamCommands. *)
KeepsItsPromise == Promise!Spec

(* CommandRouter's comment: "Safe for concurrent use."                     *)
SafeForConcurrentUse == ~crashed
=============================================================================
