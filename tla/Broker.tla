-------------------------------- MODULE Broker --------------------------------
(***************************************************************************)
(* api.Broker, the fan-out of property and status updates, together with   *)
(* its readers, the Subscribe RPC handlers of DeviceService.               *)
(*                                                                         *)
(* Subscribe, the unsubscribe function it returns, and Publish each run    *)
(* under b.mu from beginning to end, so each is one step.  The handlers    *)
(* read their channel without the lock and are interleaved with them.  A   *)
(* channel is named after the handler that created it.  Publishers are the *)
(* adapters' OnPropertyUpdate callbacks, SetProperty and the heartbeat     *)
(* monitor; for the broker they differ only in the update they pass.       *)
(***************************************************************************)
EXTENDS Integers, Sequences, FiniteSets

CONSTANTS
    Devices,
    Handlers,          \* invocations of the Subscribe RPC
    Paths,             \* property paths
    subscriberBuffer,  \* capacity of one subscriber's channel
    MaxPublished       \* bound on the updates published, for each device

ASSUME BrokerAssumption ==
    /\ subscriberBuffer \in Nat \ {0}
    /\ {"status", "unencodable", "any"} \cap Paths = {}

ASSUME BoundAssumption == MaxPublished \in [Devices -> Nat]

(* What an update carries: a status, a value at a path, or a value that    *)
(* toProtoValue cannot encode.                                             *)
Kinds == Paths \cup {"status", "unencodable"}

(* n numbers the updates of one device in the order of their Publish.      *)
Update == [dev : Devices, n : Nat, kind : Kinds]

VARIABLES
    subs,       \* b.subs: the channels registered per device
    queue,      \* contents of each channel
    closed,     \* is the channel closed?
    handler,    \* where each Subscribe handler is
    dev,        \* its DeviceId
    filter,     \* its PropertyPath, "any" when empty
    connected,  \* is its client still there?
    cursor,     \* n of the last update the handler took from its channel
    forwarded,  \* updates sent to the client
    published   \* number of updates published per device

vars == <<subs, queue, closed, handler, dev, filter, connected, cursor,
          forwarded, published>>

Init ==
    /\ subs = [d \in Devices |-> {}]
    /\ queue = [c \in Handlers |-> <<>>]
    /\ closed = [c \in Handlers |-> FALSE]
    /\ handler = [c \in Handlers |-> "idle"]
    /\ dev \in [Handlers -> Devices]
    /\ filter \in [Handlers -> Paths \cup {"any"}]
    /\ connected = [c \in Handlers |-> TRUE]
    /\ cursor = [c \in Handlers |-> 0]
    /\ forwarded = [c \in Handlers |-> {}]
    /\ published = [d \in Devices |-> 0]
-----------------------------------------------------------------------------
(* Faulty variants: unsubscribe closes a channel it leaves registered;     *)
(* Publish jumps the queue.                                                *)
unsubscribeLeavesChannel(c) ==
    /\ handler[c] = "leaving"
    /\ handler' = [handler EXCEPT ![c] = "returned"]
    /\ closed' = [closed EXCEPT ![c] = TRUE]
    /\ UNCHANGED <<subs, queue, dev, filter, connected, cursor, forwarded, published>>

InFront(d, u) ==
    [c \in Handlers |-> IF c \in subs[d] /\ Len(queue[c]) < subscriberBuffer
                        THEN <<u>> \o queue[c] ELSE queue[c]]
-----------------------------------------------------------------------------
(* Broker.Subscribe, called by a handler that passed the registry lookup   *)
(* and the authorization check.                                            *)
Subscribe(c) ==
    /\ handler[c] = "idle"
    /\ handler' = [handler EXCEPT ![c] = "reading"]
    /\ subs' = [subs EXCEPT ![dev[c]] = @ \cup {c}]
    /\ cursor' = [cursor EXCEPT ![c] = published[dev[c]]]
    /\ UNCHANGED <<queue, closed, dev, filter, connected, forwarded, published>>

(* The loop of Broker.Publish: every registered channel with room gets the *)
(* update, the full ones are skipped.                                      *)
FanOut(d, u) ==
    [c \in Handlers |-> IF c \in subs[d] /\ Len(queue[c]) < subscriberBuffer
                        THEN Append(queue[c], u) ELSE queue[c]]

Publish(d, kind) ==
    /\ published[d] < MaxPublished[d]
    /\ published' = [published EXCEPT ![d] = @ + 1]
    /\ queue' = FanOut(d, [dev |-> d, n |-> published[d] + 1, kind |-> kind])
    /\ UNCHANGED <<subs, closed, handler, dev, filter, connected, cursor, forwarded>>

(* The unsubscribe function, deferred by the handler.                      *)
unsubscribe(c) ==
    /\ handler[c] = "leaving"
    /\ handler' = [handler EXCEPT ![c] = "returned"]
    /\ subs' = [subs EXCEPT ![dev[c]] = @ \ {c}]
    /\ closed' = [closed EXCEPT ![c] = TRUE]
    /\ UNCHANGED <<queue, dev, filter, connected, cursor, forwarded, published>>

(* Is update u sent to the client?  Status updates always are, values only *)
(* at the requested path and only if they can be encoded.                  *)
Forwards(c, u) ==
    \/ u.kind = "status"
    \/ u.kind # "unencodable" /\ filter[c] \in {"any", u.kind}

(* One turn of the handler's loop with an update: it is filtered out, sent,*)
(* or the Send fails because the client is gone and the handler returns.   *)
ReadUpdate(c) ==
    /\ handler[c] = "reading"
    /\ queue[c] # <<>>
    /\ LET u == Head(queue[c]) IN
       /\ cursor' = [cursor EXCEPT ![c] = u.n]
       /\ forwarded' = IF Forwards(c, u) /\ connected[c]
                       THEN [forwarded EXCEPT ![c] = @ \cup {u}]
                       ELSE forwarded
       /\ handler' = IF Forwards(c, u) /\ ~connected[c]
                     THEN [handler EXCEPT ![c] = "leaving"]
                     ELSE handler
    /\ queue' = [queue EXCEPT ![c] = Tail(@)]
    /\ UNCHANGED <<subs, closed, dev, filter, connected, published>>

(* The loop sees ctx.Done.                                                 *)
ContextDone(c) ==
    /\ handler[c] = "reading"
    /\ ~connected[c]
    /\ handler' = [handler EXCEPT ![c] = "leaving"]
    /\ UNCHANGED <<subs, queue, closed, dev, filter, connected, cursor, forwarded, published>>

ClientDisconnects(c) ==
    /\ handler[c] = "reading"
    /\ connected[c]
    /\ connected' = [connected EXCEPT ![c] = FALSE]
    /\ UNCHANGED <<subs, queue, closed, handler, dev, filter, cursor, forwarded, published>>

(* Nothing is left to do within the bound.                                 *)
Finished ==
    /\ \A c \in Handlers : handler[c] = "returned"
    /\ \A d \in Devices : published[d] = MaxPublished[d]
    /\ UNCHANGED vars

Next ==
    \/ \E c \in Handlers : \/ Subscribe(c)
                           \/ ReadUpdate(c)
                           \/ ContextDone(c)
                           \/ ClientDisconnects(c)
                           \/ unsubscribe(c)
    \/ \E d \in Devices, kind \in Kinds : Publish(d, kind)
    \/ Finished

Spec == Init /\ [][Next]_vars
-----------------------------------------------------------------------------
(* Type invariant; no channel holds more than subscriberBuffer updates.    *)
TypeOK ==
    /\ subs \in [Devices -> SUBSET Handlers]
    /\ queue \in [Handlers -> Seq(Update)]
    /\ \A c \in Handlers : Len(queue[c]) <= subscriberBuffer
    /\ closed \in [Handlers -> BOOLEAN]
    /\ handler \in [Handlers -> {"idle", "reading", "leaving", "returned"}]
    /\ dev \in [Handlers -> Devices]
    /\ filter \in [Handlers -> Paths \cup {"any"}]
    /\ connected \in [Handlers -> BOOLEAN]
    /\ cursor \in [Handlers -> Nat]
    /\ forwarded \in [Handlers -> SUBSET Update]
    /\ published \in [Devices -> Nat]

(* Publish never sends on a closed channel and never to a handler that has *)
(* returned, and a handler that reads is registered for its own device and *)
(* only there: Subscribe, Publish and unsubscribe exclude each other.      *)
RegisteredChannelsAreOpen ==
    \A c \in Handlers, d \in Devices :
        c \in subs[d] <=> /\ handler[c] \in {"reading", "leaving"}
                          /\ dev[c] = d
                          /\ ~closed[c]

(* A subscriber sees the updates of its own device only, in the order they *)
(* were published, none twice: what waits in its channel is later than     *)
(* everything it has taken, and sorted.                                    *)
InOrderWithoutDuplicates ==
    \A c \in Handlers :
        /\ \A i \in 1 .. Len(queue[c]) :
               /\ queue[c][i].dev = dev[c]
               /\ cursor[c] < queue[c][i].n
               /\ queue[c][i].n <= published[dev[c]]
        /\ \A i, j \in 1 .. Len(queue[c]) : i < j => queue[c][i].n < queue[c][j].n
        /\ \A u \in forwarded[c] : u.dev = dev[c] /\ u.n <= cursor[c]
=============================================================================
