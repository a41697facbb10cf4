----------------------------- MODULE MqttAdapter ------------------------------
(***************************************************************************)
(* The MQTT transport adapter (internal/adapters/mqtt/adapter.go): the     *)
(* concurrent ReadProperty, WriteProperty and WatchDevice calls, the       *)
(* subscription bookkeeping and the waiter lists they share, and the       *)
(* dispatch callback that the transport runs for one message at a time.    *)
(* What a.mu protects is one step; dispatch copies only the slice header   *)
(* under the lock and then walks the backing array without it, while       *)
(* cancel shifts that array in place and append writes behind its end.     *)
(*                                                                         *)
(* MQTT broker and devices are external: a message is delivered once per   *)
(* matching subscription (the gateway's own requests too), and a lost      *)
(* connection comes back without the subscriptions, since neither          *)
(* transport asks for a persistent session.  The circuit breaker may       *)
(* refuse any request; CircuitBreaker says when.  main connects before it  *)
(* hands the adapter out and exits if it cannot, so a.tr is set.           *)
(***************************************************************************)
EXTENDS MqttTopics

CONSTANTS
    Requests,      \* calls of ReadProperty and WriteProperty
    Watchers,      \* calls of WatchDevice
    Devices,       \* device IDs that callers use
    Publishers,    \* those of real devices
    Paths,         \* property paths
    MaxMessages,   \* bound on the messages devices publish
    MaxLosses      \* bound on the connection losses

Procs == Requests \cup Watchers

ASSUME MqttAssumption ==
    /\ Requests \cap Watchers = {}
    /\ Devices \subseteq Seq(STRING) \ {<<>>} /\ Publishers \subseteq Devices
    /\ Paths \subseteq Seq(STRING) \ {<<>>}
    /\ MaxMessages \in Nat /\ MaxLosses \in Nat

VARIABLES
    subscribed,   \* a.subscribed
    brokerSubs,   \* the filters the broker holds for this connection
    waiters,      \* a.waiters: per topic with waiters, backing array and length
    call,         \* each call: pc, operation, device and path, the topic it
                  \* subscribes to and waits on, its waiter channel (capacity 1)
    inbox,        \* messages the broker has delivered, in order
    dispatching,  \* the dispatch under way, or Idle
    published,    \* messages published by devices so far
    losses        \* connection losses so far

adapter == <<subscribed, waiters>>
network == <<brokerSubs, inbox, published, losses>>
vars == <<adapter, call, network, dispatching>>

Idle == [i |-> 0]

(* The calls callers make.                                                 *)
Calls == [op : {"read", "write", "watch"}, dev : Devices, path : Paths]

(* The topic a call subscribes to first; requests also wait on it.         *)
Replies(c) == CASE c.op = "read"  -> topicProps(c.dev, c.path)
                [] c.op = "write" -> topicSetAck(c.dev, c.path)
                [] c.op = "watch" -> topicPropsWildcard(c.dev)

NewCall(c) == [pc |-> "start", op |-> c.op, dev |-> c.dev, path |-> c.path,
               topic |-> <<>>, chan |-> <<>>]

Init ==
    /\ subscribed = {} /\ brokerSubs = {}
    /\ waiters = <<>>
    /\ \E f \in [Procs -> Calls] :
           /\ \A p \in Procs : f[p].op = "watch" <=> p \in Watchers
           /\ call = [p \in Procs |-> NewCall(f[p])]
    /\ inbox = <<>> /\ dispatching = Idle
    /\ published = 0 /\ losses = 0
-----------------------------------------------------------------------------
(* The slices in a.waiters.  An append with spare capacity writes into the *)
(* shared array, otherwise it moves to a new one of twice the size; a      *)
(* removal shifts the rest of the array one place down.                    *)
Waiting(t) == {waiters[t].arr[i] : i \in 1 .. waiters[t].len}

Appended(t, p) ==
    IF t \notin DOMAIN waiters THEN [arr |-> <<p>>, len |-> 1]
    ELSE LET arr == waiters[t].arr
             n   == waiters[t].len
         IN  IF n < Len(arr)
             THEN [arr |-> [arr EXCEPT ![n + 1] = p], len |-> n + 1]
             ELSE [arr |-> arr \o <<p>> \o [i \in 1 .. n - 1 |-> "nil"], len |-> n + 1]

Removed(t, p) ==
    LET arr == waiters[t].arr
        n   == waiters[t].len
        at  == CHOOSE i \in 1 .. n : arr[i] = p
    IN  [arr |-> [i \in 1 .. Len(arr) |-> IF i \in at .. n - 1 THEN arr[i + 1] ELSE arr[i]],
         len |-> n - 1]

(* A dispatch under way refers to the array its slice had.  It sees every  *)
(* write to it, until the waiters of the topic move to another array.      *)
Detached(t, arr) ==
    IF dispatching # Idle /\ dispatching.msg.topic = t /\ dispatching.live
    THEN [dispatching EXCEPT !.live = FALSE, !.arr = arr]
    ELSE dispatching

(* The broker's deliveries of one published message.                       *)
Delivered(m) ==
    [i \in 1 .. Cardinality({f \in brokerSubs : Matches(f, m.topic)}) |-> m]
-----------------------------------------------------------------------------
(* ReadProperty, WriteProperty and WatchDevice refuse IDs and paths with   *)
(* wildcard levels.                                                        *)
Valid(c) == /\ validTopicSegment(c.dev)
            /\ c.op # "watch" => validTopicSegment(c.path)

(* The call returns at once: an invalid ID or path, or an open breaker.    *)
Refuse(p) ==
    /\ call[p].pc = "start"
    /\ call[p].op # "watch" \/ ~Valid(call[p])
    /\ call' = [call EXCEPT ![p].pc = "done"]
    /\ UNCHANGED <<adapter, network, dispatching>>

Start(p) ==
    /\ call[p].pc = "start"
    /\ Valid(call[p])
    /\ call' = [call EXCEPT ![p].pc = "check", ![p].topic = Replies(call[p])]
    /\ UNCHANGED <<adapter, network, dispatching>>

coveredByWildcardLocked(topic) ==
    LET r == parsePropsTopicOrSetAck(topic)
    IN  r.ok /\ topicPropsWildcard(r.dev) \in subscribed

(* What follows a subscribeOnce that succeeded.  WatchDevice goes on with  *)
(* the heartbeat topic, which the wildcard does not cover.                 *)
Subscribed(c) ==
    IF c.op # "watch" THEN [c EXCEPT !.pc = "register"]
    ELSE IF c.topic = Replies(c)
    THEN [c EXCEPT !.pc = "check", !.topic = topicStatus(c.dev)]
    ELSE [c EXCEPT !.pc = "done"]

(* subscribeOnce, first critical section.                                  *)
Check(p) ==
    /\ call[p].pc = "check"
    /\ call' = [call EXCEPT ![p] =
                   IF @.topic \in subscribed \/ coveredByWildcardLocked(@.topic)
                   THEN Subscribed(@) ELSE [@ EXCEPT !.pc = "subscribe"]]
    /\ UNCHANGED <<adapter, network, dispatching>>

Subscribe(p) ==
    /\ call[p].pc = "subscribe"
    /\ brokerSubs' = brokerSubs \cup {call[p].topic}
    /\ call' = [call EXCEPT ![p].pc = "mark"]
    /\ UNCHANGED <<adapter, inbox, published, losses, dispatching>>

(* A faulty error path that records the topic although SUBSCRIBE failed.   *)
SubscribeFailsButMarked(p) ==
    /\ call[p].pc = "subscribe"
    /\ subscribed' = subscribed \cup {call[p].topic}
    /\ call' = [call EXCEPT ![p].pc = "done"]
    /\ UNCHANGED <<waiters, network, dispatching>>

(* SUBSCRIBE fails or times out; the broker may have seen it nevertheless. *)
SubscribeFails(p) ==
    /\ call[p].pc = "subscribe"
    /\ brokerSubs' \in {brokerSubs, brokerSubs \cup {call[p].topic}}
    /\ call' = [call EXCEPT ![p].pc = "done"]
    /\ UNCHANGED <<adapter, inbox, published, losses, dispatching>>

(* subscribeOnce, second critical section.                                 *)
Mark(p) ==
    /\ call[p].pc = "mark"
    /\ subscribed' = subscribed \cup {call[p].topic}
    /\ call' = [call EXCEPT ![p] = Subscribed(@)]
    /\ UNCHANGED <<waiters, network, dispatching>>
-----------------------------------------------------------------------------
(* registerWaiter.  A dispatch that walks an array the waiters leave stays *)
(* with it.                                                                *)
registerWaiter(p) ==
    LET t == call[p].topic IN
    /\ call[p].pc = "register"
    /\ waiters' = [x \in DOMAIN waiters \cup {t} |-> IF x = t THEN Appended(t, p)
                                                     ELSE waiters[x]]
    /\ dispatching' = IF t \in DOMAIN waiters /\ waiters[t].len = Len(waiters[t].arr)
                      THEN Detached(t, waiters[t].arr) ELSE dispatching
    /\ call' = [call EXCEPT ![p].pc = "publish"]
    /\ UNCHANGED <<subscribed, network>>

(* A message of the gateway or of a device; origin tells which.            *)
Message(topic, origin, good) ==
    [topic |-> topic, origin |-> origin, good |-> good]

(* The request on .../get or .../set.                                      *)
RequestOf(c) == Message(IF c.op = "read" THEN topicGet(c.dev, c.path)
                        ELSE topicSet(c.dev, c.path), "gateway", TRUE)

Publish(p) ==
    /\ call[p].pc = "publish"
    /\ inbox' = inbox \o Delivered(RequestOf(call[p]))
    /\ call' = [call EXCEPT ![p].pc = "wait"]
    /\ UNCHANGED <<adapter, brokerSubs, published, losses, dispatching>>

(* The value cannot be encoded, or the publish fails or times out.         *)
PublishFails(p) ==
    /\ call[p].pc = "publish"
    /\ call' = [call EXCEPT ![p].pc = "cancel"]
    /\ UNCHANGED <<adapter, network, dispatching>>

(* The select gets the reply; whether it decodes decides the result only.  *)
TakeReply(p) ==
    /\ call[p].pc = "wait"
    /\ call[p].chan # <<>>
    /\ call' = [call EXCEPT ![p].pc = "cancel", ![p].chan = <<>>]
    /\ UNCHANGED <<adapter, network, dispatching>>

(* The select sees the request timeout or the caller's context end.        *)
ContextDone(p) ==
    /\ call[p].pc = "wait"
    /\ call' = [call EXCEPT ![p].pc = "cancel"]
    /\ UNCHANGED <<adapter, network, dispatching>>

(* A faulty cancel that does not look for its own channel.                 *)
CancelFirst(p) ==
    LET t == call[p].topic
        s == Removed(t, waiters[t].arr[1])
    IN
    /\ call[p].pc = "cancel"
    /\ waiters' = IF s.len = 0 THEN [x \in DOMAIN waiters \ {t} |-> waiters[x]]
                  ELSE [waiters EXCEPT ![t] = s]
    /\ dispatching' = IF s.len = 0 THEN Detached(t, s.arr) ELSE dispatching
    /\ call' = [call EXCEPT ![p].pc = "done"]
    /\ UNCHANGED <<subscribed, network>>

(* The deferred cancel function.                                           *)
Cancel(p) ==
    LET t == call[p].topic
        s == Removed(t, p)
    IN
    /\ call[p].pc = "cancel"
    /\ waiters' = IF s.len = 0 THEN [x \in DOMAIN waiters \ {t} |-> waiters[x]]
                  ELSE [waiters EXCEPT ![t] = s]
    /\ dispatching' = IF s.len = 0 THEN Detached(t, s.arr) ELSE dispatching
    /\ call' = [call EXCEPT ![p].pc = "done"]
    /\ UNCHANGED <<subscribed, network>>
-----------------------------------------------------------------------------
(* dispatch, the critical section: the slice header is copied.             *)
DispatchStart ==
    /\ dispatching = Idle
    /\ inbox # <<>>
    /\ LET m == Head(inbox)
           n == IF m.topic \in DOMAIN waiters THEN waiters[m.topic].len ELSE 0
       IN  dispatching' = [msg |-> m, live |-> n > 0, arr |-> <<>>, len |-> n, i |-> 1,
                           owed |-> IF n > 0 THEN Waiting(m.topic) ELSE {}]
    /\ inbox' = Tail(inbox)
    /\ UNCHANGED <<adapter, call, brokerSubs, published, losses>>

(* A faulty send that goes by the device instead of the topic.             *)
DispatchSendByDevice ==
    /\ dispatching # Idle
    /\ dispatching.i <= dispatching.len
    /\ call' = [p \in Procs |->
                   IF /\ call[p].pc \in {"publish", "wait"}
                      /\ dispatching.msg.topic[2] = Last(call[p].dev)
                   THEN [call[p] EXCEPT !.chan = <<dispatching.msg>>] ELSE call[p]]
    /\ dispatching' = [dispatching EXCEPT !.i = @ + 1]
    /\ UNCHANGED <<adapter, network>>

(* One turn of the loop: the channel in the array's next place gets the    *)
(* payload, unless it is full.                                             *)
DispatchSend ==
    /\ dispatching # Idle
    /\ dispatching.i <= dispatching.len
    /\ LET arr == IF dispatching.live THEN waiters[dispatching.msg.topic].arr
                  ELSE dispatching.arr
           w   == arr[dispatching.i]
       IN  call' = [call EXCEPT ![w].chan = IF @ = <<>> THEN <<dispatching.msg>> ELSE @]
    /\ dispatching' = [dispatching EXCEPT !.i = @ + 1]
    /\ UNCHANGED <<adapter, network>>

(* The onUpdate or onHeartbeat call one message leads to.                  *)
FanOut(m) ==
    LET v == parsePropsTopic(m.topic)
        s == parseStatusTopic(m.topic)
    IN  IF v.ok THEN IF m.good THEN {[dev |-> v.dev, path |-> v.rest]} ELSE {}
        ELSE IF s.ok THEN {[dev |-> s.dev, path |-> <<>>]}
        ELSE {}

(* The loop is through: dispatch calls what FanOut says and returns.       *)
DispatchEnd ==
    /\ dispatching # Idle
    /\ dispatching.i > dispatching.len
    /\ dispatching' = Idle
    /\ UNCHANGED <<adapter, call, network>>
-----------------------------------------------------------------------------
(* A device publishes a value, acknowledges a write, or sends a heartbeat. *)
DevicePublishes(d) ==
    /\ published < MaxMessages
    /\ published' = published + 1
    /\ \E path \in Paths, good \in BOOLEAN :
          \E m \in {Message(topicProps(d, path), [dev |-> d, path |-> path], good),
                    Message(topicSetAck(d, path), [dev |-> d, path |-> path], TRUE),
                    Message(topicStatus(d), [dev |-> d, path |-> <<>>], TRUE)} :
             inbox' = inbox \o Delivered(m)
    /\ UNCHANGED <<adapter, call, brokerSubs, losses, dispatching>>

(* The transport loses its connection and gets a new one.                  *)
ConnectionLost ==
    /\ losses < MaxLosses
    /\ losses' = losses + 1
    /\ brokerSubs' = {}
    /\ UNCHANGED <<adapter, call, inbox, published, dispatching>>

Finished ==
    /\ \A p \in Procs : call[p].pc = "done"
    /\ inbox = <<>> /\ dispatching = Idle
    /\ UNCHANGED vars

Dispatch == DispatchStart \/ DispatchSend \/ DispatchEnd

(* What a call does next.                                                  *)
Step(p) == \/ Start(p) \/ Refuse(p) \/ Check(p) \/ Subscribe(p) \/ SubscribeFails(p)
           \/ Mark(p) \/ registerWaiter(p) \/ Publish(p) \/ PublishFails(p)
           \/ TakeReply(p) \/ ContextDone(p) \/ Cancel(p)

Next ==
    \/ \E p \in Procs : Step(p)
    \/ Dispatch
    \/ \E d \in Publishers : DevicePublishes(d)
    \/ ConnectionLost
    \/ Finished

Spec == Init /\ [][Next]_vars
-----------------------------------------------------------------------------
Pcs == {"start", "check", "subscribe", "mark", "register", "publish", "wait",
        "cancel", "done"}

(* Is the call's channel in a.waiters?                                     *)
Registered(p) == p \in Requests /\ call[p].pc \in {"publish", "wait", "cancel"}

(* Type invariant: channels hold one payload, and a.waiters has an entry   *)
(* for a topic only while somebody waits there.                            *)
TypeOK ==
    /\ \A p \in Procs : /\ call[p].pc \in Pcs
                        /\ Len(call[p].chan) <= 1
    /\ \A t \in DOMAIN waiters : waiters[t].len \in 1 .. Len(waiters[t].arr)
    /\ published \in 0 .. MaxMessages
    /\ losses \in 0 .. MaxLosses

(* a.waiters lists exactly the requests that wait, each once and under its *)
(* own topic, although register and cancel edit shared arrays in place:    *)
(* nobody is forgotten, and no channel stays behind (registerWaiter).  The *)
(* state has its types.                                                    *)
WaitersAreTheRequests ==
    /\ TypeOK
    /\ \A p \in Procs : Registered(p) => call[p].topic \in DOMAIN waiters
    /\ \A t \in DOMAIN waiters :
          /\ Waiting(t) = {p \in Procs : Registered(p) /\ call[p].topic = t}
          /\ Cardinality(Waiting(t)) = waiters[t].len

(* As long as the connection holds, a.subscribed is no promise the broker  *)
(* does not keep, whatever calls fail or overlap: every topic in it, and   *)
(* the reply topic of every request that waits, is covered by a filter at  *)
(* the broker (subscribeOnce, coveredByWildcardLocked).                    *)
SubscribedIsTruthful ==
    losses = 0 =>
        /\ subscribed \subseteq brokerSubs
        /\ \A p \in Procs : Registered(p) =>
               \E f \in brokerSubs : Matches(f, call[p].topic)

(* What lies in a request's channel was published on the very topic the    *)
(* request waits on, also when dispatch walks an array that has been       *)
(* shifted, or written behind its end, since it copied the slice.          *)
RepliesMatchRequests ==
    \A p \in Procs : \A i \in 1 .. Len(call[p].chan) :
        p \in Requests /\ call[p].chan[i].topic = call[p].topic

(* Every onUpdate and onHeartbeat call names the device and path that      *)
(* published the message, never the gateway's own requests coming back, and*)
(* only devices somebody asked for (parsePropsTopic, validTopicSegment).   *)
UpdatesAreAttributed ==
    dispatching # Idle => \A u \in FanOut(dispatching.msg) :
        /\ dispatching.msg.origin = u
        /\ \E p \in Procs : call[p].dev = u.dev

(* dispatch's comment: it "delivers payload to every waiter registered on  *)
(* topic".  A waiter of the snapshot that still waits has a payload when   *)
(* the loop is through.                                                    *)
EveryWaiterIsServed ==
    (dispatching # Idle /\ dispatching.i > dispatching.len) =>
        \A p \in dispatching.owed : call[p].pc = "wait" => call[p].chan # <<>>
=============================================================================
