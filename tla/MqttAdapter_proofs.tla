-------------------------- MODULE MqttAdapter_proofs ---------------------------
(***************************************************************************)
(* Proofs about MqttAdapter.  The array that dispatch walks is the one     *)
(* registerWaiter and cancel edit, so the invariant follows every place of *)
(* every array, also behind the end of the slice: it is unused, or holds   *)
(* the channel of a request on the topic of the array.                     *)
(***************************************************************************)
EXTENDS MqttAdapter, FiniteSetTheorems, SequenceTheorems, TLAPS

Level == STRING \cup {"udal", "props", "get", "set", "ack", "status", "#"}
Topic == Seq(Level)

(* Where a message comes from: the gateway, or a property (or <<>> for the *)
(* heartbeat) of a device.                                                 *)
Origin == {"gateway"} \cup [dev : Devices, path : Paths \cup {<<>>}]
Msg == [topic : Topic, origin : Origin, good : BOOLEAN]

CallRecord == [pc : Pcs, op : {"read", "write", "watch"}, dev : Devices, path : Paths,
               topic : Topic, chan : Seq(Msg)]
Slice == [arr : Seq(Procs \cup {"nil"}), len : Nat]
DispatchRecord == [msg : Msg, live : BOOLEAN, arr : Seq(Procs \cup {"nil"}), len : Nat,
                   i : Nat \ {0}, owed : SUBSET Procs]

Types ==
    /\ call \in [Procs -> CallRecord]
    /\ DOMAIN waiters \subseteq Topic
    /\ \A t \in DOMAIN waiters : waiters[t] \in Slice
    /\ dispatching \in DispatchRecord \cup {Idle}
    /\ inbox \in Seq(Msg)
    /\ IsFiniteSet(brokerSubs)
    /\ published \in 0 .. MaxMessages
    /\ losses \in 0 .. MaxLosses

(* The filters a call may subscribe to.                                    *)
TopicsOf(c) == {Replies(c), topicStatus(c.dev)}

(* A call keeps to topics of its own; only a request that has registered   *)
(* gets anything, and that on its own topic.                               *)
CallOK(p, c) ==
    /\ c.op = "watch" <=> p \in Watchers
    /\ c.pc \notin {"start", "done"} => Valid(c) /\ c.topic \in TopicsOf(c)
    /\ p \in Watchers => c.pc \notin {"register", "publish", "wait", "cancel"}
    /\ p \in Watchers \/ c.pc = "start" => c.chan = <<>>
    /\ Len(c.chan) <= 1
    /\ \A i \in 1 .. Len(c.chan) : c.chan[i].topic = c.topic

(* w registered on t at some time, and may have left since.                *)
Held(w, t) == w \in Requests /\ call[w].topic = t
              /\ call[w].pc \in {"publish", "wait", "cancel", "done"}

SliceOK(t) ==
    LET arr == waiters[t].arr
        n   == waiters[t].len
    IN  /\ n \in 1 .. Len(arr)
        /\ \A i \in 1 .. n : Registered(arr[i]) /\ call[arr[i]].topic = t
        /\ \A i, j \in 1 .. n : arr[i] = arr[j] => i = j
        /\ \A i \in 1 .. Len(arr) : arr[i] = "nil" \/ Held(arr[i], t)

(* A request that waits is in the list of its topic.                       *)
Listed(p) ==
    Registered(p) => /\ call[p].topic \in DOMAIN waiters
                     /\ \E i \in 1 .. waiters[call[p].topic].len : waiters[call[p].topic].arr[i] = p

(* The places a dispatch walks, whoever edits them meanwhile, hold         *)
(* channels of requests on the topic of its message.                       *)
DispatchOK ==
    dispatching # Idle =>
        LET t   == dispatching.msg.topic
            arr == IF dispatching.live THEN waiters[t].arr ELSE dispatching.arr
        IN  /\ dispatching.live => t \in DOMAIN waiters
            /\ dispatching.len <= Len(arr)
            /\ \A i \in 1 .. dispatching.len : Held(arr[i], t)

(* The broker has the filters that calls asked for, and no other; while    *)
(* the connection holds it has those the adapter relies on.                *)
FiltersOK ==
    /\ \A f \in brokerSubs : \E p \in Procs : Valid(call[p]) /\ f \in TopicsOf(call[p])
    /\ losses = 0 =>
          /\ subscribed \subseteq brokerSubs
          /\ \A p \in Procs : call[p].pc = "mark" => call[p].topic \in brokerSubs
          /\ \A p \in Procs : call[p].pc \in {"register", "publish", "wait", "cancel"}
                              => \E f \in brokerSubs : Matches(f, call[p].topic)

(* The calls, the waiter lists and the dispatch under way.                 *)
ListsOK ==
    /\ \A p \in Procs : CallOK(p, call[p]) /\ Listed(p)
    /\ \A t \in DOMAIN waiters : SliceOK(t)
    /\ DispatchOK

IInv == Types /\ ListsOK /\ FiltersOK
-----------------------------------------------------------------------------
(* Topics, level by level.                                                 *)
LEMMA DeviceIds == ASSUME NEW d \in Devices
                   PROVE  d \in Seq(Level) /\ Len(d) \in Nat \ {0}
BY MqttAssumption DEF Level

(* Paths are non-empty topics.                                             *)
LEMMA PathLevels == ASSUME NEW path \in Paths
                    PROVE  path \in Seq(Level) /\ Len(path) \in Nat \ {0}
BY MqttAssumption DEF Level

(* The levels of topicProps.                                               *)
LEMMA PropsTopic ==
  ASSUME NEW d \in Devices, NEW path \in Paths
  PROVE  LET t == topicProps(d, path)
         IN  /\ t \in Topic /\ Len(t) = Len(d) + Len(path) + 2
             /\ t[1] = "udal" /\ t[Len(d) + 2] = "props"
             /\ \A i \in 1 .. Len(d) : t[i + 1] = d[i]
             /\ \A i \in 1 .. Len(path) : t[Len(d) + 2 + i] = path[i]
BY DeviceIds, PathLevels DEF topicProps, Topic, Level

(* The levels of topicPropsWildcard.                                       *)
LEMMA WildcardTopic ==
  ASSUME NEW d \in Topic
  PROVE  LET t == topicPropsWildcard(d)
         IN  /\ t \in Topic /\ Len(t) = Len(d) + 3
             /\ t[1] = "udal" /\ t[Len(d) + 2] = "props" /\ t[Len(d) + 3] = "#"
             /\ \A i \in 1 .. Len(d) : t[i + 1] = d[i]
BY DEF topicPropsWildcard, Topic, Level

(* The levels of topicStatus.                                              *)
LEMMA StatusTopic ==
  ASSUME NEW d \in Devices
  PROVE  LET t == topicStatus(d)
         IN  /\ t \in Topic /\ Len(t) = Len(d) + 2
             /\ t[1] = "udal" /\ t[Len(d) + 2] = "status"
             /\ \A i \in 1 .. Len(d) : t[i + 1] = d[i]
BY DeviceIds DEF topicStatus, Topic, Level

(* The levels of a topic with one more at its end.                         *)
LEMMA OneLevelMore ==
  ASSUME NEW s \in Topic, NEW x \in Level
  PROVE  LET t == s \o <<x>>
         IN  /\ t \in Topic /\ Len(t) = Len(s) + 1 /\ t[Len(s) + 1] = x
             /\ \A i \in 1 .. Len(s) : t[i] = s[i]
BY DEF Topic

(* The levels of topicGet and topicSet.                                    *)
LEMMA RequestTopic ==
  ASSUME NEW d \in Devices, NEW path \in Paths, NEW s \in {"get", "set"}
  PROVE  LET t == topicProps(d, path) \o <<s>>
         IN  /\ t \in Topic /\ Len(t) = Len(d) + Len(path) + 3
             /\ t[Len(t)] = s
             /\ \A i \in 1 .. Len(d) + Len(path) + 2 : t[i] = topicProps(d, path)[i]
<1>1. s \in Level
  BY DEF Level
<1> DEFINE r == topicProps(d, path)
           t == r \o <<s>>
<1>2. r \in Topic /\ Len(r) = Len(d) + Len(path) + 2
  BY PropsTopic
<1> HIDE DEF r
<1>3. t \in Topic /\ Len(t) = Len(r) + 1 /\ t[Len(r) + 1] = s /\ \A i \in 1 .. Len(r) : t[i] = r[i]
  BY <1>1, <1>2, OneLevelMore, Zenon
<1> HIDE DEF t
<1>4. /\ t \in Topic /\ Len(t) = Len(d) + Len(path) + 3
      /\ t[Len(t)] = s
      /\ \A i \in 1 .. Len(d) + Len(path) + 2 : t[i] = r[i]
  BY <1>2, <1>3, DeviceIds, PathLevels
<1> QED
  BY <1>4 DEF t, r

(* The levels of topicSetAck.                                              *)
LEMMA AckTopic ==
  ASSUME NEW d \in Devices, NEW path \in Paths
  PROVE  LET t == topicSetAck(d, path)
         IN  /\ t \in Topic /\ Len(t) = Len(d) + Len(path) + 4
             /\ t[Len(t) - 1] = "set" /\ t[Len(t)] = "ack"
             /\ \A i \in 1 .. Len(d) + Len(path) + 2 : t[i] = topicProps(d, path)[i]
<1> DEFINE s == topicProps(d, path) \o <<"set">>
<1>1. /\ s \in Topic /\ Len(s) = Len(d) + Len(path) + 3 /\ s[Len(s)] = "set"
      /\ \A i \in 1 .. Len(d) + Len(path) + 2 : s[i] = topicProps(d, path)[i]
  BY RequestTopic
<1>2. topicSetAck(d, path) = s \o <<"ack">>
  BY DEF topicSetAck, topicSet
<1>3. "ack" \in Level
  BY DEF Level
<1> HIDE DEF s
<1> DEFINE t == s \o <<"ack">>
<1>4. t \in Topic /\ Len(t) = Len(s) + 1 /\ t[Len(s) + 1] = "ack" /\ \A i \in 1 .. Len(s) : t[i] = s[i]
  BY <1>1, <1>3, OneLevelMore, Zenon
<1> HIDE DEF t
<1>5. /\ t \in Topic /\ Len(t) = Len(d) + Len(path) + 4
      /\ t[Len(t) - 1] = "set" /\ t[Len(t)] = "ack"
      /\ \A i \in 1 .. Len(d) + Len(path) + 2 : t[i] = topicProps(d, path)[i]
  BY <1>1, <1>4, DeviceIds, PathLevels
<1> QED
  BY <1>2, <1>5 DEF t

(* A filter without wildcards, or one that ends in "#", matches itself.    *)
LEMMA MatchesItself == ASSUME NEW t \in Topic PROVE Matches(t, t)
BY DEF Matches, Topic, Last

(* A non-empty set of naturals has a least element.                        *)
LEMMA LeastElement ==
  ASSUME NEW S, S \subseteq Nat, S # {}
  PROVE  \E i \in S : \A j \in S : i <= j
<1>1. PICK i \in S : \A j \in S : ~(<<j, i>> \in OpToRel(<, Nat))
  BY NatLessThanWellFounded, WFMin, Zenon
<1>2. \A j \in S : ~(j < i)
  BY <1>1, Zenon DEF OpToRel
<1> QED
  BY <1>2

(* The topic a dispatched message or a call belongs to is read off the     *)
(* first "props".                                                          *)
LEMMA FirstProps ==
  ASSUME NEW t \in Topic, PropsAt(t) # {}
  PROVE  LET cut == CHOOSE i \in PropsAt(t) : \A j \in PropsAt(t) : i <= j
         IN  cut \in PropsAt(t) /\ \A j \in PropsAt(t) : cut <= j
<1>1. PropsAt(t) \subseteq Nat
  BY DEF PropsAt, Topic
<1>2. \E i \in PropsAt(t) : \A j \in PropsAt(t) : i <= j
  BY <1>1, LeastElement
<1> QED
  BY <1>2

(* coveredByWildcardLocked is right: a device's "props/#" covers every     *)
(* topic that parsePropsTopicOrSetAck reads that device from.              *)
LEMMA WildcardCovers ==
  ASSUME NEW t \in Topic, parsePropsTopicOrSetAck(t).ok
  PROVE  Matches(topicPropsWildcard(parsePropsTopicOrSetAck(t).dev), t)
<1> DEFINE cut == CHOOSE i \in PropsAt(t) : \A j \in PropsAt(t) : i <= j
           dev == SubSeq(t, 2, cut - 1)
           f   == topicPropsWildcard(dev)
<1>1. t[1] = "udal" /\ PropsAt(t) # {} /\ parsePropsTopicOrSetAck(t).dev = dev
  BY Zenon DEF parsePropsTopicOrSetAck
<1>2. cut \in 3 .. Len(t) - 1 /\ Len(t) \in Nat /\ t[cut] = "props"
  <2>1. cut \in PropsAt(t)
    BY <1>1, FirstProps, Zenon
  <2> HIDE DEF cut
  <2> QED
    BY <2>1 DEF PropsAt, Topic
<1> HIDE DEF cut
<1>3. dev \in Topic /\ Len(dev) = cut - 2 /\ \A i \in 1 .. cut - 2 : dev[i] = t[i + 1]
  BY <1>2 DEF Topic
<1> HIDE DEF dev
<1>4. Len(f) = cut + 1 /\ f[1] = "udal" /\ f[cut] = "props" /\ f[cut + 1] = "#"
      /\ \A i \in 1 .. cut - 2 : f[i + 1] = t[i + 1]
  <2>1. /\ Len(f) = Len(dev) + 3
        /\ f[1] = "udal" /\ f[Len(dev) + 2] = "props" /\ f[Len(dev) + 3] = "#"
        /\ \A i \in 1 .. Len(dev) : f[i + 1] = dev[i]
    BY <1>3, WildcardTopic, Zenon
  <2> HIDE DEF f
  <2>2. cut \in Nat /\ Len(dev) + 2 = cut /\ Len(dev) + 3 = cut + 1
    BY <1>2, <1>3
  <2>3. \A i \in 1 .. cut - 2 : f[i + 1] = t[i + 1]
    BY <1>2, <1>3, <2>1, Zenon
  <2> QED
    BY <2>1, <2>2, <2>3
<1> HIDE DEF f
<1>5. \A i \in 1 .. cut : f[i] = t[i]
  <2> SUFFICES ASSUME NEW i \in 1 .. cut PROVE f[i] = t[i]
    OBVIOUS
  <2>1. CASE i \in {1, cut}
    BY <1>1, <1>2, <1>4, <2>1
  <2>2. CASE i - 1 \in 1 .. cut - 2
    BY <1>2, <1>4, <2>2
  <2> QED
    BY <1>2, <2>1, <2>2
<1>6. Matches(f, t)
  BY <1>2, <1>4, <1>5 DEF Matches, Last, Topic
<1> QED
  BY <1>1, <1>6 DEF f
-----------------------------------------------------------------------------
(* Replies by operation.                                                   *)
LEMMA RepliesByOp ==
  ASSUME NEW c
  PROVE  /\ c.op = "read"  => Replies(c) = topicProps(c.dev, c.path)
         /\ c.op = "write" => Replies(c) = topicSetAck(c.dev, c.path)
         /\ c.op = "watch" => Replies(c) = topicPropsWildcard(c.dev)
BY DEF Replies

(* The topics of a call are those of its operation, device and path.       *)
LEMMA SameTopics ==
  ASSUME NEW c, NEW e, c.op = e.op, c.dev = e.dev, c.path = e.path
  PROVE  Replies(c) = Replies(e) /\ TopicsOf(c) = TopicsOf(e) /\ (Valid(c) <=> Valid(e))
<1>1. Replies(c) = Replies(e)
  BY Zenon DEF Replies
<1> QED
  BY <1>1 DEF TopicsOf, Valid

(* A call subscribes to topics.                                            *)
LEMMA TopicsAreTopics ==
  ASSUME NEW c \in CallRecord
  PROVE  TopicsOf(c) \subseteq Topic
<1>1. c.dev \in Devices /\ c.path \in Paths /\ c.op \in {"read", "write", "watch"} /\ c.dev \in Topic
  BY DeviceIds DEF CallRecord, Topic
<1>2. topicProps(c.dev, c.path) \in Topic /\ topicSetAck(c.dev, c.path) \in Topic
  BY <1>1, PropsTopic, AckTopic
<1>3. topicPropsWildcard(c.dev) \in Topic /\ topicStatus(c.dev) \in Topic
  BY <1>1, WildcardTopic, StatusTopic
<1> QED
  BY <1>1, <1>2, <1>3, RepliesByOp DEF TopicsOf

(* A step of one call that leaves the lists alone: it does not enter or    *)
(* leave one, and a call that was listed once keeps its topic.             *)
LEMMA CallStep ==
  ASSUME Types, ListsOK, NEW p \in Procs, NEW r \in CallRecord,
         call' = [call EXCEPT ![p] = r], UNCHANGED waiters,
         dispatching' \in {dispatching, [dispatching EXCEPT !.i = @ + 1]},
         dispatching' # dispatching => dispatching \in DispatchRecord,
         CallOK(p, r),
         r.pc \in {"publish", "wait", "cancel"} <=> call[p].pc \in {"publish", "wait", "cancel"},
         call[p].pc \in {"publish", "wait", "cancel", "done"}
         => r.topic = call[p].topic /\ r.pc \in {"publish", "wait", "cancel", "done"}
  PROVE  ListsOK' /\ call' \in [Procs -> CallRecord]
<1>1. /\ call \in [Procs -> CallRecord] /\ call' \in [Procs -> CallRecord]
      /\ call'[p] = r /\ \A q \in Procs : q # p => call'[q] = call[q]
  BY DEF Types
<1>2. \A q \in Procs : Registered(q)' <=> Registered(q)
  BY <1>1 DEF Registered
<1>3. \A q \in Procs : Registered(q) => call'[q].topic = call[q].topic
  BY <1>1 DEF Registered
<1>4. \A q, t : Held(q, t) => Held(q, t)'
  BY <1>1 DEF Held, Procs
<1>5. ASSUME NEW q \in Procs PROVE CallOK(q, call'[q])
  BY <1>1 DEF ListsOK
<1>6. ASSUME NEW q \in Procs PROVE Listed(q)'
  BY <1>2, <1>3 DEF ListsOK, Listed
<1>7. ASSUME NEW t \in DOMAIN waiters PROVE SliceOK(t)'
  <2>1. SliceOK(t)
    BY DEF ListsOK
  <2>2. \A q : Registered(q) => q \in Procs
    BY DEF Registered, Procs
  <2> QED
    BY <1>2, <1>3, <1>4, <2>1, <2>2 DEF SliceOK
<1>8. DispatchOK'
  <2>1. CASE dispatching' = dispatching
    BY <1>4, <2>1 DEF ListsOK, DispatchOK
  <2>2. CASE dispatching' # dispatching
    <3>1. /\ dispatching # Idle /\ dispatching'.msg = dispatching.msg /\ dispatching'.live = dispatching.live
          /\ dispatching'.arr = dispatching.arr /\ dispatching'.len = dispatching.len
      BY <2>2 DEF DispatchRecord, Idle
    <3> QED
      BY <1>4, <3>1 DEF ListsOK, DispatchOK
  <2> QED
    BY <2>1, <2>2
<1> QED
  BY <1>1, <1>5, <1>6, <1>7, <1>8 DEF ListsOK
(* The filters at the broker after a step of one call.                     *)
LEMMA CallFilters ==
  ASSUME Types, FiltersOK, NEW p \in Procs, NEW r \in CallRecord,
         call' = [call EXCEPT ![p] = r],
         r.op = call[p].op, r.dev = call[p].dev, r.path = call[p].path,
         UNCHANGED losses, brokerSubs \subseteq brokerSubs',
         \A f \in brokerSubs' \ brokerSubs : Valid(call[p]) /\ f \in TopicsOf(call[p]),
         losses = 0 => /\ subscribed' \subseteq brokerSubs'
                       /\ r.pc = "mark" => r.topic \in brokerSubs'
                       /\ r.pc \in {"register", "publish", "wait", "cancel"}
                          => \E f \in brokerSubs' : Matches(f, r.topic)
  PROVE  FiltersOK'
<1>1. /\ call \in [Procs -> CallRecord] /\ call' \in [Procs -> CallRecord]
      /\ call'[p] = r /\ \A q \in Procs : q # p => call'[q] = call[q]
  BY DEF Types
<1>2. ASSUME NEW q \in Procs
      PROVE  (Valid(call'[q]) <=> Valid(call[q])) /\ TopicsOf(call'[q]) = TopicsOf(call[q])
  <2>1. call'[q].op = call[q].op /\ call'[q].dev = call[q].dev /\ call'[q].path = call[q].path
    BY <1>1
  <2> QED
    BY <2>1, SameTopics
<1>3. ASSUME NEW f \in brokerSubs'
      PROVE  \E q \in Procs : Valid(call'[q]) /\ f \in TopicsOf(call'[q])
  BY <1>2 DEF FiltersOK
<1>4. ASSUME losses' = 0
      PROVE  /\ subscribed' \subseteq brokerSubs'
             /\ \A q \in Procs : call'[q].pc = "mark" => call'[q].topic \in brokerSubs'
             /\ \A q \in Procs : call'[q].pc \in {"register", "publish", "wait", "cancel"}
                                 => \E f \in brokerSubs' : Matches(f, call'[q].topic)
  <2>1. losses = 0
    BY <1>4
  <2>2. ASSUME NEW q \in Procs, call'[q].pc = "mark" PROVE call'[q].topic \in brokerSubs'
    BY <1>1, <2>1, <2>2 DEF FiltersOK
  <2>3. ASSUME NEW q \in Procs, call'[q].pc \in {"register", "publish", "wait", "cancel"}
        PROVE  \E f \in brokerSubs' : Matches(f, call'[q].topic)
    BY <1>1, <2>1, <2>3 DEF FiltersOK
  <2> QED
    BY <2>1, <2>2, <2>3
<1> QED
  BY <1>3, <1>4 DEF FiltersOK

(* ReadProperty, WriteProperty and WatchDevice begin.                      *)
LEMMA StartIsOK ==
  ASSUME IInv, NEW p \in Procs, Start(p) PROVE IInv'
<1> DEFINE r == [call[p] EXCEPT !.pc = "check", !.topic = Replies(call[p])]
<1>1. call[p] \in CallRecord /\ CallOK(p, call[p])
  BY DEF IInv, Types, ListsOK
<1>2. Replies(call[p]) \in Topic
  BY <1>1, TopicsAreTopics DEF TopicsOf
<1>3. /\ r \in CallRecord /\ r.pc = "check" /\ r.topic = Replies(call[p]) /\ r.chan = call[p].chan
      /\ r.op = call[p].op /\ r.dev = call[p].dev /\ r.path = call[p].path
  BY <1>1, <1>2, Zenon DEF CallRecord, Pcs
<1>4. /\ call' = [call EXCEPT ![p] = r] /\ call[p].pc = "start" /\ Valid(call[p])
      /\ UNCHANGED <<subscribed, waiters, brokerSubs, inbox, published, losses, dispatching>>
  BY Zenon DEF Start, adapter, network
<1> HIDE DEF r
<1>5. Valid(r) /\ r.topic \in TopicsOf(r)
  <2>1. TopicsOf(r) = TopicsOf(call[p]) /\ Valid(r)
    BY <1>3, <1>4, SameTopics
  <2> QED
    BY <1>3, <2>1 DEF TopicsOf
<1>6. CallOK(p, r)
  <2>1. call[p].chan = <<>>
    BY <1>1, <1>4 DEF CallOK
  <2> QED
    BY <1>1, <1>3, <1>5, <2>1 DEF CallOK
<1>7. ListsOK' /\ call' \in [Procs -> CallRecord]
  BY <1>3, <1>4, <1>6, CallStep, Zenon DEF IInv
<1>8. FiltersOK'
  BY <1>3, <1>4, CallFilters, Zenon DEF IInv, FiltersOK
<1> QED
  BY <1>4, <1>7, <1>8 DEF IInv, Types
(* A step of one call that keeps its topic, and may subscribe to it.       *)
LEMMA PlainStep ==
  ASSUME IInv, NEW p \in Procs, NEW r \in CallRecord,
         call' = [call EXCEPT ![p] = r],
         r.op = call[p].op, r.dev = call[p].dev, r.path = call[p].path, r.topic = call[p].topic,
         r.chan \in {call[p].chan, <<>>},
         r.pc # "start", r.pc # "done" => call[p].pc \notin {"start", "done"},
         p \in Watchers => r.pc \notin {"register", "publish", "wait", "cancel"},
         r.pc \in {"publish", "wait", "cancel"} <=> call[p].pc \in {"publish", "wait", "cancel"},
         UNCHANGED <<waiters, dispatching, losses>>,
         brokerSubs' \in {brokerSubs, brokerSubs \cup {call[p].topic}},
         brokerSubs' # brokerSubs => call[p].pc \notin {"start", "done"},
         losses = 0 => /\ subscribed' \subseteq brokerSubs'
                       /\ r.pc = "mark" => r.topic \in brokerSubs'
                       /\ r.pc \in {"register", "publish", "wait", "cancel"}
                          => \E f \in brokerSubs' : Matches(f, r.topic)
  PROVE  ListsOK' /\ FiltersOK' /\ call' \in [Procs -> CallRecord] /\ IsFiniteSet(brokerSubs')
<1>1. call[p] \in CallRecord /\ CallOK(p, call[p]) /\ Types /\ ListsOK /\ FiltersOK
  BY DEF IInv, Types, ListsOK
<1>2. (Valid(r) <=> Valid(call[p])) /\ TopicsOf(r) = TopicsOf(call[p])
  BY SameTopics
<1>3. CallOK(p, r)
  BY <1>1, <1>2 DEF CallOK
<1>4. ListsOK' /\ call' \in [Procs -> CallRecord]
  BY <1>1, <1>3, CallStep, Zenon
<1>5. FiltersOK'
  <2>1. \A f \in brokerSubs' \ brokerSubs : Valid(call[p]) /\ f \in TopicsOf(call[p])
    BY <1>1 DEF CallOK
  <2> QED
    BY <1>1, <2>1, CallFilters, Zenon
<1>6. IsFiniteSet(brokerSubs')
  BY <1>1, FS_AddElement DEF Types
<1> QED
  BY <1>4, <1>5, <1>6

(* A step of a call that takes it to another pc, empties its channel or    *)
(* not, and touches nothing else.                                          *)
LEMMA QuietStep ==
  ASSUME IInv, NEW p \in Procs, NEW pc \in Pcs \ {"start"}, NEW chan \in {call[p].chan, <<>>},
         call' = [call EXCEPT ![p] = [call[p] EXCEPT !.pc = pc, !.chan = chan]],
         pc # "done" => call[p].pc \notin {"start", "done"},
         pc \in {"publish", "wait", "cancel"} <=> call[p].pc \in {"publish", "wait", "cancel"},
         pc # "mark", pc # "register",
         UNCHANGED <<adapter, dispatching, losses, published, brokerSubs>>, inbox' \in Seq(Msg)
  PROVE  IInv'
<1> DEFINE r == [call[p] EXCEPT !.pc = pc, !.chan = chan]
<1>1. call[p] \in CallRecord /\ CallOK(p, call[p]) /\ FiltersOK
  BY DEF IInv, Types, ListsOK
<1>2. call' = [call EXCEPT ![p] = r] /\ r = [call[p] EXCEPT !.pc = pc, !.chan = chan]
  OBVIOUS
<1> HIDE DEF r
<1>3. /\ r \in CallRecord /\ r.pc = pc /\ r.chan \in {call[p].chan, <<>>}
      /\ r.op = call[p].op /\ r.dev = call[p].dev /\ r.path = call[p].path /\ r.topic = call[p].topic
  <2>1. <<>> \in Seq(Msg) /\ call[p].chan \in Seq(Msg)
    BY <1>1 DEF CallRecord
  <2>2. chan \in Seq(Msg) /\ pc \in Pcs
    BY <2>1, Zenon
  <2>3. r \in CallRecord
    BY <1>1, <1>2, <2>2, Zenon DEF CallRecord
  <2>4. /\ r.pc = pc /\ r.chan = chan
        /\ r.op = call[p].op /\ r.dev = call[p].dev /\ r.path = call[p].path /\ r.topic = call[p].topic
    BY <1>1, <1>2 DEF CallRecord
  <2> QED
    BY <2>3, <2>4
<1>4. p \in Watchers => r.pc \notin {"register", "publish", "wait", "cancel"}
  BY <1>1, <1>3 DEF CallOK
<1>5. losses = 0 => /\ subscribed' \subseteq brokerSubs'
                    /\ r.pc = "mark" => r.topic \in brokerSubs'
                    /\ r.pc \in {"register", "publish", "wait", "cancel"}
                       => \E f \in brokerSubs' : Matches(f, r.topic)
  BY <1>1, <1>3 DEF FiltersOK, adapter
<1>6. /\ r.pc # "start" /\ r.pc # "done" => call[p].pc \notin {"start", "done"}
      /\ r.pc \in {"publish", "wait", "cancel"} <=> call[p].pc \in {"publish", "wait", "cancel"}
      /\ UNCHANGED <<waiters, dispatching, losses>>
      /\ brokerSubs' = brokerSubs
  BY <1>3 DEF adapter
<1>7. ListsOK' /\ FiltersOK' /\ call' \in [Procs -> CallRecord] /\ IsFiniteSet(brokerSubs')
  BY <1>2, <1>3, <1>4, <1>5, <1>6, PlainStep, Zenon
<1> QED
  BY <1>7 DEF IInv, Types, adapter

(* A call that validTopicSegment refuses changes nothing else.             *)
LEMMA RefuseIsOK ==
  ASSUME IInv, NEW p \in Procs, Refuse(p) PROVE IInv'
<1>1. call[p] \in CallRecord /\ call[p].pc = "start"
  BY DEF IInv, Types, Refuse
<1>2. call' = [call EXCEPT ![p] = [call[p] EXCEPT !.pc = "done", !.chan = call[p].chan]]
  BY <1>1, Zenon DEF Refuse, CallRecord
<1> QED
  BY <1>1, <1>2, QuietStep, Zenon DEF Refuse, Pcs, network, IInv, Types

(* A call that fails to publish or times out goes on to its cancel.        *)
LEMMA WaitEndsIsOK ==
  ASSUME IInv, NEW p \in Procs, PublishFails(p) \/ ContextDone(p) PROVE IInv'
<1>1. call[p] \in CallRecord /\ call[p].pc \in {"publish", "wait"}
  BY DEF IInv, Types, PublishFails, ContextDone
<1>2. call' = [call EXCEPT ![p] = [call[p] EXCEPT !.pc = "cancel", !.chan = call[p].chan]]
  BY <1>1, Zenon DEF PublishFails, ContextDone, CallRecord
<1> QED
  BY <1>1, <1>2, QuietStep, Zenon DEF PublishFails, ContextDone, Pcs, network, IInv, Types

(* A call empties its own channel.                                         *)
LEMMA TakeReplyIsOK ==
  ASSUME IInv, NEW p \in Procs, TakeReply(p) PROVE IInv'
<1>1. call[p] \in CallRecord /\ call[p].pc = "wait"
  BY DEF IInv, Types, TakeReply
<1>2. call' = [call EXCEPT ![p] = [call[p] EXCEPT !.pc = "cancel", !.chan = <<>>]]
  BY <1>1, Zenon DEF TakeReply
<1> QED
  BY <1>1, <1>2, QuietStep, Zenon DEF TakeReply, Pcs, network, IInv, Types
(* SUBSCRIBE reaches the broker, or may have.                              *)
LEMMA SubscribeIsOK ==
  ASSUME IInv, NEW p \in Procs, Subscribe(p) \/ SubscribeFails(p) PROVE IInv'
<1>1. call[p] \in CallRecord /\ call[p].pc = "subscribe" /\ FiltersOK
  BY DEF IInv, Types, Subscribe, SubscribeFails
<1>2. PICK pc \in {"mark", "done"} :
         /\ call' = [call EXCEPT ![p].pc = pc]
         /\ brokerSubs' \in {brokerSubs, brokerSubs \cup {call[p].topic}}
         /\ pc = "mark" => call[p].topic \in brokerSubs'
  BY DEF Subscribe, SubscribeFails
<1> DEFINE r == [call[p] EXCEPT !.pc = pc]
<1>3. UNCHANGED <<subscribed, waiters, inbox, published, losses, dispatching>>
  BY DEF Subscribe, SubscribeFails, adapter
<1>4. /\ call' = [call EXCEPT ![p] = r] /\ r \in CallRecord /\ r.pc = pc
      /\ r.op = call[p].op /\ r.dev = call[p].dev /\ r.path = call[p].path /\ r.topic = call[p].topic
      /\ r.chan = call[p].chan
  BY <1>1, <1>2 DEF CallRecord, Pcs
<1> HIDE DEF r
<1>5. losses = 0 => /\ subscribed' \subseteq brokerSubs'
                    /\ r.pc = "mark" => r.topic \in brokerSubs'
                    /\ r.pc \in {"register", "publish", "wait", "cancel"}
                       => \E f \in brokerSubs' : Matches(f, r.topic)
  BY <1>1, <1>2, <1>3, <1>4 DEF FiltersOK
<1>6. ListsOK' /\ FiltersOK' /\ call' \in [Procs -> CallRecord] /\ IsFiniteSet(brokerSubs')
  BY <1>1, <1>2, <1>3, <1>4, <1>5, PlainStep, Zenon
<1> QED
  BY <1>3, <1>6 DEF IInv, Types

(* subscribeOnce returns, with the topic covered if the connection held.   *)
LEMMA SubscribedIsOK ==
  ASSUME IInv, NEW p \in Procs, call[p].pc \in {"check", "mark"},
         call' = [call EXCEPT ![p] = Subscribed(call[p])],
         UNCHANGED <<waiters, network, dispatching>>,
         losses = 0 => /\ subscribed' \subseteq brokerSubs
                       /\ \E f \in brokerSubs : Matches(f, call[p].topic)
  PROVE  IInv'
<1>1. call[p] \in CallRecord /\ CallOK(p, call[p]) /\ Types /\ ListsOK /\ FiltersOK
  BY DEF IInv, Types, ListsOK
<1>2. UNCHANGED <<brokerSubs, inbox, published, losses>>
  BY DEF network
<1>3. SUFFICES ListsOK' /\ FiltersOK' /\ call' \in [Procs -> CallRecord]
  BY <1>1, <1>2 DEF IInv, Types
<1>4. CASE call[p].op = "watch" /\ call[p].topic = Replies(call[p])
  <2> DEFINE r == [call[p] EXCEPT !.pc = "check", !.topic = topicStatus(call[p].dev)]
  <2>1. topicStatus(call[p].dev) \in Topic
    BY <1>1, TopicsAreTopics DEF TopicsOf
  <2>2. /\ r \in CallRecord /\ r.pc = "check" /\ r.topic = topicStatus(call[p].dev)
        /\ r.op = call[p].op /\ r.dev = call[p].dev /\ r.path = call[p].path /\ r.chan = call[p].chan
    BY <1>1, <2>1, Zenon DEF CallRecord, Pcs
  <2>3. call' = [call EXCEPT ![p] = r]
    BY <1>4 DEF Subscribed
  <2> HIDE DEF r
  <2>4. Valid(r) /\ r.topic \in TopicsOf(r)
    <3>1. (Valid(r) <=> Valid(call[p])) /\ Valid(call[p])
      BY <1>1, <2>2, SameTopics DEF CallOK
    <3> QED
      BY <2>2, <3>1 DEF TopicsOf
  <2>5. CallOK(p, r)
    <3>1. call[p].chan = <<>> /\ p \in Watchers
      BY <1>1, <1>4 DEF CallOK
    <3> QED
      BY <1>1, <2>2, <2>4, <3>1 DEF CallOK
  <2>6. ListsOK' /\ call' \in [Procs -> CallRecord]
    BY <1>1, <2>2, <2>3, <2>5, CallStep, Zenon
  <2>7. FiltersOK'
    BY <1>1, <1>2, <2>2, <2>3, CallFilters, Zenon
  <2> QED
    BY <2>6, <2>7
<1>5. CASE ~(call[p].op = "watch" /\ call[p].topic = Replies(call[p]))
  <2>1. PICK pc \in {"register", "done"} :
           Subscribed(call[p]) = [call[p] EXCEPT !.pc = pc] /\ (call[p].op = "watch" => pc = "done")
    BY <1>5 DEF Subscribed
  <2> DEFINE r == [call[p] EXCEPT !.pc = pc]
  <2>2. /\ call' = [call EXCEPT ![p] = r] /\ r \in CallRecord /\ r.pc = pc
        /\ r.op = call[p].op /\ r.dev = call[p].dev /\ r.path = call[p].path /\ r.topic = call[p].topic
        /\ r.chan = call[p].chan
    BY <1>1, <2>1 DEF CallRecord, Pcs
  <2> HIDE DEF r
  <2>3. p \in Watchers => r.pc \notin {"register", "publish", "wait", "cancel"}
    BY <1>1, <2>1, <2>2 DEF CallOK
  <2> QED
    BY <1>1, <1>2, <2>1, <2>2, <2>3, PlainStep, Zenon
<1> QED
  BY <1>4, <1>5

(* subscribeOnce relies on a.subscribed or a wildcard in it.               *)
LEMMA CheckIsOK ==
  ASSUME IInv, NEW p \in Procs, Check(p) PROVE IInv'
<1> DEFINE t == call[p].topic
<1>1. call[p] \in CallRecord /\ CallOK(p, call[p]) /\ FiltersOK /\ call[p].pc = "check"
  BY DEF IInv, Types, ListsOK, Check
<1>2. t \in Topic
  BY <1>1 DEF CallRecord
<1>3. CASE t \in subscribed \/ coveredByWildcardLocked(t)
  <2>1. call' = [call EXCEPT ![p] = Subscribed(call[p])]
    BY <1>3, Zenon DEF Check
  <2>2. losses = 0 => subscribed \subseteq brokerSubs
    BY <1>1 DEF FiltersOK
  <2>3. \E f \in subscribed : Matches(f, t)
    BY <1>2, <1>3, MatchesItself, WildcardCovers DEF coveredByWildcardLocked
  <2> QED
    BY <1>1, <2>1, <2>2, <2>3, SubscribedIsOK, Zenon DEF Check, adapter
<1>4. CASE ~(t \in subscribed \/ coveredByWildcardLocked(t))
  <2>1. call' = [call EXCEPT ![p] = [call[p] EXCEPT !.pc = "subscribe", !.chan = call[p].chan]]
    BY <1>1, <1>4, Zenon DEF Check, CallRecord
  <2> QED
    BY <1>1, <2>1, QuietStep, Zenon DEF Check, Pcs, network, IInv, Types
<1> QED
  BY <1>3, <1>4

(* subscribeOnce marks a topic that the broker has.                        *)
LEMMA MarkIsOK ==
  ASSUME IInv, NEW p \in Procs, Mark(p) PROVE IInv'
<1>1. call[p] \in CallRecord /\ FiltersOK /\ call[p].pc = "mark"
  BY DEF IInv, Types, Mark
<1>2. call[p].topic \in Topic
  BY <1>1 DEF CallRecord
<1>3. losses = 0 => subscribed' \subseteq brokerSubs /\ \E f \in brokerSubs : Matches(f, call[p].topic)
  BY <1>1, <1>2, MatchesItself DEF FiltersOK, Mark
<1> QED
  BY <1>1, <1>3, SubscribedIsOK, Zenon DEF Mark
-----------------------------------------------------------------------------
(* What append does to a list of waiters: the old places stay as they are, *)
(* p comes next, and what lies behind is unused or was there before.       *)
LEMMA AppendedSlice ==
  ASSUME NEW t \in DOMAIN waiters, waiters[t] \in Slice,
         waiters[t].len \in 1 .. Len(waiters[t].arr), NEW p \in Procs
  PROVE  LET old == waiters[t]
             new == Appended(t, p)
         IN  /\ new \in Slice /\ new.len = old.len + 1
             /\ Len(old.arr) <= Len(new.arr) /\ new.len <= Len(new.arr)
             /\ new.arr[new.len] = p
             /\ \A i \in 1 .. Len(old.arr) : i # new.len => new.arr[i] = old.arr[i]
             /\ \A i \in 1 .. Len(new.arr) : \/ i <= Len(old.arr) \/ i = new.len
                                             \/ new.arr[i] = "nil"
             /\ old.len < Len(old.arr) => Len(new.arr) = Len(old.arr)
<1> DEFINE old == waiters[t]
           new == Appended(t, p)
           P   == Procs \cup {"nil"}
<1>1. old.arr \in Seq(P) /\ old.len \in Nat /\ Len(old.arr) \in Nat /\ old.len \in 1 .. Len(old.arr)
  BY DEF Slice
<1>2. CASE old.len < Len(old.arr)
  <2>1. new = [arr |-> [old.arr EXCEPT ![old.len + 1] = p], len |-> old.len + 1]
    BY <1>2 DEF Appended
  <2> DEFINE a == [old.arr EXCEPT ![old.len + 1] = p]
  <2>2. a \in Seq(P) /\ Len(a) = Len(old.arr) /\ a[old.len + 1] = p
        /\ \A i \in 1 .. Len(old.arr) : i # old.len + 1 => a[i] = old.arr[i]
    BY <1>1, <1>2
  <2> HIDE DEF a
  <2>3. new \in Slice /\ new.arr = a /\ new.len = old.len + 1
    BY <1>1, <2>1, <2>2 DEF Slice, a
  <2> HIDE DEF old, new
  <2>4. /\ new \in Slice /\ new.len = old.len + 1
        /\ Len(old.arr) <= Len(new.arr) /\ new.len <= Len(new.arr)
        /\ new.arr[new.len] = p
        /\ \A i \in 1 .. Len(old.arr) : i # new.len => new.arr[i] = old.arr[i]
        /\ \A i \in 1 .. Len(new.arr) : i <= Len(old.arr)
        /\ Len(new.arr) = Len(old.arr)
    BY <1>1, <1>2, <2>2, <2>3
  <2> QED
    BY <2>4 DEF old, new
<1>3. CASE ~(old.len < Len(old.arr))
  <2> DEFINE b == [i \in 1 .. old.len - 1 |-> "nil"]
             a == old.arr \o <<p>> \o b
  <2>1. new = [arr |-> a, len |-> old.len + 1]
    BY <1>3 DEF Appended
  <2>2. b \in Seq(P) /\ Len(b) = old.len - 1 /\ \A i \in 1 .. old.len - 1 : b[i] = "nil"
    BY <1>1
  <2> HIDE DEF b
  <2>3. <<p>> \in Seq(P) /\ Len(<<p>>) = 1 /\ <<p>>[1] = p
    OBVIOUS
  <2>4. a \in Seq(P) /\ Len(a) = 2 * old.len /\ a[old.len + 1] = p
        /\ (\A i \in 1 .. old.len : a[i] = old.arr[i])
        /\ (\A i \in old.len + 2 .. 2 * old.len : a[i] = "nil")
    <3> DEFINE o == old.arr
               k == old.len
    <3>1. o \in Seq(P) /\ k \in Nat /\ Len(o) = k
      BY <1>1, <1>3
    <3> HIDE DEF o, k
    <3>2. (o \o <<p>>) \in Seq(P) /\ Len(o \o <<p>>) = k + 1 /\ (o \o <<p>>)[k + 1] = p
          /\ \A i \in 1 .. k : (o \o <<p>>)[i] = o[i]
      BY <2>3, <3>1
    <3> DEFINE c == o \o <<p>>
    <3>3. c \in Seq(P) /\ Len(c) = k + 1 /\ c[k + 1] = p /\ \A i \in 1 .. k : c[i] = o[i]
      BY <3>2, Zenon
    <3> HIDE DEF c
    <3>4. b \in Seq(P) /\ Len(b) = k - 1 /\ \A i \in 1 .. k - 1 : b[i] = "nil"
      BY <2>2 DEF k
    <3>5. /\ (c \o b) \in Seq(P) /\ Len(c \o b) = k + 1 + (k - 1)
          /\ \A i \in 1 .. k + 1 : (c \o b)[i] = c[i]
          /\ \A i \in k + 2 .. 2 * k : (c \o b)[i] = b[i - (k + 1)]
      BY <3>1, <3>3, <3>4
    <3>6. a = c \o b
      BY DEF c, o
    <3> HIDE DEF a
    <3>7. /\ a \in Seq(P) /\ Len(a) = 2 * k /\ a[k + 1] = p
          /\ \A i \in 1 .. k : a[i] = o[i]
      <4>1. /\ a \in Seq(P) /\ Len(a) = k + 1 + (k - 1)
            /\ \A i \in 1 .. k + 1 : a[i] = c[i]
        BY <3>5, <3>6, Zenon
      <4>2. 1 .. k \subseteq 1 .. k + 1 /\ k + 1 \in 1 .. k + 1 /\ k + 1 + (k - 1) = 2 * k
        BY <3>1
      <4> QED
        BY <3>3, <4>1, <4>2
    <3>8. ASSUME NEW i \in k + 2 .. 2 * k PROVE a[i] = "nil"
      <4>1. i - (k + 1) \in 1 .. k - 1
        BY <3>1
      <4> QED
        BY <3>4, <3>5, <3>6, <4>1, Zenon
    <3> QED
      BY <3>7, <3>8 DEF k, o
  <2> HIDE DEF a
  <2>5. new \in Slice /\ new.arr = a /\ new.len = old.len + 1
    BY <1>1, <2>1, <2>4 DEF Slice
  <2> HIDE DEF old, new
  <2>6. /\ new \in Slice /\ new.len = old.len + 1
        /\ Len(old.arr) <= Len(new.arr) /\ new.len <= Len(new.arr)
        /\ new.arr[new.len] = p
        /\ \A i \in 1 .. Len(old.arr) : i # new.len => new.arr[i] = old.arr[i]
        /\ \A i \in 1 .. Len(new.arr) : \/ i <= Len(old.arr) \/ i = new.len
                                        \/ new.arr[i] = "nil"
    BY <1>1, <1>3, <2>4, <2>5
  <2> QED
    BY <1>3, <2>6 DEF old, new
<1> QED
  BY <1>2, <1>3
(* What cancel does to a list that holds p: from p's place on, the list    *)
(* moves one place down; the last place keeps what it held.                *)
LEMMA RemovedSlice ==
  ASSUME NEW t \in DOMAIN waiters, waiters[t] \in Slice,
         waiters[t].len \in 1 .. Len(waiters[t].arr),
         NEW p, \E i \in 1 .. waiters[t].len : waiters[t].arr[i] = p
  PROVE  LET old == waiters[t]
             new == Removed(t, p)
         IN  /\ new \in Slice /\ new.len = old.len - 1 /\ Len(new.arr) = Len(old.arr)
             /\ \E at \in 1 .. old.len :
                   /\ old.arr[at] = p
                   /\ \A i \in 1 .. Len(old.arr) :
                         new.arr[i] = IF i \in at .. old.len - 1 THEN old.arr[i + 1] ELSE old.arr[i]
<1> DEFINE old == waiters[t]
           new == Removed(t, p)
           P   == Procs \cup {"nil"}
           at  == CHOOSE i \in 1 .. old.len : old.arr[i] = p
           a   == [i \in 1 .. Len(old.arr) |-> IF i \in at .. old.len - 1 THEN old.arr[i + 1] ELSE old.arr[i]]
<1>1. old.arr \in Seq(P) /\ old.len \in Nat /\ Len(old.arr) \in Nat /\ old.len \in 1 .. Len(old.arr)
  BY DEF Slice
<1>2. at \in 1 .. old.len /\ old.arr[at] = p
  OBVIOUS
<1>3. new = [arr |-> a, len |-> old.len - 1]
  BY DEF Removed
<1> HIDE DEF old, new, at
<1>4. \A i \in 1 .. Len(old.arr) :
         (IF i \in at .. old.len - 1 THEN old.arr[i + 1] ELSE old.arr[i]) \in P
  BY <1>1, <1>2
<1>5. /\ a \in Seq(P) /\ Len(a) = Len(old.arr)
      /\ \A i \in 1 .. Len(old.arr) :
            a[i] = IF i \in at .. old.len - 1 THEN old.arr[i + 1] ELSE old.arr[i]
  BY <1>1, <1>4
<1> HIDE DEF a
<1>6. new \in Slice /\ new.arr = a /\ new.len = old.len - 1
  BY <1>1, <1>3, <1>5 DEF Slice
<1>7. /\ new \in Slice /\ new.len = old.len - 1 /\ Len(new.arr) = Len(old.arr)
      /\ \E k \in 1 .. old.len :
            /\ old.arr[k] = p
            /\ \A i \in 1 .. Len(old.arr) :
                  new.arr[i] = IF i \in k .. old.len - 1 THEN old.arr[i + 1] ELSE old.arr[i]
  BY <1>2, <1>5, <1>6
<1> QED
  BY <1>7 DEF old, new

(* The step of a call that enters or leaves a list, as far as the others   *)
(* and the broker are concerned.                                           *)
LEMMA ListStep ==
  ASSUME IInv, NEW p \in Procs, NEW pc \in {"publish", "done"},
         call[p].pc = IF pc = "publish" THEN "register" ELSE "cancel",
         call' = [call EXCEPT ![p].pc = pc], UNCHANGED <<subscribed, network>>
  PROVE  /\ call' \in [Procs -> CallRecord] /\ FiltersOK'
         /\ p \in Requests /\ call'[p].pc = pc /\ call'[p].topic = call[p].topic
         /\ \A q \in Procs : q # p => call'[q] = call[q]
         /\ \A q \in Procs : CallOK(q, call'[q])
         /\ \A q, t : Held(q, t) => Held(q, t)'
<1> DEFINE r == [call[p] EXCEPT !.pc = pc]
<1>1. call \in [Procs -> CallRecord] /\ CallOK(p, call[p]) /\ Types /\ FiltersOK
  BY DEF IInv, Types, ListsOK
<1>2. /\ call' = [call EXCEPT ![p] = r] /\ r \in CallRecord /\ r.pc = pc
      /\ r.op = call[p].op /\ r.dev = call[p].dev /\ r.path = call[p].path /\ r.topic = call[p].topic
      /\ r.chan = call[p].chan
  BY <1>1 DEF CallRecord, Pcs
<1> HIDE DEF r
<1>3. /\ call' \in [Procs -> CallRecord]
      /\ call'[p] = r /\ \A q \in Procs : q # p => call'[q] = call[q]
  BY <1>1, <1>2
<1>4. p \in Requests
  BY <1>1 DEF CallOK, Procs
<1>5. FiltersOK'
  <2>1. UNCHANGED <<losses, brokerSubs, subscribed>>
    BY DEF network
  <2>2. losses = 0 => /\ subscribed' \subseteq brokerSubs'
                      /\ r.pc = "mark" => r.topic \in brokerSubs'
                      /\ r.pc \in {"register", "publish", "wait", "cancel"}
                         => \E f \in brokerSubs' : Matches(f, r.topic)
    BY <1>1, <1>2, <2>1 DEF FiltersOK
  <2> QED
    BY <1>1, <1>2, <2>1, <2>2, CallFilters, Zenon
<1>6. CallOK(p, r)
  <2>1. (Valid(r) <=> Valid(call[p])) /\ TopicsOf(r) = TopicsOf(call[p])
    BY <1>2, SameTopics
  <2> QED
    BY <1>1, <1>2, <1>4, <2>1, MqttAssumption DEF CallOK
<1>7. \A q \in Procs : CallOK(q, call'[q])
  BY <1>3, <1>6 DEF IInv, ListsOK
<1>8. \A q, t : Held(q, t) => Held(q, t)'
  BY <1>2, <1>3 DEF Held, Procs
<1> QED
  BY <1>2, <1>3, <1>4, <1>5, <1>7, <1>8
(* registerWaiter, also while dispatch walks the list.                     *)
LEMMA registerWaiterIsOK ==
  ASSUME IInv, NEW p \in Procs, registerWaiter(p) PROVE IInv'
<1>t. PICK t : t = call[p].topic
  OBVIOUS
<1>n. PICK new : new = Appended(t, p)
  OBVIOUS
<1>1. call[p].pc = "register" /\ call' = [call EXCEPT ![p].pc = "publish"]
      /\ UNCHANGED <<subscribed, network>>
  BY DEF registerWaiter
<1>2. /\ call' \in [Procs -> CallRecord] /\ FiltersOK'
      /\ p \in Requests /\ call'[p].pc = "publish" /\ call'[p].topic = t
      /\ \A q \in Procs : q # p => call'[q] = call[q]
      /\ \A q \in Procs : CallOK(q, call'[q])
      /\ \A q, x : Held(q, x) => Held(q, x)'
  BY <1>t, <1>1, ListStep, Zenon
<1>3. /\ DOMAIN waiters' = DOMAIN waiters \cup {t} /\ waiters'[t] = new
      /\ \A x \in DOMAIN waiters : x # t => waiters'[x] = waiters[x]
      /\ dispatching' = IF t \in DOMAIN waiters /\ waiters[t].len = Len(waiters[t].arr)
                        THEN Detached(t, waiters[t].arr) ELSE dispatching
  BY <1>t, <1>n DEF registerWaiter
<1>4. /\ Types /\ t \in Topic /\ DispatchOK
      /\ \A x \in DOMAIN waiters : waiters[x] \in Slice /\ SliceOK(x)
      /\ \A q \in Procs : Listed(q)
  BY <1>t DEF IInv, Types, ListsOK, CallRecord
<1>5. /\ new \in Slice /\ new.len \in 1 .. Len(new.arr) /\ new.arr[new.len] = p
      /\ \A i \in 1 .. new.len - 1 : /\ t \in DOMAIN waiters /\ i \in 1 .. waiters[t].len
                                     /\ new.arr[i] = waiters[t].arr[i]
      /\ \A i \in 1 .. Len(new.arr) : new.arr[i] = "nil" \/ new.arr[i] = p \/ Held(new.arr[i], t)
      /\ t \in DOMAIN waiters => new.len = waiters[t].len + 1
  <2>1. CASE t \in DOMAIN waiters
    <3> DEFINE old == waiters[t]
    <3>1. old.len \in 1 .. Len(old.arr) /\ Len(old.arr) \in Nat
          /\ \A i \in 1 .. Len(old.arr) : old.arr[i] = "nil" \/ Held(old.arr[i], t)
      BY <1>4, <2>1 DEF SliceOK, Slice
    <3>2. /\ new \in Slice /\ new.len = old.len + 1
          /\ Len(old.arr) <= Len(new.arr) /\ new.len <= Len(new.arr)
          /\ new.arr[new.len] = p
          /\ \A i \in 1 .. Len(old.arr) : i # new.len => new.arr[i] = old.arr[i]
          /\ \A i \in 1 .. Len(new.arr) : \/ i <= Len(old.arr) \/ i = new.len
                                          \/ new.arr[i] = "nil"
      BY <1>n, <1>4, <2>1, <3>1, AppendedSlice
    <3> HIDE DEF old
    <3>3. Len(new.arr) \in Nat
      BY <3>2 DEF Slice
    <3>4. ASSUME NEW i \in 1 .. new.len - 1 PROVE i \in 1 .. old.len /\ new.arr[i] = old.arr[i]
      BY <3>1, <3>2, <3>3
    <3>5. ASSUME NEW i \in 1 .. Len(new.arr)
          PROVE  new.arr[i] = "nil" \/ new.arr[i] = p \/ Held(new.arr[i], t)
      <4>1. CASE i <= Len(old.arr) /\ i # new.len
        BY <3>1, <3>2, <3>3, <4>1
      <4>2. CASE i = new.len
        BY <3>2, <4>2
      <4> QED
        BY <3>2, <4>1, <4>2
    <3>6. new.len \in 1 .. Len(new.arr)
      BY <3>1, <3>2, <3>3
    <3> QED
      BY <2>1, <3>2, <3>4, <3>5, <3>6 DEF old
  <2>2. CASE t \notin DOMAIN waiters
    <3>1. new = [arr |-> <<p>>, len |-> 1]
      BY <1>n, <2>2 DEF Appended
    <3>2. <<p>> \in Seq(Procs \cup {"nil"}) /\ Len(<<p>>) = 1 /\ <<p>>[1] = p
      OBVIOUS
    <3>3. new \in Slice /\ new.arr = <<p>> /\ new.len = 1
      BY <3>1, <3>2 DEF Slice
    <3> QED
      BY <2>2, <3>2, <3>3
  <2> QED
    BY <2>1, <2>2
<1>6. /\ Held(p, t)' /\ Registered(p)' /\ ~Registered(p)
      /\ \A q : q # p => (Registered(q)' <=> Registered(q))
      /\ \A q : Registered(q) => q \in Procs /\ call'[q].topic = call[q].topic
  BY <1>1, <1>2 DEF Held, Registered, Procs
<1>7. SliceOK(t)'
  <2>1. Len(new.arr) \in Nat /\ new.len \in Nat
    BY <1>5 DEF Slice
  <2>2. ASSUME NEW i \in 1 .. new.len - 1
        PROVE  Registered(new.arr[i]) /\ call[new.arr[i]].topic = t
    <3>1. t \in DOMAIN waiters /\ i \in 1 .. waiters[t].len /\ new.arr[i] = waiters[t].arr[i]
      BY <1>5
    <3> QED
      BY <1>4, <3>1 DEF SliceOK
  <2>3. \A i \in 1 .. new.len : Registered(new.arr[i])' /\ call'[new.arr[i]].topic = t
    BY <1>2, <1>5, <1>6, <2>1, <2>2
  <2>4. ASSUME NEW i \in 1 .. new.len, NEW j \in 1 .. new.len, new.arr[i] = new.arr[j] PROVE i = j
    <3>1. CASE i # new.len /\ j # new.len
      <4>1. i \in 1 .. new.len - 1 /\ j \in 1 .. new.len - 1
        BY <2>1, <3>1
      <4>2. /\ t \in DOMAIN waiters /\ i \in 1 .. waiters[t].len /\ j \in 1 .. waiters[t].len
            /\ waiters[t].arr[i] = waiters[t].arr[j]
        BY <1>5, <2>4, <4>1
      <4> QED
        BY <1>4, <4>2 DEF SliceOK
    <3>2. CASE i = new.len \/ j = new.len
      BY <1>5, <1>6, <2>1, <2>2, <2>4, <3>2
    <3> QED
      BY <3>1, <3>2
  <2>5. \A i \in 1 .. Len(new.arr) : new.arr[i] = "nil" \/ Held(new.arr[i], t)'
    BY <1>2, <1>5, <1>6, Zenon
  <2> QED
    BY <1>3, <1>5, <2>3, <2>4, <2>5 DEF SliceOK
<1>8. ASSUME NEW x \in DOMAIN waiters, x # t PROVE SliceOK(x)'
  <2>1. SliceOK(x) /\ waiters'[x] = waiters[x]
    BY <1>3, <1>4, <1>8
  <2> QED
    BY <1>2, <1>6, <2>1 DEF SliceOK
<1>9. ASSUME NEW q \in Procs PROVE Listed(q)'
  <2>1. CASE q = p
    BY <1>2, <1>3, <1>5, <2>1 DEF Listed
  <2>2. CASE q # p /\ Registered(q)
    <3>1. PICK i \in 1 .. waiters[call[q].topic].len : waiters[call[q].topic].arr[i] = q
      BY <1>4, <2>2 DEF Listed
    <3>2. call[q].topic \in DOMAIN waiters /\ call'[q].topic = call[q].topic
      BY <1>4, <1>6, <2>2 DEF Listed
    <3>3. CASE call[q].topic = t
      <4>1. waiters[t].len \in Nat /\ new.len = waiters[t].len + 1
        BY <1>4, <1>5, <3>2, <3>3 DEF Slice
      <4>2. i \in 1 .. new.len - 1 /\ i \in 1 .. new.len
        BY <3>1, <3>3, <4>1
      <4>3. new.arr[i] = q
        BY <1>5, <3>1, <3>3, <4>2
      <4> QED
        BY <1>3, <3>2, <3>3, <4>2, <4>3 DEF Listed
    <3>4. CASE call[q].topic # t
      BY <1>3, <3>1, <3>2, <3>4 DEF Listed
    <3> QED
      BY <3>3, <3>4
  <2>3. CASE q # p /\ ~Registered(q)
    BY <1>6, <2>3 DEF Listed
  <2> QED
    BY <2>1, <2>2, <2>3, Zenon
<1>10. DispatchOK' /\ dispatching' \in DispatchRecord \cup {Idle}
  <2>1. CASE dispatching = Idle
    BY <1>3, <2>1 DEF DispatchOK, Detached
  <2>2. CASE dispatching # Idle
    <3>d. PICK d : d = dispatching
      OBVIOUS
    <3>1. /\ d \in DispatchRecord /\ d.live \in BOOLEAN /\ d.len \in Nat
          /\ d.live => d.msg.topic \in DOMAIN waiters
          /\ d.len <= Len(IF d.live THEN waiters[d.msg.topic].arr ELSE d.arr)
          /\ \A i \in 1 .. d.len : Held((IF d.live THEN waiters[d.msg.topic].arr ELSE d.arr)[i], d.msg.topic)
      BY <1>4, <2>2, <3>d DEF Types, DispatchOK, DispatchRecord
    <3>2. CASE d.live /\ d.msg.topic = t
      <4> DEFINE old == waiters[t]
      <4>1. t \in DOMAIN waiters /\ old \in Slice /\ SliceOK(t)
        BY <1>4, <3>1, <3>2
      <4>2. CASE old.len = Len(old.arr)
        <5>1. dispatching' = [d EXCEPT !.live = FALSE, !.arr = old.arr]
          BY <1>3, <2>2, <3>d, <3>2, <4>1, <4>2 DEF Detached
        <5>2. dispatching' \in DispatchRecord /\ dispatching'.live = FALSE /\ dispatching'.arr = old.arr
              /\ dispatching'.len = d.len /\ dispatching'.msg = d.msg
          BY <3>1, <4>1, <5>1, Zenon DEF DispatchRecord, Slice
        <5> QED
          BY <1>2, <3>1, <3>2, <5>2 DEF DispatchOK
      <4>3. CASE old.len # Len(old.arr)
        <5>1. dispatching' = d
          BY <1>3, <3>d, <4>3
        <5>2. /\ Len(old.arr) = Len(new.arr)
              /\ \A i \in 1 .. Len(old.arr) : i # new.len => new.arr[i] = old.arr[i]
          <6>1. old.len \in 1 .. Len(old.arr) /\ old.len < Len(old.arr)
            BY <4>1, <4>3 DEF SliceOK, Slice
          <6> QED
            BY <1>n, <4>1, <6>1, AppendedSlice
        <5>3. ASSUME NEW i \in 1 .. d.len PROVE Held(new.arr[i], t)'
          <6>1. Held(old.arr[i], t) /\ i \in 1 .. Len(old.arr)
            BY <3>1, <3>2, <4>1 DEF Slice
          <6>2. CASE i = new.len
            BY <1>5, <1>6, <6>2
          <6>3. CASE i # new.len
            BY <1>2, <5>2, <6>1, <6>3
          <6> QED
            BY <6>2, <6>3
        <5> QED
          BY <1>3, <3>1, <3>2, <5>1, <5>2, <5>3 DEF DispatchOK
      <4> QED
        BY <4>2, <4>3
    <3>3. CASE ~(d.live /\ d.msg.topic = t)
      <4>1. dispatching' = d
        BY <1>3, <3>d, <3>3 DEF Detached
      <4>2. d.live => d.msg.topic \in DOMAIN waiters' /\ waiters'[d.msg.topic] = waiters[d.msg.topic]
        BY <1>3, <3>1, <3>3
      <4> QED
        BY <1>2, <3>1, <4>1, <4>2 DEF DispatchOK
    <3> QED
      BY <3>2, <3>3
  <2> QED
    BY <2>1, <2>2
<1>11. Types'
  BY <1>1, <1>2, <1>3, <1>4, <1>5, <1>10, Zenon DEF Types, network
<1>12. ListsOK'
  BY <1>2, <1>3, <1>7, <1>8, <1>9, <1>10 DEF ListsOK
<1> QED
  BY <1>2, <1>11, <1>12 DEF IInv
(* cancel, also while dispatch walks the list it shifts.                   *)
LEMMA CancelIsOK ==
  ASSUME IInv, NEW p \in Procs, Cancel(p) PROVE IInv'
<1>t. PICK t : t = call[p].topic
  OBVIOUS
<1>n. PICK new : new = Removed(t, p)
  OBVIOUS
<1>o. PICK old : old = waiters[t]
  OBVIOUS
<1>1. call[p].pc = "cancel" /\ call' = [call EXCEPT ![p].pc = "done"]
      /\ UNCHANGED <<subscribed, network>>
  BY DEF Cancel
<1>2. /\ call' \in [Procs -> CallRecord] /\ FiltersOK'
      /\ p \in Requests /\ call'[p].pc = "done" /\ call'[p].topic = t
      /\ \A q \in Procs : q # p => call'[q] = call[q]
      /\ \A q \in Procs : CallOK(q, call'[q])
      /\ \A q, x : Held(q, x) => Held(q, x)'
  BY <1>t, <1>1, ListStep, Zenon
<1>3. /\ Types /\ DispatchOK
      /\ \A x \in DOMAIN waiters : waiters[x] \in Slice /\ SliceOK(x)
      /\ \A q \in Procs : Listed(q)
  BY DEF IInv, Types, ListsOK
<1>4. /\ Registered(p) /\ ~Registered(p)'
      /\ \A q : q # p => (Registered(q)' <=> Registered(q))
      /\ \A q : Registered(q) => q \in Procs /\ call'[q].topic = call[q].topic
  BY <1>t, <1>1, <1>2 DEF Registered, Procs
<1>5. /\ t \in DOMAIN waiters /\ old \in Slice
      /\ \E i \in 1 .. old.len : old.arr[i] = p
      /\ old.len \in 1 .. Len(old.arr) /\ Len(old.arr) \in Nat
      /\ \A i \in 1 .. old.len : Registered(old.arr[i]) /\ call[old.arr[i]].topic = t
      /\ \A i, j \in 1 .. old.len : old.arr[i] = old.arr[j] => i = j
      /\ \A i \in 1 .. Len(old.arr) : old.arr[i] = "nil" \/ Held(old.arr[i], t)
  <2>1. t \in DOMAIN waiters /\ \E i \in 1 .. old.len : old.arr[i] = p
    BY <1>t, <1>o, <1>3, <1>4 DEF Listed
  <2>2. old \in Slice /\ Len(old.arr) \in Nat
    BY <1>o, <1>3, <2>1 DEF Slice
  <2>3. /\ old.len \in 1 .. Len(old.arr)
        /\ \A i \in 1 .. old.len : Registered(old.arr[i]) /\ call[old.arr[i]].topic = t
        /\ \A i, j \in 1 .. old.len : old.arr[i] = old.arr[j] => i = j
        /\ \A i \in 1 .. Len(old.arr) : old.arr[i] = "nil" \/ Held(old.arr[i], t)
    BY <1>o, <1>3, <2>1, Zenon DEF SliceOK
  <2> QED
    BY <2>1, <2>2, <2>3
<1>6. PICK at \in 1 .. old.len :
         /\ new \in Slice /\ new.len = old.len - 1 /\ Len(new.arr) = Len(old.arr)
         /\ old.arr[at] = p
         /\ \A i \in 1 .. Len(old.arr) :
               new.arr[i] = IF i \in at .. old.len - 1 THEN old.arr[i + 1] ELSE old.arr[i]
  <2>1. /\ waiters[t] \in Slice /\ waiters[t].len \in 1 .. Len(waiters[t].arr)
        /\ \E i \in 1 .. waiters[t].len : waiters[t].arr[i] = p
    BY <1>o, <1>5, Zenon
  <2>2. /\ Removed(t, p) \in Slice /\ Removed(t, p).len = waiters[t].len - 1
        /\ Len(Removed(t, p).arr) = Len(waiters[t].arr)
        /\ \E at \in 1 .. waiters[t].len :
              /\ waiters[t].arr[at] = p
              /\ \A i \in 1 .. Len(waiters[t].arr) :
                    Removed(t, p).arr[i] = IF i \in at .. waiters[t].len - 1
                                           THEN waiters[t].arr[i + 1] ELSE waiters[t].arr[i]
    BY <1>5, <2>1, RemovedSlice
  <2> QED
    BY <1>n, <1>o, <2>2
<1>7. ASSUME NEW i \in 1 .. new.len
      PROVE  \E j \in 1 .. old.len : /\ j # at /\ new.arr[i] = old.arr[j]
                                     /\ j = IF i < at THEN i ELSE i + 1
  <2>1. CASE i < at
    <3>1. i \in 1 .. old.len /\ i # at /\ i \in 1 .. Len(old.arr) /\ i \notin at .. old.len - 1
      BY <1>5, <1>6, <2>1
    <3>2. new.arr[i] = old.arr[i]
      BY <1>6, <3>1
    <3> QED
      BY <2>1, <3>1, <3>2
  <2>2. CASE ~(i < at)
    BY <1>5, <1>6, <2>2
  <2> QED
    BY <2>1, <2>2
<1>8. ASSUME NEW j \in 1 .. old.len, old.arr[j] # p
      PROVE  \E i \in 1 .. new.len : new.arr[i] = old.arr[j]
  <2>1. CASE j < at
    BY <1>5, <1>6, <2>1
  <2>2. CASE ~(j < at)
    <3>1. j # at
      BY <1>6, <1>8
    <3>2. j - 1 \in at .. old.len - 1 /\ j - 1 \in 1 .. new.len /\ j - 1 \in 1 .. Len(old.arr)
      BY <1>5, <1>6, <2>2, <3>1
    <3>3. new.arr[j - 1] = old.arr[(j - 1) + 1]
      BY <1>6, <3>2
    <3>4. (j - 1) + 1 = j
      BY <1>5
    <3> QED
      BY <3>2, <3>3, <3>4
  <2> QED
    BY <2>1, <2>2
<1>9. ASSUME NEW i \in 1 .. Len(old.arr)
      PROVE  /\ new.arr[i] = "nil" \/ Held(new.arr[i], t)
             /\ Held(old.arr[i], t) => Held(new.arr[i], t)
  <2>1. CASE i \in at .. old.len - 1
    <3>1. i + 1 \in 1 .. old.len /\ new.arr[i] = old.arr[i + 1]
      BY <1>5, <1>6, <2>1
    <3> QED
      BY <1>5, <3>1, Zenon DEF Held, Registered
  <2>2. CASE i \notin at .. old.len - 1
    BY <1>5, <1>6, <2>2, Zenon
  <2> QED
    BY <2>1, <2>2, Zenon
<1>10. ASSUME NEW x \in DOMAIN waiters, x # t, x \in DOMAIN waiters', waiters'[x] = waiters[x]
       PROVE SliceOK(x)'
  <2>1. SliceOK(x)
    BY <1>3
  <2>2. \A i \in 1 .. waiters[x].len : waiters[x].arr[i] # p
    BY <1>t, <1>10, <2>1 DEF SliceOK
  <2> QED
    BY <1>2, <1>4, <1>10, <2>1, <2>2 DEF SliceOK
<1>11. CASE new.len = 0
  <2>1. /\ waiters' = [x \in DOMAIN waiters \ {t} |-> waiters[x]]
        /\ dispatching' = Detached(t, new.arr)
    BY <1>t, <1>n, <1>11 DEF Cancel
  <2>2. /\ DOMAIN waiters' = DOMAIN waiters \ {t}
        /\ \A x \in DOMAIN waiters : x # t => x \in DOMAIN waiters' /\ waiters'[x] = waiters[x]
    BY <2>1
  <2>3. ASSUME NEW q \in Procs PROVE Listed(q)'
    <3>1. CASE q = p \/ ~Registered(q)
      BY <1>4, <3>1 DEF Listed
    <3>2. CASE q # p /\ Registered(q)
      <4>1. /\ call[q].topic \in DOMAIN waiters /\ call'[q].topic = call[q].topic
            /\ \E i \in 1 .. waiters[call[q].topic].len : waiters[call[q].topic].arr[i] = q
        BY <1>3, <1>4, <3>2 DEF Listed
      <4>2. call[q].topic # t
        BY <1>o, <1>8, <1>11, <3>2, <4>1
      <4> QED
        BY <2>2, <4>1, <4>2 DEF Listed
    <3> QED
      BY <3>1, <3>2
  <2>4. DispatchOK' /\ dispatching' \in DispatchRecord \cup {Idle}
    <3>1. CASE dispatching = Idle
      BY <2>1, <3>1 DEF DispatchOK, Detached
    <3>2. CASE dispatching # Idle
      <4>d. PICK d : d = dispatching
        BY Zenon
      <4>1. /\ d \in DispatchRecord /\ d.live \in BOOLEAN /\ d.len \in Nat
            /\ d.live => d.msg.topic \in DOMAIN waiters
            /\ d.len <= Len(IF d.live THEN waiters[d.msg.topic].arr ELSE d.arr)
            /\ \A i \in 1 .. d.len : Held((IF d.live THEN waiters[d.msg.topic].arr ELSE d.arr)[i], d.msg.topic)
        BY <1>3, <3>2, <4>d DEF Types, DispatchOK, DispatchRecord
      <4>2. CASE d.live /\ d.msg.topic = t
        <5>1. dispatching' = [d EXCEPT !.live = FALSE, !.arr = new.arr]
          BY <2>1, <3>2, <4>d, <4>2 DEF Detached
        <5>2. dispatching' \in DispatchRecord /\ dispatching'.live = FALSE /\ dispatching'.arr = new.arr
              /\ dispatching'.len = d.len /\ dispatching'.msg = d.msg
          BY <1>6, <4>1, <5>1, Zenon DEF DispatchRecord, Slice
        <5>3. d.len <= Len(new.arr) /\ \A i \in 1 .. d.len : Held(new.arr[i], t)'
          <6>1. d.len <= Len(old.arr) /\ \A i \in 1 .. d.len : Held(old.arr[i], t)
            BY <1>o, <4>1, <4>2, Zenon
          <6>2. Len(new.arr) = Len(old.arr) /\ Len(old.arr) \in Nat
            BY <1>5, <1>6, Zenon
          <6>3. \A i \in 1 .. d.len : i \in 1 .. Len(old.arr)
            BY <4>1, <6>1, <6>2
          <6>4. \A i \in 1 .. d.len : Held(new.arr[i], t)'
            BY <1>2, <1>9, <6>1, <6>3, Zenon
          <6> QED
            BY <6>1, <6>2, <6>4, Zenon
        <5> QED
          BY <4>2, <5>2, <5>3 DEF DispatchOK
      <4>3. CASE ~(d.live /\ d.msg.topic = t)
        <5>1. dispatching' = d
          BY <2>1, <4>d, <4>3 DEF Detached
        <5> QED
          BY <1>2, <2>2, <4>1, <4>3, <5>1 DEF DispatchOK
      <4> QED
        BY <4>2, <4>3
    <3> QED
      BY <3>1, <3>2
  <2>5. Types'
    BY <1>1, <1>2, <1>3, <2>2, <2>4, Zenon DEF Types, network
  <2>6. ListsOK'
    BY <1>2, <1>10, <2>2, <2>3, <2>4 DEF ListsOK
  <2> QED
    BY <1>2, <2>5, <2>6 DEF IInv
<1>12. CASE new.len # 0
  <2>1. waiters' = [waiters EXCEPT ![t] = new] /\ dispatching' = dispatching
    BY <1>t, <1>n, <1>12 DEF Cancel
  <2>2. /\ DOMAIN waiters' = DOMAIN waiters /\ waiters'[t] = new
        /\ \A x \in DOMAIN waiters : x # t => waiters'[x] = waiters[x]
    BY <1>5, <2>1
  <2>3. ASSUME NEW q \in Procs PROVE Listed(q)'
    <3>1. CASE q = p \/ ~Registered(q)
      BY <1>4, <3>1 DEF Listed
    <3>2. CASE q # p /\ Registered(q)
      <4>1. /\ call[q].topic \in DOMAIN waiters /\ call'[q].topic = call[q].topic
            /\ \E i \in 1 .. waiters[call[q].topic].len : waiters[call[q].topic].arr[i] = q
        BY <1>3, <1>4, <3>2 DEF Listed
      <4>2. CASE call[q].topic = t
        BY <1>o, <1>8, <2>2, <3>2, <4>1, <4>2 DEF Listed
      <4>3. CASE call[q].topic # t
        BY <2>2, <4>1, <4>3 DEF Listed
      <4> QED
        BY <4>2, <4>3, Zenon
    <3> QED
      BY <3>1, <3>2
  <2>4. SliceOK(t)'
    <3>1. new.len \in 1 .. Len(new.arr)
      BY <1>5, <1>6, <1>12
    <3>2. ASSUME NEW i \in 1 .. new.len
          PROVE  Registered(new.arr[i])' /\ call'[new.arr[i]].topic = t
      <4>1. PICK j \in 1 .. old.len : j # at /\ new.arr[i] = old.arr[j]
        BY <1>7
      <4>2. old.arr[j] # p
        BY <1>5, <1>6, <4>1, Zenon
      <4> QED
        BY <1>4, <1>5, <4>1, <4>2, Zenon
    <3>3. ASSUME NEW i \in 1 .. new.len, NEW k \in 1 .. new.len, new.arr[i] = new.arr[k]
          PROVE  i = k
      <4>1. PICK j \in 1 .. old.len : new.arr[i] = old.arr[j] /\ j = IF i < at THEN i ELSE i + 1
        BY <1>7
      <4>2. PICK l \in 1 .. old.len : new.arr[k] = old.arr[l] /\ l = IF k < at THEN k ELSE k + 1
        BY <1>7
      <4>3. j = l
        BY <1>5, <3>3, <4>1, <4>2, Zenon
      <4> QED
        BY <1>5, <1>6, <4>1, <4>2, <4>3
    <3>4. \A i \in 1 .. Len(new.arr) : new.arr[i] = "nil" \/ Held(new.arr[i], t)'
      BY <1>2, <1>6, <1>9
    <3> QED
      BY <2>2, <3>1, <3>2, <3>3, <3>4 DEF SliceOK
  <2>5. DispatchOK'
    <3>1. CASE dispatching = Idle
      BY <2>1, <3>1 DEF DispatchOK
    <3>2. CASE dispatching # Idle
      <4>d. PICK d : d = dispatching
        OBVIOUS
      <4>1. /\ d.live => d.msg.topic \in DOMAIN waiters
            /\ d.len \in Nat
            /\ d.len <= Len(IF d.live THEN waiters[d.msg.topic].arr ELSE d.arr)
            /\ \A i \in 1 .. d.len : Held((IF d.live THEN waiters[d.msg.topic].arr ELSE d.arr)[i], d.msg.topic)
        BY <1>3, <3>2, <4>d DEF Types, DispatchOK, DispatchRecord
      <4>2. CASE d.live /\ d.msg.topic = t
        <5>1. d.len <= Len(new.arr) /\ \A i \in 1 .. d.len : Held(new.arr[i], t)'
          <6>1. d.len <= Len(old.arr) /\ \A i \in 1 .. d.len : Held(old.arr[i], t)
            BY <1>o, <4>1, <4>2, Zenon
          <6>2. Len(new.arr) = Len(old.arr) /\ Len(old.arr) \in Nat
            BY <1>5, <1>6, Zenon
          <6>3. \A i \in 1 .. d.len : i \in 1 .. Len(old.arr)
            BY <4>1, <6>1, <6>2
          <6>4. \A i \in 1 .. d.len : Held(new.arr[i], t)'
            BY <1>2, <1>9, <6>1, <6>3, Zenon
          <6> QED
            BY <6>1, <6>2, <6>4, Zenon
        <5> QED
          BY <1>5, <2>1, <2>2, <4>d, <4>2, <5>1, Zenon DEF DispatchOK
      <4>3. CASE ~(d.live /\ d.msg.topic = t)
        BY <1>2, <2>1, <2>2, <4>d, <4>1, <4>3 DEF DispatchOK
      <4> QED
        BY <4>2, <4>3, Zenon
    <3> QED
      BY <3>1, <3>2
  <2>6. Types'
    BY <1>1, <1>2, <1>3, <1>6, <2>1, <2>2, Zenon DEF Types, network
  <2>7. ListsOK'
    BY <1>2, <1>10, <2>2, <2>3, <2>4, <2>5 DEF ListsOK
  <2> QED
    BY <1>2, <2>6, <2>7 DEF IInv
<1> QED
  BY <1>11, <1>12
-----------------------------------------------------------------------------
(* The broker delivers a message only where a filter matches it.           *)
LEMMA DeliveredMessages ==
  ASSUME Types, NEW m \in Msg
  PROVE  /\ Delivered(m) \in Seq(Msg)
         /\ \A i \in 1 .. Len(Delivered(m)) : Delivered(m)[i] = m
         /\ Len(Delivered(m)) > 0 => \E f \in brokerSubs : Matches(f, m.topic)
<1> DEFINE F == {f \in brokerSubs : Matches(f, m.topic)}
           n == Cardinality(F)
<1>1. IsFiniteSet(F)
  BY FS_Subset DEF Types
<1>2. n \in Nat /\ (n = 0 <=> F = {})
  BY <1>1, FS_CardinalityType, FS_EmptySet
<1>3. Delivered(m) = [i \in 1 .. n |-> m]
  BY DEF Delivered
<1> HIDE DEF n
<1>4. /\ Delivered(m) \in Seq(Msg) /\ Len(Delivered(m)) = n
      /\ \A i \in 1 .. n : Delivered(m)[i] = m
  BY <1>2, <1>3
<1> QED
  BY <1>2, <1>4

(* What arrives passed a filter at the broker.                             *)
LEMMA InboxGrows ==
  ASSUME Types, NEW m \in Msg, inbox' = inbox \o Delivered(m)
  PROVE  /\ inbox' \in Seq(Msg)
         /\ \A i \in 1 .. Len(inbox') : \/ inbox'[i] = m /\ \E f \in brokerSubs : Matches(f, m.topic)
                                        \/ i \in 1 .. Len(inbox) /\ inbox'[i] = inbox[i]
<1>1. PICK D : D = Delivered(m)
  OBVIOUS
<1>2. /\ D \in Seq(Msg) /\ Len(D) \in Nat /\ \A i \in 1 .. Len(D) : D[i] = m
      /\ Len(D) > 0 => \E f \in brokerSubs : Matches(f, m.topic)
  BY <1>1, DeliveredMessages
<1>3. inbox \in Seq(Msg) /\ Len(inbox) \in Nat
  BY DEF Types
<1>4. /\ inbox' \in Seq(Msg) /\ Len(inbox') = Len(inbox) + Len(D)
      /\ \A i \in 1 .. Len(inbox) : inbox'[i] = inbox[i]
      /\ \A i \in Len(inbox) + 1 .. Len(inbox) + Len(D) : inbox'[i] = D[i - Len(inbox)]
  BY <1>1, <1>2, <1>3
<1>5. ASSUME NEW i \in 1 .. Len(inbox')
      PROVE  \/ inbox'[i] = m /\ \E f \in brokerSubs : Matches(f, m.topic)
             \/ i \in 1 .. Len(inbox) /\ inbox'[i] = inbox[i]
  <2>1. CASE i \in 1 .. Len(inbox)
    BY <1>4, <2>1
  <2>2. CASE i \notin 1 .. Len(inbox)
    <3>1. i \in Len(inbox) + 1 .. Len(inbox) + Len(D) /\ i - Len(inbox) \in 1 .. Len(D) /\ Len(D) > 0
      BY <1>2, <1>3, <1>4, <2>2
    <3> QED
      BY <1>2, <1>4, <3>1
  <2> QED
    BY <2>1, <2>2
<1> QED
  BY <1>4, <1>5

(* Requests are messages.                                                  *)
LEMMA RequestIsMessage == ASSUME NEW c \in CallRecord PROVE RequestOf(c) \in Msg
<1>1. c.dev \in Devices /\ c.path \in Paths
  BY DEF CallRecord
<1>2. topicGet(c.dev, c.path) \in Topic /\ topicSet(c.dev, c.path) \in Topic
  BY <1>1, RequestTopic DEF topicGet, topicSet
<1> QED
  BY <1>2 DEF RequestOf, Message, Msg, Origin

(* A request that is published may come back to the gateway.               *)
LEMMA PublishIsOK ==
  ASSUME IInv, NEW p \in Procs, Publish(p) PROVE IInv'
<1>1. call[p] \in CallRecord /\ call[p].pc = "publish" /\ Types
  BY DEF IInv, Types, Publish
<1>2. call' = [call EXCEPT ![p] = [call[p] EXCEPT !.pc = "wait", !.chan = call[p].chan]]
  BY <1>1, Zenon DEF Publish, CallRecord
<1>3. inbox' \in Seq(Msg)
  BY <1>1, RequestIsMessage, InboxGrows, Zenon DEF Publish
<1> QED
  BY <1>1, <1>2, <1>3, QuietStep, Zenon DEF Publish, Pcs

(* Steps that leave calls and lists alone.                                 *)
LEMMA SameLists ==
  ASSUME ListsOK, UNCHANGED <<call, waiters>>, DispatchOK' PROVE ListsOK'
BY DEF ListsOK, Listed, SliceOK, Registered, Held

(* Steps that leave calls and subscriptions alone keep FiltersOK.          *)
LEMMA SameFilters ==
  ASSUME FiltersOK, UNCHANGED <<call, subscribed, brokerSubs, losses>> PROVE FiltersOK'
BY DEF FiltersOK

(* The messages devices publish.                                           *)
LEMMA DeviceMessages ==
  ASSUME NEW d \in Devices, NEW path \in Paths, NEW good \in BOOLEAN
  PROVE  /\ Message(topicProps(d, path), [dev |-> d, path |-> path], good) \in Msg
         /\ Message(topicSetAck(d, path), [dev |-> d, path |-> path], TRUE) \in Msg
         /\ Message(topicStatus(d), [dev |-> d, path |-> <<>>], TRUE) \in Msg
<1>1. topicProps(d, path) \in Topic /\ topicSetAck(d, path) \in Topic /\ topicStatus(d) \in Topic
  BY PropsTopic, AckTopic, StatusTopic, Zenon
<1>2. [dev |-> d, path |-> path] \in Origin /\ [dev |-> d, path |-> <<>>] \in Origin
  BY DEF Origin
<1> QED
  BY <1>1, <1>2 DEF Message, Msg

(* A device's message joins the inbox.                                     *)
LEMMA DevicePublishesIsOK ==
  ASSUME IInv, NEW d \in Publishers, DevicePublishes(d) PROVE IInv'
<1>1. PICK m \in Msg : inbox' = inbox \o Delivered(m)
  <2>1. d \in Devices
    BY MqttAssumption
  <2>2. PICK path \in Paths, good \in BOOLEAN :
           \E m \in {Message(topicProps(d, path), [dev |-> d, path |-> path], good),
                     Message(topicSetAck(d, path), [dev |-> d, path |-> path], TRUE),
                     Message(topicStatus(d), [dev |-> d, path |-> <<>>], TRUE)} :
              inbox' = inbox \o Delivered(m)
    BY Zenon DEF DevicePublishes
  <2> QED
    BY <2>1, <2>2, DeviceMessages, Zenon
<1>2. inbox' \in Seq(Msg)
  BY <1>1, InboxGrows DEF IInv
<1>3. UNCHANGED <<call, waiters, dispatching, subscribed, brokerSubs, losses>>
      /\ published' \in 0 .. MaxMessages
  BY MqttAssumption DEF DevicePublishes, adapter, IInv, Types
<1>4. ListsOK' /\ FiltersOK'
  <2>1. DispatchOK'
    BY <1>3, Zenon DEF IInv, ListsOK, DispatchOK, Held
  <2> QED
    BY <1>3, <2>1, SameLists, SameFilters DEF IInv
<1> QED
  BY <1>2, <1>3, <1>4 DEF IInv, Types

(* A lost connection takes the filters with it.                            *)
LEMMA ConnectionLostIsOK ==
  ASSUME IInv, ConnectionLost PROVE IInv'
<1>1. /\ UNCHANGED <<call, waiters, dispatching, subscribed, inbox, published>>
      /\ losses' = losses + 1 /\ losses' \in 0 .. MaxLosses /\ losses' # 0 /\ brokerSubs' = {}
  BY MqttAssumption DEF ConnectionLost, adapter, IInv, Types
<1>2. ListsOK'
  <2>1. DispatchOK'
    BY <1>1, Zenon DEF IInv, ListsOK, DispatchOK, Held
  <2> QED
    BY <1>1, <2>1, SameLists DEF IInv
<1>3. FiltersOK' /\ IsFiniteSet(brokerSubs')
  BY <1>1, FS_EmptySet, Zenon DEF FiltersOK
<1> QED
  BY <1>1, <1>2, <1>3 DEF IInv, Types
(* dispatch copies the header of a list: what it is going to walk is the   *)
(* list as it is now.                                                      *)
LEMMA DispatchStartIsOK ==
  ASSUME IInv, DispatchStart PROVE IInv'
<1>m. PICK m : m = Head(inbox)
  OBVIOUS
<1>n. PICK n : n = IF m.topic \in DOMAIN waiters THEN waiters[m.topic].len ELSE 0
  OBVIOUS
<1>1. /\ inbox \in Seq(Msg) /\ inbox # <<>>
      /\ UNCHANGED <<call, waiters, subscribed, brokerSubs, published, losses>>
      /\ inbox' = Tail(inbox)
      /\ dispatching' = [msg |-> m, live |-> n > 0, arr |-> <<>>, len |-> n, i |-> 1,
                         owed |-> IF n > 0 THEN Waiting(m.topic) ELSE {}]
  BY <1>m, <1>n, Zenon DEF DispatchStart, adapter, IInv, Types
<1>2. m \in Msg /\ inbox' \in Seq(Msg)
  BY <1>m, <1>1
<1>3. /\ n \in Nat
      /\ n > 0 => /\ m.topic \in DOMAIN waiters /\ n = waiters[m.topic].len
                  /\ n <= Len(waiters[m.topic].arr) /\ Waiting(m.topic) \subseteq Procs
                  /\ \A i \in 1 .. n : Held(waiters[m.topic].arr[i], m.topic)
  <2>1. CASE m.topic \in DOMAIN waiters
    <3>1. SliceOK(m.topic) /\ waiters[m.topic] \in Slice
      BY <2>1, Zenon DEF IInv, Types, ListsOK
    <3>2. n = waiters[m.topic].len /\ n \in Nat /\ n \in 1 .. Len(waiters[m.topic].arr)
      BY <1>n, <2>1, <3>1 DEF SliceOK, Slice
    <3>3. \A i \in 1 .. n : Held(waiters[m.topic].arr[i], m.topic)
      BY <3>1, <3>2, Zenon DEF SliceOK, Held, Registered
    <3>4. Waiting(m.topic) \subseteq Procs
      BY <3>2, <3>3 DEF Waiting, Held, Procs
    <3> QED
      BY <2>1, <3>1, <3>2, <3>3, <3>4 DEF Slice
  <2> QED
    BY <1>n, <2>1
<1>4. /\ dispatching' \in DispatchRecord /\ dispatching'.msg = m /\ (dispatching'.live <=> n > 0)
      /\ dispatching'.arr = <<>> /\ dispatching'.len = n
  <2>1. (IF n > 0 THEN Waiting(m.topic) ELSE {}) \in SUBSET Procs
    BY <1>3
  <2>2. <<>> \in Seq(Procs \cup {"nil"})
    OBVIOUS
  <2>3. /\ dispatching' \in DispatchRecord /\ dispatching'.msg = m /\ dispatching'.live = (n > 0)
        /\ dispatching'.arr = <<>> /\ dispatching'.len = n
    BY <1>1, <1>2, <1>3, <2>1, <2>2 DEF DispatchRecord
  <2> QED
    BY <2>3, Zenon
<1>5. DispatchOK'
  <2>1. CASE n > 0
    BY <1>1, <1>3, <1>4, <2>1, Zenon DEF DispatchOK, Held
  <2>2. CASE n = 0
    <3>1. ~dispatching'.live /\ dispatching'.len = 0 /\ Len(dispatching'.arr) = 0
      BY <1>4, <2>2
    <3> QED
      BY <3>1 DEF DispatchOK
  <2> QED
    BY <1>3, <2>1, <2>2
<1>6. ListsOK' /\ FiltersOK'
  BY <1>1, <1>5, SameLists, SameFilters DEF IInv
<1> QED
  BY <1>1, <1>2, <1>4, <1>6 DEF IInv, Types

(* dispatch sends to the channel it finds in the next place.               *)
LEMMA DispatchSendIsOK ==
  ASSUME IInv, DispatchSend PROVE IInv'
<1>d. PICK d : d = dispatching
  OBVIOUS
<1>w. PICK w : w = (IF d.live THEN waiters[d.msg.topic].arr ELSE d.arr)[d.i]
  OBVIOUS
<1>1. /\ d \in DispatchRecord /\ d # Idle /\ d.i \in 1 .. d.len
      /\ d.msg \in Msg /\ DispatchOK /\ Types /\ ListsOK /\ FiltersOK
  <2>1. d # Idle /\ d.i <= d.len /\ d \in DispatchRecord \cup {Idle}
    BY <1>d, Zenon DEF DispatchSend, IInv, Types
  <2>2. d \in DispatchRecord
    BY <2>1
  <2>3. d.msg \in Msg /\ d.i \in Nat \ {0} /\ d.len \in Nat
    BY <2>2, Zenon DEF DispatchRecord
  <2> QED
    BY <2>1, <2>2, <2>3 DEF IInv, ListsOK
<1>2. Held(w, d.msg.topic)
  BY <1>d, <1>w, <1>1, Zenon DEF DispatchOK
<1>3. /\ w \in Requests /\ w \in Procs /\ call[w].topic = d.msg.topic
      /\ call[w].pc \in {"publish", "wait", "cancel", "done"}
      /\ call[w] \in CallRecord /\ CallOK(w, call[w])
  BY <1>1, <1>2 DEF Held, Procs, Types, ListsOK
<1> DEFINE c == IF call[w].chan = <<>> THEN <<d.msg>> ELSE call[w].chan
           r == [call[w] EXCEPT !.chan = c]
<1>4. /\ call' = [call EXCEPT ![w] = r]
      /\ dispatching' = [d EXCEPT !.i = @ + 1]
      /\ UNCHANGED <<waiters, subscribed, brokerSubs, inbox, published, losses>>
  BY <1>d, <1>w, Zenon DEF DispatchSend, adapter, network
<1>5. c \in Seq(Msg) /\ Len(c) <= 1 /\ \A i \in 1 .. Len(c) : c[i].topic = d.msg.topic
  <2>1. CASE call[w].chan = <<>>
    BY <1>1, <2>1
  <2>2. CASE call[w].chan # <<>>
    BY <1>3, <2>2 DEF CallOK, CallRecord
  <2> QED
    BY <2>1, <2>2
<1> HIDE DEF c
<1>6. /\ r \in CallRecord /\ r.chan = c /\ r.pc = call[w].pc /\ r.topic = call[w].topic
      /\ r.op = call[w].op /\ r.dev = call[w].dev /\ r.path = call[w].path
  BY <1>3, <1>5, Zenon DEF CallRecord
<1> HIDE DEF r
<1>7. CallOK(w, r)
  <2>1. (Valid(r) <=> Valid(call[w])) /\ TopicsOf(r) = TopicsOf(call[w])
    BY <1>6, SameTopics
  <2> QED
    BY <1>3, <1>5, <1>6, <2>1, MqttAssumption, Zenon DEF CallOK
<1>8. ListsOK' /\ call' \in [Procs -> CallRecord]
  <2>1. dispatching' \in {dispatching, [dispatching EXCEPT !.i = @ + 1]} /\ dispatching \in DispatchRecord
    BY <1>d, <1>1, <1>4
  <2> QED
    BY <1>1, <1>3, <1>4, <1>6, <1>7, <2>1, CallStep, Zenon
<1>9. FiltersOK'
  <2>1. losses = 0 => /\ subscribed' \subseteq brokerSubs'
                      /\ r.pc = "mark" => r.topic \in brokerSubs'
                      /\ r.pc \in {"register", "publish", "wait", "cancel"}
                         => \E f \in brokerSubs' : Matches(f, r.topic)
    BY <1>1, <1>3, <1>4, <1>6 DEF FiltersOK
  <2> QED
    BY <1>1, <1>3, <1>4, <1>6, <2>1, CallFilters, Zenon
<1>10. dispatching' \in DispatchRecord
  <2>1. d \in DispatchRecord /\ d.i + 1 \in Nat \ {0}
    BY <1>1
  <2>2. [d EXCEPT !.i = @ + 1] \in DispatchRecord
    BY <2>1 DEF DispatchRecord
  <2> QED
    BY <1>4, <2>2, Zenon
<1> QED
  BY <1>1, <1>4, <1>8, <1>9, <1>10 DEF IInv, Types

(* dispatch returns.                                                       *)
LEMMA DispatchEndIsOK ==
  ASSUME IInv, DispatchEnd PROVE IInv'
<1>1. UNCHANGED <<call, waiters, subscribed, brokerSubs, inbox, published, losses>> /\ dispatching' = Idle
  BY DEF DispatchEnd, adapter, network
<1>2. DispatchOK'
  BY <1>1 DEF DispatchOK
<1> QED
  BY <1>1, <1>2, SameLists, SameFilters DEF IInv, Types

(* New has no waiters and no subscriptions.                                *)
LEMMA InitIInv == Init => IInv
<1> SUFFICES ASSUME Init PROVE IInv
  OBVIOUS
<1>1. PICK f \in [Procs -> Calls] : /\ \A p \in Procs : f[p].op = "watch" <=> p \in Watchers
                                    /\ call = [p \in Procs |-> NewCall(f[p])]
  BY DEF Init
<1>2. ASSUME NEW p \in Procs
      PROVE  /\ call[p] \in CallRecord /\ call[p].pc = "start" /\ call[p].chan = <<>>
             /\ call[p].op = f[p].op
  <2>1. call[p] = NewCall(f[p]) /\ f[p] \in Calls
    BY <1>1
  <2>2. <<>> \in Topic /\ <<>> \in Seq(Msg) /\ "start" \in Pcs
    BY DEF Topic, Pcs
  <2>3. f[p].op \in {"read", "write", "watch"} /\ f[p].dev \in Devices /\ f[p].path \in Paths
    BY <2>1 DEF Calls
  <2> QED
    BY <2>1, <2>2, <2>3 DEF NewCall, CallRecord
<1>3. call \in [Procs -> CallRecord]
  BY <1>1, <1>2
<1>4. DOMAIN waiters = {} /\ subscribed = {} /\ brokerSubs = {} /\ dispatching = Idle
      /\ inbox = <<>> /\ published = 0 /\ losses = 0
  BY DEF Init
<1>5. Types
  BY <1>3, <1>4, FS_EmptySet, MqttAssumption DEF Types
<1>6. \A p \in Procs : CallOK(p, call[p])
  BY <1>1, <1>2 DEF CallOK
<1>7. \A p \in Procs : Listed(p)
  BY <1>2 DEF Listed, Registered
<1>8. FiltersOK
  BY <1>2, <1>4 DEF FiltersOK
<1> QED
  BY <1>4, <1>5, <1>6, <1>7, <1>8 DEF IInv, ListsOK, DispatchOK

(* Every step keeps the invariant.                                         *)
LEMMA NextIInv == IInv /\ [Next]_vars => IInv'
<1> SUFFICES ASSUME IInv, [Next]_vars PROVE IInv'
  OBVIOUS
<1>1. ASSUME NEW p \in Procs, Step(p) PROVE IInv'
  BY <1>1, StartIsOK, RefuseIsOK, CheckIsOK, SubscribeIsOK, MarkIsOK, registerWaiterIsOK,
     PublishIsOK, WaitEndsIsOK, TakeReplyIsOK, CancelIsOK DEF Step
<1>2. CASE Dispatch
  BY <1>2, DispatchStartIsOK, DispatchSendIsOK, DispatchEndIsOK DEF Dispatch
<1>3. CASE UNCHANGED vars
  <2>1. UNCHANGED <<call, waiters, subscribed, brokerSubs, inbox, published, losses, dispatching>>
    BY <1>3 DEF vars, adapter, network
  <2>2. DispatchOK'
    BY <2>1, Zenon DEF IInv, ListsOK, DispatchOK, Held
  <2> QED
    BY <2>1, <2>2, SameLists, SameFilters DEF IInv, Types
<1> QED
  BY <1>1, <1>2, <1>3, DevicePublishesIsOK, ConnectionLostIsOK DEF Next, Finished

(* The invariant of the MQTT adapter holds always.                         *)
LEMMA IInvInvariant == Spec => []IInv
BY InitIInv, NextIInv, PTL DEF Spec
-----------------------------------------------------------------------------
(* A list without repetitions has as many members as places.               *)
LEMMA DistinctCount ==
  ASSUME NEW n \in Nat, NEW a, \A i, j \in 1 .. n : a[i] = a[j] => i = j
  PROVE  Cardinality({a[i] : i \in 1 .. n}) = n
<1> DEFINE S == {a[i] : i \in 1 .. n}
           g == [i \in 1 .. n |-> a[i]]
<1>1. g \in Bijection(1 .. n, S)
  BY DEF Bijection, Injection, Surjection, IsInjective
<1>2. ExistsBijection(1 .. n, S)
  BY <1>1 DEF ExistsBijection
<1> QED
  BY <1>2, FS_CountingElements

(* a.waiters lists exactly the requests that wait, each once and under its *)
(* own topic, for any number of requests on any topics (registerWaiter and *)
(* its cancel function on shared arrays).                                  *)
THEOREM WaitersAreExact == Spec => []WaitersAreTheRequests
<1>1. ASSUME IInv PROVE WaitersAreTheRequests
  <2>1. TypeOK
    BY <1>1, Zenon DEF IInv, Types, ListsOK, TypeOK, SliceOK, CallOK, CallRecord
  <2>2. ASSUME NEW p \in Procs, Registered(p) PROVE call[p].topic \in DOMAIN waiters
    BY <1>1, <2>2 DEF IInv, ListsOK, Listed
  <2>3. ASSUME NEW t \in DOMAIN waiters
        PROVE  /\ Waiting(t) = {p \in Procs : Registered(p) /\ call[p].topic = t}
               /\ Cardinality(Waiting(t)) = waiters[t].len
    <3>1. SliceOK(t) /\ waiters[t].len \in Nat
      BY <1>1 DEF IInv, Types, ListsOK, Slice
    <3>2. Waiting(t) \subseteq {p \in Procs : Registered(p) /\ call[p].topic = t}
      BY <3>1 DEF Waiting, SliceOK, Registered, Procs
    <3>3. ASSUME NEW p \in Procs, Registered(p), call[p].topic = t PROVE p \in Waiting(t)
      BY <1>1, <3>3 DEF IInv, ListsOK, Listed, Waiting
    <3>4. Cardinality(Waiting(t)) = waiters[t].len
      <4>1. PICK arr, n : arr = waiters[t].arr /\ n = waiters[t].len
        BY Zenon
      <4>2. n \in Nat /\ \A i, j \in 1 .. n : arr[i] = arr[j] => i = j
        BY <3>1, <4>1 DEF SliceOK
      <4>3. Cardinality({arr[i] : i \in 1 .. n}) = n
        BY <4>2, DistinctCount
      <4> QED
        BY <4>1, <4>3, Zenon DEF Waiting
    <3> QED
      BY <3>2, <3>3, <3>4
  <2> QED
    BY <2>1, <2>2, <2>3 DEF WaitersAreTheRequests
<1> QED
  BY <1>1, IInvInvariant, PTL

(* As long as the connection holds, a.subscribed and the wildcard rule     *)
(* promise nothing that the broker does not keep (subscribeOnce).          *)
THEOREM SubscriptionsAreKept == Spec => []SubscribedIsTruthful
<1>1. IInv => SubscribedIsTruthful
  BY DEF IInv, FiltersOK, SubscribedIsTruthful, Registered
<1> QED
  BY <1>1, IInvInvariant, PTL

(* A request only ever gets payloads of its own topic, although dispatch   *)
(* walks arrays that others shift and extend (dispatch).                   *)
THEOREM RepliesAreForTheRequest == Spec => []RepliesMatchRequests
<1>1. ASSUME IInv PROVE RepliesMatchRequests
  <2>1. ASSUME NEW p \in Procs, NEW i \in 1 .. Len(call[p].chan)
        PROVE  p \in Requests /\ call[p].chan[i].topic = call[p].topic
    <3>1. CallOK(p, call[p])
      BY <1>1, Zenon DEF IInv, ListsOK
    <3>2. CASE p \in Watchers
      BY <3>1, <3>2 DEF CallOK
    <3>3. CASE p \notin Watchers
      BY <3>1, <3>3 DEF CallOK, Procs
    <3> QED
      BY <3>2, <3>3
  <2> QED
    BY <2>1 DEF RepliesMatchRequests
<1> QED
  BY <1>1, IInvInvariant, PTL
=============================================================================
