------------------------------ MODULE MqttTopics ------------------------------
(***************************************************************************)
(* The topic convention of the MQTT adapter (internal/adapters/mqtt/       *)
(* topics.go).  A topic is the sequence of its "/"-separated levels, and   *)
(* so are device IDs and property paths, which may contain slashes; no     *)
(* level is empty.                                                         *)
(***************************************************************************)
EXTENDS Integers, Sequences, FiniteSets

Last(s) == s[Len(s)]

topicProps(d, path) == <<"udal">> \o d \o <<"props">> \o path

topicPropsWildcard(d) == <<"udal">> \o d \o <<"props", "#">>

topicGet(d, path) == topicProps(d, path) \o <<"get">>

topicSet(d, path) == topicProps(d, path) \o <<"set">>

topicSetAck(d, path) == topicSet(d, path) \o <<"ack">>

topicStatus(d) == <<"udal">> \o d \o <<"status">>

(* validTopicSegment: no level of an ID or a path is a wildcard.           *)
validTopicSegment(s) == \A i \in 1 .. Len(s) : s[i] \notin {"+", "#"}

(* Which topics an MQTT broker delivers for a subscription: "+" stands for *)
(* any one level, a final "#" for any number of them.                      *)
Matches(filter, topic) ==
    LET hash == Last(filter) = "#"
        n    == IF hash THEN Len(filter) - 1 ELSE Len(filter)
    IN  /\ IF hash THEN Len(topic) >= n ELSE Len(topic) = n
        /\ \A i \in 1 .. n : filter[i] \in {"+", topic[i]}

(* parsePropsTopicOrSetAck: the levels between "udal" and the first        *)
(* "props", and those after it; none of the two may be missing.            *)
PropsAt(topic) == {i \in 3 .. Len(topic) - 1 : topic[i] = "props"}

parsePropsTopicOrSetAck(topic) ==
    IF topic[1] # "udal" \/ PropsAt(topic) = {} THEN [ok |-> FALSE]
    ELSE LET cut == CHOOSE i \in PropsAt(topic) : \A j \in PropsAt(topic) : i <= j
         IN  [ok   |-> TRUE,
              dev  |-> SubSeq(topic, 2, cut - 1),
              rest |-> SubSeq(topic, cut + 1, Len(topic))]

(* Requests and acknowledgements share the prefix of property values.      *)
reserved(rest) ==
    \/ Last(rest) \in {"get", "set"}
    \/ Len(rest) > 2 /\ SubSeq(rest, Len(rest) - 1, Len(rest)) = <<"set", "ack">>

(* A faulty parser that takes requests for values.                         *)
parsePropsTopicWithRequests(topic) == parsePropsTopicOrSetAck(topic)

parsePropsTopic(topic) ==
    LET r == parsePropsTopicOrSetAck(topic)
    IN  IF r.ok /\ reserved(r.rest) THEN [ok |-> FALSE] ELSE r

parseStatusTopic(topic) ==
    IF Len(topic) = 3 /\ topic[1] = "udal" /\ topic[3] = "status"
    THEN [ok |-> TRUE, dev |-> SubSeq(topic, 2, 2)]
    ELSE [ok |-> FALSE]
=============================================================================
