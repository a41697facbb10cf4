----------------------------- MODULE HttpAdapter -----------------------------
(***************************************************************************)
(* The HTTP transport adapter (internal/adapters/http): one poll loop per  *)
(* watched device, the webhook receiver, and Close at shutdown, which      *)
(* main.go calls after the gRPC server has stopped.                        *)
(*                                                                         *)
(* A device serves one property, whose value is its version: it counts the *)
(* changes at the device.  ReadProperty is one GET that leaves no trace in *)
(* the adapter; module DeviceService has its outcomes.                     *)
(***************************************************************************)
EXTENDS Integers, FiniteSets

CONSTANTS HttpDevices,
          Absent,         \* an absent label, value or loop
          MaxVersion    \* bound on the changes at a device

ASSUME HttpAssumption == MaxVersion \in Nat /\ Absent \notin Nat

(* LabelPollInterval: absent, not a duration, a positive duration, or one  *)
(* that is not positive.                                                   *)
Intervals == {"absent", "malformed", "positive", "nonPositive"}

VARIABLES
    value,           \* what each device serves
    pollCancel,      \* devices with an entry in a.pollCancel
    webhookDevices,  \* a.webhookDevices
    loop,            \* the poll loop of each device
    closed,          \* Close has been called
    panicked,        \* the process has panicked
    push,            \* the webhook call each device has underway
    seen,            \* the last update handed to onUpdate
    overtaken        \* history: seen was pushed after the loop's last update

httpVars == <<value, pollCancel, webhookDevices, loop, closed, panicked, push, seen, overtaken>>

(* cancelled is its context's; asked counts GETs underway, and resp holds  *)
(* snapshots that are decoded but not yet compared with last.              *)
NoLoop == [pc |-> "none", cancelled |-> FALSE, asked |-> 0, resp |-> {}, last |-> Absent]

HttpInit ==
    /\ value = [d \in HttpDevices |-> 0]
    /\ pollCancel = {} /\ webhookDevices = {}
    /\ loop = [d \in HttpDevices |-> NoLoop]
    /\ closed = FALSE /\ panicked = FALSE
    /\ push = [d \in HttpDevices |-> Absent]
    /\ seen = [d \in HttpDevices |-> Absent]
    /\ overtaken = [d \in HttpDevices |-> FALSE]
-----------------------------------------------------------------------------
(* The interval a loop runs at: a label that parses replaces the default.  *)
PollInterval(label) == IF label \in {"absent", "malformed"} THEN "positive" ELSE label

(* WatchDevice, from RegisterDevice or from main.go at startup.  It is     *)
(* refused without an endpoint label, and does nothing for a device that   *)
(* is watched already.                                                     *)
WatchDevice(d) ==
    /\ ~panicked /\ ~closed
    /\ d \notin pollCancel
    /\ \E label \in Intervals : loop' = [loop EXCEPT ![d].pc = PollInterval(label)]
    /\ pollCancel' = pollCancel \cup {d}
    /\ webhookDevices' = webhookDevices \cup {d}
    /\ UNCHANGED <<value, closed, panicked, push, seen, overtaken>>

(* pollLoop begins: time.NewTicker panics on an interval that is not       *)
(* positive; otherwise the first poll starts at once.                      *)
LoopBegins(d) ==
    /\ ~panicked
    /\ \/ /\ loop[d].pc = "nonPositive"
          /\ panicked' = TRUE /\ UNCHANGED loop
       \/ /\ loop[d].pc = "positive"
          /\ loop' = [loop EXCEPT ![d].pc = "running", ![d].asked = 1]
          /\ UNCHANGED panicked
    /\ UNCHANGED <<value, pollCancel, webhookDevices, closed, push, seen, overtaken>>

(* A faulty loop whose ticks do not wait for the poll before.              *)
LoopTicksOverlap(d) ==
    /\ ~panicked
    /\ loop[d].pc = "running" /\ loop[d].asked < 2
    /\ loop' = [loop EXCEPT ![d].asked = @ + 1]
    /\ UNCHANGED <<value, pollCancel, webhookDevices, closed, panicked, push, seen, overtaken>>

(* <-ticker.C, which the loop may still pick when ctx is done as well.     *)
LoopTicks(d) ==
    /\ ~panicked
    /\ loop[d].pc = "running" /\ loop[d].asked = 0 /\ loop[d].resp = {}
    /\ loop' = [loop EXCEPT ![d].asked = 1]
    /\ UNCHANGED <<value, pollCancel, webhookDevices, closed, panicked, push, seen, overtaken>>

(* The GET succeeds; one made under a cancelled context does not.          *)
PollAnswered(d) ==
    /\ ~panicked
    /\ loop[d].asked > 0 /\ ~loop[d].cancelled
    /\ loop' = [loop EXCEPT ![d].asked = @ - 1, ![d].resp = @ \cup {value[d]}]
    /\ UNCHANGED <<value, pollCancel, webhookDevices, closed, panicked, push, seen, overtaken>>

(* A faulty poll whose failure ends the loop.                              *)
PollFailsForGood(d) ==
    /\ ~panicked
    /\ loop[d].asked > 0
    /\ loop' = [loop EXCEPT ![d].asked = @ - 1, ![d].pc = "ended"]
    /\ UNCHANGED <<value, pollCancel, webhookDevices, closed, panicked, push, seen, overtaken>>

(* Timeout, error status, malformed body, or ctx cancelled: only logged.   *)
PollFails(d) ==
    /\ ~panicked
    /\ loop[d].asked > 0
    /\ loop' = [loop EXCEPT ![d].asked = @ - 1]
    /\ UNCHANGED <<value, pollCancel, webhookDevices, closed, panicked, push, seen, overtaken>>

(* The rest of poll: onUpdate for a value that changed since the last one. *)
PollApplies(d) ==
    /\ ~panicked
    /\ \E v \in loop[d].resp :
          /\ loop' = [loop EXCEPT ![d].resp = @ \ {v}, ![d].last = v]
          /\ IF v = loop[d].last THEN UNCHANGED <<seen, overtaken>>
             ELSE /\ seen' = [seen EXCEPT ![d] = v]
                  /\ overtaken' = [overtaken EXCEPT ![d] = FALSE]
    /\ UNCHANGED <<value, pollCancel, webhookDevices, closed, panicked, push>>

(* <-ctx.Done().                                                           *)
LoopEnds(d) ==
    /\ ~panicked
    /\ loop[d].pc = "running" /\ loop[d].cancelled /\ loop[d].asked = 0 /\ loop[d].resp = {}
    /\ loop' = [loop EXCEPT ![d].pc = "ended"]
    /\ UNCHANGED <<value, pollCancel, webhookDevices, closed, panicked, push, seen, overtaken>>

(* A faulty Close that forgets the loops before it has cancelled them.     *)
CloseForgets ==
    /\ ~panicked /\ ~closed
    /\ closed' = TRUE
    /\ pollCancel' = {}
    /\ UNCHANGED <<value, webhookDevices, loop, panicked, push, seen, overtaken>>

Close ==
    /\ ~panicked /\ ~closed
    /\ closed' = TRUE
    /\ loop' = [d \in HttpDevices |-> [loop[d] EXCEPT !.cancelled = d \in pollCancel]]
    /\ pollCancel' = {}
    /\ UNCHANGED <<value, webhookDevices, panicked, push, seen, overtaken>>
-----------------------------------------------------------------------------
(* The device changes, and may call the webhook with its present value;    *)
(* the call may be lost on its way.                                        *)
DeviceChanges(d) ==
    /\ value[d] < MaxVersion
    /\ value' = [value EXCEPT ![d] = @ + 1]
    /\ UNCHANGED <<pollCancel, webhookDevices, loop, closed, panicked, push, seen, overtaken>>

DevicePushes(d) ==
    /\ push[d] = Absent
    /\ push' = [push EXCEPT ![d] = value[d]]
    /\ UNCHANGED <<value, pollCancel, webhookDevices, loop, closed, panicked, seen, overtaken>>

PushLost(d) ==
    /\ push[d] # Absent
    /\ push' = [push EXCEPT ![d] = Absent]
    /\ UNCHANGED <<value, pollCancel, webhookDevices, loop, closed, panicked, seen, overtaken>>

handleWebhookEvent(d) ==
    /\ ~panicked
    /\ push[d] # Absent
    /\ push' = [push EXCEPT ![d] = Absent]
    /\ IF d \in webhookDevices
       THEN /\ seen' = [seen EXCEPT ![d] = push[d]]
            /\ overtaken' = [overtaken EXCEPT ![d] = TRUE]
       ELSE UNCHANGED <<seen, overtaken>>
    /\ UNCHANGED <<value, pollCancel, webhookDevices, loop, closed, panicked>>

Poll(d) == LoopTicks(d) \/ PollAnswered(d) \/ PollFails(d) \/ PollApplies(d)

HttpNext ==
    \/ \E d \in HttpDevices :
          \/ WatchDevice(d) \/ LoopBegins(d) \/ Poll(d) \/ LoopEnds(d)
          \/ DevicePushes(d) \/ PushLost(d) \/ handleWebhookEvent(d)
          \/ DeviceChanges(d)
    \/ Close

HttpSpec == HttpInit /\ [][HttpNext]_httpVars

(* The goroutine of a loop gets to run, its ticker ticks and a request     *)
(* ends within its timeout; of a tick and a cancelled context that are     *)
(* both ready, select takes either, but not always the tick.               *)
HttpFairness ==
    \A d \in HttpDevices :
       /\ WF_httpVars(LoopBegins(d)) /\ WF_httpVars(LoopTicks(d)) /\ WF_httpVars(PollApplies(d))
       /\ WF_httpVars(PollAnswered(d) \/ PollFails(d))
       /\ SF_httpVars(LoopEnds(d))

HttpFairSpec == HttpSpec /\ HttpFairness
-----------------------------------------------------------------------------
(* The state has its types, and every polled device may push as well.      *)
HttpTypeOK ==
    /\ value \in [HttpDevices -> 0..MaxVersion]
    /\ pollCancel \subseteq webhookDevices /\ webhookDevices \subseteq HttpDevices
    /\ \A d \in HttpDevices :
          /\ loop[d].pc \in {"none", "positive", "nonPositive", "running", "ended"}
          /\ loop[d].cancelled \in BOOLEAN /\ loop[d].asked \in 0..2
          /\ loop[d].resp \subseteq 0..MaxVersion
          /\ loop[d].last \in (0..MaxVersion) \cup {Absent}
    /\ push \in [HttpDevices -> (0..MaxVersion) \cup {Absent}]
    /\ seen \in [HttpDevices -> (0..MaxVersion) \cup {Absent}]
    /\ overtaken \in [HttpDevices -> BOOLEAN] /\ closed \in BOOLEAN /\ panicked \in BOOLEAN

(* Unless a push came after the loop's latest update, what subscribers saw *)
(* last is what the loop compares the next snapshot with, and no update of *)
(* a loop goes back to an older value; the state keeps its types.          *)
LoopReportsForward ==
    /\ []HttpTypeOK
    /\ [][\A d \in HttpDevices :
             loop'[d].last # loop[d].last /\ loop[d].last # Absent
             => /\ loop'[d].last > loop[d].last
                /\ ~overtaken'[d] => seen'[d] = loop'[d].last]_httpVars

(* The poller "keeps a Subscribe stream live": once the device no longer   *)
(* changes and no push has overtaken the loop, subscribers get to know its *)
(* value, provided it answers some poll whenever it is polled again and    *)
(* again; failed polls in between do not matter.                           *)
PollingKeepsUp ==
    \A d \in HttpDevices :
       /\ <>[](d \in pollCancel /\ ~panicked /\ ~overtaken[d])
       /\ []<>(loop[d].asked > 0) => []<><<PollAnswered(d)>>_httpVars
       => <>[](seen[d] = value[d])

(* Close ends every poll loop, whatever it is doing.                       *)
CloseEndsLoops ==
    [](closed => <>(panicked \/ \A d \in HttpDevices : loop[d].pc \in {"none", "ended"}))
=============================================================================
