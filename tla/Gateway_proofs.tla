---------------------------- MODULE Gateway_proofs ----------------------------
(***************************************************************************)
(* Proofs about Gateway, for any set of deployments, devices, streams and  *)
(* callers: readiness means service, steps are orderly, and the breaker    *)
(* keeps its invariant inside a process that restarts; and about the poll  *)
(* loops that the HTTP adapter runs in the gateway.                        *)
(***************************************************************************)
EXTENDS Gateway, HttpAdapter, TLAPS

(* First the breaker by itself, for any set of callers, any error          *)
(* threshold and any open period.                                          *)

(* TypeOK and ClosedIffFewErrors are inductive together: the type bound    *)
(* consecutiveErrs <= circuitBreakerMaxErrors turns "not fewer" into       *)
(* "exactly the threshold", which a further failure keeps.                 *)
IInv == TypeOK /\ ClosedIffFewErrors

(* The breaker starts closed with a clean record (newCircuitBreaker).      *)
LEMMA InitIInv == Init => IInv
  BY CircuitBreakerAssumption DEF Init, IInv, TypeOK, ClosedIffFewErrors

(* Every critical section of the breaker, of any caller, in any order,     *)
(* preserves the invariant.                                                *)
LEMMA NextIInv == IInv /\ [Next]_vars => IInv'
<1> SUFFICES ASSUME IInv, [Next]_vars PROVE IInv'
  OBVIOUS
<1> USE CircuitBreakerAssumption DEF IInv, TypeOK, ClosedIffFewErrors
<1>1. ASSUME NEW c \in Callers, Reject(c) PROVE IInv'
  BY <1>1 DEF Reject
<1>2. ASSUME NEW c \in Callers, Admit(c) PROVE IInv'
  BY <1>2 DEF Admit
<1>3. ASSUME NEW c \in Callers, recordSuccess(c) PROVE IInv'
  BY <1>3 DEF recordSuccess
<1>4. ASSUME NEW c \in Callers, recordFailure(c) PROVE IInv'
  <2>1. CASE state = "halfOpen"
    BY <1>4, <2>1 DEF recordFailure
  <2>2. CASE state # "halfOpen"
    BY <1>4, <2>2 DEF recordFailure, Saturate
  <2>3. QED
    BY <2>1, <2>2
<1>5. ASSUME NEW c \in Callers, ReturnErrCircuitOpen(c) PROVE IInv'
  BY <1>5 DEF ReturnErrCircuitOpen
<1>6. CASE Tick
  BY <1>6 DEF Tick
<1>7. CASE EnvironmentChanges
  BY <1>7 DEF EnvironmentChanges
<1>8. CASE UNCHANGED vars
  BY <1>8 DEF vars
<1>9. QED
  BY <1>1, <1>2, <1>3, <1>4, <1>5, <1>6, <1>7, <1>8 DEF Next, Attempt

(* The breaker is closed exactly while fewer than the threshold of         *)
(* requests failed since the last success.                                 *)
THEOREM BreakerStateMatchesErrors == Spec => [](TypeOK /\ ClosedIffFewErrors)
<1>1. Spec => []IInv
  BY InitIInv, NextIInv, PTL DEF Spec
<1>2. QED
  BY <1>1, PTL DEF IInv
-----------------------------------------------------------------------------
(* The process.                                                            *)

(* Where main is.                                                          *)
Starting == {"mqtt", "http", "webhook", "can", "custom", "metrics", "auth",
             "grpc", "rest", "ready"}
Stopping == {"stop_rest", "stop_mqtt", "stop_can", "stop_webhook",
             "stop_metrics", "stop_http"}

PcInv ==
    /\ pc \in {"down", "serving", "signalled", "draining"} \union Starting \union Stopping
    /\ ready \in BOOLEAN
    /\ ready => pc = "serving"

(* Which listeners are bound follows from where main is.                   *)
UpInv ==
    /\ pc \in {"down", "mqtt", "http", "webhook"} => up = {}
    /\ pc \in {"can", "custom", "metrics"} => up = {"webhook"}
    /\ pc \in {"auth", "grpc"} => up = {"webhook", "metrics"}
    /\ pc = "rest" => up = {"webhook", "metrics", "grpc"}
    /\ pc \in {"ready", "serving", "signalled"} => up = Listeners
    /\ pc \in {"draining"} \union Stopping => "grpc" \notin up

(* Bound listeners have different addresses.                               *)
AddrInv ==
    \A l, m \in up : l # m => The(cfg).addr[l] # The(cfg).addr[m]

(* And so does which adapters are open, up to the shutdown.                *)
MQTTIf == IF The(cfg).mqtt THEN {"mqtt"} ELSE {}
CANIf == IF The(cfg).can THEN {"can"} ELSE {}

OpenInv ==
    /\ pc \in {"down", "mqtt"} => open = {}
    /\ pc = "http" => open = MQTTIf
    /\ pc \in {"webhook", "can"} => open = {"http"} \union MQTTIf
    /\ pc = "custom" => open = {"http"} \union MQTTIf \union CANIf
    /\ pc \in {"metrics", "auth", "grpc", "rest", "ready", "serving"} =>
          open = {"http"} \union The(cfg).custom \union MQTTIf \union CANIf
    /\ pc \in Starting \union {"down", "serving"} => reporters = open \intersect Reporting

(* A stored device of an open transport has met its adapter or is about to.*)
WatchInv ==
    /\ stored \in SUBSET Devices
    /\ watch \in [Devices -> {"none", "watched", "refused"}]
    /\ \A d \in stored : \/ Transport[d] \notin open
                         \/ watch[d] # "none"
                         \/ d \in registering

(* From the auth step on a configured bootstrap subject has a key.         *)
KeyInv ==
    pc \in {"grpc", "rest", "ready", "serving"} => (The(cfg).key # {} => keys # {})

(* After the drain no request is left, and none can come.                  *)
QuietInv == pc \in Stopping => InFlight = {}

(* The life of the process, and with it the breaker.                       *)
LifeInv == PcInv /\ UpInv /\ AddrInv /\ OpenInv /\ WatchInv /\ KeyInv /\ QuietInv
GInv == LifeInv /\ IInv

(* There is no process at first.                                           *)
LEMMA InitGInv == GatewayInit => GInv
<1> SUFFICES ASSUME GatewayInit PROVE GInv
  OBVIOUS
<1>1. IInv
  BY InitIInv DEF GatewayInit
<1> QED
  BY <1>1, Zenon DEF GatewayInit, GInv, LifeInv, PcInv, UpInv, AddrInv, OpenInv, WatchInv, KeyInv,
              QuietInv, Starting, Stopping

(* A new adapter is open, reported on if it can report, and has been given *)
(* the stored devices of its transport.                                    *)
LEMMA OpenWatches ==
  ASSUME WatchInv, NEW ts, Open(ts), UNCHANGED <<stored, registering>>
  PROVE  WatchInv'
  BY DEF WatchInv, Open, WatchStored

(* Startup keeps the invariant.                                            *)
LEMMA StartupKeepsLife ==
  ASSUME LifeInv, Start \/ Startup
  PROVE  LifeInv'
<1> USE DEF LifeInv
<1>a. QuietInv'
  BY DEF QuietInv, Stopping, Start, Startup, ListenWebhook, ListenMetrics, ListenGRPC, ListenREST,
         StartMQTT, StartHTTP, StartCAN, StartCustom,
         StartAuth, BecomeReady, Listen
<1>1. CASE Start
  BY <1>1, <1>a DEF Start, PcInv, UpInv, AddrInv, OpenInv, WatchInv, KeyInv,
               Starting, Stopping, handlers, file, vars
<1>2. CASE StartMQTT
  <2>1. WatchInv'
    BY <1>2, OpenWatches DEF StartMQTT, Unopened, WatchInv, file
  <2>2. OpenInv'
    BY <1>2 DEF StartMQTT, Open, Unopened, OpenInv, MQTTIf, CANIf, Starting
  <2> QED
    BY <1>2, <1>a, <2>1, <2>2 DEF StartMQTT, PcInv, UpInv, AddrInv, KeyInv, Starting, Stopping
<1>3. CASE StartHTTP
  <2>1. WatchInv'
    BY <1>3, OpenWatches DEF StartHTTP, file
  <2>2. OpenInv'
    BY <1>3 DEF StartHTTP, Open, OpenInv, MQTTIf, CANIf, Starting
  <2> QED
    BY <1>3, <1>a, <2>1, <2>2 DEF StartHTTP, PcInv, UpInv, AddrInv, KeyInv, Starting, Stopping
<1>4. CASE StartCAN
  <2>1. WatchInv'
    BY <1>4, OpenWatches DEF StartCAN, Unopened, WatchInv, file
  <2>2. OpenInv'
    BY <1>4 DEF StartCAN, Open, Unopened, OpenInv, MQTTIf, CANIf, Starting
  <2> QED
    BY <1>4, <1>a, <2>1, <2>2 DEF StartCAN, PcInv, UpInv, AddrInv, KeyInv, Starting, Stopping
<1>5. CASE StartCustom
  <2>1. WatchInv'
    BY <1>5, OpenWatches DEF StartCustom, file
  <2>2. OpenInv'
    BY <1>5 DEF StartCustom, Open, OpenInv, MQTTIf, CANIf, Starting
  <2> QED
    BY <1>5, <1>a, <2>1, <2>2 DEF StartCustom, PcInv, UpInv, AddrInv, KeyInv, Starting, Stopping
<1>6. ASSUME NEW l, NEW from, NEW to, Listen(l, from, to),
             <<l, from, to>> \in {<<"webhook", "webhook", "can">>, <<"metrics", "metrics", "auth">>,
                                  <<"grpc", "grpc", "rest">>, <<"rest", "rest", "ready">>}
      PROVE  LifeInv'
  <2>1. PcInv' /\ UpInv' /\ KeyInv'
    BY <1>6 DEF Listen, PcInv, UpInv, KeyInv, Starting, Stopping, Listeners, file
  <2>2. AddrInv'
    BY <1>6 DEF Listen, AddrInv
  <2>3. OpenInv'
    BY <1>6 DEF Listen, OpenInv, MQTTIf, CANIf, Starting
  <2>4. WatchInv'
    BY <1>6 DEF Listen, WatchInv, handlers, file
  <2> QED
    BY <1>a, <2>1, <2>2, <2>3, <2>4
<1>7. CASE StartAuth
  BY <1>7, <1>a DEF StartAuth, PcInv, UpInv, AddrInv, OpenInv, WatchInv, KeyInv, MQTTIf, CANIf,
               Starting, Stopping, handlers
<1>8. CASE BecomeReady
  BY <1>8, <1>a DEF BecomeReady, PcInv, UpInv, AddrInv, OpenInv, WatchInv, KeyInv, MQTTIf, CANIf,
               Starting, Stopping, handlers, file
<1> HIDE DEF LifeInv
<1> QED
  BY <1>1, <1>2, <1>3, <1>4, <1>5, <1>6, <1>7, <1>8
     DEF Startup, ListenWebhook, ListenMetrics, ListenGRPC, ListenREST

(* Requests keep it: they need the gRPC listener, which is not there after *)
(* the drain, and otherwise only end.                                      *)
LEMMA RequestsKeepLife ==
  ASSUME LifeInv, IInv, Requests
  PROVE  LifeInv'
<1>1. UNCHANGED <<pc, cfg, up, open, reporters, ready, keys, starts>>
  BY DEF Requests, CallMQTT, MQTTAnswers, BreakerTick, BrokerComesOrGoes, Register,
         WatchRegistered, Delete, OpenStream, ClientLeaves, process, file
<1>2. PcInv' /\ UpInv' /\ AddrInv' /\ OpenInv' /\ KeyInv'
  BY <1>1 DEF LifeInv, PcInv, UpInv, AddrInv, OpenInv, KeyInv, MQTTIf, CANIf
<1>3. WatchInv'
  <2> USE DEF LifeInv, WatchInv
  <2>1. ASSUME NEW d \in Devices, Register(d) PROVE WatchInv'
    BY <1>1, <2>1 DEF Register
  <2>2. ASSUME NEW d \in Devices, WatchRegistered(d) PROVE WatchInv'
    BY <1>1, <2>2 DEF WatchRegistered, file
  <2>3. ASSUME NEW d \in Devices, Delete(d) PROVE WatchInv'
    BY <1>1, <2>3 DEF Delete, handlers
  <2>4. ASSUME NEW s \in Streams, OpenStream(s) \/ ClientLeaves(s) PROVE WatchInv'
    BY <1>1, <2>4 DEF OpenStream, ClientLeaves, file
  <2>5. CASE \/ CallMQTT \/ BreakerTick \/ BrokerComesOrGoes
             \/ \E c \in Callers : MQTTAnswers(c)
    BY <1>1, <2>5 DEF CallMQTT, BreakerTick, BrokerComesOrGoes, MQTTAnswers, handlers, file
  <2> QED
    BY <2>1, <2>2, <2>3, <2>4, <2>5 DEF Requests
<1>4. QuietInv'
  <2> SUFFICES ASSUME pc \in Stopping PROVE InFlight' = {}
    BY <1>1 DEF QuietInv
  <2>1. ~Serves
    BY DEF LifeInv, UpInv, Serves
  <2>2. registering = {} /\ streams = {} /\ \A c \in Callers : caller[c] = "idle"
    BY DEF LifeInv, QuietInv, InFlight
  <2>3. CASE BreakerTick \/ BrokerComesOrGoes
    BY <2>2, <2>3 DEF BreakerTick, BrokerComesOrGoes, Tick, EnvironmentChanges, InFlight, handlers
  <2>4. ASSUME NEW c \in Callers, MQTTAnswers(c) PROVE FALSE
    BY <2>2, <2>4 DEF MQTTAnswers, recordSuccess, recordFailure, ReturnErrCircuitOpen
  <2>5. ASSUME NEW d \in Devices, Register(d) \/ WatchRegistered(d) PROVE FALSE
    BY <2>1, <2>2, <2>5 DEF Register, WatchRegistered
  <2>6. ASSUME NEW s \in Streams, OpenStream(s) \/ ClientLeaves(s) PROVE FALSE
    BY <2>1, <2>2, <2>6 DEF OpenStream, ClientLeaves
  <2>7. ASSUME NEW d \in Devices, Delete(d) PROVE FALSE
    BY <2>1, <2>7 DEF Delete
  <2> QED
    BY <2>1, <2>3, <2>4, <2>5, <2>6, <2>7 DEF Requests, CallMQTT
<1> QED
  BY <1>2, <1>3, <1>4 DEF LifeInv

(* The end of a process leaves nothing that the invariant speaks about.    *)
LEMMA MemoryLostKeepsLife ==
  ASSUME LifeInv, MemoryLost
  PROVE  LifeInv'
  BY Zenon DEF LifeInv, MemoryLost, PcInv, UpInv, AddrInv, OpenInv, WatchInv, KeyInv, QuietInv,
         Starting, Stopping, file

(* Shutdown keeps the invariant.                                           *)
LEMMA ShutdownKeepsLife ==
  ASSUME LifeInv, Signal \/ Shutdown \/ Die
  PROVE  LifeInv'
<1> USE DEF LifeInv
<1>1. CASE Signal
  BY <1>1, Zenon DEF Signal, PcInv, UpInv, AddrInv, OpenInv, WatchInv, KeyInv, QuietInv,
              Starting, Stopping, handlers, file
<1>2. CASE GracefulStop
  BY <1>2 DEF GracefulStop, PcInv, UpInv, AddrInv, OpenInv, WatchInv, KeyInv, QuietInv,
              Starting, Stopping, handlers, file
<1>3. CASE Drained
  BY <1>3 DEF Drained, PcInv, UpInv, AddrInv, OpenInv, WatchInv, KeyInv, QuietInv, InFlight,
              Starting, Stopping, handlers, file, vars
<1>4. ASSUME NEW l, NEW from, NEW to, StopListener(l, from, to),
             from \in Stopping, to \in Stopping
      PROVE  LifeInv'
  BY <1>4 DEF StopListener, PcInv, UpInv, AddrInv, OpenInv, WatchInv, KeyInv, QuietInv, InFlight,
              Starting, Stopping, handlers, file, vars
<1>5. ASSUME NEW t, NEW from, NEW to, StopAdapter(t, from, to),
             from \in Stopping, to \in Stopping
      PROVE  LifeInv'
  BY <1>5 DEF StopAdapter, PcInv, UpInv, AddrInv, OpenInv, WatchInv, KeyInv, QuietInv, InFlight,
              Starting, Stopping, handlers, file, vars
<1>6. CASE Stop \/ Die
  BY <1>6, MemoryLostKeepsLife DEF Stop, Die
<1> HIDE DEF LifeInv
<1> QED
  BY <1>1, <1>2, <1>3, <1>4, <1>5, <1>6 DEF Shutdown, Stopping

(* Every step of the gateway is a step of the breaker, leaves the breaker  *)
(* alone, or replaces it by a new one.                                     *)
LEMMA GatewayKeepsBreaker ==
  ASSUME IInv, GatewayNext
  PROVE  IInv'
<1>1. CASE Start \/ Startup \/ Signal
  <2>1. UNCHANGED vars
    BY <1>1, Zenon DEF Start, Startup, ListenWebhook, ListenMetrics, ListenGRPC, ListenREST,
                StartMQTT, StartHTTP, StartCAN, StartCustom, StartAuth,
                BecomeReady, Listen, Signal
  <2> QED
    BY <2>1, NextIInv
<1>2. CASE Requests
  <2>1. [Next]_vars
    BY <1>2 DEF Requests, CallMQTT, MQTTAnswers, BreakerTick, BrokerComesOrGoes, Register,
                WatchRegistered, Delete, OpenStream, ClientLeaves, Next
  <2> QED
    BY <2>1, NextIInv
<1>3. CASE MemoryLost
  BY <1>3, CircuitBreakerAssumption DEF MemoryLost, IInv, TypeOK, ClosedIffFewErrors
<1>4. CASE Shutdown /\ ~Stop
  <2>1. UNCHANGED vars
    BY <1>4 DEF Shutdown, GracefulStop, Drained, StopListener, StopAdapter
  <2> QED
    BY <2>1, NextIInv
<1> QED
  BY <1>1, <1>2, <1>3, <1>4 DEF GatewayNext, Shutdown, Stop, Die

(* The invariant is inductive.                                             *)
LEMMA NextGInv == GInv /\ [GatewayNext]_gvars => GInv'
<1> SUFFICES ASSUME GInv, [GatewayNext]_gvars PROVE GInv'
  OBVIOUS
<1>1. CASE GatewayNext
  BY <1>1, StartupKeepsLife, RequestsKeepLife, ShutdownKeepsLife, GatewayKeepsBreaker
     DEF GInv, GatewayNext
<1>2. CASE UNCHANGED gvars
  <2>1. UNCHANGED vars /\ UNCHANGED <<pc, cfg, up, open, reporters, ready, watch,
                                      registering, streams, stored, keys>>
    BY <1>2 DEF gvars, process, handlers, file
  <2>2. IInv'
    BY <2>1, NextIInv, Zenon DEF GInv
  <2>3. LifeInv'
    BY <2>1 DEF GInv, LifeInv, PcInv, UpInv, AddrInv, OpenInv, WatchInv, KeyInv, QuietInv,
                MQTTIf, CANIf, InFlight, vars
  <2> QED
    BY <2>2, <2>3 DEF GInv
<1> QED
  BY <1>1, <1>2
-----------------------------------------------------------------------------
(* While /health answers 200, every listener, every configured adapter and *)
(* every stored device of an open transport is in service.                 *)
THEOREM ReadinessIsTruthful == GatewaySpec => []ReadyMeansServing
<1>1. GInv => ReadyMeansServing
  <2> SUFFICES ASSUME GInv, ready PROVE ReadyMeansServing
    BY DEF GInv, LifeInv, PcInv, ReadyMeansServing, Health
  <2>1. pc = "serving"
    BY DEF GInv, LifeInv, PcInv
  <2>2. up = Listeners /\ AddrInv /\ OpenInv /\ WatchInv /\ KeyInv
    BY <2>1 DEF GInv, LifeInv, UpInv
  <2> QED
    BY <2>1, <2>2 DEF AddrInv, OpenInv, WatchInv, KeyInv, MQTTIf, CANIf, ReadyMeansServing
<1> QED
  BY <1>1, InitGInv, NextGInv, PTL DEF GatewaySpec

(* Adapters are wired before requests can meet them, listeners go away     *)
(* only after /health says so, adapters only when no request is left, and  *)
(* a provisioned key stays.                                                *)
THEOREM StepsAreOrderly == GatewaySpec => OrderlySteps
<1> DEFINE Orderly ==
      /\ open' \ open # {} => ~Serves
      /\ reporters' \ reporters # {} => "metrics" \notin up
      /\ up \ up' # {} /\ pc' # "down" => ~ready
      /\ open \ open' # {} /\ pc' # "down" => ~Serves /\ InFlight = {}
      /\ keys # {} => keys' = keys
<1>1. ASSUME GInv, GatewayNext PROVE Orderly
  <2> USE DEF GInv, LifeInv
  <2>1. CASE Start
    BY <2>1 DEF Start, file
  <2>2. CASE StartMQTT \/ StartHTTP \/ StartCAN \/ StartCustom
    <3>1. pc \in {"mqtt", "http", "can", "custom"} /\ UNCHANGED <<up, keys>>
      BY <2>2 DEF StartMQTT, StartHTTP, StartCAN, StartCustom, file
    <3>2. up \in {{}, {"webhook"}}
      BY <1>1, <3>1 DEF UpInv
    <3>3. open \subseteq open'
      BY <2>2 DEF StartMQTT, StartHTTP, StartCAN, StartCustom, Open, Unopened
    <3> QED
      BY <3>1, <3>2, <3>3 DEF Serves
  <2>3. ASSUME NEW l, NEW from, NEW to, Listen(l, from, to) PROVE Orderly
    BY <2>3 DEF Listen, file
  <2>4. CASE StartAuth \/ BecomeReady
    BY <2>4 DEF StartAuth, BecomeReady, file
  <2>5. CASE Requests
    BY <2>5 DEF Requests, CallMQTT, MQTTAnswers, BreakerTick, BrokerComesOrGoes, Register,
                WatchRegistered, Delete, OpenStream, ClientLeaves, process, file
  <2>6. CASE Signal \/ GracefulStop \/ Drained
    BY <1>1, <2>6 DEF Signal, GracefulStop, Drained, PcInv, file
  <2>7. ASSUME NEW l, NEW from \in Stopping, NEW to, StopListener(l, from, to) PROVE Orderly
    BY <1>1, <2>7 DEF StopListener, PcInv, Stopping, file
  <2>8. ASSUME NEW t, NEW from \in Stopping, NEW to, StopAdapter(t, from, to) PROVE Orderly
    BY <1>1, <2>8 DEF StopAdapter, UpInv, QuietInv, Serves, file
  <2>9. CASE MemoryLost
    BY <2>9 DEF MemoryLost, file
  <2> HIDE DEF Orderly
  <2> QED
    BY <1>1, <2>1, <2>2, <2>3, <2>4, <2>5, <2>6, <2>7, <2>8, <2>9
       DEF GatewayNext, Startup, ListenWebhook, ListenMetrics, ListenGRPC, ListenREST,
           Shutdown, Stop, Die, Stopping
<1>2. GInv /\ [GatewayNext]_gvars => [Orderly]_gvars
  BY <1>1
<1> QED
  BY <1>2, InitGInv, NextGInv, PTL DEF GatewaySpec, OrderlySteps

(* The breaker of the running process is closed exactly while few errors   *)
(* happened in a row, across restarts.                                     *)
THEOREM BreakerSurvivesRestarts == GatewaySpec => []ClosedIffFewErrors
<1>1. GInv => ClosedIffFewErrors
  BY DEF GInv, IInv
<1> QED
  BY <1>1, InitGInv, NextGInv, PTL DEF GatewaySpec
-----------------------------------------------------------------------------
(***************************************************************************)
(* The HTTP adapter, for any devices and any number of changes at them:    *)
(* the reports of a poll loop go forward.                                  *)
(***************************************************************************)
Polled == 0..MaxVersion
Loop == [pc : {"none", "positive", "nonPositive", "running", "ended"},
         cancelled : BOOLEAN, asked : {0, 1}, resp : SUBSET Polled,
         last : Polled \cup {Absent}]

PollTypes ==
    /\ value \in [HttpDevices -> Polled]
    /\ pollCancel \subseteq webhookDevices /\ webhookDevices \subseteq HttpDevices
    /\ loop \in [HttpDevices -> Loop]
    /\ push \in [HttpDevices -> Polled \cup {Absent}]
    /\ seen \in [HttpDevices -> Polled \cup {Absent}]
    /\ overtaken \in [HttpDevices -> BOOLEAN] /\ closed \in BOOLEAN /\ panicked \in BOOLEAN

(* One poll at a time: a GET underway excludes a snapshot to compare, only *)
(* a running loop has either, and there is one loop for each device.       *)
OnePoll(d) ==
    /\ loop[d].asked = 1 => loop[d].resp = {}
    /\ \A u, v \in loop[d].resp : u = v
    /\ loop[d].pc # "running" => loop[d].asked = 0 /\ loop[d].resp = {}
    /\ ~closed /\ d \notin pollCancel => loop[d].pc = "none"

(* What was polled is not newer than the device and not older than last,   *)
(* and unless a push overtook it, last is what subscribers saw.            *)
Forward(d) ==
    /\ \A v \in loop[d].resp : v <= value[d] /\ (loop[d].last # Absent => loop[d].last <= v)
    /\ loop[d].last # Absent => /\ loop[d].last <= value[d]
                                /\ ~overtaken[d] => seen[d] = loop[d].last

PollInv == PollTypes /\ \A d \in HttpDevices : OnePoll(d) /\ Forward(d)
-----------------------------------------------------------------------------
(* New has no loops and has seen nothing.                                  *)
LEMMA InitPollInv == HttpInit => PollInv
<1> SUFFICES ASSUME HttpInit PROVE PollInv
  OBVIOUS
<1>1. NoLoop \in Loop
  BY DEF NoLoop, Loop
<1>2. 0 \in Polled
  BY HttpAssumption DEF Polled
<1>3. PollTypes
  BY <1>1, <1>2, Zenon DEF HttpInit, PollTypes
<1>4. ASSUME NEW d \in HttpDevices PROVE OnePoll(d) /\ Forward(d)
  <2>1. loop[d] = NoLoop /\ pollCancel = {}
    BY DEF HttpInit
  <2> QED
    <3>1. loop[d].asked = 0 /\ loop[d].resp = {} /\ loop[d].pc = "none" /\ loop[d].last = Absent
      BY <2>1 DEF NoLoop
    <3> QED
      BY <3>1, Zenon DEF OnePoll, Forward
<1> QED
  BY <1>3, <1>4 DEF PollInv

(* A push on its way touches neither the loops nor what was seen.          *)
LEMMA PushKeepsPollInv ==
  ASSUME PollInv, NEW d \in HttpDevices,
         DevicePushes(d) \/ PushLost(d)
  PROVE  PollInv'
<1>1. UNCHANGED <<value, pollCancel, webhookDevices, loop, closed, panicked, seen, overtaken>>
  BY Zenon DEF DevicePushes, PushLost
<1>2. push' \in [HttpDevices -> Polled \cup {Absent}]
  <2>1. push \in [HttpDevices -> Polled \cup {Absent}] /\ value[d] \in Polled
    BY DEF PollInv, PollTypes
  <2>2. \E v \in Polled \cup {Absent} : push' = [push EXCEPT ![d] = v]
    BY <2>1, Zenon DEF DevicePushes, PushLost
  <2> QED
    BY <2>1, <2>2
<1> QED
  <2>1. PollTypes'
    BY <1>1, <1>2 DEF PollInv, PollTypes
  <2>2. ASSUME NEW x \in HttpDevices PROVE OnePoll(x)' /\ Forward(x)'
    BY <1>1, Zenon DEF PollInv, OnePoll, Forward
  <2> QED
    BY <2>1, <2>2, Zenon DEF PollInv

(* A step of one loop, after which that loop is in order again.            *)
LEMMA OneLoop ==
  ASSUME PollInv, NEW d \in HttpDevices, NEW l \in Loop,
         loop' = [loop EXCEPT ![d] = l],
         UNCHANGED <<value, closed, push>>,
         panicked' \in BOOLEAN,
         seen' \in [HttpDevices -> Polled \cup {Absent}],
         overtaken' \in [HttpDevices -> BOOLEAN],
         \A x \in HttpDevices \ {d} : seen'[x] = seen[x] /\ overtaken'[x] = overtaken[x],
         pollCancel' \subseteq webhookDevices' /\ webhookDevices' \subseteq HttpDevices,
         \A x \in HttpDevices \ {d} : x \in pollCancel => x \in pollCancel',
         OnePoll(d)', Forward(d)'
  PROVE  PollInv'
<1>0. loop \in [HttpDevices -> Loop]
  BY Zenon DEF PollInv, PollTypes
<1>1. loop' \in [HttpDevices -> Loop] /\ \A x \in HttpDevices \ {d} : loop'[x] = loop[x]
  BY <1>0, Zenon
<1>2. PollTypes'
  BY <1>1 DEF PollInv, PollTypes
<1>3. ASSUME NEW x \in HttpDevices \ {d} PROVE OnePoll(x)' /\ Forward(x)'
  <2>1. OnePoll(x) /\ Forward(x)
    BY Zenon DEF PollInv
  <2>2. /\ loop'[x] = loop[x] /\ value'[x] = value[x] /\ closed' = closed
        /\ seen'[x] = seen[x] /\ overtaken'[x] = overtaken[x]
        /\ x \in pollCancel => x \in pollCancel'
    BY <1>1, Zenon
  <2>3. OnePoll(x)'
    BY <2>1, <2>2 DEF OnePoll
  <2>4. Forward(x)'
    BY <2>1, <2>2, Zenon DEF Forward
  <2> QED
    BY <2>3, <2>4
<1> QED
  BY <1>2, <1>3, Zenon DEF PollInv

(* Every step keeps the polls of a loop one after the other, and what they *)
(* found in order.                                                         *)
LEMMA NextPollInv == PollInv /\ [HttpNext]_httpVars => PollInv'
<1> SUFFICES ASSUME PollInv, [HttpNext]_httpVars PROVE PollInv'
  OBVIOUS
<1>0. /\ PollTypes
      /\ \A d \in HttpDevices : /\ OnePoll(d) /\ Forward(d) /\ loop[d] \in Loop
                                /\ value[d] \in Polled
      /\ \A v \in Polled : v \in Nat
  BY HttpAssumption DEF PollInv, PollTypes, Polled
<1>1. ASSUME NEW d \in HttpDevices, WatchDevice(d) PROVE PollInv'
  <2>1. PICK label \in Intervals : loop' = [loop EXCEPT ![d].pc = PollInterval(label)]
    BY <1>1, Zenon DEF WatchDevice
  <2> DEFINE l == [loop[d] EXCEPT !.pc = PollInterval(label)]
  <2>2. /\ l \in Loop /\ l.pc = PollInterval(label) /\ l.pc # "running"
        /\ l.asked = loop[d].asked /\ l.resp = loop[d].resp /\ l.last = loop[d].last
    BY <1>0 DEF Loop, PollInterval, Intervals
  <2>3. loop' = [loop EXCEPT ![d] = l] /\ loop'[d] = l
    BY <1>0, <2>1 DEF PollTypes
  <2>4. loop[d].pc = "none" /\ loop[d].asked = 0 /\ loop[d].resp = {}
    BY <1>0, <1>1 DEF WatchDevice, OnePoll
  <2> HIDE DEF l
  <2>5. OnePoll(d)' /\ Forward(d)'
    BY <1>0, <1>1, <2>2, <2>3, <2>4 DEF WatchDevice, OnePoll, Forward
  <2> QED
    BY <1>0, <1>1, <2>2, <2>3, <2>5, OneLoop, Zenon DEF WatchDevice, PollTypes
<1>2. ASSUME NEW d \in HttpDevices, LoopBegins(d) PROVE PollInv'
  <2>1. CASE UNCHANGED loop
    <3>1. UNCHANGED <<value, pollCancel, webhookDevices, loop, closed, push, seen, overtaken>>
      BY <1>2, <2>1 DEF LoopBegins
    <3>2. panicked' \in BOOLEAN
      BY <1>0, <1>2, Zenon DEF LoopBegins, PollTypes
    <3>3. PollTypes'
      BY <1>0, <3>1, <3>2 DEF PollTypes
    <3>4. ASSUME NEW x \in HttpDevices PROVE OnePoll(x)' /\ Forward(x)'
      BY <1>0, <3>1, Zenon DEF OnePoll, Forward
    <3> QED
      BY <3>3, <3>4 DEF PollInv
  <2>2. CASE loop[d].pc = "positive" /\ ~UNCHANGED loop
    <3> DEFINE l == [loop[d] EXCEPT !.pc = "running", !.asked = 1]
    <3>1. /\ l \in Loop /\ l.pc = "running" /\ l.asked = 1
          /\ l.resp = loop[d].resp /\ l.last = loop[d].last
      BY <1>0, Zenon DEF Loop
    <3>2. loop' = [loop EXCEPT ![d] = l] /\ loop'[d] = l
      BY <1>0, <1>2, <2>2, Zenon DEF LoopBegins, PollTypes
    <3> HIDE DEF l
    <3>3. OnePoll(d)' /\ Forward(d)'
      BY <1>0, <1>2, <2>2, <3>1, <3>2 DEF LoopBegins, OnePoll, Forward
    <3> QED
      BY <1>0, <1>2, <2>2, <3>1, <3>2, <3>3, OneLoop, Zenon DEF LoopBegins, PollTypes
  <2> QED
    BY <1>2, <2>1, <2>2 DEF LoopBegins
<1>3. ASSUME NEW d \in HttpDevices, LoopTicks(d) PROVE PollInv'
  <2> DEFINE l == [loop[d] EXCEPT !.asked = 1]
  <2>1. /\ l \in Loop /\ l.pc = loop[d].pc /\ l.asked = 1
        /\ l.resp = loop[d].resp /\ l.last = loop[d].last
    BY <1>0 DEF Loop
  <2>2. loop' = [loop EXCEPT ![d] = l] /\ loop'[d] = l
    BY <1>0, <1>3 DEF LoopTicks, PollTypes
  <2> HIDE DEF l
  <2>3. OnePoll(d)' /\ Forward(d)'
    BY <1>0, <1>3, <2>1, <2>2 DEF LoopTicks, OnePoll, Forward
  <2> QED
    BY <1>0, <1>3, <2>1, <2>2, <2>3, OneLoop, Zenon DEF LoopTicks, PollTypes
<1>4. ASSUME NEW d \in HttpDevices, PollAnswered(d) PROVE PollInv'
  <2> DEFINE l == [loop[d] EXCEPT !.asked = @ - 1, !.resp = @ \cup {value[d]}]
  <2>1. loop[d].asked = 1 /\ loop[d].resp = {}
    BY <1>0, <1>4 DEF PollAnswered, Loop, OnePoll
  <2>2. /\ l \in Loop /\ l.pc = loop[d].pc /\ l.asked = 0
        /\ l.resp = {value[d]} /\ l.last = loop[d].last
    <3>1. loop[d].resp \cup {value[d]} = {value[d]} /\ {value[d]} \in SUBSET Polled
      BY <1>0, <2>1
    <3>2. l = [loop[d] EXCEPT !.asked = 0, !.resp = {value[d]}]
      BY <2>1, <3>1
    <3> HIDE DEF l
    <3> QED
      BY <1>0, <3>1, <3>2, Zenon DEF Loop
  <2>3. loop' = [loop EXCEPT ![d] = l] /\ loop'[d] = l
    BY <1>0, <1>4, Zenon DEF PollAnswered, PollTypes
  <2> HIDE DEF l
  <2>4. OnePoll(d)'
    <3>1. loop[d].pc = "running" /\ UNCHANGED <<closed, pollCancel>>
      BY <1>0, <1>4, <2>1 DEF PollAnswered, OnePoll
    <3>2. (~closed /\ d \notin pollCancel) => FALSE
      BY <1>0, <3>1 DEF OnePoll
    <3> QED
      BY <2>2, <2>3, <3>1, <3>2 DEF OnePoll
  <2>5. UNCHANGED <<value, seen, overtaken>> /\ value[d] \in Nat /\ value[d] <= value[d]
    BY <1>0, <1>4 DEF PollAnswered
  <2>6. Forward(d)'
    BY <1>0, <2>2, <2>3, <2>5 DEF Forward
  <2> QED
    BY <1>0, <1>4, <2>2, <2>3, <2>4, <2>6, OneLoop, Zenon DEF PollAnswered, PollTypes
<1>5. ASSUME NEW d \in HttpDevices, PollFails(d) PROVE PollInv'
  <2> DEFINE l == [loop[d] EXCEPT !.asked = @ - 1]
  <2>1. loop[d].asked = 1
    BY <1>0, <1>5 DEF PollFails, Loop
  <2>2. /\ l \in Loop /\ l.pc = loop[d].pc /\ l.asked = 0
        /\ l.resp = loop[d].resp /\ l.last = loop[d].last
    BY <1>0, <2>1 DEF Loop
  <2>3. loop' = [loop EXCEPT ![d] = l] /\ loop'[d] = l
    BY <1>0, <1>5 DEF PollFails, PollTypes
  <2> HIDE DEF l
  <2>4. OnePoll(d)' /\ Forward(d)'
    BY <1>0, <1>5, <2>1, <2>2, <2>3 DEF PollFails, OnePoll, Forward
  <2> QED
    BY <1>0, <1>5, <2>2, <2>3, <2>4, OneLoop, Zenon DEF PollFails, PollTypes
<1>6. ASSUME NEW d \in HttpDevices, PollApplies(d) PROVE PollInv'
  <2>1. PICK v \in loop[d].resp :
          /\ loop' = [loop EXCEPT ![d].resp = @ \ {v}, ![d].last = v]
          /\ IF v = loop[d].last THEN UNCHANGED <<seen, overtaken>>
             ELSE /\ seen' = [seen EXCEPT ![d] = v]
                  /\ overtaken' = [overtaken EXCEPT ![d] = FALSE]
    BY <1>6, Zenon DEF PollApplies
  <2> DEFINE l == [loop[d] EXCEPT !.resp = @ \ {v}, !.last = v]
  <2>2. loop[d].resp = {v} /\ v \in Polled
    BY <1>0 DEF Loop, OnePoll
  <2>3. /\ l \in Loop /\ l.pc = loop[d].pc /\ l.asked = loop[d].asked
        /\ l.resp = {} /\ l.last = v
    BY <1>0, <2>2, Zenon DEF Loop
  <2>4. loop' = [loop EXCEPT ![d] = l] /\ loop'[d] = l
    BY <1>0, <2>1, Zenon DEF PollTypes
  <2>5. /\ seen' \in [HttpDevices -> Polled \cup {Absent}]
        /\ overtaken' \in [HttpDevices -> BOOLEAN]
        /\ \A x \in HttpDevices \ {d} : seen'[x] = seen[x] /\ overtaken'[x] = overtaken[x]
        /\ v # loop[d].last => seen'[d] = v
        /\ v = loop[d].last => seen'[d] = seen[d] /\ overtaken'[d] = overtaken[d]
    <3>1. /\ seen \in [HttpDevices -> Polled \cup {Absent}]
          /\ overtaken \in [HttpDevices -> BOOLEAN]
      BY <1>0 DEF PollTypes
    <3>2. CASE v = loop[d].last
      BY <2>1, <3>1, <3>2
    <3>3. CASE v # loop[d].last
      <4>1. /\ seen' = [seen EXCEPT ![d] = v]
            /\ overtaken' = [overtaken EXCEPT ![d] = FALSE]
        BY <2>1, <3>3
      <4> QED
        BY <2>2, <3>1, <3>3, <4>1, Zenon
    <3> QED
      BY <3>2, <3>3, Zenon
  <2> HIDE DEF l
  <2>6. v # Absent /\ v <= value[d]
    BY <1>0, <2>2, HttpAssumption, Zenon DEF Forward
  <2>7. OnePoll(d)' /\ Forward(d)'
    BY <1>0, <1>6, <2>2, <2>3, <2>4, <2>5, <2>6, Zenon DEF PollApplies, OnePoll, Forward
  <2> QED
    BY <1>0, <1>6, <2>3, <2>4, <2>5, <2>7, OneLoop, Zenon DEF PollApplies, PollTypes
<1>7. ASSUME NEW d \in HttpDevices, LoopEnds(d) PROVE PollInv'
  <2> DEFINE l == [loop[d] EXCEPT !.pc = "ended"]
  <2>1. /\ l \in Loop /\ l.pc = "ended" /\ l.asked = loop[d].asked
        /\ l.resp = loop[d].resp /\ l.last = loop[d].last
    BY <1>0 DEF Loop
  <2>2. loop' = [loop EXCEPT ![d] = l] /\ loop'[d] = l
    BY <1>0, <1>7 DEF LoopEnds, PollTypes
  <2> HIDE DEF l
  <2>3. OnePoll(d)' /\ Forward(d)'
    BY <1>0, <1>7, <2>1, <2>2 DEF LoopEnds, OnePoll, Forward
  <2> QED
    BY <1>0, <1>7, <2>1, <2>2, <2>3, OneLoop, Zenon DEF LoopEnds, PollTypes
<1>8. CASE Close
  <2>1. loop' \in [HttpDevices -> Loop]
    <3>1. ASSUME NEW d \in HttpDevices
          PROVE  [loop[d] EXCEPT !.cancelled = d \in pollCancel] \in Loop
      <4>1. loop[d] \in Loop /\ (d \in pollCancel) \in BOOLEAN
        BY <1>0
      <4> QED
        BY <4>1, Zenon DEF Loop
    <3> QED
      BY <1>8, <3>1 DEF Close
  <2>2. \A d \in HttpDevices : /\ loop'[d].pc = loop[d].pc /\ loop'[d].asked = loop[d].asked
                               /\ loop'[d].resp = loop[d].resp /\ loop'[d].last = loop[d].last
    BY <1>0, <1>8 DEF Close, Loop
  <2>3. PollTypes'
    BY <1>0, <1>8, <2>1 DEF Close, PollTypes
  <2>4. ASSUME NEW d \in HttpDevices PROVE OnePoll(d)' /\ Forward(d)'
    BY <1>0, <1>8, <2>2 DEF Close, OnePoll, Forward
  <2> QED
    BY <2>3, <2>4 DEF PollInv
<1>9. ASSUME NEW d \in HttpDevices, DeviceChanges(d) PROVE PollInv'
  <2>1. /\ value' \in [HttpDevices -> Polled]
        /\ \A x \in HttpDevices : value[x] <= value'[x] /\ value'[x] \in Nat
        /\ UNCHANGED <<pollCancel, webhookDevices, loop, closed, panicked, push, seen, overtaken>>
    BY <1>0, <1>9, HttpAssumption DEF DeviceChanges, PollTypes, Polled
  <2>2. PollTypes'
    BY <1>0, <2>1 DEF PollTypes
  <2>3. ASSUME NEW x \in HttpDevices PROVE OnePoll(x)' /\ Forward(x)'
    <3>1. OnePoll(x)'
      BY <1>0, <2>1 DEF OnePoll
    <3>2. Forward(x)'
      BY <1>0, <2>1 DEF Forward, Loop
    <3> QED
      BY <3>1, <3>2
  <2> QED
    BY <2>2, <2>3 DEF PollInv
<1>10. ASSUME NEW d \in HttpDevices, handleWebhookEvent(d) PROVE PollInv'
  <2>1. /\ push' \in [HttpDevices -> Polled \cup {Absent}]
        /\ seen' \in [HttpDevices -> Polled \cup {Absent}]
        /\ overtaken' \in [HttpDevices -> BOOLEAN]
        /\ \A x \in HttpDevices : ~overtaken'[x] => seen'[x] = seen[x] /\ overtaken'[x] = overtaken[x]
        /\ UNCHANGED <<value, pollCancel, webhookDevices, loop, closed, panicked>>
    <3>1. push \in [HttpDevices -> Polled \cup {Absent}] /\ seen \in [HttpDevices -> Polled \cup {Absent}]
          /\ overtaken \in [HttpDevices -> BOOLEAN] /\ push[d] \in Polled \cup {Absent}
      BY <1>0 DEF PollTypes
    <3>2. push' \in [HttpDevices -> Polled \cup {Absent}]
      BY <1>10, <3>1 DEF handleWebhookEvent
    <3>3. CASE d \in webhookDevices
      <4>1. seen' = [seen EXCEPT ![d] = push[d]] /\ overtaken' = [overtaken EXCEPT ![d] = TRUE]
        BY <1>10, <3>3 DEF handleWebhookEvent
      <4>2. seen' \in [HttpDevices -> Polled \cup {Absent}] /\ overtaken' \in [HttpDevices -> BOOLEAN]
        BY <3>1, <4>1
      <4>3. \A x \in HttpDevices : ~overtaken'[x] => seen'[x] = seen[x] /\ overtaken'[x] = overtaken[x]
        BY <3>1, <4>1, Zenon
      <4> QED
        BY <1>10, <3>2, <4>2, <4>3 DEF handleWebhookEvent
    <3>4. CASE d \notin webhookDevices
      <4>1. UNCHANGED <<seen, overtaken>>
        BY <1>10, <3>4 DEF handleWebhookEvent
      <4> QED
        BY <1>10, <3>1, <3>2, <4>1 DEF handleWebhookEvent
    <3> QED
      BY <3>3, <3>4
  <2>2. PollTypes'
    BY <1>0, <2>1 DEF PollTypes
  <2>3. ASSUME NEW x \in HttpDevices PROVE OnePoll(x)' /\ Forward(x)'
    BY <1>0, <2>1, Zenon DEF OnePoll, Forward
  <2> QED
    BY <2>2, <2>3 DEF PollInv
<1>11. CASE UNCHANGED httpVars
  <2>1. PollTypes'
    BY <1>0, <1>11 DEF httpVars, PollTypes
  <2>2. ASSUME NEW x \in HttpDevices PROVE OnePoll(x)' /\ Forward(x)'
    BY <1>0, <1>11, Zenon DEF httpVars, OnePoll, Forward
  <2> QED
    BY <2>1, <2>2, Zenon DEF PollInv
<1> QED
  BY <1>1, <1>2, <1>3, <1>4, <1>5, <1>6, <1>7, <1>8, <1>9, <1>10, <1>11, PushKeepsPollInv
     DEF HttpNext, Poll
-----------------------------------------------------------------------------
(* The polls of one loop never go back to an older value, whatever pushes, *)
(* failures, changes and Close come in between (poll, pollLoop).           *)
THEOREM PollsGoForward == HttpSpec => LoopReportsForward
<1>1. PollInv => HttpTypeOK
  <2> SUFFICES ASSUME PollInv PROVE HttpTypeOK
    OBVIOUS
  <2>1. \A d \in HttpDevices : loop[d] \in Loop
    BY DEF PollInv, PollTypes
  <2> QED
    BY <2>1, HttpAssumption DEF PollInv, PollTypes, HttpTypeOK, Loop, Polled
<1>2. ASSUME PollInv, PollInv', [HttpNext]_httpVars, NEW d \in HttpDevices,
             loop'[d].last # loop[d].last, loop[d].last # Absent
      PROVE  /\ loop'[d].last > loop[d].last
             /\ ~overtaken'[d] => seen'[d] = loop'[d].last
  <2>0. loop \in [HttpDevices -> Loop] /\ \A x \in HttpDevices : loop[x] \in Loop
    BY <1>2 DEF PollInv, PollTypes
  <2>1. ASSUME NEW x \in HttpDevices, PollApplies(x)
        PROVE  loop'[d].last \in loop[d].resp
    BY <1>2, <2>0, <2>1 DEF PollApplies, Loop
  <2>2. ASSUME NEW x \in HttpDevices,
               \/ WatchDevice(x) \/ LoopBegins(x) \/ LoopTicks(x)
               \/ PollAnswered(x) \/ PollFails(x) \/ LoopEnds(x)
        PROVE  FALSE
    <3>1. CASE WatchDevice(x)
      BY <1>2, <2>0, <3>1 DEF WatchDevice, Loop
    <3>2. CASE LoopBegins(x)
      BY <1>2, <2>0, <3>2 DEF LoopBegins, Loop
    <3>3. CASE LoopTicks(x) \/ LoopEnds(x)
      BY <1>2, <2>0, <3>3 DEF LoopTicks, LoopEnds, Loop
    <3>4. CASE PollAnswered(x)
      BY <1>2, <2>0, <3>4 DEF PollAnswered, Loop
    <3>5. CASE PollFails(x)
      BY <1>2, <2>0, <3>5 DEF PollFails, Loop
    <3> QED
      BY <2>2, <3>1, <3>2, <3>3, <3>4, <3>5
  <2>3. ASSUME Close PROVE FALSE
    BY <1>2, <2>0, <2>3 DEF Close, Loop
  <2>4. ~UNCHANGED loop
    BY <1>2
  <2>5. loop'[d].last \in loop[d].resp
    <3>1. ASSUME NEW x \in HttpDevices,
                 DevicePushes(x) \/ PushLost(x) \/ handleWebhookEvent(x) \/ DeviceChanges(x)
          PROVE  UNCHANGED loop
      BY <3>1 DEF DevicePushes, PushLost, handleWebhookEvent, DeviceChanges
    <3>2. ~UNCHANGED httpVars
      BY <2>4 DEF httpVars
    <3> QED
      BY <1>2, <2>1, <2>2, <2>3, <2>4, <3>1, <3>2, Zenon DEF HttpNext, Poll
  <2>6. loop[d].last <= loop'[d].last /\ loop[d].last \in Nat /\ loop'[d].last \in Nat
    <3>1. Forward(d) /\ loop[d] \in Loop
      BY <1>2, <2>0 DEF PollInv
    <3> QED
      <4>1. loop[d].last <= loop'[d].last
        BY <1>2, <2>5, <3>1, Zenon DEF Forward
      <4>2. loop[d].last \in Polled /\ loop[d].resp \subseteq Polled
        BY <1>2, <3>1 DEF Loop
      <4> QED
        BY <2>5, <4>1, <4>2, HttpAssumption DEF Polled
  <2>7. loop'[d].last # Absent /\ Forward(d)'
    BY <1>2, <2>6, HttpAssumption DEF PollInv
  <2>8. ~overtaken'[d] => seen'[d] = loop'[d].last
    BY <2>7 DEF Forward
  <2> QED
    BY <1>2, <2>6, <2>8
<1>3. HttpSpec => []PollInv
  BY InitPollInv, NextPollInv, PTL DEF HttpSpec
<1>4. PollInv /\ PollInv' /\ [HttpNext]_httpVars
      => [\A d \in HttpDevices :
             loop'[d].last # loop[d].last /\ loop[d].last # Absent
             => /\ loop'[d].last > loop[d].last
                /\ ~overtaken'[d] => seen'[d] = loop'[d].last]_httpVars
  BY <1>2
<1> QED
  BY <1>1, <1>3, <1>4, PTL DEF HttpSpec, LoopReportsForward
=============================================================================
