------------------------------- MODULE Gateway -------------------------------
(***************************************************************************)
(* The life of the gateway process (cmd/gateway/main.go): main starts the  *)
(* parts one after the other, serves until a signal, and stops them again; *)
(* it may also die at any point, by os.Exit in a failing step, a panic or  *)
(* a kill.  The registry file survives, memory does not.                   *)
(*                                                                         *)
(* CircuitBreaker is composed in: its callers are RPC handlers that reach  *)
(* the MQTT adapter, so they need a gRPC server and that adapter, the      *)
(* shutdown waits for them, and a new process has a new breaker.  The      *)
(* other handlers kept are the ones that the life of the process depends   *)
(* on: RegisterDevice, which watches what startup has not watched, and the *)
(* open streams of Subscribe and StreamCommands.                           *)
(***************************************************************************)
EXTENDS CircuitBreaker, Config

CONSTANTS
    Devices,    \* device IDs
    Transport,  \* the transport each device is registered with
    Registered, \* names in the registry of package adapter, filled by init()
    Reporting,  \* transports that implement health.Reporter
    Streams,    \* clients of Subscribe and StreamCommands
    MaxStarts   \* bound: times the process is started

BuiltIn == {"mqtt", "http", "can"}

VARIABLES
    pc,           \* where main is; "down" when there is no process
    cfg,          \* the resolved settings, {} when there is no process
    up,           \* listeners that are bound and served
    open,         \* transports connected or opened, and set in the service
    reporters,    \* Checker.rep
    ready,        \* Checker.ready
    watch,        \* what came of the last WatchDevice of each device
    registering,  \* RegisterDevice between reg.Register and WatchDevice
    streams,      \* open streams
    stored,       \* devices in the registry file
    keys,         \* the bootstrap subject's key in the registry file
    starts        \* times the process was started

process == <<pc, cfg, up, open, reporters, ready>>
handlers == <<watch, registering, streams>>
file == <<stored, keys>>
gvars == <<vars, process, handlers, file, starts>>

GatewayInit ==
    /\ Init
    /\ pc = "down" /\ cfg = {} /\ up = {} /\ open = {}
    /\ reporters = {} /\ ready = FALSE
    /\ watch = [d \in Devices |-> "none"] /\ registering = {} /\ streams = {}
    /\ stored \in SUBSET Devices /\ keys = {}
    /\ starts = 0
-----------------------------------------------------------------------------
(* Startup.  A step whose guard is false calls os.Exit, see Die.           *)

(* Log level, settings, the certificate check, and the registry file.      *)
Start ==
    /\ pc = "down" /\ starts < MaxStarts
    /\ starts' = starts + 1
    /\ \E d \in Deployments :
          \/ /\ Startable(d)
             /\ pc' = "mqtt" /\ cfg' = {Settings(d)}
          \/ ~Startable(d) /\ UNCHANGED <<pc, cfg>>
    /\ UNCHANGED <<vars, up, open, reporters, ready, handlers, file>>

(* The watch loop over the stored devices of some transports; WatchDevice  *)
(* may refuse any of them, which main only logs.                           *)
WatchStored(transports) ==
    LET listed == {d \in stored : Transport[d] \in transports}
    IN  \E failing \in SUBSET listed :
            watch' = [d \in Devices |->
                        IF d \in failing THEN "refused"
                        ELSE IF d \in listed THEN "watched" ELSE watch[d]]

(* New, Connect or Open, Set...Adapter, Register, and the watch loop.      *)
Open(transports) ==
    /\ open' = open \union transports
    /\ reporters' = reporters \union (transports \intersect Reporting)
    /\ WatchStored(transports)

Unopened == UNCHANGED <<open, reporters, watch>>

StartMQTT ==
    /\ pc = "mqtt" /\ pc' = "http"
    /\ IF The(cfg).mqtt THEN Open({"mqtt"}) ELSE Unopened
    /\ UNCHANGED <<vars, cfg, up, ready, registering, streams, file, starts>>

StartHTTP ==
    /\ pc = "http" /\ pc' = "webhook"
    /\ Open({"http"})
    /\ UNCHANGED <<vars, cfg, up, ready, registering, streams, file, starts>>

StartCAN ==
    /\ pc = "can" /\ pc' = "custom"
    /\ IF The(cfg).can THEN The(cfg).dbc /\ Open({"can"}) ELSE Unopened
    /\ UNCHANGED <<vars, cfg, up, ready, registering, streams, file, starts>>

(* adapter.Lookup knows every name of the list and none is a built-in one. *)
StartCustom ==
    /\ pc = "custom" /\ pc' = "metrics"
    /\ The(cfg).custom \subseteq Registered \ BuiltIn
    /\ Open(The(cfg).custom)
    /\ UNCHANGED <<vars, cfg, up, ready, registering, streams, file, starts>>

(* A bind as it was before it was made synchronous: the failure shows only *)
(* in the goroutine, and main goes on.                                     *)
ListenInBackground(l, from, to) ==
    /\ pc = from /\ pc' = to
    /\ up' = IF \A m \in up : The(cfg).addr[m] # The(cfg).addr[l]
             THEN up \union {l} ELSE up
    /\ UNCHANGED <<vars, cfg, open, reporters, ready, handlers, file, starts>>

(* net.Listen and the goroutine that serves: the address must be free.     *)
Listen(l, from, to) ==
    /\ pc = from /\ pc' = to
    /\ \A m \in up : The(cfg).addr[m] # The(cfg).addr[l]
    /\ up' = up \union {l}
    /\ UNCHANGED <<vars, cfg, open, reporters, ready, handlers, file, starts>>

ListenWebhook == Listen("webhook", "webhook", "can")
ListenMetrics == Listen("metrics", "metrics", "auth")
ListenGRPC == Listen("grpc", "grpc", "rest")
ListenREST == Listen("rest", "rest", "ready")

(* NewAPIKeyStore, and Has and Put for the bootstrap key.                  *)
StartAuth ==
    /\ pc = "auth" /\ pc' = "grpc"
    /\ The(cfg).key # {"malformed"}
    /\ keys' = IF keys = {} THEN The(cfg).key ELSE keys
    /\ UNCHANGED <<vars, cfg, up, open, reporters, ready, handlers, stored, starts>>

BecomeReady ==
    /\ pc = "ready" /\ pc' = "serving"
    /\ ready' = TRUE
    /\ UNCHANGED <<vars, cfg, up, open, reporters, handlers, file, starts>>

Startup ==
    \/ StartMQTT \/ StartHTTP \/ ListenWebhook \/ StartCAN \/ StartCustom
    \/ ListenMetrics \/ StartAuth \/ ListenGRPC \/ ListenREST \/ BecomeReady
-----------------------------------------------------------------------------
(* Requests, from the moment the gRPC listener is bound.                   *)
Serves == "grpc" \in up

CallMQTT ==
    /\ Serves /\ "mqtt" \in open
    /\ Attempt
    /\ UNCHANGED <<process, handlers, file, starts>>

(* The rest of the breaker: answers, errors and time.                      *)
MQTTAnswers(c) ==
    /\ recordSuccess(c) \/ recordFailure(c) \/ ReturnErrCircuitOpen(c)
    /\ UNCHANGED <<process, handlers, file, starts>>

BreakerTick == Tick /\ UNCHANGED <<process, handlers, file, starts>>
BrokerComesOrGoes == EnvironmentChanges /\ UNCHANGED <<process, handlers, file, starts>>

(* One registration of a device at a time.                                 *)
Register(d) ==
    /\ Serves
    /\ d \notin stored \union registering
    /\ stored' = stored \union {d}
    /\ registering' = registering \union {d}
    /\ UNCHANGED <<vars, process, watch, streams, keys, starts>>

(* WatchDevice of the device's transport, best effort.                     *)
WatchRegistered(d) ==
    /\ d \in registering
    /\ registering' = registering \ {d}
    /\ IF Transport[d] \in open
       THEN \E w \in {"watched", "refused"} : watch' = [watch EXCEPT ![d] = w]
       ELSE UNCHANGED watch
    /\ UNCHANGED <<vars, process, streams, file, starts>>

Delete(d) ==
    /\ Serves
    /\ d \in stored
    /\ stored' = stored \ {d}
    /\ UNCHANGED <<vars, process, handlers, keys, starts>>

OpenStream(s) ==
    /\ Serves
    /\ s \notin streams
    /\ streams' = streams \union {s}
    /\ UNCHANGED <<vars, process, watch, registering, file, starts>>

(* The client goes away; neither handler ends for any other reason.        *)
ClientLeaves(s) ==
    /\ s \in streams
    /\ streams' = streams \ {s}
    /\ UNCHANGED <<vars, process, watch, registering, file, starts>>

Requests ==
    \/ CallMQTT
    \/ \E c \in Callers : MQTTAnswers(c)
    \/ BreakerTick \/ BrokerComesOrGoes
    \/ \E d \in Devices : Register(d) \/ WatchRegistered(d) \/ Delete(d)
    \/ \E s \in Streams : OpenStream(s) \/ ClientLeaves(s)
-----------------------------------------------------------------------------
(* Shutdown.                                                               *)
InFlight ==
    registering \union streams \union {c \in Callers : caller[c] # "idle"}

(* SIGINT or SIGTERM once signal.Notify has run.                           *)
Signal ==
    /\ pc = "serving" /\ pc' = "signalled"
    /\ ready' = FALSE
    /\ UNCHANGED <<vars, cfg, up, open, reporters, handlers, file, starts>>

(* A drain that leaves the listener open, and one that does not wait.      *)
GracefulStopStillAccepting ==
    /\ pc = "signalled" /\ pc' = "draining"
    /\ UNCHANGED <<vars, cfg, up, open, reporters, ready, handlers, file, starts>>

DrainedWithoutWaiting ==
    /\ pc = "draining" /\ pc' = "stop_rest"
    /\ UNCHANGED <<vars, cfg, up, open, reporters, ready, handlers, file, starts>>

(* GracefulStop closes the gRPC listener, then waits for every handler.    *)
GracefulStop ==
    /\ pc = "signalled" /\ pc' = "draining"
    /\ up' = up \ {"grpc"}
    /\ UNCHANGED <<vars, cfg, open, reporters, ready, handlers, file, starts>>

Drained ==
    /\ pc = "draining" /\ pc' = "stop_rest"
    /\ InFlight = {}
    /\ UNCHANGED <<vars, cfg, up, open, reporters, ready, handlers, file, starts>>

(* Shutdown of an HTTP server closes its listener first, and gives up      *)
(* waiting for its requests when the shared five seconds are over.         *)
StopListener(l, from, to) ==
    /\ pc = from /\ pc' = to
    /\ up' = up \ {l}
    /\ UNCHANGED <<vars, cfg, open, reporters, ready, handlers, file, starts>>

(* Disconnect or Close, where there is such an adapter.                    *)
StopAdapter(t, from, to) ==
    /\ pc = from /\ pc' = to
    /\ open' = open \ {t}
    /\ UNCHANGED <<vars, cfg, up, reporters, ready, handlers, file, starts>>

(* The end of the process, orderly or not: only the file is left, and the  *)
(* next process has a new breaker.                                         *)
MemoryLost ==
    /\ pc' = "down" /\ cfg' = {} /\ up' = {} /\ open' = {}
    /\ reporters' = {} /\ ready' = FALSE
    /\ watch' = [d \in Devices |-> "none"] /\ registering' = {} /\ streams' = {}
    /\ state' = "closed" /\ consecutiveErrs' = 0
    /\ elapsed' = circuitBreakerOpenDuration
    /\ caller' = [c \in Callers |-> "idle"]
    /\ UNCHANGED <<healthy, file, starts>>

(* httpAdapter.Close, presenceCancel, and the deferred reg.Close.          *)
Stop == pc = "stop_http" /\ MemoryLost

Shutdown ==
    \/ GracefulStop \/ Drained
    \/ StopListener("rest", "stop_rest", "stop_mqtt")
    \/ StopAdapter("mqtt", "stop_mqtt", "stop_can")
    \/ StopAdapter("can", "stop_can", "stop_webhook")
    \/ StopListener("webhook", "stop_webhook", "stop_metrics")
    \/ StopListener("metrics", "stop_metrics", "stop_http")
    \/ Stop

(* os.Exit, a panic, a kill, or a signal before signal.Notify.             *)
Die == pc # "down" /\ MemoryLost

GatewayNext == Start \/ Startup \/ Requests \/ Signal \/ Shutdown \/ Die

GatewaySpec == GatewayInit /\ [][GatewayNext]_gvars

(* main runs, admitted requests end (requestTimeout), and time passes.     *)
(* Nothing is assumed of clients, of signals or of crashes.                *)
FairGatewaySpec ==
    /\ GatewaySpec
    /\ WF_gvars(Startup) /\ WF_gvars(Shutdown)
    /\ \A c \in Callers : WF_gvars(MQTTAnswers(c))
    /\ \A d \in Devices : WF_gvars(WatchRegistered(d))
    /\ WF_gvars(BreakerTick)
-----------------------------------------------------------------------------
(* GET /health: the status, and per reporter whether it is degraded.       *)
Health ==
    IF ~ready THEN [status |-> 503]
    ELSE [status   |-> 200,
          degraded |-> {r \in reporters : r = "mqtt" /\ state = "open"}]

(* While /health answers 200 the gateway can do what it is configured for: *)
(* all four listeners are bound, each to an address of its own; every      *)
(* configured adapter is open and every one that can report is reported    *)
(* on; every stored device of an open transport has been passed to its     *)
(* adapter, or its RegisterDevice call is about to; and a subject with a   *)
(* bootstrap key has one (main up to SetReady(true), and SetReady(false)   *)
(* before the shutdown).                                                   *)
ReadyMeansServing ==
    Health.status = 200 =>
        LET c == The(cfg) IN
        /\ up = Listeners
        /\ \A l, m \in Listeners : l # m => c.addr[l] # c.addr[m]
        /\ open = {"http"} \union c.custom \union (IF c.mqtt THEN {"mqtt"} ELSE {})
                           \union (IF c.can THEN {"can"} ELSE {})
        /\ reporters = open \intersect Reporting
        /\ \A d \in stored : \/ Transport[d] \notin open
                             \/ watch[d] # "none"
                             \/ d \in registering
        /\ c.key # {} => keys # {}

(* What no step may do, short of the end of the process: set an adapter in *)
(* the service once requests may read it unlocked, or register a reporter  *)
(* once /health may iterate over it; take a listener away while /health    *)
(* answers 200; disconnect an adapter under a running request; replace a   *)
(* key that is provisioned (the order of main's startup and shutdown).     *)
OrderlySteps ==
    [][ /\ open' \ open # {} => ~Serves
        /\ reporters' \ reporters # {} => "metrics" \notin up
        /\ up \ up' # {} /\ pc' # "down" => ~ready
        /\ open \ open' # {} /\ pc' # "down" => ~Serves /\ InFlight = {}
        /\ keys # {} => keys' = keys
      ]_gvars

(* A gateway that was told to stop does stop, provided no client keeps its *)
(* Subscribe or StreamCommands stream open for ever: GracefulStop has no   *)
(* timeout, but it takes no new streams and every other handler ends.      *)
StopsOnceClientsLeave ==
    (\A s \in Streams : []<>(s \notin streams)) => (pc = "signalled" ~> pc = "down")
=============================================================================
