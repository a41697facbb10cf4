------------------------------ MODULE SdkDevice ------------------------------
(***************************************************************************)
(* A device written with the Go SDK (sdk/go/device.go): Device.Run and the *)
(* gateway's handlers that serve its calls, on top of Presence, where the  *)
(* registry, Touch, Sweep and restarts are.                                *)
(*                                                                         *)
(* Touchers are the handler goroutines, each serving one call, stream or   *)
(* MQTT heartbeat at a time.  A connection may break at any time; the      *)
(* device and the gateway notice independently, so a handler can outlive   *)
(* its client's interest in it.                                            *)
(*                                                                         *)
(* How long the device waits between attempts (1 s up to 30 s) is left     *)
(* out: it waits, and then goes on.                                        *)
(***************************************************************************)
EXTENDS Presence, Sequences

CONSTANTS
    Configured,  \* what Config.DeviceID may be: {} when empty
    Generated,   \* the IDs the registry assigns, in the order of its sequence
    Mqtt         \* devices that other clients register and MQTT heartbeats touch

ASSUME SdkDeviceAssumption ==
    /\ \A c \in Configured : c \in SUBSET DeviceIDs /\ Cardinality(c) <= 1
    /\ Generated \in Seq(DeviceIDs)
    /\ Mqtt \subseteq DeviceIDs

VARIABLES
    configured,  \* cfg.DeviceID
    deviceID,    \* d.deviceID, {} while unknown
    run,         \* where Device.Run is
    call,        \* the handler of the call or stream the device waits for, or {}
    role,        \* what each handler serves: "none", "register", "stream"
    seq          \* the sequence of the registry's bucket

sdkVars == <<configured, deviceID, run, call, role, seq>>
svars == <<presenceVars, sdkVars>>

SdkInit ==
    /\ PresenceInit
    /\ configured \in Configured
    /\ deviceID = configured
    /\ run = "register"
    /\ call = {}
    /\ role = [p \in Touchers |-> "none"]
    /\ seq = 0

Idle(p) == pc[p] = "idle"
Free(p) == Idle(p) /\ role[p] = "none"

(* Where Run goes on after register: the first error ends it, later ones   *)
(* are ignored.                                                            *)
AfterFailedRegister == IF run = "register" THEN "ended" ELSE "connect"
-----------------------------------------------------------------------------
(* register: the RPC reaches the gateway and the ID is free.  An empty ID  *)
(* takes the next of the sequence, in the same transaction.                *)
Register(p) ==
    /\ run \in {"register", "reregister"} /\ call = {}
    /\ Free(p)
    /\ \/ \E d \in configured : RegisterDevice(p, d) /\ UNCHANGED seq
       \/ /\ configured = {} /\ seq < Len(Generated)
          /\ RegisterDevice(p, Generated[seq + 1])
          /\ seq' = seq + 1
    /\ call' = {p}
    /\ role' = [role EXCEPT ![p] = "register"]
    /\ UNCHANGED <<configured, deviceID, run>>

(* The ID is taken: AlreadyExists, before any Touch.  That is fine for a   *)
(* device with an ID of its own.  The transaction is rolled back and the   *)
(* sequence with it, so a generated ID that is taken stays next in line.   *)
RegisterTaken ==
    /\ run \in {"register", "reregister"} /\ call = {}
    /\ \/ /\ configured # {}
          /\ \A d \in configured : status[d] # "absent"
          /\ deviceID' = configured
          /\ run' = "connect"
       \/ /\ configured = {} /\ seq < Len(Generated)
          /\ status[Generated[seq + 1]] # "absent"
          /\ run' = AfterFailedRegister
          /\ UNCHANGED deviceID
    /\ UNCHANGED <<presenceVars, configured, call, role, seq>>

(* The handler has touched the device and answers.                         *)
RegisterReturns(p) ==
    /\ call = {p} /\ role[p] = "register" /\ Idle(p)
    /\ deviceID' = {touched[p]}
    /\ run' = "connect"
    /\ call' = {}
    /\ role' = [role EXCEPT ![p] = "none"]
    /\ UNCHANGED <<presenceVars, configured, seq>>

(* StreamCommands: the lookup of the device and the Get of the first Touch *)
(* are one step; a device that is not there gets NotFound.  Run gets here  *)
(* only after a register that worked, so it has an ID to send.             *)
Connect(p) ==
    /\ run = "connect" /\ call = {}
    /\ Free(p)
    /\ \E d \in deviceID :
          /\ TouchGet(p, d)
          /\ IF status[d] = "absent"
             THEN run' = "wait" /\ UNCHANGED <<call, role>>
             ELSE /\ run' = "streaming"
                  /\ call' = {p}
                  /\ role' = [role EXCEPT ![p] = "stream"]
    /\ UNCHANGED <<configured, deviceID, seq>>

(* A Run that only opens the stream again.                                 *)
BackoffOverWithoutRegister ==
    /\ run = "wait"
    /\ run' = "connect"
    /\ UNCHANGED <<presenceVars, configured, deviceID, call, role, seq>>

BackoffOver ==
    /\ run = "wait"
    /\ run' = "reregister"
    /\ UNCHANGED <<presenceVars, configured, deviceID, call, role, seq>>

(* The device loses the call or stream it waits for, or cannot place one.  *)
ConnectionFails ==
    /\ run \in {"register", "reregister", "connect", "streaming"}
    /\ run' = IF run \in {"connect", "streaming"} THEN "wait" ELSE AfterFailedRegister
    /\ call' = {}
    /\ UNCHANGED <<presenceVars, configured, deviceID, role, seq>>

(* The context of Run is canceled.                                         *)
CancelRun ==
    /\ run # "ended"
    /\ run' = "ended"
    /\ call' = {}
    /\ UNCHANGED <<presenceVars, configured, deviceID, role, seq>>

PublishProperty ==
    /\ run # "ended"
    /\ \E d \in deviceID : SetProperty(d)
    /\ UNCHANGED sdkVars
-----------------------------------------------------------------------------
(* The gateway's side.                                                     *)

(* The Touch that RegisterDevice goes on to.                               *)
TouchRegistered(p) ==
    /\ pc[p] = "touch"
    /\ TouchGet(p, touched[p])
    /\ UNCHANGED sdkVars

(* The ticker of StreamCommands.                                           *)
Heartbeat(p) ==
    /\ role[p] = "stream" /\ Idle(p)
    /\ TouchGet(p, touched[p])
    /\ UNCHANGED sdkVars

(* A handler whose client is gone returns.                                 *)
HandlerEnds(p) ==
    /\ role[p] # "none" /\ p \notin call /\ Idle(p)
    /\ role' = [role EXCEPT ![p] = "none"]
    /\ UNCHANGED <<presenceVars, configured, deviceID, run, call, seq>>

Carry(p) == TouchStep(p) /\ UNCHANGED sdkVars
Sweeping == SweepStep /\ UNCHANGED sdkVars
Time == Tick /\ UNCHANGED sdkVars

(* Other clients and other devices.                                        *)
OtherRegisters(p, d) ==
    /\ Free(p)
    /\ RegisterDevice(p, d)
    /\ role' = [role EXCEPT ![p] = "register"]
    /\ UNCHANGED <<configured, deviceID, run, call, seq>>

OtherTouches(p, d) == Free(p) /\ TouchGet(p, d) /\ UNCHANGED sdkVars

OtherStep ==
    \/ \E p \in Touchers, d \in Mqtt : OtherRegisters(p, d) \/ OtherTouches(p, d)
    \/ \E d \in DeviceIDs : SetProperty(d) /\ UNCHANGED sdkVars

Delete(d) == DeleteDevice(d) /\ UNCHANGED sdkVars

(* The gateway restarts: every call and stream is lost.                    *)
GatewayRestarts ==
    /\ Restart
    /\ role' = [p \in Touchers |-> "none"]
    /\ call' = {}
    /\ run' = IF call = {} THEN run
              ELSE IF run = "streaming" THEN "wait" ELSE AfterFailedRegister
    /\ UNCHANGED <<configured, deviceID, seq>>
-----------------------------------------------------------------------------
(* What Run does by itself.                                                *)
RunStep ==
    \/ \E p \in Touchers : Register(p) \/ Connect(p) \/ RegisterReturns(p)
    \/ RegisterTaken \/ BackoffOver

SdkNext ==
    \/ RunStep \/ ConnectionFails \/ CancelRun \/ PublishProperty
    \/ \E p \in Touchers : \/ TouchRegistered(p) \/ Carry(p)
                           \/ Heartbeat(p) \/ HandlerEnds(p)
    \/ Sweeping \/ Time \/ OtherStep
    \/ \E d \in DeviceIDs : Delete(d)
    \/ GatewayRestarts

SdkSpec == SdkInit /\ [][SdkNext]_svars

(* Run goes on, handlers carry their Touch through, tickers tick, Sweep is *)
(* called and time passes.  A handler selects among its ticker and the end *)
(* of its context at random, so it does not miss the latter for ever.  A   *)
(* call finds a goroutine even if others keep the modelled ones busy.      *)
FairSdkSpec ==
    /\ SdkSpec
    /\ SF_svars(RunStep) /\ WF_svars(Sweeping) /\ WF_svars(Time)
    /\ \A p \in Touchers : /\ WF_svars(TouchRegistered(p) \/ Carry(p))
                           /\ WF_svars(Heartbeat(p))
                           /\ SF_svars(HandlerEnds(p))
-----------------------------------------------------------------------------
(* A device with an ID of its own that keeps running comes back: once      *)
(* connections hold and nobody deletes it any more, its stream stays open  *)
(* and it is online again and again, whatever restarts, lost calls,        *)
(* refused registrations, deletions and sweeps came before.  One case is   *)
(* excluded: deleted while its stream is open, it does not notice (Run,    *)
(* register and runCommandStream).                                         *)
ComesBackOnline ==
    \A d \in UNION Configured :
        ( /\ configured = {d}
          /\ [](run # "ended")
          /\ <>[][~ConnectionFails]_svars
          /\ <>[][~Delete(d)]_svars
          /\ <>[](run = "streaming" => status[d] # "absent") )
        => (<>[](run = "streaming") /\ []<>(d \in Online))
=============================================================================
