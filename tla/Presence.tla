------------------------------- MODULE Presence -------------------------------
(***************************************************************************)
(* Device liveness: heartbeat.Monitor on the persistent registry, with the *)
(* RPC handlers that change a device's status (RegisterDevice,             *)
(* DeleteDevice, SetProperty), the online gauge callback main.go installs, *)
(* and restarts of the gateway.                                            *)
(*                                                                         *)
(* Registry operations are transactions and one step each.  Touch and      *)
(* Sweep read, write and emit in separate steps, and so does the gauge     *)
(* callback (List, then Set).                                              *)
(*                                                                         *)
(* Time: the code only ever compares now - LastSeen with m.timeout, so the *)
(* model keeps that difference, age, saturated at timeout.  A process that *)
(* remembers an instant keeps its distance from now: lag for Touch's now,  *)
(* todo for the LastSeen of the records Sweep listed.  Time is then        *)
(* unbounded.  Sweep's m.now() and List are one step: what a device does   *)
(* between them makes its LastSeen newer than that now.                    *)
(*                                                                         *)
(* A local variable that is not read again goes back to its first value.   *)
(***************************************************************************)
EXTENDS Integers, FiniteSets

CONSTANTS
    DeviceIDs,
    Touchers,     \* goroutines that call Touch: RegisterDevice, StreamCommands, MQTT
    Writable,     \* devices whose SetProperty succeeds
    timeout,      \* m.timeout, in ticks
    MaxRestarts   \* bound on gateway restarts

Sweeper == "sweeper"

ASSUME PresenceAssumption ==
    /\ timeout \in Nat \ {0}
    /\ MaxRestarts \in Nat
    /\ Writable \subseteq DeviceIDs
    /\ Sweeper \notin Touchers
    /\ IsFiniteSet(DeviceIDs)

Processes == Touchers \cup {Sweeper}

VARIABLES
    status,     \* registry: Device.Status, or "absent"
    age,        \* registry: now - Device.LastSeen, saturated
    pc,         \* where each process is
    touched,        \* the device a toucher works on
    wasOnline,  \* Touch's local variable
    lag,        \* now - Touch's local now, saturated
    todo,       \* Sweep's snapshot: the overdue devices not yet handled, each with
                \* now - LastSeen as listed, saturated
    behind,     \* history: devices of todo whose records were written since List
    counted,    \* length of the list a gauge callback has read
    gauge,      \* udal_devices_online
    restarts    \* number of restarts so far

registryVars == <<status, age>>
processVars  == <<pc, touched, wasOnline, lag, todo, counted>>
snapshotVars == <<todo, behind>>
presenceVars == <<registryVars, processVars, behind, gauge, restarts>>

PresenceInit ==
    /\ status = [d \in DeviceIDs |-> "absent"]
    /\ age = [d \in DeviceIDs |-> timeout]
    /\ pc = [p \in Processes |-> "idle"]
    /\ touched \in [Touchers -> DeviceIDs]
    /\ wasOnline = [p \in Touchers |-> FALSE]
    /\ lag = [p \in Touchers |-> 0]
    /\ todo = [d \in {} |-> timeout]
    /\ behind = {}
    /\ counted = [p \in Processes |-> 0]
    /\ gauge = 0
    /\ restarts = 0

Online == {d \in DeviceIDs : status[d] = "Online"}
Goto(p, l) == pc' = [pc EXCEPT ![p] = l]

Overdue == {d \in Online : age[d] >= timeout}
Older(a) == IF a < timeout THEN a + 1 ELSE timeout

(* The record of d is written by someone other than Sweep.                 *)
Overtake(d) == behind' = behind \cup ({d} \cap DOMAIN todo)
-----------------------------------------------------------------------------
(* Registry.UpdateStatus: an error, and no change, for an unknown device.  *)
(* UpdateStatusUpsert is a faulty variant that would create it.            *)
UpdateStatusUpsert(d, s, a) ==
    /\ status' = [status EXCEPT ![d] = s]
    /\ age' = [age EXCEPT ![d] = a]

UpdateStatus(d, s, a) ==
    IF status[d] = "absent" THEN UNCHANGED registryVars
    ELSE /\ status' = [status EXCEPT ![d] = s]
         /\ age' = [age EXCEPT ![d] = a]

(* RegisterDevice of a new device; the handler goes on to Touch it.  An ID *)
(* that is taken is refused before that and changes nothing.               *)
RegisterDevice(p, d) ==
    /\ pc[p] = "idle"
    /\ status[d] = "absent"
    /\ status' = [status EXCEPT ![d] = "Unknown"]
    /\ age' = [age EXCEPT ![d] = timeout]    \* LastSeen is the zero time
    /\ Goto(p, "touch")
    /\ touched' = [touched EXCEPT ![p] = d]
    /\ Overtake(d)
    /\ UNCHANGED <<wasOnline, lag, todo, counted, gauge, restarts>>

DeleteDevice(d) ==
    /\ status[d] # "absent"
    /\ status' = [status EXCEPT ![d] = "absent"]
    /\ age' = [age EXCEPT ![d] = timeout]
    /\ Overtake(d)
    /\ UNCHANGED <<processVars, gauge, restarts>>

(* SetProperty, after the adapter or the store took the value, marks the   *)
(* device online itself.                                                   *)
SetProperty(d) ==
    /\ d \in Writable
    /\ status[d] # "absent"
    /\ UpdateStatus(d, "Online", 0)
    /\ Overtake(d)
    /\ UNCHANGED <<processVars, gauge, restarts>>
-----------------------------------------------------------------------------
(* Touch: m.now() and Get.                                                 *)
TouchGet(p, d) ==
    /\ \/ pc[p] = "idle"
       \/ pc[p] = "touch" /\ touched[p] = d
    /\ touched' = [touched EXCEPT ![p] = d]
    /\ wasOnline' = [wasOnline EXCEPT ![p] = (status[d] = "Online")]
    /\ lag' = [lag EXCEPT ![p] = 0]
    /\ Goto(p, IF status[d] = "absent" THEN "idle" ELSE "update")
    /\ UNCHANGED <<registryVars, snapshotVars, counted, gauge, restarts>>

(* Touch: UpdateStatus; an error or an online device ends it here.         *)
TouchUpdate(p) ==
    /\ pc[p] = "update"
    /\ UpdateStatus(touched[p], "Online", lag[p])
    /\ Goto(p, IF status[touched[p]] = "absent" \/ wasOnline[p] THEN "idle" ELSE "emit")
    /\ wasOnline' = [wasOnline EXCEPT ![p] = FALSE]
    /\ lag' = [lag EXCEPT ![p] = 0]
    /\ Overtake(touched[p])
    /\ UNCHANGED <<touched, todo, counted, gauge, restarts>>

(* Faulty variants: Sweep compares with the tick before; Run sweeps only   *)
(* once.                                                                   *)
SweepListEarly ==
    /\ pc[Sweeper] = "idle"
    /\ todo' = [d \in {x \in Online : age[x] >= timeout - 1} |-> age[d]]
    /\ behind' = {}
    /\ Goto(Sweeper, "sweep")
    /\ UNCHANGED <<registryVars, touched, wasOnline, lag, counted, gauge, restarts>>

(* Sweep: m.now(), List of the online devices, and which are overdue.      *)
SweepList ==
    /\ pc[Sweeper] = "idle"
    /\ todo' = [d \in Overdue |-> age[d]]
    /\ behind' = {}
    /\ Goto(Sweeper, "sweep")
    /\ UNCHANGED <<registryVars, touched, wasOnline, lag, counted, gauge, restarts>>

(* Sweep, one overdue device: UpdateStatus with the LastSeen that was      *)
(* listed, whatever the record holds by now.                               *)
SweepUpdate(d) ==
    /\ pc[Sweeper] = "sweep"
    /\ d \in DOMAIN todo
    /\ todo' = [x \in DOMAIN todo \ {d} |-> todo[x]]
    /\ UpdateStatus(d, "Offline", todo[d])
    /\ behind' = behind \ {d}
    /\ Goto(Sweeper, IF status[d] = "absent" THEN "sweep" ELSE "emit")
    /\ UNCHANGED <<touched, wasOnline, lag, counted, gauge, restarts>>

SweepEndForGood ==
    /\ pc[Sweeper] = "sweep"
    /\ DOMAIN todo = {}
    /\ Goto(Sweeper, "stopped")
    /\ UNCHANGED <<registryVars, touched, wasOnline, lag, snapshotVars, counted, gauge,
                   restarts>>

SweepEnd ==
    /\ pc[Sweeper] = "sweep"
    /\ DOMAIN todo = {}
    /\ Goto(Sweeper, "idle")
    /\ UNCHANGED <<registryVars, touched, wasOnline, lag, snapshotVars, counted, gauge,
                   restarts>>

(* emit, for Touch and Sweep: Publish, whose fan-out is in module Broker,  *)
(* then the gauge callback's List and, next, its Set.                      *)
CountOnline(p) ==
    /\ pc[p] = "emit"
    /\ counted' = [counted EXCEPT ![p] = Cardinality(Online)]
    /\ Goto(p, "set")
    /\ UNCHANGED <<registryVars, touched, wasOnline, lag, snapshotVars, gauge, restarts>>

SetGauge(p) ==
    /\ pc[p] = "set"
    /\ gauge' = counted[p]
    /\ counted' = [counted EXCEPT ![p] = 0]
    /\ Goto(p, IF p = Sweeper THEN "sweep" ELSE "idle")
    /\ UNCHANGED <<registryVars, touched, wasOnline, lag, snapshotVars, restarts>>
-----------------------------------------------------------------------------
Tick ==
    /\ age' = [d \in DeviceIDs |-> Older(age[d])]
    /\ lag' = [p \in Touchers |-> IF pc[p] = "update" THEN Older(lag[p]) ELSE lag[p]]
    /\ todo' = [d \in DOMAIN todo |-> Older(todo[d])]
    /\ UNCHANGED <<status, pc, touched, wasOnline, behind, counted, gauge, restarts>>

(* The process dies anywhere and comes back: the registry file is all that *)
(* is left.                                                                *)
Restart ==
    /\ restarts < MaxRestarts
    /\ restarts' = restarts + 1
    /\ pc' = [p \in Processes |-> "idle"]
    /\ wasOnline' = [p \in Touchers |-> FALSE]
    /\ lag' = [p \in Touchers |-> 0]
    /\ todo' = [d \in {} |-> timeout]
    /\ behind' = {}
    /\ counted' = [p \in Processes |-> 0]
    /\ gauge' = 0
    /\ UNCHANGED <<registryVars, touched>>

TouchStep(p) == TouchUpdate(p) \/ CountOnline(p) \/ SetGauge(p)

SweepStep ==
    \/ SweepList
    \/ \E d \in DeviceIDs : SweepUpdate(d)
    \/ SweepEnd
    \/ CountOnline(Sweeper) \/ SetGauge(Sweeper)

(* A sign of life of d reaches the gateway.                                *)
Heard(d) == SetProperty(d) \/ \E p \in Touchers : TouchGet(p, d)

PresenceNext ==
    \/ \E d \in DeviceIDs : Heard(d)
    \/ \E p \in Touchers, d \in DeviceIDs : RegisterDevice(p, d)
    \/ \E d \in DeviceIDs : DeleteDevice(d)
    \/ \E p \in Touchers : TouchStep(p)
    \/ SweepStep
    \/ Tick
    \/ Restart

PresenceSpec == PresenceInit /\ [][PresenceNext]_presenceVars

(* Time passes, Run's ticker keeps Sweep going, and a Touch once begun is  *)
(* carried through.  Devices may fall silent at any time.                  *)
PresenceFairSpec ==
    /\ PresenceSpec
    /\ WF_presenceVars(Tick)
    /\ WF_presenceVars(SweepStep)
    /\ \A p \in Touchers : WF_presenceVars(TouchStep(p))
-----------------------------------------------------------------------------
Labels == {"idle", "touch", "update", "sweep", "emit", "set"}

(* Type invariant; the gauge never shows more devices than there can be.   *)
PresenceTypeOK ==
    /\ status \in [DeviceIDs -> {"absent", "Unknown", "Online", "Offline"}]
    /\ age \in [DeviceIDs -> 0 .. timeout]
    /\ pc \in [Processes -> Labels]
    /\ touched \in [Touchers -> DeviceIDs]
    /\ wasOnline \in [Touchers -> BOOLEAN]
    /\ lag \in [Touchers -> 0 .. timeout]
    /\ DOMAIN todo \subseteq DeviceIDs
    /\ todo \in [DOMAIN todo -> 0 .. timeout]
    /\ behind \subseteq DOMAIN todo
    /\ counted \in [Processes -> 0 .. Cardinality(DeviceIDs)]
    /\ gauge \in 0 .. Cardinality(DeviceIDs)
    /\ restarts \in 0 .. MaxRestarts

(* Sweep declares only those devices offline that are online and have been *)
(* silent for m.timeout when it does so, long after it listed them, or     *)
(* whose records were written between its List and its UpdateStatus.  In   *)
(* that case the device was heard, deleted or registered again, and the    *)
(* write declares it offline all the same, with the old LastSeen; nothing  *)
(* but such an overlap leads to it, neither time that passes, nor other    *)
(* devices, nor a restart.  (Sweep, Touch, SetProperty, RegisterDevice.)   *)
OnlySilentGoOffline ==
    [][\A d \in DeviceIDs :
          status[d] # "Offline" /\ status'[d] = "Offline" =>
              d \in Overdue \/ d \in behind]_presenceVars

(* A deleted device comes back only by registration, with status unknown:  *)
(* no Touch or Sweep that looked it up earlier resurrects it.              *)
DeletedStaysDeleted ==
    [][\A d \in DeviceIDs :
          status[d] = "absent" /\ status'[d] # "absent" => status'[d] = "Unknown"]_presenceVars

(* A device that falls silent for good is not reported online for ever,    *)
(* also when the gateway restarts in between and no matter which Touch was *)
(* underway: Sweep catches it ("gone interval/timeout-silent").            *)
SilentDeviceGoesOffline ==
    \A d \in DeviceIDs :
        <>[][~Heard(d)]_presenceVars => <>[](status[d] # "Online")
=============================================================================
