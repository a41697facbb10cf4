------------------------------ MODULE CommandCall ------------------------------
(***************************************************************************)
(* What SendCommand promises its callers, without channels, maps or        *)
(* goroutines: a command reaches a device at most once, a caller is told   *)
(* "ok" or "FailedPrecondition" only when there was such an answer for     *)
(* that very command, and a caller told "refused" or "Unimplemented" can   *)
(* be sure that the device never gets the command.  A caller told          *)
(* "DeadlineExceeded" or "Internal" knows nothing.                         *)
(***************************************************************************)
EXTENDS Naturals

CONSTANT Calls

VARIABLES
    open,      \* calls that were accepted and have not returned
    outcome,   \* what each call returned, "none" before
    executions,  \* how often each command reached its device
    answers,   \* <<command, success>> pairs a device answered with
    garbled    \* commands the gateway itself answered negatively

vars == <<open, outcome, executions, answers, garbled>>

Init ==
    /\ open = {}
    /\ outcome = [c \in Calls |-> "none"]
    /\ executions = [c \in Calls |-> 0]
    /\ answers = {}
    /\ garbled = {}

Fresh(c) == c \notin open /\ outcome[c] = "none"

(* The call is turned away without a trace.                                *)
TurnAway(c, o) ==
    /\ Fresh(c)
    /\ o \in {"refused", "Unimplemented"}
    /\ outcome' = [outcome EXCEPT ![c] = o]
    /\ UNCHANGED <<open, executions, answers, garbled>>

Accept(c) ==
    /\ Fresh(c)
    /\ open' = open \cup {c}
    /\ UNCHANGED <<outcome, executions, answers, garbled>>

(* The command reaches the device, perhaps after the caller gave up, but   *)
(* only once.                                                              *)
Execute(c) ==
    /\ c \in open \/ outcome[c] \in {"DeadlineExceeded", "Internal"}
    /\ executions[c] = 0
    /\ c \notin garbled
    /\ executions' = [executions EXCEPT ![c] = 1]
    /\ UNCHANGED <<open, outcome, answers, garbled>>

Answer(c, success) ==
    /\ executions[c] > 0
    /\ answers' = answers \cup {<<c, success>>}
    /\ UNCHANGED <<open, outcome, executions, garbled>>

(* The gateway cannot encode the command and answers in place of the       *)
(* device, which then never sees it.                                       *)
Garble(c) ==
    /\ c \in open \/ outcome[c] \in {"DeadlineExceeded", "Internal"}
    /\ executions[c] = 0
    /\ c \notin garbled
    /\ garbled' = garbled \cup {c}
    /\ UNCHANGED <<open, outcome, executions, answers>>

Return(c, o) ==
    /\ c \in open
    /\ \/ o = "ok" /\ <<c, TRUE>> \in answers
       \/ o = "FailedPrecondition" /\ (<<c, FALSE>> \in answers \/ c \in garbled)
       \/ o \in {"DeadlineExceeded", "Internal"}
    /\ open' = open \ {c}
    /\ outcome' = [outcome EXCEPT ![c] = o]
    /\ UNCHANGED <<executions, answers, garbled>>

Outcomes == {"refused", "Unimplemented", "ok", "FailedPrecondition",
             "DeadlineExceeded", "Internal"}

Next ==
    \E c \in Calls :
        \/ Accept(c)
        \/ Execute(c)
        \/ Garble(c)
        \/ \E success \in BOOLEAN : Answer(c, success)
        \/ \E o \in Outcomes : TurnAway(c, o) \/ Return(c, o)

Spec == Init /\ [][Next]_vars
=============================================================================
