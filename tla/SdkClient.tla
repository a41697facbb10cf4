------------------------------ MODULE SdkClient ------------------------------
(***************************************************************************)
(* Client.Subscribe of the Go SDK (sdk/go/client.go) at the other end of   *)
(* the Subscribe handlers of Broker: from Publish to the application.      *)
(*                                                                         *)
(* gRPC keeps the order of a stream.  What is underway is therefore what   *)
(* the handler has forwarded and the client has not yet received; when the *)
(* stream fails, any part of it may still arrive.  The application takes   *)
(* updates when it likes, and may cancel its context at any time.          *)
(***************************************************************************)
EXTENDS Broker

CONSTANT Sdk   \* the handlers whose clients use the SDK

ASSUME SdkClientAssumption == Sdk \subseteq Handlers

VARIABLES
    rpc,       \* where the goroutine of Client.Subscribe is
    received,  \* n of the last event it received
    seen,      \* updates the application has taken from the channel
    ctxDone,   \* has the application canceled its context?
    errCh      \* has errCh received an error?

clientVars == <<rpc, received, seen, ctxDone, errCh>>
cvars == <<vars, clientVars>>

ClientInit ==
    /\ Init
    /\ rpc = [c \in Sdk |-> "recv"]
    /\ received = [c \in Sdk |-> 0]
    /\ seen = [c \in Sdk |-> <<>>]
    /\ ctxDone = [c \in Sdk |-> FALSE]
    /\ errCh = [c \in Sdk |-> FALSE]

Underway(c) == {u \in forwarded[c] : u.n > received[c]}
-----------------------------------------------------------------------------
(* The call does not come through, or the gateway refuses it before the    *)
(* handler subscribes.  close(updates) follows every end.                  *)
SubscribeFails(c) ==
    /\ rpc[c] = "recv" /\ handler[c] = "idle"
    /\ errCh' = [errCh EXCEPT ![c] = TRUE]
    /\ rpc' = [rpc EXCEPT ![c] = "done"]
    /\ UNCHANGED <<vars, received, seen, ctxDone>>

(* Recv returns the next event, and the goroutine offers it.               *)
RecvEvent(c) ==
    /\ rpc[c] = "recv"
    /\ \E u \in Underway(c) :
          /\ \A v \in Underway(c) : u.n <= v.n
          /\ received' = [received EXCEPT ![c] = u.n]
    /\ rpc' = [rpc EXCEPT ![c] = "offer"]
    /\ UNCHANGED <<vars, seen, ctxDone, errCh>>

(* Recv fails once the stream is broken or canceled; only a failure that   *)
(* the application did not ask for is an error.                            *)
RecvFails(c) ==
    /\ rpc[c] = "recv"
    /\ ~connected[c]
    /\ errCh' = [errCh EXCEPT ![c] = ~ctxDone[c]]
    /\ rpc' = [rpc EXCEPT ![c] = "done"]
    /\ UNCHANGED <<vars, received, seen, ctxDone>>

(* The application takes the update that is offered.                       *)
TakeUpdate(c) ==
    /\ rpc[c] = "offer"
    /\ \E u \in forwarded[c] :
          /\ u.n = received[c]
          /\ seen' = [seen EXCEPT ![c] = Append(@, u)]
    /\ rpc' = [rpc EXCEPT ![c] = "recv"]
    /\ UNCHANGED <<vars, received, ctxDone, errCh>>

(* Faulty variants: a plain send, which no context ends; a select with a   *)
(* default case, which drops the update when nobody is ready to take it.   *)
OfferWithoutContext(c) == FALSE /\ UNCHANGED cvars

OfferDropped(c) ==
    /\ rpc[c] = "offer"
    /\ rpc' = [rpc EXCEPT ![c] = "recv"]
    /\ UNCHANGED <<vars, received, seen, ctxDone, errCh>>

(* ctx.Done while the update is offered.                                   *)
GiveUpOffer(c) ==
    /\ rpc[c] = "offer"
    /\ ctxDone[c]
    /\ rpc' = [rpc EXCEPT ![c] = "done"]
    /\ UNCHANGED <<vars, received, seen, ctxDone, errCh>>

(* The application cancels, which ends the stream if it is not broken yet. *)
Cancel(c) ==
    /\ handler[c] # "idle"
    /\ ~ctxDone[c]
    /\ ctxDone' = [ctxDone EXCEPT ![c] = TRUE]
    /\ IF connected[c] THEN ClientDisconnects(c) ELSE UNCHANGED vars
    /\ UNCHANGED <<rpc, received, seen, errCh>>

(* A call that failed never gets a handler that subscribes.                *)
Failed == {c \in Sdk : rpc[c] = "done" /\ handler[c] = "idle"}

(* The broker, its handlers, and connections that break.                   *)
GatewayStep ==
    /\ Next
    /\ \A c \in Failed : handler'[c] = "idle"
    /\ UNCHANGED clientVars

(* Nothing is left to do within the bound.                                 *)
ClientFinished ==
    /\ \A c \in Handlers \ Failed : handler[c] = "returned"
    /\ \A d \in Devices : published[d] = MaxPublished[d]
    /\ UNCHANGED cvars

ClientNext ==
    \/ \E c \in Sdk : \/ SubscribeFails(c) \/ RecvEvent(c) \/ RecvFails(c)
                      \/ TakeUpdate(c) \/ GiveUpOffer(c) \/ Cancel(c)
    \/ GatewayStep
    \/ ClientFinished

ClientSpec == ClientInit /\ [][ClientNext]_cvars

(* A handler that can run does run: its loop blocks only in the select and *)
(* in Send, which fails once the client is gone.  The select chooses among *)
(* ready cases at random, so the channel case is taken when it stays ready.*)
(* The goroutine of the SDK goes on when it can, too.  Nothing is assumed  *)
(* of the application.                                                     *)
ClientFairness ==
    /\ \A c \in Handlers : /\ WF_cvars(ReadUpdate(c) /\ UNCHANGED clientVars)
                           /\ WF_cvars(ContextDone(c) /\ UNCHANGED clientVars)
                           /\ WF_cvars(unsubscribe(c) /\ UNCHANGED clientVars)
    /\ \A c \in Sdk : /\ WF_cvars(RecvEvent(c)) /\ WF_cvars(RecvFails(c))
                      /\ WF_cvars(GiveUpOffer(c))

FairClientSpec == ClientSpec /\ ClientFairness
-----------------------------------------------------------------------------
(* End to end: the application sees its device's updates in the order of   *)
(* publication, and exactly those its handler forwarded up to the last one *)
(* it saw, so that a gap is always one the full channel of the broker made;*)
(* and a subscription that ends unasked says so in errCh                   *)
(* (Client.Subscribe).                                                     *)
AppSeesWhatWasForwarded ==
    \A c \in Sdk :
        /\ \A i, j \in 1 .. Len(seen[c]) : i < j => seen[c][i].n < seen[c][j].n
        /\ \A u \in forwarded[c] :
              (\E i \in 1 .. Len(seen[c]) : u.n <= seen[c][i].n) =>
                  \E i \in 1 .. Len(seen[c]) : seen[c][i] = u
        /\ \A i \in 1 .. Len(seen[c]) : seen[c][i] \in forwarded[c]
        /\ errCh[c] => rpc[c] = "done"
        /\ rpc[c] = "done" => errCh[c] \/ ctxDone[c]

(* Whoever leaves is cleaned up after: a handler whose client is gone      *)
(* gives its channel back to the broker, and canceling the context closes  *)
(* the update channel even if nobody reads it any more ("The returned      *)
(* channel closes when ctx is done").                                      *)
SubscriptionsEnd ==
    /\ \A c \in Handlers :
          ~connected[c] ~> (closed[c] /\ \A d \in Devices : c \notin subs[d])
    /\ \A c \in Sdk : ctxDone[c] ~> rpc[c] = "done"
=============================================================================
