----------------------------- MODULE MCSdkClient -----------------------------
(* TLC instance of SdkClient and Broker.  Channels hold two updates        *)
(* instead of 32, and the first device publishes enough to fill them; the  *)
(* second only has subscribers, which must hear nothing of the first.  One *)
(* of the two subscribers uses the SDK.                                    *)
EXTENDS SdkClient, TLC

CONSTANTS d1, d2

MCDevices == {d1, d2}
(* Two subscribers of one device ask for a property each, one that is      *)
(* alone for everything.                                                   *)
MCInit ==
    /\ dev \in [Handlers -> MCDevices]
    /\ filter = [c \in Handlers |->
                   IF \A h \in Handlers \ {c} : dev[h] # dev[c] THEN "any"
                   ELSE IF c \in Sdk THEN "p" ELSE "q"]
    /\ ClientInit

MCSpec == MCInit /\ [][ClientNext]_cvars /\ ClientFairness

MCMaxPublished == d1 :> 3 @@ d2 :> 0
=============================================================================
