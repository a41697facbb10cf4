--------------------------- MODULE MCDeviceService ---------------------------
(* One device, whose ID can be asked for and is also the first one the     *)
(* gateway generates; callers that own it, own another one, operate, read, *)
(* or cannot be identified.                                                *)
EXTENDS DeviceService, TLC

CONSTANTS c1, c2, v1, v2, fan

MCAutoIds == <<"dev1">>
MCSchema == fan :> {v1} @@ NoRef :> {}

MCKeys == "op" :> [role |-> "operator", key |-> "k1"] @@ "rd" :> [role |-> "reader", key |-> "k2"]
MCTokens == "t1" :> [code |-> "Unavailable", sub |-> None, role |-> None]
            @@ "t2" :> [code |-> "OK", sub |-> "op2", role |-> "owner"]

Request(cert, key, token) == [cert |-> cert, key |-> key, token |-> token]
MCRequests == {Request("dev1", None, None), Request("dev2", "k1", None), Request(None, "k1", None),
               Request(None, "k2", None), Request(None, "k3", "t1"), Request(None, None, "t1"), Request(None, None, "t2")}

MCACLs == {<<>>, <<[Subject |-> "rd", Allow |-> TRUE], [Subject |-> "op", Allow |-> FALSE]>>}

MCConfigs == {[adapters |-> {"http", "mqtt"}, capability |-> TRUE],
              [adapters |-> {"http"}, capability |-> FALSE]}

Symmetry == Permutations({c1, c2})
==============================================================================
