---------------------------- MODULE MCMqttAdapter -----------------------------
(* TLC instances of MqttAdapter.  One device is real; callers may also use *)
(* an ID that is an MQTT wildcard.                                         *)
EXTENDS MqttAdapter, TLC

OneDevice == {<<"d1">>}
WithWildcard == {<<"d1">>, <<"+">>}
OnePath == {<<"p">>}
Symmetry == Permutations(Requests)
=============================================================================
