---------------------------- MODULE MCHttpAdapter ----------------------------
(* TLC instance of HttpAdapter: two devices, whose loops must not disturb  *)
(* each other.                                                             *)
EXTENDS HttpAdapter
==============================================================================
