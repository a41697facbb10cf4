------------------------------ MODULE MCGateway ------------------------------
(* TLC instance of Gateway.  The deployments differ in where a setting     *)
(* comes from and in what is wrong with them.                              *)
EXTENDS Gateway

None == [l \in Listeners |-> {}]
NoStrings == [s \in Strings |-> {}]

(* No file: UDAL_DEV_INSECURE, a bootstrap key, and a flat address that    *)
(* wins over the port of the same listener.                                *)
Plain ==
    [file |-> [state |-> "missing", port |-> [l \in Listeners |-> 0],
               string |-> NoStrings, custom |-> {}],
     env  |-> [parses |-> TRUE, insecure |-> TRUE,
               addr |-> [None EXCEPT !["grpc"] = {7}],
               port |-> [None EXCEPT !["grpc"] = {2}],
               string |-> NoStrings, custom |-> {}, bootstrap |-> {"k2"}]]

(* From the file, with the broker and the metrics port overridden.         *)
Full ==
    [Plain EXCEPT !.file.state = "present",
                  !.file.port = [l \in Listeners |-> IF l = "grpc" THEN 9 ELSE 0],
                  !.file.string = [s \in Strings |-> {"file"}],
                  !.file.custom = {"echo"},
                  !.env.insecure = FALSE,
                  !.env.addr = None,
                  !.env.string = [NoStrings EXCEPT !["broker"] = {"env"}],
                  !.env.port = [None EXCEPT !["metrics"] = {5}],
                  !.env.bootstrap = {"k1"}]

MCDeployments ==
    { Plain, Full,
      \* no certificate and no opt-out; a number that does not parse
      [Plain EXCEPT !.env.insecure = FALSE],
      [Plain EXCEPT !.env.parses = FALSE],
      \* the default of one listener is the configured port of another
      [Full EXCEPT !.file.port = [@ EXCEPT !["grpc"] = 2]],
      \* CAN without a signal map
      [Plain EXCEPT !.env.string = [NoStrings EXCEPT !["interface"] = {"env"}]],
      \* a custom adapter with a built-in name, and one nobody registered
      [Full EXCEPT !.env.custom = {{"mqtt"}}],
      [Full EXCEPT !.env.custom = {{"echo", "unknown"}}],
      [Full EXCEPT !.env.bootstrap = {"malformed"}] }

MCDefaultPort == [l \in Listeners |-> CASE l = "grpc" -> 1 [] l = "rest" -> 2
                                        [] l = "webhook" -> 3 [] OTHER -> 4]
MCTransport == [d \in Devices |-> "mqtt"]
=============================================================================
