-------------------------------- MODULE Config --------------------------------
(***************************************************************************)
(* How the gateway finds its settings (internal/config and the Resolve     *)
(* calls of main): gateway.yaml, overridden by the UDAL_* variable of each *)
(* key, overridden by the older flat variables, with built-in defaults.    *)
(*                                                                         *)
(* A value that may be missing is a set with at most one element: an empty *)
(* environment variable and an absent key count as unset.  A port of 0     *)
(* stands for the default in every layer but the flat one.  Of addresses   *)
(* only the port is kept, of the other strings only which one it is.       *)
(***************************************************************************)
EXTENDS Integers

CONSTANTS
    Deployments,  \* what an operator may start the gateway with
    defaultPort   \* per listener, the fallback main passes to ResolveAddr

Listeners == {"grpc", "rest", "webhook", "metrics"}
Strings == {"cert", "broker", "interface", "dbc_file"}

The(v) == CHOOSE x \in v : TRUE
-----------------------------------------------------------------------------
(* Load: a missing file is an empty Config, a malformed one an error.      *)
Load(file) ==
    IF file.state = "present" THEN file
    ELSE [file EXCEPT !.port = [l \in Listeners |-> 0],
                      !.string = [s \in Strings |-> {}],
                      !.custom = {}]

overrideString(dst, v) == IF v # {} THEN v ELSE dst
overrideInt(dst, v) == IF v # {} THEN The(v) ELSE dst

(* ApplyEnv; a number or duration that does not parse is an error, see     *)
(* Startable.  A list of names replaces the list of the file.              *)
ApplyEnv(c, env) ==
    [c EXCEPT !.port = [l \in Listeners |-> overrideInt(c.port[l], env.port[l])],
              !.string = [s \in Strings |-> overrideString(c.string[s], env.string[s])],
              !.custom = IF env.custom # {} THEN The(env.custom) ELSE @]

ResolveString(existing, value) == IF existing # {} THEN existing ELSE value

ResolveAddr(existing, port, default) ==
    IF existing # {} THEN The(existing) ELSE IF port # 0 THEN port ELSE default

(* main exits before it has touched anything: the log level, the file or a *)
(* variable does not parse, or there is no certificate and no opt-out.     *)
Startable(d) ==
    /\ d.file.state # "malformed"
    /\ d.env.parses
    /\ \/ ApplyEnv(Load(d.file), d.env).string["cert"] # {}
       \/ d.env.insecure

(* The settings main goes on with.                                         *)
Settings(d) ==
    LET c    == ApplyEnv(Load(d.file), d.env)
        s(k) == ResolveString(d.env.string[k], c.string[k]) # {}
    IN  [addr   |-> [l \in Listeners |->
                        ResolveAddr(d.env.addr[l], c.port[l], defaultPort[l])],
         mqtt   |-> s("broker"),
         can    |-> s("interface"),
         dbc    |-> s("dbc_file"),
         custom |-> c.custom,
         key    |-> d.env.bootstrap]
=============================================================================
