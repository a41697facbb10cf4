----------------------------- MODULE MCCanAdapter -----------------------------
(* Instances of CanAdapter for TLC.                                        *)
EXTENDS CanAdapter, TLC

CONSTANTS w1, w2, d1, m1, m2

Sig(name, start, len, le) ==
    [Name |-> name, StartBit |-> start, Length |-> len, LittleEndian |-> le, Signed |-> FALSE,
     Factor |-> 1, Offset |-> 0, IsMultiplexor |-> FALSE, MuxValue |-> NoMux]

(* A multiplexed message: A and B share bits, B is signed and scaled.      *)
Multiplexed ==
    {[Sig("M", 0, 1, TRUE) EXCEPT !.IsMultiplexor = TRUE],
     [Sig("A", 1, 1, TRUE) EXCEPT !.MuxValue = 0],
     [Sig("B", 1, 2, TRUE) EXCEPT !.MuxValue = 1, !.Signed = TRUE, !.Factor = 2, !.Offset = 1]}

(* Big-endian signals, one across a byte boundary (bits 1, 0, 15), beside  *)
(* a little-endian one.                                                    *)
Motorola == {Sig("X", 1, 3, FALSE), [Sig("Y", 4, 2, FALSE) EXCEPT !.Signed = TRUE], Sig("Z", 13, 1, TRUE)}

(* Signals beyond the limits of int64 (16 bits here) and float64 (exact up *)
(* to 64 here): U is as wide as a word and unsigned, S is scaled.          *)
Wide == {Sig("U", 0, 16, TRUE)}
Steep == {[Sig("S", 0, 8, TRUE) EXCEPT !.Signed = TRUE, !.Factor = 3, !.Offset = -5]}

MCDatabases == {m1 :> x @@ m2 :> {} : x \in {Multiplexed, Motorola, Wide, Steep}}

(* A cannot hold 3; B = 3, X = 6, U = 24 and S = -20 are exact.  U = 1001  *)
(* and S = 100 are rounded as float64s, and U = 49152 is too high for      *)
(* int64.                                                                  *)
MCWrites == {<<"M", 1>>, <<"A", 3>>, <<"B", 3>>, <<"B", NotNumeric>>, <<"X", 6>>, <<"Y", -2>>,
             <<"U", 24>>, <<"U", 1001>>, <<"U", 49152>>, <<"S", -20>>, <<"S", 100>>}

(* On amd64 it is the lowest int64.                                        *)
MCTooHigh == -32768

Ones(S) == [b \in Bits |-> IF b \in S THEN 1 ELSE 0]

(* A frame with the multiplexor at 1; the writes of A set it to 0.         *)
MCBusFrames == {<<m1, Ones({0, 2, 4, 15})>>}
=============================================================================
