------------------------------- MODULE CanCodec -------------------------------
(***************************************************************************)
(* The CAN signal codec (internal/adapters/can/codec.go).  A payload is a  *)
(* function from bit positions to bits, position 8*byte + bit as in the    *)
(* code.  A signal is the record of dbc.go's Signal.                       *)
(*                                                                         *)
(* Factor and Offset are integers here, and so are the values asked for;   *)
(* int64 and float64 keep their limits.  A machine word is as wide as the  *)
(* payload, 64 bits in the code; a float64 holds every integer up to       *)
(* 2^Precision and rounds beyond, in every operation.  That it ends at     *)
(* about 10^308, and is finer than any fraction met, is left out.          *)
(***************************************************************************)
EXTENDS Integers, FiniteSets

CONSTANTS NBytes,      \* length of a payload, 8 in the code
          Precision,   \* bits of a float64's significand, 53 in the code
          TooHigh      \* int64 of a float64 that is too high for it: the processor's choice

ASSUME CodecAssumption ==
    /\ NBytes \in Nat \ {0}
    /\ Precision \in 1 .. 8 * NBytes
    /\ TooHigh \in Int

(* Powers of two, for the shifts, and the sums of the first k values of t. *)
(* They are functions because the provers know neither 2^k nor folds.      *)
Pow2[k \in 0 .. 8 * NBytes] == IF k = 0 THEN 1 ELSE 2 * Pow2[k - 1]

Sums(t, n) == LET sum[k \in 0 .. n] == IF k = 0 THEN 0 ELSE sum[k - 1] + t[k - 1] IN sum

Bits == 0 .. 8 * NBytes - 1
Payloads == [Bits -> {0, 1}]
ZeroPayload == [b \in Bits |-> 0]

(* MuxValue of a signal that is in every frame.                            *)
NoMux == -1

(* The place of a bit once the order of the bytes is reversed.             *)
Swap(b) == 8 * (NBytes - 1 - (b \div 8)) + (b % 8)

(* The place of a signal's lowest bit in the integer that the payload is   *)
(* in the signal's byte order.                                             *)
LowestBit(s) == IF s.LittleEndian THEN s.StartBit ELSE Swap(s.StartBit) - s.Length + 1

(* What ParseDBC makes of an SG_ line: a signal is the multiplexor, or     *)
(* multiplexed, or neither.  Signals without bits are left out, and so are *)
(* those that do not fit into the payload, which ParseDBC accepts.         *)
Signal(s) ==
    /\ s.StartBit \in Bits /\ s.Length \in Nat \ {0}
    /\ LowestBit(s) \in Nat /\ LowestBit(s) + s.Length <= 8 * NBytes
    /\ s.LittleEndian \in BOOLEAN /\ s.Signed \in BOOLEAN /\ s.IsMultiplexor \in BOOLEAN
    /\ s.MuxValue \in Nat \cup {NoMux} /\ (s.IsMultiplexor => s.MuxValue = NoMux)
    /\ s.Factor \in Int \ {0} /\ s.Offset \in Int

(* A faulty byte change that stays in the same column of the next byte.    *)
NextMotorolaAligned(pos) == IF pos % 8 = 0 THEN pos + 8 ELSE pos - 1

(* The position that follows pos in a big-endian signal.                   *)
NextMotorola(pos) == IF pos % 8 = 0 THEN pos + 15 ELSE pos - 1

(* bitPositions: the position of each value bit, by significance.          *)
bitPositions(startBit, length, littleEndian) ==
    LET walk[k \in 0 .. length - 1] == IF k = 0 THEN startBit ELSE NextMotorola(walk[k - 1])
    IN  [i \in 0 .. length - 1 |-> IF littleEndian THEN startBit + i ELSE walk[length - 1 - i]]

positions(sig) == bitPositions(sig.StartBit, sig.Length, sig.LittleEndian)
Occupied(sig) == {positions(sig)[i] : i \in 0 .. sig.Length - 1}

(* extractRaw: positions behind the payload read as zero.                  *)
extractRaw(data, ps) ==
    LET n == Cardinality(DOMAIN ps)
    IN  Sums([i \in DOMAIN ps |-> IF ps[i] \in Bits THEN data[ps[i]] * Pow2[i] ELSE 0], n)[n]

(* A faulty packRaw that only sets bits.                                   *)
packRawSetsOnly(data, ps, raw) ==
    [b \in Bits |-> IF \E i \in DOMAIN ps : ps[i] = b /\ (raw \div Pow2[i]) % 2 = 1 THEN 1
                    ELSE data[b]]

(* packRaw: the bits of raw at positions, all others as they were.         *)
packRaw(data, ps, raw) ==
    [b \in Bits |-> IF \E i \in DOMAIN ps : ps[i] = b
                    THEN (raw \div Pow2[CHOOSE i \in DOMAIN ps : ps[i] = b]) % 2
                    ELSE data[b]]

rawToSigned(raw, length) == IF raw >= Pow2[length - 1] THEN raw - Pow2[length] ELSE raw

(* int64 of an unsigned word: the upper half turns negative.               *)
Int64(n) == IF n >= Pow2[8 * NBytes - 1] THEN n - Pow2[8 * NBytes] ELSE n

Abs(a) == IF a < 0 THEN -a ELSE a

(* math.Round of a quotient: to the nearest, halves away from zero.        *)
Round(a, b) == LET q == (2 * Abs(a) + Abs(b)) \div (2 * Abs(b))
               IN  IF (a < 0) = (b < 0) THEN q ELSE -q

(* The float64 nearest to n / m is k * 2^e with k of Precision bits, the   *)
(* even one of two that are as near.  Up and Down are 2^e as a fraction.   *)
Up(e) == IF e > 0 THEN 2^e ELSE 1
Down(e) == IF e < 0 THEN 2^(-e) ELSE 1
Exponent(n, m) ==
    CHOOSE e \in -2 * Precision .. 16 * NBytes :
        /\ 2^(Precision - 1) * m * Up(e) <= n * Down(e)
        /\ n * Down(e) < 2^Precision * m * Up(e)
Significand(n, m, e) ==
    LET k == (n * Down(e)) \div (m * Up(e))
        r == 2 * ((n * Down(e)) % (m * Up(e)))
    IN  IF r > m * Up(e) \/ (r = m * Up(e) /\ k % 2 = 1) THEN k + 1 ELSE k

(* float64 of an integer.                                                  *)
Float64 == [n \in Int |->
    IF Abs(n) <= Pow2[Precision] THEN n
    ELSE LET e == Exponent(Abs(n), 1)
             f == Significand(Abs(n), 1, e) * Up(e)
         IN  IF n < 0 THEN -f ELSE f]

(* math.Round of the float64 quotient of two float64s.  Where the first is *)
(* at most half of 2^Precision, every quotient is as far from a half as    *)
(* float64 can tell, and only the result is rounded.                       *)
RoundQuotient == [a \in Int |-> [b \in Int |->
    IF 2 * Abs(a) <= Pow2[Precision] THEN Round(a, b)
    ELSE LET e == Exponent(Abs(a), Abs(b))
             q == Round(Significand(Abs(a), Abs(b), e) * Up(e), Down(e))
         IN  IF (a < 0) = (b < 0) THEN q ELSE -q]]

(* int64 of an integral float64.                                           *)
Truncate(x) ==
    IF x \in -Pow2[8 * NBytes - 1] .. Pow2[8 * NBytes - 1] - 1 THEN x
    ELSE IF x < 0 THEN -Pow2[8 * NBytes - 1] ELSE TooHigh

(* What decode makes of a raw value n: an integer where there is nothing   *)
(* to scale, and a float64 otherwise.                                      *)
Scaled(sig, n) ==
    IF sig.Factor = 1 /\ sig.Offset = 0 THEN Int64(n)
    ELSE Float64[Float64[Float64[n] * sig.Factor] + sig.Offset]

decode(sig, data) ==
    LET raw == extractRaw(data, positions(sig))
    IN  Scaled(sig, IF sig.Signed THEN rawToSigned(raw, sig.Length) ELSE raw)

(* The raw pattern of a physical value, cut to the signal's length.        *)
encodeRaw(sig, v) ==
    Truncate(RoundQuotient[Float64[Float64[v] - sig.Offset]][sig.Factor]) % Pow2[sig.Length]

encode(sig, data, v) == packRaw(data, positions(sig), encodeRaw(sig, v))

Multiplexors(msg) == {s \in msg : s.IsMultiplexor}

(* A message is a set of signals with names of their own, at most one of   *)
(* them the multiplexor, as in a proper DBC file; ParseDBC takes others.   *)
Message(msg) ==
    /\ \A s \in msg : Signal(s)
    /\ \A s, t \in msg : s.Name = t.Name => s = t
    /\ \A s, t \in Multiplexors(msg) : s = t

(* DecodeEach: the signals a payload carries.                              *)
Active(msg, data) ==
    {s \in msg : s.MuxValue # NoMux =>
                    \E x \in Multiplexors(msg) : extractRaw(data, positions(x)) = s.MuxValue}

(* Message.Encode: a multiplexed signal selects itself.                    *)
Encode(msg, data, sig, v) ==
    LET d == encode(sig, data, v)
    IN  IF sig.MuxValue # NoMux /\ Multiplexors(msg) # {}
        THEN packRaw(d, positions(CHOOSE x \in Multiplexors(msg) : TRUE), sig.MuxValue)
        ELSE d

(* Raw values of a signal, and those of them that decode and encode handle *)
(* without any loss: no int64 overflows and no float64 has to round.       *)
RawRange(sig) ==
    IF sig.Signed THEN -Pow2[sig.Length - 1] .. Pow2[sig.Length - 1] - 1
    ELSE 0 .. Pow2[sig.Length] - 1

ReadsExactly(sig, n) ==
    IF sig.Factor = 1 /\ sig.Offset = 0 THEN n < Pow2[8 * NBytes - 1]
    ELSE \A x \in {n, n * sig.Factor, n * sig.Factor + sig.Offset} : Abs(x) <= Pow2[Precision]

WritesExactly(sig, n) ==
    /\ n < Pow2[8 * NBytes - 1]
    /\ 2 * Abs(n * sig.Factor) <= Pow2[Precision]
    /\ Abs(n * sig.Factor + sig.Offset) <= Pow2[Precision]

(* Physical values a signal holds exactly and the codec passes on so.      *)
Representable(sig, v) ==
    \E n \in {Round(v - sig.Offset, sig.Factor)} :
        /\ n \in RawRange(sig) /\ v = n * sig.Factor + sig.Offset
        /\ ReadsExactly(sig, n) /\ WritesExactly(sig, n)
=============================================================================
