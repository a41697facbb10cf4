--------------------------- MODULE CanAdapter_proofs ---------------------------
(***************************************************************************)
(* Proofs about CanAdapter and CanCodec, for any length of a payload and   *)
(* any DBC files.                                                          *)
(***************************************************************************)
EXTENDS CanAdapter, FiniteSetTheorems, WellFoundedInduction, TLAPS

W == 8 * NBytes

(* The number of bits of a payload.                                        *)
LEMMA WType == W \in Nat /\ W > 0
BY CodecAssumption DEF W
-----------------------------------------------------------------------------
(* Induction over an interval, for a set instead of a predicate: a set     *)
(* that holds 0 and with k also k + 1 holds everything up to n.            *)
LEMMA Induction ==
  ASSUME NEW n \in Nat, NEW S, 0 \in S, \A k \in 0 .. n - 1 : k \in S => k + 1 \in S
  PROVE  0 .. n \subseteq S
<1> SUFFICES ASSUME ~(0 .. n \subseteq S) PROVE FALSE
  OBVIOUS
<1>t. PICK T : T = {k \in 0 .. n : k \notin S}
  BY Zenon
<1>1. T \subseteq Nat /\ T # {}
  BY <1>t
<1>2. PICK i \in T : \A j \in T : ~(<<j, i>> \in OpToRel(<, Nat))
  BY <1>1, NatLessThanWellFounded, WFMin, Zenon
<1>3. \A j \in T : ~(j < i)
  BY <1>1, <1>2, Zenon DEF OpToRel
<1>4. i \in 0 .. n /\ i \notin S /\ i # 0
  BY <1>t
<1>5. i - 1 \in 0 .. n - 1 /\ i - 1 \in 0 .. n /\ i - 1 < i /\ (i - 1) + 1 = i
  BY <1>4
<1>6. i - 1 \notin T
  BY <1>3, <1>5
<1>7. i - 1 \in S
  BY <1>t, <1>5, <1>6
<1> QED
  BY <1>4, <1>5, <1>7

(* The function that Sums defines exists and is what it says.              *)
LEMMA SumsExist ==
  ASSUME NEW t, NEW n \in Nat
  PROVE  \E f : f = [k \in 0 .. n |-> IF k = 0 THEN 0 ELSE f[k - 1] + t[k - 1]]
<1>s. PICK S : S = {m \in 0 .. n : \E f : f = [k \in 0 .. m |-> IF k = 0 THEN 0 ELSE f[k - 1] + t[k - 1]]}
  BY Zenon
<1>1. 0 \in S
  <2>f. PICK f : f = [k \in 0 .. 0 |-> 0]
    BY Zenon
  <2>1. f = [k \in 0 .. 0 |-> IF k = 0 THEN 0 ELSE f[k - 1] + t[k - 1]]
    BY <2>f
  <2> QED
    BY <1>s, <2>1
<1>2. ASSUME NEW m \in 0 .. n - 1, m \in S PROVE m + 1 \in S
  <2>f. PICK f : f = [k \in 0 .. m |-> IF k = 0 THEN 0 ELSE f[k - 1] + t[k - 1]]
    BY <1>s, <1>2
  <2>g. PICK g : g = [k \in 0 .. m + 1 |-> IF k = m + 1 THEN f[m] + t[m] ELSE f[k]]
    BY Zenon
  <2>1. ASSUME NEW k \in 0 .. m + 1
        PROVE  g[k] = IF k = 0 THEN 0 ELSE g[k - 1] + t[k - 1]
    <3>1. CASE k = m + 1
      BY <2>g, <3>1
    <3>2. CASE k = 0
      BY <2>f, <2>g, <3>2
    <3>3. CASE k \in 1 .. m
      <4>1. f[k] = f[k - 1] + t[k - 1]
        BY <2>f, <3>3
      <4>2. g[k] = f[k] /\ g[k - 1] = f[k - 1]
        BY <2>g, <3>3
      <4> QED
        BY <3>3, <4>1, <4>2
    <3> QED
      BY <3>1, <3>2, <3>3
  <2>2. g = [k \in 0 .. m + 1 |-> IF k = 0 THEN 0 ELSE g[k - 1] + t[k - 1]]
    BY <2>g, <2>1, Zenon
  <2> QED
    BY <1>s, <2>2
<1>3. n \in S
  BY <1>1, <1>2, Induction
<1> QED
  BY <1>s, <1>3

(* Sums satisfies the equation it is defined by (extractRaw adds one bit   *)
(* after the other).                                                       *)
LEMMA SumsDef ==
  ASSUME NEW t, NEW n \in Nat
  PROVE  /\ Sums(t, n)[0] = 0
         /\ \A k \in 0 .. n - 1 : Sums(t, n)[k + 1] = Sums(t, n)[k] + t[k]
<1>f. PICK f : f = Sums(t, n)
  OBVIOUS
<1>1. f = [k \in 0 .. n |-> IF k = 0 THEN 0 ELSE f[k - 1] + t[k - 1]]
  BY <1>f, SumsExist, Zenon DEF Sums
<1>2. f[0] = 0
  BY <1>1
<1>3. ASSUME NEW k \in 0 .. n - 1 PROVE f[k + 1] = f[k] + t[k]
  <2>1. k + 1 \in 0 .. n /\ k + 1 # 0 /\ (k + 1) - 1 = k
    OBVIOUS
  <2>2. f[k + 1] = f[(k + 1) - 1] + t[(k + 1) - 1]
    BY <1>1, <2>1
  <2> QED
    BY <2>1, <2>2
<1> QED
  BY <1>f, <1>2, <1>3

(* So does Pow2.                                                           *)
LEMMA Pow2Exists ==
  ASSUME NEW n \in Nat
  PROVE  \E f : f = [k \in 0 .. n |-> IF k = 0 THEN 1 ELSE 2 * f[k - 1]]
<1>s. PICK S : S = {m \in 0 .. n : \E f : f = [k \in 0 .. m |-> IF k = 0 THEN 1 ELSE 2 * f[k - 1]]}
  BY Zenon
<1>1. 0 \in S
  <2>f. PICK f : f = [k \in 0 .. 0 |-> 1]
    BY Zenon
  <2>1. f = [k \in 0 .. 0 |-> IF k = 0 THEN 1 ELSE 2 * f[k - 1]]
    BY <2>f
  <2> QED
    BY <1>s, <2>1
<1>2. ASSUME NEW m \in 0 .. n - 1, m \in S PROVE m + 1 \in S
  <2>f. PICK f : f = [k \in 0 .. m |-> IF k = 0 THEN 1 ELSE 2 * f[k - 1]]
    BY <1>s, <1>2
  <2>g. PICK g : g = [k \in 0 .. m + 1 |-> IF k = m + 1 THEN 2 * f[m] ELSE f[k]]
    BY Zenon
  <2>1. ASSUME NEW k \in 0 .. m + 1
        PROVE  g[k] = IF k = 0 THEN 1 ELSE 2 * g[k - 1]
    <3>1. CASE k = m + 1
      BY <2>g, <3>1
    <3>2. CASE k = 0
      BY <2>f, <2>g, <3>2
    <3>3. CASE k \in 1 .. m
      <4>1. f[k] = 2 * f[k - 1]
        BY <2>f, <3>3
      <4>2. g[k] = f[k] /\ g[k - 1] = f[k - 1]
        BY <2>g, <3>3
      <4> QED
        BY <3>3, <4>1, <4>2
    <3> QED
      BY <3>1, <3>2, <3>3
  <2>2. g = [k \in 0 .. m + 1 |-> IF k = 0 THEN 1 ELSE 2 * g[k - 1]]
    BY <2>g, <2>1
  <2> QED
    BY <1>s, <2>2
<1>3. n \in S
  BY <1>1, <1>2, Induction
<1> QED
  BY <1>s, <1>3

(* Pow2 satisfies the equation it is defined by (1 << i in codec.go).      *)
LEMMA Pow2Def ==
  /\ Pow2[0] = 1
  /\ \A k \in 0 .. W - 1 : Pow2[k + 1] = 2 * Pow2[k]
<1>1. Pow2 = [k \in 0 .. 8 * NBytes |-> IF k = 0 THEN 1 ELSE 2 * Pow2[k - 1]]
  BY Pow2Exists, WType, Zenon DEF Pow2, W
<1>2. Pow2[0] = 1
  BY <1>1, WType DEF W
<1>3. ASSUME NEW k \in 0 .. W - 1 PROVE Pow2[k + 1] = 2 * Pow2[k]
  <2>1. k + 1 \in 0 .. W /\ k + 1 # 0 /\ (k + 1) - 1 = k
    BY WType
  <2>2. Pow2[k + 1] = 2 * Pow2[(k + 1) - 1]
    BY <1>1, <2>1, Zenon DEF W
  <2> QED
    BY <2>1, <2>2
<1> QED
  BY <1>2, <1>3

(* Powers of two are positive.                                             *)
LEMMA Pow2Type == \A k \in 0 .. W : Pow2[k] \in Nat \ {0}
<1>s. PICK S : S = {k \in 0 .. W : Pow2[k] \in Nat \ {0}}
  BY Zenon
<1>1. 0 \in S
  BY <1>s, Pow2Def, WType
<1>2. ASSUME NEW k \in 0 .. W - 1, k \in S PROVE k + 1 \in S
  BY <1>s, <1>2, Pow2Def, WType
<1>3. 0 .. W \subseteq S
  BY <1>1, <1>2, Induction, WType
<1> QED
  BY <1>s, <1>3

(* Exponents add up: two shifts are one.                                   *)
LEMMA Pow2Add == \A a, b \in 0 .. W : a + b <= W => Pow2[a + b] = Pow2[a] * Pow2[b]
<1> SUFFICES ASSUME NEW a \in 0 .. W PROVE \A b \in 0 .. W : a + b <= W => Pow2[a + b] = Pow2[a] * Pow2[b]
  OBVIOUS
<1>s. PICK S : S = {b \in 0 .. W : a + b <= W => Pow2[a + b] = Pow2[a] * Pow2[b]}
  BY Zenon
<1>p. Pow2[a] \in Nat
  BY Pow2Type
<1>1. 0 \in S
  BY <1>s, <1>p, Pow2Def, WType
<1>2. ASSUME NEW b \in 0 .. W - 1, b \in S PROVE b + 1 \in S
  <2>1. CASE a + (b + 1) <= W
    <3>1. a + b \in 0 .. W - 1 /\ b \in 0 .. W /\ (a + b) + 1 = a + (b + 1)
      BY <2>1, WType
    <3>2. Pow2[a + (b + 1)] = 2 * Pow2[a + b] /\ Pow2[b + 1] = 2 * Pow2[b]
      BY <3>1, Pow2Def
    <3>3. Pow2[a + b] = Pow2[a] * Pow2[b]
      BY <1>s, <1>2, <3>1, WType
    <3>4. Pow2[b] \in Nat
      BY <3>1, Pow2Type
    <3>5. PICK x \in Nat, y \in Nat : x = Pow2[a] /\ y = Pow2[b]
      BY <1>p, <3>4
    <3>6. 2 * (x * y) = x * (2 * y)
      OBVIOUS
    <3>7. Pow2[a + (b + 1)] = Pow2[a] * Pow2[b + 1]
      BY <3>2, <3>3, <3>5, <3>6
    <3> QED
      BY <1>s, <3>7, WType
  <2>2. CASE ~(a + (b + 1) <= W)
    BY <1>s, <2>2, WType
  <2> QED
    BY <2>1, <2>2
<1>3. 0 .. W \subseteq S
  BY <1>1, <1>2, Induction, WType
<1> QED
  BY <1>s, <1>3

(* A quotient and a remainder are what they are.                           *)
LEMMA Products ==
  ASSUME NEW a \in Nat \ {0}, NEW q \in Int, NEW p \in Int, q < p
  PROVE  a * q + a <= a * p
<1>1. PICK c \in Nat : p = q + 1 + c
  <2>1. p - q - 1 \in Nat /\ p = q + 1 + (p - q - 1)
    OBVIOUS
  <2> QED
    BY <2>1
<1>2. a * p = a * q + a + a * c
  BY <1>1
<1>3. a * c \in Nat /\ a * q \in Int
  OBVIOUS
<1> QED
  BY <1>2, <1>3

(* Quotient and remainder are what a number is composed of.                *)
LEMMA DivMod ==
  ASSUME NEW a \in Nat \ {0}, NEW q \in Int, NEW r \in 0 .. a - 1
  PROVE  (a * q + r) \div a = q /\ (a * q + r) % a = r
<1>1. PICK x \in Int : x = a * q + r
  OBVIOUS
<1>2. PICK p \in Int, s \in 0 .. a - 1 : p = x \div a /\ s = x % a /\ x = a * p + s
  <2>1. x \div a \in Int /\ x % a \in 0 .. a - 1 /\ x = a * (x \div a) + (x % a)
    OBVIOUS
  <2> QED
    BY <2>1
<1>3. ~(p < q)
  <2>1. ASSUME p < q PROVE a * p + a <= a * q
    BY <2>1, Products
  <2>2. a * p \in Int /\ a * q \in Int
    OBVIOUS
  <2> QED
    BY <1>1, <1>2, <2>1, <2>2
<1>4. ~(q < p)
  <2>1. ASSUME q < p PROVE a * q + a <= a * p
    BY <2>1, Products
  <2>2. a * p \in Int /\ a * q \in Int
    OBVIOUS
  <2> QED
    BY <1>1, <1>2, <2>1, <2>2
<1>5. p = q
  BY <1>3, <1>4
<1>6. s = r
  <2>1. a * p \in Int
    OBVIOUS
  <2> QED
    BY <1>1, <1>2, <1>5, <2>1
<1> QED
  BY <1>1, <1>2, <1>5, <1>6
-----------------------------------------------------------------------------
(* Numbers and their bits.  Digits(d, s, n) is the n bits of d from        *)
(* place s on, each with its weight.                                       *)
Digits(d, s, n) == [i \in 0 .. n - 1 |-> d[s + i] * Pow2[i]]

(* n bits are a number below 2^n.                                          *)
LEMMA DigitsBound ==
  ASSUME NEW d, NEW s \in Nat, NEW n \in 0 .. W, \A i \in 0 .. n - 1 : d[s + i] \in {0, 1}
  PROVE  \A k \in 0 .. n : Sums(Digits(d, s, n), n)[k] \in 0 .. Pow2[k] - 1
<1>f. PICK f : f = Sums(Digits(d, s, n), n)
  OBVIOUS
<1>s. PICK S : S = {k \in 0 .. n : f[k] \in 0 .. Pow2[k] - 1}
  BY Zenon
<1>n. n \in Nat
  BY WType
<1>1. 0 \in S
  BY <1>f, <1>s, <1>n, SumsDef, Pow2Def
<1>2. ASSUME NEW k \in 0 .. n - 1, k \in S PROVE k + 1 \in S
  <2>1. f[k + 1] = f[k] + Digits(d, s, n)[k]
    BY <1>f, <1>n, SumsDef
  <2>2. k \in 0 .. W - 1 /\ k \in 0 .. W
    BY <1>n, WType
  <2>3. Pow2[k + 1] = 2 * Pow2[k] /\ Pow2[k] \in Nat
    BY <2>2, Pow2Def, Pow2Type
  <2>4. Digits(d, s, n)[k] \in {0, Pow2[k]}
    BY <2>3 DEF Digits
  <2>5. f[k] \in 0 .. Pow2[k] - 1
    BY <1>s, <1>2
  <2>6. f[k + 1] \in 0 .. Pow2[k + 1] - 1
    BY <2>1, <2>3, <2>4, <2>5
  <2> QED
    BY <1>s, <1>n, <2>6
<1>3. 0 .. n \subseteq S
  BY <1>1, <1>2, <1>n, Induction
<1> QED
  BY <1>f, <1>s, <1>3

(* The bits below place s + n are those below s and the n bits from s on.  *)
LEMMA DigitsSplit ==
  ASSUME NEW d \in Payloads, NEW s \in 0 .. W, NEW n \in 0 .. W, s + n <= W
  PROVE  \A k \in 0 .. n : Sums(Digits(d, 0, W), W)[s + k] =
             Sums(Digits(d, 0, W), W)[s] + Pow2[s] * Sums(Digits(d, s, n), n)[k]
<1>f. PICK f, g : f = Sums(Digits(d, 0, W), W) /\ g = Sums(Digits(d, s, n), n)
  OBVIOUS
<1>n. n \in Nat /\ s \in Nat /\ W \in Nat
  BY WType
<1>d. ASSUME NEW b \in 0 .. W - 1 PROVE d[b] \in {0, 1}
  BY DEF Payloads, Bits, W
<1>a. \A k \in 0 .. W : f[k] \in 0 .. Pow2[k] - 1
  <2>1. \A i \in 0 .. W - 1 : d[0 + i] \in {0, 1}
    BY <1>d
  <2>2. W \in 0 .. W /\ 0 \in Nat
    BY <1>n
  <2> QED
    BY <1>f, <2>1, <2>2, DigitsBound, Zenon
<1>b. \A k \in 0 .. n : g[k] \in 0 .. Pow2[k] - 1
  <2>1. \A i \in 0 .. n - 1 : s + i \in 0 .. W - 1
    BY <1>n
  <2> QED
    BY <1>f, <1>d, <1>n, <2>1, DigitsBound, Zenon
<1>s. PICK S : S = {k \in 0 .. n : f[s + k] = f[s] + Pow2[s] * g[k]}
  BY Zenon
<1>p. Pow2[s] \in Nat /\ f[s] \in Nat
  BY <1>a, Pow2Type
<1>1. 0 \in S
  <2>1. g[0] = 0 /\ s + 0 = s
    BY <1>f, <1>n, SumsDef
  <2> QED
    BY <1>s, <1>n, <1>p, <2>1
<1>2. ASSUME NEW k \in 0 .. n - 1, k \in S PROVE k + 1 \in S
  <2>1. s + k \in 0 .. W - 1 /\ (s + k) + 1 = s + (k + 1) /\ k \in 0 .. W /\ k \in 0 .. n
    BY <1>n
  <2>2. f[s + (k + 1)] = f[s + k] + Digits(d, 0, W)[s + k] /\ g[k + 1] = g[k] + Digits(d, s, n)[k]
    BY <1>f, <1>n, <2>1, SumsDef
  <2>3. Digits(d, 0, W)[s + k] = d[s + k] * Pow2[s + k] /\ Digits(d, s, n)[k] = d[s + k] * Pow2[k]
    BY <2>1 DEF Digits
  <2>4. Pow2[s + k] = Pow2[s] * Pow2[k] /\ Pow2[k] \in Nat
    BY <2>1, <1>n, Pow2Add, Pow2Type
  <2>5. g[k] \in Nat /\ d[s + k] \in {0, 1}
    BY <1>b, <1>d, <2>1, <2>4
  <2>6. f[s + k] = f[s] + Pow2[s] * g[k]
    BY <1>s, <1>2
  <2>7. PICK x \in Nat, y \in Nat, z \in Nat, w \in Nat, c \in {0, 1} :
            x = Pow2[s] /\ y = Pow2[k] /\ z = g[k] /\ w = f[s] /\ c = d[s + k]
    BY <1>p, <2>4, <2>5
  <2>8. (w + x * z) + c * (x * y) = w + x * (z + c * y)
    OBVIOUS
  <2>9. f[s + (k + 1)] = f[s] + Pow2[s] * g[k + 1]
    BY <2>2, <2>3, <2>4, <2>6, <2>7, <2>8
  <2> QED
    BY <1>s, <1>n, <2>9
<1>3. 0 .. n \subseteq S
  BY <1>1, <1>2, <1>n, Induction
<1> QED
  BY <1>f, <1>s, <1>3

(* The number a payload is, in digits.                                     *)
LEMMA NumberDef ==
  ASSUME NEW d \in Payloads
  PROVE  Number(d) = Sums(Digits(d, 0, W), W)[W]
<1>1. [b \in Bits |-> d[b] * Pow2[b]] = Digits(d, 0, W)
  BY DEF Digits, Bits, W
<1> QED
  BY <1>1 DEF Number, W

(* Shifting and masking a payload's number leaves n bits from place s on.  *)
LEMMA Cut ==
  ASSUME NEW d \in Payloads, NEW s \in 0 .. W, NEW n \in 0 .. W, s + n <= W
  PROVE  (Number(d) \div Pow2[s]) % Pow2[n] = Sums(Digits(d, s, n), n)[n]
<1>n. n \in Nat /\ s \in Nat /\ W \in Nat /\ s + n \in 0 .. W
  BY WType
<1>r. PICK r \in Nat : r = W - (s + n) /\ r \in 0 .. W /\ (s + n) + r = W
  BY <1>n
<1>f. PICK f, g, h : /\ f = Sums(Digits(d, 0, W), W) /\ g = Sums(Digits(d, s, n), n)
                     /\ h = Sums(Digits(d, s + n, r), r)
  OBVIOUS
<1>d. ASSUME NEW b \in 0 .. W - 1 PROVE d[b] \in {0, 1}
  BY DEF Payloads, Bits, W
<1>1. f[s] \in 0 .. Pow2[s] - 1
  <2>1. \A i \in 0 .. W - 1 : d[0 + i] \in {0, 1}
    BY <1>d
  <2>2. W \in 0 .. W /\ 0 \in Nat
    BY <1>n
  <2> QED
    BY <1>f, <2>1, <2>2, DigitsBound, Zenon
<1>2. g[n] \in 0 .. Pow2[n] - 1
  <2>1. \A i \in 0 .. n - 1 : s + i \in 0 .. W - 1
    BY <1>n
  <2>2. n \in 0 .. n
    BY <1>n
  <2> QED
    BY <1>f, <1>d, <1>n, <2>1, <2>2, DigitsBound, Zenon
<1>3. h[r] \in Nat
  <2>1. \A i \in 0 .. r - 1 : (s + n) + i \in 0 .. W - 1
    BY <1>n, <1>r
  <2>2. r \in 0 .. r /\ r \in 0 .. W /\ s + n \in Nat
    BY <1>n, <1>r
  <2>3. h[r] \in 0 .. Pow2[r] - 1
    BY <1>f, <1>d, <1>n, <2>1, <2>2, DigitsBound, Zenon
  <2> QED
    BY <2>2, <2>3, Pow2Type
<1>4. f[s + n] = f[s] + Pow2[s] * g[n]
  <2>1. n \in 0 .. n
    BY <1>n
  <2> QED
    BY <1>f, <2>1, DigitsSplit
<1>5. f[W] = f[s + n] + Pow2[s + n] * h[r]
  <2>1. r \in 0 .. r /\ r \in 0 .. W /\ (s + n) + r <= W
    BY <1>n, <1>r
  <2>2. f[(s + n) + r] = f[s + n] + Pow2[s + n] * h[r]
    BY <1>f, <1>n, <2>1, DigitsSplit
  <2> QED
    BY <1>r, <2>2
<1>6. Pow2[s + n] = Pow2[s] * Pow2[n] /\ Pow2[s] \in Nat \ {0} /\ Pow2[n] \in Nat \ {0}
  BY <1>n, Pow2Add, Pow2Type
<1>7. PICK x \in Nat \ {0}, y \in Nat \ {0}, u \in Nat, v \in Nat, w \in Nat :
          /\ x = Pow2[s] /\ y = Pow2[n] /\ u = f[s] /\ v = g[n] /\ w = h[r]
          /\ u \in 0 .. x - 1 /\ v \in 0 .. y - 1
  <2>1. f[s] \in Nat /\ g[n] \in Nat
    BY <1>1, <1>2
  <2> QED
    BY <1>1, <1>2, <1>3, <1>6, <2>1, Zenon
<1>8. (u + x * v) + (x * y) * w = x * (y * w + v) + u
  OBVIOUS
<1>9. f[W] = x * (y * w + v) + u
  BY <1>4, <1>5, <1>6, <1>7, <1>8
<1>10. y * w + v \in Int
  OBVIOUS
<1>11. f[W] \div x = y * w + v
  <2>1. PICK q \in Int : q = y * w + v
    BY <1>10
  <2>2. (x * q + u) \div x = q
    BY <1>7, DivMod, Zenon
  <2> QED
    BY <1>9, <2>1, <2>2
<1>12. (y * w + v) % y = v
  <2>1. w \in Int
    OBVIOUS
  <2> QED
    BY <1>7, <2>1, DivMod, Zenon
<1> QED
  BY <1>7, <1>11, <1>12, <1>f, NumberDef
-----------------------------------------------------------------------------
(* Bit positions.                                                          *)
LEMMA SwapIsInverse ==
  ASSUME NEW b \in Bits
  PROVE  Swap(b) \in Bits /\ Swap(Swap(b)) = b
<1>1. PICK q \in 0 .. NBytes - 1, r \in 0 .. 7 : b = 8 * q + r /\ q = b \div 8 /\ r = b % 8
  <2>1. b \div 8 \in 0 .. NBytes - 1 /\ b % 8 \in 0 .. 7 /\ b = 8 * (b \div 8) + (b % 8)
    BY CodecAssumption DEF Bits
  <2> QED
    BY <2>1
<1>2. PICK p \in 0 .. NBytes - 1 : p = NBytes - 1 - q
  BY CodecAssumption
<1>3. Swap(b) = 8 * p + r
  BY <1>1, <1>2, Zenon DEF Swap
<1>4. (8 * p + r) \div 8 = p /\ (8 * p + r) % 8 = r
  BY CodecAssumption
<1>5. Swap(Swap(b)) = 8 * (NBytes - 1 - p) + r
  BY <1>3, <1>4 DEF Swap
<1>6. 8 * p + r \in 0 .. 8 * NBytes - 1 /\ 8 * (NBytes - 1 - p) + r = 8 * q + r
  BY <1>2, CodecAssumption
<1> QED
  BY <1>1, <1>3, <1>5, <1>6 DEF Bits

(* The next position of a big-endian signal is the next lower place of the *)
(* swapped payload, within a byte and from one byte to the next.           *)
LEMMA MotorolaIsDescending ==
  ASSUME NEW j \in Bits, j # 0
  PROVE  NextMotorola(Swap(j)) = Swap(j - 1)
<1>1. PICK q \in 0 .. NBytes - 1, r \in 0 .. 7 : j = 8 * q + r /\ q = j \div 8 /\ r = j % 8
  <2>1. j \div 8 \in 0 .. NBytes - 1 /\ j % 8 \in 0 .. 7 /\ j = 8 * (j \div 8) + (j % 8)
    BY CodecAssumption DEF Bits
  <2> QED
    BY <2>1
<1>2. PICK p \in 0 .. NBytes - 1 : p = NBytes - 1 - q
  BY CodecAssumption
<1>3. Swap(j) = 8 * p + r
  BY <1>1, <1>2, Zenon DEF Swap
<1>4. (8 * p + r) % 8 = r
  BY CodecAssumption
<1>5. CASE r = 0
  <2>1. (j - 1) \div 8 = q - 1 /\ (j - 1) % 8 = 7
    BY <1>1, <1>5, CodecAssumption DEF Bits
  <2>2. Swap(j - 1) = 8 * (p + 1) + 7
    BY <1>2, <2>1, CodecAssumption DEF Swap
  <2> QED
    BY <1>3, <1>4, <1>5, <2>2, CodecAssumption DEF NextMotorola
<1>6. CASE r # 0
  <2>1. (j - 1) \div 8 = q /\ (j - 1) % 8 = r - 1
    BY <1>1, <1>6, CodecAssumption DEF Bits
  <2>2. Swap(j - 1) = 8 * p + (r - 1)
    BY <1>2, <2>1 DEF Swap
  <2> QED
    BY <1>3, <1>4, <1>6, <2>2, CodecAssumption DEF NextMotorola
<1> QED
  BY <1>5, <1>6

(* The walk of bitPositions over a big-endian signal descends in the       *)
(* swapped payload.                                                        *)
LEMMA WalkDef ==
  ASSUME NEW top \in Bits, NEW n \in Nat \ {0}, Swap(top) - n + 1 \in Nat, NEW walk,
         walk = [k \in 0 .. n - 1 |-> IF k = 0 THEN top ELSE NextMotorola(walk[k - 1])]
  PROVE  \A k \in 0 .. n - 1 : walk[k] = Swap(Swap(top) - k)
<1>s. PICK S : S = {k \in 0 .. n - 1 : walk[k] = Swap(Swap(top) - k)}
  BY Zenon
<1>0. Swap(top) \in Int /\ Swap(top) <= 8 * NBytes - 1 /\ Swap(Swap(top)) = top /\ Swap(top) - 0 = Swap(top)
  BY SwapIsInverse, CodecAssumption DEF Bits
<1>1. 0 \in S
  BY <1>s, <1>0
<1>2. ASSUME NEW k \in 0 .. (n - 1) - 1, k \in S PROVE k + 1 \in S
  <2>1. k + 1 \in 0 .. n - 1 /\ k + 1 # 0 /\ (k + 1) - 1 = k
    OBVIOUS
  <2>2. walk[k + 1] = NextMotorola(walk[k])
    BY <2>1
  <2>3. PICK j \in Bits : j = Swap(top) - k /\ j # 0 /\ j - 1 = Swap(top) - (k + 1)
    <3>1. PICK x \in Int : x = Swap(top) /\ x <= 8 * NBytes - 1 /\ x - n + 1 >= 0
      BY <1>0
    <3>2. x - k \in 0 .. 8 * NBytes - 1 /\ x - k # 0 /\ (x - k) - 1 = x - (k + 1)
      BY <3>1, CodecAssumption
    <3> QED
      BY <3>1, <3>2, Zenon DEF Bits
  <2>4. walk[k] = Swap(j)
    BY <1>s, <1>2, <2>3
  <2>5. walk[k + 1] = Swap(j - 1)
    BY <2>2, <2>4, <2>3, MotorolaIsDescending
  <2> QED
    BY <1>s, <2>1, <2>3, <2>5
<1>3. 0 .. n - 1 \subseteq S
  <2>1. n - 1 \in Nat
    OBVIOUS
  <2> QED
    BY <1>1, <1>2, <2>1, Induction, Zenon
<1> QED
  BY <1>s, <1>3

(* There is a walk from every start bit that leaves room for the signal.   *)
LEMMA WalkExists ==
  ASSUME NEW top \in Bits, NEW n \in Nat \ {0}, Swap(top) - n + 1 \in Nat
  PROVE  \E walk : walk = [k \in 0 .. n - 1 |-> IF k = 0 THEN top ELSE NextMotorola(walk[k - 1])]
<1>0. Swap(top) \in Int /\ Swap(top) <= 8 * NBytes - 1 /\ Swap(Swap(top)) = top /\ Swap(top) - 0 = Swap(top)
  BY SwapIsInverse, CodecAssumption DEF Bits
<1>w. PICK walk : walk = [k \in 0 .. n - 1 |-> Swap(Swap(top) - k)]
  BY Zenon
<1>1. ASSUME NEW k \in 0 .. n - 1 PROVE walk[k] = IF k = 0 THEN top ELSE NextMotorola(walk[k - 1])
  <2>1. CASE k = 0
    BY <1>0, <1>w, <2>1
  <2>2. CASE k # 0
    <3>1. PICK j \in Bits : j = Swap(top) - (k - 1) /\ j # 0 /\ j - 1 = Swap(top) - k
      BY <1>0, <2>2, CodecAssumption DEF Bits
    <3>2. walk[k - 1] = Swap(j) /\ walk[k] = Swap(j - 1)
      BY <1>w, <2>2, <3>1
    <3> QED
      BY <2>2, <3>1, <3>2, MotorolaIsDescending
  <2> QED
    BY <2>1, <2>2
<1> QED
  BY <1>w, <1>1

(* Bit i of a signal lies i places above its lowest bit, in the payload or *)
(* in the swapped payload.                                                 *)
Place(s, j) == IF s.LittleEndian THEN j ELSE Swap(j)

(* bitPositions: in the signal's own byte order its bits are consecutive.  *)
LEMMA PositionsAreConsecutive ==
  ASSUME NEW s, Signal(s)
  PROVE  positions(s) = [i \in 0 .. s.Length - 1 |-> Place(s, LowestBit(s) + i)]
<1>n. PICK n \in Nat \ {0}, top \in Bits : n = s.Length /\ top = s.StartBit
  BY DEF Signal
<1>1. CASE s.LittleEndian
  BY <1>1 DEF positions, bitPositions, Place, LowestBit
<1>2. CASE ~s.LittleEndian
  <2>0. Swap(top) \in Int /\ Swap(top) - n + 1 \in Nat /\ LowestBit(s) = Swap(top) - n + 1
    BY <1>2, <1>n, SwapIsInverse DEF Signal, LowestBit, Bits
  <2>1. PICK walk : /\ walk = [k \in 0 .. n - 1 |-> IF k = 0 THEN top ELSE NextMotorola(walk[k - 1])]
                    /\ positions(s) = [i \in 0 .. n - 1 |-> walk[n - 1 - i]]
    <3>1. \E walk : walk = [k \in 0 .. n - 1 |-> IF k = 0 THEN top ELSE NextMotorola(walk[k - 1])]
      BY <2>0, WalkExists
    <3>2. PICK walk : walk = CHOOSE w : w = [k \in 0 .. n - 1 |-> IF k = 0 THEN top ELSE NextMotorola(w[k - 1])]
      OBVIOUS
    <3>3. walk = [k \in 0 .. n - 1 |-> IF k = 0 THEN top ELSE NextMotorola(walk[k - 1])]
      BY <3>1, <3>2
    <3>4. positions(s) = bitPositions(top, n, FALSE)
      BY <1>2, <1>n, Zenon DEF positions, Signal
    <3>5. bitPositions(top, n, FALSE) = [i \in 0 .. n - 1 |-> walk[n - 1 - i]]
      BY <3>2 DEF bitPositions
    <3> QED
      BY <3>3, <3>4, <3>5, Zenon
  <2>2. \A k \in 0 .. n - 1 : walk[k] = Swap(Swap(top) - k)
    BY <2>0, <2>1, WalkDef, ZenonT(30)
  <2>3. ASSUME NEW i \in 0 .. n - 1 PROVE walk[n - 1 - i] = Swap(LowestBit(s) + i)
    <3>1. n - 1 - i \in 0 .. n - 1 /\ Swap(top) - (n - 1 - i) = LowestBit(s) + i
      BY <2>0
    <3> QED
      BY <2>2, <3>1
  <2> QED
    BY <1>2, <1>n, <2>1, <2>3 DEF Place
<1> QED
  BY <1>1, <1>2

(* A signal lies within the payload.                                       *)
LEMMA SignalType ==
  ASSUME NEW s, Signal(s)
  PROVE  /\ s.Length \in Nat \ {0} /\ s.Length \in 0 .. W
         /\ LowestBit(s) \in Nat /\ LowestBit(s) \in 0 .. W /\ LowestBit(s) + s.Length <= W
<1>1. PICK n \in Nat \ {0}, lo \in Nat : n = s.Length /\ lo = LowestBit(s) /\ lo + n <= W
  BY DEF Signal, W
<1>2. n \in 0 .. W /\ lo \in 0 .. W
  BY <1>1, WType
<1> QED
  BY <1>1, <1>2

(* The bits of a signal lie within the payload, each at its own place.     *)
LEMMA PositionsFit ==
  ASSUME NEW s, Signal(s)
  PROVE  /\ DOMAIN positions(s) = 0 .. s.Length - 1
         /\ \A i \in 0 .. s.Length - 1 : /\ positions(s)[i] = Place(s, LowestBit(s) + i)
                                         /\ positions(s)[i] \in Bits
                                         /\ LowestBit(s) + i \in Bits
         /\ \A i, j \in 0 .. s.Length - 1 : positions(s)[i] = positions(s)[j] => i = j
<1>n. PICK n \in Nat \ {0}, lo \in Nat : n = s.Length /\ lo = LowestBit(s) /\ lo + n <= W
  BY SignalType
<1>1. positions(s) = [i \in 0 .. n - 1 |-> Place(s, lo + i)]
  BY <1>n, PositionsAreConsecutive
<1>2. ASSUME NEW i \in 0 .. n - 1 PROVE lo + i \in Bits
  BY <1>n, WType DEF Bits, W
<1>3. ASSUME NEW j \in Bits PROVE Place(s, j) \in Bits /\ Place(s, Place(s, j)) = j
  BY SwapIsInverse DEF Place
<1>4. ASSUME NEW i \in 0 .. n - 1, NEW j \in 0 .. n - 1, Place(s, lo + i) = Place(s, lo + j) PROVE i = j
  <2>1. lo + i = lo + j
    BY <1>2, <1>3, <1>4
  <2> QED
    BY <2>1
<1> QED
  BY <1>n, <1>1, <1>2, <1>3, <1>4

(* extractRaw reads the bits of a signal, whatever its byte order, as the  *)
(* number they are in the payload.                                         *)
LEMMA ExtractIsDigits ==
  ASSUME NEW s, Signal(s), NEW d \in Payloads
  PROVE  LET e == IF s.LittleEndian THEN d ELSE Swapped(d)
         IN  /\ e \in Payloads
             /\ extractRaw(d, positions(s)) = Sums(Digits(e, LowestBit(s), s.Length), s.Length)[s.Length]
<1>n. PICK n \in Nat \ {0}, lo \in Nat : n = s.Length /\ lo = LowestBit(s) /\ lo + n <= W
  BY SignalType
<1>e. PICK e : e = IF s.LittleEndian THEN d ELSE Swapped(d)
  OBVIOUS
<1>1. e \in Payloads /\ \A j \in Bits : e[j] = d[Place(s, j)]
  BY <1>e, SwapIsInverse DEF Payloads, Swapped, Place
<1>p. PICK ps : ps = positions(s)
  OBVIOUS
<1>2. /\ DOMAIN ps = 0 .. n - 1
      /\ \A i \in 0 .. n - 1 : ps[i] = Place(s, lo + i) /\ ps[i] \in Bits /\ lo + i \in Bits
  BY <1>n, <1>p, PositionsFit
<1>3. Cardinality(DOMAIN ps) = n
  <2>1. Cardinality(0 .. n - 1) = n
    BY FS_Interval
  <2> QED
    BY <1>2, <2>1
<1>4. [i \in DOMAIN ps |-> IF ps[i] \in Bits THEN d[ps[i]] * Pow2[i] ELSE 0] = Digits(e, lo, n)
  <2>1. ASSUME NEW i \in 0 .. n - 1 PROVE d[ps[i]] = e[lo + i] /\ ps[i] \in Bits
    BY <1>1, <1>2
  <2> QED
    BY <1>2, <2>1 DEF Digits
<1>5. extractRaw(d, ps) = Sums(Digits(e, lo, n), n)[n]
  BY <1>3, <1>4 DEF extractRaw
<1> QED
  BY <1>n, <1>e, <1>1, <1>p, <1>5

(* extractRaw is Field, for signals of either byte order and any place and *)
(* length.                                                                 *)
LEMMA ExtractIsField ==
  ASSUME NEW s, Signal(s), NEW d \in Payloads
  PROVE  /\ extractRaw(d, positions(s)) = Field(s, d)
         /\ Field(s, d) \in 0 .. Pow2[s.Length] - 1
<1>e. PICK e : e = IF s.LittleEndian THEN d ELSE Swapped(d)
  OBVIOUS
<1>1. /\ e \in Payloads
      /\ extractRaw(d, positions(s)) = Sums(Digits(e, LowestBit(s), s.Length), s.Length)[s.Length]
  BY <1>e, ExtractIsDigits
<1>n. PICK n \in Nat \ {0}, lo \in Nat :
          n = s.Length /\ lo = LowestBit(s) /\ lo + n <= W /\ n \in 0 .. W /\ lo \in 0 .. W
  BY SignalType
<1>2. (Number(e) \div Pow2[lo]) % Pow2[n] = Sums(Digits(e, lo, n), n)[n]
  BY <1>1, <1>n, Cut
<1>3. Field(s, d) = (Number(e) \div Pow2[lo]) % Pow2[n]
  BY <1>e, <1>n DEF Field
<1>4. Sums(Digits(e, lo, n), n)[n] \in 0 .. Pow2[n] - 1
  <2>1. \A i \in 0 .. n - 1 : e[lo + i] \in {0, 1}
    BY <1>1, <1>n, WType DEF Payloads, Bits, W
  <2>2. n \in 0 .. n
    BY <1>n
  <2> QED
    BY <1>n, <2>1, <2>2, DigitsBound, Zenon
<1> QED
  BY <1>1, <1>n, <1>2, <1>3, <1>4
-----------------------------------------------------------------------------
(* Packing.  packRaw puts the bits of raw into the signal's places and     *)
(* leaves all others alone.                                                *)
LEMMA PackedBits ==
  ASSUME NEW s, Signal(s), NEW d \in Payloads, NEW raw \in Int
  PROVE  /\ packRaw(d, positions(s), raw) \in Payloads
         /\ \A i \in 0 .. s.Length - 1 : packRaw(d, positions(s), raw)[positions(s)[i]] = (raw \div Pow2[i]) % 2
         /\ \A b \in Bits \ Occupied(s) : packRaw(d, positions(s), raw)[b] = d[b]
<1>n. PICK n \in Nat \ {0} : n = s.Length /\ n \in 0 .. W
  BY SignalType
<1>p. PICK ps : ps = positions(s)
  OBVIOUS
<1>1. /\ DOMAIN ps = 0 .. n - 1
      /\ \A i \in 0 .. n - 1 : ps[i] \in Bits
      /\ \A i, j \in 0 .. n - 1 : ps[i] = ps[j] => i = j
  BY <1>n, <1>p, PositionsFit
<1>2. ASSUME NEW i \in 0 .. n - 1 PROVE (raw \div Pow2[i]) % 2 \in {0, 1}
  <2>1. i \in 0 .. W
    BY <1>n, WType
  <2>2. PICK x \in Nat \ {0} : x = Pow2[i]
    BY <2>1, Pow2Type
  <2>3. (raw \div x) % 2 \in {0, 1}
    OBVIOUS
  <2> QED
    BY <2>2, <2>3
<1>q. PICK q : q = packRaw(d, ps, raw)
  OBVIOUS
<1>3. q = [b \in Bits |-> IF \E i \in 0 .. n - 1 : ps[i] = b
                          THEN (raw \div Pow2[CHOOSE i \in 0 .. n - 1 : ps[i] = b]) % 2
                          ELSE d[b]]
  BY <1>q, <1>1 DEF packRaw
<1>4. ASSUME NEW i \in 0 .. n - 1 PROVE q[ps[i]] = (raw \div Pow2[i]) % 2
  <2>1. (CHOOSE j \in 0 .. n - 1 : ps[j] = ps[i]) = i
    BY <1>1
  <2> QED
    BY <1>1, <1>3, <2>1
<1>5. ASSUME NEW b \in Bits, ~\E i \in 0 .. n - 1 : ps[i] = b PROVE q[b] = d[b]
  BY <1>3, <1>5
<1>6. q \in Payloads
  <2>1. ASSUME NEW b \in Bits PROVE q[b] \in {0, 1}
    <3>1. CASE \E i \in 0 .. n - 1 : ps[i] = b
      BY <1>2, <1>4, <3>1
    <3>2. CASE ~\E i \in 0 .. n - 1 : ps[i] = b
      BY <1>5, <3>2 DEF Payloads
    <3> QED
      BY <3>1, <3>2
  <2>2. q = [b \in Bits |-> q[b]]
    BY <1>3
  <2> QED
    BY <2>1, <2>2 DEF Payloads
<1>7. \A b \in Bits \ Occupied(s) : ~\E i \in 0 .. n - 1 : ps[i] = b
  BY <1>n, <1>p DEF Occupied
<1> QED
  BY <1>n, <1>p, <1>q, <1>4, <1>5, <1>6, <1>7

(* The lowest k bits of a number are its remainder by 2^k.                 *)
LEMMA BinaryDigits ==
  ASSUME NEW raw \in Int, NEW n \in 0 .. W, NEW t, \A i \in 0 .. n - 1 : t[i] = ((raw \div Pow2[i]) % 2) * Pow2[i]
  PROVE  \A k \in 0 .. n : Sums(t, n)[k] = raw % Pow2[k]
<1>n. n \in Nat /\ n <= W
  BY WType
<1>f. PICK f : f = Sums(t, n)
  OBVIOUS
<1>s. PICK S : S = {k \in 0 .. n : f[k] = raw % Pow2[k]}
  BY Zenon
<1>1. 0 \in S
  <2>1. raw % 1 = 0
    OBVIOUS
  <2> QED
    BY <1>f, <1>n, <1>s, <2>1, SumsDef, Pow2Def
<1>2. ASSUME NEW k \in 0 .. n - 1, k \in S PROVE k + 1 \in S
  <2>1. k \in 0 .. W - 1 /\ k \in 0 .. W
    BY <1>n, WType
  <2>2. PICK x \in Nat \ {0} : x = Pow2[k] /\ Pow2[k + 1] = 2 * x
    BY <2>1, Pow2Def, Pow2Type
  <2>3. PICK q \in Int, r \in Nat : q = raw \div x /\ r = raw % x /\ r < x /\ raw = x * q + r
    <3>1. raw \div x \in Int /\ raw % x \in 0 .. x - 1 /\ raw = x * (raw \div x) + (raw % x)
      OBVIOUS
    <3> QED
      BY <3>1
  <2>4. PICK p \in Int, c \in {0, 1} : q = 2 * p + c /\ c = q % 2
    <3>1. q \div 2 \in Int /\ q % 2 \in {0, 1} /\ q = 2 * (q \div 2) + (q % 2)
      OBVIOUS
    <3> QED
      BY <3>1
  <2>5. f[k + 1] = r + c * x
    <3>1. f[k + 1] = f[k] + t[k] /\ f[k] = r
      BY <1>f, <1>n, <1>s, <1>2, <2>2, <2>3, SumsDef, Zenon
    <3> QED
      BY <3>1, <2>2, <2>3, <2>4
  <2>6. raw % (2 * x) = r + c * x
    <3>1. PICK y \in Nat \ {0}, u \in Nat : y = 2 * x /\ u = r + c * x /\ u \in 0 .. y - 1
      BY <2>3
    <3>2. x * (2 * p + c) + r = (2 * x) * p + (r + c * x)
      OBVIOUS
    <3>3. raw = y * p + u
      BY <2>3, <2>4, <3>1, <3>2, Zenon
    <3>4. (y * p + u) % y = u
      BY <3>1, DivMod, Zenon
    <3> QED
      BY <3>1, <3>3, <3>4
  <2> QED
    BY <1>s, <1>n, <2>2, <2>5, <2>6
<1>3. 0 .. n \subseteq S
  BY <1>1, <1>2, <1>n, Induction
<1> QED
  BY <1>f, <1>s, <1>3

(* What was packed is read back.                                           *)
LEMMA ExtractPacked ==
  ASSUME NEW s, Signal(s), NEW d \in Payloads, NEW raw \in Int, NEW e \in Payloads,
         \A b \in Occupied(s) : e[b] = packRaw(d, positions(s), raw)[b]
  PROVE  extractRaw(e, positions(s)) = raw % Pow2[s.Length]
<1>n. PICK n \in Nat \ {0} : n = s.Length /\ n \in 0 .. W
  BY SignalType
<1>p. PICK ps : ps = positions(s)
  OBVIOUS
<1>1. DOMAIN ps = 0 .. n - 1 /\ \A i \in 0 .. n - 1 : ps[i] \in Bits /\ ps[i] \in Occupied(s)
  BY <1>n, <1>p, PositionsFit DEF Occupied
<1>2. ASSUME NEW i \in 0 .. n - 1 PROVE e[ps[i]] = (raw \div Pow2[i]) % 2
  BY <1>n, <1>p, <1>1, PackedBits, Zenon
<1>3. Cardinality(DOMAIN ps) = n
  <2>1. Cardinality(0 .. n - 1) = n
    BY FS_Interval
  <2> QED
    BY <1>1, <2>1
<1>t. PICK t : t = [i \in DOMAIN ps |-> IF ps[i] \in Bits THEN e[ps[i]] * Pow2[i] ELSE 0]
  BY Zenon
<1>4. \A i \in 0 .. n - 1 : t[i] = ((raw \div Pow2[i]) % 2) * Pow2[i]
  BY <1>1, <1>2, <1>t
<1>5. Sums(t, n)[n] = raw % Pow2[n]
  <2>1. n \in 0 .. n
    BY <1>n
  <2> QED
    BY <1>4, <1>n, <2>1, BinaryDigits
<1>6. extractRaw(e, ps) = Sums(t, n)[n]
  BY <1>3, <1>t DEF extractRaw
<1> QED
  BY <1>n, <1>p, <1>5, <1>6

(* A signal's value depends on its own bits only.                          *)
LEMMA ExtractLocal ==
  ASSUME NEW s, Signal(s), NEW d \in Payloads, NEW e \in Payloads, \A b \in Occupied(s) : e[b] = d[b]
  PROVE  extractRaw(e, positions(s)) = extractRaw(d, positions(s))
<1>p. PICK ps : ps = positions(s)
  OBVIOUS
<1>1. \A i \in DOMAIN ps : ps[i] \in Occupied(s)
  BY <1>p, PositionsFit, Zenon DEF Occupied
<1>2. [i \in DOMAIN ps |-> IF ps[i] \in Bits THEN e[ps[i]] * Pow2[i] ELSE 0]
        = [i \in DOMAIN ps |-> IF ps[i] \in Bits THEN d[ps[i]] * Pow2[i] ELSE 0]
  BY <1>1
<1> QED
  BY <1>p, <1>2 DEF extractRaw
-----------------------------------------------------------------------------
(* Physical values.  Rounding is exact where there is nothing to round.    *)
LEMMA RoundExact ==
  ASSUME NEW r \in Int, NEW c \in Int \ {0}
  PROVE  Round(r * c, c) = r
<1>1. PICK f \in Nat \ {0}, k \in Nat : f = Abs(c) /\ k = Abs(r)
  BY DEF Abs
<1>2. PICK a \in Int : a = r * c
  OBVIOUS
<1>3. /\ Abs(a) = k * f
      /\ r > 0 => ((a < 0) <=> (c < 0))
      /\ r < 0 => ((a < 0) <=> ~(c < 0))
  <2>1. CASE r >= 0 /\ c > 0
    <3>1. a \in Nat
      BY <1>2, <2>1
    <3> QED
      BY <1>1, <1>2, <2>1, <3>1 DEF Abs
  <2>2. CASE r >= 0 /\ c < 0
    <3>1. PICK g \in Nat \ {0} : c = -g
      BY <2>2
    <3>2. a = -(r * g) /\ r * g \in Nat /\ (r > 0 => r * g > 0)
      BY <1>2, <2>2, <3>1
    <3>3. f = g /\ k = r
      BY <1>1, <2>2, <3>1 DEF Abs
    <3> QED
      BY <2>2, <3>1, <3>2, <3>3 DEF Abs
  <2>3. CASE r < 0 /\ c > 0
    <3>1. PICK g \in Nat \ {0} : r = -g
      BY <2>3
    <3>2. a = -(g * c) /\ g * c \in Nat \ {0}
      BY <1>2, <2>3, <3>1
    <3>3. k = g /\ f = c
      BY <1>1, <2>3, <3>1 DEF Abs
    <3> QED
      BY <2>3, <3>1, <3>2, <3>3 DEF Abs
  <2>4. CASE r < 0 /\ c < 0
    <3>1. PICK g \in Nat \ {0}, h \in Nat \ {0} : r = -g /\ c = -h
      BY <2>4
    <3>2. a = g * h /\ g * h \in Nat
      BY <1>2, <3>1
    <3>3. k = g /\ f = h
      BY <1>1, <2>4, <3>1 DEF Abs
    <3> QED
      BY <2>4, <3>1, <3>2, <3>3 DEF Abs
  <2> QED
    BY <2>1, <2>2, <2>3, <2>4
<1>4. (2 * Abs(a) + f) \div (2 * f) = k
  <2>1. PICK y \in Nat \ {0} : y = 2 * f /\ f \in 0 .. y - 1
    OBVIOUS
  <2>2. 2 * (k * f) + f = (2 * f) * k + f
    OBVIOUS
  <2>3. (y * k + f) \div y = k
    BY <2>1, DivMod
  <2> QED
    BY <1>3, <2>1, <2>2, <2>3
<1>5. Round(a, c) = IF (a < 0) = (c < 0) THEN k ELSE -k
  BY <1>1, <1>4 DEF Round
<1>6. CASE r > 0
  BY <1>1, <1>2, <1>3, <1>5, <1>6 DEF Abs
<1>7. CASE r < 0
  BY <1>1, <1>2, <1>3, <1>5, <1>7 DEF Abs
<1>8. CASE r = 0
  BY <1>1, <1>2, <1>5, <1>8 DEF Abs
<1> QED
  BY <1>6, <1>7, <1>8

(* Rounding goes to a nearest multiple.                                    *)
LEMMA RoundNearest ==
  ASSUME NEW a \in Int, NEW c \in Int \ {0}
  PROVE  Round(a, c) \in Int /\ 2 * Abs(Round(a, c) * c - a) <= Abs(c)
<1>1. PICK f \in Nat \ {0}, k \in Nat : /\ f = Abs(c) /\ c = IF c < 0 THEN -f ELSE f
                                        /\ k = Abs(a) /\ a = IF a < 0 THEN -k ELSE k
  BY DEF Abs
<1>2. PICK y \in Nat \ {0}, x \in Nat : y = 2 * f /\ x = 2 * k + f
  OBVIOUS
<1>3. PICK q \in Int, m \in 0 .. y - 1 : q = x \div y /\ x = y * q + m
  <2>1. x \div y \in Int /\ x % y \in 0 .. y - 1 /\ x = y * (x \div y) + (x % y)
    OBVIOUS
  <2> QED
    BY <2>1
<1>4. Round(a, c) = IF (a < 0) = (c < 0) THEN q ELSE -q
  BY <1>1, <1>2, <1>3 DEF Round
<1>5. PICK z \in Int : z = q * f /\ y * q = 2 * z
  <2>1. q * f \in Int /\ (2 * f) * q = 2 * (q * f)
    OBVIOUS
  <2> QED
    BY <1>2, <2>1
<1>6. z - k \in Int /\ 2 * (z - k) <= f /\ -f <= 2 * (z - k)
  BY <1>2, <1>3, <1>5
<1>7. Round(a, c) * c = IF a < 0 THEN -z ELSE z
  <2>1. q * (-f) = -z /\ (-q) * f = -z /\ (-q) * (-f) = z
    BY <1>5
  <2>2. CASE a < 0 /\ c < 0
    BY <1>1, <1>4, <2>1, <2>2
  <2>3. CASE a < 0 /\ ~(c < 0)
    BY <1>1, <1>4, <2>1, <2>3
  <2>4. CASE ~(a < 0) /\ c < 0
    BY <1>1, <1>4, <2>1, <2>4
  <2>5. CASE ~(a < 0) /\ ~(c < 0)
    BY <1>1, <1>4, <1>5, <2>5
  <2> QED
    BY <2>2, <2>3, <2>4, <2>5
<1>8. 2 * Abs(Round(a, c) * c - a) <= f
  <2>1. PICK e \in Int : e = Round(a, c) * c - a /\ e \in {z - k, k - z}
    BY <1>1, <1>7
  <2>2. 2 * Abs(e) <= f
    BY <1>6, <2>1 DEF Abs
  <2> QED
    BY <2>1, <2>2
<1> QED
  BY <1>1, <1>4, <1>8

(* Where float64 and int64 have nothing to round or to cut.                *)
LEMMA FloatExact ==
  ASSUME NEW n \in Int, Abs(n) <= Pow2[Precision]
  PROVE  Float64[n] = n
BY DEF Float64

LEMMA QuotientExact ==
  ASSUME NEW a \in Int, NEW b \in Int, 2 * Abs(a) <= Pow2[Precision]
  PROVE  RoundQuotient[a][b] = Round(a, b)
BY DEF RoundQuotient

(* The powers that bound a word and a float64.                             *)
LEMMA Bounds ==
  /\ Pow2[8 * NBytes - 1] \in Nat \ {0} /\ Pow2[8 * NBytes] \in Nat \ {0}
  /\ Pow2[Precision] \in Nat \ {0}
<1>1. 8 * NBytes - 1 \in 0 .. W /\ 8 * NBytes \in 0 .. W /\ Precision \in 0 .. W
  BY CodecAssumption DEF W
<1> QED
  BY <1>1, Pow2Type

(* Truncate makes an int64 of anything.                                    *)
LEMMA TruncateType == \A x : Truncate(x) \in Int
BY Bounds, CodecAssumption DEF Truncate

(* A number that fits a signal fits a word, unless it is unsigned and in   *)
(* the upper half of one.                                                  *)
LEMMA TruncateExact ==
  ASSUME NEW s, Signal(s), NEW r \in RawRange(s), r < Pow2[8 * NBytes - 1]
  PROVE  r \in Int /\ Truncate(r) = r
<1>n. PICK n \in Nat \ {0}, k \in Nat : n = s.Length /\ k = W - n /\ n - 1 \in 0 .. W /\ k \in 0 .. W
  BY SignalType, WType
<1>1. PICK h \in Nat \ {0}, q \in Nat \ {0}, t \in Nat \ {0} :
         h = Pow2[n - 1] /\ q = Pow2[k] /\ t = Pow2[8 * NBytes - 1]
  BY <1>n, Pow2Type, Bounds
<1>2. t = h * q
  <2>1. (n - 1) + k = 8 * NBytes - 1 /\ (n - 1) + k <= W
    BY <1>n, WType DEF W
  <2>2. Pow2[(n - 1) + k] = Pow2[n - 1] * Pow2[k]
    BY <1>n, <2>1, Pow2Add
  <2> QED
    BY <1>1, <2>1, <2>2
<1>3. h * q >= h
  OBVIOUS
<1>4. Pow2[s.Length] \in Nat
  BY <1>n, SignalType, Pow2Type
<1>5. r \in Int /\ -h <= r
  BY <1>n, <1>1, <1>4 DEF RawRange
<1>6. r \in -t .. t - 1
  BY <1>1, <1>2, <1>3, <1>5
<1> QED
  BY <1>1, <1>5, <1>6 DEF Truncate

(* A number that fits comes back from its bit pattern.                     *)
LEMMA PatternExact ==
  ASSUME NEW s, Signal(s), NEW r \in RawRange(s)
  PROVE  r \in Int /\ Value(s, r % Pow2[s.Length]) = r
<1>n. PICK n \in Nat \ {0} : n = s.Length
  BY DEF Signal
<1>h. PICK h \in Nat \ {0}, p \in Nat \ {0} : h = Pow2[n - 1] /\ p = Pow2[n] /\ p = 2 * h
  <2>1. n - 1 \in 0 .. W - 1 /\ (n - 1) + 1 = n /\ n - 1 \in 0 .. W /\ n \in 0 .. W
    BY <1>n, SignalType, WType
  <2>2. Pow2[n] = 2 * Pow2[n - 1]
    BY <2>1, Pow2Def
  <2> QED
    BY <2>1, <2>2, Pow2Type
<1>1. r \in Int /\ r \in IF s.Signed THEN -h .. h - 1 ELSE 0 .. p - 1
  BY <1>n, <1>h DEF RawRange
<1>3. CASE r >= 0
  <2>1. r \in 0 .. p - 1 /\ (s.Signed => 2 * r < p)
    BY <1>h, <1>1, <1>3
  <2>2. r % p = r
    BY <2>1
  <2>3. Value(s, r) = IF s.Signed /\ 2 * r >= p THEN r - p ELSE r
    BY <1>n, <1>h DEF Value
  <2> QED
    BY <1>1, <1>n, <1>h, <2>1, <2>2, <2>3
<1>4. CASE r < 0
  <2>1. s.Signed /\ r \in -h .. -1
    BY <1>1, <1>4
  <2>2. PICK u \in Nat : u = r + p /\ u \in 0 .. p - 1 /\ 2 * u >= p /\ u - p = r
    BY <1>h, <2>1
  <2>3. r = p * (-1) + u
    BY <2>2
  <2>4. r % p = u
    BY <2>2, <2>3, DivMod
  <2>5. Value(s, u) = IF s.Signed /\ 2 * u >= p THEN u - p ELSE u
    BY <1>n, <1>h DEF Value
  <2> QED
    BY <1>1, <1>n, <1>h, <2>1, <2>2, <2>4, <2>5
<1> QED
  BY <1>3, <1>4, <1>1

(* A value whose nearest number fits the signal, and nothing on the way    *)
(* rounds or overflows: encode packs the pattern of that number.           *)
LEMMA EncodeRounds ==
  ASSUME NEW s, Signal(s), NEW v \in Int, NEW r \in RawRange(s),
         r = Round(v - s.Offset, s.Factor), r < Pow2[8 * NBytes - 1],
         Abs(v) <= Pow2[Precision], 2 * Abs(v - s.Offset) <= Pow2[Precision]
  PROVE  encodeRaw(s, v) = r % Pow2[s.Length]
<1>n. PICK c \in Int \ {0}, o \in Int : c = s.Factor /\ o = s.Offset
  BY DEF Signal
<1>a. PICK a \in Int : a = v - o
  OBVIOUS
<1>1. Float64[v] = v
  BY FloatExact
<1>2. Abs(a) <= Pow2[Precision] /\ 2 * Abs(a) <= Pow2[Precision]
  <2>1. Abs(a) \in Nat /\ 2 * Abs(a) <= Pow2[Precision]
    BY <1>n, <1>a DEF Abs
  <2> QED
    BY <2>1, Bounds
<1>3. Float64[a] = a /\ RoundQuotient[a][c] = Round(a, c)
  BY <1>2, FloatExact, QuotientExact
<1>4. Truncate(r) = r
  BY TruncateExact
<1> QED
  BY <1>n, <1>a, <1>1, <1>3, <1>4 DEF encodeRaw

(* A value that a signal can represent is encoded as the pattern of it.    *)
LEMMA EncodeExact ==
  ASSUME NEW s, Signal(s), NEW v, Representable(s, v)
  PROVE  /\ v \in Int
         /\ Physical(s, encodeRaw(s, v)) = v
         /\ ReadsExactly(s, Value(s, encodeRaw(s, v)))
<1>n. PICK c \in Int \ {0}, o \in Int : c = s.Factor /\ o = s.Offset
  BY DEF Signal
<1>1. PICK r \in RawRange(s) : /\ r = Round(v - s.Offset, s.Factor)
                               /\ v = r * s.Factor + s.Offset
                               /\ ReadsExactly(s, r) /\ WritesExactly(s, r)
  BY DEF Representable
<1>2. r \in Int /\ Value(s, r % Pow2[s.Length]) = r
  BY PatternExact
<1>3. v \in Int /\ v - s.Offset = r * s.Factor
  BY <1>n, <1>1, <1>2
<1>4. encodeRaw(s, v) = r % Pow2[s.Length]
  BY <1>1, <1>3, EncodeRounds DEF WritesExactly
<1> QED
  BY <1>1, <1>2, <1>3, <1>4 DEF Physical

(* decode scales the number that the field stands for.                     *)
LEMMA DecodeIsScaled ==
  ASSUME NEW s, Signal(s), NEW d \in Payloads
  PROVE  decode(s, d) = Scaled(s, Value(s, Field(s, d))) /\ Value(s, Field(s, d)) \in Int
<1>n. PICK n \in Nat \ {0} : n = s.Length
  BY DEF Signal
<1>h. PICK h \in Nat \ {0}, p \in Nat \ {0} : h = Pow2[n - 1] /\ p = Pow2[n] /\ p = 2 * h
  <2>1. n - 1 \in 0 .. W - 1 /\ (n - 1) + 1 = n /\ n - 1 \in 0 .. W /\ n \in 0 .. W
    BY <1>n, SignalType, WType
  <2>2. Pow2[n] = 2 * Pow2[n - 1]
    BY <2>1, Pow2Def
  <2> QED
    BY <2>1, <2>2, Pow2Type
<1>1. PICK raw \in Nat : raw = extractRaw(d, positions(s)) /\ raw = Field(s, d)
  BY <1>n, <1>h, ExtractIsField
<1>2. raw >= h <=> 2 * raw >= p
  BY <1>h
<1>3. Value(s, raw) = IF s.Signed /\ 2 * raw >= p THEN raw - p ELSE raw
  BY <1>n, <1>h DEF Value
<1>4. (IF s.Signed THEN rawToSigned(raw, n) ELSE raw) = Value(s, raw)
  BY <1>h, <1>2, <1>3 DEF rawToSigned
<1>5. Value(s, raw) \in Int
  BY <1>3
<1> QED
  BY <1>n, <1>1, <1>4, <1>5 DEF decode

(* Scaling is exact where nothing rounds or overflows.                     *)
LEMMA ScaledExact ==
  ASSUME NEW s, Signal(s), NEW n \in Int, ReadsExactly(s, n)
  PROVE  Scaled(s, n) = n * s.Factor + s.Offset
<1>n. PICK c \in Int \ {0}, o \in Int : c = s.Factor /\ o = s.Offset
  BY DEF Signal
<1>1. CASE c = 1 /\ o = 0
  <2>1. n < Pow2[8 * NBytes - 1]
    BY <1>n, <1>1 DEF ReadsExactly
  <2>2. Int64(n) = n
    BY <2>1, Bounds DEF Int64
  <2> QED
    BY <1>n, <1>1, <2>2 DEF Scaled
<1>2. CASE ~(c = 1 /\ o = 0)
  <2>1. PICK x \in Int, y \in Int : x = n * c /\ y = x + o
    OBVIOUS
  <2>2. Abs(n) <= Pow2[Precision] /\ Abs(x) <= Pow2[Precision] /\ Abs(y) <= Pow2[Precision]
    BY <1>n, <1>2, <2>1 DEF ReadsExactly
  <2>3. Float64[n] = n /\ Float64[x] = x /\ Float64[y] = y
    BY <2>2, FloatExact
  <2> QED
    BY <1>n, <1>2, <2>1, <2>3 DEF Scaled
<1> QED
  BY <1>1, <1>2
-----------------------------------------------------------------------------
(* Writing.  A multiplexed signal needs a multiplexor beside it that can   *)
(* hold its number; ParseDBC does not see to that.                         *)
Selectable(msg, s) ==
    s.MuxValue # NoMux =>
        \E x \in Multiplexors(msg) : s.MuxValue < Pow2[x.Length] /\ Occupied(s) \cap Occupied(x) = {}

WellMultiplexed == \A d \in Databases, m \in Messages : \A s \in d[m] : Selectable(d[m], s)

(* What encode packs fits the signal's length.                             *)
LEMMA RawType ==
  ASSUME NEW s, Signal(s), NEW v \in Int
  PROVE  encodeRaw(s, v) \in 0 .. Pow2[s.Length] - 1
<1>n. PICK c \in Int \ {0}, o \in Int : c = s.Factor /\ o = s.Offset
  BY DEF Signal
<1>p. PICK p \in Nat \ {0} : p = Pow2[s.Length]
  BY SignalType, Pow2Type
<1>2. PICK r \in Int : r = Truncate(RoundQuotient[Float64[Float64[v] - o]][c])
  BY TruncateType
<1>3. r % p \in 0 .. p - 1
  OBVIOUS
<1> QED
  BY <1>n, <1>p, <1>2, <1>3 DEF encodeRaw

(* The multiplexor that Encode finds.                                      *)
LEMMA TheMultiplexor ==
  ASSUME NEW msg, Message(msg), NEW x \in Multiplexors(msg)
  PROVE  /\ (CHOOSE y \in Multiplexors(msg) : TRUE) = x
         /\ Multiplexors(msg) = {x}
         /\ Signal(x)
BY DEF Message, Multiplexors

(* Message.Encode makes a payload of a payload.                            *)
LEMMA EncodeType ==
  ASSUME NEW msg, Message(msg), NEW s \in msg, NEW base \in Payloads, NEW v \in Int
  PROVE  Encode(msg, base, s, v) \in Payloads
<1>1. Signal(s)
  BY DEF Message
<1>2. encode(s, base, v) \in Payloads
  <2>1. encodeRaw(s, v) \in Int
    BY <1>1, RawType, SignalType, Pow2Type
  <2> QED
    BY <1>1, <2>1, PackedBits DEF encode
<1>3. CASE s.MuxValue # NoMux /\ Multiplexors(msg) # {}
  <2>1. PICK x : x \in Multiplexors(msg)
    BY <1>3
  <2>2. Signal(x) /\ (CHOOSE y \in Multiplexors(msg) : TRUE) = x
    BY <2>1, TheMultiplexor
  <2>3. s.MuxValue \in Int
    BY <1>1 DEF Signal, NoMux
  <2>4. packRaw(encode(s, base, v), positions(x), s.MuxValue) \in Payloads
    BY <1>2, <2>2, <2>3, PackedBits
  <2> QED
    BY <1>3, <2>2, <2>4, Zenon DEF Encode
<1>4. CASE ~(s.MuxValue # NoMux /\ Multiplexors(msg) # {})
  BY <1>2, <1>4 DEF Encode
<1> QED
  BY <1>3, <1>4

(* The frame d has v in signal s, selects s, and is else like base.        *)
Wrote(msg, base, s, v, d) ==
    /\ \A b \in Bits \ Footprint(msg, s) : d[b] = base[b]
    /\ s \in Active(msg, d)
    /\ Field(s, d) = encodeRaw(s, v)
    /\ Representable(s, v) => Physical(s, Field(s, d)) = v

(* What Encode writes: the signal, and the multiplexor that selects it.    *)
LEMMA EncodeWrites ==
  \A msg : \A s \in msg : \A base \in Payloads : \A v \in Int :
      Message(msg) /\ Selectable(msg, s) => Wrote(msg, base, s, v, Encode(msg, base, s, v))
<1> SUFFICES ASSUME NEW msg, Message(msg), NEW s \in msg, NEW base \in Payloads, NEW v \in Int,
                    Selectable(msg, s), NEW d, d = Encode(msg, base, s, v)
             PROVE  Wrote(msg, base, s, v, d)
  BY Zenon
<1>s. Signal(s)
  BY DEF Message
<1>r. PICK raw \in Int : raw = encodeRaw(s, v) /\ raw \in 0 .. Pow2[s.Length] - 1
  <2>1. Pow2[s.Length] \in Nat
    BY <1>s, SignalType, Pow2Type
  <2>2. encodeRaw(s, v) \in Int
    BY <1>s, <2>1, RawType
  <2> QED
    BY <1>s, <2>2, RawType
<1>c. PICK c : c = packRaw(base, positions(s), raw)
  OBVIOUS
<1>1. d \in Payloads
  BY EncodeType
<1>2. c \in Payloads /\ c = encode(s, base, v) /\ \A b \in Bits \ Occupied(s) : c[b] = base[b]
  <2>1. c = encode(s, base, v)
    BY <1>r, <1>c DEF encode
  <2>2. c \in Payloads /\ \A b \in Bits \ Occupied(s) : c[b] = base[b]
    BY <1>s, <1>c, PackedBits
  <2> QED
    BY <2>1, <2>2
<1>3. ASSUME \A b \in Occupied(s) : d[b] = c[b]
      PROVE  /\ Field(s, d) = encodeRaw(s, v)
             /\ Representable(s, v) => Physical(s, Field(s, d)) = v
  <2>1. extractRaw(d, positions(s)) = raw % Pow2[s.Length]
    BY <1>1, <1>3, <1>s, <1>c, ExtractPacked
  <2>2. PICK p \in Nat \ {0} : p = Pow2[s.Length] /\ raw \in 0 .. p - 1
    BY <1>s, <1>r, SignalType, Pow2Type
  <2>3. raw % p = raw
    BY <2>2
  <2>4. Field(s, d) = raw
    BY <1>1, <1>s, <2>1, <2>2, <2>3, ExtractIsField
  <2> QED
    BY <1>s, <1>r, <2>4, EncodeExact
<1>4. CASE s.MuxValue = NoMux
  <2>1. d = c
    BY <1>4, <1>2 DEF Encode
  <2>2. Occupied(s) = Footprint(msg, s)
    BY <1>4 DEF Footprint
  <2>3. s \in Active(msg, d)
    BY <1>4 DEF Active
  <2> QED
    BY <1>2, <1>3, <2>1, <2>2, <2>3 DEF Wrote
<1>5. CASE s.MuxValue # NoMux
  <2>x. PICK x \in Multiplexors(msg) : s.MuxValue < Pow2[x.Length] /\ Occupied(s) \cap Occupied(x) = {}
    BY <1>5 DEF Selectable
  <2>1. Signal(x) /\ (CHOOSE y \in Multiplexors(msg) : TRUE) = x /\ Multiplexors(msg) = {x}
    BY TheMultiplexor
  <2>m. PICK k \in Nat : k = s.MuxValue
    BY <1>5, <1>s DEF Signal
  <2>2. d = packRaw(c, positions(x), k)
    BY <1>5, <1>2, <2>1, <2>m DEF Encode
  <2>3. \A b \in Bits \ Occupied(x) : d[b] = c[b]
    BY <1>2, <2>1, <2>2, PackedBits
  <2>4. Occupied(s) \subseteq Bits
    BY <1>s, PositionsFit DEF Occupied
  <2>5. \A b \in Occupied(s) : d[b] = c[b]
    BY <2>x, <2>3, <2>4
  <2>6. Footprint(msg, s) = Occupied(s) \cup Occupied(x)
    BY <1>5, <2>1 DEF Footprint
  <2>7. extractRaw(d, positions(x)) = k
    <3>1. extractRaw(d, positions(x)) = k % Pow2[x.Length]
      BY <1>1, <1>2, <2>1, <2>2, ExtractPacked
    <3>2. PICK p \in Nat \ {0} : p = Pow2[x.Length]
      BY <2>1, SignalType, Pow2Type
    <3>3. k < p
      BY <2>x, <2>m, <3>2
    <3>4. k % p = k
      BY <3>3
    <3> QED
      BY <3>1, <3>2, <3>4
  <2>8. s \in Active(msg, d)
    BY <2>1, <2>7, <2>m DEF Active
  <2> QED
    BY <1>2, <1>3, <2>3, <2>5, <2>6, <2>8 DEF Wrote
<1> QED
  BY <1>4, <1>5

(* The frame that Message.Encode makes for a value carries the signal, for *)
(* any layout of either byte order, signed or not, with integer factor and *)
(* offset; every other signal beside it reads as before.  It decodes to    *)
(* the value, where the signal can represent it and neither int64 nor      *)
(* float64 has to cut or round it on the way.                              *)
THEOREM EncodedFramesReadBack ==
  ASSUME NEW msg, Message(msg), NEW s \in msg, Selectable(msg, s),
         NEW base \in Payloads, NEW v \in Int
  PROVE  LET d == Encode(msg, base, s, v)
         IN  /\ s \in Active(msg, d)
             /\ Representable(s, v) => decode(s, d) = v
             /\ \A t \in msg : Occupied(t) \cap Footprint(msg, s) = {} => decode(t, d) = decode(t, base)
<1>d. PICK d : d = Encode(msg, base, s, v)
  OBVIOUS
<1>1. Signal(s)
  BY DEF Message
<1>2. d \in Payloads /\ Wrote(msg, base, s, v, d)
  BY <1>d, EncodeType, EncodeWrites
<1>3. s \in Active(msg, d) /\ (Representable(s, v) => decode(s, d) = v)
  <2>1. s \in Active(msg, d) /\ Field(s, d) = encodeRaw(s, v)
    BY <1>2 DEF Wrote
  <2>2. decode(s, d) = Scaled(s, Value(s, Field(s, d))) /\ Value(s, Field(s, d)) \in Int
    BY <1>1, <1>2, DecodeIsScaled
  <2>3. ASSUME Representable(s, v) PROVE decode(s, d) = v
    <3>1. Physical(s, encodeRaw(s, v)) = v /\ ReadsExactly(s, Value(s, encodeRaw(s, v)))
      BY <1>1, <2>3, EncodeExact
    <3> QED
      BY <1>1, <2>1, <2>2, <3>1, ScaledExact DEF Physical
  <2> QED
    BY <2>1, <2>3
<1>4. ASSUME NEW t \in msg, Occupied(t) \cap Footprint(msg, s) = {} PROVE decode(t, d) = decode(t, base)
  <2>1. Signal(t)
    BY DEF Message
  <2>2. \A b \in Occupied(t) : d[b] = base[b]
    BY <1>2, <1>4, <2>1, PositionsFit DEF Wrote, Occupied
  <2>3. extractRaw(d, positions(t)) = extractRaw(base, positions(t))
    BY <1>2, <2>1, <2>2, ExtractLocal
  <2> QED
    BY <2>3 DEF decode
<1> QED
  BY <1>d, <1>3, <1>4

(* A value between two that a signal can represent is written as one of    *)
(* the nearest: what the frame decodes to is off by half a step at most,   *)
(* provided the rounded number fits the signal and the values on the way   *)
(* fit int64 and the range where float64 is exact (SignalDef.encode).      *)
THEOREM EncodedValuesAreNearest ==
  ASSUME NEW msg, Message(msg), NEW s \in msg, Selectable(msg, s), NEW base \in Payloads,
         NEW v \in Int, NEW r \in RawRange(s), r = Round(v - s.Offset, s.Factor),
         Abs(v) <= Pow2[Precision], 2 * Abs(v - s.Offset) <= Pow2[Precision],
         r < Pow2[8 * NBytes - 1], ReadsExactly(s, r)
  PROVE  2 * Abs(decode(s, Encode(msg, base, s, v)) - v) <= Abs(s.Factor)
<1>d. PICK d : d = Encode(msg, base, s, v)
  OBVIOUS
<1>1. Signal(s)
  BY DEF Message
<1>2. d \in Payloads /\ Wrote(msg, base, s, v, d)
  BY <1>d, EncodeType, EncodeWrites
<1>n. PICK c \in Int \ {0}, o \in Int : c = s.Factor /\ o = s.Offset
  BY <1>1 DEF Signal
<1>3. r \in Int /\ 2 * Abs(r * c - (v - o)) <= Abs(c)
  <2>1. PICK a \in Int : a = v - o
    OBVIOUS
  <2>2. Round(a, c) \in Int /\ 2 * Abs(Round(a, c) * c - a) <= Abs(c)
    BY RoundNearest, Zenon
  <2> QED
    BY <1>n, <2>1, <2>2
<1>4. decode(s, d) = r * c + o
  <2>1. decode(s, d) = Scaled(s, Value(s, encodeRaw(s, v)))
    BY <1>1, <1>2, DecodeIsScaled DEF Wrote
  <2>2. encodeRaw(s, v) = r % Pow2[s.Length]
    BY <1>1, EncodeRounds
  <2>3. Value(s, r % Pow2[s.Length]) = r
    BY <1>1, PatternExact
  <2>4. Scaled(s, r) = r * s.Factor + s.Offset
    BY <1>1, <1>3, ScaledExact
  <2> QED
    BY <1>n, <2>1, <2>2, <2>3, <2>4
<1>5. decode(s, d) - v = r * c - (v - o)
  <2>1. r * c \in Int
    BY <1>3
  <2> QED
    BY <1>4, <2>1
<1> QED
  BY <1>d, <1>n, <1>3, <1>5
-----------------------------------------------------------------------------
(* The adapter.  A call and its locals.                                    *)
AllSignals == UNION {d[m] : d \in Databases, m \in Messages}

Calls == [pc : {"idle", "lock", "base", "write", "handle", "returned"},
          msg : Messages \cup {None}, sig : AllSignals \cup {None}, val : Int \cup {NotNumeric, None},
          base : Payloads \cup {None}, data : Payloads \cup {None}]

Types ==
    /\ db \in Databases
    /\ frames \in [Messages -> Payloads \cup {None}]
    /\ DOMAIN values = Messages /\ \A m \in Messages : DOMAIN values[m] = Names(db, m)
    /\ DOMAIN written = Messages /\ \A m \in Messages : DOMAIN written[m] = Names(db, m)
    /\ writeLocks \in [Messages -> Writers \cup {None}]
    /\ writer \in [Writers -> Calls]
    /\ reader.pc = "handle" => reader.msg \in Messages /\ reader.data \in Payloads

(* The socket, a.done and the read loop: the socket is closed only after   *)
(* a.done, so a read that fails while a.done is open met a failed          *)
(* interface.                                                              *)
SocketInv ==
    /\ sock \in BOOLEAN /\ failed \in BOOLEAN /\ done \in BOOLEAN /\ lastReadErr \in BOOLEAN
    /\ fd \in {"none", "open", "closed"}
    /\ closer \in {"none", "detached", "announced", "closed"}
    /\ reader.pc \in {"none", "top", "read", "error", "handle", "stopped"}
    /\ fd = "closed" \/ closer = "announced" => done
    /\ reader.pc # "none" => fd # "none"
    /\ reader.pc = "error" => failed \/ done
    /\ lastReadErr => failed
    /\ reader.pc = "stopped" => lastReadErr \/ done

WatchInv ==
    /\ watched \in [Devices -> Messages \cup {None}]
    /\ watchedByMessage \in [Messages -> SUBSET Devices]

CacheInv ==
    \A m \in Messages : frames[m] # None =>
        \A s \in Active(db[m], frames[m]) : values[m][s.Name] = decode(s, frames[m])

(* What a call holds at each point of WriteProperty.                       *)
CallInv(c) ==
    /\ c.pc \in {"lock", "base", "write", "handle"} =>
           c.msg \in Messages /\ c.sig \in db[c.msg] /\ c.val \in Int \cup {NotNumeric}
    /\ c.pc \in {"write", "handle"} =>
           /\ c.val \in Int /\ c.base \in Payloads
           /\ c.data = Encode(db[c.msg], c.base, c.sig, c.val)

HoldsLock(w) == writer[w].pc \in {"base", "write", "handle"} => writeLocks[writer[w].msg] = w

IInv ==
    /\ Types /\ SocketInv /\ WatchInv /\ CacheInv
    /\ \A w \in Writers : CallInv(writer[w]) /\ HoldsLock(w)

(* New has no frames, no writers and no socket.                            *)
LEMMA InitIInv == Init => IInv
<1> SUFFICES ASSUME Init PROVE IInv
  OBVIOUS
<1>1. IdleWriter \in Calls /\ IdleWriter.pc = "idle"
  BY DEF IdleWriter, Calls
<1>2. Types
  BY <1>1 DEF Init, Types, Reader
<1>3. SocketInv
  BY Zenon DEF Init, SocketInv, Reader
<1>4. WatchInv /\ CacheInv
  BY DEF Init, WatchInv, CacheInv
<1>5. \A w \in Writers : CallInv(writer[w]) /\ HoldsLock(w)
  BY <1>1, Zenon DEF Init, CallInv, HoldsLock
<1> QED
  BY <1>2, <1>3, <1>4, <1>5 DEF IInv

(* processFrame finds each signal by its name.                             *)
LEMMA TheMessage ==
  ASSUME Types, NEW m \in Messages
  PROVE  /\ Message(db[m])
         /\ \A s \in db[m] : /\ Signal(s) /\ s \in AllSignals /\ s.Name \in Names(db, m)
                             /\ (CHOOSE x \in db[m] : x.Name = s.Name) = s
<1>1. Message(db[m])
  BY CanAssumption DEF Types
<1>2. ASSUME NEW s \in db[m]
      PROVE  /\ Signal(s) /\ s \in AllSignals /\ s.Name \in Names(db, m)
             /\ (CHOOSE x \in db[m] : x.Name = s.Name) = s
  <2>1. Signal(s) /\ \A x \in db[m] : x.Name = s.Name => x = s
    BY <1>1 DEF Message
  <2>2. s \in AllSignals /\ s.Name \in Names(db, m)
    BY DEF AllSignals, Names, Types
  <2> QED
    BY <2>1, <2>2
<1> QED
  BY <1>1, <1>2

(* processFrame keeps both caches in step.                                 *)
LEMMA ProcessFrameKeeps ==
  ASSUME Types, CacheInv, NEW m \in Messages, NEW d \in Payloads, processFrame(m, d), UNCHANGED db
  PROVE  /\ frames' \in [Messages -> Payloads \cup {None}]
         /\ DOMAIN values' = Messages /\ \A x \in Messages : DOMAIN values'[x] = Names(db', x)
         /\ CacheInv'
<1>1. /\ frames' \in [Messages -> Payloads \cup {None}] /\ frames'[m] = d
      /\ \A x \in Messages \ {m} : frames'[x] = frames[x] /\ values'[x] = values[x]
      /\ DOMAIN values' = Messages
  BY DEF processFrame, Types
<1>2. values'[m] = [n \in Names(db, m) |->
                        LET sig == CHOOSE s \in db[m] : s.Name = n
                        IN  IF sig \in Active(db[m], d) THEN decode(sig, d) ELSE values[m][n]]
  BY DEF processFrame, Types
<1>3. \A x \in Messages : DOMAIN values'[x] = Names(db', x)
  BY <1>1, <1>2 DEF Types
<1>4. ASSUME NEW s \in Active(db[m], d) PROVE values'[m][s.Name] = decode(s, d)
  <2>1. s \in db[m]
    BY DEF Active
  <2>2. s.Name \in Names(db, m) /\ (CHOOSE x \in db[m] : x.Name = s.Name) = s
    BY <2>1, TheMessage
  <2> QED
    BY <1>2, <2>2, Zenon
<1>5. CacheInv'
  BY <1>1, <1>4 DEF CacheInv
<1> QED
  BY <1>1, <1>3, <1>5

(* Every step keeps what is known of the socket, the read loop and Close.  *)
LEMMA NextSocket == IInv /\ [Next]_vars => SocketInv'
<1> SUFFICES ASSUME IInv, [Next]_vars PROVE SocketInv'
  OBVIOUS
<1> USE DEF SocketInv
<1>0. SocketInv
  BY DEF IInv
<1>1. CASE Open
  BY <1>0, <1>1 DEF Open, Reader
<1>3. CASE ReadTop
  BY <1>0, <1>3 DEF ReadTop, Reader, socketVars
<1>4. CASE ReadFrame
  BY <1>0, <1>4 DEF ReadFrame, socketVars
<1>5. CASE ReadTimeout
  BY <1>0, <1>5 DEF ReadTimeout, Reader, socketVars
<1>6. CASE ReadError
  BY <1>0, <1>6, Zenon DEF ReadError, Reader
<1>7. CASE ReadErrorSeen
  BY <1>0, <1>7 DEF ReadErrorSeen, Reader
<1>8. CASE ReaderHandles
  BY <1>0, <1>8 DEF ReaderHandles, Reader, socketVars
<1>9. ASSUME UNCHANGED <<socketVars, reader>> PROVE SocketInv'
  BY <1>0, <1>9 DEF socketVars
<1>10. ASSUME NEW w \in Writers, StartWrite(w) \/ Lock(w) \/ WriteStep(w) PROVE UNCHANGED <<socketVars, reader>>
  BY <1>10, Zenon DEF StartWrite, Lock, WriteStep, EncodeFrame, EncodeFails, WriteFrame, WriteFails, WriterHandles
<1>11. ASSUME NEW d \in Devices, WatchDevice(d) PROVE UNCHANGED <<socketVars, reader>>
  BY <1>11 DEF WatchDevice
<1>12. CASE CloseStart
  BY <1>0, <1>12, Zenon DEF CloseStart
<1>13. CASE CloseDone
  BY <1>0, <1>13 DEF CloseDone
<1>14. CASE CloseSocket
  BY <1>0, <1>14 DEF CloseSocket
<1>15. CASE UNCHANGED vars
  BY <1>9, <1>15 DEF vars
<1> QED
  BY <1>1, <1>3, <1>4, <1>5, <1>6, <1>7, <1>8, <1>9, <1>10, <1>11, <1>12, <1>13, <1>14, <1>15, Zenon
     DEF Next, ReadStep, CloseStep

(* Every step keeps the types of watched and watchedByMessage.             *)
LEMMA NextWatch == IInv /\ [Next]_vars => WatchInv'
<1> SUFFICES ASSUME IInv, [Next]_vars PROVE WatchInv'
  OBVIOUS
<1>1. ASSUME UNCHANGED watchVars PROVE WatchInv'
  BY <1>1 DEF IInv, WatchInv, watchVars
<1>2. ASSUME NEW d \in Devices, WatchDevice(d) PROVE WatchInv'
  BY <1>2 DEF IInv, WatchInv, WatchDevice
<1>3. ASSUME NEW w \in Writers, StartWrite(w) \/ Lock(w) \/ WriteStep(w) PROVE UNCHANGED watchVars
  BY <1>3, Zenon DEF StartWrite, Lock, WriteStep, EncodeFrame, EncodeFails, WriteFrame, WriteFails, WriterHandles
<1>4. ASSUME ReadStep PROVE UNCHANGED watchVars
  BY <1>4 DEF ReadStep, ReadTop, ReadFrame, ReadTimeout, ReadError, ReadErrorSeen, ReaderHandles
<1>5. ASSUME Open \/ CloseStart \/ CloseStep PROVE UNCHANGED watchVars
  BY <1>5 DEF Open, CloseStart, CloseStep, CloseDone, CloseSocket
<1>6. ASSUME UNCHANGED vars PROVE UNCHANGED watchVars
  BY <1>6 DEF vars
<1> QED
  BY <1>1, <1>2, <1>3, <1>4, <1>5, <1>6 DEF Next

(* The part of the invariant that frames, values and the calls make up.    *)
FramesInv == Types /\ CacheInv /\ \A w \in Writers : CallInv(writer[w]) /\ HoldsLock(w)

(* A step of one call, after which that call is in order.                  *)
LEMMA OneCall ==
  ASSUME FramesInv, NEW w \in Writers, NEW c \in Calls, writer' = [writer EXCEPT ![w] = c],
         UNCHANGED <<db, reader>>, CallInv(c),
         frames' \in [Messages -> Payloads \cup {None}],
         DOMAIN values' = Messages /\ \A x \in Messages : DOMAIN values'[x] = Names(db', x),
         DOMAIN written' = Messages /\ \A x \in Messages : DOMAIN written'[x] = Names(db', x),
         CacheInv',
         writeLocks' \in [Messages -> Writers \cup {None}],
         \A m \in Messages : writeLocks[m] \in Writers \ {w} => writeLocks'[m] = writeLocks[m],
         c.pc \in {"base", "write", "handle"} => writeLocks'[c.msg] = w
  PROVE  FramesInv'
<1>1. writer' \in [Writers -> Calls] /\ writer'[w] = c /\ \A x \in Writers \ {w} : writer'[x] = writer[x]
  BY DEF FramesInv, Types
<1>2. Types'
  BY <1>1, Zenon DEF FramesInv, Types
<1>3. \A x \in Writers : CallInv(writer[x])'
  <2>1. \A x \in Writers : CallInv(writer'[x])
    BY <1>1, Zenon DEF FramesInv
  <2> QED
    BY <2>1, Zenon DEF CallInv
<1>4. ASSUME NEW x \in Writers PROVE HoldsLock(x)'
  <2>1. CASE x = w
    BY <1>1, <2>1 DEF HoldsLock
  <2>2. CASE x # w
    <3>1. CASE writer[x].pc \in {"base", "write", "handle"}
      <4>1. writer[x].msg \in Messages /\ writeLocks[writer[x].msg] = x
        BY <3>1, Zenon DEF FramesInv, CallInv, HoldsLock
      <4> QED
        BY <1>1, <2>2, <4>1, Zenon DEF HoldsLock
    <3>2. CASE writer[x].pc \notin {"base", "write", "handle"}
      BY <1>1, <2>2, <3>2 DEF HoldsLock
    <3> QED
      BY <3>1, <3>2, Zenon
  <2> QED
    BY <2>1, <2>2
<1> QED
  BY <1>2, <1>3, <1>4, Zenon DEF FramesInv

(* The call returns and gives its lock back.                               *)
LEMMA ReturnKeeps ==
  ASSUME FramesInv, NEW w \in Writers, Return(w), UNCHANGED <<db, reader>>,
         frames' \in [Messages -> Payloads \cup {None}],
         DOMAIN values' = Messages /\ \A x \in Messages : DOMAIN values'[x] = Names(db', x),
         DOMAIN written' = Messages /\ \A x \in Messages : DOMAIN written'[x] = Names(db', x),
         CacheInv'
  PROVE  FramesInv'
<1>c. PICK c : c = [IdleWriter EXCEPT !.pc = "returned"]
  BY Zenon
<1>1. c \in Calls /\ c.pc = "returned"
  BY <1>c DEF IdleWriter, Calls
<1>2. CallInv(c)
  BY <1>1 DEF CallInv
<1>3. writeLocks' \in [Messages -> Writers \cup {None}]
  BY DEF Return, FramesInv, Types
<1>4. \A m \in Messages : writeLocks[m] \in Writers \ {w} => writeLocks'[m] = writeLocks[m]
  BY DEF Return
<1>5. writer' = [writer EXCEPT ![w] = c]
  BY <1>c DEF Return
<1> QED
  BY <1>1, <1>2, <1>3, <1>4, <1>5, OneCall, Zenon

(* A step that changes neither caches nor calls.                           *)
LEMMA NothingWritten ==
  ASSUME FramesInv, UNCHANGED <<db, cacheVars, writeLocks, writer>>,
         reader'.pc = "handle" => reader'.msg \in Messages /\ reader'.data \in Payloads
  PROVE  FramesInv'
<1>1. Types' /\ CacheInv'
  BY Zenon DEF FramesInv, Types, CacheInv, cacheVars
<1>2. \A w \in Writers : CallInv(writer[w])' /\ HoldsLock(w)'
  BY DEF FramesInv, CallInv, HoldsLock
<1> QED
  BY <1>1, <1>2 DEF FramesInv

(* WriteProperty resolves a signal of the message it locks next.           *)
LEMMA StartWriteKeeps == ASSUME FramesInv, NEW w \in Writers, StartWrite(w) PROVE FramesInv'
<1>1. PICK m \in Messages, x \in Writes : \E s \in db[m] :
          writer' = [writer EXCEPT ![w] = [IdleWriter EXCEPT !.pc = "lock", !.msg = m, !.sig = s, !.val = x[2]]]
  BY Zenon DEF StartWrite
<1>2. PICK s \in db[m] :
          writer' = [writer EXCEPT ![w] = [IdleWriter EXCEPT !.pc = "lock", !.msg = m, !.sig = s, !.val = x[2]]]
  BY <1>1, Zenon
<1>c. PICK c : c = [IdleWriter EXCEPT !.pc = "lock", !.msg = m, !.sig = s, !.val = x[2]]
  OBVIOUS
<1>3. s \in AllSignals /\ x[2] \in Int \cup {NotNumeric}
  BY TheMessage, CanAssumption DEF FramesInv
<1>4. c \in Calls /\ c.pc = "lock" /\ c.msg = m /\ c.sig = s /\ c.val = x[2]
  BY <1>c, <1>3, Zenon DEF IdleWriter, Calls
<1>5. CallInv(c)
  BY <1>3, <1>4 DEF CallInv
<1>6. UNCHANGED <<db, reader, frames, values, written, writeLocks>>
  BY DEF StartWrite, cacheVars
<1>7. /\ frames' \in [Messages -> Payloads \cup {None}]
      /\ DOMAIN values' = Messages /\ \A y \in Messages : DOMAIN values'[y] = Names(db', y)
      /\ DOMAIN written' = Messages /\ \A y \in Messages : DOMAIN written'[y] = Names(db', y)
      /\ CacheInv'
      /\ writeLocks' \in [Messages -> Writers \cup {None}]
  BY <1>6, Zenon DEF FramesInv, Types, CacheInv
<1> QED
  BY <1>2, <1>c, <1>4, <1>5, <1>6, <1>7, OneCall, Zenon

(* WriteProperty gets the lock of its message from nobody.                 *)
LEMMA LockKeeps == ASSUME FramesInv, NEW w \in Writers, Lock(w) PROVE FramesInv'
<1>c. PICK c : c = [writer[w] EXCEPT !.pc = "base"]
  BY Zenon
<1>0. writer[w] \in Calls /\ CallInv(writer[w]) /\ writer[w].pc = "lock"
  BY DEF Lock, FramesInv, Types
<1>1. c \in Calls /\ c.pc = "base" /\ c.msg = writer[w].msg /\ c.sig = writer[w].sig /\ c.val = writer[w].val
  BY <1>c, <1>0 DEF Calls
<1>2. CallInv(c) /\ c.msg \in Messages
  BY <1>0, <1>1 DEF CallInv
<1>3. UNCHANGED <<db, reader, frames, values, written>>
  BY DEF Lock, cacheVars
<1>4. writer' = [writer EXCEPT ![w] = c] /\ writeLocks[c.msg] = None /\ writeLocks' = [writeLocks EXCEPT ![c.msg] = w]
  BY <1>c, <1>1 DEF Lock
<1>5. /\ frames' \in [Messages -> Payloads \cup {None}]
      /\ DOMAIN values' = Messages /\ \A y \in Messages : DOMAIN values'[y] = Names(db', y)
      /\ DOMAIN written' = Messages /\ \A y \in Messages : DOMAIN written'[y] = Names(db', y)
      /\ CacheInv'
  BY <1>3, Zenon DEF FramesInv, Types, CacheInv
<1>6. /\ writeLocks' \in [Messages -> Writers \cup {None}] /\ writeLocks'[c.msg] = w
      /\ \A m \in Messages : writeLocks[m] \in Writers \ {w} => writeLocks'[m] = writeLocks[m]
  BY <1>2, <1>4, CanAssumption, Zenon DEF FramesInv, Types
<1> QED
  BY <1>1, <1>2, <1>3, <1>4, <1>5, <1>6, OneCall, Zenon

(* WriteProperty encodes into the last frame while it holds the lock.      *)
LEMMA EncodeFrameKeeps == ASSUME FramesInv, NEW w \in Writers, EncodeFrame(w) PROVE FramesInv'
<1>m. PICK m \in Messages : m = writer[w].msg
  BY DEF EncodeFrame, FramesInv, CallInv
<1>b. PICK base : base = IF frames[m] = None THEN ZeroPayload ELSE frames[m]
  OBVIOUS
<1>s. PICK s \in db[m], v \in Int : s = writer[w].sig /\ v = writer[w].val
  BY <1>m, Zenon DEF EncodeFrame, FramesInv, CallInv
<1>1. base \in Payloads
  BY <1>b, Zenon DEF FramesInv, Types, ZeroPayload, Payloads
<1>2. Encode(db[m], base, s, v) \in Payloads
  BY <1>1, TheMessage, EncodeType DEF FramesInv
<1>c. PICK c : c = [writer[w] EXCEPT !.pc = "write", !.base = base, !.data = Encode(db[m], base, s, v)]
  OBVIOUS
<1>3. writer[w] \in Calls /\ writer[w].pc = "base" /\ writeLocks[m] = w
  BY <1>m DEF EncodeFrame, FramesInv, Types, HoldsLock
<1>4. /\ c \in Calls /\ c.pc = "write" /\ c.msg = m /\ c.sig = s /\ c.val = v
      /\ c.base = base /\ c.data = Encode(db[m], base, s, v)
  BY <1>c, <1>m, <1>s, <1>1, <1>2, <1>3, Zenon DEF Calls
<1>5. CallInv(c)
  BY <1>1, <1>4 DEF CallInv
<1>6. UNCHANGED <<db, reader, frames, values, written, writeLocks>>
  BY DEF EncodeFrame, cacheVars
<1>7. writer' = [writer EXCEPT ![w] = c]
  BY <1>c, <1>m, <1>b, <1>s, Zenon DEF EncodeFrame
<1>8. /\ frames' \in [Messages -> Payloads \cup {None}]
      /\ DOMAIN values' = Messages /\ \A y \in Messages : DOMAIN values'[y] = Names(db', y)
      /\ DOMAIN written' = Messages /\ \A y \in Messages : DOMAIN written'[y] = Names(db', y)
      /\ CacheInv'
      /\ writeLocks' \in [Messages -> Writers \cup {None}]
  BY <1>6, Zenon DEF FramesInv, Types, CacheInv
<1> QED
  BY <1>3, <1>4, <1>5, <1>6, <1>7, <1>8, OneCall, Zenon

(* WriteProperty sends what it encoded.                                    *)
LEMMA WriteFrameKeeps == ASSUME FramesInv, NEW w \in Writers, WriteFrame(w) PROVE FramesInv'
<1>c. PICK c : c = [writer[w] EXCEPT !.pc = "handle"]
  BY Zenon
<1>0. writer[w] \in Calls /\ CallInv(writer[w]) /\ writer[w].pc = "write" /\ writeLocks[writer[w].msg] = w
  BY DEF WriteFrame, FramesInv, Types, HoldsLock
<1>1. /\ c \in Calls /\ c.pc = "handle" /\ c.msg = writer[w].msg /\ c.sig = writer[w].sig
      /\ c.val = writer[w].val /\ c.base = writer[w].base /\ c.data = writer[w].data
  BY <1>c, <1>0, Zenon DEF Calls
<1>2. CallInv(c)
  BY <1>0, <1>1 DEF CallInv
<1>3. UNCHANGED <<db, reader, frames, values, written, writeLocks>>
  BY DEF WriteFrame, cacheVars
<1>4. writer' = [writer EXCEPT ![w] = c]
  BY <1>c DEF WriteFrame
<1>5. /\ frames' \in [Messages -> Payloads \cup {None}]
      /\ DOMAIN values' = Messages /\ \A y \in Messages : DOMAIN values'[y] = Names(db', y)
      /\ DOMAIN written' = Messages /\ \A y \in Messages : DOMAIN written'[y] = Names(db', y)
      /\ CacheInv'
      /\ writeLocks' \in [Messages -> Writers \cup {None}]
  BY <1>3, Zenon DEF FramesInv, Types, CacheInv
<1> QED
  BY <1>0, <1>1, <1>2, <1>3, <1>4, <1>5, OneCall, Zenon

(* WriteProperty returns with an error and gives its lock back.            *)
LEMMA FailuresKeep == ASSUME FramesInv, NEW w \in Writers, EncodeFails(w) \/ WriteFails(w) PROVE FramesInv'
<1>1. Return(w) /\ UNCHANGED <<db, reader, frames, values, written>>
  BY DEF EncodeFails, WriteFails, cacheVars
<1>2. /\ frames' \in [Messages -> Payloads \cup {None}]
      /\ DOMAIN values' = Messages /\ \A y \in Messages : DOMAIN values'[y] = Names(db', y)
      /\ DOMAIN written' = Messages /\ \A y \in Messages : DOMAIN written'[y] = Names(db', y)
      /\ CacheInv'
  BY <1>1, Zenon DEF FramesInv, Types, CacheInv
<1> QED
  BY <1>1, <1>2, ReturnKeeps, Zenon

(* What a call at "handle" is about to process.                            *)
LEMMA Handling ==
  ASSUME FramesInv, NEW w \in Writers, writer[w].pc \in {"write", "handle"}
  PROVE  /\ writer[w].msg \in Messages /\ writer[w].sig \in db[writer[w].msg] /\ writer[w].val \in Int
         /\ writer[w].base \in Payloads /\ writer[w].data \in Payloads
         /\ writer[w].data = Encode(db[writer[w].msg], writer[w].base, writer[w].sig, writer[w].val)
         /\ writeLocks[writer[w].msg] = w
<1>1. /\ writer[w].msg \in Messages /\ writer[w].sig \in db[writer[w].msg] /\ writer[w].val \in Int
      /\ writer[w].base \in Payloads
      /\ writer[w].data = Encode(db[writer[w].msg], writer[w].base, writer[w].sig, writer[w].val)
  BY DEF FramesInv, CallInv
<1>2. writeLocks[writer[w].msg] = w
  BY DEF FramesInv, HoldsLock
<1>3. Message(db[writer[w].msg])
  BY <1>1, TheMessage DEF FramesInv
<1> QED
  BY <1>1, <1>2, <1>3, EncodeType, Zenon

(* WriteProperty processes its own frame and gives its lock back.          *)
LEMMA WriterHandlesKeeps == ASSUME FramesInv, NEW w \in Writers, WriterHandles(w) PROVE FramesInv'
<1>m. PICK m \in Messages, d \in Payloads : m = writer[w].msg /\ d = writer[w].data
  BY Handling DEF WriterHandles
<1>1. processFrame(m, d) /\ Return(w) /\ UNCHANGED <<db, reader>>
  BY <1>m DEF WriterHandles
<1>2. /\ frames' \in [Messages -> Payloads \cup {None}]
      /\ DOMAIN values' = Messages /\ \A x \in Messages : DOMAIN values'[x] = Names(db', x)
      /\ CacheInv'
  BY <1>1, ProcessFrameKeeps DEF FramesInv
<1>3. DOMAIN written' = Messages /\ \A x \in Messages : DOMAIN written'[x] = Names(db', x)
  BY <1>m, <1>1 DEF WriterHandles, FramesInv, Types
<1> QED
  BY <1>1, <1>2, <1>3, ReturnKeeps, Zenon

(* readLoop processes a received frame.                                    *)
LEMMA ReaderHandlesKeeps == ASSUME FramesInv, ReaderHandles PROVE FramesInv'
<1>m. PICK m \in Messages, d \in Payloads : m = reader.msg /\ d = reader.data
  BY DEF ReaderHandles, FramesInv, Types
<1>1. processFrame(m, d) /\ UNCHANGED <<db, writeLocks, writer>> /\ reader'.pc = "top"
  BY <1>m DEF ReaderHandles, Reader
<1>2. /\ frames' \in [Messages -> Payloads \cup {None}]
      /\ DOMAIN values' = Messages /\ \A x \in Messages : DOMAIN values'[x] = Names(db', x)
      /\ CacheInv'
  BY <1>1, ProcessFrameKeeps DEF FramesInv
<1>3. DOMAIN written' = Messages /\ \A x \in Messages : DOMAIN written'[x] = Names(db', x)
  BY <1>m, <1>1 DEF ReaderHandles, FramesInv, Types
<1>4. Types'
  BY <1>1, <1>2, <1>3, Zenon DEF FramesInv, Types
<1>5. \A w \in Writers : CallInv(writer[w])' /\ HoldsLock(w)'
  BY <1>1, Zenon DEF FramesInv, CallInv, HoldsLock
<1> QED
  BY <1>2, <1>4, <1>5, Zenon DEF FramesInv

(* Every step keeps the caches, the calls and their locks consistent.      *)
LEMMA NextFrames == IInv /\ [Next]_vars => FramesInv'
<1> SUFFICES ASSUME IInv, [Next]_vars PROVE FramesInv'
  OBVIOUS
<1>0. FramesInv
  BY DEF IInv, FramesInv
<1>1. CASE Open
  <2>1. UNCHANGED <<db, cacheVars, writeLocks, writer>> /\ (reader' = reader \/ reader'.pc = "top")
    BY <1>1 DEF Open, Reader
  <2> QED
    BY <1>0, <2>1, NothingWritten, Zenon DEF FramesInv, Types
<1>2. CASE ReadTop \/ ReadTimeout \/ ReadError \/ ReadErrorSeen
  <2>1. UNCHANGED <<db, cacheVars, writeLocks, writer>> /\ reader'.pc # "handle"
    BY <1>2 DEF ReadTop, ReadTimeout, ReadError, ReadErrorSeen, Reader
  <2> QED
    BY <1>0, <2>1, NothingWritten
<1>3. CASE ReadFrame
  <2>1. UNCHANGED <<db, cacheVars, writeLocks, writer>> /\ reader'.msg \in Messages /\ reader'.data \in Payloads
    BY <1>3, CanAssumption DEF ReadFrame
  <2> QED
    BY <1>0, <2>1, NothingWritten
<1>4. CASE ReaderHandles
  BY <1>0, <1>4, ReaderHandlesKeeps
<1>5. ASSUME NEW w \in Writers, StartWrite(w) \/ Lock(w) \/ WriteStep(w) PROVE FramesInv'
  BY <1>0, <1>5, StartWriteKeeps, LockKeeps, EncodeFrameKeeps, WriteFrameKeeps, FailuresKeep, WriterHandlesKeeps
     DEF WriteStep
<1>6. ASSUME NEW d \in Devices, WatchDevice(d) PROVE FramesInv'
  <2>1. UNCHANGED <<db, cacheVars, writeLocks, writer, reader>>
    BY <1>6 DEF WatchDevice
  <2> QED
    BY <1>0, <2>1, NothingWritten, Zenon DEF FramesInv, Types
<1>7. CASE CloseStart \/ CloseStep
  <2>1. UNCHANGED <<db, cacheVars, writeLocks, writer, reader>>
    BY <1>7 DEF CloseStart, CloseStep, CloseDone, CloseSocket
  <2> QED
    BY <1>0, <2>1, NothingWritten, Zenon DEF FramesInv, Types
<1>8. CASE UNCHANGED vars
  <2>1. UNCHANGED <<db, cacheVars, writeLocks, writer, reader>>
    BY <1>8 DEF vars
  <2> QED
    BY <1>0, <2>1, NothingWritten, Zenon DEF FramesInv, Types
<1> QED
  BY <1>1, <1>2, <1>3, <1>4, <1>5, <1>6, <1>7, <1>8 DEF Next, ReadStep

(* The invariant of the CAN adapter holds always.                          *)
LEMMA IInvInvariant == Spec => []IInv
<1>1. Init => IInv
  BY InitIInv
<1>2. IInv /\ [Next]_vars => IInv'
  BY NextSocket, NextWatch, NextFrames, Zenon DEF IInv, FramesInv
<1> QED
  BY <1>1, <1>2, PTL DEF Spec

(* /health tells the truth for any number of writers and devices: only a   *)
(* failed interface makes the adapter degraded, and a read loop that ended *)
(* without Close always does (readLoop's look at a.done, Close's order).   *)
THEOREM HealthReportsAreTrue == Spec => []HealthIsTruthful
<1>1. IInv => HealthIsTruthful
  BY DEF IInv, SocketInv, HealthIsTruthful, Health, Healthy
<1> QED
  BY <1>1, IInvInvariant, PTL

(* For payloads of any length, signals of any place, length and byte order *)
(* and any interleaving, ReadProperty returns what the last frame holds as *)
(* one big integer: bitPositions and extractRaw are right, and processFrame*)
(* keeps a.values and a.frames in step.                                    *)
THEOREM CacheIsExact == Spec => []CacheIsTheLastFrame
<1>1. IInv => CacheIsTheLastFrame
  <2> SUFFICES ASSUME IInv PROVE CacheIsTheLastFrame
    OBVIOUS
  <2>1. TypeOK
    <3>1. \A w \in Writers : /\ writer[w].pc \in {"idle", "lock", "base", "write", "handle", "returned"}
                             /\ writer[w].data \in Payloads \cup {None}
      BY Zenon DEF IInv, Types, Calls
    <3> QED
      BY <3>1, Zenon DEF IInv, Types, SocketInv, WatchInv, TypeOK
  <2>2. ASSUME NEW m \in Messages, frames[m] # None, NEW s \in db[m],
               s.MuxValue # NoMux => \E x \in db[m] : x.IsMultiplexor /\ Field(x, frames[m]) = s.MuxValue
        PROVE  LET n == Value(s, Field(s, frames[m]))
               IN  /\ ReadProperty(m, s) = Scaled(s, n)
                   /\ ReadsExactly(s, n) => ReadProperty(m, s) = n * s.Factor + s.Offset
    <3>1. frames[m] \in Payloads /\ Types
      BY <2>2, Zenon DEF IInv, Types
    <3>2. \A x \in db[m] : Signal(x) /\ extractRaw(frames[m], positions(x)) = Field(x, frames[m])
      BY <3>1, TheMessage, ExtractIsField, Zenon
    <3>3. s \in Active(db[m], frames[m])
      BY <2>2, <3>2 DEF Active, Multiplexors
    <3>4. values[m][s.Name] = decode(s, frames[m])
      BY <2>2, <3>3 DEF IInv, CacheInv
    <3>5. PICK n \in Int : n = Value(s, Field(s, frames[m])) /\ decode(s, frames[m]) = Scaled(s, n)
      BY <2>2, <3>1, <3>2, DecodeIsScaled
    <3>6. ReadsExactly(s, n) => Scaled(s, n) = n * s.Factor + s.Offset
      BY <2>2, <3>2, ScaledExact
    <3> QED
      BY <3>4, <3>5, <3>6, Zenon DEF ReadProperty
  <2> QED
    BY <2>1, <2>2 DEF CacheIsTheLastFrame
<1> QED
  BY <1>1, IInvInvariant, PTL

(* For DBC files whose multiplexed signals have a multiplexor beside them, *)
(* a write changes only the bits of its signal and of the multiplexor, and *)
(* the frame carries the value asked for (Message.Encode, packRaw).        *)
THEOREM WritesAreLocal == WellMultiplexed => (Spec => []WriteTouchesOnlyItsSignal)
<1> SUFFICES ASSUME WellMultiplexed PROVE Spec => []WriteTouchesOnlyItsSignal
  OBVIOUS
<1>1. IInv => WriteTouchesOnlyItsSignal
  <2> SUFFICES ASSUME IInv, NEW w \in Writers, writer[w].pc \in {"write", "handle"}
      PROVE  /\ \A b \in Bits \ Footprint(db[writer[w].msg], writer[w].sig) : writer[w].data[b] = writer[w].base[b]
             /\ writer[w].sig \in Active(db[writer[w].msg], writer[w].data)
             /\ Representable(writer[w].sig, writer[w].val) =>
                    Physical(writer[w].sig, Field(writer[w].sig, writer[w].data)) = writer[w].val
    BY Zenon DEF WriteTouchesOnlyItsSignal
  <2>0. FramesInv
    BY DEF IInv, FramesInv
  <2>m. PICK m \in Messages : m = writer[w].msg
    BY <2>0, Handling
  <2>1. PICK s \in db[m], v \in Int, base \in Payloads :
            /\ s = writer[w].sig /\ v = writer[w].val /\ base = writer[w].base
            /\ writer[w].data = Encode(db[m], base, s, v)
    BY <2>0, <2>m, Handling
  <2>2. Message(db[m]) /\ db \in Databases
    BY TheMessage, Zenon DEF IInv, Types
  <2>3. Selectable(db[m], s)
    BY <2>2, Zenon DEF WellMultiplexed
  <2>4. Wrote(db[m], base, s, v, writer[w].data)
    BY <2>1, <2>2, <2>3, EncodeWrites, Zenon
  <2> QED
    BY <2>m, <2>1, <2>4, Zenon DEF Wrote
<1> QED
  BY <1>1, IInvInvariant, PTL
-----------------------------------------------------------------------------
(* Completed writes are in the last frame, and in the frame that a call    *)
(* under way started from: that one may be older than the last frame, but  *)
(* then a frame from the bus came in between and nothing is owed.          *)
Holds(s, d, v) == v # None => Physical(s, Field(s, d)) = v

SurviveInv ==
    /\ \A m \in Messages : \A s \in db[m] :
          written[m][s.Name] # None => frames[m] # None /\ Holds(s, frames[m], written[m][s.Name])
    /\ \A w \in Writers : writer[w].pc \in {"write", "handle"} =>
          \A s \in db[writer[w].msg] : Holds(s, writer[w].base, written[writer[w].msg][s.Name])

(* New has nothing written.                                                *)
LEMMA InitSurvive == Init => SurviveInv
<1> SUFFICES ASSUME Init PROVE SurviveInv
  OBVIOUS
<1>1. ASSUME NEW m \in Messages, NEW s \in db[m] PROVE written[m][s.Name] = None
  BY DEF Init, Names
<1>2. \A w \in Writers : writer[w].pc = "idle"
  BY Zenon DEF Init, IdleWriter
<1> QED
  BY <1>1, <1>2 DEF SurviveInv

(* A step that changes neither frames nor what is owed, and brings no call *)
(* to the point of sending.                                                *)
LEMMA NothingOwed ==
  ASSUME SurviveInv, UNCHANGED <<db, frames, written>>,
         \A w \in Writers : writer'[w].pc \in {"write", "handle"} =>
             /\ writer[w].pc \in {"write", "handle"}
             /\ writer'[w].msg = writer[w].msg /\ writer'[w].base = writer[w].base
  PROVE  SurviveInv'
BY DEF SurviveInv, Holds

(* A call bases its frame on one that holds all that was written.          *)
LEMMA EncodeFrameSurvives ==
  ASSUME FramesInv, SurviveInv, NEW w \in Writers, EncodeFrame(w)
  PROVE  SurviveInv'
<1>m. PICK m \in Messages : m = writer[w].msg
  BY DEF EncodeFrame, FramesInv, CallInv
<1>b. PICK base : base = IF frames[m] = None THEN ZeroPayload ELSE frames[m]
  OBVIOUS
<1>1. writer[w] \in Calls
  BY DEF FramesInv, Types
<1>2. /\ writer'[w].pc = "write" /\ writer'[w].msg = m /\ writer'[w].base = base
      /\ \A x \in Writers \ {w} : writer'[x] = writer[x]
      /\ UNCHANGED <<db, frames, written>>
  BY <1>m, <1>b, <1>1 DEF EncodeFrame, FramesInv, Types, Calls, cacheVars
<1>3. \A s \in db[m] : Holds(s, base, written[m][s.Name])
  BY <1>b, Zenon DEF SurviveInv, Holds
<1> QED
  <2>1. \A x \in Messages : \A s \in db'[x] :
           written'[x][s.Name] # None => frames'[x] # None /\ Holds(s, frames'[x], written'[x][s.Name])
    BY <1>2, Zenon DEF SurviveInv
  <2>2. ASSUME NEW x \in Writers, writer'[x].pc \in {"write", "handle"}, NEW s \in db'[writer'[x].msg]
        PROVE  Holds(s, writer'[x].base, written'[writer'[x].msg][s.Name])
    BY <1>2, <1>3, <2>2, Zenon DEF SurviveInv
  <2> QED
    BY <2>1, <2>2, Zenon DEF SurviveInv, Holds

(* A received frame ends the claims of the writes to its message.          *)
LEMMA ReaderHandlesSurvives ==
  ASSUME FramesInv, SurviveInv, ReaderHandles
  PROVE  SurviveInv'
<1>m. PICK m \in Messages : m = reader.msg
  BY DEF ReaderHandles, FramesInv, Types
<1>1. /\ UNCHANGED <<db, writer>>
      /\ \A x \in Messages \ {m} : frames'[x] = frames[x] /\ written'[x] = written[x]
  BY <1>m DEF ReaderHandles, processFrame, FramesInv, Types
<1>2. ASSUME NEW s \in db[m] PROVE written'[m][s.Name] = None
  <2>1. s.Name \in Names(db, m)
    BY TheMessage, Zenon DEF FramesInv
  <2> QED
    BY <1>m, <2>1 DEF ReaderHandles, FramesInv, Types
<1>3. ASSUME NEW x \in Messages, NEW s \in db[x], written'[x][s.Name] # None
      PROVE  frames'[x] # None /\ Holds(s, frames'[x], written'[x][s.Name])
  BY <1>1, <1>2, <1>3, Zenon DEF SurviveInv
<1>4. ASSUME NEW w \in Writers, writer[w].pc \in {"write", "handle"}, NEW s \in db[writer[w].msg]
      PROVE  Holds(s, writer[w].base, written'[writer[w].msg][s.Name])
  <2>1. writer[w].msg \in Messages
    BY <1>4, Handling
  <2> QED
    <3>1. CASE writer[w].msg = m
      BY <1>2, <1>4, <3>1, Zenon DEF Holds
    <3>2. CASE writer[w].msg # m
      BY <1>1, <1>4, <2>1, <3>2, Zenon DEF SurviveInv
    <3> QED
      BY <3>1, <3>2
<1> QED
  BY <1>1, <1>3, <1>4, Zenon DEF SurviveInv, Holds

(* What WriterHandles makes of the value owed to a signal s.               *)
Owed(msg, sig, v, s, old) ==
    IF s = sig /\ Representable(s, v) THEN v
    ELSE IF Occupied(s) \cap Footprint(msg, sig) = {} THEN old
    ELSE None

(* A call's frame keeps what it owes to earlier writes and adds its own.   *)
LEMMA WriterHandlesSurvives ==
  ASSUME WellMultiplexed, FramesInv, SurviveInv, NEW w \in Writers, WriterHandles(w)
  PROVE  SurviveInv'
<1>0. writer[w].pc = "handle"
  BY DEF WriterHandles
<1>m. PICK m \in Messages : m = writer[w].msg
  BY <1>0, Handling, Zenon
<1>c. PICK sig \in db[m], v \in Int, base \in Payloads, d \in Payloads :
          /\ sig = writer[w].sig /\ v = writer[w].val /\ base = writer[w].base /\ d = writer[w].data
          /\ d = Encode(db[m], base, sig, v) /\ writeLocks[m] = w
  BY <1>0, <1>m, Handling
<1>1. Message(db[m]) /\ db \in Databases /\ d # None
  BY TheMessage, CanAssumption, Zenon DEF FramesInv, Types
<1>2. Wrote(db[m], base, sig, v, d)
  <2>1. Selectable(db[m], sig)
    BY <1>1, Zenon DEF WellMultiplexed
  <2> QED
    BY <1>1, <1>c, <2>1, EncodeWrites, Zenon
<1>3. /\ \A b \in Bits \ Footprint(db[m], sig) : d[b] = base[b]
      /\ Representable(sig, v) => Physical(sig, Field(sig, d)) = v
  BY <1>2, Zenon DEF Wrote
<1>4. /\ UNCHANGED db
      /\ frames'[m] = d
      /\ \A x \in Messages \ {m} : frames'[x] = frames[x] /\ written'[x] = written[x]
  BY <1>m, <1>c, Zenon DEF WriterHandles, processFrame, FramesInv, Types
<1>5. written'[m] = [n \in Names(db, m) |->
                         Owed(db[m], sig, v, CHOOSE x \in db[m] : x.Name = n, written[m][n])]
  BY <1>m, <1>c DEF WriterHandles, FramesInv, Types, Owed
<1>6. ASSUME NEW s \in db[m] PROVE Holds(s, d, written'[m][s.Name])
  <2>1. Signal(s) /\ s.Name \in Names(db, m) /\ (CHOOSE x \in db[m] : x.Name = s.Name) = s
    BY TheMessage, Zenon DEF FramesInv
  <2>2. written'[m][s.Name] = Owed(db[m], sig, v, s, written[m][s.Name])
    BY <1>5, <2>1, Zenon
  <2>3. CASE s = sig /\ Representable(s, v)
    BY <1>3, <2>2, <2>3, Zenon DEF Holds, Owed
  <2>4. CASE ~(s = sig /\ Representable(s, v)) /\ Occupied(s) \cap Footprint(db[m], sig) = {}
    <3>1. Occupied(s) \subseteq Bits
      BY <2>1, PositionsFit, Zenon DEF Occupied
    <3>2. \A b \in Occupied(s) : d[b] = base[b]
      BY <1>3, <2>4, <3>1
    <3>3. Field(s, d) = Field(s, base)
      BY <2>1, <3>2, ExtractLocal, ExtractIsField, Zenon
    <3>4. Holds(s, base, written[m][s.Name])
      BY <1>0, <1>m, <1>c, Zenon DEF SurviveInv
    <3> QED
      BY <2>2, <2>4, <3>3, <3>4, Zenon DEF Holds, Owed
  <2>5. CASE ~(s = sig /\ Representable(s, v)) /\ Occupied(s) \cap Footprint(db[m], sig) # {}
    BY <2>2, <2>5, Zenon DEF Holds, Owed
  <2> QED
    BY <2>3, <2>4, <2>5, Zenon
<1>7. ASSUME NEW x \in Messages, NEW s \in db[x], written'[x][s.Name] # None
      PROVE  frames'[x] # None /\ Holds(s, frames'[x], written'[x][s.Name])
  BY <1>1, <1>4, <1>6, <1>7, Zenon DEF SurviveInv
<1>8. writer'[w].pc = "returned" /\ \A x \in Writers \ {w} : writer'[x] = writer[x]
  BY DEF WriterHandles, Return, FramesInv, Types, IdleWriter
<1>9. ASSUME NEW x \in Writers, writer'[x].pc \in {"write", "handle"}, NEW s \in db[writer'[x].msg]
      PROVE  Holds(s, writer'[x].base, written'[writer'[x].msg][s.Name])
  <2>1. x # w /\ writer'[x] = writer[x]
    BY <1>8, <1>9
  <2>2. writer[x].msg \in Messages /\ writeLocks[writer[x].msg] = x
    BY <1>9, <2>1, Handling, Zenon
  <2>3. writer[x].msg # m
    BY <1>c, <2>1, <2>2
  <2> QED
    BY <1>4, <1>9, <2>1, <2>2, <2>3, Zenon DEF SurviveInv
<1> QED
  BY <1>4, <1>7, <1>9, Zenon DEF SurviveInv, Holds

(* Every step keeps the completed writes in the last frame.                *)
LEMMA NextSurvive == WellMultiplexed /\ IInv /\ SurviveInv /\ [Next]_vars => SurviveInv'
<1> SUFFICES ASSUME WellMultiplexed, IInv, SurviveInv, [Next]_vars PROVE SurviveInv'
  OBVIOUS
<1>0. FramesInv
  BY DEF IInv, FramesInv
<1>1. ASSUME UNCHANGED <<db, cacheVars, writer>> PROVE SurviveInv'
  BY <1>1, NothingOwed DEF cacheVars
<1>2. CASE Open \/ CloseStart \/ CloseStep
  BY <1>1, <1>2, Zenon DEF Open, CloseStart, CloseStep, CloseDone, CloseSocket
<1>3. CASE ReadTop \/ ReadFrame \/ ReadTimeout \/ ReadError \/ ReadErrorSeen
  BY <1>1, <1>3 DEF ReadTop, ReadFrame, ReadTimeout, ReadError, ReadErrorSeen
<1>4. CASE ReaderHandles
  BY <1>0, <1>4, ReaderHandlesSurvives, Zenon
<1>5. ASSUME NEW d \in Devices, WatchDevice(d) PROVE SurviveInv'
  BY <1>1, <1>5, Zenon DEF WatchDevice
<1>6. ASSUME NEW w \in Writers, StartWrite(w) \/ Lock(w) \/ EncodeFails(w) \/ WriteFails(w) PROVE SurviveInv'
  <2>1. UNCHANGED <<db, frames, written>>
    BY <1>6, Zenon DEF StartWrite, Lock, EncodeFails, WriteFails, cacheVars
  <2>2. writer'[w].pc \notin {"write", "handle"}
    <3>1. CASE StartWrite(w)
      BY <1>0, <3>1 DEF StartWrite, IdleWriter, FramesInv, Types
    <3>2. CASE Lock(w)
      <4>1. writer[w] \in Calls
        BY <1>0, Zenon DEF FramesInv, Types
      <4> QED
        BY <1>0, <3>2, <4>1 DEF Lock, FramesInv, Types, Calls
    <3>3. CASE EncodeFails(w) \/ WriteFails(w)
      BY <1>0, <3>3 DEF EncodeFails, WriteFails, Return, IdleWriter, FramesInv, Types
    <3> QED
      BY <1>6, <3>1, <3>2, <3>3
  <2>3. \A x \in Writers \ {w} : writer'[x] = writer[x]
    BY <1>0, <1>6, Zenon DEF StartWrite, Lock, EncodeFails, WriteFails, Return, FramesInv, Types
  <2> QED
    BY <2>1, <2>2, <2>3, NothingOwed
<1>7. ASSUME NEW w \in Writers, WriteFrame(w) PROVE SurviveInv'
  <2>1. writer[w] \in Calls
    BY <1>0 DEF FramesInv, Types
  <2>2. /\ UNCHANGED <<db, frames, written>>
        /\ writer[w].pc = "write" /\ writer'[w].msg = writer[w].msg /\ writer'[w].base = writer[w].base
        /\ \A x \in Writers \ {w} : writer'[x] = writer[x]
    BY <1>0, <1>7, <2>1 DEF WriteFrame, cacheVars, FramesInv, Types, Calls
  <2> QED
    BY <2>2, NothingOwed, Zenon
<1>8. ASSUME NEW w \in Writers, EncodeFrame(w) \/ WriterHandles(w) PROVE SurviveInv'
  BY <1>0, <1>8, EncodeFrameSurvives, WriterHandlesSurvives
<1>9. CASE UNCHANGED vars
  BY <1>1, <1>9 DEF vars
<1> QED
  BY <1>2, <1>3, <1>4, <1>5, <1>6, <1>7, <1>8, <1>9, Zenon DEF Next, ReadStep, WriteStep

(* However calls and frames from the bus interleave, a completed write     *)
(* stays in the last frame until a frame from the bus or a later write to  *)
(* its bits replaces it: the write lock of a message is enough.            *)
THEOREM WritesAreKept == WellMultiplexed => (Spec => []WritesSurvive)
<1> SUFFICES ASSUME WellMultiplexed PROVE Spec => []WritesSurvive
  OBVIOUS
<1>1. Init => SurviveInv
  BY InitSurvive
<1>2. IInv /\ SurviveInv /\ [Next]_vars => SurviveInv'
  BY NextSurvive, Zenon
<1>3. SurviveInv => WritesSurvive
  BY DEF SurviveInv, WritesSurvive, Holds
<1> QED
  BY <1>1, <1>2, <1>3, IInvInvariant, PTL DEF Spec
-----------------------------------------------------------------------------
(* Close and the read loop.  A socket that Close has closed was announced  *)
(* as such, and its reader runs or has stopped.                            *)
CloseInv ==
    /\ fd # "none" => reader.pc # "none"
    /\ closer # "none" => fd # "none"
    /\ closer \in {"announced", "closed"} => done
    /\ closer = "closed" => fd = "closed"

(* Close has returned, and the read loop is at pc.                         *)
ClosedAt(pc) == closer = "closed" /\ CloseInv /\ reader.pc = pc

(* Only ReadStep, Open and Close touch the socket and the loop.            *)
LEMMA OtherSteps ==
  ASSUME Next
  PROVE  \/ Open \/ ReadStep \/ CloseStart \/ CloseStep
         \/ UNCHANGED <<socketVars, reader>>
<1>1. ASSUME NEW w \in Writers, StartWrite(w) \/ Lock(w) \/ WriteStep(w)
      PROVE  UNCHANGED <<socketVars, reader>>
  BY <1>1, Zenon DEF StartWrite, Lock, WriteStep, EncodeFrame, EncodeFails, WriteFrame, WriteFails, WriterHandles
<1>2. ASSUME NEW d \in Devices, WatchDevice(d) PROVE UNCHANGED <<socketVars, reader>>
  BY <1>2, Zenon DEF WatchDevice
<1> QED
  BY <1>1, <1>2, Zenon DEF Next

(* Every step keeps Close's order.                                         *)
LEMMA NextClose == CloseInv /\ [Next]_vars => CloseInv'
<1> SUFFICES ASSUME CloseInv, [Next]_vars PROVE CloseInv'
  OBVIOUS
<1>1. CASE UNCHANGED <<socketVars, reader>>
  BY <1>1 DEF CloseInv, socketVars
<1>2. CASE Open
  BY <1>2 DEF Open, CloseInv, Reader
<1>3. CASE ReadStep
  <2>1. reader'.pc # "none" /\ UNCHANGED <<fd, done, closer>>
    BY <1>3 DEF ReadStep, ReadTop, ReadFrame, ReadTimeout, ReadError, ReadErrorSeen, ReaderHandles, Reader,
                socketVars
  <2> QED
    BY <2>1 DEF CloseInv
<1>4. CASE CloseStart \/ CloseStep
  BY <1>4 DEF CloseStart, CloseStep, CloseDone, CloseSocket, CloseInv
<1> QED
  BY <1>1, <1>2, <1>3, <1>4, OtherSteps DEF vars

(* After Close the loop goes on only by steps of its own, and each brings  *)
(* it nearer to its end.                                                   *)
LEMMA ReaderGoesOn ==
  /\ ClosedAt("handle") /\ [Next]_vars => ClosedAt("handle")' \/ ClosedAt("top")'
  /\ ClosedAt("handle") /\ <<ReadStep>>_vars => ClosedAt("top")'
  /\ ClosedAt("read") /\ [Next]_vars => ClosedAt("read")' \/ ClosedAt("top")' \/ ClosedAt("error")'
  /\ ClosedAt("read") /\ <<ReadStep>>_vars => ClosedAt("top")' \/ ClosedAt("error")'
  /\ ClosedAt("top") /\ [Next]_vars => ClosedAt("top")' \/ ClosedAt("stopped")'
  /\ ClosedAt("top") /\ <<ReadStep>>_vars => ClosedAt("stopped")'
  /\ ClosedAt("error") /\ [Next]_vars => ClosedAt("error")' \/ ClosedAt("stopped")'
  /\ ClosedAt("error") /\ <<ReadStep>>_vars => ClosedAt("stopped")'
<1>1. ASSUME [Next]_vars, CloseInv, closer = "closed", ~ReadStep
      PROVE  closer' = "closed" /\ CloseInv' /\ reader' = reader
  <2>1. closer' = "closed" /\ reader' = reader
    BY <1>1, OtherSteps, Zenon DEF Open, CloseStart, CloseStep, CloseDone, CloseSocket, CloseInv,
                            socketVars, vars
  <2> QED
    BY <1>1, <2>1, NextClose
<1>2. ASSUME ReadStep, CloseInv, closer = "closed"
      PROVE  /\ closer' = "closed" /\ CloseInv'
             /\ reader.pc = "handle" => reader'.pc = "top"
             /\ reader.pc = "read" => reader'.pc \in {"top", "error"}
             /\ reader.pc \in {"top", "error"} => reader'.pc = "stopped"
  <2>1. fd = "closed" /\ done
    BY <1>2 DEF CloseInv
  <2>2. closer' = "closed" /\ CloseInv'
    <3>1. closer' = closer
      BY <1>2, Zenon DEF ReadStep, ReadTop, ReadFrame, ReadTimeout, ReadError, ReadErrorSeen, ReaderHandles, socketVars
    <3> QED
      BY <1>2, <3>1, NextClose DEF Next
  <2>3. CASE ReaderHandles
    <3>1. reader.pc = "handle" /\ reader' = Reader("top")
      BY <2>3, Zenon DEF ReaderHandles
    <3> QED
      BY <2>2, <3>1 DEF Reader
  <2>4. CASE ReadTop \/ ReadFrame \/ ReadTimeout \/ ReadError \/ ReadErrorSeen
    <3>1. \/ reader.pc = "top" /\ reader' = Reader(IF done THEN "stopped" ELSE "read")
          \/ reader.pc = "read" /\ (reader' = Reader("top") \/ reader' = Reader("error"))
          \/ reader.pc = "error" /\ reader' = Reader("stopped")
          \/ fd = "open"
      BY <2>4, Zenon DEF ReadTop, ReadFrame, ReadTimeout, ReadError, ReadErrorSeen
    <3> QED
      BY <2>1, <2>2, <3>1 DEF Reader
  <2> QED
    BY <1>2, <2>3, <2>4, Zenon DEF ReadStep
<1> QED
  BY <1>1, <1>2 DEF ClosedAt

(* Once Close has returned, the read loop ends.  What the prover cannot    *)
(* establish is a hypothesis: a read loop that has not ended can take its  *)
(* next step.  The rest follows from the fairness of Spec (readLoop,       *)
(* Close).                                                                 *)
THEOREM ReaderStopsAfterClose ==
  Spec /\ [](reader.pc \in {"top", "read", "error", "handle"} => ENABLED <<ReadStep>>_vars)
  => CloseStopsReader
<1>1. Init => CloseInv
  BY DEF Init, CloseInv, Reader
<1>2. closer = "closed" /\ CloseInv /\ IInv =>
         \/ ClosedAt("top") \/ ClosedAt("read") \/ ClosedAt("error") \/ ClosedAt("handle")
         \/ ClosedAt("stopped")
  BY DEF IInv, SocketInv, CloseInv, ClosedAt
<1>3. /\ ClosedAt("top") \/ ClosedAt("read") \/ ClosedAt("error") \/ ClosedAt("handle")
         => reader.pc \in {"top", "read", "error", "handle"}
      /\ ClosedAt("stopped") => reader.pc = "stopped"
  BY DEF ClosedAt
<1>4. Fairness => WF_vars(ReadStep)
  BY PTL DEF Fairness
<1> QED
  BY <1>1, <1>2, <1>3, <1>4, IInvInvariant, NextClose, ReaderGoesOn, PTL DEF Spec, CloseStopsReader
=============================================================================
