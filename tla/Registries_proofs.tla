-------------------------- MODULE Registries_proofs --------------------------
(***************************************************************************)
(* Proofs about what the gateway records: devices and their schemas.       *)
(*                                                                         *)
(* Capability, for any documents, any order of publication and any range   *)
(* of int: what is published stays, and the comparison with the latest     *)
(* version is enough to warn of every breaking upgrade.  For any chains of *)
(* references, values are validated by the type at their end.              *)
(*                                                                         *)
(* Presence and its composition with the SDK device, for any finite set of *)
(* devices, any number of goroutines and handlers, any timeout, number of  *)
(* restarts, configured and generated IDs.  The composition implements     *)
(* Presence: restricting who calls the gateway, and when, adds no          *)
(* behaviour to it.  What is proved of Presence then holds of the          *)
(* composition.                                                            *)
(***************************************************************************)
EXTENDS SdkDevice, SchemaValidation, FiniteSetTheorems, WellFoundedInduction, TLAPS

Versions == [1 .. 3 -> 0 .. MaxInt]

(* The bucket and the history tell the same.                               *)
Stored ==
    /\ published \in Seq(Documents)
    /\ \A i \in 1 .. Len(published) :
          /\ published[i].valid
          /\ publishKey(published[i]) \in DOMAIN schemas
          /\ schemas[publishKey(published[i])] = published[i]
    /\ \A k \in DOMAIN schemas : \E i \in 1 .. Len(published) : schemas[k] = published[i]
    /\ \A w \in warnings : w.from \in Versions /\ w.to \in Versions

RegistryInv == Stored /\ BreakingUpgradesAreWarned

(* BreakingUpgradesAreWarned, in parts.                                    *)
Ascending(name, j) == \A k, l \in Releases(name) : l < k /\ k <= j => Release(l) < Release(k)

Warned(i, j) ==
    \E w \in warnings : /\ w.name = published[i].name
                        /\ Rank(w.from) >= Release(i) /\ Rank(w.to) <= Release(j)
-----------------------------------------------------------------------------
(* Versions.                                                               *)
LEMMA Products ==
  ASSUME NEW a \in Nat, NEW b \in Nat, NEW k \in Nat, a < b
  PROVE  a * k + k <= b * k
<1>1. PICK c \in Nat : b = a + 1 + c
  <2>1. b - a - 1 \in Nat /\ b = a + 1 + (b - a - 1)
    OBVIOUS
  <2> QED
    BY <2>1
<1>2. b * k = a * k + k + c * k
  BY <1>1
<1>3. c * k \in Nat /\ a * k \in Nat
  OBVIOUS
<1> QED
  BY <1>2, <1>3

(* Numbers in a place-value notation compare like their digits.            *)
LEMMA Digits ==
  ASSUME NEW K \in Nat \ {0}, NEW a \in Nat, NEW b \in Nat, NEW x \in 0 .. K - 1, NEW y \in 0 .. K - 1
  PROVE  /\ a * K + x \in Nat
         /\ a * K + x < b * K + y <=> a < b \/ (a = b /\ x < y)
<1>0. a * K \in Nat /\ b * K \in Nat
  OBVIOUS
<1>1. CASE a < b
  <2>1. a * K + K <= b * K
    BY <1>1, Products
  <2> QED
    BY <1>0, <1>1, <2>1
<1>2. CASE b < a
  <2>1. b * K + K <= a * K
    BY <1>2, Products
  <2> QED
    BY <1>0, <1>2, <2>1
<1>3. CASE a = b
  BY <1>0, <1>3
<1> QED
  BY <1>1, <1>2, <1>3

(* semver.less is the order of Rank.                                       *)
LEMMA LessIsRank ==
  ASSUME NEW v \in Versions, NEW w \in Versions
  PROVE  /\ Rank(v) \in Nat
         /\ less(v, w) <=> Rank(v) < Rank(w)
         /\ Rank(v) < Rank(w) => v[1] <= w[1]
<1>k. PICK K \in Nat \ {0} : K = MaxInt + 1
  BY CapabilityAssumption
<1>1. /\ v[1] \in 0 .. K - 1 /\ v[2] \in 0 .. K - 1 /\ v[3] \in 0 .. K - 1
      /\ w[1] \in 0 .. K - 1 /\ w[2] \in 0 .. K - 1 /\ w[3] \in 0 .. K - 1
  BY <1>k, CapabilityAssumption DEF Versions
<1>v. PICK v1 \in 0 .. K - 1, v2 \in 0 .. K - 1, v3 \in 0 .. K - 1 : v1 = v[1] /\ v2 = v[2] /\ v3 = v[3]
  BY <1>1
<1>w. PICK w1 \in 0 .. K - 1, w2 \in 0 .. K - 1, w3 \in 0 .. K - 1 : w1 = w[1] /\ w2 = w[2] /\ w3 = w[3]
  BY <1>1
<1>n. v1 \in Nat /\ w1 \in Nat
  OBVIOUS
<1>2. /\ v1 * K + v2 \in Nat /\ w1 * K + w2 \in Nat
      /\ v1 * K + v2 < w1 * K + w2 <=> v1 < w1 \/ (v1 = w1 /\ v2 < w2)
      /\ w1 * K + w2 < v1 * K + v2 <=> w1 < v1 \/ (w1 = v1 /\ w2 < v2)
  BY <1>n, Digits
<1>a. PICK a \in Nat, b \in Nat : a = v1 * K + v2 /\ b = w1 * K + w2
  BY <1>2
<1>3. /\ a < b <=> v1 < w1 \/ (v1 = w1 /\ v2 < w2)
      /\ b < a <=> w1 < v1 \/ (w1 = v1 /\ w2 < v2)
  BY <1>2, <1>a
<1>4. a = b <=> v1 = w1 /\ v2 = w2
  BY <1>3
<1>5. Rank(v) = a * K + v3 /\ Rank(w) = b * K + w3
  BY <1>k, <1>a, <1>v, <1>w DEF Rank
<1>6. a * K + v3 \in Nat /\ (a * K + v3 < b * K + w3 <=> a < b \/ (a = b /\ v3 < w3))
  BY Digits
<1>7. less(v, w) <=> \/ v1 < w1
                     \/ v2 < w2 /\ v1 = w1
                     \/ v3 < w3 /\ v1 = w1 /\ v2 = w2
  <2>1. /\ 1 \in 1 .. 3 /\ 2 \in 1 .. 3 /\ 3 \in 1 .. 3
        /\ \A i \in 1 .. 3 : i = 1 \/ i = 2 \/ i = 3
    OBVIOUS
  <2>2. ASSUME less(v, w)
        PROVE  \/ v1 < w1
               \/ v2 < w2 /\ v1 = w1
               \/ v3 < w3 /\ v1 = w1 /\ v2 = w2
    <3>1. PICK i \in 1 .. 3 : v[i] < w[i] /\ \A j \in 1 .. (i - 1) : v[j] = w[j]
      BY <2>2 DEF less
    <3>2. CASE i = 1
      BY <1>v, <1>w, <3>1, <3>2
    <3>3. CASE i = 2
      <4>1. 1 \in 1 .. (i - 1)
        BY <3>3
      <4> QED
        BY <1>v, <1>w, <3>1, <3>3, <4>1
    <3>4. CASE i = 3
      <4>1. 1 \in 1 .. (i - 1) /\ 2 \in 1 .. (i - 1)
        BY <3>4
      <4> QED
        BY <1>v, <1>w, <3>1, <3>4, <4>1
    <3> QED
      BY <3>2, <3>3, <3>4
  <2>3. v1 < w1 => less(v, w)
    BY <1>v, <1>w, <2>1 DEF less
  <2>4. v2 < w2 /\ v1 = w1 => less(v, w)
    <3>1. \A j \in 1 .. (2 - 1) : j = 1
      OBVIOUS
    <3> QED
      BY <1>v, <1>w, <2>1, <3>1, Zenon DEF less
  <2>5. v3 < w3 /\ v1 = w1 /\ v2 = w2 => less(v, w)
    <3>1. \A j \in 1 .. (3 - 1) : j = 1 \/ j = 2
      OBVIOUS
    <3> QED
      BY <1>v, <1>w, <2>1, <3>1, Zenon DEF less
  <2> QED
    BY <2>2, <2>3, <2>4, <2>5
<1>8. less(v, w) <=> Rank(v) < Rank(w)
  BY <1>3, <1>4, <1>5, <1>6, <1>7
<1>9. Rank(v) < Rank(w) => v1 <= w1
  BY <1>3, <1>4, <1>5, <1>6
<1> QED
  BY <1>v, <1>w, <1>5, <1>6, <1>8, <1>9

(* parseSemver gives the numbers of a version, within the range of int.    *)
LEMMA ParsedVersions ==
  ASSUME NEW d \in Documents, d.valid, parseSemver(d.version) # None
  PROVE  parseSemver(d.version) = d.version.nums /\ d.version.nums \in Versions
<1>1. d.version.nums \in [1 .. 3 -> Nat]
  BY CapabilityAssumption DEF Schema
<1>2. \A j \in 1 .. 3 : d.version.nums[j] \in 0 .. MaxInt
  BY <1>1, CapabilityAssumption DEF parseSemver
<1> QED
  BY <1>1, <1>2 DEF parseSemver, Versions

(* A release has a version of three numbers in the range of int.           *)
LEMMA ReleasesHaveVersions ==
  ASSUME Stored, NEW i \in 1 .. Len(published), parseSemver(published[i].version) # None
  PROVE  /\ parseSemver(published[i].version) = published[i].version.nums
         /\ published[i].version.nums \in Versions
<1>1. published[i] \in Documents /\ published[i].valid
  BY DEF Stored
<1> QED
  BY <1>1, ParsedVersions

(* detectBreakingChanges misses nothing that clients rely on.              *)
LEMMA BreaksAreDetected ==
  ASSUME NEW old, NEW new, detectBreakingChanges(old, new) = {}
  PROVE  Interface(old) \subseteq Interface(new)
<1>1. /\ Changed(old.properties, new.properties) = {}
      /\ \A c \in DOMAIN old.commands : /\ c \in DOMAIN new.commands
                                        /\ Changed(old.commands[c], new.commands[c]) = {}
  BY DEF detectBreakingChanges
<1>2. \A p \in DOMAIN old.properties : /\ p \in DOMAIN new.properties
                                       /\ old.properties[p].Type = new.properties[p].Type
  BY <1>1 DEF Changed
<1>3. \A c \in DOMAIN old.commands : \A x \in DOMAIN old.commands[c] :
          x \in DOMAIN new.commands[c] /\ old.commands[c][x].Type = new.commands[c][x].Type
  BY <1>1 DEF Changed
<1> QED
  BY <1>1, <1>2, <1>3 DEF Interface
-----------------------------------------------------------------------------
(* Every release of the name is at most as new as what latestInTx answers. *)
LEMMA LatestIsARelease ==
  ASSUME Stored, NEW name, NEW latest \in latestInTx(name)
  PROVE  \E l \in Releases(name) : /\ latest = published[l]
                                   /\ \A i \in Releases(name) : Release(i) <= Release(l)
<1>1. /\ latest \in {schemas[k] : k \in DOMAIN schemas}
      /\ latest.name = name /\ parseSemver(latest.version) # None
      /\ \A e \in {schemas[k] : k \in DOMAIN schemas} :
            e.name = name /\ parseSemver(e.version) # None
            => ~less(parseSemver(latest.version), parseSemver(e.version))
  BY DEF latestInTx
<1>2. PICK l \in 1 .. Len(published) : latest = published[l]
  BY <1>1 DEF Stored
<1>3. published \in Seq(Documents) /\ DOMAIN published = 1 .. Len(published)
  BY DEF Stored
<1>4. l \in Releases(name)
  BY <1>1, <1>2, <1>3 DEF Releases
<1>5. ASSUME NEW i \in Releases(name) PROVE Release(i) <= Release(l)
  <2>1. i \in 1 .. Len(published) /\ published[i].name = name /\ parseSemver(published[i].version) # None
    BY <1>3 DEF Releases
  <2>2. published[i] \in {schemas[k] : k \in DOMAIN schemas}
    BY <2>1 DEF Stored
  <2>v. PICK v \in Versions : v = parseSemver(published[l].version)
    BY <1>1, <1>2, ReleasesHaveVersions
  <2>w. PICK w \in Versions : w = parseSemver(published[i].version)
    BY <2>1, ReleasesHaveVersions
  <2>3. ~less(v, w)
    BY <1>1, <1>2, <2>1, <2>2, <2>v, <2>w
  <2>4. ~(Rank(v) < Rank(w)) /\ Rank(v) \in Nat /\ Rank(w) \in Nat
    BY <2>3, LessIsRank
  <2> QED
    BY <2>4, <2>v, <2>w DEF Release
<1> QED
  BY <1>2, <1>4, <1>5

(* What Publish does, in the bucket and in the history.                    *)
LEMMA PublishAdds ==
  ASSUME Stored, NEW d \in Documents, Publish(d)
  PROVE  /\ Stored'
         /\ d.valid
         /\ Len(published') = Len(published) + 1 /\ published'[Len(published) + 1] = d
         /\ \A i \in 1 .. Len(published) : published'[i] = published[i]
         /\ \A k \in DOMAIN schemas : Get(k)' = Get(k)
         /\ warnings \subseteq warnings'
<1>k. PICK k : k = publishKey(d)
  OBVIOUS
<1>1. d.valid /\ Get(k) = None
  BY <1>k DEF Publish, Refused, validateAndParse
<1>2. k \notin DOMAIN schemas
  BY <1>1, CapabilityAssumption DEF Stored, Get
<1>3. /\ DOMAIN schemas' = DOMAIN schemas \cup {k} /\ schemas'[k] = d
      /\ \A x \in DOMAIN schemas : schemas'[x] = schemas[x]
  BY <1>k, <1>2 DEF Publish
<1>4. /\ published' \in Seq(Documents)
      /\ Len(published') = Len(published) + 1 /\ published'[Len(published) + 1] = d
      /\ \A i \in 1 .. Len(published) : published'[i] = published[i]
      /\ Len(published) \in Nat
  BY DEF Publish, Stored
<1>5. ASSUME NEW i \in 1 .. Len(published')
      PROVE  /\ published'[i].valid
             /\ publishKey(published'[i]) \in DOMAIN schemas'
             /\ schemas'[publishKey(published'[i])] = published'[i]
  <2>1. CASE i \in 1 .. Len(published)
    BY <1>3, <1>4, <2>1 DEF Stored
  <2>2. CASE i = Len(published) + 1
    BY <1>k, <1>1, <1>3, <1>4, <2>2
  <2> QED
    BY <1>4, <2>1, <2>2
<1>6. ASSUME NEW x \in DOMAIN schemas' PROVE \E i \in 1 .. Len(published') : schemas'[x] = published'[i]
  <2>1. CASE x \in DOMAIN schemas
    <3>1. PICK i \in 1 .. Len(published) : schemas[x] = published[i]
      BY <2>1 DEF Stored
    <3>2. i \in 1 .. Len(published')
      BY <1>4
    <3> QED
      BY <1>3, <1>4, <2>1, <3>1, <3>2
  <2>2. CASE x = k
    <3>1. Len(published) + 1 \in 1 .. Len(published')
      BY <1>4
    <3> QED
      BY <1>3, <1>4, <2>2, <3>1
  <2> QED
    BY <1>3, <2>1, <2>2
<1>w. ASSUME NEW w \in warnings' PROVE w.from \in Versions /\ w.to \in Versions
  <2>1. CASE w \in warnings
    BY <2>1 DEF Stored
  <2>2. CASE w \notin warnings
    <3>1. PICK latest \in latestInTx(d.name) : w \in warnIfBreaking(latest, d)
      BY <2>2 DEF Publish
    <3>2. /\ w.from = parseSemver(latest.version) /\ w.to = parseSemver(d.version)
          /\ parseSemver(d.version) # None
      BY <3>1 DEF warnIfBreaking
    <3>3. PICK l \in Releases(d.name) : latest = published[l]
      BY <3>1, LatestIsARelease
    <3>4. l \in 1 .. Len(published) /\ parseSemver(published[l].version) # None
      BY <3>3 DEF Releases, Stored
    <3> QED
      BY <1>1, <3>2, <3>3, <3>4, ReleasesHaveVersions, ParsedVersions
  <2> QED
    BY <2>1, <2>2
<1>7. Stored'
  BY <1>4, <1>5, <1>6, <1>w DEF Stored, publishKey
<1>8. \A x \in DOMAIN schemas : Get(x)' = Get(x)
  BY <1>3 DEF Get
<1>9. warnings \subseteq warnings'
  BY DEF Publish
<1> QED
  BY <1>1, <1>4, <1>7, <1>8, <1>9

(* A non-empty set of naturals has a least element.                        *)
LEMMA LeastElement ==
  ASSUME NEW S, S \subseteq Nat, S # {}
  PROVE  \E i \in S : \A j \in S : i <= j
<1>1. PICK i \in S : \A j \in S : ~(<<j, i>> \in OpToRel(<, Nat))
  BY NatLessThanWellFounded, WFMin, Zenon
<1>2. \A j \in S : ~(j < i)
  BY <1>1, Zenon DEF OpToRel
<1> QED
  BY <1>2

(* There is a latest version as soon as there is a release.                *)
LEMMA SomeLatest ==
  ASSUME Stored, NEW name, Releases(name) # {}
  PROVE  latestInTx(name) # {}
<1>t. PICK top \in Versions : \A i \in 1 .. 3 : top[i] = MaxInt
  <2>1. [i \in 1 .. 3 |-> MaxInt] \in Versions
    BY CapabilityAssumption DEF Versions
  <2> QED
    BY <2>1
<1>1. ASSUME NEW i \in Releases(name)
      PROVE  /\ i \in 1 .. Len(published) /\ published[i].name = name
             /\ parseSemver(published[i].version) \in Versions
             /\ parseSemver(published[i].version) # None
             /\ Release(i) \in Nat /\ Rank(top) - Release(i) \in Nat
  <2>1. i \in 1 .. Len(published) /\ published[i].name = name /\ parseSemver(published[i].version) # None
    BY DEF Releases, Stored
  <2>v. PICK v \in Versions : v = parseSemver(published[i].version)
    BY <2>1, ReleasesHaveVersions
  <2>2. ~less(top, v)
    BY <1>t, CapabilityAssumption DEF less, Versions
  <2>3. ~(Rank(top) < Rank(v)) /\ Rank(top) \in Nat /\ Rank(v) \in Nat
    BY <2>2, LessIsRank
  <2> QED
    BY <2>1, <2>v, <2>3 DEF Release
<1>2. PICK l \in Releases(name) :
          \A i \in Releases(name) : Rank(top) - Release(l) <= Rank(top) - Release(i)
  <2> DEFINE S == {Rank(top) - Release(i) : i \in Releases(name)}
  <2>1. S \subseteq Nat /\ S # {}
    BY <1>1
  <2>2. PICK x \in S : \A y \in S : x <= y
    BY <2>1, LeastElement, Zenon
  <2> QED
    BY <2>2
<1>3. Rank(top) \in Nat
  BY LessIsRank
<1>4. \A i \in Releases(name) : Release(i) <= Release(l)
  BY <1>1, <1>2, <1>3
<1>5. published[l] \in {schemas[k] : k \in DOMAIN schemas}
  BY <1>1 DEF Stored
<1>6. ASSUME NEW e \in {schemas[k] : k \in DOMAIN schemas}, e.name = name, parseSemver(e.version) # None
      PROVE  ~less(parseSemver(published[l].version), parseSemver(e.version))
  <2>1. PICK i \in 1 .. Len(published) : e = published[i]
    BY DEF Stored
  <2>2. i \in Releases(name)
    BY <1>6, <2>1 DEF Releases, Stored
  <2>v. PICK v \in Versions : v = parseSemver(published[l].version)
    BY <1>1
  <2>w. PICK w \in Versions : w = parseSemver(published[i].version)
    BY <1>1, <2>2
  <2>3. Rank(w) <= Rank(v) /\ Rank(w) \in Nat /\ Rank(v) \in Nat
    BY <1>4, <2>2, <2>v, <2>w, LessIsRank DEF Release
  <2>4. ~less(v, w)
    BY <2>3, LessIsRank
  <2> QED
    BY <2>1, <2>4, <2>v, <2>w
<1>7. published[l] \in latestInTx(name)
  BY <1>1, <1>5, <1>6 DEF latestInTx
<1> QED
  BY <1>7
-----------------------------------------------------------------------------
(* Publish compares with the latest version only.  That is enough: either  *)
(* the latest version lacks something already, and there was a warning on  *)
(* the way to it, or the new one lacks something of the latest.            *)
LEMMA PublishWarns ==
  ASSUME RegistryInv, NEW d \in Documents, Publish(d) PROVE BreakingUpgradesAreWarned'
<1>n. PICK n \in Nat : n = Len(published)
  BY DEF RegistryInv, Stored
<1>1. /\ Stored /\ Stored'
      /\ d.valid
      /\ Len(published') = n + 1 /\ published'[n + 1] = d
      /\ \A i \in 1 .. n : published'[i] = published[i]
      /\ warnings \subseteq warnings'
  BY <1>n, PublishAdds DEF RegistryInv
<1>2. DOMAIN published = 1 .. n /\ DOMAIN published' = 1 .. n + 1
  BY <1>n, <1>1 DEF Stored
<1>3. \A name : \A i \in 1 .. n : i \in Releases(name)' <=> i \in Releases(name)
  BY <1>1, <1>2 DEF Releases
<1>4. \A i \in 1 .. n : Release(i)' = Release(i)
  BY <1>1 DEF Release
<1>5. ASSUME NEW i \in 1 .. n, NEW j \in 1 .. n, i < j,
             {i, j} \subseteq Releases(published[i].name), Ascending(published[i].name, j),
             published[i].version.nums[1] = published[j].version.nums[1],
             ~(Interface(published[i]) \subseteq Interface(published[j]))
      PROVE  Warned(i, j)
  BY <1>2, <1>5 DEF RegistryInv, BreakingUpgradesAreWarned, Ascending, Warned
<1> SUFFICES ASSUME NEW i \in 1 .. n + 1, NEW j \in 1 .. n + 1, i < j,
                    {i, j} \subseteq Releases(published[i].name)', Ascending(published[i].name, j)',
                    published'[i].version.nums[1] = published'[j].version.nums[1],
                    ~(Interface(published'[i]) \subseteq Interface(published'[j]))
             PROVE  \E w \in warnings' : /\ w.name = published'[i].name
                                         /\ Rank(w.from) >= Release(i)' /\ Rank(w.to) <= Release(j)'
  BY <1>2 DEF BreakingUpgradesAreWarned, Ascending
<1>i. i \in 1 .. n /\ published'[i] = published[i]
  BY <1>1
<1>a. PICK name : name = published[i].name
  OBVIOUS
<1>6. i \in Releases(name) /\ i \in Releases(name)' /\ j \in Releases(name)' /\ Ascending(name, j)'
  BY <1>3, <1>i, <1>a
<1>7. ASSUME NEW l \in 1 .. n, l <= j PROVE Ascending(name, l)
  <2> SUFFICES ASSUME NEW k \in Releases(name), NEW m \in Releases(name), m < k, k <= l
               PROVE  Release(m) < Release(k)
    BY DEF Ascending
  <2>1. k \in 1 .. n /\ m \in 1 .. n /\ k <= j
    BY <1>2, <1>7 DEF Releases
  <2>2. k \in Releases(name)' /\ m \in Releases(name)'
    BY <1>3, <2>1
  <2>3. Release(m)' < Release(k)'
    BY <1>6, <2>1, <2>2 DEF Ascending
  <2> QED
    BY <1>4, <2>1, <2>3
<1>8. CASE j \in 1 .. n
  <2>1. published'[j] = published[j] /\ j \in Releases(name) /\ Ascending(name, j)
    BY <1>1, <1>3, <1>6, <1>7, <1>8
  <2>2. Warned(i, j)
    BY <1>5, <1>6, <1>8, <1>i, <1>a, <2>1, Zenon
  <2> QED
    BY <1>1, <1>4, <1>8, <1>i, <2>2 DEF Warned
<1>9. CASE j = n + 1
  <2>1. published'[j] = d /\ d.name = name
    BY <1>1, <1>6, <1>9, Zenon DEF Releases
  <2>2. PICK latest \in latestInTx(name) : warnings' = warnings \cup warnIfBreaking(latest, d)
    BY <1>1, <1>6, <2>1, SomeLatest DEF Publish
  <2>3. PICK l \in Releases(name) : latest = published[l] /\ \A k \in Releases(name) : Release(k) <= Release(l)
    BY <1>1, <2>2, LatestIsARelease
  <2>4. l \in 1 .. n /\ l \in Releases(name)' /\ published[l].name = name
    BY <1>2, <1>3, <2>3, Zenon DEF Releases
  <2>u. PICK u \in Versions : u = parseSemver(published[i].version) /\ u = published[i].version.nums /\ Rank(u) = Release(i)
    <3>1. parseSemver(published[i].version) # None
      BY <1>6, Zenon DEF Releases
    <3> QED
      BY <1>n, <1>1, <1>i, <3>1, ReleasesHaveVersions DEF Release
  <2>v. PICK v \in Versions : /\ v = parseSemver(latest.version) /\ v = latest.version.nums
                              /\ v = parseSemver(published[l].version) /\ Rank(v) = Release(l)
    <3>1. parseSemver(published[l].version) # None
      BY <2>3, Zenon DEF Releases
    <3> QED
      BY <1>n, <1>1, <2>3, <2>4, <3>1, ReleasesHaveVersions, Zenon DEF Release
  <2>w. PICK w \in Versions : w = parseSemver(d.version) /\ w = d.version.nums /\ Rank(w) = Release(j)'
    <3>1. parseSemver(d.version) # None
      BY <1>6, <2>1, Zenon DEF Releases
    <3> QED
      BY <1>1, <2>1, <3>1, ParsedVersions DEF Release
  <2>5. Rank(u) <= Rank(v) /\ Rank(v) < Rank(w) /\ {Rank(u), Rank(v), Rank(w)} \subseteq Nat
    <3>1. l < j /\ j <= j
      BY <1>9, <2>4
    <3>2. Release(l)' < Release(j)'
      BY <1>6, <2>4, <3>1 DEF Ascending
    <3> QED
      BY <1>4, <1>6, <2>3, <2>4, <2>u, <2>v, <2>w, <3>2, LessIsRank, Zenon
  <2>6. u[1] = w[1] /\ v[1] = w[1]
    <3>1. u[1] = w[1]
      BY <1>i, <2>1, <2>u, <2>w
    <3>2. v[1] <= w[1]
      BY <2>5, LessIsRank
    <3>3. u[1] <= v[1]
      <4>1. CASE Rank(u) < Rank(v)
        BY <4>1, LessIsRank
      <4>2. CASE Rank(u) = Rank(v)
        <5>1. ~less(v, u)
          BY <2>5, <4>2, LessIsRank
        <5>2. ~(v[1] < u[1])
          BY <5>1 DEF less
        <5> QED
          BY <5>2 DEF Versions
      <4> QED
        BY <2>5, <4>1, <4>2
    <3> QED
      BY <3>1, <3>2, <3>3 DEF Versions
  <2>7. CASE ~(Interface(latest) \subseteq Interface(d))
    <3>1. detectBreakingChanges(latest, d) # {}
      BY <2>7, BreaksAreDetected
    <3>2. less(v, w) /\ w # None
      BY <1>6, <2>1, <2>5, <2>w, LessIsRank, Zenon DEF Releases
    <3>3. [name |-> name, from |-> v, to |-> w] \in warnings'
      BY <2>1, <2>2, <2>6, <2>v, <2>w, <3>1, <3>2, Zenon DEF warnIfBreaking
    <3> QED
      BY <1>4, <1>i, <1>a, <2>5, <2>u, <2>w, <3>3
  <2>8. CASE Interface(latest) \subseteq Interface(d)
    <3>1. ~(Interface(published[i]) \subseteq Interface(published[l]))
      BY <1>i, <2>1, <2>3, <2>8
    <3>2. i # l
      BY <3>1
    <3>3. ~(l < i)
      <4>1. Ascending(name, i)
        BY <1>7, <1>i
      <4>2. i <= i
        BY <1>i
      <4>3. l < i => Release(l) < Release(i)
        BY <1>6, <2>3, <4>1, <4>2, Zenon DEF Ascending
      <4> QED
        BY <2>5, <2>u, <2>v, <4>3
    <3>4. i < l /\ Ascending(name, l)
      BY <1>7, <1>9, <1>i, <2>4, <3>2, <3>3
    <3>5. Warned(i, l)
      <4>1. published[i].version.nums[1] = published[l].version.nums[1]
        BY <2>3, <2>6, <2>u, <2>v, Zenon
      <4> QED
        BY <1>5, <1>6, <1>i, <1>a, <2>3, <2>4, <3>1, <3>4, <4>1, Zenon
    <3>6. PICK x \in warnings : x.name = name /\ Rank(x.from) >= Release(i) /\ Rank(x.to) <= Release(l)
      BY <1>a, <3>5, Zenon DEF Warned
    <3>7. Rank(x.to) \in Nat
      BY <1>1, LessIsRank, Zenon DEF Stored
    <3>8. Rank(x.to) <= Release(j)' /\ Rank(x.from) >= Release(i)'
      <4>1. Rank(x.to) <= Rank(v) /\ Rank(x.from) >= Release(i)' /\ Rank(w) = Release(j)'
        BY <1>4, <1>i, <2>v, <2>w, <3>6, Zenon
      <4> QED
        BY <2>5, <3>7, <4>1
    <3> QED
      BY <1>1, <1>i, <1>a, <3>6, <3>8, Zenon
  <2> QED
    BY <2>7, <2>8, Zenon
<1> QED
  BY <1>8, <1>9

(* Nothing is published and nothing warned of.                             *)
LEMMA InitRegistryInv == CapabilityInit => RegistryInv
BY DEF CapabilityInit, RegistryInv, Stored, BreakingUpgradesAreWarned

(* Publish keeps the bucket, the history and the warnings in agreement.    *)
LEMMA NextRegistryInv == RegistryInv /\ [CapabilityNext]_capabilityVars => RegistryInv'
<1> SUFFICES ASSUME RegistryInv, [CapabilityNext]_capabilityVars PROVE RegistryInv'
  OBVIOUS
<1>1. ASSUME NEW d \in Documents, Publish(d) PROVE RegistryInv'
  BY <1>1, PublishAdds, PublishWarns, Zenon DEF RegistryInv
<1>2. CASE UNCHANGED capabilityVars
  <2>1. schemas' = schemas /\ warnings' = warnings /\ published' = published
    BY <1>2 DEF capabilityVars
  <2>2. Stored'
    BY <2>1 DEF RegistryInv, Stored
  <2>3. BreakingUpgradesAreWarned'
    <3>1. \A name : Releases(name)' = Releases(name)
      BY <2>1 DEF Releases
    <3>2. \A i : Release(i)' = Release(i)
      BY <2>1 DEF Release
    <3> QED
      BY <2>1, <3>1, <3>2 DEF RegistryInv, BreakingUpgradesAreWarned
  <2> QED
    BY <2>2, <2>3 DEF RegistryInv
<1> QED
  BY <1>1, <1>2 DEF CapabilityNext, PublishSchema

(* Publish warns of every upgrade that takes something from clients, for   *)
(* any number of releases, although it looks at the latest only            *)
(* (warnIfBreaking, latestInTx, semver.less).                              *)
THEOREM UpgradesAreWarned == CapabilitySpec => []BreakingUpgradesAreWarned
<1>1. RegistryInv => BreakingUpgradesAreWarned
  BY DEF RegistryInv
<1> QED
  BY <1>1, InitRegistryInv, NextRegistryInv, PTL DEF CapabilitySpec

(* A published schema stays what it is, whoever publishes what after it    *)
(* (BboltRegistry.Publish).                                                *)
THEOREM SchemasAreImmutable == CapabilitySpec => PublishedSchemasAreImmutable
<1>1. RegistryInv /\ [CapabilityNext]_capabilityVars => [\A k \in DOMAIN schemas : Get(k)' = Get(k)]_capabilityVars
  <2> SUFFICES ASSUME RegistryInv, CapabilityNext PROVE \A k \in DOMAIN schemas : Get(k)' = Get(k)
    OBVIOUS
  <2>1. ASSUME NEW d \in Documents, Publish(d) PROVE \A k \in DOMAIN schemas : Get(k)' = Get(k)
    BY <2>1, PublishAdds DEF RegistryInv
  <2>2. UNCHANGED capabilityVars => \A k \in DOMAIN schemas : Get(k)' = Get(k)
    BY DEF capabilityVars, Get
  <2> QED
    BY <2>1, <2>2 DEF CapabilityNext, PublishSchema
<1> QED
  BY <1>1, InitRegistryInv, NextRegistryInv, PTL DEF CapabilitySpec, PublishedSchemasAreImmutable
-----------------------------------------------------------------------------
(* Induction over an interval, for a set instead of a predicate.           *)
LEMMA Induction ==
  ASSUME NEW n \in Nat, NEW S, 0 \in S, \A k \in 0 .. n - 1 : k \in S => k + 1 \in S
  PROVE  0 .. n \subseteq S
<1> SUFFICES ASSUME ~(0 .. n \subseteq S) PROVE FALSE
  OBVIOUS
<1>t. PICK T : T = {k \in 0 .. n : k \notin S}
  BY Zenon
<1>1. T \subseteq Nat /\ T # {}
  BY <1>t
<1>2. PICK i \in T : \A j \in T : i <= j
  BY <1>1, LeastElement, Zenon
<1>3. i \in 0 .. n /\ i \notin S /\ i # 0
  BY <1>t
<1>4. i - 1 \in 0 .. n - 1 /\ i - 1 \in 0 .. n /\ ~(i <= i - 1) /\ (i - 1) + 1 = i
  BY <1>3
<1>5. i - 1 \in S
  BY <1>t, <1>2, <1>4
<1> QED
  BY <1>3, <1>4, <1>5
-----------------------------------------------------------------------------
(* Turns satisfies the equation it is defined by: the function exists.     *)
LEMMA TurnsDef ==
  ASSUME NEW s, NEW t, NEW n \in Nat
  PROVE  /\ Turns(s, t, n)[0] = Unresolved(t)
         /\ \A k \in 0 .. n - 1 : Turns(s, t, n)[k + 1] = FollowRef(s, Turns(s, t, n)[k])
<1>f. PICK turn : turn = Turns(s, t, n)
  OBVIOUS
<1>e. \E g : g = [k \in 0 .. n |-> IF k = 0 THEN Unresolved(t) ELSE FollowRef(s, g[k - 1])]
  <2>s. PICK S : S = {m \in 0 .. n :
                         \E f : f = [k \in 0 .. m |-> IF k = 0 THEN Unresolved(t) ELSE FollowRef(s, f[k - 1])]}
    BY Zenon
  <2>1. 0 \in S
    <3>f. PICK f : f = [k \in 0 .. 0 |-> Unresolved(t)]
      BY Zenon
    <3>1. f = [k \in 0 .. 0 |-> IF k = 0 THEN Unresolved(t) ELSE FollowRef(s, f[k - 1])]
      BY <3>f
    <3> QED
      BY <2>s, <3>1
  <2>2. ASSUME NEW m \in 0 .. n - 1, m \in S PROVE m + 1 \in S
    <3>f. PICK f : f = [k \in 0 .. m |-> IF k = 0 THEN Unresolved(t) ELSE FollowRef(s, f[k - 1])]
      BY <2>s, <2>2
    <3>g. PICK g : g = [k \in 0 .. m + 1 |-> IF k = m + 1 THEN FollowRef(s, f[m]) ELSE f[k]]
      BY Zenon
    <3>1. ASSUME NEW k \in 0 .. m + 1
          PROVE  g[k] = IF k = 0 THEN Unresolved(t) ELSE FollowRef(s, g[k - 1])
      <4>1. CASE k = m + 1
        BY <3>g, <4>1
      <4>2. CASE k = 0
        BY <3>f, <3>g, <4>2
      <4>3. CASE k \in 1 .. m
        <5>1. f[k] = FollowRef(s, f[k - 1])
          BY <3>f, <4>3
        <5>2. g[k] = f[k] /\ g[k - 1] = f[k - 1]
          BY <3>g, <4>3
        <5> QED
          BY <4>3, <5>1, <5>2
      <4> QED
        BY <4>1, <4>2, <4>3
    <3>2. g = [k \in 0 .. m + 1 |-> IF k = 0 THEN Unresolved(t) ELSE FollowRef(s, g[k - 1])]
      BY <3>g, <3>1, Zenon
    <3> QED
      BY <2>s, <3>2
  <2>3. n \in S
    BY <2>1, <2>2, Induction
  <2> QED
    BY <2>s, <2>3
<1>1. turn = [k \in 0 .. n |-> IF k = 0 THEN Unresolved(t) ELSE FollowRef(s, turn[k - 1])]
  BY <1>f, <1>e, Zenon DEF Turns
<1>2. turn[0] = Unresolved(t)
  BY <1>1
<1>3. ASSUME NEW k \in 0 .. n - 1 PROVE turn[k + 1] = FollowRef(s, turn[k])
  <2>1. k + 1 \in 0 .. n /\ k + 1 # 0 /\ (k + 1) - 1 = k
    OBVIOUS
  <2>2. turn[k + 1] = FollowRef(s, turn[(k + 1) - 1])
    BY <1>1, <2>1
  <2> QED
    BY <2>1, <2>2
<1> QED
  BY <1>f, <1>2, <1>3
-----------------------------------------------------------------------------
(* What the meta-schema and Parse say of a schema's definitions.           *)
Definitions(s) ==
    /\ IsFiniteSet(DOMAIN s.definitions) /\ None \notin DOMAIN s.definitions
    /\ \A x \in DOMAIN s.definitions : TypeDef(s.definitions[x])

(* Where ResolveType's loop can be: it has not begun; at the definition n; *)
(* or it has met a reference without a definition, or one it has seen.     *)
Begins(s, t, c) == c.seen = {} /\ c.type = t
GoesOn(s, t, c) ==
    \E n \in c.seen : /\ c.type = s.definitions[n] /\ t.Ref \in c.seen
                      /\ \A x \in c.seen \ {n} : s.definitions[x].Ref \in c.seen
Fails(s, t, c) ==
    /\ c.type = None /\ t.Ref # None
    /\ t.Ref \in DOMAIN s.definitions => t.Ref \in c.seen
    /\ Closed(s, c.seen) /\ \A x \in c.seen : s.definitions[x].Ref # None

(* The invariant of the loop after k turns.                                *)
LoopInv(s, t, c, k) ==
    /\ c = [type |-> c.type, seen |-> c.seen]
    /\ c.seen \subseteq DOMAIN s.definitions
    /\ c.seen \subseteq LeadsTo(s, t.Ref)
    /\ Begins(s, t, c) \/ GoesOn(s, t, c) \/ Fails(s, t, c)
    /\ c.type # None /\ c.type.Ref # None => Cardinality(c.seen) = k

(* A definition leads to itself, and to whatever it refers to.             *)
LEMMA LeadsOn ==
  ASSUME NEW s, NEW n \in DOMAIN s.definitions
  PROVE  /\ n \in LeadsTo(s, n)
         /\ \A m \in LeadsTo(s, n) : s.definitions[m].Ref \in DOMAIN s.definitions
                                     => s.definitions[m].Ref \in LeadsTo(s, n)
         /\ \A R \in SUBSET DOMAIN s.definitions : n \in R /\ Closed(s, R) => LeadsTo(s, n) \subseteq R
  BY DEF LeadsTo, Closed

(* A turn of the loop keeps the invariant.                                 *)
LEMMA TurnKeepsInv ==
  ASSUME NEW s, Definitions(s), NEW t, t # None, NEW c, NEW k \in Nat, LoopInv(s, t, c, k)
  PROVE  LoopInv(s, t, FollowRef(s, c), k + 1)
<1>1. CASE c.type = None \/ c.type.Ref = None
  BY <1>1 DEF FollowRef, LoopInv
<1>2. CASE /\ c.type # None /\ c.type.Ref # None
           /\ c.type.Ref \in c.seen \/ c.type.Ref \notin DOMAIN s.definitions
  <2>d. PICK d : d = FollowRef(s, c)
    OBVIOUS
  <2>1. d = [type |-> None, seen |-> c.seen]
    BY <1>2, <2>d DEF FollowRef, LoopInv
  <2>2. d.type = None /\ d.seen = c.seen
    BY <2>1
  <2>3. Fails(s, t, d)
    <3>1. CASE Begins(s, t, c)
      BY <1>2, <2>2, <3>1 DEF Begins, Fails, Closed
    <3>2. CASE GoesOn(s, t, c)
      <4>1. PICK n \in c.seen : /\ c.type = s.definitions[n] /\ t.Ref \in c.seen
                                /\ \A x \in c.seen \ {n} : s.definitions[x].Ref \in c.seen
        BY <3>2 DEF GoesOn
      <4>2. None \notin c.seen
        BY DEF LoopInv, Definitions
      <4>3. \A x \in c.seen : /\ s.definitions[x].Ref # None
                              /\ s.definitions[x].Ref \in DOMAIN s.definitions
                                 => s.definitions[x].Ref \in c.seen
        BY <1>2, <4>1, <4>2
      <4> QED
        BY <2>2, <4>1, <4>2, <4>3 DEF Fails, Closed
    <3>3. CASE Fails(s, t, c)
      BY <1>2, <3>3 DEF Fails
    <3> QED
      BY <3>1, <3>2, <3>3 DEF LoopInv
  <2> QED
    BY <2>1, <2>2, <2>3, <2>d DEF LoopInv
<1>3. CASE /\ c.type # None /\ c.type.Ref # None
           /\ c.type.Ref \notin c.seen /\ c.type.Ref \in DOMAIN s.definitions
  <2>d. PICK d : d = FollowRef(s, c)
    OBVIOUS
  <2>r. PICK r \in DOMAIN s.definitions : r = c.type.Ref
    BY <1>3
  <2>1. d = [type |-> s.definitions[r], seen |-> c.seen \cup {r}]
    BY <1>3, <2>d, <2>r DEF FollowRef
  <2>2. d.type = s.definitions[r] /\ d.seen = c.seen \cup {r}
    BY <2>1
  <2>3. r \in LeadsTo(s, t.Ref) /\ GoesOn(s, t, d)
    <3>1. CASE Begins(s, t, c)
      BY <2>2, <2>r, <3>1, LeadsOn DEF Begins, GoesOn
    <3>2. CASE GoesOn(s, t, c)
      <4>1. PICK n \in c.seen : /\ c.type = s.definitions[n] /\ t.Ref \in c.seen
                                /\ \A x \in c.seen \ {n} : s.definitions[x].Ref \in c.seen
        BY <3>2 DEF GoesOn
      <4>2. r \in LeadsTo(s, t.Ref)
        BY <2>r, <4>1, LeadsOn DEF LoopInv
      <4>3. \A x \in d.seen \ {r} : s.definitions[x].Ref \in d.seen
        BY <2>2, <2>r, <4>1
      <4> QED
        BY <2>2, <4>1, <4>2, <4>3 DEF GoesOn
    <3>3. CASE Fails(s, t, c)
      BY <1>3, <3>3 DEF Fails
    <3> QED
      BY <3>1, <3>2, <3>3 DEF LoopInv
  <2>4. Cardinality(d.seen) = k + 1
    <3>1. IsFiniteSet(c.seen)
      BY FS_Subset DEF LoopInv, Definitions
    <3>2. Cardinality(c.seen) = k /\ r \notin c.seen
      BY <1>3, <2>r DEF LoopInv
    <3> QED
      BY <2>2, <3>1, <3>2, FS_AddElement, Zenon
  <2>5. d.seen \subseteq DOMAIN s.definitions /\ d.seen \subseteq LeadsTo(s, t.Ref)
    BY <2>2, <2>3 DEF LoopInv
  <2>6. d = [type |-> d.type, seen |-> d.seen]
    BY <2>1
  <2> QED
    BY <2>3, <2>4, <2>5, <2>6, <2>d DEF LoopInv
<1> QED
  BY <1>1, <1>2, <1>3

(* When the loop is over, the type that is left is what references lead to.*)
LEMMA LoopFindsTarget ==
  ASSUME NEW s, Definitions(s), NEW t, t # None, NEW c, NEW k, LoopInv(s, t, c, k),
         c.type = None \/ c.type.Ref = None
  PROVE  /\ Targets(s, t) = {x \in {c.type} : x # None /\ x.Type \in TypeNames}
         /\ c.type \in {None, t} \cup {s.definitions[n] : n \in DOMAIN s.definitions}
<1>n. None \notin DOMAIN s.definitions
  BY DEF Definitions
<1>1. CASE Begins(s, t, c)
  <2>1. c.type = t /\ t.Ref = None /\ t.Ref \notin DOMAIN s.definitions
    BY <1>1, <1>n DEF Begins
  <2> QED
    BY <2>1 DEF Targets
<1>2. CASE GoesOn(s, t, c) /\ c.type # None
  <2>1. PICK n \in c.seen : /\ c.type = s.definitions[n] /\ t.Ref \in c.seen
                            /\ \A x \in c.seen \ {n} : s.definitions[x].Ref \in c.seen
    BY <1>2 DEF GoesOn
  <2>2. c.seen \subseteq DOMAIN s.definitions /\ c.seen \subseteq LeadsTo(s, t.Ref)
    BY DEF LoopInv
  <2>3. s.definitions[n].Ref = None /\ Closed(s, c.seen)
    BY <1>2, <1>n, <2>1, <2>2 DEF Closed
  <2>4. LeadsTo(s, t.Ref) = c.seen /\ t.Ref \in DOMAIN s.definitions
    BY <2>1, <2>2, <2>3, LeadsOn, Zenon
  <2>5. \A x \in LeadsTo(s, t.Ref) : s.definitions[x].Ref = None => x = n
    BY <1>n, <2>1, <2>2, <2>4
  <2>6. Targets(s, t) = {x \in {s.definitions[m] : m \in LeadsTo(s, t.Ref)} : x.Ref = None /\ x.Type \in TypeNames}
    BY <2>4 DEF Targets
  <2>7. Targets(s, t) = {x \in {c.type} : x # None /\ x.Type \in TypeNames}
    BY <1>2, <2>1, <2>3, <2>4, <2>5, <2>6
  <2> QED
    BY <2>1, <2>2, <2>7
<1>3. CASE Fails(s, t, c)
  <2>1. CASE t.Ref \in DOMAIN s.definitions
    <3>1. c.seen \in SUBSET DOMAIN s.definitions /\ t.Ref \in c.seen /\ Closed(s, c.seen)
      BY <1>3, <2>1 DEF LoopInv, Fails
    <3>2. LeadsTo(s, t.Ref) \subseteq c.seen
      BY <2>1, <3>1, LeadsOn
    <3>3. \A x \in LeadsTo(s, t.Ref) : s.definitions[x].Ref # None
      BY <1>3, <3>2 DEF Fails
    <3> QED
      BY <1>3, <2>1, <3>3 DEF Targets, Fails
  <2>2. CASE t.Ref \notin DOMAIN s.definitions
    BY <1>3, <2>2 DEF Targets, Fails
  <2> QED
    BY <2>1, <2>2
<1>4. CASE GoesOn(s, t, c) /\ c.type = None
  BY <1>4, Zenon DEF GoesOn, Definitions, TypeDef, LoopInv
<1> QED
  BY <1>1, <1>2, <1>3, <1>4 DEF LoopInv

(* ResolveType ends, and finds the type that references lead to, if there  *)
(* is one: its loop has room for every definition.                         *)
LEMMA ResolveFindsTarget ==
  ASSUME NEW s, Definitions(s), NEW t, t # None
  PROVE  /\ Targets(s, t) = {x \in {ResolveType(s, t)} : x # None /\ x.Type \in TypeNames}
         /\ ResolveType(s, t) \in {None, t} \cup {s.definitions[n] : n \in DOMAIN s.definitions}
<1>n. PICK n \in Nat : n = Cardinality(DOMAIN s.definitions)
  BY FS_CardinalityType DEF Definitions
<1>f. PICK f : f = Turns(s, t, n + 1)
  OBVIOUS
<1>1. n + 1 \in Nat /\ f[0] = Unresolved(t)
      /\ \A k \in 0 .. (n + 1) - 1 : f[k + 1] = FollowRef(s, f[k])
  BY <1>f, TurnsDef
<1>2. LoopInv(s, t, f[0], 0)
  <2>1. f[0].type = t /\ f[0].seen = {}
    BY <1>1 DEF Unresolved
  <2> QED
    BY <1>1, <2>1, FS_EmptySet DEF LoopInv, Begins, Unresolved
<1>s. PICK S : S = {k \in 0 .. n + 1 : LoopInv(s, t, f[k], k)}
  BY Zenon
<1>3. ASSUME NEW k \in 0 .. (n + 1) - 1, k \in S PROVE k + 1 \in S
  <2>1. LoopInv(s, t, f[k], k) /\ k \in Nat /\ k + 1 \in 0 .. n + 1
    BY <1>s, <1>3
  <2>2. LoopInv(s, t, FollowRef(s, f[k]), k + 1)
    BY <2>1, TurnKeepsInv
  <2> QED
    BY <1>1, <1>s, <2>1, <2>2
<1>4. 0 .. n + 1 \subseteq S
  <2>1. 0 \in S
    BY <1>s, <1>2
  <2> QED
    BY <1>1, <1>3, <2>1, Induction
<1>c. PICK c : c = f[n + 1]
  OBVIOUS
<1>5. LoopInv(s, t, c, n + 1)
  BY <1>c, <1>s, <1>4
<1>6. c.type = None \/ c.type.Ref = None
  <2>1. c.seen \subseteq DOMAIN s.definitions
    BY <1>5 DEF LoopInv
  <2>2. Cardinality(c.seen) <= n
    BY <1>n, <2>1, FS_Subset DEF Definitions
  <2>3. Cardinality(c.seen) # n + 1
    BY <2>1, <2>2, FS_Subset, FS_CardinalityType DEF Definitions
  <2> QED
    BY <1>5, <2>3 DEF LoopInv
<1>7. ResolveType(s, t) = c.type
  BY <1>n, <1>f, <1>c DEF ResolveType
<1> QED
  BY <1>5, <1>6, <1>7, LoopFindsTarget

(* A conversion to float64 takes no int out of the range of a type.        *)
LEMMA RoundingStaysInRange ==
  ASSUME NEW t, TypeDef(t), FloatBounds(t), NEW n \in Ints, n \in Above(t) .. Below(t)
  PROVE  Float64[n] \in Above(t) .. Below(t)
<1>1. MaxInt \in Nat /\ t.Min \in Int \cup {None} /\ t.Max \in Int \cup {None}
  BY CapabilityAssumption DEF TypeDef
<1>2. Float64[n] \in -MaxInt - 1 .. MaxInt + 1
  BY FloatAssumption
<1>3. Float64[n] >= Above(t)
  <2>1. CASE t.Min = None \/ t.Min \notin Ints
    BY <1>1, <1>2, <2>1 DEF Above, Below, Ints
  <2>2. CASE t.Min # None /\ t.Min \in Ints
    <3>1. Float64[t.Min] = t.Min
      BY <2>2, Zenon DEF FloatBounds
    <3>2. t.Min <= n
      BY <1>1, <2>2 DEF Above, Below
    <3>3. Float64[t.Min] <= Float64[n]
      BY <2>2, <3>2, FloatAssumption, Zenon
    <3> QED
      BY <1>2, <2>2, <3>1, <3>3 DEF Above
  <2> QED
    BY <2>1, <2>2
<1>4. Float64[n] <= Below(t)
  <2>1. CASE t.Max = None \/ t.Max \notin Ints
    BY <1>1, <1>2, <2>1 DEF Above, Below, Ints
  <2>2. CASE t.Max # None /\ t.Max \in Ints
    <3>1. Float64[t.Max] = t.Max
      BY <2>2, Zenon DEF FloatBounds
    <3>2. n <= t.Max
      BY <1>1, <2>2 DEF Above, Below
    <3>3. Float64[n] <= Float64[t.Max]
      BY <2>2, <3>2, FloatAssumption, Zenon
    <3> QED
      BY <1>2, <2>2, <3>1, <3>3 DEF Below
  <2> QED
    BY <2>1, <2>2
<1> QED
  BY <1>1, <1>2, <1>3, <1>4 DEF Above, Below

(* What checkRange makes of a number.                                      *)
LEMMA RangeIsInterval ==
  ASSUME NEW t, TypeDef(t), NEW x \in -MaxInt - 1 .. MaxInt + 1
  PROVE  checkRange(t, x) <=> x \in Above(t) .. Below(t)
<1>1. MaxInt \in Nat /\ t.Min \in Int \cup {None} /\ t.Max \in Int \cup {None}
  BY CapabilityAssumption DEF TypeDef
<1>2. x # NaN
  BY <1>1, FloatAssumption
<1> QED
  BY <1>1, <1>2 DEF checkRange, Above, Below

(* The checks of validateValue are the values of the type, and those that  *)
(* float64 does not tell from them.                                        *)
LEMMA ConformsIsDomain ==
  ASSUME NEW t, TypeDef(t), FloatBounds(t), t.Type \in TypeNames, NEW v \in Values
  PROVE  Conforms(t, v) <=> v \in Domain(t) \cup Blurred(t)
<1>v. /\ v = [kind |-> v.kind, val |-> v.val]
      /\ v.kind = "int" => v.val \in Ints
      /\ v.kind = "float" => v.val \in Ints \cup {NaN}
  BY ValuesAssumption
<1>m. MaxInt \in Nat
  BY CapabilityAssumption
<1>0. CASE t.Type = "int"
  <2>1. /\ Domain(t) = {[kind |-> "int", val |-> n] : n \in Above(t) .. Below(t)}
        /\ Blurred(t) = {[kind |-> "int", val |-> n] :
                           n \in {x \in Ints : Float64[x] # x /\ Float64[x] \in Above(t) .. Below(t)}}
    BY <1>0 DEF Domain, Blurred
  <2>2. Conforms(t, v) <=> v.kind = "int" /\ checkRange(t, Float64[v.val])
    BY <1>0 DEF Conforms
  <2>3. v \in Domain(t) <=> v.kind = "int" /\ v.val \in Above(t) .. Below(t)
    BY <1>v, <2>1
  <2>4. v \in Blurred(t) <=> /\ v.kind = "int" /\ v.val \in Ints
                             /\ Float64[v.val] # v.val /\ Float64[v.val] \in Above(t) .. Below(t)
    BY <1>v, <2>1
  <2>5. ASSUME v.kind = "int"
        PROVE  /\ checkRange(t, Float64[v.val]) <=> Float64[v.val] \in Above(t) .. Below(t)
               /\ v.val \in Above(t) .. Below(t) => Float64[v.val] \in Above(t) .. Below(t)
    <3>1. v.val \in Ints /\ Float64[v.val] \in -MaxInt - 1 .. MaxInt + 1
      BY <1>v, <2>5, FloatAssumption
    <3> QED
      BY <3>1, RangeIsInterval, RoundingStaysInRange
  <2>6. CASE v.kind # "int"
    BY <2>2, <2>3, <2>4, <2>6
  <2>7. CASE v.kind = "int"
    <3>1. CASE Float64[v.val] = v.val
      BY <2>2, <2>3, <2>4, <2>5, <2>7, <3>1
    <3>2. CASE Float64[v.val] # v.val
      BY <1>v, <2>2, <2>3, <2>4, <2>5, <2>7, <3>2
    <3> QED
      BY <3>1, <3>2
  <2> QED
    BY <2>6, <2>7
<1>1. CASE t.Type = "float"
  <2>1. /\ Domain(t) = {[kind |-> "float", val |-> n] : n \in Above(t) .. Below(t)}
        /\ Blurred(t) = {[kind |-> "float", val |-> NaN]}
    BY <1>1 DEF Domain, Blurred
  <2>2. Conforms(t, v) <=> v.kind = "float" /\ checkRange(t, v.val)
    BY <1>1 DEF Conforms
  <2>3. v \in Domain(t) <=> v.kind = "float" /\ v.val \in Above(t) .. Below(t)
    BY <1>v, <2>1
  <2>4. v \in Blurred(t) <=> v.kind = "float" /\ v.val = NaN
    BY <1>v, <2>1
  <2>5. CASE v.kind # "float"
    BY <2>2, <2>3, <2>4, <2>5
  <2>6. CASE v.kind = "float" /\ v.val = NaN
    <3>1. checkRange(t, v.val)
      BY <2>6 DEF checkRange
    <3> QED
      BY <2>2, <2>4, <2>6, <3>1
  <2>7. CASE v.kind = "float" /\ v.val # NaN
    <3>1. v.val \in -MaxInt - 1 .. MaxInt + 1
      BY <1>v, <1>m, <2>7 DEF Ints
    <3>2. checkRange(t, v.val) <=> v.val \in Above(t) .. Below(t)
      BY <3>1, RangeIsInterval
    <3> QED
      BY <2>2, <2>3, <2>4, <2>7, <3>2
  <2> QED
    BY <2>5, <2>6, <2>7
<1>2. CASE t.Type = "enum"
  <2>1. Domain(t) = {[kind |-> "string", val |-> x] : x \in t.Values}
    BY <1>2 DEF Domain
  <2>2. v \in Domain(t) <=> v.kind = "string" /\ v.val \in t.Values
    BY <1>v, <2>1
  <2>3. Blurred(t) = {}
    BY <1>2 DEF Blurred
  <2> QED
    BY <1>2, <2>2, <2>3 DEF Conforms
<1>3. CASE t.Type \in {"array", "object"}
  BY <1>3 DEF Conforms, Domain
<1>4. CASE t.Type \in {"bool", "string", "bytes"}
  <2>1. Domain(t) = {x \in Values : x.kind = t.Type} /\ Blurred(t) = {}
    BY <1>4 DEF Domain, Blurred
  <2> QED
    BY <1>4, <2>1 DEF Conforms
<1> QED
  BY <1>0, <1>1, <1>2, <1>3, <1>4 DEF TypeNames

(* ValidateProperty is exact for every document the meta-schema accepts.   *)
LEMMA ValidateIsExact ==
  \A s \in Documents, path \in Paths, v \in Values :
    s.valid =>
      LET types == IF path \in DOMAIN s.properties THEN Targets(s, s.properties[path]) ELSE {}
      IN  ValidateProperty(s, path, v) =
            IF path \notin DOMAIN s.properties THEN "NotFound"
            ELSE IF types = {} THEN "Internal"
            ELSE IF \E t \in types : v \in Domain(t) \cup Blurred(t) THEN "OK" ELSE "InvalidArgument"
<1> SUFFICES ASSUME NEW s \in Documents, s.valid, NEW path \in DOMAIN s.properties, NEW v \in Values
             PROVE  ValidateProperty(s, path, v) =
                      IF Targets(s, s.properties[path]) = {} THEN "Internal"
                      ELSE IF \E t \in Targets(s, s.properties[path]) : v \in Domain(t) \cup Blurred(t) THEN "OK"
                      ELSE "InvalidArgument"
  BY DEF ValidateProperty
<1>1. /\ Definitions(s)
      /\ TypeDef(s.properties[path])
  BY CapabilityAssumption DEF Schema, Definitions
<1>r. PICK r : r = ResolveType(s, s.properties[path])
  OBVIOUS
<1>2. /\ Targets(s, s.properties[path]) = {x \in {r} : x # None /\ x.Type \in TypeNames}
      /\ r \in {None, s.properties[path]} \cup {s.definitions[n] : n \in DOMAIN s.definitions}
  BY <1>1, <1>r, ResolveFindsTarget DEF TypeDef
<1>3. ValidateProperty(s, path, v) = IF r = None THEN "Internal" ELSE validateValue(r, v)
  BY <1>r DEF ValidateProperty
<1>4. CASE r = None \/ r.Type \notin TypeNames
  BY <1>2, <1>3, <1>4 DEF validateValue
<1>6. r # None => FloatBounds(r)
  BY <1>2, FloatAssumption DEF FloatBounds
<1>5. CASE r # None /\ r.Type \in TypeNames
  <2>1. TypeDef(r)
    BY <1>1, <1>2, <1>5 DEF Definitions
  <2>2. Conforms(r, v) <=> v \in Domain(r) \cup Blurred(r)
    BY <1>5, <1>6, <2>1, ConformsIsDomain
  <2>3. Targets(s, s.properties[path]) = {r}
    BY <1>2, <1>5
  <2> QED
    BY <1>3, <1>5, <2>2, <2>3 DEF validateValue
<1> QED
  BY <1>4, <1>5

(* Whatever schemas are published, and however their types refer to each   *)
(* other, in circles or to nothing: ValidateProperty accepts the values of *)
(* the type that the references lead to, and no others but NaN and ints    *)
(* that the conversion to float64 rounds into the range.                   *)
THEOREM ValidationAcceptsTheDomain == CapabilitySpec => []ValidationIsExact
<1>1. ASSUME RegistryInv PROVE ValidationIsExact
  <2>1. \A k \in DOMAIN schemas : Get(k) \in Documents /\ Get(k).valid
    BY <1>1 DEF RegistryInv, Stored, Get
  <2> QED
    BY <2>1, ValidateIsExact, Zenon DEF ValidationIsExact
<1> QED
  BY <1>1, InitRegistryInv, NextRegistryInv, PTL DEF CapabilitySpec
-----------------------------------------------------------------------------
(* From here on, presence and the SDK device.                              *)

(* What Sweep still has to write, it listed for a reason that stands,      *)
(* unless the record was written since.                                    *)
ListedInv == \A d \in DOMAIN todo : d \in Overdue \/ d \in behind

IInv == PresenceTypeOK /\ ListedInv

(* A count of online devices fits the gauge's range.                       *)
LEMMA OnlineIsBounded ==
  Cardinality(Online) \in 0 .. Cardinality(DeviceIDs) /\ Cardinality(DeviceIDs) \in Nat
<1>1. Online \subseteq DeviceIDs
  BY DEF Online
<1> QED
  BY <1>1, PresenceAssumption, FS_Subset, FS_CardinalityType

(* An empty registry satisfies the invariant.                              *)
LEMMA InitIInv == PresenceInit => IInv
  BY PresenceAssumption, OnlineIsBounded
     DEF PresenceInit, IInv, PresenceTypeOK, ListedInv, Labels, Processes

(* What a write to the record of d may do to the registry, and that it     *)
(* leaves what Sweep listed of other devices in force.                     *)
LEMMA UpdateStatusKeepsIInv ==
  ASSUME IInv, NEW d \in DeviceIDs, NEW s \in {"Online", "Offline"}, NEW a \in 0 .. timeout,
         UpdateStatus(d, s, a)
  PROVE  /\ status' \in [DeviceIDs -> {"absent", "Unknown", "Online", "Offline"}]
         /\ age' \in [DeviceIDs -> 0 .. timeout]
         /\ \A e \in DeviceIDs \ {d} : status'[e] = status[e] /\ age'[e] = age[e]
         /\ status[d] = "absent" => status'[d] = "absent"
         /\ s = "Online" /\ status[d] # "Offline" => status'[d] # "Offline"
  BY PresenceAssumption DEF IInv, PresenceTypeOK, UpdateStatus, registryVars

(* A deleted device comes back only as unknown, and Sweep declares only    *)
(* silent devices offline, or ones it was overtaken on.                    *)
Comeback == \A e \in DeviceIDs :
    status[e] = "absent" /\ status'[e] # "absent" => status'[e] = "Unknown"
Declared == \A e \in DeviceIDs :
    status[e] # "Offline" /\ status'[e] = "Offline" => e \in Overdue \/ e \in behind

(* A write to the record of d by anyone but Sweep.                         *)
LEMMA OvertakingStep ==
  ASSUME IInv, NEW d \in DeviceIDs, Overtake(d), UNCHANGED todo,
         \A e \in DeviceIDs \ {d} : status'[e] = status[e] /\ age'[e] = age[e]
  PROVE  ListedInv' /\ behind' \subseteq DOMAIN todo'
  BY DEF IInv, PresenceTypeOK, ListedInv, Overtake, Overdue, Online

(* A step that leaves the registry and Sweep's snapshot alone.             *)
LEMMA OtherwiseStep ==
  ASSUME IInv, UNCHANGED <<registryVars, snapshotVars>>
  PROVE  ListedInv' /\ Comeback /\ Declared
  BY DEF IInv, ListedInv, Comeback, Declared, Overdue, Online, registryVars, snapshotVars

(* Every step keeps the types and the reasons of Sweep.                    *)
LEMMA NextIInv ==
  ASSUME IInv, [PresenceNext]_presenceVars
  PROVE  IInv' /\ Comeback /\ Declared
<1> USE PresenceAssumption DEF Goto, Labels, Processes
<1>1. ASSUME NEW d \in DeviceIDs, SetProperty(d) PROVE IInv' /\ Comeback /\ Declared
  <2>1. /\ UpdateStatus(d, "Online", 0) /\ Overtake(d)
        /\ UNCHANGED <<processVars, gauge, restarts>>
    BY <1>1 DEF SetProperty
  <2>2. /\ status' \in [DeviceIDs -> {"absent", "Unknown", "Online", "Offline"}]
        /\ age' \in [DeviceIDs -> 0 .. timeout]
        /\ \A e \in DeviceIDs \ {d} : status'[e] = status[e] /\ age'[e] = age[e]
        /\ Comeback /\ Declared
    BY <2>1, UpdateStatusKeepsIInv DEF Comeback, Declared
  <2>3. ListedInv' /\ behind' \subseteq DOMAIN todo'
    BY <2>1, <2>2, OvertakingStep DEF processVars
  <2> QED
    BY <2>1, <2>2, <2>3 DEF IInv, PresenceTypeOK, processVars
<1>2. ASSUME NEW p \in Touchers, NEW d \in DeviceIDs, TouchGet(p, d)
      PROVE  IInv' /\ Comeback /\ Declared
  <2>1. ListedInv' /\ Comeback /\ Declared
    BY <1>2, OtherwiseStep DEF TouchGet
  <2> QED
    BY <1>2, <2>1 DEF IInv, PresenceTypeOK, TouchGet, registryVars, snapshotVars
<1>3. ASSUME NEW p \in Touchers, NEW d \in DeviceIDs, RegisterDevice(p, d)
      PROVE  IInv' /\ Comeback /\ Declared
  <2>1. \A e \in DeviceIDs \ {d} : status'[e] = status[e] /\ age'[e] = age[e]
    BY <1>3 DEF IInv, PresenceTypeOK, RegisterDevice
  <2>2. ListedInv' /\ behind' \subseteq DOMAIN todo'
    BY <1>3, <2>1, OvertakingStep DEF RegisterDevice
  <2>3. Comeback /\ Declared
    BY <1>3, <2>1 DEF IInv, PresenceTypeOK, RegisterDevice, Comeback, Declared
  <2> QED
    BY <1>3, <2>2, <2>3 DEF IInv, PresenceTypeOK, RegisterDevice
<1>4. ASSUME NEW d \in DeviceIDs, DeleteDevice(d) PROVE IInv' /\ Comeback /\ Declared
  <2>1. \A e \in DeviceIDs \ {d} : status'[e] = status[e] /\ age'[e] = age[e]
    BY <1>4 DEF IInv, PresenceTypeOK, DeleteDevice
  <2>2. ListedInv' /\ behind' \subseteq DOMAIN todo'
    BY <1>4, <2>1, OvertakingStep DEF DeleteDevice, processVars
  <2>3. Comeback /\ Declared
    BY <1>4, <2>1 DEF IInv, PresenceTypeOK, DeleteDevice, Comeback, Declared
  <2> QED
    BY <1>4, <2>2, <2>3 DEF IInv, PresenceTypeOK, DeleteDevice, processVars
<1>5. ASSUME NEW p \in Touchers, TouchUpdate(p) PROVE IInv' /\ Comeback /\ Declared
  <2>1. touched[p] \in DeviceIDs /\ lag[p] \in 0 .. timeout
    BY DEF IInv, PresenceTypeOK
  <2>2. /\ UpdateStatus(touched[p], "Online", lag[p]) /\ Overtake(touched[p])
        /\ UNCHANGED todo
    BY <1>5 DEF TouchUpdate
  <2>3. /\ status' \in [DeviceIDs -> {"absent", "Unknown", "Online", "Offline"}]
        /\ age' \in [DeviceIDs -> 0 .. timeout]
        /\ \A e \in DeviceIDs \ {touched[p]} : status'[e] = status[e] /\ age'[e] = age[e]
        /\ Comeback /\ Declared
    BY <2>1, <2>2, UpdateStatusKeepsIInv DEF Comeback, Declared
  <2>4. ListedInv' /\ behind' \subseteq DOMAIN todo'
    BY <2>1, <2>2, <2>3, OvertakingStep
  <2> QED
    BY <1>5, <2>3, <2>4 DEF IInv, PresenceTypeOK, TouchUpdate
<1>6. CASE SweepList
  <2>1. /\ todo' = [d \in Overdue |-> age[d]]
        /\ behind' = {}
        /\ UNCHANGED registryVars
    BY <1>6 DEF SweepList
  <2>2. Overdue \subseteq DeviceIDs
    BY DEF Overdue, Online
  <2>3. ListedInv' /\ Comeback /\ Declared
    BY <2>1 DEF ListedInv, Comeback, Declared, Overdue, Online, registryVars
  <2>4. /\ DOMAIN todo' \subseteq DeviceIDs
        /\ todo' \in [DOMAIN todo' -> 0 .. timeout]
        /\ behind' \subseteq DOMAIN todo'
    BY <2>1, <2>2 DEF IInv, PresenceTypeOK
  <2> QED
    BY <1>6, <2>3, <2>4 DEF IInv, PresenceTypeOK, SweepList, registryVars
<1>7. ASSUME NEW d \in DeviceIDs, SweepUpdate(d) PROVE IInv' /\ Comeback /\ Declared
  <2>1. /\ UpdateStatus(d, "Offline", todo[d])
        /\ d \in DOMAIN todo
        /\ todo' = [x \in DOMAIN todo \ {d} |-> todo[x]]
        /\ behind' = behind \ {d}
    BY <1>7 DEF SweepUpdate
  <2>2. todo[d] \in 0 .. timeout
    BY <2>1 DEF IInv, PresenceTypeOK
  <2>3. /\ status' \in [DeviceIDs -> {"absent", "Unknown", "Online", "Offline"}]
        /\ age' \in [DeviceIDs -> 0 .. timeout]
        /\ \A e \in DeviceIDs \ {d} : status'[e] = status[e] /\ age'[e] = age[e]
        /\ status[d] = "absent" => status'[d] = "absent"
    BY <2>1, <2>2, UpdateStatusKeepsIInv
  <2>4. Comeback /\ Declared
    BY <2>1, <2>3 DEF IInv, ListedInv, Comeback, Declared
  <2>5. ListedInv'
    BY <2>1, <2>3 DEF IInv, PresenceTypeOK, ListedInv, Overdue, Online
  <2>6. /\ DOMAIN todo' \subseteq DeviceIDs
        /\ todo' \in [DOMAIN todo' -> 0 .. timeout]
        /\ behind' \subseteq DOMAIN todo'
    BY <2>1 DEF IInv, PresenceTypeOK
  <2> QED
    BY <1>7, <2>3, <2>4, <2>5, <2>6 DEF IInv, PresenceTypeOK, SweepUpdate
<1>8. CASE SweepEnd
  <2>1. ListedInv' /\ Comeback /\ Declared
    BY <1>8, OtherwiseStep DEF SweepEnd
  <2> QED
    BY <1>8, <2>1 DEF IInv, PresenceTypeOK, SweepEnd, registryVars, snapshotVars
<1>9. ASSUME NEW p \in Processes, CountOnline(p) PROVE IInv' /\ Comeback /\ Declared
  <2>1. ListedInv' /\ Comeback /\ Declared
    BY <1>9, OtherwiseStep DEF CountOnline
  <2> QED
    BY <1>9, <2>1, OnlineIsBounded
       DEF IInv, PresenceTypeOK, CountOnline, registryVars, snapshotVars
<1>10. ASSUME NEW p \in Processes, SetGauge(p) PROVE IInv' /\ Comeback /\ Declared
  <2>1. ListedInv' /\ Comeback /\ Declared
    BY <1>10, OtherwiseStep DEF SetGauge
  <2> QED
    BY <1>10, <2>1, OnlineIsBounded
       DEF IInv, PresenceTypeOK, SetGauge, registryVars, snapshotVars
<1>11. CASE Tick
  <2>1. \A a \in 0 .. timeout : Older(a) \in 0 .. timeout /\ (a >= timeout => Older(a) >= timeout)
    BY DEF Older
  <2>2. /\ age' = [d \in DeviceIDs |-> Older(age[d])]
        /\ todo' = [d \in DOMAIN todo |-> Older(todo[d])]
        /\ UNCHANGED <<status, behind>>
    BY <1>11 DEF Tick
  <2>3. /\ age' \in [DeviceIDs -> 0 .. timeout]
        /\ DOMAIN todo' \subseteq DeviceIDs
        /\ todo' \in [DOMAIN todo' -> 0 .. timeout]
        /\ behind' \subseteq DOMAIN todo'
    BY <2>1, <2>2 DEF IInv, PresenceTypeOK
  <2>4. lag' \in [Touchers -> 0 .. timeout]
    BY <1>11, <2>1 DEF IInv, PresenceTypeOK, Tick
  <2>5. ListedInv'
    BY <2>1, <2>2 DEF IInv, PresenceTypeOK, ListedInv, Overdue, Online
  <2>6. Comeback /\ Declared
    BY <2>2 DEF Comeback, Declared
  <2> QED
    BY <1>11, <2>3, <2>4, <2>5, <2>6 DEF IInv, PresenceTypeOK, Tick
<1>12. CASE Restart
  <2>1. ListedInv' /\ Comeback /\ Declared
    BY <1>12 DEF Restart, ListedInv, Comeback, Declared, registryVars
  <2>2. /\ DOMAIN todo' \subseteq DeviceIDs
        /\ todo' \in [DOMAIN todo' -> 0 .. timeout]
        /\ behind' \subseteq DOMAIN todo'
    BY <1>12 DEF Restart
  <2> QED
    BY <1>12, <2>1, <2>2, OnlineIsBounded DEF IInv, PresenceTypeOK, Restart, registryVars
<1>13. CASE UNCHANGED presenceVars
  <2>1. ListedInv' /\ Comeback /\ Declared
    BY <1>13, OtherwiseStep DEF presenceVars, processVars, snapshotVars
  <2> QED
    BY <1>13, <2>1 DEF IInv, PresenceTypeOK, presenceVars, registryVars, processVars
<1> QED
  BY <1>1, <1>2, <1>3, <1>4, <1>5, <1>6, <1>7, <1>8, <1>9, <1>10, <1>11, <1>12, <1>13
     DEF PresenceNext, Heard, TouchStep, SweepStep
-----------------------------------------------------------------------------
(* For any number of devices and handlers and any timeout: what Sweep      *)
(* declares offline is online and silent at that moment, however long ago  *)
(* it was listed, or its record was written since Sweep's List.            *)
THEOREM SweepDeclaresTheSilent == PresenceSpec => OnlySilentGoOffline
<1>1. IInv /\ [PresenceNext]_presenceVars => IInv'
  BY NextIInv
<1>2. IInv /\ [PresenceNext]_presenceVars =>
        [\A d \in DeviceIDs :
          status[d] # "Offline" /\ status'[d] = "Offline" =>
              d \in Overdue \/ d \in behind]_presenceVars
  BY NextIInv DEF Declared
<1> QED
  BY InitIInv, <1>1, <1>2, PTL DEF PresenceSpec, OnlySilentGoOffline

(* No Touch, Sweep or SetProperty resurrects a deleted device.             *)
THEOREM NoResurrection == PresenceSpec => DeletedStaysDeleted
<1>1. IInv /\ [PresenceNext]_presenceVars => IInv'
  BY NextIInv
<1>2. IInv /\ [PresenceNext]_presenceVars =>
        [\A d \in DeviceIDs :
          status[d] = "absent" /\ status'[d] # "absent" => status'[d] = "Unknown"]_presenceVars
  BY NextIInv DEF Comeback
<1> QED
  BY InitIInv, <1>1, <1>2, PTL DEF PresenceSpec, DeletedStaysDeleted
-----------------------------------------------------------------------------
(* The device only ever names devices: its own ID, or one it was given.    *)
SdkInv ==
    /\ configured \in SUBSET DeviceIDs
    /\ deviceID \in SUBSET DeviceIDs
    /\ seq \in Nat

(* Config.DeviceID is all the device knows at first.                       *)
LEMMA InitSdkInv == SdkInit => SdkInv
  BY SdkDeviceAssumption DEF SdkInit, SdkInv

(* A step of Run, or of a handler that serves it, is a step of Presence or *)
(* leaves the gateway alone.                                               *)
LEMMA SdkStepIsPresenceStep ==
  ASSUME PresenceTypeOK, SdkInv, SdkNext
  PROVE  [PresenceNext]_presenceVars
<1>1. ASSUME NEW p \in Touchers, Register(p) PROVE PresenceNext
  <2>1. CASE \E d \in configured : RegisterDevice(p, d)
    BY <2>1 DEF SdkInv, PresenceNext
  <2>2. CASE seq < Len(Generated) /\ RegisterDevice(p, Generated[seq + 1])
    <3>1. Generated[seq + 1] \in DeviceIDs
      BY <2>2, SdkDeviceAssumption DEF SdkInv
    <3> QED
      BY <2>2, <3>1 DEF PresenceNext
  <2> QED
    BY <1>1, <2>1, <2>2 DEF Register
<1>2. ASSUME NEW p \in Touchers, Connect(p) PROVE PresenceNext
  <2>1. PICK d \in deviceID : TouchGet(p, d)
    BY <1>2 DEF Connect
  <2> QED
    BY <2>1 DEF SdkInv, PresenceNext, Heard
<1>3. ASSUME NEW p \in Touchers, TouchRegistered(p) \/ Heartbeat(p) PROVE PresenceNext
  <2>1. touched[p] \in DeviceIDs
    BY DEF PresenceTypeOK
  <2> QED
    BY <1>3, <2>1 DEF TouchRegistered, Heartbeat, PresenceNext, Heard
<1>4. ASSUME NEW p \in Touchers, Carry(p) PROVE PresenceNext
  BY <1>4 DEF Carry, PresenceNext
<1>5. CASE Sweeping \/ Time
  BY <1>5 DEF Sweeping, Time, PresenceNext
<1>6. CASE PublishProperty
  <2>1. PICK d \in deviceID : SetProperty(d)
    BY <1>6 DEF PublishProperty
  <2> QED
    BY <2>1 DEF SdkInv, PresenceNext, Heard
<1>7. CASE OtherStep
  <2>1. ASSUME NEW p \in Touchers, NEW d \in Mqtt, OtherRegisters(p, d) \/ OtherTouches(p, d)
        PROVE  PresenceNext
    <3>1. d \in DeviceIDs
      BY SdkDeviceAssumption
    <3> QED
      BY <2>1, <3>1 DEF OtherRegisters, OtherTouches, PresenceNext, Heard
  <2>2. ASSUME NEW d \in DeviceIDs, SetProperty(d) PROVE PresenceNext
    BY <2>2 DEF PresenceNext, Heard
  <2> QED
    BY <1>7, <2>1, <2>2 DEF OtherStep
<1>8. ASSUME NEW d \in DeviceIDs, Delete(d) PROVE PresenceNext
  BY <1>8 DEF Delete, PresenceNext
<1>9. CASE GatewayRestarts
  BY <1>9 DEF GatewayRestarts, PresenceNext
<1>10. ASSUME NEW p \in Touchers, RegisterReturns(p) \/ HandlerEnds(p) PROVE UNCHANGED presenceVars
  BY <1>10 DEF RegisterReturns, HandlerEnds
<1>11. CASE \/ RegisterTaken \/ BackoffOver
            \/ ConnectionFails \/ CancelRun
  BY <1>11 DEF RegisterTaken, BackoffOver, ConnectionFails, CancelRun
<1> QED
  BY <1>1, <1>2, <1>3, <1>4, <1>5, <1>6, <1>7, <1>8, <1>9, <1>10, <1>11
     DEF SdkNext, RunStep

(* The device's own variables keep naming devices.                         *)
LEMMA NextSdkInv ==
  ASSUME PresenceTypeOK, SdkInv, [SdkNext]_svars
  PROVE  SdkInv'
<1> USE DEF SdkInv
<1>1. ASSUME NEW p \in Touchers, Register(p) PROVE SdkInv'
  BY <1>1 DEF Register
<1>2. ASSUME NEW p \in Touchers, RegisterReturns(p) PROVE SdkInv'
  BY <1>2 DEF RegisterReturns, PresenceTypeOK
<1>3. CASE RegisterTaken
  BY <1>3 DEF RegisterTaken
<1>4. ASSUME NEW p \in Touchers, \/ Connect(p) \/ HandlerEnds(p) \/ TouchRegistered(p)
                                 \/ Carry(p) \/ Heartbeat(p)
      PROVE  SdkInv'
  BY <1>4 DEF Connect, HandlerEnds, TouchRegistered, Carry, Heartbeat, sdkVars
<1>5. CASE \/ BackoffOver \/ ConnectionFails \/ CancelRun
           \/ PublishProperty \/ Sweeping \/ Time \/ GatewayRestarts
  BY <1>5 DEF BackoffOver, ConnectionFails, CancelRun, PublishProperty,
              Sweeping, Time, GatewayRestarts, sdkVars
<1>6. CASE OtherStep
  BY <1>6 DEF OtherStep, OtherRegisters, OtherTouches, sdkVars
<1>7. ASSUME NEW d \in DeviceIDs, Delete(d) PROVE SdkInv'
  BY <1>7 DEF Delete, sdkVars
<1>8. CASE UNCHANGED svars
  BY <1>8 DEF svars, sdkVars
<1> QED
  BY <1>1, <1>2, <1>3, <1>4, <1>5, <1>6, <1>7, <1>8 DEF SdkNext, RunStep
-----------------------------------------------------------------------------
(* The SDK device and the gateway together implement Presence.             *)
THEOREM SdkImplementsPresence == SdkSpec => PresenceSpec
<1> DEFINE Inv == IInv /\ SdkInv
<1>1. SdkInit => Inv
  BY InitIInv, InitSdkInv DEF SdkInit
<1>2. SdkInit => PresenceInit
  BY DEF SdkInit
<1>3. Inv /\ [SdkNext]_svars => [PresenceNext]_presenceVars
  BY SdkStepIsPresenceStep DEF IInv, svars
<1>4. Inv /\ [SdkNext]_svars => Inv'
  <2>1. IInv /\ [PresenceNext]_presenceVars => IInv'
    BY NextIInv
  <2> QED
    BY <1>3, <2>1, NextSdkInv DEF IInv
<1> HIDE DEF Inv
<1> QED
  BY <1>1, <1>2, <1>3, <1>4, PTL DEF SdkSpec, PresenceSpec

(* However the SDK device registers, reconnects and publishes, Sweep       *)
(* declares only silent devices offline, or ones it was overtaken on, and  *)
(* no call resurrects a deleted device.                                    *)
THEOREM SdkKeepsRecordsTruthful == SdkSpec => OnlySilentGoOffline /\ DeletedStaysDeleted
  BY SdkImplementsPresence, SweepDeclaresTheSilent, NoResurrection, PTL
=============================================================================
