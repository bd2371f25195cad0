-------------------------- MODULE WalFormatProofs --------------------------
(***************************************************************************)
(* What Wal::scan and Wal::replay return for every log: the facts the      *)
(* proofs about the log and its owner rest on.                             *)
(***************************************************************************)
EXTENDS WalFormat, TLAPS, SequenceTheorems, WellFoundedInduction

\* Block i of f is a Commit that a scan reaches.
Reached(f, i) ==
  /\ i \in 1..Len(f)
  /\ IsCommit(f[i])
  /\ \A j \in 1..i : ~IsTorn(f[j])

\* The first Len(f) blocks of g are those of f.
Extends(g, f) ==
  /\ Len(f) <= Len(g)
  /\ \A i \in 1..Len(f) : g[i] = f[i]

\* Every non-empty set of naturals has a least element.
LEMMA LeastNat ==
  ASSUME NEW T, T \subseteq Nat, T # {}
  PROVE  \E x \in T : \A y \in T : x <= y
<1>1. PICK x \in T : \A y \in T : ~(<<y, x>> \in OpToRel(<, Nat))
  BY NatLessThanWellFounded, WFMin
<1>2. \A y \in T : ~(y < x)
  BY <1>1 DEF OpToRel
<1> QED
  BY <1>2

\* Every non-empty set of naturals with an upper bound has a largest element.
LEMMA LargestNat ==
  ASSUME NEW n \in Nat, NEW T, T \subseteq 0..n, T # {}
  PROVE  \E x \in T : \A y \in T : y <= x
<1>0. \A y \in T : y \in Nat /\ y <= n
  <2>1. \A y \in T : y \in 0..n
    OBVIOUS
  <2> QED
    BY <2>1
<1> DEFINE U == {n - y : y \in T}
<1>1. U \subseteq Nat /\ U # {}
  <2>1. \A y \in T : n - y \in Nat
    BY <1>0
  <2>2. U \subseteq Nat
    BY <2>1
  <2>3. PICK y \in T : TRUE
    OBVIOUS
  <2>4. n - y \in U
    BY <2>3
  <2> QED
    BY <2>2, <2>4
<1>2. PICK u \in U : \A w \in U : u <= w
  BY <1>1, LeastNat
<1>3. PICK x \in T : u = n - x
  BY <1>2
<1>4. ASSUME NEW y \in T PROVE y <= x
  <2>1. u <= n - y
    BY <1>2
  <2>2. x \in Nat /\ y \in Nat
    BY <1>0
  <2> QED
    BY <1>3, <2>1, <2>2
<1> QED
  BY <1>3, <1>4

\* A prefix of a sequence.
LEMMA PrefixProperties ==
  ASSUME NEW S, NEW s \in Seq(S), NEW n \in 0..Len(s)
  PROVE  /\ SubSeq(s, 1, n) \in Seq(S)
         /\ Len(SubSeq(s, 1, n)) = n
         /\ \A i \in 1..n : SubSeq(s, 1, n)[i] = s[i]
<1>1. Len(s) \in Nat /\ \A i \in 1..n : s[i] \in S
  BY LenProperties, ElementOfSeq
<1>2. n \in Int
  BY <1>1
<1> QED
  BY <1>1, <1>2, SubSeqProperties

\* Wal::scan stops somewhere: the CHOOSE in Scan has a witness.
LEMMA ScanLenExists ==
  ASSUME NEW S, NEW f \in Seq(S)
  PROVE  \E n \in 0..Len(f) : IsScanLen(f, n)
<1> DEFINE T == {i \in 1..Len(f) : IsTorn(f[i])}
<1>0. Len(f) \in Nat
  BY LenProperties
<1>1. CASE T = {}
  <2>1. IsScanLen(f, Len(f))
    BY <1>0, <1>1 DEF IsScanLen
  <2> QED
    BY <1>0, <2>1
<1>2. CASE T # {}
  <2>0. T \subseteq Nat
    BY <1>0
  <2>1. PICK m \in T : \A y \in T : m <= y
    <3> HIDE DEF T
    <3> QED
      BY <1>2, <2>0, LeastNat
  <2>2. m - 1 \in 0..Len(f) /\ IsScanLen(f, m - 1)
    BY <1>0, <2>1 DEF IsScanLen
  <2> QED
    BY <2>2
<1> QED
  BY <1>1, <1>2

\* A log has a last Commit, or none: the CHOOSE in Keep has a witness.
LEMMA KeepExists ==
  ASSUME NEW S, NEW s \in Seq(S)
  PROVE  /\ Keep(s) \in 0..Len(s)
         /\ IsKeep(s, Keep(s))
<1> DEFINE T == {i \in 1..Len(s) : IsCommit(s[i])}
<1>0. Len(s) \in Nat
  BY LenProperties
<1>1. \E k \in 0..Len(s) : IsKeep(s, k)
  <2>1. CASE T = {}
    BY <1>0, <2>1 DEF IsKeep
  <2>2. CASE T # {}
    <3>1. T \subseteq 0..Len(s)
      BY <1>0
    <3>2. PICK k \in T : \A y \in T : y <= k
      BY <1>0, <2>2, <3>1, LargestNat
    <3> QED
      BY <1>0, <3>2 DEF IsKeep
  <2> QED
    BY <2>1, <2>2
<1> QED
  BY <1>1 DEF Keep

\* Scan returns a prefix without torn blocks, the longest there is.
LEMMA ScanProperties ==
  ASSUME NEW S, NEW f \in Seq(S)
  PROVE  /\ Scan(f) \in Seq(S)
         /\ Len(Scan(f)) \in 0..Len(f)
         /\ IsScanLen(f, Len(Scan(f)))
         /\ \A i \in 1..Len(Scan(f)) : Scan(f)[i] = f[i]
<1> DEFINE n == CHOOSE m \in 0..Len(f) : IsScanLen(f, m)
<1>1. n \in 0..Len(f) /\ IsScanLen(f, n)
  BY ScanLenExists
<1>2. Scan(f) = SubSeq(f, 1, n)
  BY DEF Scan
<1> HIDE DEF n
<1> QED
  BY <1>1, <1>2, PrefixProperties

\* Wal::replay returns the blocks up to the last Commit that a scan reaches.
THEOREM ReplayProperties ==
  ASSUME NEW S, NEW f \in Seq(S)
  PROVE  /\ Replay(f) \in Seq(S)
         /\ Len(Replay(f)) \in 0..Len(f)
         /\ Extends(f, Replay(f))
         /\ Len(Replay(f)) > 0 => Reached(f, Len(Replay(f)))
         /\ \A i : Reached(f, i) => i <= Len(Replay(f))
<1> DEFINE s == Scan(f)
           k == Keep(s)
<1>0. Len(f) \in Nat
  BY LenProperties
<1>1. /\ s \in Seq(S)
      /\ Len(s) \in 0..Len(f)
      /\ IsScanLen(f, Len(s))
      /\ \A i \in 1..Len(s) : s[i] = f[i]
  BY ScanProperties
<1>2. k \in 0..Len(s) /\ IsKeep(s, k)
  BY <1>1, KeepExists
<1>3. Replay(f) = SubSeq(s, 1, k)
  BY DEF Replay
<1> HIDE DEF s, k
<1>4. /\ Replay(f) \in Seq(S)
      /\ Len(Replay(f)) = k
      /\ \A i \in 1..k : Replay(f)[i] = s[i]
  BY <1>1, <1>2, <1>3, PrefixProperties
<1>5. k \in 0..Len(f) /\ Extends(f, Replay(f))
  BY <1>0, <1>1, <1>2, <1>4 DEF Extends
<1>6. k > 0 => Reached(f, k)
  BY <1>0, <1>1, <1>2 DEF IsKeep, IsScanLen, Reached
<1>7. ASSUME NEW i, Reached(f, i) PROVE i <= k
  <2>1. i \in 1..Len(f) /\ IsCommit(f[i]) /\ \A j \in 1..i : ~IsTorn(f[j])
    BY <1>7 DEF Reached
  <2>2. i <= Len(s)
    BY <1>0, <1>1, <2>1 DEF IsScanLen
  <2> QED
    BY <1>0, <1>1, <1>2, <2>1, <2>2 DEF IsKeep
<1> QED
  BY <1>4, <1>5, <1>6, <1>7

\* A log that extends another one replays to an extension of its replay.
THEOREM ReplayMonotone ==
  ASSUME NEW S, NEW f \in Seq(S), NEW g \in Seq(S), Extends(g, f)
  PROVE  Extends(Replay(g), Replay(f))
<1> DEFINE m == Len(Replay(f))
           n == Len(Replay(g))
<1>0. Len(f) \in Nat /\ Len(g) \in Nat
  BY LenProperties
<1>1. /\ m \in 0..Len(f)
      /\ Extends(f, Replay(f))
      /\ m > 0 => Reached(f, m)
  BY ReplayProperties
<1>2. /\ n \in 0..Len(g)
      /\ Extends(g, Replay(g))
      /\ \A i : Reached(g, i) => i <= n
  BY ReplayProperties
<1>3. m > 0 => Reached(g, m)
  BY <1>0, <1>1 DEF Reached, Extends
<1>4. m <= n
  BY <1>0, <1>1, <1>2, <1>3
<1> QED
  BY <1>0, <1>1, <1>2, <1>4 DEF Extends

\* Replaying what a replay kept keeps all of it.
THEOREM ReplayIdempotent ==
  ASSUME NEW S, NEW f \in Seq(S)
  PROVE  Len(Replay(Replay(f))) = Len(Replay(f))
<1> DEFINE r == Replay(f)
<1>1. /\ r \in Seq(S)
      /\ Len(r) \in 0..Len(f)
      /\ Extends(f, r)
      /\ Len(r) > 0 => Reached(f, Len(r))
  BY ReplayProperties
<1> HIDE DEF r
<1>2. Len(f) \in Nat /\ Len(r) \in Nat
  BY <1>1, LenProperties
<1>3. Len(r) > 0 => Reached(r, Len(r))
  BY <1>1, <1>2 DEF Reached, Extends
<1>4. /\ Len(Replay(r)) \in 0..Len(r)
      /\ \A i : Reached(r, i) => i <= Len(Replay(r))
  BY <1>1, ReplayProperties
<1>5. Len(Replay(r)) = Len(r)
  BY <1>2, <1>3, <1>4
<1> QED
  BY <1>5 DEF r

\* A file cut short keeps its first lo blocks; beyond them it holds blocks of
\* the file and perhaps a torn one at the very end.
LEMMA CutShortProperties ==
  ASSUME NEW S, NEW s \in Seq(S), Torn \in S, NEW lo \in 0..Len(s),
         NEW f \in CutShort(s, lo)
  PROVE  /\ f \in Seq(S)
         /\ lo <= Len(f)
         /\ \A i \in 1..lo : f[i] = s[i]
         /\ \A i \in 1..Len(f) : \/ i <= Len(s) /\ f[i] = s[i]
                                 \/ i = Len(f) /\ f[i] = Torn
<1>0. Len(s) \in Nat
  BY LenProperties
<1>1. CASE \E n \in lo..Len(s) : f = SubSeq(s, 1, n)
  <2>1. PICK n \in lo..Len(s) : f = SubSeq(s, 1, n)
    BY <1>1
  <2>2. n \in 0..Len(s)
    BY <1>0
  <2>3. /\ f \in Seq(S)
        /\ Len(f) = n
        /\ \A i \in 1..n : f[i] = s[i]
    BY <2>1, <2>2, PrefixProperties
  <2> QED
    BY <1>0, <2>2, <2>3
<1>2. CASE \E n \in lo..(Len(s) - 1) : f = Append(SubSeq(s, 1, n), Torn)
  <2>1. PICK n \in lo..(Len(s) - 1) : f = Append(SubSeq(s, 1, n), Torn)
    BY <1>2
  <2> DEFINE p == SubSeq(s, 1, n)
  <2>2. n \in 0..Len(s) /\ n + 1 <= Len(s)
    BY <1>0
  <2>3. /\ p \in Seq(S)
        /\ Len(p) = n
        /\ \A i \in 1..n : p[i] = s[i]
    BY <2>2, PrefixProperties
  <2>4. f = Append(p, Torn)
    BY <2>1
  <2> HIDE DEF p
  <2>5. /\ f \in Seq(S)
        /\ Len(f) = n + 1
        /\ \A i \in 1..n : f[i] = p[i]
        /\ f[n + 1] = Torn
    BY <2>3, <2>4, AppendProperties
  <2> QED
    BY <1>0, <2>2, <2>3, <2>5
<1> QED
  BY <1>1, <1>2 DEF CutShort
=============================================================================
