------------------------- MODULE GraphSegmentsProofs -------------------------
(***************************************************************************)
(* Proofs about GraphSegments, for any nodes, edges and values, any number *)
(* of transactions, checkpoints and crashes: until a power loss takes      *)
(* records that an incarnation of the daemon had found (lost), what is on  *)
(* disk always opens, shows exactly the acknowledged commits, and          *)
(* implements AtomicGraph.                                                 *)
(*                                                                         *)
(* The proofs go from the inside outwards: the replay of a part of a       *)
(* segment (Ran), the replay of one transaction's records, which is its    *)
(* application in memory (RanNodes, RanEdges), the image of a set of       *)
(* committed transactions on a disk (Image), and open, which comes to that *)
(* image (ReopenedIs).  Then the inductive invariant SegInv: the images of *)
(* the acknowledged transactions, with a checkpoint and without, are the   *)
(* graph in memory (ImageOK).  Records of transactions that do not count   *)
(* may lie on disk; RanPasses and ImageKept say that they change nothing.  *)
(*                                                                         *)
(* LateFaults is the hypothesis of the theorems: half a record that an     *)
(* earlier crash left lies in front of records that later commits append,  *)
(* and then recovery does fail (run torn_tail).  Without faults it says    *)
(* nothing.                                                                *)
(***************************************************************************)
EXTENDS GraphSegments, GraphStoreProofs, FiniteSetTheorems, SequenceTheorems, WellFoundedInduction, TLAPS

\* The records of a data segment.
NodeRecs == [kind : {"put"}, txn : Nat, id : Nodes, val : Values] \cup [kind : {"tombstone"}, txn : Nat, id : Nodes]
EdgeRecs == [kind : {"put"}, txn : Nat, id : Edges, val : EdgeRecords] \cup [kind : {"tombstone"}, txn : Nat, id : Edges]
DataRecs(k) == IF k = "node" THEN NodeRecs ELSE EdgeRecs

\* What replay does with one record.
Step(k, s, r, m) ==
    IF r.txn \notin DOMAIN m THEN s
    ELSE IF k = "node" THEN NodeReplayed(s, r, m[r.txn]) ELSE EdgeReplayed(s, r, m[r.txn])

\* One record, counted alike.
Alike(r, q, m, o) == r = q /\ (r.txn \in DOMAIN m <=> r.txn \in DOMAIN o) /\ (r.txn \in DOMAIN m => m[r.txn] = o[r.txn])

\* The stores that replay goes through.
Passes(f, n, k, s, m, rs) == f = [i \in 0 .. n |-> IF i = 0 THEN s ELSE Step(k, f[i - 1], rs[i], m)]

-----------------------------------------------------------------------------
(* Counting up.                                                            *)

\* A set of numbers has a least one.
LEMMA LeastNumber ==
    ASSUME NEW S \in SUBSET Nat, S # {}
    PROVE  \E n \in S : \A m \in S : n <= m
<1> DEFINE R == OpToRel(<, Nat)
<1>1. IsWellFoundedOn(R, Nat)
  BY NatLessThanWellFounded
<1>2. PICK n \in S : \A m \in S : ~(<<m, n>> \in R)
  BY <1>1, WFMin
<1>3. \A m \in S : ~(m < n)
  BY <1>2 DEF OpToRel
<1> QED BY <1>3

\* What holds at a and is handed on holds up to b.
LEMMA UpTo ==
    ASSUME NEW a \in Nat, NEW b \in Nat, NEW S, a \in S,
           \A n \in a .. b : n \in S /\ n < b => n + 1 \in S
    PROVE  \A n \in a .. b : n \in S
<1> DEFINE Bad == {n \in a .. b : n \notin S}
<1>1. SUFFICES ASSUME Bad # {} PROVE FALSE
  OBVIOUS
<1>2. Bad \in SUBSET Nat
  OBVIOUS
<1>3. PICK n \in Bad : \A m \in Bad : n <= m
  <2> HIDE DEF Bad
  <2> QED BY <1>1, <1>2, LeastNumber
<1>4. n \in a .. b /\ n \notin S /\ n # a
  BY <1>3
<1>5. n - 1 \in a .. b /\ n - 1 < b /\ (n - 1) + 1 = n
  BY <1>4
<1>6. n - 1 \in S
  BY <1>3, <1>5
<1> QED BY <1>4, <1>5, <1>6

-----------------------------------------------------------------------------
(* The replay of a segment.                                                *)

\* The recursive function exists.
LEMMA PassesExists ==
    ASSUME NEW k, NEW s, NEW m, NEW rs, NEW n \in Nat
    PROVE  \E f : Passes(f, n, k, s, m, rs)
<1> DEFINE S == {j \in Nat : \E f : Passes(f, j, k, s, m, rs)}
<1>1. 0 \in S
  <2> DEFINE f == [i \in 0 .. 0 |-> s]
  <2>1. Passes(f, 0, k, s, m, rs)
    <3>1. f = [i \in 0 .. 0 |-> IF i = 0 THEN s ELSE Step(k, f[i - 1], rs[i], m)]
      OBVIOUS
    <3> QED BY <3>1 DEF Passes
  <2> QED BY <2>1
<1>2. ASSUME NEW j \in 0 .. n, j \in S, j < n
      PROVE  j + 1 \in S
  <2>1. PICK f : Passes(f, j, k, s, m, rs)
    BY <1>2
  <2> DEFINE g == [i \in 0 .. j + 1 |-> IF i <= j THEN f[i] ELSE Step(k, f[j], rs[j + 1], m)]
  <2>2. ASSUME NEW i \in 0 .. j + 1
        PROVE  g[i] = IF i = 0 THEN s ELSE Step(k, g[i - 1], rs[i], m)
    <3>1. CASE i <= j
      <4>1. i \in 0 .. j /\ g[i] = f[i]
        BY <3>1
      <4>2. f[i] = IF i = 0 THEN s ELSE Step(k, f[i - 1], rs[i], m)
        BY <2>1, <4>1 DEF Passes
      <4>3. i # 0 => g[i - 1] = f[i - 1]
        BY <3>1
      <4> HIDE DEF g
      <4> QED BY <4>1, <4>2, <4>3
    <3>2. CASE ~(i <= j)
      <4>1. i = j + 1 /\ i # 0 /\ i - 1 = j
        BY <3>2
      <4>2. g[i] = Step(k, f[j], rs[j + 1], m) /\ g[j] = f[j]
        BY <3>2
      <4> HIDE DEF g
      <4> QED BY <4>1, <4>2
    <3> QED BY <3>1, <3>2
  <2>3. g = [i \in 0 .. j + 1 |-> IF i = 0 THEN s ELSE Step(k, g[i - 1], rs[i], m)]
    <3>1. g = [i \in 0 .. j + 1 |-> g[i]]
      OBVIOUS
    <3> HIDE DEF g
    <3> QED BY <2>2, <3>1
  <2>4. Passes(g, j + 1, k, s, m, rs)
    <3> HIDE DEF g
    <3> QED BY <2>3 DEF Passes
  <2> QED BY <2>4
<1>3. \A j \in 0 .. n : j \in S
  <2> HIDE DEF S
  <2> QED BY <1>1, <1>2, UpTo
<1> QED BY <1>3

\* SegmentReplayed ends where such a function does.
LEMMA ReplayPasses ==
    ASSUME NEW k, NEW s, NEW m, NEW rs, Len(rs) \in Nat
    PROVE  \E f : Passes(f, Len(rs), k, s, m, rs) /\ SegmentReplayed(k, s, m, rs) = f[Len(rs)]
<1> DEFINE c == CHOOSE f : Passes(f, Len(rs), k, s, m, rs)
<1>1. Passes(c, Len(rs), k, s, m, rs)
  <2>1. \E f : Passes(f, Len(rs), k, s, m, rs)
    BY PassesExists
  <2> QED BY <2>1
<1>2. SegmentReplayed(k, s, m, rs) = c[Len(rs)]
  BY DEF SegmentReplayed, Passes, Step
<1> QED BY <1>1, <1>2

\* Two replays agree as far as their records, and what they count of them, do.
LEMMA PassesAgree ==
    ASSUME NEW n \in Nat, NEW a \in Nat, NEW b \in Nat, n <= a, n <= b,
           NEW k, NEW s, NEW m, NEW o, NEW rs, NEW qs, NEW f, NEW g,
           Passes(f, a, k, s, m, rs), Passes(g, b, k, s, o, qs),
           \A i \in 1 .. n : Alike(rs[i], qs[i], m, o)
    PROVE  f[n] = g[n]
<1> DEFINE S == {j \in 0 .. n : f[j] = g[j]}
<1>1. 0 \in S
  <2>1. 0 \in 0 .. a /\ 0 \in 0 .. b /\ 0 \in 0 .. n
    OBVIOUS
  <2>2. f[0] = s /\ g[0] = s
    BY <2>1 DEF Passes
  <2> QED BY <2>1, <2>2
<1>2. ASSUME NEW j \in 0 .. n, j \in S, j < n
      PROVE  j + 1 \in S
  <2>1. j + 1 \in 0 .. a /\ j + 1 \in 0 .. b /\ j + 1 # 0 /\ (j + 1) - 1 = j /\ j + 1 \in 1 .. n /\ j + 1 \in 0 .. n
    BY <1>2
  <2>2. f[j + 1] = Step(k, f[j], rs[j + 1], m) /\ g[j + 1] = Step(k, g[j], qs[j + 1], o)
    BY <2>1 DEF Passes
  <2>3. f[j] = g[j]
    BY <1>2
  <2>4. PICK r, q : r = rs[j + 1] /\ q = qs[j + 1]
    OBVIOUS
  <2>5. Alike(r, q, m, o)
    BY <2>1, <2>4
  <2>6. r = q /\ Step(k, f[j], r, m) = Step(k, f[j], r, o)
    BY <2>5 DEF Step, Alike
  <2> QED BY <2>1, <2>2, <2>3, <2>4, <2>6
<1>3. \A j \in 0 .. n : j \in S
  <2> HIDE DEF S
  <2> QED BY <1>1, <1>2, UpTo
<1> QED BY <1>3

\* Nothing to replay.
LEMMA ReplayNothing ==
    ASSUME NEW k, NEW s, NEW m, NEW rs, Len(rs) = 0
    PROVE  SegmentReplayed(k, s, m, rs) = s
<1>1. PICK f : Passes(f, 0, k, s, m, rs) /\ SegmentReplayed(k, s, m, rs) = f[0]
  BY ReplayPasses
<1>2. f[0] = s
  BY <1>1 DEF Passes
<1> QED BY <1>1, <1>2

\* Replays of the same records that count the same.
LEMMA ReplayAgree ==
    ASSUME NEW k, NEW s, NEW m, NEW o, NEW rs, NEW qs, Len(rs) \in Nat, Len(qs) = Len(rs),
           \A i \in 1 .. Len(rs) : Alike(rs[i], qs[i], m, o)
    PROVE  SegmentReplayed(k, s, m, rs) = SegmentReplayed(k, s, o, qs)
<1>1. PICK n \in Nat : n = Len(rs) /\ n = Len(qs)
  OBVIOUS
<1>2. PICK f : Passes(f, n, k, s, m, rs) /\ SegmentReplayed(k, s, m, rs) = f[n]
  BY <1>1, ReplayPasses
<1>3. PICK g : Passes(g, n, k, s, o, qs) /\ SegmentReplayed(k, s, o, qs) = g[n]
  BY <1>1, ReplayPasses
<1>4. f[n] = g[n]
  BY <1>1, <1>2, <1>3, PassesAgree
<1> QED BY <1>2, <1>3, <1>4

\* One record more.
LEMMA ReplayLast ==
    ASSUME NEW k, NEW s, NEW m, NEW rs, NEW qs, Len(rs) \in Nat, Len(qs) = Len(rs) + 1,
           \A i \in 1 .. Len(rs) : rs[i] = qs[i]
    PROVE  SegmentReplayed(k, s, m, qs) = Step(k, SegmentReplayed(k, s, m, rs), qs[Len(rs) + 1], m)
<1>1. PICK n \in Nat : n = Len(rs) /\ n + 1 = Len(qs)
  OBVIOUS
<1>2. PICK f : Passes(f, n, k, s, m, rs) /\ SegmentReplayed(k, s, m, rs) = f[n]
  BY <1>1, ReplayPasses
<1>3. PICK g : Passes(g, n + 1, k, s, m, qs) /\ SegmentReplayed(k, s, m, qs) = g[n + 1]
  BY <1>1, ReplayPasses
<1>4. f[n] = g[n]
  <2>1. n <= n /\ n <= n + 1 /\ n + 1 \in Nat
    OBVIOUS
  <2>2. \A i \in 1 .. n : Alike(rs[i], qs[i], m, m)
    BY <1>1 DEF Alike
  <2> QED BY <1>2, <1>3, <2>1, <2>2, PassesAgree
<1>5. g[n + 1] = Step(k, g[n], qs[n + 1], m)
  <2>1. n + 1 \in 0 .. n + 1 /\ n + 1 # 0 /\ (n + 1) - 1 = n
    OBVIOUS
  <2> QED BY <1>3, <2>1 DEF Passes
<1> QED BY <1>1, <1>2, <1>3, <1>4, <1>5

-----------------------------------------------------------------------------
(* The replay of a part of a segment.                                      *)

\* What replay makes of the records after index from and up to n.
Ran(k, s, m, d, from, n) == SegmentReplayed(k, s, m, SubSeq(d, from + 1, n))

\* A part of a segment, index by index.
LEMMA PartOf ==
    ASSUME NEW S, NEW d \in Seq(S), NEW from \in Nat, NEW n \in Nat, n <= Len(d)
    PROVE  /\ Len(SubSeq(d, from + 1, n)) = IF from <= n THEN n - from ELSE 0
           /\ \A i \in 1 .. n - from : SubSeq(d, from + 1, n)[i] = d[from + i]
           /\ SubSeq(d, from + 1, n) \in Seq(S)
<1>1. from + 1 \in Int /\ n \in Int /\ Len(d) \in Nat
  BY LenProperties
<1>2. \A i \in (from + 1) .. n : d[i] \in S
  BY <1>1, ElementOfSeq
<1>3. PICK a \in Int : a = from + 1
  BY <1>1
<1>4. \A i \in a .. n : d[i] \in S
  BY <1>2, <1>3
<1>5. /\ SubSeq(d, a, n) \in Seq(S)
      /\ Len(SubSeq(d, a, n)) = IF a <= n THEN n - a + 1 ELSE 0
      /\ \A i \in 1 .. (n - a + 1) : SubSeq(d, a, n)[i] = d[a + i - 1]
  BY <1>1, <1>4, SubSeqProperties
<1>6. PICK q : q = SubSeq(d, a, n) /\ q = SubSeq(d, from + 1, n)
  BY <1>3
<1>7. /\ q \in Seq(S) /\ Len(q) = IF a <= n THEN n - a + 1 ELSE 0
      /\ \A i \in 1 .. (n - a + 1) : q[i] = d[a + i - 1]
  BY <1>5, <1>6
<1>8. Len(q) = IF from <= n THEN n - from ELSE 0
  BY <1>3, <1>7
<1>9. \A i \in 1 .. n - from : q[i] = d[from + i]
  <2> SUFFICES ASSUME NEW i \in 1 .. n - from PROVE q[i] = d[from + i]
    OBVIOUS
  <2>1. i \in 1 .. (n - a + 1) /\ a + i - 1 = from + i
    BY <1>3
  <2> QED BY <1>7, <2>1
<1> QED BY <1>6, <1>7, <1>8, <1>9

\* Behind the end there is nothing to replay.
LEMMA RanNothing ==
    ASSUME NEW S, NEW d \in Seq(S), NEW from \in Nat, NEW n \in Nat, n <= Len(d), n <= from,
           NEW k, NEW s, NEW m
    PROVE  Ran(k, s, m, d, from, n) = s
<1>1. PICK rs : rs = SubSeq(d, from + 1, n)
  OBVIOUS
<1>2. Len(rs) = IF from <= n THEN n - from ELSE 0
  BY <1>1, PartOf
<1>3. Len(rs) = 0
  BY <1>2
<1>4. SegmentReplayed(k, s, m, rs) = s
  BY <1>3, ReplayNothing
<1> QED BY <1>1, <1>4 DEF Ran

\* One record more.
LEMMA RanNext ==
    ASSUME NEW S, NEW d \in Seq(S), NEW from \in Nat, NEW n \in Nat, n + 1 <= Len(d), from <= n,
           NEW k, NEW s, NEW m
    PROVE  Ran(k, s, m, d, from, n + 1) = Step(k, Ran(k, s, m, d, from, n), d[n + 1], m)
<1>0. n <= Len(d) /\ n + 1 \in Nat /\ Len(d) \in Nat
  BY LenProperties
<1>1. PICK rs : rs = SubSeq(d, from + 1, n)
  OBVIOUS
<1>2. Len(rs) = n - from /\ \A i \in 1 .. n - from : rs[i] = d[from + i]
  <2>1. /\ Len(rs) = IF from <= n THEN n - from ELSE 0
        /\ \A i \in 1 .. n - from : rs[i] = d[from + i]
    BY <1>0, <1>1, PartOf
  <2> QED BY <2>1
<1>3. PICK a \in Nat : a = n + 1
  BY <1>0
<1>4. PICK qs : qs = SubSeq(d, from + 1, a)
  OBVIOUS
<1>5. Len(qs) = a - from /\ \A i \in 1 .. a - from : qs[i] = d[from + i]
  <2>1. /\ Len(qs) = IF from <= a THEN a - from ELSE 0
        /\ \A i \in 1 .. a - from : qs[i] = d[from + i]
    BY <1>0, <1>3, <1>4, PartOf
  <2> QED BY <1>3, <2>1
<1>6. Len(rs) \in Nat /\ Len(qs) = Len(rs) + 1
  BY <1>2, <1>3, <1>5
<1>7. \A i \in 1 .. Len(rs) : rs[i] = qs[i]
  BY <1>2, <1>3, <1>5
<1>8. qs[Len(rs) + 1] = d[n + 1]
  <2>1. Len(rs) + 1 \in 1 .. a - from /\ from + (Len(rs) + 1) = n + 1
    BY <1>2, <1>3
  <2> QED BY <1>5, <2>1
<1>9. SegmentReplayed(k, s, m, qs) = Step(k, SegmentReplayed(k, s, m, rs), qs[Len(rs) + 1], m)
  BY <1>6, <1>7, ReplayLast
<1> QED BY <1>1, <1>3, <1>4, <1>8, <1>9 DEF Ran

\* Segments that agree, and maps that agree on them.
LEMMA RanAgree ==
    ASSUME NEW S, NEW d \in Seq(S), NEW c \in Seq(S), NEW from \in Nat, NEW n \in Nat,
           n <= Len(d), n <= Len(c), NEW k, NEW s, NEW m, NEW o,
           \A i \in from + 1 .. n : Alike(d[i], c[i], m, o)
    PROVE  Ran(k, s, m, d, from, n) = Ran(k, s, o, c, from, n)
<1>1. PICK rs : rs = SubSeq(d, from + 1, n)
  OBVIOUS
<1>2. PICK qs : qs = SubSeq(c, from + 1, n)
  OBVIOUS
<1>3. /\ Len(rs) = IF from <= n THEN n - from ELSE 0
      /\ \A i \in 1 .. n - from : rs[i] = d[from + i]
  BY <1>1, PartOf
<1>4. /\ Len(qs) = IF from <= n THEN n - from ELSE 0
      /\ \A i \in 1 .. n - from : qs[i] = c[from + i]
  BY <1>2, PartOf
<1>5. Len(rs) \in Nat /\ Len(qs) = Len(rs)
  BY <1>3, <1>4
<1>6. ASSUME NEW i \in 1 .. Len(rs)
      PROVE  Alike(rs[i], qs[i], m, o)
  <2>1. i \in 1 .. n - from /\ from + i \in from + 1 .. n
    BY <1>3
  <2>2. rs[i] = d[from + i] /\ qs[i] = c[from + i]
    BY <1>3, <1>4, <2>1
  <2>3. Alike(d[from + i], c[from + i], m, o)
    BY <2>1
  <2> QED BY <2>2, <2>3
<1>7. SegmentReplayed(k, s, m, rs) = SegmentReplayed(k, s, o, qs)
  BY <1>5, <1>6, ReplayAgree
<1> QED BY <1>1, <1>2, <1>7 DEF Ran

\* Records that do not count change nothing.
LEMMA RanPasses ==
    ASSUME NEW S, NEW d \in Seq(S), NEW from \in Nat, NEW a \in Nat, NEW b \in Nat, from <= a, a <= b,
           b <= Len(d), NEW k, NEW s, NEW m, \A i \in a + 1 .. b : d[i].txn \notin DOMAIN m
    PROVE  Ran(k, s, m, d, from, b) = Ran(k, s, m, d, from, a)
<1> DEFINE T == {n \in a .. b : Ran(k, s, m, d, from, n) = Ran(k, s, m, d, from, a)}
<1>1. a \in T
  OBVIOUS
<1>2. ASSUME NEW n \in a .. b, n \in T, n < b
      PROVE  n + 1 \in T
  <2>1. n \in Nat /\ n + 1 <= Len(d) /\ from <= n /\ n + 1 \in a + 1 .. b /\ n + 1 \in a .. b
    BY <1>2, LenProperties
  <2>5. from \in Nat /\ n \in Nat /\ from <= n /\ n + 1 <= Len(d) /\ d \in Seq(S)
    BY <2>1
  <2>2. Ran(k, s, m, d, from, n + 1) = Step(k, Ran(k, s, m, d, from, n), d[n + 1], m)
    BY ONLY <2>5, RanNext
  <2>3. d[n + 1].txn \notin DOMAIN m
    <3>1. PICK i : i = n + 1
      OBVIOUS
    <3>2. i \in a + 1 .. b
      BY <2>1, <3>1
    <3>3. d[i].txn \notin DOMAIN m
      BY <3>2
    <3> QED BY ONLY <3>1, <3>3
  <2>4. Ran(k, s, m, d, from, n + 1) = Ran(k, s, m, d, from, n)
    BY <2>2, <2>3 DEF Step
  <2> QED BY <1>2, <2>1, <2>4
<1>3. \A n \in a .. b : n \in T
  <2> HIDE DEF T
  <2> QED BY <1>1, <1>2, UpTo
<1>4. b \in a .. b
  OBVIOUS
<1> QED BY <1>3, <1>4

\* The same wherever the replay begins.
LEMMA RanSkips ==
    ASSUME NEW S, NEW d \in Seq(S), NEW from \in Nat, NEW a \in Nat, NEW b \in Nat, a <= b,
           b <= Len(d), NEW k, NEW s, NEW m, \A i \in a + 1 .. b : d[i].txn \notin DOMAIN m
    PROVE  Ran(k, s, m, d, from, b) = Ran(k, s, m, d, from, a)
<1>0. Len(d) \in Nat /\ a <= Len(d)
  BY LenProperties
<1>1. CASE from <= a
  BY <1>1, RanPasses
<1>2. CASE ~(from <= a) /\ b <= from
  <2>1. a <= from
    BY <1>2
  <2>2. Ran(k, s, m, d, from, b) = s
    BY <1>2, RanNothing
  <2>3. Ran(k, s, m, d, from, a) = s
    BY <1>0, <2>1, RanNothing
  <2> QED BY <2>2, <2>3
<1>3. CASE ~(from <= a) /\ ~(b <= from)
  <2>1. a <= from /\ from <= b /\ from <= from /\ from <= Len(d)
    BY <1>0, <1>3
  <2>2. Ran(k, s, m, d, from, a) = s /\ Ran(k, s, m, d, from, from) = s
    BY <1>0, <2>1, RanNothing
  <2>3. \A i \in from + 1 .. b : d[i].txn \notin DOMAIN m
    <3>1. \A i \in from + 1 .. b : i \in a + 1 .. b
      BY <1>3
    <3> QED BY <3>1
  <2>4. Ran(k, s, m, d, from, b) = Ran(k, s, m, d, from, from)
    BY <2>1, <2>3, RanPasses
  <2> QED BY <2>2, <2>4
<1> QED BY <1>1, <1>2, <1>3

\* Replay makes stores of stores.
LEMMA StepTyped ==
    ASSUME NEW k, NEW s \in Stores, NEW r \in DataRecs(k), NEW m, \A t \in DOMAIN m : m[t] \in Nat
    PROVE  Step(k, s, r, m) \in Stores
<1>1. CASE r.txn \notin DOMAIN m
  BY <1>1 DEF Step
<1>2. CASE r.txn \in DOMAIN m /\ k = "node"
  <2>1. PICK v \in Nat : v = m[r.txn]
    BY <1>2
  <2>2. r \in NodeRecs
    BY <1>2 DEF DataRecs
  <2>3. r.id \in Nodes /\ ApplyNodes(s, NodeWrite(r)) \in [Nodes -> Values \cup {None}]
    BY <2>2 DEF NodeRecs, ApplyNodes, NodeWrite, NoWrites, Stores
  <2>4. NodeReplayed(s, r, v) \in Stores
    BY <2>1, <2>3 DEF NodeReplayed, Stores
  <2> QED BY <1>2, <2>1, <2>4 DEF Step
<1>3. CASE r.txn \in DOMAIN m /\ k # "node"
  <2>1. PICK v \in Nat : v = m[r.txn]
    BY <1>3
  <2>2. r \in EdgeRecs
    BY <1>3 DEF DataRecs
  <2>3. PICK w : w = EdgeWrite(r)
    OBVIOUS
  <2>4. r.id \in Edges /\ w \in WriteSets
    BY <2>2, <2>3 DEF EdgeRecs, EdgeWrite, NoWrites, WriteSets, WriteRecords
  <2>5. ApplyWrites(s, w) \in Stores
    BY <2>4, ApplyWritesType
  <2>6. ApplyEdges(s, w) \in [Edges -> EdgeRecords \cup {None}] /\ ApplyParents(s, w) \in [Nodes -> Edges \cup {None}]
    BY <2>5 DEF ApplyWrites, Stores
  <2>7. EdgeReplayed(s, r, v) \in Stores
    BY <2>1, <2>3, <2>4, <2>6 DEF EdgeReplayed, Stores
  <2> QED BY <1>3, <2>1, <2>7 DEF Step
<1> QED BY <1>1, <1>2, <1>3

\* What replayNodeSegmentFrom and replayEdgeSegmentFrom make of a store is a
\* store.
LEMMA RanTyped ==
    ASSUME NEW k, NEW S, NEW d \in Seq(S), NEW from \in Nat, NEW n \in Nat, n <= Len(d),
           \A i \in 1 .. n : d[i] \in DataRecs(k), NEW s \in Stores, NEW m, \A t \in DOMAIN m : m[t] \in Nat
    PROVE  Ran(k, s, m, d, from, n) \in Stores
<1>1. CASE n <= from
  <2>1. Ran(k, s, m, d, from, n) = s
    BY <1>1, RanNothing
  <2> QED BY <2>1
<1>2. CASE ~(n <= from)
  <2> DEFINE T == {j \in from .. n : Ran(k, s, m, d, from, j) \in Stores}
  <2>0. Len(d) \in Nat
    BY LenProperties
  <2>1. from \in T
    <3>1. from <= Len(d) /\ from <= from /\ from \in from .. n
      BY <1>2, <2>0
    <3>2. Ran(k, s, m, d, from, from) = s
      BY <3>1, RanNothing
    <3> QED BY <3>1, <3>2
  <2>2. ASSUME NEW j \in from .. n, j \in T, j < n
        PROVE  j + 1 \in T
    <3>1. j \in Nat /\ j + 1 <= Len(d) /\ from <= j /\ j + 1 \in 1 .. n /\ j + 1 \in from .. n
      BY <2>0, <2>2
    <3>2. Ran(k, s, m, d, from, j + 1) = Step(k, Ran(k, s, m, d, from, j), d[j + 1], m)
      BY <3>1, RanNext
    <3>3. d[j + 1] \in DataRecs(k)
      BY <3>1
    <3>4. PICK x \in Stores : x = Ran(k, s, m, d, from, j)
      BY <2>2
    <3>5. Step(k, x, d[j + 1], m) \in Stores
      BY <3>3, StepTyped
    <3> QED BY <3>1, <3>2, <3>4, <3>5
  <2>3. \A j \in from .. n : j \in T
    <3> HIDE DEF T
    <3> QED BY <2>1, <2>2, UpTo
  <2>4. n \in from .. n
    BY <1>2
  <2> QED BY <2>3, <2>4
<1> QED BY <1>1, <1>2

-----------------------------------------------------------------------------
(* The replay of one transaction is its application.                       *)

\* The records of a transaction in a data segment.
PutsOf(t, ids, puts) == {[kind |-> "put", txn |-> t, id |-> x, val |-> puts[x]] : x \in {y \in ids : puts[y] # None}}
TombstonesOf(t, deletes) == {[kind |-> "tombstone", txn |-> t, id |-> x] : x \in deletes}
RecordsOf(k, t, w) ==
    IF k = "node" THEN PutsOf(t, Nodes, w.nodePuts) \cup TombstonesOf(t, w.nodeDeletes)
    ELSE PutsOf(t, Edges, w.edgePuts) \cup TombstonesOf(t, w.edgeDeletes)

\* What the transaction leaves of an entity.
NodeTarget(w, n) == IF n \in w.nodeDeletes THEN None ELSE w.nodePuts[n]
EdgeTarget(w, e) == IF e \in w.edgeDeletes THEN None ELSE w.edgePuts[e]

\* Store z is store x with the records of the nodes in P applied, as of revision v.
NodesBetween(z, x, w, P, v) ==
    /\ \A n \in Nodes : z.nodes[n] = IF n \in P THEN NodeTarget(w, n) ELSE x.nodes[n]
    /\ \A n \in Nodes : z.nodeMod[n] = IF n \in P THEN v ELSE x.nodeMod[n]

EdgesBetween(z, x, w, P, v) ==
    /\ \A e \in Edges : z.edges[e] = IF e \in P THEN EdgeTarget(w, e) ELSE x.edges[e]
    /\ \A e \in Edges : z.edgeMod[e] = IF e \in P THEN v ELSE x.edgeMod[e]
    /\ \A c \in Nodes : \/ \E e \in P : e \in NewParents(w, c) /\ z.parent[c] = e
                        \/ /\ P \cap NewParents(w, c) = {}
                           /\ z.parent[c] = IF x.parent[c] \in P THEN None ELSE x.parent[c]

\* The node records CommitWithInfo writes are of its transaction and of nodes
\* it writes.
LEMMA NodeRecordTyped ==
    ASSUME NEW t \in Nat, NEW w \in WriteSets, NEW r \in RecordsOf("node", t, w)
    PROVE  r \in NodeRecs /\ r.txn = t /\ r.id \in WrittenNodes(w)
<1>1. r \in PutsOf(t, Nodes, w.nodePuts) \/ r \in TombstonesOf(t, w.nodeDeletes)
  BY DEF RecordsOf
<1>2. CASE r \in PutsOf(t, Nodes, w.nodePuts)
  <2>1. PICK n \in Nodes : w.nodePuts[n] # None /\ r = [kind |-> "put", txn |-> t, id |-> n, val |-> w.nodePuts[n]]
    BY <1>2 DEF PutsOf
  <2>2. w.nodePuts[n] \in Values
    BY <2>1 DEF WriteSets, WriteRecords
  <2> QED BY <2>1, <2>2 DEF NodeRecs, WrittenNodes
<1>3. CASE r \in TombstonesOf(t, w.nodeDeletes)
  <2>1. PICK n \in w.nodeDeletes : r = [kind |-> "tombstone", txn |-> t, id |-> n]
    BY <1>3 DEF TombstonesOf
  <2>2. n \in Nodes
    BY <2>1 DEF WriteSets, WriteRecords
  <2> QED BY <2>1, <2>2 DEF NodeRecs, WrittenNodes
<1> QED BY <1>1, <1>2, <1>3

\* The same for its edge records.
LEMMA EdgeRecordTyped ==
    ASSUME NEW t \in Nat, NEW w \in WriteSets, NEW r \in RecordsOf("edge", t, w)
    PROVE  r \in EdgeRecs /\ r.txn = t /\ r.id \in WrittenEdges(w)
<1>1. r \in PutsOf(t, Edges, w.edgePuts) \/ r \in TombstonesOf(t, w.edgeDeletes)
  BY DEF RecordsOf
<1>2. CASE r \in PutsOf(t, Edges, w.edgePuts)
  <2>1. PICK n \in Edges : w.edgePuts[n] # None /\ r = [kind |-> "put", txn |-> t, id |-> n, val |-> w.edgePuts[n]]
    BY <1>2 DEF PutsOf
  <2>2. w.edgePuts[n] \in EdgeRecords
    BY <2>1 DEF WriteSets, WriteRecords
  <2> QED BY <2>1, <2>2 DEF EdgeRecs, WrittenEdges
<1>3. CASE r \in TombstonesOf(t, w.edgeDeletes)
  <2>1. PICK n \in w.edgeDeletes : r = [kind |-> "tombstone", txn |-> t, id |-> n]
    BY <1>3 DEF TombstonesOf
  <2>2. n \in Edges
    BY <2>1 DEF WriteSets, WriteRecords
  <2> QED BY <2>1, <2>2 DEF EdgeRecs, WrittenEdges
<1> QED BY <1>1, <1>2, <1>3

\* Every node written has a record, and only those have.
LEMMA NodeRecordOf ==
    ASSUME NEW t \in Nat, NEW w \in WriteSets, NEW n \in WrittenNodes(w)
    PROVE  \E r \in RecordsOf("node", t, w) : r.id = n
<1>1. CASE n \in w.nodeDeletes
  <2>1. [kind |-> "tombstone", txn |-> t, id |-> n] \in RecordsOf("node", t, w)
    BY <1>1 DEF RecordsOf, TombstonesOf
  <2> QED BY <2>1
<1>2. CASE n \notin w.nodeDeletes
  <2>1. n \in Nodes /\ w.nodePuts[n] # None
    BY <1>2 DEF WrittenNodes
  <2>2. [kind |-> "put", txn |-> t, id |-> n, val |-> w.nodePuts[n]] \in RecordsOf("node", t, w)
    BY <2>1 DEF RecordsOf, PutsOf
  <2> QED BY <2>2
<1> QED BY <1>1, <1>2

\* Every edge written has a record.
LEMMA EdgeRecordOf ==
    ASSUME NEW t \in Nat, NEW w \in WriteSets, NEW e \in WrittenEdges(w)
    PROVE  \E r \in RecordsOf("edge", t, w) : r.id = e
<1>1. CASE e \in w.edgeDeletes
  <2>1. [kind |-> "tombstone", txn |-> t, id |-> e] \in RecordsOf("edge", t, w)
    BY <1>1 DEF RecordsOf, TombstonesOf
  <2> QED BY <2>1
<1>2. CASE e \notin w.edgeDeletes
  <2>1. e \in Edges /\ w.edgePuts[e] # None
    BY <1>2 DEF WrittenEdges
  <2>2. [kind |-> "put", txn |-> t, id |-> e, val |-> w.edgePuts[e]] \in RecordsOf("edge", t, w)
    BY <2>1 DEF RecordsOf, PutsOf
  <2> QED BY <2>2
<1> QED BY <1>1, <1>2

\* One node record more.
LEMMA NodeStep ==
    ASSUME NEW t \in Nat, NEW w \in WriteSets, NEW r \in RecordsOf("node", t, w), NEW m, t \in DOMAIN m,
           NEW z \in Stores, NEW x \in Stores, NEW P, NodesBetween(z, x, w, P, m[t])
    PROVE  NodesBetween(Step("node", z, r, m), x, w, P \cup {r.id}, m[t])
<1>1. PICK v : v = m[t]
  OBVIOUS
<1>2. r.txn = t /\ r.id \in Nodes
  BY NodeRecordTyped DEF WrittenNodes, WriteSets, WriteRecords
<1>3. PICK y : y = Step("node", z, r, m)
  OBVIOUS
<1>4. y = NodeReplayed(z, r, v)
  BY <1>1, <1>2, <1>3 DEF Step
<1>5. PICK u : u = NodeWrite(r)
  OBVIOUS
<1>6. y.nodes = ApplyNodes(z, u) /\ y.nodeMod = [z.nodeMod EXCEPT ![r.id] = v]
  BY <1>4, <1>5 DEF NodeReplayed, Stores
<1>7. ASSUME NEW n \in Nodes
      PROVE  ApplyNodes(z, u)[n] = IF n = r.id THEN NodeTarget(w, n) ELSE z.nodes[n]
  <2>1. CASE r \in PutsOf(t, Nodes, w.nodePuts)
    <3>1. PICK k \in Nodes : w.nodePuts[k] # None /\ r = [kind |-> "put", txn |-> t, id |-> k, val |-> w.nodePuts[k]]
      BY <2>1 DEF PutsOf
    <3>2. u.nodePuts = [NoWrites.nodePuts EXCEPT ![k] = w.nodePuts[k]] /\ u.nodeDeletes = {}
      BY <1>5, <3>1 DEF NodeWrite, NoWrites
    <3>3. k \notin w.nodeDeletes /\ r.id = k
      BY <3>1 DEF WriteSets
    <3> QED BY <3>1, <3>2, <3>3 DEF ApplyNodes, NodeTarget, NoWrites
  <2>2. CASE r \in TombstonesOf(t, w.nodeDeletes)
    <3>1. PICK k \in w.nodeDeletes : r = [kind |-> "tombstone", txn |-> t, id |-> k]
      BY <2>2 DEF TombstonesOf
    <3>2. u.nodePuts = NoWrites.nodePuts /\ u.nodeDeletes = {k} /\ r.id = k
      BY <1>5, <3>1 DEF NodeWrite, NoWrites
    <3> QED BY <3>1, <3>2 DEF ApplyNodes, NodeTarget, NoWrites
  <2> QED BY <2>1, <2>2 DEF RecordsOf
<1>8. ASSUME NEW n \in Nodes
      PROVE  y.nodes[n] = IF n \in P \cup {r.id} THEN NodeTarget(w, n) ELSE x.nodes[n]
  BY <1>6, <1>7 DEF NodesBetween
<1>9. ASSUME NEW n \in Nodes
      PROVE  y.nodeMod[n] = IF n \in P \cup {r.id} THEN v ELSE x.nodeMod[n]
  BY <1>1, <1>2, <1>6 DEF NodesBetween, Stores
<1> QED BY <1>1, <1>3, <1>8, <1>9 DEF NodesBetween

\* One edge record more.
LEMMA EdgeStep ==
    ASSUME NEW t \in Nat, NEW w \in WriteSets, NEW r \in RecordsOf("edge", t, w), NEW m, t \in DOMAIN m,
           NEW z \in Stores, NEW x \in Stores, NEW P, EdgesBetween(z, x, w, P, m[t]),
           ParentIndexExact(x), ~ParentConflict(x, w)
    PROVE  EdgesBetween(Step("edge", z, r, m), x, w, P \cup {r.id}, m[t])
<1>1. PICK v : v = m[t]
  OBVIOUS
<1>2. r.txn = t /\ r.id \in Edges
  BY EdgeRecordTyped DEF WrittenEdges, WriteSets, WriteRecords
<1>3. PICK y : y = Step("edge", z, r, m)
  OBVIOUS
<1>4. y = EdgeReplayed(z, r, v)
  BY <1>1, <1>2, <1>3 DEF Step
<1>5. PICK u : u = EdgeWrite(r)
  OBVIOUS
<1>6. y.edges = ApplyEdges(z, u) /\ y.edgeMod = [z.edgeMod EXCEPT ![r.id] = v] /\ y.parent = ApplyParents(z, u)
  BY <1>4, <1>5 DEF EdgeReplayed, Stores
<1>a. PICK k \in Edges : k = r.id
  BY <1>2
<1>7. \/ /\ w.edgePuts[k] # None /\ k \notin w.edgeDeletes
         /\ u.edgePuts = [NoWrites.edgePuts EXCEPT ![k] = w.edgePuts[k]] /\ u.edgeDeletes = {}
      \/ k \in w.edgeDeletes /\ w.edgePuts[k] = None /\ u.edgePuts = NoWrites.edgePuts /\ u.edgeDeletes = {k}
  <2>1. CASE r \in PutsOf(t, Edges, w.edgePuts)
    <3>1. PICK e \in Edges : w.edgePuts[e] # None /\ r = [kind |-> "put", txn |-> t, id |-> e, val |-> w.edgePuts[e]]
      BY <2>1 DEF PutsOf
    <3>2. k = e
      BY <1>a, <3>1
    <3>3. u.edgePuts = [NoWrites.edgePuts EXCEPT ![e] = w.edgePuts[e]] /\ u.edgeDeletes = {}
      BY <1>5, <3>1 DEF EdgeWrite, NoWrites
    <3>4. e \notin w.edgeDeletes
      BY <3>1 DEF WriteSets
    <3> QED BY <3>1, <3>2, <3>3, <3>4
  <2>2. CASE r \in TombstonesOf(t, w.edgeDeletes)
    <3>1. PICK e \in w.edgeDeletes : r = [kind |-> "tombstone", txn |-> t, id |-> e]
      BY <2>2 DEF TombstonesOf
    <3>2. k = e
      BY <1>a, <3>1
    <3>3. u.edgePuts = NoWrites.edgePuts /\ u.edgeDeletes = {e}
      BY <1>5, <3>1 DEF EdgeWrite, NoWrites
    <3>4. w.edgePuts[e] = None
      BY <3>1 DEF WriteSets
    <3> QED BY <3>1, <3>2, <3>3, <3>4
  <2> QED BY <2>1, <2>2 DEF RecordsOf
<1>8. ASSUME NEW e \in Edges
      PROVE  y.edges[e] = IF e \in P \cup {k} THEN EdgeTarget(w, e) ELSE x.edges[e]
  <2>1. ApplyEdges(z, u)[e] = IF e = k THEN EdgeTarget(w, e) ELSE z.edges[e]
    BY <1>7 DEF ApplyEdges, EdgeTarget, NoWrites
  <2> QED BY <1>6, <2>1 DEF EdgesBetween
<1>9. ASSUME NEW e \in Edges
      PROVE  y.edgeMod[e] = IF e \in P \cup {k} THEN v ELSE x.edgeMod[e]
  BY <1>1, <1>a, <1>6 DEF EdgesBetween, Stores
<1>10. WrittenEdges(u) = {k}
  BY <1>7 DEF WrittenEdges, NoWrites
<1>11. ASSUME NEW c \in Nodes
       PROVE  NewParents(u, c) = IF k \in NewParents(w, c) THEN {k} ELSE {}
  <2>1. CASE w.edgePuts[k] # None /\ k \notin w.edgeDeletes
             /\ u.edgePuts = [NoWrites.edgePuts EXCEPT ![k] = w.edgePuts[k]]
    BY <2>1 DEF NewParents, NoWrites
  <2>2. CASE w.edgePuts[k] = None /\ u.edgePuts = NoWrites.edgePuts
    BY <2>2 DEF NewParents, NoWrites
  <2> QED BY <1>7, <2>1, <2>2
<1>12. ASSUME NEW c \in Nodes
       PROVE  \/ \E e \in P \cup {k} : e \in NewParents(w, c) /\ y.parent[c] = e
              \/ /\ (P \cup {k}) \cap NewParents(w, c) = {}
                 /\ y.parent[c] = IF x.parent[c] \in P \cup {k} THEN None ELSE x.parent[c]
  <2>1. CASE k \in NewParents(w, c)
    <3>1. y.parent[c] = CHOOSE e \in {k} : TRUE
      BY <1>6, <1>11, <2>1 DEF ApplyParents
    <3>2. y.parent[c] = k
      BY <3>1
    <3> QED BY <2>1, <3>2
  <2>2. CASE k \notin NewParents(w, c)
    <3>1. y.parent[c] = IF z.parent[c] = k /\ z.edges[k] # None /\ z.edges[k].contains /\ z.edges[k].to = c
                        THEN None ELSE z.parent[c]
      BY <1>6, <1>10, <1>11, <2>2 DEF ApplyParents
    <3>2. CASE \E e \in P : e \in NewParents(w, c) /\ z.parent[c] = e
      <4>1. PICK e \in P : e \in NewParents(w, c) /\ z.parent[c] = e
        BY <3>2
      <4>2. e # k
        BY <2>2, <4>1
      <4>3. y.parent[c] = e
        BY <3>1, <4>1, <4>2
      <4> QED BY <4>1, <4>3
    <3>3. CASE P \cap NewParents(w, c) = {} /\ z.parent[c] = IF x.parent[c] \in P THEN None ELSE x.parent[c]
      <4>1. (P \cup {k}) \cap NewParents(w, c) = {}
        BY <2>2, <3>3
      <4>2. k # None
        BY NoneAssumption
      <4>3. CASE z.parent[c] = k
        <5>1. x.parent[c] = k /\ k \notin P
          BY <3>3, <4>2, <4>3
        <5>2. z.edges[k] = x.edges[k]
          BY <5>1 DEF EdgesBetween
        <5>3. x.edges[k] # None /\ x.edges[k].contains /\ x.edges[k].to = c
          BY <5>1 DEF ParentIndexExact
        <5>4. y.parent[c] = None
          BY <3>1, <4>3, <5>2, <5>3
        <5> QED BY <4>1, <5>1, <5>4
      <4>4. CASE z.parent[c] # k
        <5>1. y.parent[c] = z.parent[c]
          BY <3>1, <4>4
        <5>2. CASE x.parent[c] = k
          <6>1. k \in P
            BY <3>3, <4>4, <5>2
          <6>2. y.parent[c] = None
            BY <3>3, <5>1, <5>2, <6>1
          <6> QED BY <4>1, <5>2, <6>2
        <5>3. CASE x.parent[c] # k
          <6>1. x.parent[c] \in P \cup {k} <=> x.parent[c] \in P
            BY <5>3
          <6> QED BY <3>3, <4>1, <5>1, <6>1
        <5> QED BY <5>2, <5>3
      <4> QED BY <4>3, <4>4
    <3> QED BY <3>2, <3>3 DEF EdgesBetween
  <2> QED BY <2>1, <2>2
<1> QED BY <1>1, <1>3, <1>a, <1>8, <1>9, <1>12 DEF EdgesBetween

\* The records from index a + 1 to b.
Between(d, a, b) == {d[i] : i \in a + 1 .. b}

\* The records from a + 1 to b of the node segment are those of transaction t.
LEMMA RanNodes ==
    ASSUME NEW S, NEW d \in Seq(S), NEW from \in Nat, NEW a \in Nat, NEW b \in Nat, from <= a, a <= b, b <= Len(d),
           NEW s \in Stores, NEW m, \A u \in DOMAIN m : m[u] \in Nat,
           NEW t \in Nat, t \in DOMAIN m, NEW w \in WriteSets,
           \A i \in 1 .. b : d[i] \in NodeRecs,
           Between(d, a, b) = RecordsOf("node", t, w), NEW x, x = Ran("node", s, m, d, from, a)
    PROVE  /\ Ran("node", s, m, d, from, b).nodes = ApplyNodes(x, w)
           /\ Ran("node", s, m, d, from, b).nodeMod =
                  [n \in Nodes |-> IF n \in WrittenNodes(w) THEN m[t] ELSE x.nodeMod[n]]
<1> DEFINE Ids(j) == {d[i].id : i \in a + 1 .. j}
           R(j) == Ran("node", s, m, d, from, j)
           T == {j \in a .. b : NodesBetween(R(j), x, w, Ids(j), m[t])}
<1>0. Len(d) \in Nat /\ a <= Len(d) /\ (\A i \in 1 .. b : d[i] \in DataRecs("node"))
  BY LenProperties DEF DataRecs
<1>1. ASSUME NEW j \in a .. b PROVE R(j) \in Stores
  <2>1. j \in Nat /\ j <= Len(d) /\ (\A i \in 1 .. j : i \in 1 .. b)
    BY <1>0
  <2> QED BY <1>0, <2>1, RanTyped
<1>2. x \in Stores
  <2>1. a \in a .. b
    OBVIOUS
  <2> QED BY <1>1, <2>1
<1>3. a \in T
  <2>1. Ids(a) = {} /\ a \in a .. b
    OBVIOUS
  <2>2. NodesBetween(x, x, w, {}, m[t])
    BY DEF NodesBetween
  <2> HIDE DEF Ids
  <2> QED BY <2>1, <2>2
<1>4. ASSUME NEW j \in a .. b, j \in T, j < b
      PROVE  j + 1 \in T
  <2>1. j \in Nat /\ j + 1 <= Len(d) /\ from <= j /\ j + 1 \in a + 1 .. b /\ j + 1 \in a .. b
    BY <1>0, <1>4
  <2>2. R(j + 1) = Step("node", R(j), d[j + 1], m)
    BY <2>1, RanNext
  <2>3. d[j + 1] \in RecordsOf("node", t, w)
    BY <2>1 DEF Between
  <2>4. NodesBetween(R(j), x, w, Ids(j), m[t])
    BY <1>4
  <2>5. R(j) \in Stores
    BY <1>1, <1>4
  <2>6. PICK z, r, P : z = R(j) /\ r = d[j + 1] /\ P = Ids(j)
    OBVIOUS
  <2>7. NodesBetween(Step("node", z, r, m), x, w, P \cup {r.id}, m[t])
    BY <1>2, <2>3, <2>4, <2>5, <2>6, NodeStep
  <2>8. Ids(j + 1) = P \cup {r.id}
    <3>1. a + 1 .. j + 1 = (a + 1 .. j) \cup {j + 1}
      BY <2>1
    <3> QED BY <2>6, <3>1
  <2>9. NodesBetween(R(j + 1), x, w, Ids(j + 1), m[t])
    BY <2>2, <2>6, <2>7, <2>8
  <2> QED BY <2>1, <2>9
<1>5. \A j \in a .. b : j \in T
  <2> HIDE DEF T
  <2> QED BY <1>3, <1>4, UpTo
<1>6. NodesBetween(R(b), x, w, Ids(b), m[t])
  <2>1. b \in a .. b
    OBVIOUS
  <2> QED BY <1>5, <2>1
<1>7. Ids(b) = WrittenNodes(w)
  <2>1. ASSUME NEW n \in Ids(b) PROVE n \in WrittenNodes(w)
    <3>1. PICK i \in a + 1 .. b : n = d[i].id
      BY <2>1
    <3>2. d[i] \in RecordsOf("node", t, w)
      BY DEF Between
    <3> QED BY <3>1, <3>2, NodeRecordTyped
  <2>2. ASSUME NEW n \in WrittenNodes(w) PROVE n \in Ids(b)
    <3>1. PICK r \in RecordsOf("node", t, w) : r.id = n
      BY NodeRecordOf
    <3>2. PICK i \in a + 1 .. b : r = d[i]
      BY <3>1 DEF Between
    <3> QED BY <3>1, <3>2
  <2> QED BY <2>1, <2>2
<1> HIDE DEF Ids
<1>8. PICK y \in Stores : y = Ran("node", s, m, d, from, b)
  <2>1. b \in a .. b
    OBVIOUS
  <2> QED BY <1>1, <2>1
<1>9. NodesBetween(y, x, w, WrittenNodes(w), m[t])
  BY <1>6, <1>7, <1>8
<1>10. y.nodes = ApplyNodes(x, w)
  <2>1. \A n \in Nodes : y.nodes[n] = ApplyNodes(x, w)[n]
    BY <1>9 DEF NodesBetween, ApplyNodes, NodeTarget, WrittenNodes, WriteSets
  <2> QED BY <2>1 DEF Stores, ApplyNodes
<1>11. y.nodeMod = [n \in Nodes |-> IF n \in WrittenNodes(w) THEN m[t] ELSE x.nodeMod[n]]
  BY <1>9 DEF NodesBetween, Stores
<1> QED BY <1>8, <1>10, <1>11

\* Those of the edge segment, on a store whose parent index is exact.
LEMMA RanEdges ==
    ASSUME NEW S, NEW d \in Seq(S), NEW from \in Nat, NEW a \in Nat, NEW b \in Nat, from <= a, a <= b, b <= Len(d),
           NEW s \in Stores, NEW m, \A u \in DOMAIN m : m[u] \in Nat,
           NEW t \in Nat, t \in DOMAIN m, NEW w \in WriteSets,
           \A i \in 1 .. b : d[i] \in EdgeRecs,
           Between(d, a, b) = RecordsOf("edge", t, w), NEW x, x = Ran("edge", s, m, d, from, a),
           ParentIndexExact(x), ~ParentConflict(x, w)
    PROVE  /\ Ran("edge", s, m, d, from, b).edges = ApplyEdges(x, w)
           /\ Ran("edge", s, m, d, from, b).parent = ApplyParents(x, w)
           /\ Ran("edge", s, m, d, from, b).edgeMod =
                  [e \in Edges |-> IF e \in WrittenEdges(w) THEN m[t] ELSE x.edgeMod[e]]
<1> DEFINE Ids(j) == {d[i].id : i \in a + 1 .. j}
           R(j) == Ran("edge", s, m, d, from, j)
           T == {j \in a .. b : EdgesBetween(R(j), x, w, Ids(j), m[t])}
<1>0. Len(d) \in Nat /\ a <= Len(d) /\ (\A i \in 1 .. b : d[i] \in DataRecs("edge"))
  BY LenProperties DEF DataRecs
<1>1. ASSUME NEW j \in a .. b PROVE R(j) \in Stores
  <2>1. j \in Nat /\ j <= Len(d) /\ (\A i \in 1 .. j : i \in 1 .. b)
    BY <1>0
  <2> QED BY <1>0, <2>1, RanTyped
<1>2. x \in Stores
  <2>1. a \in a .. b
    OBVIOUS
  <2> QED BY <1>1, <2>1
<1>3. a \in T
  <2>1. Ids(a) = {} /\ a \in a .. b
    OBVIOUS
  <2>2. EdgesBetween(x, x, w, {}, m[t])
    BY DEF EdgesBetween
  <2> HIDE DEF Ids
  <2> QED BY <2>1, <2>2
<1>4. ASSUME NEW j \in a .. b, j \in T, j < b
      PROVE  j + 1 \in T
  <2>1. j \in Nat /\ j + 1 <= Len(d) /\ from <= j /\ j + 1 \in a + 1 .. b /\ j + 1 \in a .. b
    BY <1>0, <1>4
  <2>2. R(j + 1) = Step("edge", R(j), d[j + 1], m)
    BY <2>1, RanNext
  <2>3. d[j + 1] \in RecordsOf("edge", t, w)
    BY <2>1 DEF Between
  <2>4. EdgesBetween(R(j), x, w, Ids(j), m[t])
    BY <1>4
  <2>5. R(j) \in Stores
    BY <1>1, <1>4
  <2>6. PICK z, r, P : z = R(j) /\ r = d[j + 1] /\ P = Ids(j)
    OBVIOUS
  <2>7. EdgesBetween(Step("edge", z, r, m), x, w, P \cup {r.id}, m[t])
    BY <1>2, <2>3, <2>4, <2>5, <2>6, EdgeStep
  <2>8. Ids(j + 1) = P \cup {r.id}
    <3>1. a + 1 .. j + 1 = (a + 1 .. j) \cup {j + 1}
      BY <2>1
    <3> QED BY <2>6, <3>1
  <2>9. EdgesBetween(R(j + 1), x, w, Ids(j + 1), m[t])
    BY <2>2, <2>6, <2>7, <2>8
  <2> QED BY <2>1, <2>9
<1>5. \A j \in a .. b : j \in T
  <2> HIDE DEF T
  <2> QED BY <1>3, <1>4, UpTo
<1>6. EdgesBetween(R(b), x, w, Ids(b), m[t])
  <2>1. b \in a .. b
    OBVIOUS
  <2> QED BY <1>5, <2>1
<1>7. Ids(b) = WrittenEdges(w)
  <2>1. ASSUME NEW n \in Ids(b) PROVE n \in WrittenEdges(w)
    <3>1. PICK i \in a + 1 .. b : n = d[i].id
      BY <2>1
    <3>2. d[i] \in RecordsOf("edge", t, w)
      BY DEF Between
    <3> QED BY <3>1, <3>2, EdgeRecordTyped
  <2>2. ASSUME NEW n \in WrittenEdges(w) PROVE n \in Ids(b)
    <3>1. PICK r \in RecordsOf("edge", t, w) : r.id = n
      BY EdgeRecordOf
    <3>2. PICK i \in a + 1 .. b : r = d[i]
      BY <3>1 DEF Between
    <3> QED BY <3>1, <3>2
  <2> QED BY <2>1, <2>2
<1> HIDE DEF Ids
<1>8. PICK y \in Stores : y = Ran("edge", s, m, d, from, b)
  <2>1. b \in a .. b
    OBVIOUS
  <2> QED BY <1>1, <2>1
<1>9. EdgesBetween(y, x, w, WrittenEdges(w), m[t])
  BY <1>6, <1>7, <1>8
<1>10. y.edges = ApplyEdges(x, w)
  <2>1. \A e \in Edges : y.edges[e] = ApplyEdges(x, w)[e]
    BY <1>9 DEF EdgesBetween, ApplyEdges, EdgeTarget, WrittenEdges, WriteSets
  <2> QED BY <2>1 DEF Stores, ApplyEdges
<1>11. y.edgeMod = [e \in Edges |-> IF e \in WrittenEdges(w) THEN m[t] ELSE x.edgeMod[e]]
  BY <1>9 DEF EdgesBetween, Stores
<1>12. ASSUME NEW c \in Nodes
       PROVE  y.parent[c] = ApplyParents(x, w)[c]
  <2>1. \A e, f \in NewParents(w, c) : e = f
    BY DEF ParentConflict, NewParents
  <2>2. NewParents(w, c) \subseteq WrittenEdges(w)
    BY DEF NewParents, WrittenEdges
  <2>3. CASE \E e \in WrittenEdges(w) : e \in NewParents(w, c) /\ y.parent[c] = e
    <3>1. NewParents(w, c) # {}
      BY <2>3
    <3>2. y.parent[c] \in NewParents(w, c)
      BY <2>3
    <3>3. ApplyParents(x, w)[c] = CHOOSE e \in NewParents(w, c) : TRUE
      BY <3>1 DEF ApplyParents
    <3>4. (CHOOSE e \in NewParents(w, c) : TRUE) \in NewParents(w, c)
      BY <3>1
    <3> QED BY <2>1, <3>2, <3>3, <3>4
  <2>4. CASE /\ WrittenEdges(w) \cap NewParents(w, c) = {}
             /\ y.parent[c] = IF x.parent[c] \in WrittenEdges(w) THEN None ELSE x.parent[c]
    <3>1. NewParents(w, c) = {}
      BY <2>2, <2>4
    <3>2. WrittenEdges(w) \subseteq Edges
      BY DEF WrittenEdges, WriteSets, WriteRecords
    <3>3. (\E e \in WrittenEdges(w) : /\ x.parent[c] = e
                                      /\ x.edges[e] # None
                                      /\ x.edges[e].contains
                                      /\ x.edges[e].to = c) <=> x.parent[c] \in WrittenEdges(w)
      BY <3>2 DEF ParentIndexExact
    <3>4. ApplyParents(x, w)[c] = IF x.parent[c] \in WrittenEdges(w) THEN None ELSE x.parent[c]
      BY <3>1, <3>3 DEF ApplyParents
    <3> QED BY <2>4, <3>4
  <2> QED BY <1>9, <2>3, <2>4 DEF EdgesBetween
<1>13. y.parent = ApplyParents(x, w)
  BY <1>12 DEF Stores, ApplyParents
<1> QED BY <1>8, <1>10, <1>11, <1>13

\* What is written to the segments.
Elements(q) == {q[i] : i \in 1 .. Len(q)}

\* The puts of a transaction, in the order of a map walk, are exactly its
\* puts.
LEMMA SetToSeqOf ==
    ASSUME NEW S, IsFiniteSet(S)
    PROVE  /\ SetToSeq(S) \in Seq(S) /\ Len(SetToSeq(S)) \in Nat
           /\ Elements(SetToSeq(S)) = S
<1>1. PICK n \in Nat : n = Cardinality(S)
  BY FS_CardinalityType
<1>2. PICK f : f \in Bijection(1 .. n, S)
  BY <1>1, FS_CardinalityType DEF ExistsBijection
<1>3. f \in [1 .. n -> S] /\ (\A a, b \in 1 .. n : f[a] = f[b] => a = b)
  BY <1>2 DEF Bijection, Injection, IsInjective
<1> DEFINE q == SetToSeq(S)
<1>4. q = CHOOSE g \in [1 .. n -> S] : IsInjective(g)
  BY <1>1 DEF SetToSeq
<1>5. IsInjective(f)
  BY <1>3 DEF IsInjective
<1>6. q \in [1 .. n -> S] /\ IsInjective(q)
  BY <1>3, <1>4, <1>5
<1> HIDE DEF q
<1>7. q \in Seq(S) /\ Len(q) = n
  BY <1>6, SeqDef
<1>8. q \in Injection(1 .. n, S)
  BY <1>6 DEF Injection, IsInjective
<1>9. IsFiniteSet(1 .. n) /\ Cardinality(1 .. n) = n
  BY FS_Interval
<1>10. {q[i] : i \in 1 .. n} = S
  BY <1>1, <1>6, <1>8, <1>9, FS_Injection DEF Surjection
<1>11. Elements(q) = S
  BY <1>7, <1>10 DEF Elements
<1> QED BY <1>7, <1>11 DEF q

\* The image of a finite set under a function.
LEMMA FiniteImage ==
    ASSUME NEW S, NEW f, IsFiniteSet(S)
    PROVE  IsFiniteSet({f[x] : x \in S})
<1> DEFINE T == {f[x] : x \in S}
           g == [x \in S |-> f[x]]
<1>1. g \in Surjection(S, T)
  BY DEF Surjection
<1>2. IsFiniteSet(T)
  <2> HIDE DEF g, T
  <2> QED BY <1>1, FS_Surjection
<1> QED BY <1>2

\* Two written sets one after the other.
LEMMA WrittenRecords ==
    ASSUME NEW S, NEW A, NEW B, A \subseteq S, B \subseteq S, IsFiniteSet(A), IsFiniteSet(B)
    PROVE  (SetToSeq(A) \o SetToSeq(B)) \in Seq(S) /\ Elements(SetToSeq(A) \o SetToSeq(B)) = A \cup B
<1>0. PICK q : q = SetToSeq(A) \o SetToSeq(B)
  OBVIOUS
<1>1. PICK a : a = SetToSeq(A)
  OBVIOUS
<1>2. PICK b : b = SetToSeq(B)
  OBVIOUS
<1>3. a \in Seq(A) /\ Len(a) \in Nat /\ Elements(a) = A
  BY <1>1, SetToSeqOf
<1>4. b \in Seq(B) /\ Len(b) \in Nat /\ Elements(b) = B
  BY <1>2, SetToSeqOf
<1>5. a \in Seq(S) /\ b \in Seq(S)
  BY <1>3, <1>4, SeqMonotonic
<1>6. /\ q \in Seq(S) /\ Len(q) = Len(a) + Len(b)
      /\ \A i \in 1 .. Len(a) + Len(b) : q[i] = IF i <= Len(a) THEN a[i] ELSE b[i - Len(a)]
  BY <1>0, <1>1, <1>2, <1>5, ConcatProperties
<1>7. PICK n \in Nat, m \in Nat : n = Len(a) /\ m = Len(b)
  BY <1>3, <1>4
<1>8. \A i \in 1 .. n + m : q[i] = IF i <= n THEN a[i] ELSE b[i - n]
  BY <1>6, <1>7
<1>9. ASSUME NEW i \in 1 .. n + m PROVE q[i] \in A \cup B
  <2>1. CASE i <= n
    <3>1. i \in 1 .. n
      BY <2>1
    <3>2. a[i] \in A
      BY <1>3, <1>7, <3>1 DEF Elements
    <3> QED BY <1>8, <2>1, <3>2
  <2>2. CASE ~(i <= n)
    <3>1. i - n \in 1 .. m
      BY <2>2
    <3>2. b[i - n] \in B
      BY <1>4, <1>7, <3>1 DEF Elements
    <3> QED BY <1>8, <2>2, <3>2
  <2> QED BY <2>1, <2>2
<1>10. ASSUME NEW x \in A PROVE x \in {q[i] : i \in 1 .. n + m}
  <2>1. PICK i \in 1 .. n : x = a[i]
    BY <1>3, <1>7 DEF Elements
  <2>2. i \in 1 .. n + m /\ i <= n
    OBVIOUS
  <2>3. q[i] = x
    BY <1>8, <2>1, <2>2
  <2> QED BY <2>2, <2>3
<1>11. ASSUME NEW x \in B PROVE x \in {q[i] : i \in 1 .. n + m}
  <2>1. PICK i \in 1 .. m : x = b[i]
    BY <1>4, <1>7 DEF Elements
  <2>2. n + i \in 1 .. n + m /\ ~(n + i <= n) /\ (n + i) - n = i
    OBVIOUS
  <2>3. q[n + i] = x
    BY <1>8, <2>1, <2>2
  <2> QED BY <2>2, <2>3
<1>12. {q[i] : i \in 1 .. n + m} = A \cup B
  BY <1>9, <1>10, <1>11
<1>13. Elements(q) = A \cup B
  BY <1>6, <1>7, <1>12 DEF Elements
<1> QED BY <1>0, <1>6, <1>13

\* What CommitWithInfo appends to the node segment are the node records of the
\* transaction.
LEMMA NodeRecordsOf ==
    ASSUME NEW t \in Nat, NEW w \in WriteSets
    PROVE  /\ NodeRecords(t, w) \in Seq(NodeRecs)
           /\ Elements(NodeRecords(t, w)) = RecordsOf("node", t, w)
<1> DEFINE ids == {m \in Nodes : w.nodePuts[m] # None}
           f == [n \in Nodes |-> [kind |-> "put", txn |-> t, id |-> n, val |-> w.nodePuts[n]]]
           g == [n \in Nodes |-> [kind |-> "tombstone", txn |-> t, id |-> n]]
           A == {[kind |-> "put", txn |-> t, id |-> n, val |-> w.nodePuts[n]] : n \in ids}
           B == {[kind |-> "tombstone", txn |-> t, id |-> n] : n \in w.nodeDeletes}
<1>1. ids \in SUBSET Nodes /\ w.nodeDeletes \in SUBSET Nodes
  BY DEF WriteSets, WriteRecords
<1>2. IsFiniteSet(ids) /\ IsFiniteSet(w.nodeDeletes)
  BY <1>1, FS_Subset, SegmentsAssumption
<1>3. A = {f[n] : n \in ids} /\ B = {g[n] : n \in w.nodeDeletes}
  BY <1>1
<1>4. IsFiniteSet(A) /\ IsFiniteSet(B)
  <2> HIDE DEF A, B, f, g, ids
  <2> QED BY <1>2, <1>3, FiniteImage
<1>5. A = PutsOf(t, Nodes, w.nodePuts) /\ B = TombstonesOf(t, w.nodeDeletes)
  BY DEF PutsOf, TombstonesOf
<1>6. RecordsOf("node", t, w) = A \cup B
  <2> HIDE DEF A, B
  <2> QED BY <1>5 DEF RecordsOf
<1>7. A \cup B \subseteq NodeRecs
  <2> HIDE DEF A, B
  <2> QED BY <1>6, NodeRecordTyped
<1>8. NodeRecords(t, w) = SetToSeq(A) \o SetToSeq(B)
  BY DEF NodeRecords
<1> HIDE DEF A, B, f, g, ids
<1>9. A \subseteq NodeRecs /\ B \subseteq NodeRecs
  BY <1>7
<1>10. (SetToSeq(A) \o SetToSeq(B)) \in Seq(NodeRecs) /\ Elements(SetToSeq(A) \o SetToSeq(B)) = A \cup B
  BY <1>4, <1>9, WrittenRecords
<1> QED BY <1>6, <1>8, <1>10

\* What it appends to the edge segment are its edge records.
LEMMA EdgeRecordsOf ==
    ASSUME NEW t \in Nat, NEW w \in WriteSets
    PROVE  /\ EdgeDataRecords(t, w) \in Seq(EdgeRecs)
           /\ Elements(EdgeDataRecords(t, w)) = RecordsOf("edge", t, w)
<1> DEFINE ids == {f \in Edges : w.edgePuts[f] # None}
           f == [n \in Edges |-> [kind |-> "put", txn |-> t, id |-> n, val |-> w.edgePuts[n]]]
           g == [n \in Edges |-> [kind |-> "tombstone", txn |-> t, id |-> n]]
           A == {[kind |-> "put", txn |-> t, id |-> n, val |-> w.edgePuts[n]] : n \in ids}
           B == {[kind |-> "tombstone", txn |-> t, id |-> n] : n \in w.edgeDeletes}
<1>1. ids \in SUBSET Edges /\ w.edgeDeletes \in SUBSET Edges
  BY DEF WriteSets, WriteRecords
<1>2. IsFiniteSet(ids) /\ IsFiniteSet(w.edgeDeletes)
  BY <1>1, FS_Subset, SegmentsAssumption
<1>3. A = {f[n] : n \in ids} /\ B = {g[n] : n \in w.edgeDeletes}
  BY <1>1
<1>4. IsFiniteSet(A) /\ IsFiniteSet(B)
  <2> HIDE DEF A, B, f, g, ids
  <2> QED BY <1>2, <1>3, FiniteImage
<1>5. A = PutsOf(t, Edges, w.edgePuts) /\ B = TombstonesOf(t, w.edgeDeletes)
  BY DEF PutsOf, TombstonesOf
<1>6. RecordsOf("edge", t, w) = A \cup B
  <2> HIDE DEF A, B
  <2> QED BY <1>5 DEF RecordsOf
<1>7. A \cup B \subseteq EdgeRecs
  <2> HIDE DEF A, B
  <2> QED BY <1>6, EdgeRecordTyped
<1>8. EdgeDataRecords(t, w) = SetToSeq(A) \o SetToSeq(B)
  BY DEF EdgeDataRecords
<1> HIDE DEF A, B, f, g, ids
<1>9. A \subseteq EdgeRecs /\ B \subseteq EdgeRecs
  BY <1>7
<1>10. (SetToSeq(A) \o SetToSeq(B)) \in Seq(EdgeRecs) /\ Elements(SetToSeq(A) \o SetToSeq(B)) = A \cup B
  BY <1>4, <1>9, WrittenRecords
<1> QED BY <1>6, <1>8, <1>10

-----------------------------------------------------------------------------
(* A whole disk.                                                           *)

\* The records of the transaction segment.
TxnRecs == [kind : {"begin"}, txn : Nat] \cup [kind : {"commit"}, txn : Nat, rev : Nat]

\* What the three files can hold.
Disks == [txn  : Seq(TxnRecs \cup {Torn}),
          node : Seq(NodeRecs \cup {Torn}),
          edge : Seq(EdgeRecs \cup {Torn})]

\* An offset into each of them.
Offsets == [txn : Nat, node : Nat, edge : Nat]
NoOffsets == [txn |-> 0, node |-> 0, edge |-> 0]

\* The size of a segment without half a record at its end.
Size(q) == IF Len(q) > 0 /\ q[Len(q)].kind = "torn" THEN Len(q) - 1 ELSE Len(q)

\* The record at index i is a commit record.
CommitAt(q, i) == q[i].kind = "commit"
\* The transactions whose commit record is on disk.
Comm(d) == CommittedIn(d.txn, Size(d.txn))
\* The revision that a commit record carries.
RevOf(q, t) == q[CHOOSE i \in 1 .. Size(q) : CommitAt(q, i) /\ q[i].txn = t].rev
\* The revisions of the transactions in T.
RevMap(d, T) == [t \in T |-> RevOf(d.txn, t)]

\* The transaction segment is in order: no half record but at the end, one
\* commit record per transaction, with its revision.
WholeBut(q, u) == \A i \in 1 .. Size(q) : q[i].kind # "torn" /\ q[i].txn \in 1 .. u
Once(q) == \A i, j \in 1 .. Size(q) : CommitAt(q, i) /\ CommitAt(q, j) /\ q[i].txn = q[j].txn => i = j
Numbered(q) == \A i \in 1 .. Size(q) : CommitAt(q, i) => q[i].rev = Cardinality(CommittedIn(q, i))

Orderly(d, u) ==
    /\ WholeBut(d.txn, u) /\ WholeBut(d.node, u) /\ WholeBut(d.edge, u)
    /\ Once(d.txn) /\ Numbered(d.txn)

\* What the replay from store s and the offsets makes of the disk when the
\* transactions in T are the committed ones.
Image(d, T, s, off) ==
    LET byNodes == Ran("node", s, RevMap(d, T), d.node, off.node, Size(d.node))
        byEdges == Ran("edge", s, RevMap(d, T), d.edge, off.edge, Size(d.edge))
    IN  [nodes    |-> byNodes.nodes,
         edges    |-> byEdges.edges,
         parent   |-> byEdges.parent,
         nodeMod  |-> byNodes.nodeMod,
         edgeMod  |-> byEdges.edgeMod,
         revision |-> Cardinality(T)]

\* The segments agree in their first n records.
Agree(p, q, n) == n <= Size(p) /\ n <= Size(q) /\ \A i \in 1 .. n : p[i] = q[i]

\* A segment has at most half a record behind its whole ones.
LEMMA SizeOf ==
    ASSUME NEW S, NEW q \in Seq(S)
    PROVE  Size(q) \in Nat /\ Size(q) <= Len(q) /\ Len(q) <= Size(q) + 1 /\ Len(q) \in Nat
<1>1. Len(q) \in Nat
  BY LenProperties
<1> QED BY <1>1 DEF Size

\* Segments that agree in their first records have the same commits there.
LEMMA CommittedAlike ==
    ASSUME NEW p, NEW q, NEW n \in Nat, \A i \in 1 .. n : p[i] = q[i], NEW i \in 0 .. n
    PROVE  CommittedIn(p, i) = CommittedIn(q, i)
<1>1. \A j \in 1 .. i : p[j] = q[j]
  OBVIOUS
<1> QED BY <1>1 DEF CommittedIn

\* A transaction is committed when one of the records is its commit record.
LEMMA CommittedIs ==
    ASSUME NEW q, NEW n, NEW t
    PROVE  t \in CommittedIn(q, n) <=> \E i \in 1 .. n : CommitAt(q, i) /\ q[i].txn = t
BY DEF CommittedIn, CommitAt

\* With one commit record per transaction, that record gives its revision.
LEMMA RevOfIs ==
    ASSUME NEW q, Once(q), NEW i \in 1 .. Size(q), CommitAt(q, i)
    PROVE  RevOf(q, q[i].txn) = q[i].rev
<1> DEFINE c == CHOOSE j \in 1 .. Size(q) : CommitAt(q, j) /\ q[j].txn = q[i].txn
<1>1. c \in 1 .. Size(q) /\ CommitAt(q, c) /\ q[c].txn = q[i].txn
  OBVIOUS
<1> HIDE DEF c
<1>2. c = i
  BY <1>1 DEF Once
<1> QED BY <1>2 DEF RevOf, c

\* Committed transactions are a finite set of numbers with revisions.
LEMMA CommTyped ==
    ASSUME NEW d \in Disks, NEW u \in Nat, Orderly(d, u), NEW n \in Nat, n <= Size(d.txn)
    PROVE  CommittedIn(d.txn, n) \subseteq 1 .. u /\ IsFiniteSet(CommittedIn(d.txn, n))
<1>1. PICK q \in Seq(TxnRecs \cup {Torn}) : q = d.txn
  BY DEF Disks
<1>2. \A i \in 1 .. n : q[i].txn \in 1 .. u
  BY <1>1, SizeOf DEF Orderly, WholeBut
<1>3. CommittedIn(q, n) \subseteq 1 .. u
  BY <1>2 DEF CommittedIn
<1>4. IsFiniteSet(1 .. u)
  BY FS_Interval
<1>5. IsFiniteSet(CommittedIn(q, n))
  BY <1>3, <1>4, FS_Subset
<1> QED BY <1>1, <1>3, <1>5

\* On an orderly disk all whole records are readable ones.
LEMMA RecordsTyped ==
    ASSUME NEW d \in Disks, NEW u \in Nat, Orderly(d, u)
    PROVE  /\ \A i \in 1 .. Size(d.txn) : d.txn[i] \in TxnRecs
           /\ \A i \in 1 .. Size(d.node) : d.node[i] \in NodeRecs
           /\ \A i \in 1 .. Size(d.edge) : d.edge[i] \in EdgeRecs
<1>1. PICK q \in Seq(TxnRecs \cup {Torn}) : q = d.txn
  BY DEF Disks
<1>2. PICK n \in Seq(NodeRecs \cup {Torn}) : n = d.node
  BY DEF Disks
<1>3. PICK e \in Seq(EdgeRecs \cup {Torn}) : e = d.edge
  BY DEF Disks
<1>4. \A i \in 1 .. Size(q) : q[i] \in TxnRecs
  <2> TAKE i \in 1 .. Size(q)
  <2>1. i \in 1 .. Len(q)
    BY SizeOf
  <2>2. q[i] \in TxnRecs \cup {Torn}
    BY <2>1, ElementOfSeq
  <2>3. q[i] # Torn
    BY <1>1 DEF Orderly, WholeBut, Torn
  <2> QED BY <2>2, <2>3
<1>5. \A i \in 1 .. Size(n) : n[i] \in NodeRecs
  <2> TAKE i \in 1 .. Size(n)
  <2>1. i \in 1 .. Len(n)
    BY SizeOf
  <2>2. n[i] \in NodeRecs \cup {Torn}
    BY <2>1, ElementOfSeq
  <2>3. n[i] # Torn
    BY <1>2 DEF Orderly, WholeBut, Torn
  <2> QED BY <2>2, <2>3
<1>6. \A i \in 1 .. Size(e) : e[i] \in EdgeRecs
  <2> TAKE i \in 1 .. Size(e)
  <2>1. i \in 1 .. Len(e)
    BY SizeOf
  <2>2. e[i] \in EdgeRecs \cup {Torn}
    BY <2>1, ElementOfSeq
  <2>3. e[i] # Torn
    BY <1>3 DEF Orderly, WholeBut, Torn
  <2> QED BY <2>2, <2>3
<1> QED BY <1>1, <1>2, <1>3, <1>4, <1>5, <1>6

\* The revisions of committed transactions are numbers.
LEMMA RevMapTyped ==
    ASSUME NEW d \in Disks, NEW u \in Nat, Orderly(d, u), NEW T, T \subseteq Comm(d)
    PROVE  DOMAIN RevMap(d, T) = T /\ \A t \in DOMAIN RevMap(d, T) : RevMap(d, T)[t] \in Nat
<1>1. PICK q : q = d.txn
  OBVIOUS
<1>2. \A i \in 1 .. Size(q) : q[i] \in TxnRecs
  BY <1>1, RecordsTyped
<1>3. Once(q)
  BY <1>1 DEF Orderly
<1>4. ASSUME NEW t \in T PROVE RevOf(q, t) \in Nat
  <2>1. PICK i \in 1 .. Size(q) : CommitAt(q, i) /\ q[i].txn = t
    BY <1>1, CommittedIs DEF Comm
  <2>2. q[i] \in TxnRecs
    BY <1>2
  <2>3. q[i].rev \in Nat
    BY <2>1, <2>2 DEF CommitAt, TxnRecs
  <2>4. RevOf(q, q[i].txn) = q[i].rev
    BY <1>3, <2>1, RevOfIs
  <2> QED BY <2>1, <2>3, <2>4
<1> QED BY <1>1, <1>4 DEF RevMap

\* Segments that agree give a transaction one revision.
LEMMA RevOfAgree ==
    ASSUME NEW p, NEW q, Once(p), Once(q), NEW n \in Nat, Size(p) \in Nat, Size(q) \in Nat, Agree(p, q, n),
           NEW t \in CommittedIn(p, n)
    PROVE  RevOf(p, t) = RevOf(q, t)
<1>1. PICK i \in 1 .. n : CommitAt(p, i) /\ p[i].txn = t
  BY CommittedIs
<1>2. i \in 1 .. Size(p) /\ i \in 1 .. Size(q) /\ p[i] = q[i]
  BY DEF Agree
<1>3. CommitAt(q, i) /\ q[i].txn = t
  BY <1>1, <1>2 DEF CommitAt
<1>4. RevOf(p, p[i].txn) = p[i].rev
  BY <1>1, <1>2, RevOfIs
<1>5. RevOf(q, q[i].txn) = q[i].rev
  BY <1>2, <1>3, RevOfIs
<1> QED BY <1>1, <1>2, <1>3, <1>4, <1>5

\* Replaying some committed transactions on a store makes a store.
LEMMA ImageTyped ==
    ASSUME NEW d \in Disks, NEW u \in Nat, Orderly(d, u), NEW T, T \subseteq Comm(d), NEW s \in Stores, NEW off \in Offsets
    PROVE  Image(d, T, s, off) \in Stores
<1>1. PICK m : m = RevMap(d, T)
  OBVIOUS
<1>2. \A t \in DOMAIN m : m[t] \in Nat
  BY <1>1, RevMapTyped
<1>3. PICK nn : nn = Ran("node", s, m, d.node, off.node, Size(d.node))
  OBVIOUS
<1>4. PICK ee : ee = Ran("edge", s, m, d.edge, off.edge, Size(d.edge))
  OBVIOUS
<1>5. off.node \in Nat /\ off.edge \in Nat
  BY DEF Offsets
<1>6. nn \in Stores
  <2>1. PICK q \in Seq(NodeRecs \cup {Torn}) : q = d.node
    BY DEF Disks
  <2>2. \A i \in 1 .. Size(q) : q[i] \in DataRecs("node")
    BY <2>1, RecordsTyped DEF DataRecs
  <2>3. Size(q) \in Nat /\ Size(q) <= Len(q)
    BY SizeOf
  <2> QED BY <1>2, <1>3, <1>5, <2>1, <2>2, <2>3, RanTyped
<1>7. ee \in Stores
  <2>1. PICK q \in Seq(EdgeRecs \cup {Torn}) : q = d.edge
    BY DEF Disks
  <2>2. \A i \in 1 .. Size(q) : q[i] \in DataRecs("edge")
    BY <2>1, RecordsTyped DEF DataRecs
  <2>3. Size(q) \in Nat /\ Size(q) <= Len(q)
    BY SizeOf
  <2> QED BY <1>2, <1>4, <1>5, <2>1, <2>2, <2>3, RanTyped
<1>8. IsFiniteSet(T) /\ Cardinality(T) \in Nat
  <2>1. PICK q \in Seq(TxnRecs \cup {Torn}) : q = d.txn
    BY DEF Disks
  <2>2. Size(q) \in Nat
    BY SizeOf
  <2>3. IsFiniteSet(Comm(d))
    BY <2>1, <2>2, CommTyped DEF Comm
  <2> QED BY <2>3, FS_Subset, FS_CardinalityType
<1>9. Image(d, T, s, off) = [nodes |-> nn.nodes, edges |-> ee.edges, parent |-> ee.parent,
                             nodeMod |-> nn.nodeMod, edgeMod |-> ee.edgeMod, revision |-> Cardinality(T)]
  BY <1>1, <1>3, <1>4 DEF Image
<1> QED BY <1>6, <1>7, <1>8, <1>9 DEF Stores

\* One data segment: what is behind the common part does not count.
LEMMA RanKept ==
    ASSUME NEW S, NEW p \in Seq(S), NEW q \in Seq(S), NEW n \in Nat, Agree(p, q, n), NEW k, NEW s, NEW m, NEW off \in Nat,
           NEW T, DOMAIN m = T,
           \A i \in n + 1 .. Size(p) : p[i].txn \notin T,
           \A i \in n + 1 .. Size(q) : q[i].txn \notin T
    PROVE  Ran(k, s, m, p, off, Size(p)) = Ran(k, s, m, q, off, Size(q))
<1>1. PICK a \in Nat : a = Size(p) /\ a <= Len(p)
  BY SizeOf
<1>2. PICK b \in Nat : b = Size(q) /\ b <= Len(q)
  BY SizeOf
<1>3. n <= a /\ n <= b /\ n <= Len(p) /\ n <= Len(q) /\ \A i \in 1 .. n : p[i] = q[i]
  BY <1>1, <1>2, LenProperties DEF Agree
<1>4. Ran(k, s, m, p, off, a) = Ran(k, s, m, p, off, n)
  <2>1. \A i \in n + 1 .. a : p[i].txn \notin DOMAIN m
    BY <1>1
  <2> QED BY <1>1, <1>3, <2>1, RanSkips
<1>5. Ran(k, s, m, q, off, b) = Ran(k, s, m, q, off, n)
  <2>1. \A i \in n + 1 .. b : q[i].txn \notin DOMAIN m
    BY <1>2
  <2> QED BY <1>2, <1>3, <2>1, RanSkips
<1>6. \A i \in off + 1 .. n : Alike(p[i], q[i], m, m)
  <2> TAKE i \in off + 1 .. n
  <2>1. i \in 1 .. n
    OBVIOUS
  <2> QED BY <1>3, <2>1 DEF Alike
<1>7. Ran(k, s, m, p, off, n) = Ran(k, s, m, q, off, n)
  BY <1>3, <1>6, RanAgree
<1> QED BY <1>1, <1>2, <1>4, <1>5, <1>7

\* Disks that agree in all that counts.
LEMMA ImageKept ==
    ASSUME NEW d \in Disks, NEW e \in Disks, NEW u \in Nat, NEW v \in Nat, Orderly(d, u), Orderly(e, v),
           NEW T, NEW tn \in Nat, NEW nn \in Nat, NEW en \in Nat,
           Agree(d.txn, e.txn, tn), Agree(d.node, e.node, nn), Agree(d.edge, e.edge, en),
           T \subseteq CommittedIn(d.txn, tn),
           \A i \in nn + 1 .. Size(d.node) : d.node[i].txn \notin T,
           \A i \in nn + 1 .. Size(e.node) : e.node[i].txn \notin T,
           \A i \in en + 1 .. Size(d.edge) : d.edge[i].txn \notin T,
           \A i \in en + 1 .. Size(e.edge) : e.edge[i].txn \notin T,
           NEW s, NEW off \in Offsets
    PROVE  Image(d, T, s, off) = Image(e, T, s, off)
<1>1. RevMap(d, T) = RevMap(e, T)
  <2>1. d.txn \in Seq(TxnRecs \cup {Torn}) /\ e.txn \in Seq(TxnRecs \cup {Torn})
    BY DEF Disks
  <2>2. Size(d.txn) \in Nat /\ Size(e.txn) \in Nat
    BY <2>1, SizeOf
  <2>3. Once(d.txn) /\ Once(e.txn)
    BY DEF Orderly
  <2>4. ASSUME NEW t \in T PROVE RevOf(d.txn, t) = RevOf(e.txn, t)
    <3>1. t \in CommittedIn(d.txn, tn)
      OBVIOUS
    <3> QED BY <2>2, <2>3, <3>1, RevOfAgree
  <2> QED BY <2>4 DEF RevMap
<1>a. PICK m : m = RevMap(d, T)
  OBVIOUS
<1>2. m = RevMap(d, T) /\ DOMAIN m = T
  BY <1>a DEF RevMap
<1>3. off.node \in Nat /\ off.edge \in Nat
  BY DEF Offsets
<1>4. Ran("node", s, m, d.node, off.node, Size(d.node)) = Ran("node", s, m, e.node, off.node, Size(e.node))
  <2>1. PICK p \in Seq(NodeRecs \cup {Torn}) : p = d.node
    BY DEF Disks
  <2>2. PICK q \in Seq(NodeRecs \cup {Torn}) : q = e.node
    BY DEF Disks
  <2>3. Agree(p, q, nn) /\ (\A i \in nn + 1 .. Size(p) : p[i].txn \notin T) /\ (\A i \in nn + 1 .. Size(q) : q[i].txn \notin T)
    BY <2>1, <2>2
  <2>4. Ran("node", s, m, p, off.node, Size(p)) = Ran("node", s, m, q, off.node, Size(q))
    BY <1>2, <1>3, <2>3, RanKept
  <2> QED BY <2>1, <2>2, <2>4
<1>5. Ran("edge", s, m, d.edge, off.edge, Size(d.edge)) = Ran("edge", s, m, e.edge, off.edge, Size(e.edge))
  <2>1. PICK p \in Seq(EdgeRecs \cup {Torn}) : p = d.edge
    BY DEF Disks
  <2>2. PICK q \in Seq(EdgeRecs \cup {Torn}) : q = e.edge
    BY DEF Disks
  <2>3. Agree(p, q, en) /\ (\A i \in en + 1 .. Size(p) : p[i].txn \notin T) /\ (\A i \in en + 1 .. Size(q) : q[i].txn \notin T)
    BY <2>1, <2>2
  <2>4. Ran("edge", s, m, p, off.edge, Size(p)) = Ran("edge", s, m, q, off.edge, Size(q))
    BY <1>2, <1>3, <2>3, RanKept, SMTT(60)
  <2> QED BY <2>1, <2>2, <2>4
<1> QED BY <1>1, <1>2, <1>4, <1>5 DEF Image

-----------------------------------------------------------------------------
(* One commit more.                                                        *)

\* The records of transaction t in a segment: the last ones, behind the offset.
EndsWith(q, a, t, records, off) ==
    /\ a \in 0 .. Size(q)
    /\ \A i \in 1 .. a : q[i].txn # t
    /\ Between(q, a, Size(q)) = records
    /\ \A i \in 1 .. Size(q) : i <= off => q[i].txn # t

\* Replaying one transaction more, whose node records come last, is what
\* CommitWithInfo does to the nodes in memory.
LEMMA NodesCommitted ==
    ASSUME NEW S, NEW q \in Seq(S), \A i \in 1 .. Size(q) : q[i] \in NodeRecs, NEW s \in Stores, NEW off \in Nat,
           NEW m, NEW o, NEW t \in Nat, DOMAIN o = DOMAIN m \cup {t}, t \notin DOMAIN m, \A x \in DOMAIN m : o[x] = m[x],
           \A x \in DOMAIN o : o[x] \in Nat, NEW w \in WriteSets, NEW a, EndsWith(q, a, t, RecordsOf("node", t, w), off),
           NEW x, x = Ran("node", s, m, q, off, Size(q))
    PROVE  /\ Ran("node", s, o, q, off, Size(q)).nodes = ApplyNodes(x, w)
           /\ Ran("node", s, o, q, off, Size(q)).nodeMod =
                  [n \in Nodes |-> IF n \in WrittenNodes(w) THEN o[t] ELSE x.nodeMod[n]]
<1>1. PICK b \in Nat : b = Size(q) /\ b <= Len(q)
  BY SizeOf
<1>2. a \in 0 .. b /\ (\A i \in 1 .. a : q[i].txn # t) /\ (\A i \in 1 .. b : i <= off => q[i].txn # t)
      /\ Between(q, a, b) = RecordsOf("node", t, w)
  BY <1>1 DEF EndsWith
<1>3. \A i \in a + 1 .. b : q[i] \in RecordsOf("node", t, w) /\ q[i].txn = t
  BY <1>2, NodeRecordTyped DEF Between
<1>4. Len(q) \in Nat /\ a \in Nat /\ a <= Len(q) /\ a <= b
  BY <1>1, <1>2, LenProperties
<1>5. ASSUME NEW i \in off + 1 .. a PROVE Alike(q[i], q[i], m, o)
  <2>1. q[i].txn # t
    BY <1>2
  <2> QED BY <2>1 DEF Alike
<1>6. Ran("node", s, m, q, off, a) = Ran("node", s, o, q, off, a)
  BY <1>4, <1>5, RanAgree
<1>7. Ran("node", s, m, q, off, b) = Ran("node", s, m, q, off, a)
  BY <1>1, <1>3, <1>4, RanSkips
<1>8. x = Ran("node", s, o, q, off, a)
  BY <1>1, <1>6, <1>7
<1>9. CASE off <= a
  <2>1. t \in DOMAIN o /\ (\A i \in 1 .. b : q[i] \in NodeRecs)
    BY <1>1
  <2>2. Between(q, a, b) = RecordsOf("node", t, w)
    BY <1>2
  <2> QED BY <1>1, <1>4, <1>8, <1>9, <2>1, <2>2, RanNodes
<1>10. CASE ~(off <= a)
  <2>1. a = b
    <3>1. SUFFICES ASSUME a # b PROVE FALSE
      OBVIOUS
    <3>2. a + 1 \in a + 1 .. b /\ a + 1 \in 1 .. b /\ a + 1 <= off
      BY <1>2, <1>10, <3>1
    <3> QED BY <1>2, <1>3, <3>2
  <2>2. RecordsOf("node", t, w) = {}
    BY <1>2, <2>1 DEF Between
  <2>3. WrittenNodes(w) = {}
    BY <2>2, NodeRecordOf
  <2>4. x \in Stores
    <3>1. \A i \in 1 .. a : q[i] \in DataRecs("node")
      BY <1>1, <2>1 DEF DataRecs
    <3>2. Ran("node", s, o, q, off, a) \in Stores
      BY <1>4, <3>1, RanTyped
    <3> QED BY <1>8, <3>2
  <2>5. ApplyNodes(x, w) = x.nodes
    BY <2>3, <2>4 DEF ApplyNodes, WrittenNodes, Stores
  <2>6. x.nodeMod = [n \in Nodes |-> IF n \in WrittenNodes(w) THEN o[t] ELSE x.nodeMod[n]]
    BY <2>3, <2>4 DEF Stores
  <2> QED BY <1>1, <1>8, <2>1, <2>5, <2>6
<1> QED BY <1>9, <1>10

\* The same for the edges and the containsParent index, which needs the parent
\* checks of invariantConflict.
LEMMA EdgesCommitted ==
    ASSUME NEW S, NEW q \in Seq(S), \A i \in 1 .. Size(q) : q[i] \in EdgeRecs, NEW s \in Stores, NEW off \in Nat,
           NEW m, NEW o, NEW t \in Nat, DOMAIN o = DOMAIN m \cup {t}, t \notin DOMAIN m, \A x \in DOMAIN m : o[x] = m[x],
           \A x \in DOMAIN o : o[x] \in Nat, NEW w \in WriteSets, NEW a, EndsWith(q, a, t, RecordsOf("edge", t, w), off),
           NEW x, x = Ran("edge", s, m, q, off, Size(q)), ParentIndexExact(x), ~ParentConflict(x, w)
    PROVE  /\ Ran("edge", s, o, q, off, Size(q)).edges = ApplyEdges(x, w)
           /\ Ran("edge", s, o, q, off, Size(q)).parent = ApplyParents(x, w)
           /\ Ran("edge", s, o, q, off, Size(q)).edgeMod =
                  [e \in Edges |-> IF e \in WrittenEdges(w) THEN o[t] ELSE x.edgeMod[e]]
<1>1. PICK b \in Nat : b = Size(q) /\ b <= Len(q)
  BY SizeOf
<1>2. a \in 0 .. b /\ (\A i \in 1 .. a : q[i].txn # t) /\ (\A i \in 1 .. b : i <= off => q[i].txn # t)
      /\ Between(q, a, b) = RecordsOf("edge", t, w)
  BY <1>1 DEF EndsWith
<1>3. \A i \in a + 1 .. b : q[i] \in RecordsOf("edge", t, w) /\ q[i].txn = t
  BY <1>2, EdgeRecordTyped DEF Between
<1>4. Len(q) \in Nat /\ a \in Nat /\ a <= Len(q) /\ a <= b
  BY <1>1, <1>2, LenProperties
<1>5. ASSUME NEW i \in off + 1 .. a PROVE Alike(q[i], q[i], m, o)
  <2>1. q[i].txn # t
    BY <1>2
  <2> QED BY <2>1 DEF Alike
<1>6. Ran("edge", s, m, q, off, a) = Ran("edge", s, o, q, off, a)
  BY <1>4, <1>5, RanAgree
<1>7. Ran("edge", s, m, q, off, b) = Ran("edge", s, m, q, off, a)
  BY <1>1, <1>3, <1>4, RanSkips
<1>8. x = Ran("edge", s, o, q, off, a)
  BY <1>1, <1>6, <1>7
<1>9. CASE off <= a
  <2>1. t \in DOMAIN o /\ (\A i \in 1 .. b : q[i] \in EdgeRecs)
    BY <1>1
  <2>2. Between(q, a, b) = RecordsOf("edge", t, w)
    BY <1>2
  <2> QED BY <1>1, <1>4, <1>8, <1>9, <2>1, <2>2, RanEdges, SMTT(60)
<1>10. CASE ~(off <= a)
  <2>1. a = b
    <3>1. SUFFICES ASSUME a # b PROVE FALSE
      OBVIOUS
    <3>2. a + 1 \in a + 1 .. b /\ a + 1 \in 1 .. b /\ a + 1 <= off
      BY <1>2, <1>10, <3>1
    <3> QED BY <1>2, <1>3, <3>2
  <2>2. RecordsOf("edge", t, w) = {}
    BY <1>2, <2>1 DEF Between
  <2>3. WrittenEdges(w) = {}
    BY <2>2, EdgeRecordOf
  <2>4. x \in Stores
    <3>1. \A i \in 1 .. a : q[i] \in DataRecs("edge")
      BY <1>1, <2>1 DEF DataRecs
    <3>2. Ran("edge", s, o, q, off, a) \in Stores
      BY <1>4, <3>1, RanTyped
    <3> QED BY <1>8, <3>2
  <2>5. ApplyEdges(x, w) = x.edges /\ ApplyParents(x, w) = x.parent
    <3>1. \A c \in Nodes : NewParents(w, c) = {}
      BY <2>3 DEF NewParents, WrittenEdges
    <3>2. ApplyParents(x, w) = x.parent
      BY <2>3, <2>4, <3>1 DEF ApplyParents, Stores
    <3>3. ApplyEdges(x, w) = x.edges
      BY <2>3, <2>4 DEF ApplyEdges, WrittenEdges, Stores
    <3> QED BY <3>2, <3>3
  <2>6. x.edgeMod = [e \in Edges |-> IF e \in WrittenEdges(w) THEN o[t] ELSE x.edgeMod[e]]
    BY <2>3, <2>4 DEF Stores
  <2> QED BY <1>1, <1>8, <2>1, <2>5, <2>6
<1> QED BY <1>9, <1>10

\* With its commit record counted, a transaction's records have its effect.
LEMMA ImageCommitted ==
    ASSUME NEW d \in Disks, NEW u \in Nat, Orderly(d, u), NEW T, T \subseteq Comm(d), NEW t \in Comm(d), t \notin T,
           RevOf(d.txn, t) = Cardinality(T) + 1, NEW w \in WriteSets, NEW s \in Stores, NEW off \in Offsets,
           NEW an, EndsWith(d.node, an, t, RecordsOf("node", t, w), off.node),
           NEW ae, EndsWith(d.edge, ae, t, RecordsOf("edge", t, w), off.edge),
           ParentIndexExact(Image(d, T, s, off)), ~ParentConflict(Image(d, T, s, off), w)
    PROVE  Image(d, T \cup {t}, s, off) = ApplyWrites(Image(d, T, s, off), w)
<1>1. PICK m, o : m = RevMap(d, T) /\ o = RevMap(d, T \cup {t})
  OBVIOUS
<1>2. DOMAIN m = T /\ DOMAIN o = T \cup {t} /\ (\A x \in T : o[x] = m[x]) /\ o[t] = Cardinality(T) + 1
  BY <1>1 DEF RevMap
<1>3. \A x \in DOMAIN o : o[x] \in Nat
  BY <1>1, RevMapTyped
<1>4. off.node \in Nat /\ off.edge \in Nat
  BY DEF Offsets
<1>5. t \in Nat /\ IsFiniteSet(T) /\ Cardinality(T) \in Nat
  <2>1. PICK q \in Seq(TxnRecs \cup {Torn}) : q = d.txn
    BY DEF Disks
  <2>2. Size(q) \in Nat
    BY SizeOf
  <2>3. IsFiniteSet(Comm(d)) /\ Comm(d) \subseteq 1 .. u
    BY <2>1, <2>2, CommTyped DEF Comm
  <2> QED BY <2>3, FS_Subset, FS_CardinalityType
<1>6. PICK xn : xn = Ran("node", s, m, d.node, off.node, Size(d.node))
  OBVIOUS
<1>7. PICK xe : xe = Ran("edge", s, m, d.edge, off.edge, Size(d.edge))
  OBVIOUS
<1>8. PICK yn : yn = Ran("node", s, o, d.node, off.node, Size(d.node))
  OBVIOUS
<1>9. PICK ye : ye = Ran("edge", s, o, d.edge, off.edge, Size(d.edge))
  OBVIOUS
<1>10. PICK z : z = Image(d, T, s, off)
  OBVIOUS
<1>11. z = [nodes |-> xn.nodes, edges |-> xe.edges, parent |-> xe.parent,
            nodeMod |-> xn.nodeMod, edgeMod |-> xe.edgeMod, revision |-> Cardinality(T)]
  BY <1>1, <1>6, <1>7, <1>10 DEF Image
<1>12. Image(d, T \cup {t}, s, off) =
           [nodes |-> yn.nodes, edges |-> ye.edges, parent |-> ye.parent,
            nodeMod |-> yn.nodeMod, edgeMod |-> ye.edgeMod, revision |-> Cardinality(T \cup {t})]
  BY <1>1, <1>8, <1>9 DEF Image
<1>13. yn.nodes = ApplyNodes(xn, w)
       /\ yn.nodeMod = [n \in Nodes |-> IF n \in WrittenNodes(w) THEN o[t] ELSE xn.nodeMod[n]]
  <2>1. PICK q \in Seq(NodeRecs \cup {Torn}) : q = d.node
    BY DEF Disks
  <2>2. \A i \in 1 .. Size(q) : q[i] \in NodeRecs
    BY <2>1, RecordsTyped
  <2> QED BY <1>2, <1>3, <1>4, <1>5, <1>6, <1>8, <2>1, <2>2, NodesCommitted
<1>14. ParentIndexExact(xe) /\ ~ParentConflict(xe, w)
  BY <1>10, <1>11 DEF ParentIndexExact, ParentConflict
<1>15. ye.edges = ApplyEdges(xe, w) /\ ye.parent = ApplyParents(xe, w)
       /\ ye.edgeMod = [e \in Edges |-> IF e \in WrittenEdges(w) THEN o[t] ELSE xe.edgeMod[e]]
  <2>1. PICK q \in Seq(EdgeRecs \cup {Torn}) : q = d.edge
    BY DEF Disks
  <2>2. \A i \in 1 .. Size(q) : q[i] \in EdgeRecs
    BY <2>1, RecordsTyped
  <2> QED BY <1>2, <1>3, <1>4, <1>5, <1>7, <1>9, <1>14, <2>1, <2>2, EdgesCommitted
<1>16. Cardinality(T \cup {t}) = Cardinality(T) + 1
  BY <1>5, FS_AddElement
<1>17. ApplyNodes(z, w) = ApplyNodes(xn, w)
  BY <1>11 DEF ApplyNodes
<1>18. ApplyEdges(z, w) = ApplyEdges(xe, w) /\ ApplyParents(z, w) = ApplyParents(xe, w)
  BY <1>11 DEF ApplyEdges, ApplyParents
<1>19. z.revision = Cardinality(T) /\ z.nodeMod = xn.nodeMod /\ z.edgeMod = xe.edgeMod
  BY <1>11
<1>20. yn.nodeMod = [n \in Nodes |-> IF n \in WrittenNodes(w) THEN z.revision + 1 ELSE z.nodeMod[n]]
  BY <1>2, <1>13, <1>19
<1>21. ye.edgeMod = [e \in Edges |-> IF e \in WrittenEdges(w) THEN z.revision + 1 ELSE z.edgeMod[e]]
  BY <1>2, <1>15, <1>19
<1>22. yn.nodes = ApplyNodes(z, w) /\ ye.edges = ApplyEdges(z, w) /\ ye.parent = ApplyParents(z, w)
  BY <1>13, <1>15, <1>17, <1>18
<1>23. Cardinality(T \cup {t}) = z.revision + 1
  BY <1>16, <1>19
<1>24. Image(d, T \cup {t}, s, off) = ApplyWrites(z, w)
  BY <1>12, <1>20, <1>21, <1>22, <1>23 DEF ApplyWrites
<1> QED BY <1>10, <1>24

\* Half a record at the end is where a scan ends.
LEMMA ScanWhole ==
    ASSUME NEW S, NEW p \in Seq(S), \A i \in 1 .. Size(p) : p[i].kind # "torn", NEW off \in Nat
    PROVE  Scan(p, off) = {[ok |-> TRUE, records |-> SubSeq(p, off + 1, Size(p))]}
<1>1. PICK n \in Nat : n = Size(p) /\ n <= Len(p) /\ Len(p) <= n + 1
  BY SizeOf
<1>2. PICK l \in Nat : l = Len(p)
  BY LenProperties
<1> DEFINE cuts == {i \in off + 1 .. l : p[i].kind = "torn"}
<1>3. \A i \in 1 .. n : p[i].kind # "torn"
  BY <1>1
<1>4. CASE l = n
  <2>1. cuts = {}
    <3>1. \A i \in off + 1 .. l : i \in 1 .. n
      BY <1>4
    <3> QED BY <1>3, <3>1
  <2> QED BY <1>1, <1>2, <1>4, <2>1 DEF Scan
<1>5. CASE l # n
  <2>1. l = n + 1 /\ l - 1 = n /\ p[l].kind = "torn"
    <3>1. l = n + 1 /\ l - 1 = n
      BY <1>1, <1>2, <1>5
    <3>2. p[l].kind = "torn"
      BY <1>1, <1>2, <1>5 DEF Size
    <3> QED BY <3>1, <3>2
  <2>2. CASE off + 1 <= l
    <3>1. cuts = {l}
      <4>1. l \in off + 1 .. l
        BY <2>2
      <4>2. \A i \in off + 1 .. l : i = l \/ i \in 1 .. n
        BY <2>1
      <4> QED BY <1>3, <2>1, <4>1, <4>2
    <3>2. Min({l}) = l
      BY DEF Min
    <3>3. {i \in off + 1 .. Len(p) : p[i].kind = "torn"} = {l} /\ {l} # {}
      BY <1>2, <3>1
    <3>4. Scan(p, off) = {[ok |-> TRUE, records |-> SubSeq(p, off + 1, l - 1)]}
      BY <1>2, <3>2, <3>3 DEF Scan
    <3> QED BY <1>1, <2>1, <3>4
  <2>3. CASE ~(off + 1 <= l)
    <3>1. cuts = {}
      BY <2>3
    <3>2. {i \in off + 1 .. Len(p) : p[i].kind = "torn"} = {}
      BY <1>2, <3>1
    <3>3. Scan(p, off) = {[ok |-> TRUE, records |-> SubSeq(p, off + 1, l)]}
      BY <1>2, <3>2 DEF Scan
    <3>4. PICK a : a = SubSeq(p, off + 1, l)
      OBVIOUS
    <3>5. PICK b : b = SubSeq(p, off + 1, n)
      OBVIOUS
    <3>6. a \in Seq(S) /\ Len(a) = 0
      <4>1. Len(a) = (IF off <= l THEN l - off ELSE 0) /\ a \in Seq(S)
        BY <1>2, <3>4, PartOf
      <4> QED BY <2>3, <4>1
    <3>7. b \in Seq(S) /\ Len(b) = 0
      <4>1. Len(b) = (IF off <= n THEN n - off ELSE 0) /\ b \in Seq(S)
        BY <1>1, <1>2, <3>5, PartOf
      <4> QED BY <2>1, <2>3, <4>1
    <3>8. a = b
      BY <3>6, <3>7, SeqEqual
    <3> QED BY <1>1, <3>3, <3>4, <3>5, <3>8
  <2> QED BY <2>2, <2>3
<1> QED BY <1>4, <1>5

-----------------------------------------------------------------------------
(* The revisions that open counts are those of the commit records.         *)

\* The records up to index off are those of the transactions up to v.
SplitAt(q, off, v) == \A i \in 1 .. Size(q) : i <= off <=> q[i].txn <= v

\* Those of the transactions that are not behind v.
Older(C, v) == {t \in C : t <= v}

\* What open counts behind the offset.
Counted(d, off, v) == CommitRevisions(SubSeq(d.txn, off + 1, Size(d.txn)), Cardinality(Older(Comm(d), v)))

\* rebuildIndexes counts the commits behind a checkpoint from its revision on,
\* and finds for each the revision its commit record carries.
LEMMA TailRevisions ==
    ASSUME NEW d \in Disks, NEW u \in Nat, Orderly(d, u), NEW off \in Nat, NEW v \in Nat,
           SplitAt(d.txn, off, v)
    PROVE  /\ DOMAIN Counted(d, off, v) = Comm(d) \ Older(Comm(d), v)
           /\ \A t \in DOMAIN Counted(d, off, v) : Counted(d, off, v)[t] = RevOf(d.txn, t)
           /\ Cardinality(Older(Comm(d), v)) + Cardinality(DOMAIN Counted(d, off, v)) = Cardinality(Comm(d))
<1>r. PICK r : r = SubSeq(d.txn, off + 1, Size(d.txn))
  OBVIOUS
<1>b. PICK base : base = Cardinality(Older(Comm(d), v))
  OBVIOUS
<1>1. PICK p \in Seq(TxnRecs \cup {Torn}) : p = d.txn
  BY DEF Disks
<1>2. PICK n \in Nat : n = Size(p) /\ n <= Len(p)
  BY SizeOf
<1>3. PICK o \in Nat : o <= n /\ (off <= n => o = off) /\ (~(off <= n) => o = n)
  <2>1. CASE off <= n
    BY <2>1
  <2>2. CASE ~(off <= n)
    BY <2>2
  <2> QED BY <2>1, <2>2
<1>q. PICK q : q = r
  OBVIOUS
<1>l. PICK l \in Nat : l + o = n
  <2>1. n - o \in Nat /\ (n - o) + o = n
    BY <1>3
  <2> QED BY <2>1
<1>4. Once(p) /\ Numbered(p) /\ (\A i \in 1 .. n : i <= off <=> p[i].txn <= v) /\ Comm(d) = CommittedIn(p, n)
  BY <1>1, <1>2 DEF Orderly, Comm, SplitAt
<1>5. l = Len(q) /\ DOMAIN q = 1 .. l /\ \A j \in 1 .. l : q[j] = p[o + j]
  <2>0. q = SubSeq(p, off + 1, n)
    BY <1>1, <1>2, <1>q, <1>r
  <2>1. Len(q) = (IF off <= n THEN n - off ELSE 0) /\ (\A j \in 1 .. n - off : q[j] = p[off + j])
        /\ q \in Seq(TxnRecs \cup {Torn})
    BY <1>2, <2>0, PartOf
  <2>2. DOMAIN q = 1 .. Len(q)
    BY <2>1, LenProperties
  <2>3. CASE off <= n
    <3>1. o = off /\ l = n - off
      BY <1>3, <1>l, <2>3
    <3> QED BY <2>1, <2>2, <2>3, <3>1
  <2>4. CASE ~(off <= n)
    <3>1. l = 0
      BY <1>3, <1>l, <2>4
    <3> QED BY <2>1, <2>2, <2>4, <3>1
  <2> QED BY <2>3, <2>4
<1> DEFINE C(i) == CommittedIn(p, i)
           D(j) == CommittedIn(q, j)
<1>6. \A i \in 1 .. n : i <= o <=> p[i].txn <= v
  BY <1>3, <1>4
<1>7. C(o) = Older(Comm(d), v)
  <2>1. ASSUME NEW t \in C(o) PROVE t \in Comm(d) /\ t <= v
    <3>1. PICK i \in 1 .. o : CommitAt(p, i) /\ p[i].txn = t
      BY CommittedIs
    <3>2. i \in 1 .. n /\ i <= o
      BY <1>3
    <3> QED BY <1>4, <1>6, <3>1, <3>2, CommittedIs
  <2>2. ASSUME NEW t \in Comm(d), t <= v PROVE t \in C(o)
    <3>1. PICK i \in 1 .. n : CommitAt(p, i) /\ p[i].txn = t
      BY <1>4, CommittedIs
    <3>2. i \in 1 .. o
      BY <1>6, <2>2, <3>1
    <3> QED BY <3>1, <3>2, CommittedIs
  <2> HIDE DEF C
  <2> QED BY <2>1, <2>2 DEF Older
<1>8. ASSUME NEW j \in 0 .. l
      PROVE  C(o + j) = C(o) \cup D(j) /\ C(o) \cap D(j) = {}
  <2>1. ASSUME NEW t \in C(o + j) PROVE t \in C(o) \cup D(j)
    <3>1. PICK i \in 1 .. o + j : CommitAt(p, i) /\ p[i].txn = t
      BY CommittedIs
    <3>2. CASE i <= o
      <4>1. i \in 1 .. o
        BY <3>2
      <4> QED BY <3>1, <4>1, CommittedIs
    <3>3. CASE ~(i <= o)
      <4>1. i - o \in 1 .. j /\ i - o \in 1 .. l /\ o + (i - o) = i
        BY <3>3
      <4>2. q[i - o] = p[i]
        BY <1>5, <4>1
      <4>3. CommitAt(q, i - o) /\ q[i - o].txn = t
        BY <3>1, <4>2 DEF CommitAt
      <4> QED BY <4>1, <4>3, CommittedIs
    <3> QED BY <3>2, <3>3
  <2>2. ASSUME NEW t \in C(o) PROVE t \in C(o + j)
    <3>1. PICK i \in 1 .. o : CommitAt(p, i) /\ p[i].txn = t
      BY CommittedIs
    <3>2. i \in 1 .. o + j
      OBVIOUS
    <3> QED BY <3>1, <3>2, CommittedIs
  <2>3. ASSUME NEW t \in D(j)
        PROVE  \E i \in o + 1 .. o + j : CommitAt(p, i) /\ p[i].txn = t
    <3>1. PICK i \in 1 .. j : CommitAt(q, i) /\ q[i].txn = t
      BY CommittedIs
    <3>2. i \in 1 .. l /\ o + i \in o + 1 .. o + j
      OBVIOUS
    <3>3. q[i] = p[o + i]
      BY <1>5, <3>2
    <3> QED BY <3>1, <3>2, <3>3 DEF CommitAt
  <2>4. ASSUME NEW t \in D(j) PROVE t \in C(o + j)
    <3>1. PICK i \in o + 1 .. o + j : CommitAt(p, i) /\ p[i].txn = t
      BY <2>3
    <3>2. i \in 1 .. o + j
      OBVIOUS
    <3> QED BY <3>1, <3>2, CommittedIs
  <2>5. ASSUME NEW t \in D(j), t \in C(o) PROVE FALSE
    <3>1. PICK i \in o + 1 .. o + j : CommitAt(p, i) /\ p[i].txn = t
      BY <2>3
    <3>2. PICK h \in 1 .. o : CommitAt(p, h) /\ p[h].txn = t
      BY <2>5, CommittedIs
    <3>3. i \in 1 .. n /\ h \in 1 .. n /\ i # h
      BY <1>3, <1>l
    <3> QED BY <1>2, <1>4, <3>1, <3>2, <3>3 DEF Once
  <2> HIDE DEF C, D
  <2> QED BY <2>1, <2>2, <2>4, <2>5
<1>9. ASSUME NEW j \in 0 .. l
      PROVE  Cardinality(C(o + j)) = base + Cardinality(D(j))
  <2>1. IsFiniteSet(C(o + j)) /\ IsFiniteSet(C(o))
    <3>1. o + j \in Nat /\ o + j <= n
      BY <1>l
    <3> QED BY <1>1, <1>2, <1>3, <3>1, CommTyped
  <2>2. C(o + j) = C(o) \cup D(j) /\ C(o) \cap D(j) = {}
    BY <1>8
  <2>3. IsFiniteSet(D(j))
    BY <2>1, <2>2, FS_Subset
  <2>4. Cardinality(C(o + j)) = Cardinality(C(o)) + Cardinality(D(j)) - Cardinality({})
    <3> HIDE DEF C, D
    <3> QED BY <2>1, <2>2, <2>3, FS_Union
  <2>5. Cardinality({}) = 0 /\ Cardinality(C(o)) \in Nat /\ Cardinality(D(j)) \in Nat
    BY <2>1, <2>3, FS_EmptySet, FS_CardinalityType
  <2> QED BY <1>7, <1>b, <2>4, <2>5
<1>10. PICK R : R = CommitRevisions(q, base)
  OBVIOUS
<1>c. R = Counted(d, off, v)
  BY <1>r, <1>b, <1>q, <1>10 DEF Counted
<1>11. DOMAIN R = D(l)
  BY <1>5, <1>10, <1>q DEF CommitRevisions
<1>12. ASSUME NEW t \in D(l)
       PROVE  R[t] = RevOf(p, t)
  <2> DEFINE at == {i \in DOMAIN q : q[i].kind = "commit" /\ q[i].txn = t}
             f == CHOOSE x \in at : \A y \in at : x <= y
  <2>1. at # {} /\ at \in SUBSET Nat
    <3>1. PICK i \in 1 .. l : CommitAt(q, i) /\ q[i].txn = t
      BY CommittedIs
    <3>2. DOMAIN q = 1 .. l
      BY <1>5
    <3>3. i \in at
      BY <3>1, <3>2 DEF CommitAt
    <3>4. at \subseteq 1 .. l
      BY <3>2
    <3> QED BY <3>3, <3>4
  <2>2. \E x \in at : \A y \in at : x <= y
    <3> HIDE DEF at
    <3> QED BY <2>1, LeastNumber
  <2>3. f \in at
    <3> HIDE DEF at
    <3> QED BY <2>2
  <2>4. Min(at) = f
    BY DEF Min
  <2>5. R[t] = base + Cardinality(D(Min(at)))
    BY <1>5, <1>10, <1>q DEF CommitRevisions
  <2>6. PICK i \in 1 .. l : i = f /\ q[i].kind = "commit" /\ q[i].txn = t
    <3>1. f \in DOMAIN q /\ q[f].kind = "commit" /\ q[f].txn = t
      <4> HIDE DEF f
      <4> QED BY <2>3
    <3> HIDE DEF f, at
    <3> QED BY <1>5, <3>1
  <2> HIDE DEF f, at
  <2>7. R[t] = base + Cardinality(D(i))
    BY <2>4, <2>5, <2>6
  <2>8. i \in 0 .. l /\ o + i \in 1 .. n
    BY <1>l
  <2>9. R[t] = Cardinality(C(o + i))
    BY <1>9, <2>7, <2>8
  <2>10. CommitAt(p, o + i) /\ p[o + i].txn = t
    BY <1>5, <2>6 DEF CommitAt
  <2>11. p[o + i].rev = Cardinality(C(o + i))
    BY <1>2, <1>4, <2>8, <2>10 DEF Numbered
  <2>12. RevOf(p, p[o + i].txn) = p[o + i].rev
    BY <1>2, <1>4, <2>8, <2>10, RevOfIs
  <2> QED BY <2>9, <2>10, <2>11, <2>12
<1>13. l \in 0 .. l /\ o + l = n
  BY <1>l
<1>14. D(l) = Comm(d) \ Older(Comm(d), v)
  <2>1. C(n) = C(o) \cup D(l) /\ C(o) \cap D(l) = {} /\ Comm(d) = C(n)
    BY <1>4, <1>8, <1>13
  <2> HIDE DEF C, D
  <2> QED BY <1>7, <2>1
<1>15. base + Cardinality(D(l)) = Cardinality(Comm(d))
  BY <1>4, <1>9, <1>13
<1> HIDE DEF C, D
<1> QED BY <1>1, <1>b, <1>c, <1>11, <1>12, <1>14, <1>15

\* Store s holds the transactions up to v, which end at the offsets.
Starts(d, s, off, v) ==
    /\ SplitAt(d.txn, off.txn, v) /\ SplitAt(d.node, off.node, v) /\ SplitAt(d.edge, off.edge, v)
    /\ s.revision = Cardinality(Older(Comm(d), v))

\* A data segment replayed with the revisions that open counts.
LEMMA TailReplayed ==
    ASSUME NEW S, NEW q \in Seq(S), NEW k, NEW s, NEW off \in Nat, NEW v \in Nat, SplitAt(q, off, v),
           NEW R, NEW M, DOMAIN R = DOMAIN M \ Older(DOMAIN M, v), \A t \in DOMAIN R : R[t] = M[t]
    PROVE  SegmentReplayed(k, s, R, SubSeq(q, off + 1, Size(q))) = Ran(k, s, M, q, off, Size(q))
<1>1. PICK n \in Nat : n = Size(q) /\ n <= Len(q)
  BY SizeOf
<1>2. ASSUME NEW i \in off + 1 .. n PROVE Alike(q[i], q[i], R, M)
  <2>1. i \in 1 .. n /\ ~(i <= off)
    OBVIOUS
  <2>2. ~(q[i].txn <= v)
    BY <1>1, <2>1 DEF SplitAt
  <2>3. q[i].txn \in DOMAIN R <=> q[i].txn \in DOMAIN M
    BY <2>2 DEF Older
  <2> QED BY <2>3 DEF Alike
<1>3. Ran(k, s, R, q, off, n) = Ran(k, s, M, q, off, n)
  BY <1>1, <1>2, RanAgree
<1> QED BY <1>1, <1>3 DEF Ran

\* Replaying the tails behind a checkpoint gives the image of the committed
\* transactions on it.
LEMMA ReplayIs ==
    ASSUME NEW d \in Disks, NEW u \in Nat, Orderly(d, u), NEW s, NEW off \in Offsets, NEW v \in Nat,
           Starts(d, s, off, v)
    PROVE  Replay(s, SubSeq(d.txn, off.txn + 1, Size(d.txn)), SubSeq(d.node, off.node + 1, Size(d.node)),
                  SubSeq(d.edge, off.edge + 1, Size(d.edge))) = Image(d, Comm(d), s, off)
<1>1. PICK r : r = SubSeq(d.txn, off.txn + 1, Size(d.txn))
  OBVIOUS
<1>2. PICK R : R = CommitRevisions(r, s.revision)
  OBVIOUS
<1>3. off.txn \in Nat /\ off.node \in Nat /\ off.edge \in Nat
  BY DEF Offsets
<1>4. /\ DOMAIN R = Comm(d) \ Older(Comm(d), v)
      /\ \A t \in DOMAIN R : R[t] = RevOf(d.txn, t)
      /\ s.revision + Cardinality(DOMAIN R) = Cardinality(Comm(d))
  <2>1. PICK o \in Nat : o = off.txn
    BY <1>3
  <2>2. SplitAt(d.txn, o, v)
    BY <2>1 DEF Starts
  <2>3. R = Counted(d, o, v) /\ s.revision = Cardinality(Older(Comm(d), v))
    BY <1>1, <1>2, <2>1 DEF Starts, Counted
  <2> QED BY <2>2, <2>3, TailRevisions
<1>5. PICK M : M = RevMap(d, Comm(d))
  OBVIOUS
<1>6. DOMAIN M = Comm(d) /\ \A t \in DOMAIN R : R[t] = M[t]
  BY <1>4, <1>5 DEF RevMap
<1>7. SegmentReplayed("node", s, R, SubSeq(d.node, off.node + 1, Size(d.node))) = Ran("node", s, M, d.node, off.node, Size(d.node))
  <2>1. PICK q \in Seq(NodeRecs \cup {Torn}) : q = d.node
    BY DEF Disks
  <2>2. PICK o \in Nat : o = off.node
    BY <1>3
  <2>3. SplitAt(q, o, v)
    BY <2>1, <2>2 DEF Starts
  <2>5. DOMAIN R = DOMAIN M \ Older(DOMAIN M, v) /\ \A t \in DOMAIN R : R[t] = M[t]
    BY <1>4, <1>6
  <2>4. PICK S, k : S = NodeRecs \cup {Torn} /\ k = "node"
    OBVIOUS
  <2>7. q \in Seq(S)
    BY <2>1, <2>4
  <2>9. /\ q \in Seq(S) /\ o \in Nat /\ v \in Nat /\ SplitAt(q, o, v)
        /\ DOMAIN R = DOMAIN M \ Older(DOMAIN M, v) /\ (\A t \in DOMAIN R : R[t] = M[t])
    BY <2>2, <2>3, <2>5, <2>7
  <2>8. SegmentReplayed(k, s, R, SubSeq(q, o + 1, Size(q))) = Ran(k, s, M, q, o, Size(q))
    BY ONLY <2>9, TailReplayed
  <2>6. SegmentReplayed("node", s, R, SubSeq(q, o + 1, Size(q))) = Ran("node", s, M, q, o, Size(q))
    BY <2>4, <2>8
  <2> QED BY ONLY <2>1, <2>2, <2>6
<1>8. SegmentReplayed("edge", s, R, SubSeq(d.edge, off.edge + 1, Size(d.edge))) = Ran("edge", s, M, d.edge, off.edge, Size(d.edge))
  <2>1. PICK q \in Seq(EdgeRecs \cup {Torn}) : q = d.edge
    BY DEF Disks
  <2>2. PICK o \in Nat : o = off.edge
    BY <1>3
  <2>3. SplitAt(q, o, v)
    BY <2>1, <2>2 DEF Starts
  <2>5. DOMAIN R = DOMAIN M \ Older(DOMAIN M, v) /\ \A t \in DOMAIN R : R[t] = M[t]
    BY <1>4, <1>6
  <2>4. PICK S, k : S = EdgeRecs \cup {Torn} /\ k = "edge"
    OBVIOUS
  <2>7. q \in Seq(S)
    BY <2>1, <2>4
  <2>9. /\ q \in Seq(S) /\ o \in Nat /\ v \in Nat /\ SplitAt(q, o, v)
        /\ DOMAIN R = DOMAIN M \ Older(DOMAIN M, v) /\ (\A t \in DOMAIN R : R[t] = M[t])
    BY <2>2, <2>3, <2>5, <2>7
  <2>8. SegmentReplayed(k, s, R, SubSeq(q, o + 1, Size(q))) = Ran(k, s, M, q, o, Size(q))
    BY ONLY <2>9, TailReplayed
  <2>6. SegmentReplayed("edge", s, R, SubSeq(q, o + 1, Size(q))) = Ran("edge", s, M, q, o, Size(q))
    BY <2>4, <2>8
  <2> QED BY ONLY <2>1, <2>2, <2>6
<1> QED BY <1>1, <1>2, <1>4, <1>5, <1>7, <1>8 DEF Replay, Image

\* Opening the segments has one outcome.
LEMMA ReplayedIs ==
    ASSUME NEW d \in Disks, NEW u \in Nat, Orderly(d, u), NEW s, NEW off \in Offsets, NEW v \in Nat,
           Starts(d, s, off, v)
    PROVE  Replayed(d, s, off) = {[ok |-> TRUE, store |-> Image(d, Comm(d), s, off)]}
<1>1. off.txn \in Nat /\ off.node \in Nat /\ off.edge \in Nat
  BY DEF Offsets
<1>2. PICK rt : rt = SubSeq(d.txn, off.txn + 1, Size(d.txn))
  OBVIOUS
<1>3. PICK rn : rn = SubSeq(d.node, off.node + 1, Size(d.node))
  OBVIOUS
<1>4. PICK re : re = SubSeq(d.edge, off.edge + 1, Size(d.edge))
  OBVIOUS
<1>5. Scan(d.txn, off.txn) = {[ok |-> TRUE, records |-> rt]}
  <2>1. PICK q \in Seq(TxnRecs \cup {Torn}) : q = d.txn
    BY DEF Disks
  <2>2. \A i \in 1 .. Size(q) : q[i].kind # "torn"
    BY <2>1 DEF Orderly, WholeBut
  <2>3. Scan(q, off.txn) = {[ok |-> TRUE, records |-> SubSeq(q, off.txn + 1, Size(q))]}
    BY <1>1, <2>2, ScanWhole
  <2> QED BY <1>2, <2>1, <2>3
<1>6. Scan(d.node, off.node) = {[ok |-> TRUE, records |-> rn]}
  <2>1. PICK q \in Seq(NodeRecs \cup {Torn}) : q = d.node
    BY DEF Disks
  <2>2. \A i \in 1 .. Size(q) : q[i].kind # "torn"
    BY <2>1 DEF Orderly, WholeBut
  <2>3. Scan(q, off.node) = {[ok |-> TRUE, records |-> SubSeq(q, off.node + 1, Size(q))]}
    BY <1>1, <2>2, ScanWhole
  <2> QED BY <1>3, <2>1, <2>3
<1>7. Scan(d.edge, off.edge) = {[ok |-> TRUE, records |-> re]}
  <2>1. PICK q \in Seq(EdgeRecs \cup {Torn}) : q = d.edge
    BY DEF Disks
  <2>2. \A i \in 1 .. Size(q) : q[i].kind # "torn"
    BY <2>1 DEF Orderly, WholeBut
  <2>3. Scan(q, off.edge) = {[ok |-> TRUE, records |-> SubSeq(q, off.edge + 1, Size(q))]}
    BY <1>1, <2>2, ScanWhole
  <2> QED BY <1>4, <2>1, <2>3
<1>8. Replayed(d, s, off) = {[ok |-> TRUE, store |-> Replay(s, rt, rn, re)]}
  BY <1>5, <1>6, <1>7 DEF Replayed
<1>9. Replay(s, rt, rn, re) = Image(d, Comm(d), s, off)
  BY <1>2, <1>3, <1>4, ReplayIs
<1> QED BY <1>8, <1>9

\* The empty store holds none of the transactions.
LEMMA EmptyStarts ==
    ASSUME NEW d \in Disks, NEW u \in Nat, Orderly(d, u)
    PROVE  Starts(d, EmptyStore, NoOffsets, 0)
<1>1. ASSUME NEW q, WholeBut(q, u) PROVE SplitAt(q, 0, 0)
  <2> SUFFICES ASSUME NEW i \in 1 .. Size(q) PROVE ~(i <= 0) /\ ~(q[i].txn <= 0)
    BY DEF SplitAt
  <2>1. q[i].txn \in 1 .. u
    BY <1>1 DEF WholeBut
  <2>2. ~(q[i].txn <= 0)
    BY <2>1
  <2>3. ~(i <= 0)
    OBVIOUS
  <2> QED BY <2>2, <2>3
<1>2. SplitAt(d.txn, NoOffsets.txn, 0) /\ SplitAt(d.node, NoOffsets.node, 0) /\ SplitAt(d.edge, NoOffsets.edge, 0)
  BY <1>1 DEF Orderly, NoOffsets
<1>3. Comm(d) \subseteq 1 .. u
  <2>1. PICK q \in Seq(TxnRecs \cup {Torn}) : q = d.txn
    BY DEF Disks
  <2>2. Size(q) \in Nat
    BY SizeOf
  <2> QED BY <2>1, <2>2, CommTyped DEF Comm
<1>4. Older(Comm(d), 0) = {}
  BY <1>3 DEF Older
<1>5. EmptyStore.revision = Cardinality(Older(Comm(d), 0))
  BY <1>4, FS_EmptySet DEF EmptyStore
<1> QED BY <1>2, <1>5 DEF Starts

\* rebuildIndexes has one outcome: the image of all committed transactions.
LEMMA FullReplayIs ==
    ASSUME NEW d \in Disks, NEW u \in Nat, Orderly(d, u)
    PROVE  FullReplay(d) = {[ok |-> TRUE, store |-> Image(d, Comm(d), EmptyStore, NoOffsets)]}
<1>1. [k \in Kinds |-> 0] = NoOffsets
  BY DEF Kinds, NoOffsets
<1>2. NoOffsets \in Offsets
  BY DEF NoOffsets, Offsets
<1>3. Starts(d, EmptyStore, NoOffsets, 0)
  BY EmptyStarts
<1>4. Replayed(d, EmptyStore, NoOffsets) = {[ok |-> TRUE, store |-> Image(d, Comm(d), EmptyStore, NoOffsets)]}
  BY <1>2, <1>3, ReplayedIs
<1> QED BY <1>1, <1>4 DEF FullReplay

\* The commit records are numbered as loadIdempotencyRecords counts them.
LEMMA WholeConsistent ==
    ASSUME NEW d \in Disks, NEW u \in Nat, Orderly(d, u), NEW s, s.revision = Cardinality(Comm(d)),
           NEW x \in Scan(d.txn, 0)
    PROVE  x.ok /\ Consistent(s, x.records)
<1>1. PICK p \in Seq(TxnRecs \cup {Torn}) : p = d.txn
  BY DEF Disks
<1>2. PICK n \in Nat : n = Size(p) /\ n <= Len(p)
  BY SizeOf
<1>3. \A i \in 1 .. n : p[i].kind # "torn"
  BY <1>1, <1>2 DEF Orderly, WholeBut
<1>4. Scan(p, 0) = {[ok |-> TRUE, records |-> SubSeq(p, 0 + 1, n)]}
  BY <1>2, <1>3, ScanWhole
<1>5. PICK q : q = SubSeq(p, 0 + 1, n)
  OBVIOUS
<1>6. x.ok /\ x.records = q
  BY <1>1, <1>4, <1>5
<1>7. q \in Seq(TxnRecs \cup {Torn}) /\ Len(q) = n /\ (\A i \in 1 .. n : q[i] = p[i])
  <2>1. Len(q) = (IF 0 <= n THEN n - 0 ELSE 0) /\ (\A j \in 1 .. n - 0 : q[j] = p[0 + j])
        /\ q \in Seq(TxnRecs \cup {Torn})
    BY <1>2, <1>5, PartOf
  <2> QED BY <2>1
<1>8. DOMAIN q = 1 .. n
  BY <1>7, LenProperties
<1>9. \A i \in 0 .. n : CommittedIn(q, i) = CommittedIn(p, i)
  BY <1>7, CommittedAlike
<1>10. Cardinality(CommittedIn(q, Len(q))) = s.revision
  <2>1. n \in 0 .. n
    OBVIOUS
  <2> QED BY <1>1, <1>2, <1>7, <1>9, <2>1 DEF Comm
<1>11. ASSUME NEW i \in 1 .. n, q[i].kind = "commit"
       PROVE  q[i].rev = Cardinality(CommittedIn(q, i))
  <2>1. q[i] = p[i] /\ i \in 0 .. n
    BY <1>7
  <2>2. p[i].rev = Cardinality(CommittedIn(p, i))
    BY <1>1, <1>2, <1>11, <2>1 DEF Orderly, Numbered, CommitAt
  <2> QED BY <1>9, <2>1, <2>2
<1> QED BY <1>6, <1>8, <1>10, <1>11 DEF Consistent

\* The store that open comes to.
Recovered(d, c) == IF c = None THEN Image(d, Comm(d), EmptyStore, NoOffsets)
                   ELSE Image(d, Comm(d), Hydrated(c), c.offsets)

\* open has one outcome, from a checkpoint as without one: it succeeds, with
\* the image of all committed transactions.
LEMMA ReopenedIs ==
    ASSUME NEW d \in Disks, NEW u \in Nat, Orderly(d, u), NEW c,
           c # None => c.offsets \in Offsets /\ \E v \in Nat : Starts(d, Hydrated(c), c.offsets, v)
    PROVE  Reopened(d, c) = {[ok |-> TRUE, store |-> Recovered(d, c)]}
<1>1. PICK x : x = [ok |-> TRUE, store |-> Recovered(d, c)]
  OBVIOUS
<1>2. Loaded(d, c) = {x}
  <2>1. CASE c = None
    <3>1. FullReplay(d) = {[ok |-> TRUE, store |-> Image(d, Comm(d), EmptyStore, NoOffsets)]}
      BY FullReplayIs
    <3> QED BY <1>1, <2>1, <3>1 DEF Loaded, Recovered
  <2>2. CASE c # None
    <3>1. PICK v \in Nat : Starts(d, Hydrated(c), c.offsets, v)
      BY <2>2
    <3>2. Replayed(d, Hydrated(c), c.offsets) = {[ok |-> TRUE, store |-> Image(d, Comm(d), Hydrated(c), c.offsets)]}
      BY <2>2, <3>1, ReplayedIs
    <3>3. Replayed(d, Hydrated(c), c.offsets) = {x}
      BY <1>1, <2>2, <3>2 DEF Recovered
    <3>4. x.ok
      BY <1>1
    <3>5. Loaded(d, c) = UNION {IF o.ok THEN {o} ELSE FullReplay(d) : o \in {x}}
      BY <2>2, <3>3 DEF Loaded
    <3> QED BY <3>4, <3>5
  <2> QED BY <2>1, <2>2
<1>3. x.ok /\ x.store.revision = Cardinality(Comm(d))
  BY <1>1 DEF Recovered, Image
<1>4. \A t \in Scan(d.txn, 0) : t.ok /\ Consistent(x.store, t.records)
  BY <1>3, WholeConsistent
<1>5. \E t : t \in Scan(d.txn, 0)
  <2>1. PICK q \in Seq(TxnRecs \cup {Torn}) : q = d.txn
    BY DEF Disks
  <2>2. \A i \in 1 .. Size(q) : q[i].kind # "torn"
    BY <2>1 DEF Orderly, WholeBut
  <2>3. Scan(q, 0) = {[ok |-> TRUE, records |-> SubSeq(q, 0 + 1, Size(q))]}
    BY <2>2, ScanWhole
  <2> QED BY <2>1, <2>3
<1>6. Reopened(d, c) = {IF o.ok /\ t.ok /\ Consistent(o.store, t.records) THEN o ELSE Failed :
                            o \in {x}, t \in Scan(d.txn, 0)}
  BY <1>2 DEF Reopened
<1>7. Reopened(d, c) = {x}
  <2> HIDE DEF Failed
  <2> QED BY <1>3, <1>4, <1>5, <1>6
<1> QED BY <1>1, <1>7

-----------------------------------------------------------------------------
(* The inductive invariant.                                                *)

\* Faults come after the last crash but one: what an earlier one leaves on
\* disk is taken up by the next incarnation.  A commit record whose sync fails
\* never counts in memory and may count on disk, so that fault is left out.
LateFaults ==
    /\ "commit_error" \notin Faults
    /\ Faults # {} => \A i \in Faulty : i + 1 >= MaxCrashes

\* Checkpoint payloads and the offsets of their manifests.
Checkpoints == [nodes    : [Nodes -> Values \cup {None}],
                edges    : [Edges -> EdgeRecords \cup {None}],
                revision : Nat,
                offsets  : Offsets]

\* A commit in progress.
InProgress == [txn : Nat \ {0}, writes : WriteSets \ {NoWrites}, step : {"data", "commit", "sync"}]

\* The records that the next stop leaves unless it loses what was found: those
\* that a sync made durable and those that this incarnation found.
More(i, j) == IF i >= j THEN i ELSE j
Settled == [txn  |-> More(synced.txn, found.txn),
            node |-> More(synced.node, found.node),
            edge |-> More(synced.edge, found.edge)]

\* The types of the variables.
SegTypeOK ==
    /\ disk \in Disks
    /\ synced \in Offsets
    /\ found \in Offsets
    /\ checkpoint \in Checkpoints \cup {None}
    /\ status \in {"up", "down", "failed"}
    /\ mem \in Stores
    /\ cur \in InProgress \cup {None}
    /\ used \in Nat
    /\ crashes \in 0 .. MaxCrashes

\* The commit in progress, as a set.
Mine(c) == IF c = None THEN {} ELSE {c.txn}
\* The transactions that were acknowledged.
Done(d, c) == Comm(d) \ Mine(c)

\* The store in memory is a graph, and the commit in progress fits it.
MemOK(m, c, u) ==
    /\ NoDanglingEdges(m) /\ ParentIndexExact(m)
    /\ c # None => ~InvariantConflict(m, c.writes) /\ c.txn = u

\* No segment ends in half a record.
Whole(d) == Size(d.txn) = Len(d.txn) /\ Size(d.node) = Len(d.node) /\ Size(d.edge) = Len(d.edge)

\* The commit records are those of the acknowledged commits, numbered, and at
\* most the one of the commit in progress, which carries the next revision.
LogOK(d, m, c, u, st, x) ==
    /\ Orderly(d, u)
    /\ Cardinality(Done(d, c)) = m.revision
    /\ c # None /\ c.txn \in Comm(d) => RevOf(d.txn, c.txn) = m.revision + 1
    /\ st = "up" /\ c # None => (c.txn \in Comm(d) <=> c.step = "sync")
    /\ x < MaxCrashes => Whole(d)

\* The records of the commit in progress are the last ones.
Holds(q, t, records) ==
    \E a \in 0 .. Size(q) : (\A i \in 1 .. a : q[i].txn # t) /\ Between(q, a, Size(q)) = records

\* A commit in progress, or cut off with its commit record, has its data on disk.
HeldOK(d, c, st) ==
    c # None /\ (st = "up" \/ c.txn \in Comm(d)) =>
        /\ Holds(d.node, c.txn, RecordsOf("node", c.txn, c.writes))
        /\ Holds(d.edge, c.txn, RecordsOf("edge", c.txn, c.writes))

\* What is written to a data segment and not synced.
DataSyncOK(q, n, D, c, x) ==
    \A i \in n + 1 .. Len(q) :
        /\ q[i].txn \notin D
        /\ c # None /\ c.step # "data" => q[i].txn # c.txn
        /\ x + 1 < MaxCrashes => c # None /\ c.step = "data" /\ q[i].txn = c.txn

\* What is written to the transaction segment and not synced: no commit record
\* of an acknowledged commit.
TxnSyncOK(q, n, c, x) ==
    \A i \in n + 1 .. Len(q) :
        /\ CommitAt(q, i) => c # None /\ c.step = "sync" /\ q[i].txn = c.txn
        /\ x + 1 < MaxCrashes => c # None

\* Acknowledged commits and, behind its sync, the one in progress are durable.
SyncOK(d, sy, c, st, x) ==
    /\ sy.txn <= Len(d.txn) /\ sy.node <= Len(d.node) /\ sy.edge <= Len(d.edge)
    /\ st = "down" => sy.txn = Len(d.txn) /\ sy.node = Len(d.node) /\ sy.edge = Len(d.edge)
    /\ TxnSyncOK(d.txn, sy.txn, c, x)
    /\ DataSyncOK(d.node, sy.node, Done(d, c), c, x)
    /\ DataSyncOK(d.edge, sy.edge, Done(d, c), c, x)

\* A checkpoint covers nothing that a crash could take away.
OffsetOK(d, sy, cp, x) ==
    cp # None =>
        /\ x < MaxCrashes =>
              cp.offsets.txn <= Len(d.txn) /\ cp.offsets.node <= Len(d.node) /\ cp.offsets.edge <= Len(d.edge)
        /\ x + 1 < MaxCrashes =>
              cp.offsets.txn <= sy.txn /\ cp.offsets.node <= sy.node /\ cp.offsets.edge <= sy.edge

\* A checkpoint holds the transactions in front of its offsets and no others.
StartOK(d, cp, c, u) ==
    cp # None => \E v \in 0 .. u : Starts(d, Hydrated(cp), cp.offsets, v) /\ (c # None => v < c.txn)

\* No entity of x looks older than in y.
NotOlder(x, y) ==
    /\ \A n \in Nodes : x.nodes[n] # None => x.nodeMod[n] >= y.nodeMod[n]
    /\ \A e \in Edges : x.edges[e] # None => x.edgeMod[e] >= y.edgeMod[e]

\* The replay of the transactions T from the start, and from a checkpoint.
Full(d, T) == Image(d, T, EmptyStore, NoOffsets)
Part(d, T, cp) == Image(d, T, Hydrated(cp), cp.offsets)

\* Both replays show the graph m, and the checkpoint's makes nothing look older.
ImageOK(d, m, T, cp) ==
    /\ AtomicView(Full(d, T)) = AtomicView(m)
    /\ ModRevisionsBounded(Full(d, T))
    /\ cp # None => AtomicView(Part(d, T, cp)) = AtomicView(m) /\ NotOlder(Part(d, T, cp), Full(d, T))

\* Crashes are still to come, or the store is down.
Exposed == status = "down" \/ (status = "up" /\ crashes < MaxCrashes)

\* All that recovery needs.
Safe(d, sy, cp, st, m, c, u, x) ==
    /\ LogOK(d, m, c, u, st, x)
    /\ HeldOK(d, c, st)
    /\ SyncOK(d, sy, c, st, x)
    /\ OffsetOK(d, sy, cp, x)
    /\ StartOK(d, cp, c, u)
    /\ ImageOK(d, m, Done(d, c), cp)

\* The inductive invariant: it holds until a power loss takes what was found.
SegInv ==
    ~lost =>
        /\ SegTypeOK
        /\ MemOK(mem, cur, used)
        /\ Exposed => Safe(disk, Settled, checkpoint, status, mem, cur, used, crashes)

-----------------------------------------------------------------------------
(* Views.                                                                  *)

\* Stores that look alike to readers have the same nodes, edges, parents and
\* revision.
LEMMA ViewFields ==
    ASSUME NEW x, NEW y, AtomicView(x) = AtomicView(y)
    PROVE  x.nodes = y.nodes /\ x.edges = y.edges /\ x.parent = y.parent /\ x.revision = y.revision
BY DEF AtomicView

\* They have the same shape, and invariantConflict answers the same on them.
LEMMA ViewShape ==
    ASSUME NEW x, NEW y, AtomicView(x) = AtomicView(y)
    PROVE  /\ NoDanglingEdges(x) <=> NoDanglingEdges(y)
           /\ ParentIndexExact(x) <=> ParentIndexExact(y)
           /\ \A w : InvariantConflict(x, w) <=> InvariantConflict(y, w)
           /\ \A w : ParentConflict(x, w) <=> ParentConflict(y, w)
<1>1. x.nodes = y.nodes /\ x.edges = y.edges /\ x.parent = y.parent
  BY ViewFields
<1>2. NoDanglingEdges(x) <=> NoDanglingEdges(y)
  BY <1>1 DEF NoDanglingEdges
<1>3. ParentIndexExact(x) <=> ParentIndexExact(y)
  BY <1>1 DEF ParentIndexExact
<1>4. ASSUME NEW w
      PROVE  /\ EndpointConflict(x, w) <=> EndpointConflict(y, w)
             /\ ParentConflict(x, w) <=> ParentConflict(y, w)
             /\ DeleteConflict(x, w) <=> DeleteConflict(y, w)
  <2>1. EndpointConflict(x, w) <=> EndpointConflict(y, w)
    BY <1>1 DEF EndpointConflict
  <2>2. ParentConflict(x, w) <=> ParentConflict(y, w)
    BY <1>1 DEF ParentConflict
  <2>3. DeleteConflict(x, w) <=> DeleteConflict(y, w)
    BY <1>1 DEF DeleteConflict
  <2> QED BY <2>1, <2>2, <2>3
<1> QED BY <1>2, <1>3, <1>4 DEF InvariantConflict

\* They look alike after the same commit.
LEMMA ViewApplied ==
    ASSUME NEW x, NEW y, AtomicView(x) = AtomicView(y), NEW w
    PROVE  AtomicView(ApplyWrites(x, w)) = AtomicView(ApplyWrites(y, w))
<1>1. x.nodes = y.nodes /\ x.edges = y.edges /\ x.parent = y.parent /\ x.revision = y.revision
  BY ViewFields
<1>2. ApplyNodes(x, w) = ApplyNodes(y, w)
  BY <1>1 DEF ApplyNodes
<1>3. ApplyEdges(x, w) = ApplyEdges(y, w)
  BY <1>1 DEF ApplyEdges
<1>4. ApplyParents(x, w) = ApplyParents(y, w)
  BY <1>1 DEF ApplyParents
<1> QED BY <1>1, <1>2, <1>3, <1>4 DEF AtomicView, ApplyWrites

\* The same commit on two stores that look alike makes no entity of the one
\* look older than in the other.
LEMMA AppliedNotOlder ==
    ASSUME NEW x \in Stores, NEW y \in Stores, AtomicView(x) = AtomicView(y), NotOlder(x, y), NEW w \in WriteSets
    PROVE  NotOlder(ApplyWrites(x, w), ApplyWrites(y, w))
<1>1. x.revision = y.revision /\ x.revision \in Nat
  BY ViewFields DEF Stores
<1>2. PICK a, b : a = ApplyWrites(x, w) /\ b = ApplyWrites(y, w)
  OBVIOUS
<1>3. ASSUME NEW n \in Nodes, a.nodes[n] # None PROVE a.nodeMod[n] >= b.nodeMod[n]
  <2>1. a.nodeMod[n] = (IF n \in WrittenNodes(w) THEN x.revision + 1 ELSE x.nodeMod[n])
        /\ b.nodeMod[n] = (IF n \in WrittenNodes(w) THEN y.revision + 1 ELSE y.nodeMod[n])
    BY <1>2 DEF ApplyWrites
  <2>2. n \notin WrittenNodes(w) => x.nodes[n] # None
    BY <1>2, <1>3 DEF ApplyWrites, ApplyNodes, WrittenNodes
  <2>3. x.nodeMod[n] \in Nat /\ y.nodeMod[n] \in Nat
    BY DEF Stores
  <2> QED BY <1>1, <2>1, <2>2, <2>3 DEF NotOlder
<1>4. ASSUME NEW e \in Edges, a.edges[e] # None PROVE a.edgeMod[e] >= b.edgeMod[e]
  <2>1. a.edgeMod[e] = (IF e \in WrittenEdges(w) THEN x.revision + 1 ELSE x.edgeMod[e])
        /\ b.edgeMod[e] = (IF e \in WrittenEdges(w) THEN y.revision + 1 ELSE y.edgeMod[e])
    BY <1>2 DEF ApplyWrites
  <2>2. e \notin WrittenEdges(w) => x.edges[e] # None
    BY <1>2, <1>4 DEF ApplyWrites, ApplyEdges, WrittenEdges
  <2>3. x.edgeMod[e] \in Nat /\ y.edgeMod[e] \in Nat
    BY DEF Stores
  <2> QED BY <1>1, <2>1, <2>2, <2>3 DEF NotOlder
<1> QED BY <1>2, <1>3, <1>4 DEF NotOlder

\* hydrateCheckpointFull makes a store.
LEMMA HydratedTyped ==
    ASSUME NEW c \in Checkpoints
    PROVE  Hydrated(c) \in Stores
<1>1. PICK w : w = [NoWrites EXCEPT !.edgePuts = c.edges]
  OBVIOUS
<1>2. w \in WriteSets
  BY <1>1 DEF NoWrites, WriteSets, WriteRecords, Checkpoints
<1>3. ApplyWrites(EmptyStore, w) \in Stores
  BY <1>2, ApplyWritesType, EmptyStoreShape
<1>4. ApplyParents(EmptyStore, w) \in [Nodes -> Edges \cup {None}]
  BY <1>3 DEF ApplyWrites, Stores
<1> QED BY <1>1, <1>4 DEF Hydrated, Checkpoints, Stores

\* A checkpoint's parents are those of the store it was taken from.
LEMMA HydratedParents ==
    ASSUME NEW m \in Stores, ParentIndexExact(m), NEW c, c.edges = m.edges
    PROVE  Hydrated(c).parent = m.parent
<1>1. PICK w : w = [NoWrites EXCEPT !.edgePuts = c.edges]
  OBVIOUS
<1>2. w.edgePuts = m.edges /\ w.edgeDeletes = {}
  BY <1>1 DEF NoWrites
<1>3. Hydrated(c).parent = ApplyParents(EmptyStore, w)
  BY <1>1 DEF Hydrated
<1>4. ASSUME NEW n \in Nodes
      PROVE  ApplyParents(EmptyStore, w)[n] = m.parent[n]
  <2>1. \A e \in Edges : e \in NewParents(w, n) <=> m.parent[n] = e
    BY <1>2 DEF NewParents, ParentIndexExact
  <2>2. CASE NewParents(w, n) # {}
    <3>1. (CHOOSE e \in NewParents(w, n) : TRUE) \in NewParents(w, n) /\ NewParents(w, n) \subseteq Edges
      BY <2>2 DEF NewParents
    <3>2. ApplyParents(EmptyStore, w)[n] = CHOOSE e \in NewParents(w, n) : TRUE
      BY <2>2 DEF ApplyParents
    <3> QED BY <2>1, <3>1, <3>2
  <2>3. CASE NewParents(w, n) = {}
    <3>1. m.parent[n] = None
      BY <2>1, <2>3 DEF Stores
    <3>2. ApplyParents(EmptyStore, w)[n] = None
      BY <2>3 DEF ApplyParents, EmptyStore
    <3> QED BY <3>1, <3>2
  <2> QED BY <2>2, <2>3
<1>5. ApplyParents(EmptyStore, w) = m.parent
  BY <1>4 DEF ApplyParents, Stores
<1> QED BY <1>3, <1>5

\* The three segments of a disk, their lengths and sizes.
LEMMA SegmentsTyped ==
    ASSUME NEW d \in Disks
    PROVE  /\ d.txn \in Seq(TxnRecs \cup {Torn}) /\ d.node \in Seq(NodeRecs \cup {Torn}) /\ d.edge \in Seq(EdgeRecs \cup {Torn})
           /\ Size(d.txn) \in Nat /\ Size(d.node) \in Nat /\ Size(d.edge) \in Nat
           /\ Len(d.txn) \in Nat /\ Len(d.node) \in Nat /\ Len(d.edge) \in Nat
           /\ Size(d.txn) <= Len(d.txn) /\ Size(d.node) <= Len(d.node) /\ Size(d.edge) <= Len(d.edge)
<1>1. d.txn \in Seq(TxnRecs \cup {Torn}) /\ d.node \in Seq(NodeRecs \cup {Torn}) /\ d.edge \in Seq(EdgeRecs \cup {Torn})
  BY DEF Disks
<1>2. PICK p \in Seq(TxnRecs \cup {Torn}) : p = d.txn
  BY <1>1
<1>3. PICK q \in Seq(NodeRecs \cup {Torn}) : q = d.node
  BY <1>1
<1>4. PICK r \in Seq(EdgeRecs \cup {Torn}) : r = d.edge
  BY <1>1
<1>5. Size(p) \in Nat /\ Len(p) \in Nat /\ Size(p) <= Len(p)
  BY SizeOf
<1>6. Size(q) \in Nat /\ Len(q) \in Nat /\ Size(q) <= Len(q)
  BY SizeOf
<1>7. Size(r) \in Nat /\ Len(r) \in Nat /\ Size(r) <= Len(r)
  BY SizeOf
<1> QED BY <1>1, <1>2, <1>3, <1>4, <1>5, <1>6, <1>7

\* The committed transactions are a finite set of numbers, those but the one
\* in progress too.
LEMMA DoneTyped ==
    ASSUME NEW d \in Disks, NEW u \in Nat, Orderly(d, u), NEW c
    PROVE  /\ Comm(d) \subseteq 1 .. u /\ IsFiniteSet(Comm(d)) /\ Cardinality(Comm(d)) \in Nat
           /\ Done(d, c) \subseteq Comm(d) /\ IsFiniteSet(Done(d, c)) /\ Cardinality(Done(d, c)) \in Nat
<1>1. Comm(d) \subseteq 1 .. u /\ IsFiniteSet(Comm(d))
  BY SegmentsTyped, CommTyped DEF Comm
<1>2. Done(d, c) \subseteq Comm(d)
  BY DEF Done
<1>3. IsFiniteSet(Done(d, c))
  BY <1>1, <1>2, FS_Subset
<1> QED BY <1>1, <1>2, <1>3, FS_CardinalityType

\* Disks that agree in all that counts have the same images.
LEMMA ImagesKept ==
    ASSUME NEW d \in Disks, NEW e \in Disks, NEW u \in Nat, NEW v \in Nat, Orderly(d, u), Orderly(e, v),
           NEW T, NEW tn \in Nat, NEW nn \in Nat, NEW en \in Nat,
           Agree(d.txn, e.txn, tn), Agree(d.node, e.node, nn), Agree(d.edge, e.edge, en),
           T \subseteq CommittedIn(d.txn, tn),
           \A i \in nn + 1 .. Size(d.node) : d.node[i].txn \notin T,
           \A i \in nn + 1 .. Size(e.node) : e.node[i].txn \notin T,
           \A i \in en + 1 .. Size(d.edge) : d.edge[i].txn \notin T,
           \A i \in en + 1 .. Size(e.edge) : e.edge[i].txn \notin T,
           NEW m, NEW cp \in Checkpoints \cup {None}, ImageOK(d, m, T, cp)
    PROVE  ImageOK(e, m, T, cp)
<1>1. \A s : \A off \in Offsets : Image(d, T, s, off) = Image(e, T, s, off)
  BY ImageKept
<1>2. NoOffsets \in Offsets
  BY DEF NoOffsets, Offsets
<1>3. Full(d, T) = Full(e, T)
  BY <1>1, <1>2 DEF Full
<1>4. cp # None => Part(d, T, cp) = Part(e, T, cp)
  BY <1>1 DEF Part, Checkpoints
<1> QED BY <1>3, <1>4 DEF ImageOK

\* The records of the commit in progress are the last ones and lie behind the
\* offset of a checkpoint taken before it.
LEMMA HeldEnds ==
    ASSUME NEW q, NEW t, NEW records, NEW off, Holds(q, t, records), \A i \in 1 .. Size(q) : i <= off => q[i].txn # t
    PROVE  \E a : EndsWith(q, a, t, records, off)
<1>1. PICK a \in 0 .. Size(q) : (\A i \in 1 .. a : q[i].txn # t) /\ Between(q, a, Size(q)) = records
  BY DEF Holds
<1>2. EndsWith(q, a, t, records, off)
  BY <1>1 DEF EndsWith
<1> QED BY <1>2

\* The commit in progress, once its commit record counts.
LEMMA OneCommitted ==
    ASSUME NEW d \in Disks, NEW u \in Nat, Orderly(d, u), NEW T, T \subseteq Comm(d), NEW t \in Comm(d), t \notin T,
           RevOf(d.txn, t) = Cardinality(T) + 1, NEW w \in WriteSets, NEW s \in Stores, NEW off \in Offsets,
           NEW v \in Nat, Starts(d, s, off, v), v < t,
           Holds(d.node, t, RecordsOf("node", t, w)), Holds(d.edge, t, RecordsOf("edge", t, w)),
           NEW m, AtomicView(Image(d, T, s, off)) = AtomicView(m), ParentIndexExact(m), ~InvariantConflict(m, w)
    PROVE  Image(d, T \cup {t}, s, off) = ApplyWrites(Image(d, T, s, off), w)
<1>1. t \in Nat
  BY DoneTyped
<1>2. ASSUME NEW q, NEW o, SplitAt(q, o, v), WholeBut(q, u)
      PROVE  \A i \in 1 .. Size(q) : i <= o => q[i].txn # t
  <2> SUFFICES ASSUME NEW i \in 1 .. Size(q), i <= o PROVE q[i].txn # t
    OBVIOUS
  <2>1. q[i].txn <= v /\ q[i].txn \in 1 .. u
    BY <1>2 DEF SplitAt, WholeBut
  <2> QED BY <1>1, <2>1
<1>3. PICK an : EndsWith(d.node, an, t, RecordsOf("node", t, w), off.node)
  <2>1. \A i \in 1 .. Size(d.node) : i <= off.node => d.node[i].txn # t
    BY <1>2 DEF Starts, Orderly
  <2> QED BY <2>1, HeldEnds
<1>4. PICK ae : EndsWith(d.edge, ae, t, RecordsOf("edge", t, w), off.edge)
  <2>1. \A i \in 1 .. Size(d.edge) : i <= off.edge => d.edge[i].txn # t
    BY <1>2 DEF Starts, Orderly
  <2> QED BY <2>1, HeldEnds
<1>5. PICK x : x = Image(d, T, s, off)
  OBVIOUS
<1>6. ParentIndexExact(x) /\ ~ParentConflict(x, w)
  <2>1. AtomicView(x) = AtomicView(m)
    BY <1>5
  <2>2. ~ParentConflict(m, w)
    BY DEF InvariantConflict
  <2> QED BY <2>1, <2>2, ViewShape
<1> QED BY <1>3, <1>4, <1>5, <1>6, ImageCommitted

\* Once its commit record counts, the transaction in progress takes effect on
\* both replays, with a checkpoint and without.
LEMMA ImagesCommitted ==
    ASSUME NEW d \in Disks, NEW u \in Nat, Orderly(d, u), NEW T, T \subseteq Comm(d), NEW t \in Comm(d), t \notin T,
           NEW m \in Stores, Cardinality(T) = m.revision, RevOf(d.txn, t) = m.revision + 1, NEW w \in WriteSets,
           Holds(d.node, t, RecordsOf("node", t, w)), Holds(d.edge, t, RecordsOf("edge", t, w)),
           ParentIndexExact(m), ~InvariantConflict(m, w),
           NEW cp \in Checkpoints \cup {None}, ImageOK(d, m, T, cp),
           cp # None => \E v \in 0 .. u : Starts(d, Hydrated(cp), cp.offsets, v) /\ v < t
    PROVE  ImageOK(d, ApplyWrites(m, w), T \cup {t}, cp)
<1>1. Full(d, T \cup {t}) = ApplyWrites(Full(d, T), w) /\ Full(d, T) \in Stores
  <2>1. Starts(d, EmptyStore, NoOffsets, 0)
    BY EmptyStarts
  <2>2. NoOffsets \in Offsets /\ EmptyStore \in Stores
    BY EmptyStoreShape DEF NoOffsets, Offsets
  <2>3. 0 < t
    BY DoneTyped
  <2>4. AtomicView(Image(d, T, EmptyStore, NoOffsets)) = AtomicView(m)
    BY DEF ImageOK, Full
  <2>5. RevOf(d.txn, t) = Cardinality(T) + 1
    OBVIOUS
  <2>6. Image(d, T \cup {t}, EmptyStore, NoOffsets) = ApplyWrites(Image(d, T, EmptyStore, NoOffsets), w)
    BY <2>1, <2>2, <2>3, <2>4, <2>5, OneCommitted
  <2>7. Image(d, T, EmptyStore, NoOffsets) \in Stores
    BY <2>2, ImageTyped
  <2> QED BY <2>6, <2>7 DEF Full
<1>2. ASSUME cp # None
      PROVE  Part(d, T \cup {t}, cp) = ApplyWrites(Part(d, T, cp), w) /\ Part(d, T, cp) \in Stores
  <2>1. PICK v \in 0 .. u : Starts(d, Hydrated(cp), cp.offsets, v) /\ v < t
    BY <1>2
  <2>2. cp.offsets \in Offsets /\ Hydrated(cp) \in Stores /\ v \in Nat
    BY <1>2, HydratedTyped DEF Checkpoints
  <2>4. AtomicView(Image(d, T, Hydrated(cp), cp.offsets)) = AtomicView(m)
    BY <1>2 DEF ImageOK, Part
  <2>5. RevOf(d.txn, t) = Cardinality(T) + 1
    OBVIOUS
  <2>6. Image(d, T \cup {t}, Hydrated(cp), cp.offsets) = ApplyWrites(Image(d, T, Hydrated(cp), cp.offsets), w)
    BY <2>1, <2>2, <2>4, <2>5, OneCommitted
  <2>7. Image(d, T, Hydrated(cp), cp.offsets) \in Stores
    BY <2>2, ImageTyped
  <2> QED BY <2>6, <2>7 DEF Part
<1>3. AtomicView(Full(d, T \cup {t})) = AtomicView(ApplyWrites(m, w))
  BY <1>1, ViewApplied DEF ImageOK
<1>4. ModRevisionsBounded(Full(d, T \cup {t}))
  BY <1>1, CommitModRevisions DEF ImageOK
<1>5. ASSUME cp # None
      PROVE  AtomicView(Part(d, T \cup {t}, cp)) = AtomicView(ApplyWrites(m, w))
             /\ NotOlder(Part(d, T \cup {t}, cp), Full(d, T \cup {t}))
  <2>1. AtomicView(Part(d, T, cp)) = AtomicView(m) /\ NotOlder(Part(d, T, cp), Full(d, T))
    BY <1>5 DEF ImageOK
  <2>2. AtomicView(Part(d, T, cp)) = AtomicView(Full(d, T))
    BY <2>1 DEF ImageOK
  <2>3. NotOlder(ApplyWrites(Part(d, T, cp), w), ApplyWrites(Full(d, T), w))
    BY <1>1, <1>2, <1>5, <2>1, <2>2, AppliedNotOlder
  <2>4. AtomicView(ApplyWrites(Part(d, T, cp), w)) = AtomicView(ApplyWrites(m, w))
    BY <2>1, ViewApplied
  <2> QED BY <1>1, <1>2, <1>5, <2>3, <2>4
<1> QED BY <1>3, <1>4, <1>5 DEF ImageOK

-----------------------------------------------------------------------------
(* Longer and shorter segments.                                            *)

\* Segment q goes on from p with records of transaction t.
Longer(p, q, t) ==
    /\ Size(p) = Len(p) /\ Size(q) = Len(q) /\ Len(p) <= Len(q)
    /\ \A i \in 1 .. Len(p) : q[i] = p[i]
    /\ \A i \in Len(p) + 1 .. Len(q) : q[i].kind # "torn" /\ q[i].txn = t

\* Appending records of one transaction.
LEMMA LongerOf ==
    ASSUME NEW S, NEW p \in Seq(S), NEW r \in Seq(S), NEW t, Size(p) = Len(p),
           \A i \in 1 .. Len(r) : r[i].kind # "torn" /\ r[i].txn = t
    PROVE  /\ Longer(p, p \o r, t) /\ p \o r \in Seq(S) /\ Len(p \o r) = Len(p) + Len(r)
           /\ \A i \in 1 .. Len(r) : (p \o r)[Len(p) + i] = r[i]
<1>1. PICK n \in Nat : n = Len(p)
  BY LenProperties
<1>2. PICK k \in Nat : k = Len(r)
  BY LenProperties
<1>3. PICK q : q = p \o r
  OBVIOUS
<1>4. q \in Seq(S) /\ Len(q) = n + k /\ (\A i \in 1 .. n + k : q[i] = IF i <= n THEN p[i] ELSE r[i - n])
  BY <1>1, <1>2, <1>3, ConcatProperties
<1>5. \A i \in 1 .. n : q[i] = p[i]
  BY <1>4
<1>6. \A i \in 1 .. k : q[n + i] = r[i]
  <2> TAKE i \in 1 .. k
  <2>1. n + i \in 1 .. n + k /\ ~(n + i <= n) /\ (n + i) - n = i
    OBVIOUS
  <2> QED BY <1>4, <2>1
<1>7. \A i \in n + 1 .. n + k : q[i].kind # "torn" /\ q[i].txn = t
  <2> TAKE i \in n + 1 .. n + k
  <2>1. i - n \in 1 .. k /\ n + (i - n) = i
    OBVIOUS
  <2> QED BY <1>2, <1>6, <2>1
<1>8. Size(q) = Len(q)
  <2>1. CASE k = 0
    <3>1. Len(q) = n
      BY <1>4, <2>1
    <3>2. n > 0 => q[n] = p[n]
      BY <1>5
    <3>3. n > 0 => p[n].kind # "torn"
      BY <1>1 DEF Size
    <3> QED BY <3>1, <3>2, <3>3 DEF Size
  <2>2. CASE k # 0
    <3>1. n + k \in n + 1 .. n + k
      BY <2>2
    <3>2. q[n + k].kind # "torn"
      BY <1>7, <3>1
    <3> QED BY <1>4, <3>2 DEF Size
  <2> QED BY <2>1, <2>2
<1>9. n <= n + k
  OBVIOUS
<1>10. Longer(p, q, t)
  BY <1>1, <1>4, <1>5, <1>7, <1>8, <1>9 DEF Longer
<1> QED BY <1>1, <1>2, <1>3, <1>4, <1>6, <1>10

\* The records stay whole and numbered when a transaction appends to a
\* segment.
LEMMA LongerWhole ==
    ASSUME NEW p, NEW q, NEW u \in Nat, NEW t \in Nat, NEW h \in Nat, Len(p) \in Nat, Len(q) \in Nat,
           Longer(p, q, t), WholeBut(p, u), u <= h, t \in 1 .. h
    PROVE  WholeBut(q, h) /\ Agree(p, q, Len(p))
<1>1. ASSUME NEW i \in 1 .. Len(q) PROVE q[i].kind # "torn" /\ q[i].txn \in 1 .. h
  <2>1. CASE i <= Len(p)
    <3>1. q[i] = p[i] /\ p[i].kind # "torn" /\ p[i].txn \in 1 .. u
      BY <2>1 DEF Longer, WholeBut
    <3> QED BY <3>1
  <2>2. CASE ~(i <= Len(p))
    <3>1. i \in Len(p) + 1 .. Len(q)
      BY <2>2
    <3> QED BY <3>1 DEF Longer
  <2> QED BY <2>1, <2>2
<1>2. Agree(p, q, Len(p))
  BY DEF Longer, Agree
<1> QED BY <1>1, <1>2 DEF Longer, WholeBut

\* The transactions in front of the offsets stay the same.
LEMMA LongerSplit ==
    ASSUME NEW p, NEW q, NEW t \in Nat, Len(p) \in Nat, Len(q) \in Nat, Longer(p, q, t), NEW off \in Nat, off <= Len(p),
           NEW v \in Nat, v < t, SplitAt(p, off, v)
    PROVE  SplitAt(q, off, v)
<1> SUFFICES ASSUME NEW i \in 1 .. Len(q) PROVE i <= off <=> q[i].txn <= v
  BY DEF SplitAt, Longer
<1>1. CASE i <= Len(p)
  <2>1. q[i] = p[i] /\ (i <= off <=> p[i].txn <= v)
    BY <1>1 DEF Longer, SplitAt
  <2> QED BY <2>1
<1>2. CASE ~(i <= Len(p))
  <2>1. q[i].txn = t
    BY <1>2 DEF Longer
  <2> QED BY <1>2, <2>1
<1> QED BY <1>1, <1>2

\* Appending one record.
LEMMA Appended ==
    ASSUME NEW S, NEW p \in Seq(S), NEW r \in S, NEW t, Size(p) = Len(p), r.kind # "torn", r.txn = t
    PROVE  /\ Longer(p, Append(p, r), t) /\ Append(p, r) \in Seq(S) /\ Len(Append(p, r)) = Len(p) + 1
           /\ Append(p, r)[Len(p) + 1] = r
<1>1. PICK n \in Nat : n = Len(p)
  BY LenProperties
<1>2. PICK q : q = Append(p, r)
  OBVIOUS
<1>3. q \in Seq(S) /\ Len(q) = n + 1 /\ (\A i \in 1 .. n : q[i] = p[i]) /\ q[n + 1] = r
  BY <1>1, <1>2, AppendProperties
<1>4. \A i \in n + 1 .. n + 1 : q[i].kind # "torn" /\ q[i].txn = t
  <2> TAKE i \in n + 1 .. n + 1
  <2>1. i = n + 1
    OBVIOUS
  <2> QED BY <1>3, <2>1
<1>5. q[n + 1].kind # "torn"
  BY <1>3
<1>6. Size(q) = Len(q)
  BY <1>3, <1>5 DEF Size
<1>7. n <= n + 1
  OBVIOUS
<1>8. Longer(p, q, t)
  BY <1>1, <1>3, <1>4, <1>6, <1>7 DEF Longer
<1> QED BY <1>1, <1>2, <1>3, <1>8

\* What is appended does not change the commits in front of it.
LEMMA GrownCommits ==
    ASSUME NEW p, NEW q, NEW t, Len(p) \in Nat, Len(q) \in Nat, Longer(p, q, t), NEW i \in 0 .. Len(p)
    PROVE  CommittedIn(q, i) = CommittedIn(p, i)
<1>1. PICK n \in Nat : n = Len(p)
  OBVIOUS
<1>2. \A j \in 1 .. n : p[j] = q[j]
  BY <1>1 DEF Longer
<1>3. i \in 0 .. n
  BY <1>1
<1> QED BY <1>2, <1>3, CommittedAlike

\* Records that commit nothing.
LEMMA TxnGrown ==
    ASSUME NEW p, NEW q, NEW t, Len(p) \in Nat, Len(q) \in Nat, Longer(p, q, t),
           \A i \in Len(p) + 1 .. Len(q) : ~CommitAt(q, i), Once(p), Numbered(p)
    PROVE  Once(q) /\ Numbered(q) /\ CommittedIn(q, Size(q)) = CommittedIn(p, Size(p))
<1>1. PICK n \in Nat, k \in Nat : n = Len(p) /\ k = Len(q)
  OBVIOUS
<1>2. Size(p) = n /\ Size(q) = k /\ n <= k /\ \A i \in 1 .. n : q[i] = p[i]
  BY <1>1 DEF Longer
<1>3. ASSUME NEW i \in 1 .. k, CommitAt(q, i) PROVE i \in 1 .. n /\ CommitAt(p, i) /\ q[i] = p[i]
  <2>1. i \in 1 .. n
    BY <1>1, <1>3
  <2> QED BY <1>2, <1>3, <2>1 DEF CommitAt
<1>4. Once(q)
  BY <1>2, <1>3 DEF Once
<1>5. \A i \in 0 .. n : CommittedIn(q, i) = CommittedIn(p, i)
  BY <1>1, GrownCommits
<1>6. ASSUME NEW i \in 1 .. k, CommitAt(q, i) PROVE q[i].rev = Cardinality(CommittedIn(q, i))
  <2>1. i \in 1 .. n /\ CommitAt(p, i) /\ q[i] = p[i]
    BY <1>3, <1>6
  <2>2. p[i].rev = Cardinality(CommittedIn(p, i))
    BY <1>2, <2>1 DEF Numbered
  <2>3. CommittedIn(q, i) = CommittedIn(p, i)
    BY <1>5, <2>1
  <2> QED BY <2>1, <2>2, <2>3
<1>7. Numbered(q)
  BY <1>2, <1>6 DEF Numbered
<1>8. CommittedIn(q, k) = CommittedIn(p, n)
  <2>1. ASSUME NEW x PROVE x \in CommittedIn(q, k) <=> x \in CommittedIn(q, n)
    <3>1. x \in CommittedIn(q, k) <=> \E i \in 1 .. k : CommitAt(q, i) /\ q[i].txn = x
      BY CommittedIs
    <3>2. x \in CommittedIn(q, n) <=> \E i \in 1 .. n : CommitAt(q, i) /\ q[i].txn = x
      BY CommittedIs
    <3>3. \A i \in 1 .. n : i \in 1 .. k
      BY <1>2
    <3> QED BY <1>3, <3>1, <3>2, <3>3
  <2>2. CommittedIn(q, k) = CommittedIn(q, n)
    BY <2>1
  <2> QED BY <1>5, <2>2
<1> QED BY <1>2, <1>4, <1>7, <1>8

\* One commit record.
LEMMA TxnCommitted ==
    ASSUME NEW p, NEW q, NEW t, Len(p) \in Nat, Len(q) = Len(p) + 1, Longer(p, q, t), CommitAt(q, Len(p) + 1),
           t \notin CommittedIn(p, Size(p)), IsFiniteSet(CommittedIn(p, Size(p))), Once(p), Numbered(p),
           q[Len(p) + 1].rev = Cardinality(CommittedIn(p, Size(p))) + 1
    PROVE  /\ Once(q) /\ Numbered(q) /\ CommittedIn(q, Size(q)) = CommittedIn(p, Size(p)) \cup {t}
           /\ RevOf(q, t) = Cardinality(CommittedIn(p, Size(p))) + 1
<1>1. PICK n \in Nat : n = Len(p)
  OBVIOUS
<1>2. Size(p) = n /\ Size(q) = n + 1 /\ (\A i \in 1 .. n : q[i] = p[i]) /\ CommitAt(q, n + 1)
  BY <1>1 DEF Longer
<1>3. q[n + 1].txn = t
  <2>1. n + 1 \in n + 1 .. n + 1
    OBVIOUS
  <2> QED BY <1>1, <2>1 DEF Longer
<1>4. ASSUME NEW i \in 1 .. n, CommitAt(q, i) PROVE CommitAt(p, i) /\ q[i] = p[i] /\ q[i].txn # t
  <2>1. CommitAt(p, i) /\ q[i] = p[i]
    BY <1>2, <1>4 DEF CommitAt
  <2>2. p[i].txn \in CommittedIn(p, n)
    BY <2>1, CommittedIs
  <2> QED BY <1>2, <2>1, <2>2
<1>5. \A i \in 1 .. n + 1 : i \in 1 .. n \/ i = n + 1
  OBVIOUS
<1>6. Once(q)
  <2> SUFFICES ASSUME NEW i \in 1 .. n + 1, NEW j \in 1 .. n + 1, CommitAt(q, i), CommitAt(q, j), q[i].txn = q[j].txn
               PROVE  i = j
    BY <1>2 DEF Once
  <2>1. CASE i \in 1 .. n /\ j \in 1 .. n
    BY <1>2, <1>4, <2>1 DEF Once
  <2>2. CASE i = n + 1 /\ j \in 1 .. n
    BY <1>3, <1>4, <2>2
  <2>3. CASE i \in 1 .. n /\ j = n + 1
    BY <1>3, <1>4, <2>3
  <2> QED BY <1>5, <2>1, <2>2, <2>3
<1>7. \A i \in 0 .. n : CommittedIn(q, i) = CommittedIn(p, i)
  <2>0. Len(q) \in Nat
    OBVIOUS
  <2> QED BY <1>1, <2>0, GrownCommits
<1>8. CommittedIn(q, n + 1) = CommittedIn(p, n) \cup {t}
  <2>1. ASSUME NEW x PROVE x \in CommittedIn(q, n + 1) <=> x \in CommittedIn(q, n) \/ x = t
    <3>1. x \in CommittedIn(q, n + 1) <=> \E i \in 1 .. n + 1 : CommitAt(q, i) /\ q[i].txn = x
      BY CommittedIs
    <3>2. x \in CommittedIn(q, n) <=> \E i \in 1 .. n : CommitAt(q, i) /\ q[i].txn = x
      BY CommittedIs
    <3>3. (\A i \in 1 .. n : i \in 1 .. n + 1) /\ n + 1 \in 1 .. n + 1
      OBVIOUS
    <3> QED BY <1>2, <1>3, <1>5, <3>1, <3>2, <3>3
  <2>2. CommittedIn(q, n + 1) = CommittedIn(q, n) \cup {t}
    BY <2>1
  <2> QED BY <1>7, <2>2
<1>9. Cardinality(CommittedIn(q, n + 1)) = Cardinality(CommittedIn(p, n)) + 1
  BY <1>2, <1>8, FS_AddElement
<1>10. ASSUME NEW i \in 1 .. n + 1, CommitAt(q, i) PROVE q[i].rev = Cardinality(CommittedIn(q, i))
  <2>1. CASE i = n + 1
    BY <1>1, <1>2, <1>9, <2>1
  <2>2. CASE i \in 1 .. n
    <3>1. CommitAt(p, i) /\ q[i] = p[i]
      BY <1>4, <1>10, <2>2
    <3>2. p[i].rev = Cardinality(CommittedIn(p, i))
      BY <1>2, <2>2, <3>1 DEF Numbered
    <3>3. CommittedIn(q, i) = CommittedIn(p, i)
      BY <1>7, <2>2
    <3> QED BY <3>1, <3>2, <3>3
  <2> QED BY <1>5, <2>1, <2>2
<1>11. Numbered(q)
  BY <1>2, <1>10 DEF Numbered
<1>12. RevOf(q, t) = q[n + 1].rev
  <2>1. n + 1 \in 1 .. Size(q)
    BY <1>2
  <2>2. RevOf(q, q[n + 1].txn) = q[n + 1].rev
    BY <1>2, <1>6, <2>1, RevOfIs
  <2> QED BY <1>3, <2>2
<1> QED BY <1>1, <1>2, <1>6, <1>8, <1>11, <1>12

\* A checkpoint's offsets, within the segments.
LEMMA OffsetsWithin ==
    ASSUME NEW d, NEW sy, NEW cp \in Checkpoints \cup {None}, NEW x, OffsetOK(d, sy, cp, x), x < MaxCrashes, cp # None
    PROVE  /\ cp.offsets \in Offsets
           /\ cp.offsets.txn <= Len(d.txn) /\ cp.offsets.node <= Len(d.node) /\ cp.offsets.edge <= Len(d.edge)
<1>1. cp.offsets \in Offsets
  BY DEF Checkpoints
<1>2. cp.offsets.txn <= Len(d.txn) /\ cp.offsets.node <= Len(d.node) /\ cp.offsets.edge <= Len(d.edge)
  BY DEF OffsetOK
<1> QED BY <1>1, <1>2

\* Disk e goes on from d with records of transaction t.
Grows(d, e, t) == Longer(d.txn, e.txn, t) /\ Longer(d.node, e.node, t) /\ Longer(d.edge, e.edge, t)

\* A checkpoint stays a start for replay when a later transaction appends to
\* the segments.
LEMMA GrownStarts ==
    ASSUME NEW d \in Disks, NEW e \in Disks, NEW t \in Nat, Grows(d, e, t), NEW s, NEW off \in Offsets, NEW v \in Nat, v < t,
           off.txn <= Len(d.txn), off.node <= Len(d.node), off.edge <= Len(d.edge),
           Comm(d) \subseteq Comm(e), Comm(e) \subseteq Comm(d) \cup {t}, Starts(d, s, off, v)
    PROVE  Starts(e, s, off, v)
<1>1. /\ Len(d.txn) \in Nat /\ Len(d.node) \in Nat /\ Len(d.edge) \in Nat
      /\ Len(e.txn) \in Nat /\ Len(e.node) \in Nat /\ Len(e.edge) \in Nat
  BY SegmentsTyped
<1>2. PICK ot \in Nat, on \in Nat, oe \in Nat : ot = off.txn /\ on = off.node /\ oe = off.edge
  BY DEF Offsets
<1>3. ot <= Len(d.txn) /\ on <= Len(d.node) /\ oe <= Len(d.edge)
  BY <1>2
<1>4. SplitAt(d.txn, ot, v) /\ SplitAt(d.node, on, v) /\ SplitAt(d.edge, oe, v)
  BY <1>2 DEF Starts
<1>5. Longer(d.txn, e.txn, t) /\ Longer(d.node, e.node, t) /\ Longer(d.edge, e.edge, t)
  BY DEF Grows
<1>6. SplitAt(e.txn, ot, v)
  BY <1>1, <1>3, <1>4, <1>5, LongerSplit
<1>7. SplitAt(e.node, on, v)
  BY <1>1, <1>3, <1>4, <1>5, LongerSplit
<1>8. SplitAt(e.edge, oe, v)
  BY <1>1, <1>3, <1>4, <1>5, LongerSplit
<1>9. Older(Comm(e), v) = Older(Comm(d), v)
  <2>1. \A y \in Comm(e) : y <= v => y \in Comm(d)
    OBVIOUS
  <2> QED BY <2>1 DEF Older
<1> QED BY <1>2, <1>6, <1>7, <1>8, <1>9 DEF Starts

\* The disk stays orderly when a transaction appends to it.
LEMMA GrownOrderly ==
    ASSUME NEW d \in Disks, NEW e \in Disks, NEW u \in Nat, NEW h \in Nat, NEW t \in 1 .. h, u <= h, Grows(d, e, t), Orderly(d, u),
           Once(e.txn), Numbered(e.txn)
    PROVE  /\ Orderly(e, h)
           /\ Agree(d.txn, e.txn, Len(d.txn)) /\ Agree(d.node, e.node, Len(d.node)) /\ Agree(d.edge, e.edge, Len(d.edge))
<1>1. /\ Len(d.txn) \in Nat /\ Len(d.node) \in Nat /\ Len(d.edge) \in Nat
      /\ Len(e.txn) \in Nat /\ Len(e.node) \in Nat /\ Len(e.edge) \in Nat
  BY SegmentsTyped
<1>2. Longer(d.txn, e.txn, t) /\ Longer(d.node, e.node, t) /\ Longer(d.edge, e.edge, t)
  BY DEF Grows
<1>3. WholeBut(d.txn, u) /\ WholeBut(d.node, u) /\ WholeBut(d.edge, u)
  BY DEF Orderly
<1>4. t \in Nat
  OBVIOUS
<1>5. WholeBut(e.txn, h) /\ Agree(d.txn, e.txn, Len(d.txn))
  BY <1>1, <1>2, <1>3, <1>4, LongerWhole
<1>6. WholeBut(e.node, h) /\ Agree(d.node, e.node, Len(d.node))
  BY <1>1, <1>2, <1>3, <1>4, LongerWhole
<1>7. WholeBut(e.edge, h) /\ Agree(d.edge, e.edge, Len(d.edge))
  BY <1>1, <1>2, <1>3, <1>4, LongerWhole
<1> QED BY <1>5, <1>6, <1>7 DEF Orderly

\* The images of the transactions on disk d are the same on disk e.
LEMMA GrownImages ==
    ASSUME NEW d \in Disks, NEW e \in Disks, NEW u \in Nat, NEW h \in Nat, NEW t \in Nat, Grows(d, e, t),
           Orderly(d, u), Orderly(e, h),
           Agree(d.txn, e.txn, Len(d.txn)), Agree(d.node, e.node, Len(d.node)), Agree(d.edge, e.edge, Len(d.edge)),
           NEW T, T \subseteq Comm(d), t \notin T, NEW m, NEW cp \in Checkpoints \cup {None}, ImageOK(d, m, T, cp)
    PROVE  ImageOK(e, m, T, cp)
<1>1. PICK tn \in Nat, nn \in Nat, en \in Nat : tn = Len(d.txn) /\ nn = Len(d.node) /\ en = Len(d.edge)
  BY SegmentsTyped
<1>2. Size(d.txn) = tn /\ Size(d.node) = nn /\ Size(d.edge) = en
  BY <1>1 DEF Grows, Longer
<1>3. Size(e.node) = Len(e.node) /\ Size(e.edge) = Len(e.edge)
  BY DEF Grows, Longer
<1>4. Agree(d.txn, e.txn, tn) /\ Agree(d.node, e.node, nn) /\ Agree(d.edge, e.edge, en)
  BY <1>1
<1>5. T \subseteq CommittedIn(d.txn, tn)
  BY <1>2 DEF Comm
<1>6. (\A i \in nn + 1 .. Size(d.node) : d.node[i].txn \notin T) /\ (\A i \in en + 1 .. Size(d.edge) : d.edge[i].txn \notin T)
  BY <1>2
<1>7. \A i \in nn + 1 .. Size(e.node) : e.node[i].txn \notin T
  BY <1>1, <1>3 DEF Grows, Longer
<1>8. \A i \in en + 1 .. Size(e.edge) : e.edge[i].txn \notin T
  BY <1>1, <1>3 DEF Grows, Longer
<1> QED BY <1>4, <1>5, <1>6, <1>7, <1>8, ImagesKept

\* The records that BeginCommit appends are held.
LEMMA GrownHolds ==
    ASSUME NEW p, NEW q, Len(p) \in Nat, Len(q) \in Nat, NEW u \in Nat, NEW t \in Nat, u < t, Longer(p, q, t), WholeBut(p, u),
           NEW records, Between(q, Len(p), Len(q)) = records
    PROVE  Holds(q, t, records)
<1>1. Len(p) \in 0 .. Size(q) /\ Size(q) = Len(q)
  BY DEF Longer
<1>2. ASSUME NEW i \in 1 .. Len(p) PROVE q[i].txn # t
  <2>1. q[i] = p[i] /\ p[i].txn \in 1 .. u
    BY DEF Longer, WholeBut
  <2> QED BY <2>1
<1> QED BY <1>1, <1>2 DEF Holds

-----------------------------------------------------------------------------
(* The steps of a commit.                                                  *)

\* Order is transitive.
LEMMA Within ==
    ASSUME NEW a \in Nat, NEW b \in Nat, NEW c \in Nat, a <= b, b <= c
    PROVE  a <= c
OBVIOUS

\* An offset within a segment stays within it.
LEMMA GrownWithin ==
    ASSUME NEW p, NEW q, NEW t, Longer(p, q, t), Len(p) \in Nat, Len(q) \in Nat, NEW n \in Nat, n <= Len(p)
    PROVE  n <= Len(q)
<1>1. Len(p) <= Len(q)
  BY DEF Longer
<1> QED BY <1>1, Within

\* Segment q holds what p holds and records of a new transaction, not synced.
LEMMA GrownDataSync ==
    ASSUME NEW p, NEW q, Len(p) \in Nat, Len(q) \in Nat, NEW t \in Nat, Longer(p, q, t), NEW n \in Nat, NEW D, t \notin D,
           NEW c, c # None, c.step = "data", c.txn = t, NEW x \in Nat, DataSyncOK(p, n, D, None, x)
    PROVE  DataSyncOK(q, n, D, c, x)
<1>0. ~(c.step # "data")
  OBVIOUS
<1> SUFFICES ASSUME NEW i \in n + 1 .. Len(q)
             PROVE  q[i].txn \notin D /\ (x + 1 < MaxCrashes => q[i].txn = t)
  BY <1>0 DEF DataSyncOK
<1>1. CASE i <= Len(p)
  <2>1. i \in n + 1 .. Len(p) /\ q[i] = p[i]
    BY <1>1 DEF Longer
  <2> QED BY <2>1 DEF DataSyncOK
<1>2. CASE ~(i <= Len(p))
  <2>1. q[i].txn = t
    BY <1>2 DEF Longer
  <2> QED BY <2>1
<1> QED BY <1>1, <1>2

\* The begin record and the data records of CommitWithInfo keep the disk safe.
LEMMA SafeBegin ==
    ASSUME NEW d \in Disks, NEW e \in Disks, NEW sy \in Offsets, NEW cp \in Checkpoints \cup {None}, NEW m, NEW u \in Nat,
           NEW x \in Nat, x < MaxCrashes, NEW c, c # None, c.txn = u + 1, c.step = "data",
           Safe(d, sy, cp, "up", m, None, u, x), Grows(d, e, u + 1),
           \A i \in Len(d.txn) + 1 .. Len(e.txn) : ~CommitAt(e.txn, i),
           Between(e.node, Len(d.node), Len(e.node)) = RecordsOf("node", u + 1, c.writes),
           Between(e.edge, Len(d.edge), Len(e.edge)) = RecordsOf("edge", u + 1, c.writes)
    PROVE  Safe(e, sy, cp, "up", m, c, u + 1, x)
<1>0. PICK t \in Nat : t = u + 1
  OBVIOUS
<1>a. Grows(d, e, t) /\ c.txn = t
  BY <1>0
<1>b. LogOK(d, m, None, u, "up", x) /\ SyncOK(d, sy, None, "up", x) /\ OffsetOK(d, sy, cp, x)
      /\ StartOK(d, cp, None, u) /\ ImageOK(d, m, Done(d, None), cp)
  BY DEF Safe
<1>1. Orderly(d, u) /\ Cardinality(Done(d, None)) = m.revision
  BY <1>b DEF LogOK
<1>2. /\ Len(d.txn) \in Nat /\ Len(d.node) \in Nat /\ Len(d.edge) \in Nat
      /\ Len(e.txn) \in Nat /\ Len(e.node) \in Nat /\ Len(e.edge) \in Nat
  BY SegmentsTyped
<1>c. Longer(d.txn, e.txn, t) /\ Longer(d.node, e.node, t) /\ Longer(d.edge, e.edge, t)
  BY <1>a DEF Grows
<1>3. Once(e.txn) /\ Numbered(e.txn) /\ Comm(e) = Comm(d)
  <2>1. Once(d.txn) /\ Numbered(d.txn)
    BY <1>1 DEF Orderly
  <2> QED BY <2>1, <1>2, <1>c, TxnGrown DEF Comm
<1>4. /\ Orderly(e, t)
      /\ Agree(d.txn, e.txn, Len(d.txn)) /\ Agree(d.node, e.node, Len(d.node)) /\ Agree(d.edge, e.edge, Len(d.edge))
  <2>1. t \in 1 .. t /\ u <= t
    BY <1>0
  <2> QED BY <2>1, <1>1, <1>3, <1>a, GrownOrderly
<1>5. t \notin Comm(d)
  <2>1. Comm(d) \subseteq 1 .. u
    BY <1>1, DoneTyped
  <2>2. t \notin 1 .. u
    BY <1>0
  <2> QED BY <2>1, <2>2
<1>6. Done(d, None) = Comm(d) /\ Done(e, c) = Comm(d)
  BY <1>3, <1>5, <1>a DEF Done, Mine
<1>7. LogOK(e, m, c, t, "up", x)
  <2>1. Whole(e)
    BY <1>c DEF Longer, Whole
  <2>2. c.txn \notin Comm(e) /\ c.step # "sync"
    BY <1>3, <1>5, <1>a
  <2> QED BY <2>1, <2>2, <1>1, <1>4, <1>6 DEF LogOK
<1>8. HeldOK(e, c, "up")
  <2>1. WholeBut(d.node, u) /\ WholeBut(d.edge, u) /\ u < t
    BY <1>0, <1>1 DEF Orderly
  <2>2. Holds(e.node, t, RecordsOf("node", t, c.writes))
    BY <2>1, <1>0, <1>2, <1>c, GrownHolds
  <2>3. Holds(e.edge, t, RecordsOf("edge", t, c.writes))
    BY <2>1, <1>0, <1>2, <1>c, GrownHolds
  <2> QED BY <2>2, <2>3, <1>a DEF HeldOK
<1>9. SyncOK(e, sy, c, "up", x)
  <2>1. PICK st \in Nat, sn \in Nat, se \in Nat : st = sy.txn /\ sn = sy.node /\ se = sy.edge
    BY DEF Offsets
  <2>2. st <= Len(d.txn) /\ sn <= Len(d.node) /\ se <= Len(d.edge) /\ TxnSyncOK(d.txn, st, None, x)
        /\ DataSyncOK(d.node, sn, Comm(d), None, x) /\ DataSyncOK(d.edge, se, Comm(d), None, x)
    BY <2>1, <1>b, <1>6 DEF SyncOK
  <2>3. st <= Len(e.txn)
    BY <2>2, <1>2, <1>c, GrownWithin
  <2>4. sn <= Len(e.node)
    BY <2>2, <1>2, <1>c, GrownWithin
  <2>8. se <= Len(e.edge)
    BY <2>2, <1>2, <1>c, GrownWithin
  <2>5. TxnSyncOK(e.txn, st, c, x)
    <3> SUFFICES ASSUME NEW i \in st + 1 .. Len(e.txn) PROVE ~CommitAt(e.txn, i)
      BY DEF TxnSyncOK
    <3>1. CASE i <= Len(d.txn)
      <4>1. i \in st + 1 .. Len(d.txn)
        BY <3>1, <1>2
      <4>2. ~CommitAt(d.txn, i)
        BY <4>1, <2>2 DEF TxnSyncOK
      <4>3. e.txn[i] = d.txn[i]
        BY <4>1, <1>c DEF Longer
      <4> QED BY <4>2, <4>3 DEF CommitAt
    <3>2. CASE ~(i <= Len(d.txn))
      BY <3>2, <1>2
    <3> QED BY <3>1, <3>2
  <2>6. DataSyncOK(e.node, sn, Comm(d), c, x)
    BY <2>2, <1>2, <1>5, <1>a, <1>c, GrownDataSync
  <2>7. DataSyncOK(e.edge, se, Comm(d), c, x)
    BY <2>2, <1>2, <1>5, <1>a, <1>c, GrownDataSync
  <2> QED BY <2>1, <2>3, <2>4, <2>8, <2>5, <2>6, <2>7, <1>6 DEF SyncOK
<1>10. OffsetOK(e, sy, cp, x)
  <2>1. CASE cp = None
    BY <2>1 DEF OffsetOK
  <2>2. CASE cp # None
    <3>1. /\ cp.offsets \in Offsets
          /\ cp.offsets.txn <= Len(d.txn) /\ cp.offsets.node <= Len(d.node) /\ cp.offsets.edge <= Len(d.edge)
      BY <2>2, <1>b, OffsetsWithin
    <3>2. PICK ot \in Nat, on \in Nat, oe \in Nat : ot = cp.offsets.txn /\ on = cp.offsets.node /\ oe = cp.offsets.edge
      BY <3>1 DEF Offsets
    <3>3. ot <= Len(d.txn) /\ on <= Len(d.node) /\ oe <= Len(d.edge)
      BY <3>1, <3>2
    <3>4. ot <= Len(e.txn)
      BY <3>3, <1>2, <1>c, GrownWithin
    <3>5. on <= Len(e.node)
      BY <3>3, <1>2, <1>c, GrownWithin
    <3>6. oe <= Len(e.edge)
      BY <3>3, <1>2, <1>c, GrownWithin
    <3> QED BY <3>2, <3>4, <3>5, <3>6, <1>b DEF OffsetOK
  <2> QED BY <2>1, <2>2
<1>11. StartOK(e, cp, c, t)
  <2> SUFFICES ASSUME cp # None
               PROVE  \E v \in 0 .. t : Starts(e, Hydrated(cp), cp.offsets, v) /\ v < t
    BY <1>a DEF StartOK
  <2>1. PICK v \in 0 .. u : Starts(d, Hydrated(cp), cp.offsets, v)
    BY <1>b DEF StartOK
  <2>2. v \in Nat /\ v < t /\ v \in 0 .. t
    BY <1>0
  <2>3. /\ cp.offsets \in Offsets
        /\ cp.offsets.txn <= Len(d.txn) /\ cp.offsets.node <= Len(d.node) /\ cp.offsets.edge <= Len(d.edge)
    BY <1>b, OffsetsWithin
  <2>4. Comm(d) \subseteq Comm(e) /\ Comm(e) \subseteq Comm(d) \cup {t}
    BY <1>3
  <2>5. Starts(e, Hydrated(cp), cp.offsets, v)
    BY <2>1, <2>2, <2>3, <2>4, <1>a, GrownStarts
  <2> QED BY <2>2, <2>5
<1>12. ImageOK(e, m, Done(e, c), cp)
  <2>1. ImageOK(d, m, Comm(d), cp)
    BY <1>b, <1>6
  <2>2. ImageOK(e, m, Comm(d), cp)
    BY <2>1, <1>1, <1>4, <1>5, <1>a, GrownImages
  <2> QED BY <2>2, <1>6
<1>13. Safe(e, sy, cp, "up", m, c, t, x)
  BY <1>7, <1>8, <1>9, <1>10, <1>11, <1>12 DEF Safe
<1> QED BY <1>0, <1>13

\* The parts of a safe disk.
LEMMA SafeFacts ==
    ASSUME NEW d, NEW sy, NEW cp, NEW st, NEW m, NEW c, NEW u, NEW x, Safe(d, sy, cp, st, m, c, u, x)
    PROVE  /\ LogOK(d, m, c, u, st, x) /\ HeldOK(d, c, st) /\ SyncOK(d, sy, c, st, x) /\ OffsetOK(d, sy, cp, x)
           /\ StartOK(d, cp, c, u) /\ ImageOK(d, m, Done(d, c), cp)
BY DEF Safe

\* A transaction that writes nothing to a segment has no record there.
LEMMA HoldsNothing ==
    ASSUME NEW q, NEW t, NEW records, Holds(q, t, records), records = {}, Size(q) = Len(q), Len(q) \in Nat
    PROVE  \A i \in 1 .. Len(q) : q[i].txn # t
<1>1. PICK n \in Nat : n = Len(q)
  OBVIOUS
<1>2. PICK a \in 0 .. n : (\A i \in 1 .. a : q[i].txn # t) /\ Between(q, a, n) = {}
  BY <1>1 DEF Holds
<1>3. a = n
  <2>1. \A i \in a + 1 .. n : q[i] \in Between(q, a, n)
    BY DEF Between
  <2>2. a + 1 \notin a + 1 .. n
    BY <1>2, <2>1
  <2> QED BY <2>2
<1> QED BY <1>1, <1>2, <1>3

\* What the sync of a data segment does.
LEMMA SyncedData ==
    ASSUME NEW q, Len(q) \in Nat, Size(q) = Len(q), NEW t, NEW records, Holds(q, t, records), NEW n \in Nat, NEW k \in Nat,
           n <= Len(q), NEW D, NEW c, NEW b, c # None, b # None, c.step = "data", c.txn = t, b.step = "commit", b.txn = t,
           NEW x \in Nat, DataSyncOK(q, n, D, c, x), k = Len(q) \/ (k = n /\ records = {})
    PROVE  k <= Len(q) /\ DataSyncOK(q, k, D, b, x)
<1>1. PICK l \in Nat : l = Len(q)
  OBVIOUS
<1>2. CASE k = l
  <2>1. k <= l /\ k + 1 .. l = {}
    BY <1>2
  <2> QED BY <1>1, <2>1 DEF DataSyncOK
<1>3. CASE k = n /\ records = {}
  <2>1. \A i \in 1 .. l : q[i].txn # t
    BY <1>1, <1>3, HoldsNothing
  <2>2. ASSUME NEW i \in n + 1 .. l PROVE q[i].txn \notin D /\ q[i].txn # t /\ ~(x + 1 < MaxCrashes)
    <3>1. i \in 1 .. l
      OBVIOUS
    <3> QED BY <1>1, <2>1, <2>2, <3>1 DEF DataSyncOK
  <2>3. DataSyncOK(q, n, D, b, x)
    BY <1>1, <2>2 DEF DataSyncOK
  <2> QED BY <1>1, <1>3, <2>3
<1> QED BY <1>1, <1>2, <1>3

\* syncDataSegments.
LEMMA SafeSync ==
    ASSUME NEW d \in Disks, NEW sy \in Offsets, NEW y \in Offsets, NEW cp \in Checkpoints \cup {None}, NEW m, NEW u \in Nat,
           NEW x \in Nat, x < MaxCrashes, NEW c, c # None, c.step = "data", NEW b, b # None, b.step = "commit",
           b.txn = c.txn, b.writes = c.writes, Safe(d, sy, cp, "up", m, c, u, x), y.txn = sy.txn,
           y.node = Len(d.node) \/ (y.node = sy.node /\ RecordsOf("node", c.txn, c.writes) = {}),
           y.edge = Len(d.edge) \/ (y.edge = sy.edge /\ RecordsOf("edge", c.txn, c.writes) = {})
    PROVE  Safe(d, y, cp, "up", m, b, u, x)
<1>1. LogOK(d, m, c, u, "up", x) /\ HeldOK(d, c, "up") /\ SyncOK(d, sy, c, "up", x) /\ OffsetOK(d, sy, cp, x)
      /\ StartOK(d, cp, c, u) /\ ImageOK(d, m, Done(d, c), cp)
  BY SafeFacts
<1>2. Done(d, b) = Done(d, c)
  BY DEF Done, Mine
<1>3. c.step # "sync" /\ b.step # "sync"
  OBVIOUS
<1>4. LogOK(d, m, b, u, "up", x)
  BY <1>1, <1>2, <1>3 DEF LogOK
<1>5. HeldOK(d, b, "up")
  BY <1>1 DEF HeldOK
<1>6. Size(d.node) = Len(d.node) /\ Size(d.edge) = Len(d.edge)
  BY <1>1 DEF LogOK, Whole
<1>7. Len(d.txn) \in Nat /\ Len(d.node) \in Nat /\ Len(d.edge) \in Nat
  BY SegmentsTyped
<1>8. Holds(d.node, c.txn, RecordsOf("node", c.txn, c.writes)) /\ Holds(d.edge, c.txn, RecordsOf("edge", c.txn, c.writes))
  BY <1>1 DEF HeldOK
<1>9. PICK sn \in Nat, se \in Nat, yn \in Nat, ye \in Nat : sn = sy.node /\ se = sy.edge /\ yn = y.node /\ ye = y.edge
  BY DEF Offsets
<1>10. sn <= Len(d.node) /\ se <= Len(d.edge) /\ DataSyncOK(d.node, sn, Done(d, c), c, x) /\ DataSyncOK(d.edge, se, Done(d, c), c, x)
  BY <1>1, <1>9 DEF SyncOK
<1>11. yn <= Len(d.node) /\ DataSyncOK(d.node, yn, Done(d, c), b, x)
  BY <1>6, <1>7, <1>8, <1>9, <1>10, SyncedData
<1>12. ye <= Len(d.edge) /\ DataSyncOK(d.edge, ye, Done(d, c), b, x)
  BY <1>6, <1>7, <1>8, <1>9, <1>10, SyncedData
<1>13. TxnSyncOK(d.txn, y.txn, b, x)
  <2>1. TxnSyncOK(d.txn, y.txn, c, x)
    BY <1>1 DEF SyncOK
  <2> QED BY <2>1, <1>3 DEF TxnSyncOK
<1>14. SyncOK(d, y, b, "up", x)
  <2>1. y.txn <= Len(d.txn)
    BY <1>1 DEF SyncOK
  <2> QED BY <2>1, <1>2, <1>9, <1>11, <1>12, <1>13 DEF SyncOK
<1>15. OffsetOK(d, y, cp, x)
  <2> SUFFICES ASSUME cp # None, x + 1 < MaxCrashes
               PROVE  cp.offsets.txn <= y.txn /\ cp.offsets.node <= y.node /\ cp.offsets.edge <= y.edge
    BY <1>1 DEF OffsetOK
  <2>1. cp.offsets \in Offsets /\ cp.offsets.txn <= sy.txn /\ cp.offsets.node <= sy.node /\ cp.offsets.edge <= sy.edge
    BY <1>1 DEF OffsetOK, Checkpoints
  <2>2. PICK on \in Nat, oe \in Nat : on = cp.offsets.node /\ oe = cp.offsets.edge
    BY <2>1 DEF Offsets
  <2>3. sn <= yn /\ se <= ye
    BY <1>9, <1>10
  <2>4. on <= sn /\ oe <= se
    BY <1>9, <2>1, <2>2
  <2>5. on <= yn /\ oe <= ye
    BY <2>3, <2>4
  <2> QED BY <1>9, <2>1, <2>2, <2>5
<1>16. StartOK(d, cp, b, u)
  BY <1>1 DEF StartOK
<1> QED BY <1>1, <1>2, <1>4, <1>5, <1>14, <1>15, <1>16 DEF Safe

\* The commit is given up before its commit record.
LEMMA SafeFail ==
    ASSUME NEW d \in Disks, NEW sy \in Offsets, NEW cp \in Checkpoints \cup {None}, NEW m, NEW u \in Nat,
           NEW x \in Nat, x < MaxCrashes, ~(x + 1 < MaxCrashes), NEW c, c # None, c.step # "sync",
           Safe(d, sy, cp, "up", m, c, u, x)
    PROVE  Safe(d, sy, cp, "up", m, None, u, x)
<1>1. LogOK(d, m, c, u, "up", x) /\ HeldOK(d, c, "up") /\ SyncOK(d, sy, c, "up", x) /\ OffsetOK(d, sy, cp, x)
      /\ StartOK(d, cp, c, u) /\ ImageOK(d, m, Done(d, c), cp)
  BY SafeFacts
<1>2. c.txn \notin Comm(d)
  BY <1>1 DEF LogOK
<1>3. Done(d, None) = Done(d, c)
  BY <1>2 DEF Done, Mine
<1>4. LogOK(d, m, None, u, "up", x)
  BY <1>1, <1>3 DEF LogOK
<1>5. HeldOK(d, None, "up")
  BY DEF HeldOK
<1>6. SyncOK(d, sy, None, "up", x)
  <2>1. TxnSyncOK(d.txn, sy.txn, None, x)
    BY <1>1 DEF SyncOK, TxnSyncOK
  <2>2. DataSyncOK(d.node, sy.node, Done(d, c), None, x)
    BY <1>1 DEF SyncOK, DataSyncOK
  <2>3. DataSyncOK(d.edge, sy.edge, Done(d, c), None, x)
    BY <1>1 DEF SyncOK, DataSyncOK
  <2> QED BY <1>1, <1>3, <2>1, <2>2, <2>3 DEF SyncOK
<1>7. StartOK(d, cp, None, u)
  BY <1>1 DEF StartOK
<1> QED BY <1>1, <1>3, <1>4, <1>5, <1>6, <1>7 DEF Safe

\* The commit record.
LEMMA SafeAppend ==
    ASSUME NEW d \in Disks, NEW e \in Disks, NEW sy \in Offsets, NEW cp \in Checkpoints \cup {None}, NEW m \in Stores,
           NEW u \in Nat, u > 0, NEW x \in Nat, x < MaxCrashes, NEW c, c # None, c.step = "commit", c.txn = u,
           NEW b, b # None, b.step = "sync", b.txn = c.txn, b.writes = c.writes, Safe(d, sy, cp, "up", m, c, u, x),
           e.node = d.node, e.edge = d.edge, Longer(d.txn, e.txn, u), Len(e.txn) = Len(d.txn) + 1,
           CommitAt(e.txn, Len(d.txn) + 1), e.txn[Len(d.txn) + 1].rev = m.revision + 1
    PROVE  Safe(e, sy, cp, "up", m, b, u, x)
<1>1. LogOK(d, m, c, u, "up", x) /\ HeldOK(d, c, "up") /\ SyncOK(d, sy, c, "up", x) /\ OffsetOK(d, sy, cp, x)
      /\ StartOK(d, cp, c, u) /\ ImageOK(d, m, Done(d, c), cp)
  BY SafeFacts
<1>2. Orderly(d, u) /\ Whole(d) /\ Cardinality(Done(d, c)) = m.revision
  BY <1>1 DEF LogOK
<1>3. c.step # "sync" /\ c.step # "data" /\ b.step # "data"
  OBVIOUS
<1>4. u \notin Comm(d)
  BY <1>1, <1>3 DEF LogOK
<1>5. /\ Len(d.txn) \in Nat /\ Len(d.node) \in Nat /\ Len(d.edge) \in Nat
      /\ Len(e.txn) \in Nat /\ Len(e.node) \in Nat /\ Len(e.edge) \in Nat
  BY SegmentsTyped
<1>6. Grows(d, e, u)
  <2>1. Longer(d.node, e.node, u)
    <3>1. \A i \in Len(d.node) + 1 .. Len(d.node) : FALSE
      BY <1>5
    <3> QED BY <3>1, <1>2, <1>5 DEF Longer, Whole
  <2>2. Longer(d.edge, e.edge, u)
    <3>1. \A i \in Len(d.edge) + 1 .. Len(d.edge) : FALSE
      BY <1>5
    <3> QED BY <3>1, <1>2, <1>5 DEF Longer, Whole
  <2> QED BY <2>1, <2>2 DEF Grows
<1>7. Done(d, c) = Comm(d)
  BY <1>4 DEF Done, Mine
<1>8. /\ Once(e.txn) /\ Numbered(e.txn) /\ Comm(e) = Comm(d) \cup {u}
      /\ RevOf(e.txn, u) = m.revision + 1
  <2>1. Once(d.txn) /\ Numbered(d.txn)
    BY <1>2 DEF Orderly
  <2>2. IsFiniteSet(Comm(d))
    BY <1>2, DoneTyped
  <2>3. CommittedIn(d.txn, Size(d.txn)) = Comm(d)
    BY DEF Comm
  <2>4. Cardinality(Comm(d)) = m.revision
    BY <1>2, <1>7
  <2>5. /\ Once(e.txn) /\ Numbered(e.txn) /\ CommittedIn(e.txn, Size(e.txn)) = CommittedIn(d.txn, Size(d.txn)) \cup {u}
        /\ RevOf(e.txn, u) = Cardinality(CommittedIn(d.txn, Size(d.txn))) + 1
    BY <1>4, <1>5, <2>1, <2>2, <2>3, <2>4, TxnCommitted
  <2> QED BY <2>3, <2>4, <2>5 DEF Comm
<1>9. /\ Orderly(e, u)
      /\ Agree(d.txn, e.txn, Len(d.txn)) /\ Agree(d.node, e.node, Len(d.node)) /\ Agree(d.edge, e.edge, Len(d.edge))
  <2>1. u \in 1 .. u /\ u <= u
    OBVIOUS
  <2> QED BY <2>1, <1>2, <1>6, <1>8, GrownOrderly
<1>10. Done(e, b) = Comm(d)
  BY <1>4, <1>8 DEF Done, Mine
<1>11. LogOK(e, m, b, u, "up", x)
  <2>1. Whole(e)
    BY <1>6 DEF Grows, Longer, Whole
  <2> QED BY <2>1, <1>2, <1>7, <1>8, <1>9, <1>10 DEF LogOK
<1>12. HeldOK(e, b, "up")
  BY <1>1 DEF HeldOK
<1>13. SyncOK(e, sy, b, "up", x)
  <2>1. PICK st \in Nat : st = sy.txn
    BY DEF Offsets
  <2>2. st <= Len(d.txn) /\ TxnSyncOK(d.txn, st, c, x)
    BY <2>1, <1>1 DEF SyncOK
  <2>3. st <= Len(e.txn)
    BY <2>2, <1>5, GrownWithin
  <2>4. TxnSyncOK(e.txn, st, b, x)
    <3> SUFFICES ASSUME NEW i \in st + 1 .. Len(e.txn), CommitAt(e.txn, i) PROVE e.txn[i].txn = u
      BY DEF TxnSyncOK
    <3>1. CASE i <= Len(d.txn)
      <4>1. i \in st + 1 .. Len(d.txn) /\ i \in 1 .. Len(d.txn)
        BY <3>1, <1>5
      <4>2. ~CommitAt(d.txn, i)
        BY <4>1, <2>2, <1>3 DEF TxnSyncOK
      <4>3. e.txn[i] = d.txn[i]
        BY <4>1 DEF Longer
      <4> QED BY <4>2, <4>3 DEF CommitAt
    <3>2. CASE ~(i <= Len(d.txn))
      <4>1. i \in Len(d.txn) + 1 .. Len(e.txn)
        BY <3>2, <1>5
      <4> QED BY <4>1 DEF Longer
    <3> QED BY <3>1, <3>2
  <2>5. DataSyncOK(e.node, sy.node, Done(e, b), b, x)
    <3>1. DataSyncOK(d.node, sy.node, Comm(d), c, x)
      BY <1>1, <1>7 DEF SyncOK
    <3> QED BY <3>1, <1>3, <1>10 DEF DataSyncOK
  <2>6. DataSyncOK(e.edge, sy.edge, Done(e, b), b, x)
    <3>1. DataSyncOK(d.edge, sy.edge, Comm(d), c, x)
      BY <1>1, <1>7 DEF SyncOK
    <3> QED BY <3>1, <1>3, <1>10 DEF DataSyncOK
  <2>7. sy.node <= Len(e.node) /\ sy.edge <= Len(e.edge)
    BY <1>1 DEF SyncOK
  <2> QED BY <2>1, <2>3, <2>4, <2>5, <2>6, <2>7 DEF SyncOK
<1>14. OffsetOK(e, sy, cp, x)
  <2>1. CASE cp = None
    BY <2>1 DEF OffsetOK
  <2>2. CASE cp # None
    <3>1. /\ cp.offsets \in Offsets
          /\ cp.offsets.txn <= Len(d.txn) /\ cp.offsets.node <= Len(d.node) /\ cp.offsets.edge <= Len(d.edge)
      BY <2>2, <1>1, OffsetsWithin
    <3>2. PICK ot \in Nat : ot = cp.offsets.txn
      BY <3>1 DEF Offsets
    <3>3. ot <= Len(d.txn)
      BY <3>1, <3>2
    <3>4. ot <= Len(e.txn)
      BY <3>3, <1>5, GrownWithin
    <3> QED BY <3>1, <3>2, <3>4, <1>1 DEF OffsetOK
  <2> QED BY <2>1, <2>2
<1>15. StartOK(e, cp, b, u)
  <2> SUFFICES ASSUME cp # None
               PROVE  \E v \in 0 .. u : Starts(e, Hydrated(cp), cp.offsets, v) /\ v < u
    BY DEF StartOK
  <2>1. PICK v \in 0 .. u : Starts(d, Hydrated(cp), cp.offsets, v) /\ v < u
    BY <1>1 DEF StartOK
  <2>2. v \in Nat
    OBVIOUS
  <2>3. /\ cp.offsets \in Offsets
        /\ cp.offsets.txn <= Len(d.txn) /\ cp.offsets.node <= Len(d.node) /\ cp.offsets.edge <= Len(d.edge)
    BY <1>1, OffsetsWithin
  <2>4. Comm(d) \subseteq Comm(e) /\ Comm(e) \subseteq Comm(d) \cup {u}
    BY <1>8
  <2>5. Starts(e, Hydrated(cp), cp.offsets, v)
    BY <2>1, <2>2, <2>3, <2>4, <1>6, GrownStarts
  <2> QED BY <2>1, <2>5
<1>16. ImageOK(e, m, Done(e, b), cp)
  <2>1. ImageOK(d, m, Comm(d), cp)
    BY <1>1, <1>7
  <2>2. ImageOK(e, m, Comm(d), cp)
    BY <2>1, <1>2, <1>4, <1>6, <1>9, GrownImages
  <2> QED BY <2>2, <1>10
<1> QED BY <1>11, <1>12, <1>13, <1>14, <1>15, <1>16 DEF Safe

\* The sync of the commit record and the application in memory.
LEMMA SafeFinish ==
    ASSUME NEW d \in Disks, NEW sy \in Offsets, NEW y \in Offsets, NEW cp \in Checkpoints \cup {None}, NEW m \in Stores,
           NEW u \in Nat, NEW x \in Nat, x < MaxCrashes, NEW c, c # None, c.step = "sync", c.writes \in WriteSets,
           Safe(d, sy, cp, "up", m, c, u, x), y.txn = Len(d.txn), y.node = sy.node, y.edge = sy.edge,
           ParentIndexExact(m), ~InvariantConflict(m, c.writes)
    PROVE  Safe(d, y, cp, "up", ApplyWrites(m, c.writes), None, u, x)
<1>1. LogOK(d, m, c, u, "up", x) /\ HeldOK(d, c, "up") /\ SyncOK(d, sy, c, "up", x) /\ OffsetOK(d, sy, cp, x)
      /\ StartOK(d, cp, c, u) /\ ImageOK(d, m, Done(d, c), cp)
  BY SafeFacts
<1>2. PICK t : t = c.txn
  OBVIOUS
<1>3. Orderly(d, u) /\ Whole(d) /\ Cardinality(Done(d, c)) = m.revision /\ t \in Comm(d) /\ RevOf(d.txn, t) = m.revision + 1
  BY <1>1, <1>2 DEF LogOK
<1>4. c.step # "data" /\ m.revision \in Nat
  BY DEF Stores
<1>5. Done(d, None) = Done(d, c) \cup {t} /\ t \notin Done(d, c) /\ Done(d, c) \subseteq Comm(d) /\ Done(d, None) = Comm(d)
  BY <1>2, <1>3 DEF Done, Mine
<1>6. PICK a : a = ApplyWrites(m, c.writes)
  OBVIOUS
<1>7. LogOK(d, a, None, u, "up", x)
  <2>1. IsFiniteSet(Done(d, c))
    BY <1>3, DoneTyped
  <2>2. Cardinality(Done(d, None)) = Cardinality(Done(d, c)) + 1
    BY <2>1, <1>5, FS_AddElement
  <2>3. a.revision = m.revision + 1
    BY <1>6 DEF ApplyWrites
  <2> QED BY <2>2, <2>3, <1>3 DEF LogOK
<1>8. HeldOK(d, None, "up")
  BY DEF HeldOK
<1>9. SyncOK(d, y, None, "up", x)
  <2>1. PICK l \in Nat : l = Len(d.txn)
    BY SegmentsTyped
  <2>2. l <= l /\ l + 1 .. l = {}
    OBVIOUS
  <2>3. TxnSyncOK(d.txn, y.txn, None, x) /\ y.txn <= Len(d.txn)
    BY <2>1, <2>2 DEF TxnSyncOK
  <2>4. ASSUME NEW q, NEW n, DataSyncOK(q, n, Done(d, c), c, x)
        PROVE  DataSyncOK(q, n, Done(d, None), None, x)
    <3>1. \A i \in n + 1 .. Len(q) : q[i].txn \notin Done(d, c) /\ q[i].txn # t /\ ~(x + 1 < MaxCrashes)
      BY <2>4, <1>2, <1>4 DEF DataSyncOK
    <3> QED BY <3>1, <1>5 DEF DataSyncOK
  <2>5. DataSyncOK(d.node, y.node, Done(d, None), None, x) /\ DataSyncOK(d.edge, y.edge, Done(d, None), None, x)
    BY <2>4, <1>1 DEF SyncOK
  <2>6. y.node <= Len(d.node) /\ y.edge <= Len(d.edge)
    BY <1>1 DEF SyncOK
  <2> QED BY <2>3, <2>5, <2>6 DEF SyncOK
<1>10. OffsetOK(d, y, cp, x)
  <2> SUFFICES ASSUME cp # None, x + 1 < MaxCrashes
               PROVE  cp.offsets.txn <= y.txn
    BY <1>1 DEF OffsetOK
  <2>1. cp.offsets.txn <= Len(d.txn)
    BY <1>1 DEF OffsetOK
  <2> QED BY <2>1
<1>11. StartOK(d, cp, None, u)
  BY <1>1 DEF StartOK
<1>12. ImageOK(d, a, Done(d, None), cp)
  <2>1. Holds(d.node, t, RecordsOf("node", t, c.writes)) /\ Holds(d.edge, t, RecordsOf("edge", t, c.writes))
    BY <1>1, <1>2 DEF HeldOK
  <2>2. cp # None => \E v \in 0 .. u : Starts(d, Hydrated(cp), cp.offsets, v) /\ v < t
    BY <1>1, <1>2 DEF StartOK
  <2>3. ImageOK(d, ApplyWrites(m, c.writes), Done(d, c) \cup {t}, cp)
    BY <2>1, <2>2, <1>1, <1>3, <1>5, ImagesCommitted
  <2> QED BY <2>3, <1>5, <1>6
<1> QED BY <1>6, <1>7, <1>8, <1>9, <1>10, <1>11, <1>12 DEF Safe

\* A checkpoint of the whole segment leaves nothing to replay.
LEMMA RanNoTail ==
    ASSUME NEW S, NEW q \in Seq(S), NEW n \in Nat, n = Len(q), NEW k, NEW s, NEW m
    PROVE  Ran(k, s, m, q, n, n) = s
<1>1. n <= Len(q) /\ n <= n
  OBVIOUS
<1> QED BY <1>1, RanNothing

\* A checkpoint of the whole of a disk.
LEMMA CheckpointImage ==
    ASSUME NEW d \in Disks, NEW u \in Nat, Orderly(d, u), Whole(d), NEW T, T \subseteq Comm(d), NEW m \in Stores, Cardinality(T) = m.revision,
           ParentIndexExact(m), NEW b \in Checkpoints, b.nodes = m.nodes, b.edges = m.edges, b.revision = m.revision,
           b.offsets.node = Len(d.node), b.offsets.edge = Len(d.edge)
    PROVE  LET p == Image(d, T, Hydrated(b), b.offsets) IN
           /\ AtomicView(p) = AtomicView(m)
           /\ \A n \in Nodes : p.nodes[n] # None => p.nodeMod[n] = m.revision
           /\ \A e \in Edges : p.edges[e] # None => p.edgeMod[e] = m.revision
<1>1. PICK h : h = Hydrated(b)
  OBVIOUS
<1>2. Ran("node", h, RevMap(d, T), d.node, b.offsets.node, Size(d.node)) = h
  <2>1. PICK q \in Seq(NodeRecs \cup {Torn}) : q = d.node
    BY DEF Disks
  <2>2. PICK n \in Nat : n = Len(q)
    BY LenProperties
  <2>3. Ran("node", h, RevMap(d, T), q, n, n) = h
    BY ONLY <2>2, RanNoTail
  <2> QED BY <2>1, <2>2, <2>3 DEF Whole
<1>3. Ran("edge", h, RevMap(d, T), d.edge, b.offsets.edge, Size(d.edge)) = h
  <2>1. PICK q \in Seq(EdgeRecs \cup {Torn}) : q = d.edge
    BY DEF Disks
  <2>2. PICK n \in Nat : n = Len(q)
    BY LenProperties
  <2>3. Ran("edge", h, RevMap(d, T), q, n, n) = h
    BY ONLY <2>2, RanNoTail
  <2> QED BY <2>1, <2>2, <2>3 DEF Whole
<1>4. PICK p : p = Image(d, T, h, b.offsets)
  OBVIOUS
<1>5. /\ p.nodes = h.nodes /\ p.edges = h.edges /\ p.parent = h.parent /\ p.nodeMod = h.nodeMod /\ p.edgeMod = h.edgeMod
      /\ p.revision = Cardinality(T)
  BY <1>2, <1>3, <1>4 DEF Image
<1>6. h.nodes = m.nodes /\ h.edges = m.edges
  BY <1>1 DEF Hydrated
<1>7. h.parent = m.parent
  <2>1. b.edges = m.edges /\ ParentIndexExact(m) /\ m \in Stores
    OBVIOUS
  <2>2. Hydrated(b).parent = m.parent
    BY ONLY <2>1, HydratedParents
  <2> QED BY <1>1, <2>2
<1>8. AtomicView(p) = AtomicView(m)
  BY <1>5, <1>6, <1>7 DEF AtomicView
<1>9. \A n \in Nodes : p.nodes[n] # None => p.nodeMod[n] = m.revision
  BY <1>1, <1>5 DEF Hydrated
<1>10. \A e \in Edges : p.edges[e] # None => p.edgeMod[e] = m.revision
  BY <1>1, <1>5 DEF Hydrated
<1> QED BY <1>1, <1>4, <1>8, <1>9, <1>10

\* Without a commit in progress everything is synced before the last crash.
LEMMA AllSynced ==
    ASSUME NEW d \in Disks, NEW sy \in Offsets, NEW x \in Nat, NEW st, SyncOK(d, sy, None, st, x), x + 1 < MaxCrashes
    PROVE  Len(d.txn) <= sy.txn /\ Len(d.node) <= sy.node /\ Len(d.edge) <= sy.edge
<1>1. PICK lt \in Nat, ln \in Nat, le \in Nat : lt = Len(d.txn) /\ ln = Len(d.node) /\ le = Len(d.edge)
  BY SegmentsTyped
<1>2. PICK yt \in Nat, yn \in Nat, ye \in Nat : yt = sy.txn /\ yn = sy.node /\ ye = sy.edge
  BY DEF Offsets
<1>3. \A i \in yt + 1 .. lt : FALSE
  BY <1>1, <1>2 DEF SyncOK, TxnSyncOK
<1>4. \A i \in yn + 1 .. ln : FALSE
  BY <1>1, <1>2 DEF SyncOK, DataSyncOK
<1>5. \A i \in ye + 1 .. le : FALSE
  BY <1>1, <1>2 DEF SyncOK, DataSyncOK
<1>6. lt <= yt
  BY <1>3
<1>7. ln <= yn
  BY <1>4
<1>8. le <= ye
  BY <1>5
<1> QED BY <1>1, <1>2, <1>6, <1>7, <1>8

\* A checkpoint.
LEMMA SafeCheckpoint ==
    ASSUME NEW d \in Disks, NEW sy \in Offsets, NEW cp \in Checkpoints \cup {None}, NEW m \in Stores, NEW u \in Nat,
           NEW x \in Nat, x < MaxCrashes, Safe(d, sy, cp, "up", m, None, u, x), ParentIndexExact(m),
           NEW b \in Checkpoints, b.nodes = m.nodes, b.edges = m.edges, b.revision = m.revision,
           b.offsets.txn = Len(d.txn), b.offsets.node = Len(d.node), b.offsets.edge = Len(d.edge)
    PROVE  Safe(d, sy, b, "up", m, None, u, x)
<1>1. LogOK(d, m, None, u, "up", x) /\ HeldOK(d, None, "up") /\ SyncOK(d, sy, None, "up", x)
      /\ ImageOK(d, m, Done(d, None), cp)
  BY SafeFacts
<1>2. Orderly(d, u) /\ Whole(d) /\ Cardinality(Done(d, None)) = m.revision
  BY <1>1 DEF LogOK
<1>3. Done(d, None) = Comm(d)
  BY DEF Done, Mine
<1>4. PICK lt \in Nat, ln \in Nat, le \in Nat : lt = Len(d.txn) /\ ln = Len(d.node) /\ le = Len(d.edge)
  BY SegmentsTyped
<1>5. OffsetOK(d, sy, b, x)
  <2>1. b.offsets.txn <= Len(d.txn) /\ b.offsets.node <= Len(d.node) /\ b.offsets.edge <= Len(d.edge)
    BY <1>4
  <2>2. x + 1 < MaxCrashes => Len(d.txn) <= sy.txn /\ Len(d.node) <= sy.node /\ Len(d.edge) <= sy.edge
    BY <1>1, AllSynced
  <2> QED BY <2>1, <2>2 DEF OffsetOK
<1>6. StartOK(d, b, None, u)
  <2>1. ASSUME NEW q, NEW l \in Nat, Size(q) = l, WholeBut(q, u) PROVE SplitAt(q, l, u)
    <3> SUFFICES ASSUME NEW i \in 1 .. l PROVE i <= l /\ q[i].txn <= u
      BY <2>1 DEF SplitAt
    <3>1. q[i].txn \in 1 .. u
      BY <2>1 DEF WholeBut
    <3> QED BY <3>1
  <2>2. Size(d.txn) = lt /\ Size(d.node) = ln /\ Size(d.edge) = le
    BY <1>2, <1>4 DEF Whole
  <2>3. WholeBut(d.txn, u) /\ WholeBut(d.node, u) /\ WholeBut(d.edge, u)
    BY <1>2 DEF Orderly
  <2>4. SplitAt(d.txn, lt, u) /\ SplitAt(d.node, ln, u) /\ SplitAt(d.edge, le, u)
    BY <2>1, <2>2, <2>3
  <2>5. Older(Comm(d), u) = Comm(d)
    <3>1. Comm(d) \subseteq 1 .. u
      BY <1>2, DoneTyped
    <3>2. \A y \in Comm(d) : y <= u
      BY <3>1
    <3> QED BY <3>2 DEF Older
  <2>6. Hydrated(b).revision = m.revision
    BY DEF Hydrated
  <2>7. Starts(d, Hydrated(b), b.offsets, u)
    BY <1>2, <1>3, <1>4, <2>4, <2>5, <2>6 DEF Starts
  <2>8. u \in 0 .. u
    OBVIOUS
  <2> QED BY <2>7, <2>8 DEF StartOK
<1>7. ImageOK(d, m, Comm(d), b)
  <2>1. AtomicView(Full(d, Comm(d))) = AtomicView(m) /\ ModRevisionsBounded(Full(d, Comm(d)))
    BY <1>1, <1>3 DEF ImageOK
  <2>2. PICK f : f = Full(d, Comm(d))
    OBVIOUS
  <2>3. PICK p : p = Part(d, Comm(d), b)
    OBVIOUS
  <2>4. /\ AtomicView(p) = AtomicView(m)
        /\ \A n \in Nodes : p.nodes[n] # None => p.nodeMod[n] = m.revision
        /\ \A e \in Edges : p.edges[e] # None => p.edgeMod[e] = m.revision
    BY <1>2, <1>3, <2>3, CheckpointImage DEF Part
  <2>5. f.revision = m.revision /\ m.revision \in Nat
    BY <2>1, <2>2, ViewFields DEF Stores
  <2>6. f \in Stores
    BY <1>2, <2>2, ImageTyped, EmptyStoreShape DEF Full, NoOffsets, Offsets
  <2>7. NotOlder(p, f)
    <3>1. ASSUME NEW n \in Nodes, p.nodes[n] # None PROVE p.nodeMod[n] >= f.nodeMod[n]
      <4>1. f.nodeMod[n] <= f.revision /\ f.nodeMod[n] \in Nat
        BY <2>1, <2>2, <2>6 DEF ModRevisionsBounded, Stores
      <4> QED BY <4>1, <2>4, <2>5, <3>1
    <3>2. ASSUME NEW e \in Edges, p.edges[e] # None PROVE p.edgeMod[e] >= f.edgeMod[e]
      <4>1. f.edgeMod[e] <= f.revision /\ f.edgeMod[e] \in Nat
        BY <2>1, <2>2, <2>6 DEF ModRevisionsBounded, Stores
      <4> QED BY <4>1, <2>4, <2>5, <3>2
    <3> QED BY <3>1, <3>2 DEF NotOlder
  <2> QED BY <2>1, <2>2, <2>3, <2>4, <2>7 DEF ImageOK
<1> QED BY <1>1, <1>3, <1>5, <1>6, <1>7 DEF Safe

-----------------------------------------------------------------------------
(* Opening again.                                                          *)

\* The store with the commit in progress, when its commit record is on disk.
Survivor(m, c, d) == IF c # None /\ c.txn \in Comm(d) THEN ApplyWrites(m, c.writes) ELSE m

\* The acknowledged commits, with the one cut off when its commit record is on
\* disk, make a graph, and the disk holds exactly it.
LEMMA Survives ==
    ASSUME NEW d \in Disks, NEW sy, NEW cp \in Checkpoints \cup {None}, NEW st, NEW m \in Stores, NEW c \in InProgress \cup {None},
           NEW u \in Nat, NEW x, Safe(d, sy, cp, st, m, c, u, x), MemOK(m, c, u), NEW s, s = Survivor(m, c, d)
    PROVE  /\ s \in Stores /\ NoDanglingEdges(s) /\ ParentIndexExact(s)
           /\ Cardinality(Comm(d)) = s.revision /\ ImageOK(d, s, Comm(d), cp)
<1>1. LogOK(d, m, c, u, st, x) /\ HeldOK(d, c, st) /\ StartOK(d, cp, c, u) /\ ImageOK(d, m, Done(d, c), cp)
  BY SafeFacts
<1>2. Orderly(d, u) /\ Cardinality(Done(d, c)) = m.revision
  BY <1>1 DEF LogOK
<1>3. CASE ~(c # None /\ c.txn \in Comm(d))
  <2>1. s = m
    BY <1>3 DEF Survivor
  <2>2. Done(d, c) = Comm(d)
    BY <1>3 DEF Done, Mine
  <2> QED BY <2>1, <2>2, <1>1, <1>2 DEF MemOK
<1>4. CASE c # None /\ c.txn \in Comm(d)
  <2>1. s = ApplyWrites(m, c.writes)
    BY <1>4 DEF Survivor
  <2>2. c.writes \in WriteSets
    BY <1>4 DEF InProgress
  <2>0. PICK t : t = c.txn
    OBVIOUS
  <2>3. PICK w \in WriteSets : t = c.txn /\ w = c.writes
    BY <2>0, <2>2
  <2>4. t \in Comm(d) /\ RevOf(d.txn, t) = m.revision + 1
    BY <1>1, <1>4, <2>3 DEF LogOK
  <2>5. t \notin Done(d, c) /\ Done(d, c) \cup {t} = Comm(d) /\ Done(d, c) \subseteq Comm(d)
    BY <1>4, <2>3 DEF Done, Mine
  <2>6. NoDanglingEdges(m) /\ ParentIndexExact(m) /\ ~InvariantConflict(m, w)
    BY <1>4, <2>3 DEF MemOK
  <2>7. s \in Stores
    BY <2>1, <2>3, ApplyWritesType
  <2>8. NoDanglingEdges(s) /\ ParentIndexExact(s)
    BY <2>1, <2>3, <2>6, CommitNoDangling, CommitParentIndex DEF InvariantConflict
  <2>9. Cardinality(Comm(d)) = s.revision
    <3>1. Cardinality(Comm(d)) = Cardinality(Done(d, c)) + 1
      BY <1>2, <2>5, DoneTyped, FS_AddElement
    <3>2. s.revision = m.revision + 1
      BY <2>1 DEF ApplyWrites
    <3> QED BY <3>1, <3>2, <1>2
  <2>10. ImageOK(d, s, Comm(d), cp)
    <3>1. Holds(d.node, t, RecordsOf("node", t, w)) /\ Holds(d.edge, t, RecordsOf("edge", t, w))
      BY <1>1, <1>4, <2>3 DEF HeldOK
    <3>2. cp # None => \E v \in 0 .. u : Starts(d, Hydrated(cp), cp.offsets, v) /\ v < t
      BY <1>1, <1>4, <2>3 DEF StartOK
    <3>3. ImageOK(d, ApplyWrites(m, w), Done(d, c) \cup {t}, cp)
      BY <1>1, <1>2, <2>4, <2>5, <2>6, <3>1, <3>2, ImagesCommitted
    <3> QED BY <3>3, <2>1, <2>3, <2>5
  <2> QED BY <2>7, <2>8, <2>9, <2>10
<1> QED BY <1>3, <1>4

\* A store that open made of a safe disk goes on with it.
LEMMA SafeOpen ==
    ASSUME NEW d \in Disks, NEW sy \in Offsets, NEW cp \in Checkpoints \cup {None}, NEW m \in Stores, NEW c \in InProgress \cup {None},
           NEW u \in Nat, NEW x \in Nat, Safe(d, sy, cp, "down", m, c, u, x), MemOK(m, c, u),
           NEW r \in Stores, AtomicView(r) = AtomicView(Survivor(m, c, d))
    PROVE  Safe(d, sy, cp, "up", r, None, u, x) /\ MemOK(r, None, u)
<1>1. LogOK(d, m, c, u, "down", x) /\ SyncOK(d, sy, c, "down", x) /\ OffsetOK(d, sy, cp, x) /\ StartOK(d, cp, c, u)
  BY SafeFacts
<1>2. PICK s : s = Survivor(m, c, d)
  OBVIOUS
<1>3. /\ s \in Stores /\ NoDanglingEdges(s) /\ ParentIndexExact(s)
      /\ Cardinality(Comm(d)) = s.revision /\ ImageOK(d, s, Comm(d), cp)
  BY <1>2, Survives
<1>4. AtomicView(r) = AtomicView(s)
  BY <1>2
<1>5. Done(d, None) = Comm(d)
  BY DEF Done, Mine
<1>6. LogOK(d, r, None, u, "up", x)
  <2>1. r.revision = s.revision
    BY <1>4, ViewFields
  <2> QED BY <2>1, <1>1, <1>3, <1>5 DEF LogOK
<1>7. HeldOK(d, None, "up")
  BY DEF HeldOK
<1>8. SyncOK(d, sy, None, "up", x)
  <2>1. sy.txn = Len(d.txn) /\ sy.node = Len(d.node) /\ sy.edge = Len(d.edge)
    BY <1>1 DEF SyncOK
  <2>2. ASSUME NEW q, Len(q) \in Nat PROVE Len(q) + 1 .. Len(q) = {}
    BY <2>2
  <2>3. Len(d.txn) \in Nat /\ Len(d.node) \in Nat /\ Len(d.edge) \in Nat
    BY SegmentsTyped
  <2>4. TxnSyncOK(d.txn, sy.txn, None, x) /\ DataSyncOK(d.node, sy.node, Done(d, None), None, x)
        /\ DataSyncOK(d.edge, sy.edge, Done(d, None), None, x)
    BY <2>1, <2>2, <2>3 DEF TxnSyncOK, DataSyncOK
  <2> QED BY <1>1, <2>4 DEF SyncOK
<1>9. StartOK(d, cp, None, u)
  BY <1>1 DEF StartOK
<1>10. ImageOK(d, r, Comm(d), cp)
  BY <1>3, <1>4 DEF ImageOK
<1>11. MemOK(r, None, u)
  BY <1>3, <1>4, ViewShape DEF MemOK
<1> QED BY <1>1, <1>5, <1>6, <1>7, <1>8, <1>9, <1>10, <1>11 DEF Safe

-----------------------------------------------------------------------------
(* A crash.                                                                *)

\* Segment q is what is left of p, of which n records were synced.
CutAt(p, q, n) == Size(q) \in n .. Len(p) /\ Agree(p, q, Size(q))

\* A prefix of a segment.
LEMMA PrefixOf ==
    ASSUME NEW S, NEW p \in Seq(S), NEW n \in Nat, n <= Len(p)
    PROVE  /\ SubSeq(p, 1, n) \in Seq(S) /\ Len(SubSeq(p, 1, n)) = n
           /\ \A i \in 1 .. n : SubSeq(p, 1, n)[i] = p[i]
<1>1. 1 \in Int /\ n \in Int /\ (\A i \in 1 .. n : p[i] \in S)
  <2>1. \A i \in 1 .. n : i \in 1 .. Len(p)
    BY LenProperties
  <2> QED BY <2>1, ElementOfSeq
<1>2. PICK a \in Int : a = 1
  BY <1>1
<1>3. \A i \in a .. n : p[i] \in S
  BY <1>1, <1>2
<1>4. PICK q : q = SubSeq(p, a, n)
  OBVIOUS
<1>5. /\ q \in Seq(S) /\ Len(q) = IF a <= n THEN n - a + 1 ELSE 0
      /\ \A i \in 1 .. (n - a + 1) : q[i] = p[a + i - 1]
  BY <1>1, <1>3, <1>4, SubSeqProperties
<1>6. Len(q) = n
  BY <1>2, <1>5
<1>7. \A i \in 1 .. n : q[i] = p[i]
  <2> TAKE i \in 1 .. n
  <2>1. i \in 1 .. (n - a + 1) /\ a + i - 1 = i
    BY <1>2
  <2> QED BY <1>5, <2>1
<1> QED BY <1>2, <1>4, <1>5, <1>6, <1>7

\* A crash at the end of a record.
LEMMA CutOf ==
    ASSUME NEW S, NEW p \in Seq(S), NEW u, WholeBut(p, u), Size(p) = Len(p), NEW n \in Nat, NEW i \in n .. Len(p)
    PROVE  /\ CutAt(p, SubSeq(p, 1, i), n) /\ Size(SubSeq(p, 1, i)) = Len(SubSeq(p, 1, i)) /\ Len(SubSeq(p, 1, i)) = i
           /\ SubSeq(p, 1, i) \in Seq(S)
<1>1. PICK l \in Nat : l = Len(p)
  BY LenProperties
<1>2. i \in Nat /\ i <= Len(p) /\ i <= l
  BY <1>1
<1>3. PICK q : q = SubSeq(p, 1, i)
  OBVIOUS
<1>4. q \in Seq(S) /\ Len(q) = i /\ \A j \in 1 .. i : q[j] = p[j]
  BY <1>2, <1>3, PrefixOf
<1>5. i > 0 => q[i].kind # "torn"
  <2> SUFFICES ASSUME i > 0 PROVE q[i].kind # "torn"
    OBVIOUS
  <2>1. i \in 1 .. i /\ i \in 1 .. l
    BY <1>1, <1>2
  <2> QED BY <1>1, <1>4, <2>1 DEF WholeBut
<1>6. Size(q) = i
  BY <1>4, <1>5 DEF Size
<1>7. Agree(p, q, i)
  BY <1>2, <1>4, <1>6 DEF Agree
<1> QED BY <1>3, <1>4, <1>6, <1>7 DEF CutAt

\* A crash in the middle of a record.
LEMMA CutTorn ==
    ASSUME NEW S, NEW p \in Seq(S), NEW u, WholeBut(p, u), Size(p) = Len(p), NEW n \in Nat, NEW i \in n .. Len(p) - 1,
           Torn \in S
    PROVE  CutAt(p, Append(SubSeq(p, 1, i), Torn), n) /\ Append(SubSeq(p, 1, i), Torn) \in Seq(S)
<1>1. PICK l \in Nat : l = Len(p)
  BY LenProperties
<1>2. i \in Nat /\ i <= Len(p) /\ i <= l /\ i \in n .. Len(p)
  BY <1>1
<1>3. PICK q : q = SubSeq(p, 1, i)
  OBVIOUS
<1>4. q \in Seq(S) /\ Len(q) = i /\ \A j \in 1 .. i : q[j] = p[j]
  BY <1>2, <1>3, PrefixOf
<1>5. PICK r : r = Append(q, Torn)
  OBVIOUS
<1>6. r \in Seq(S) /\ Len(r) = i + 1 /\ (\A j \in 1 .. i : r[j] = q[j]) /\ r[i + 1] = Torn
  BY <1>4, <1>5, AppendProperties
<1>7. Size(r) = i
  <2>1. r[Len(r)].kind = "torn"
    BY <1>6 DEF Torn
  <2> QED BY <1>2, <1>6, <2>1 DEF Size
<1>8. Agree(p, r, i)
  BY <1>2, <1>4, <1>6, <1>7 DEF Agree
<1> QED BY <1>2, <1>3, <1>5, <1>6, <1>7, <1>8 DEF CutAt

\* What is left of a segment is a prefix that holds the synced records.
LEMMA CutBounds ==
    ASSUME NEW p, NEW q, NEW n \in Nat, Len(p) \in Nat, CutAt(p, q, n), Size(p) = Len(p)
    PROVE  /\ Size(q) \in Nat /\ n <= Size(q) /\ Size(q) <= Len(p) /\ Agree(p, q, Size(q))
           /\ \A i \in 1 .. Size(q) : i \in 1 .. Len(p) /\ q[i] = p[i]
BY DEF CutAt, Agree

\* Its records are whole.
LEMMA CutWhole ==
    ASSUME NEW p, NEW q, NEW n \in Nat, Len(p) \in Nat, CutAt(p, q, n), Size(p) = Len(p), NEW u, WholeBut(p, u)
    PROVE  WholeBut(q, u)
BY CutBounds DEF WholeBut

\* The transactions of a checkpoint still end at its offset.
LEMMA CutSplit ==
    ASSUME NEW p, NEW q, NEW n \in Nat, Len(p) \in Nat, CutAt(p, q, n), Size(p) = Len(p), NEW off, NEW v, SplitAt(p, off, v)
    PROVE  SplitAt(q, off, v)
BY CutBounds DEF SplitAt

\* The commit records that are left are numbered as before, and no others
\* appear.
LEMMA CutTxn ==
    ASSUME NEW p, NEW q, NEW n \in Nat, Len(p) \in Nat, CutAt(p, q, n), Size(p) = Len(p), Once(p), Numbered(p)
    PROVE  /\ Once(q) /\ Numbered(q) /\ CommittedIn(q, Size(q)) = CommittedIn(p, Size(q))
           /\ CommittedIn(q, Size(q)) \subseteq CommittedIn(p, Size(p))
<1>1. PICK k \in Nat : k = Size(q)
  BY CutBounds
<1>2. \A i \in 1 .. k : i \in 1 .. Len(p) /\ q[i] = p[i]
  BY <1>1, CutBounds
<1>3. \A i \in 0 .. k : CommittedIn(q, i) = CommittedIn(p, i)
  <2>1. \A i \in 1 .. k : q[i] = p[i]
    BY <1>2
  <2> QED BY <2>1, CommittedAlike
<1>4. Once(q)
  BY <1>1, <1>2 DEF Once, CommitAt
<1>5. Numbered(q)
  <2> SUFFICES ASSUME NEW i \in 1 .. k, CommitAt(q, i) PROVE q[i].rev = Cardinality(CommittedIn(q, i))
    BY <1>1 DEF Numbered
  <2>1. CommitAt(p, i) /\ q[i] = p[i] /\ i \in 1 .. Size(p)
    BY <1>2 DEF CommitAt
  <2>2. p[i].rev = Cardinality(CommittedIn(p, i))
    BY <2>1 DEF Numbered
  <2>3. CommittedIn(q, i) = CommittedIn(p, i)
    BY <1>3
  <2> QED BY <2>1, <2>2, <2>3
<1>6. CommittedIn(q, k) \subseteq CommittedIn(p, Size(p))
  <2> SUFFICES ASSUME NEW t \in CommittedIn(q, k) PROVE t \in CommittedIn(p, Size(p))
    OBVIOUS
  <2>1. PICK i \in 1 .. k : CommitAt(q, i) /\ q[i].txn = t
    BY CommittedIs
  <2>2. i \in 1 .. Size(p) /\ CommitAt(p, i) /\ p[i].txn = t
    BY <1>2, <2>1 DEF CommitAt
  <2> QED BY <2>2, CommittedIs
<1>7. CommittedIn(q, k) = CommittedIn(p, k)
  BY <1>3
<1> QED BY <1>1, <1>4, <1>5, <1>6, <1>7

\* A commit whose data was synced is held by what is left.
LEMMA CutHolds ==
    ASSUME NEW p, NEW q, NEW n \in Nat, Len(p) \in Nat, CutAt(p, q, n), Size(p) = Len(p), NEW t, NEW records,
           \A r \in records : r.txn = t, \A i \in n + 1 .. Len(p) : p[i].txn # t, Holds(p, t, records)
    PROVE  Holds(q, t, records)
<1>1. PICK k \in Nat, l \in Nat : k = Size(q) /\ l = Len(p) /\ n <= k /\ k <= l
  BY CutBounds
<1>2. \A i \in 1 .. k : q[i] = p[i]
  BY <1>1, CutBounds
<1>3. PICK a \in 0 .. l : (\A i \in 1 .. a : p[i].txn # t) /\ Between(p, a, l) = records
  BY <1>1 DEF Holds
<1>4. \A i \in a + 1 .. l : p[i].txn = t
  BY <1>3 DEF Between
<1>5. \A i \in a + 1 .. l : i <= n
  <2> SUFFICES ASSUME NEW i \in a + 1 .. l, ~(i <= n) PROVE FALSE
    OBVIOUS
  <2>1. i \in n + 1 .. l
    OBVIOUS
  <2> QED BY <1>1, <1>4, <2>1
<1>6. CASE a < l
  <2>1. l \in a + 1 .. l
    BY <1>6
  <2>2. k = l
    BY <1>1, <1>5, <2>1
  <2>3. \A i \in a + 1 .. l : q[i] = p[i]
    BY <1>2, <2>2
  <2>4. Between(q, a, l) = Between(p, a, l)
    BY <2>3 DEF Between
  <2>5. \A i \in 1 .. a : q[i].txn # t
    BY <1>2, <1>3, <2>2
  <2> QED BY <1>1, <1>3, <2>2, <2>4, <2>5 DEF Holds
<1>7. CASE ~(a < l)
  <2>1. a = l /\ a + 1 .. l = {} /\ k + 1 .. k = {}
    BY <1>7
  <2>2. records = {} /\ Between(q, k, k) = {}
    BY <1>3, <2>1 DEF Between
  <2>3. \A i \in 1 .. k : q[i].txn # t
    BY <1>1, <1>2, <1>3, <2>1
  <2>4. k \in 0 .. k
    OBVIOUS
  <2> QED BY <1>1, <2>2, <2>3, <2>4 DEF Holds
<1> QED BY <1>6, <1>7

\* The records of a transaction carry its number.
LEMMA RecordsOfTxn ==
    ASSUME NEW k, NEW t, NEW w, NEW r \in RecordsOf(k, t, w)
    PROVE  r.txn = t
BY DEF RecordsOf, PutsOf, TombstonesOf

\* The images of the acknowledged transactions survive the crash.
LEMMA CutImages ==
    ASSUME NEW d \in Disks, NEW e \in Disks, NEW u \in Nat, Orderly(d, u), Orderly(e, u), Whole(d),
           NEW sy \in Offsets, CutAt(d.txn, e.txn, sy.txn), CutAt(d.node, e.node, sy.node), CutAt(d.edge, e.edge, sy.edge),
           NEW T, T \subseteq Comm(e), NEW c, NEW x,
           DataSyncOK(d.node, sy.node, T, c, x), DataSyncOK(d.edge, sy.edge, T, c, x),
           NEW m, NEW cp \in Checkpoints \cup {None}, ImageOK(d, m, T, cp)
    PROVE  ImageOK(e, m, T, cp)
<1>1. PICK yt \in Nat, yn \in Nat, ye \in Nat : yt = sy.txn /\ yn = sy.node /\ ye = sy.edge
  BY DEF Offsets
<1>2. Len(d.txn) \in Nat /\ Len(d.node) \in Nat /\ Len(d.edge) \in Nat
  BY SegmentsTyped
<1>3. Size(d.txn) = Len(d.txn) /\ Size(d.node) = Len(d.node) /\ Size(d.edge) = Len(d.edge)
  BY DEF Whole
<1>4. CutAt(d.txn, e.txn, yt) /\ CutAt(d.node, e.node, yn) /\ CutAt(d.edge, e.edge, ye)
  BY <1>1
<1>5. PICK tn \in Nat : tn = Size(e.txn) /\ Agree(d.txn, e.txn, tn)
  BY <1>2, <1>3, <1>4, CutBounds
<1>6. PICK nn \in Nat : nn = Size(e.node) /\ yn <= nn /\ Agree(d.node, e.node, nn)
  BY <1>2, <1>3, <1>4, CutBounds
<1>7. PICK en \in Nat : en = Size(e.edge) /\ ye <= en /\ Agree(d.edge, e.edge, en)
  BY <1>2, <1>3, <1>4, CutBounds
<1>8. T \subseteq CommittedIn(d.txn, tn)
  <2>1. Once(d.txn) /\ Numbered(d.txn)
    BY DEF Orderly
  <2>2. CommittedIn(e.txn, Size(e.txn)) = CommittedIn(d.txn, Size(e.txn))
    BY <1>2, <1>3, <1>4, <2>1, CutTxn
  <2> QED BY <1>5, <2>2 DEF Comm
<1>9. \A i \in nn + 1 .. Size(d.node) : d.node[i].txn \notin T
  <2> TAKE i \in nn + 1 .. Size(d.node)
  <2>1. i \in yn + 1 .. Len(d.node)
    BY <1>2, <1>3, <1>6
  <2> QED BY <1>1, <2>1 DEF DataSyncOK
<1>10. \A i \in en + 1 .. Size(d.edge) : d.edge[i].txn \notin T
  <2> TAKE i \in en + 1 .. Size(d.edge)
  <2>1. i \in ye + 1 .. Len(d.edge)
    BY <1>2, <1>3, <1>7
  <2> QED BY <1>1, <2>1 DEF DataSyncOK
<1>11. (\A i \in nn + 1 .. Size(e.node) : e.node[i].txn \notin T) /\ (\A i \in en + 1 .. Size(e.edge) : e.edge[i].txn \notin T)
  BY <1>6, <1>7
<1> QED BY <1>5, <1>6, <1>7, <1>8, <1>9, <1>10, <1>11, ImagesKept

\* What was synced is enough for the checkpoint's offsets.
LEMMA CutOffsets ==
    ASSUME NEW d, NEW e, NEW sy \in Offsets, NEW y, NEW cp \in Checkpoints \cup {None}, NEW x \in Nat, OffsetOK(d, sy, cp, x),
           Len(e.txn) \in Nat, Len(e.node) \in Nat, Len(e.edge) \in Nat,
           sy.txn <= Len(e.txn), sy.node <= Len(e.node), sy.edge <= Len(e.edge),
           y.txn = Len(e.txn), y.node = Len(e.node), y.edge = Len(e.edge)
    PROVE  OffsetOK(e, y, cp, x + 1)
<1>1. CASE cp = None
  BY <1>1 DEF OffsetOK
<1>2. CASE cp # None
  <2>1. PICK ot \in Nat, on \in Nat, oe \in Nat : ot = cp.offsets.txn /\ on = cp.offsets.node /\ oe = cp.offsets.edge
    BY <1>2 DEF Checkpoints, Offsets
  <2>2. PICK yt \in Nat, yn \in Nat, ye \in Nat : yt = sy.txn /\ yn = sy.node /\ ye = sy.edge
    BY DEF Offsets
  <2>3. x + 1 < MaxCrashes => ot <= yt /\ on <= yn /\ oe <= ye
    BY <1>2, <2>1, <2>2 DEF OffsetOK
  <2>4. yt <= Len(e.txn) /\ yn <= Len(e.node) /\ ye <= Len(e.edge)
    BY <2>2
  <2>5. ASSUME x + 1 < MaxCrashes PROVE ot <= Len(e.txn) /\ on <= Len(e.node) /\ oe <= Len(e.edge)
    <3>1. ot <= Len(e.txn)
      BY <2>3, <2>4, <2>5, Within
    <3>2. on <= Len(e.node)
      BY <2>3, <2>4, <2>5, Within
    <3>3. oe <= Len(e.edge)
      BY <2>3, <2>4, <2>5, Within
    <3> QED BY <3>1, <3>2, <3>3
  <2>6. (x + 1) + 1 < MaxCrashes => x + 1 < MaxCrashes
    BY SegmentsAssumption
  <2> QED BY <2>1, <2>5, <2>6 DEF OffsetOK
<1> QED BY <1>1, <1>2

\* A crash.
LEMMA SafeCrash ==
    ASSUME NEW d \in Disks, NEW e \in Disks, NEW sy \in Offsets, NEW y \in Offsets, NEW cp \in Checkpoints \cup {None},
           NEW m \in Stores, NEW u \in Nat, NEW x \in Nat, x < MaxCrashes, NEW c \in InProgress \cup {None},
           Safe(d, sy, cp, "up", m, c, u, x),
           CutAt(d.txn, e.txn, sy.txn), CutAt(d.node, e.node, sy.node), CutAt(d.edge, e.edge, sy.edge),
           x + 1 < MaxCrashes => Whole(e),
           y.txn = Len(e.txn), y.node = Len(e.node), y.edge = Len(e.edge)
    PROVE  Safe(e, y, cp, "down", m, c, u, x + 1) /\ Done(e, c) = Done(d, c)
<1>1. LogOK(d, m, c, u, "up", x) /\ HeldOK(d, c, "up") /\ SyncOK(d, sy, c, "up", x) /\ OffsetOK(d, sy, cp, x)
      /\ StartOK(d, cp, c, u) /\ ImageOK(d, m, Done(d, c), cp)
  BY SafeFacts
<1>2. Orderly(d, u) /\ Whole(d) /\ Cardinality(Done(d, c)) = m.revision
  BY <1>1 DEF LogOK
<1>3. /\ Len(d.txn) \in Nat /\ Len(d.node) \in Nat /\ Len(d.edge) \in Nat
      /\ Len(e.txn) \in Nat /\ Len(e.node) \in Nat /\ Len(e.edge) \in Nat
      /\ Size(e.txn) <= Len(e.txn) /\ Size(e.node) <= Len(e.node) /\ Size(e.edge) <= Len(e.edge)
  BY SegmentsTyped
<1>4. Size(d.txn) = Len(d.txn) /\ Size(d.node) = Len(d.node) /\ Size(d.edge) = Len(d.edge)
  BY <1>2 DEF Whole
<1>5. PICK yt \in Nat, yn \in Nat, ye \in Nat : yt = sy.txn /\ yn = sy.node /\ ye = sy.edge
  BY DEF Offsets
<1>6. CutAt(d.txn, e.txn, yt) /\ CutAt(d.node, e.node, yn) /\ CutAt(d.edge, e.edge, ye)
  BY <1>5
<1>7. /\ Once(e.txn) /\ Numbered(e.txn) /\ CommittedIn(e.txn, Size(e.txn)) = CommittedIn(d.txn, Size(e.txn))
      /\ Comm(e) \subseteq Comm(d)
  <2>1. Once(d.txn) /\ Numbered(d.txn)
    BY <1>2 DEF Orderly
  <2> QED BY <2>1, <1>3, <1>4, <1>6, CutTxn DEF Comm
<1>8. Orderly(e, u)
  <2>1. WholeBut(d.txn, u) /\ WholeBut(d.node, u) /\ WholeBut(d.edge, u)
    BY <1>2 DEF Orderly
  <2>2. WholeBut(e.txn, u)
    BY <2>1, <1>3, <1>4, <1>6, CutWhole
  <2>3. WholeBut(e.node, u)
    BY <2>1, <1>3, <1>4, <1>6, CutWhole
  <2>4. WholeBut(e.edge, u)
    BY <2>1, <1>3, <1>4, <1>6, CutWhole
  <2> QED BY <2>2, <2>3, <2>4, <1>7 DEF Orderly
\* Only the commit record of the commit in progress can be lost.
<1>9. ASSUME NEW t \in Comm(d), t \notin Comm(e) PROVE c # None /\ c.step = "sync" /\ t = c.txn
  <2>1. PICK i \in 1 .. Size(d.txn) : CommitAt(d.txn, i) /\ d.txn[i].txn = t
    BY CommittedIs DEF Comm
  <2>2. PICK k \in Nat : k = Size(e.txn) /\ yt <= k
    BY <1>3, <1>4, <1>6, CutBounds
  <2>3. ~(i <= k)
    <3> SUFFICES ASSUME i <= k PROVE FALSE
      OBVIOUS
    <3>1. i \in 1 .. k
      OBVIOUS
    <3>2. t \in CommittedIn(d.txn, k)
      BY <2>1, <3>1, CommittedIs
    <3> QED BY <3>2, <1>7, <1>9, <2>2 DEF Comm
  <2>4. i \in yt + 1 .. Len(d.txn)
    BY <2>2, <2>3, <1>3, <1>4
  <2>5. TxnSyncOK(d.txn, yt, c, x)
    BY <1>1, <1>5 DEF SyncOK
  <2> QED BY <2>1, <2>4, <2>5 DEF TxnSyncOK
<1>10. Done(e, c) = Done(d, c)
  <2>1. CASE c = None
    <3>1. \A t \in Comm(d) : t \in Comm(e)
      BY <1>9, <2>1
    <3> QED BY <3>1, <1>7 DEF Done
  <2>2. CASE c # None
    <3>1. \A t \in Comm(d) : t \in Comm(e) \/ t = c.txn
      BY <1>9
    <3> QED BY <3>1, <2>2, <1>7 DEF Done, Mine
  <2> QED BY <2>1, <2>2
<1>11. LogOK(e, m, c, u, "down", x + 1)
  <2>1. ASSUME c # None, c.txn \in Comm(e) PROVE RevOf(e.txn, c.txn) = m.revision + 1
    <3>1. c.txn \in Comm(d) /\ RevOf(d.txn, c.txn) = m.revision + 1
      BY <2>1, <1>1, <1>7 DEF LogOK
    <3>2. PICK k \in Nat : k = Size(e.txn) /\ Agree(d.txn, e.txn, k)
      BY <1>3, <1>4, <1>6, CutBounds
    <3>3. c.txn \in CommittedIn(d.txn, k)
      BY <2>1, <3>2, <1>7 DEF Comm
    <3>4. Once(d.txn) /\ Size(d.txn) \in Nat /\ Size(e.txn) \in Nat
      BY <1>2, <1>3, <1>4, <3>2 DEF Orderly
    <3>5. RevOf(d.txn, c.txn) = RevOf(e.txn, c.txn)
      BY <3>2, <3>3, <3>4, <1>7, RevOfAgree
    <3> QED BY <3>1, <3>5
  <2> QED BY <2>1, <1>2, <1>8, <1>10 DEF LogOK
<1>12. HeldOK(e, c, "down")
  <2> SUFFICES ASSUME c # None, c.txn \in Comm(e)
               PROVE  /\ Holds(e.node, c.txn, RecordsOf("node", c.txn, c.writes))
                      /\ Holds(e.edge, c.txn, RecordsOf("edge", c.txn, c.writes))
    BY DEF HeldOK
  <2>1. c.step = "sync"
    BY <1>1, <1>7 DEF LogOK
  <2>2. Holds(d.node, c.txn, RecordsOf("node", c.txn, c.writes)) /\ Holds(d.edge, c.txn, RecordsOf("edge", c.txn, c.writes))
    BY <1>1 DEF HeldOK
  <2>3. c.step # "data"
    BY <2>1
  <2>4. \A i \in yn + 1 .. Len(d.node) : d.node[i].txn # c.txn
    BY <2>3, <1>1, <1>5 DEF SyncOK, DataSyncOK
  <2>5. \A i \in ye + 1 .. Len(d.edge) : d.edge[i].txn # c.txn
    BY <2>3, <1>1, <1>5 DEF SyncOK, DataSyncOK
  <2>6. PICK t, rn, re : t = c.txn /\ rn = RecordsOf("node", c.txn, c.writes) /\ re = RecordsOf("edge", c.txn, c.writes)
    OBVIOUS
  <2>7. (\A r \in rn : r.txn = t) /\ (\A r \in re : r.txn = t)
    BY <2>6, RecordsOfTxn
  <2>8. Holds(d.node, t, rn) /\ Holds(d.edge, t, re)
    BY <2>2, <2>6
  <2>9. (\A i \in yn + 1 .. Len(d.node) : d.node[i].txn # t) /\ (\A i \in ye + 1 .. Len(d.edge) : d.edge[i].txn # t)
    BY <2>4, <2>5, <2>6
  <2>10. Len(d.node) \in Nat /\ Size(d.node) = Len(d.node) /\ Len(d.edge) \in Nat /\ Size(d.edge) = Len(d.edge)
    BY <1>3, <1>4
  <2>11. Holds(e.node, t, rn)
    BY ONLY yn \in Nat, <2>7, <2>8, <2>9, <2>10, <1>6, CutHolds
  <2>12. Holds(e.edge, t, re)
    BY ONLY ye \in Nat, <2>7, <2>8, <2>9, <2>10, <1>6, CutHolds
  <2> QED BY <2>6, <2>11, <2>12
<1>13. SyncOK(e, y, c, "down", x + 1)
  <2>1. ASSUME NEW q, Len(q) \in Nat PROVE Len(q) + 1 .. Len(q) = {} /\ Len(q) <= Len(q)
    BY <2>1
  <2>2. TxnSyncOK(e.txn, y.txn, c, x + 1) /\ DataSyncOK(e.node, y.node, Done(e, c), c, x + 1)
        /\ DataSyncOK(e.edge, y.edge, Done(e, c), c, x + 1)
    BY <2>1, <1>3 DEF TxnSyncOK, DataSyncOK
  <2> QED BY <2>1, <2>2, <1>3 DEF SyncOK
<1>14. OffsetOK(e, y, cp, x + 1)
  <2>1. yt <= Size(e.txn) /\ yn <= Size(e.node) /\ ye <= Size(e.edge)
        /\ Size(e.txn) \in Nat /\ Size(e.node) \in Nat /\ Size(e.edge) \in Nat
    BY <1>3, <1>4, <1>6, CutBounds
  <2>2. yt <= Len(e.txn)
    BY <2>1, <1>3, Within
  <2>3. yn <= Len(e.node)
    BY <2>1, <1>3, Within
  <2>4. ye <= Len(e.edge)
    BY <2>1, <1>3, Within
  <2> QED BY <2>2, <2>3, <2>4, <1>1, <1>3, <1>5, CutOffsets
<1>15. StartOK(e, cp, c, u)
  <2> SUFFICES ASSUME cp # None
               PROVE  \E v \in 0 .. u : Starts(e, Hydrated(cp), cp.offsets, v) /\ (c # None => v < c.txn)
    BY DEF StartOK
  <2>1. PICK v \in 0 .. u : Starts(d, Hydrated(cp), cp.offsets, v) /\ (c # None => v < c.txn)
    BY <1>1 DEF StartOK
  <2>2. SplitAt(d.txn, cp.offsets.txn, v) /\ SplitAt(d.node, cp.offsets.node, v) /\ SplitAt(d.edge, cp.offsets.edge, v)
    BY <2>1 DEF Starts
  <2>3. SplitAt(e.txn, cp.offsets.txn, v)
    BY <2>2, <1>3, <1>4, <1>6, CutSplit
  <2>4. SplitAt(e.node, cp.offsets.node, v)
    BY <2>2, <1>3, <1>4, <1>6, CutSplit
  <2>5. SplitAt(e.edge, cp.offsets.edge, v)
    BY <2>2, <1>3, <1>4, <1>6, CutSplit
  <2>6. Older(Comm(e), v) = Older(Comm(d), v)
    <3>1. ASSUME NEW t \in Comm(d), t <= v PROVE t \in Comm(e)
      <4> SUFFICES ASSUME t \notin Comm(e) PROVE FALSE
        OBVIOUS
      <4>1. c # None /\ t = c.txn
        BY <1>9
      <4>2. c.txn \in Nat
        BY <4>1 DEF InProgress
      <4>3. v < t
        BY <2>1, <4>1
      <4> QED BY <3>1, <4>1, <4>2, <4>3
    <3> QED BY <3>1, <1>7 DEF Older
  <2>7. Starts(e, Hydrated(cp), cp.offsets, v)
    BY <2>1, <2>3, <2>4, <2>5, <2>6 DEF Starts
  <2> QED BY <2>1, <2>7
<1>16. ImageOK(e, m, Done(e, c), cp)
  <2>1. DataSyncOK(d.node, sy.node, Done(e, c), c, x) /\ DataSyncOK(d.edge, sy.edge, Done(e, c), c, x)
    BY <1>1, <1>10 DEF SyncOK
  <2>2. Done(e, c) \subseteq Comm(e)
    BY DEF Done
  <2>3. ImageOK(d, m, Done(e, c), cp)
    BY <1>1, <1>10
  <2> QED BY <2>1, <2>2, <2>3, <1>2, <1>8, CutImages
<1> QED BY <1>10, <1>11, <1>12, <1>13, <1>14, <1>15, <1>16 DEF Safe

\* The three names of a store that opens.
LEMMA ReopensTo ==
    ASSUME NEW d \in Disks, NEW sy, NEW cp \in Checkpoints \cup {None}, NEW st, NEW m \in Stores, NEW c \in InProgress \cup {None},
           NEW u \in Nat, NEW x, Safe(d, sy, cp, st, m, c, u, x), MemOK(m, c, u), NEW b \in {cp, None}
    PROVE  /\ Reopened(d, b) = {[ok |-> TRUE, store |-> Recovered(d, b)]}
           /\ Recovered(d, b) \in Stores
           /\ AtomicView(Recovered(d, b)) = AtomicView(Survivor(m, c, d))
<1>1. LogOK(d, m, c, u, st, x) /\ StartOK(d, cp, c, u)
  BY SafeFacts
<1>2. Orderly(d, u)
  BY <1>1 DEF LogOK
<1>3. b # None => b = cp /\ b.offsets \in Offsets /\ Hydrated(b) \in Stores
  BY HydratedTyped DEF Checkpoints
<1>4. b # None => \E v \in Nat : Starts(d, Hydrated(b), b.offsets, v)
  <2> SUFFICES ASSUME b # None PROVE \E v \in Nat : Starts(d, Hydrated(b), b.offsets, v)
    OBVIOUS
  <2>1. PICK v \in 0 .. u : Starts(d, Hydrated(cp), cp.offsets, v)
    BY <1>1, <1>3 DEF StartOK
  <2>2. v \in Nat
    OBVIOUS
  <2> QED BY <1>3, <2>1, <2>2
<1>5. Reopened(d, b) = {[ok |-> TRUE, store |-> Recovered(d, b)]}
  BY <1>2, <1>3, <1>4, ReopenedIs
<1>6. Recovered(d, b) \in Stores
  <2>1. NoOffsets \in Offsets /\ EmptyStore \in Stores
    BY EmptyStoreShape DEF NoOffsets, Offsets
  <2>2. CASE b = None
    BY <1>2, <2>1, <2>2, ImageTyped DEF Recovered
  <2>3. CASE b # None
    BY <1>2, <1>3, <2>3, ImageTyped DEF Recovered
  <2> QED BY <2>2, <2>3
<1>7. ImageOK(d, Survivor(m, c, d), Comm(d), cp)
  BY Survives
<1>8. AtomicView(Recovered(d, b)) = AtomicView(Survivor(m, c, d))
  BY <1>3, <1>7 DEF ImageOK, Recovered, Full, Part
<1> QED BY <1>5, <1>6, <1>8

\* CommitOnDisk in the words of the invariant.
LEMMA CommitShown ==
    ASSUME disk \in Disks
    PROVE  CommitOnDisk <=> cur # None /\ cur.txn \in Comm(disk)
<1>1. PICK q \in Seq(TxnRecs \cup {Torn}) : q = disk.txn
  BY DEF Disks
<1>2. PICK n \in Nat, l \in Nat : n = Size(q) /\ l = Len(q) /\ n <= l /\ l <= n + 1 /\ DOMAIN q = 1 .. l
  BY SizeOf, LenProperties
<1>3. ASSUME NEW i \in 1 .. l, CommitAt(q, i) PROVE i \in 1 .. n
  <2>1. CASE l = n
    BY <2>1
  <2>2. CASE l # n
    <3>1. l > 0 /\ q[l].kind = "torn"
      BY <1>2, <2>2 DEF Size
    <3>2. i # l
      BY <1>3, <3>1 DEF CommitAt
    <3> QED BY <1>2, <3>2
  <2> QED BY <2>1, <2>2
<1>4. \A i \in 1 .. n : i \in 1 .. l
  BY <1>2
<1>5. cur.txn \in CommittedIn(q, n) <=> \E i \in 1 .. n : CommitAt(q, i) /\ q[i].txn = cur.txn
  BY CommittedIs
<1>6. cur.txn \in CommittedIn(q, n) <=> \E i \in 1 .. l : CommitAt(q, i) /\ q[i].txn = cur.txn
  BY <1>3, <1>4, <1>5
<1>7. CommitOnDisk <=> cur # None /\ \E i \in 1 .. l : CommitAt(q, i) /\ q[i].txn = cur.txn
  BY <1>1, <1>2 DEF CommitOnDisk, CommitAt
<1> QED BY <1>1, <1>2, <1>6, <1>7 DEF Comm

-----------------------------------------------------------------------------
(* The invariant.                                                          *)

\* An empty segment changes nothing.
LEMMA EmptyRan ==
    ASSUME NEW S, NEW q \in Seq(S), Len(q) = 0, NEW k, NEW s, NEW m
    PROVE  Ran(k, s, m, q, 0, Size(q)) = s
<1>1. PICK n \in Nat : n = Len(q)
  OBVIOUS
<1>0. n \in Nat /\ n <= Len(q) /\ n <= n /\ q \in Seq(S)
  BY <1>1
<1>2. Ran(k, s, m, q, n, n) = s
  BY ONLY <1>0, RanNothing
<1>3. Size(q) = 0
  BY DEF Size
<1> QED BY <1>1, <1>2, <1>3

\* A disk without data replays to the empty store.
LEMMA EmptyImage ==
    ASSUME NEW d \in Disks, Len(d.node) = 0, Len(d.edge) = 0, NEW T
    PROVE  Image(d, T, EmptyStore, NoOffsets) = [EmptyStore EXCEPT !.revision = Cardinality(T)]
<1>1. PICK p \in Seq(NodeRecs \cup {Torn}) : p = d.node
  BY DEF Disks
<1>2. PICK q \in Seq(EdgeRecs \cup {Torn}) : q = d.edge
  BY DEF Disks
<1>3. PICK m : m = RevMap(d, T)
  OBVIOUS
<1>4. Ran("node", EmptyStore, m, p, 0, Size(p)) = EmptyStore
  BY <1>1, EmptyRan
<1>5. Ran("edge", EmptyStore, m, q, 0, Size(q)) = EmptyStore
  BY <1>2, EmptyRan
<1>6. Image(d, T, EmptyStore, NoOffsets) =
        [nodes    |-> EmptyStore.nodes,
         edges    |-> EmptyStore.edges,
         parent   |-> EmptyStore.parent,
         nodeMod  |-> EmptyStore.nodeMod,
         edgeMod  |-> EmptyStore.edgeMod,
         revision |-> Cardinality(T)]
  BY <1>1, <1>2, <1>3, <1>4, <1>5 DEF Image, NoOffsets
<1> QED BY <1>6 DEF EmptyStore

\* The empty files of a new store are safe.
LEMMA InitSafe ==
    ASSUME NEW d, d = [txn |-> <<>>, node |-> <<>>, edge |-> <<>>], NEW x \in Nat
    PROVE  /\ d \in Disks /\ Safe(d, NoOffsets, None, "up", EmptyStore, None, 0, x) /\ MemOK(EmptyStore, None, 0)
<1>1. d \in Disks
  BY DEF Disks
<1>2. d.txn = <<>> /\ d.node = <<>> /\ d.edge = <<>> /\ Len(<<>>) = 0 /\ Size(<<>>) = 0
  BY DEF Size
<1>3. Comm(d) = {}
  BY <1>2 DEF Comm, CommittedIn
<1>4. Done(d, None) = {}
  BY <1>3 DEF Done
<1>5. Cardinality({}) = 0
  BY FS_EmptySet
<1>6. Orderly(d, 0)
  BY <1>2 DEF Orderly, WholeBut, Once, Numbered
<1>7. LogOK(d, EmptyStore, None, 0, "up", x)
  <2>1. EmptyStore.revision = 0
    BY DEF EmptyStore
  <2>2. Whole(d)
    BY <1>2 DEF Whole
  <2> QED BY <2>1, <2>2, <1>4, <1>5, <1>6 DEF LogOK
<1>8. HeldOK(d, None, "up")
  BY DEF HeldOK
<1>9. SyncOK(d, NoOffsets, None, "up", x)
  BY <1>2 DEF SyncOK, NoOffsets, TxnSyncOK, DataSyncOK
<1>10. OffsetOK(d, NoOffsets, None, x) /\ StartOK(d, None, None, 0)
  BY DEF OffsetOK, StartOK
<1>11. ImageOK(d, EmptyStore, Done(d, None), None)
  <2>0. Len(d.node) = 0 /\ Len(d.edge) = 0
    BY <1>2
  <2>1. Full(d, {}) = [EmptyStore EXCEPT !.revision = 0]
    BY <2>0, <1>1, <1>5, EmptyImage DEF Full
  <2>2. Full(d, {}) = EmptyStore
    BY <2>1 DEF EmptyStore
  <2>3. ModRevisionsBounded(EmptyStore)
    BY EmptyStoreShape DEF GraphShape
  <2> QED BY <2>2, <2>3, <1>4 DEF ImageOK
<1>12. MemOK(EmptyStore, None, 0)
  BY EmptyStoreShape DEF MemOK, GraphShape
<1> QED BY <1>1, <1>7, <1>8, <1>9, <1>10, <1>11, <1>12 DEF Safe

\* A new store satisfies the invariant.
LEMMA InitSegInv == Init => SegInv
<1> SUFFICES ASSUME Init PROVE SegInv
  OBVIOUS
<1>1. PICK d : d = [txn |-> <<>>, node |-> <<>>, edge |-> <<>>]
  OBVIOUS
<1>2. disk = d /\ synced = NoOffsets /\ found = NoOffsets
  BY <1>1 DEF Init, Kinds, NoOffsets
<1>5. Settled = NoOffsets
  BY <1>2 DEF Settled, More, NoOffsets
<1>3. d \in Disks /\ Safe(d, NoOffsets, None, "up", EmptyStore, None, 0, 0) /\ MemOK(EmptyStore, None, 0)
  BY <1>1, InitSafe
<1>4. SegTypeOK
  BY <1>2, <1>3, EmptyStoreShape, SegmentsAssumption DEF Init, SegTypeOK, NoOffsets, Offsets
<1> QED BY <1>2, <1>3, <1>4, <1>5 DEF Init, SegInv

\* The settled records of the segments.
LEMMA SettledTyped ==
    ASSUME synced \in Offsets, found \in Offsets
    PROVE  /\ Settled \in Offsets
           /\ Settled.txn = More(synced.txn, found.txn) /\ Settled.node = More(synced.node, found.node)
           /\ Settled.edge = More(synced.edge, found.edge)
BY DEF Settled, More, Offsets

\* A step that syncs nothing and stops nothing settles nothing.
LEMMA SettledKept ==
    ASSUME synced' = synced, found' = found
    PROVE  Settled' = Settled
BY DEF Settled

\* Settling a segment up to its end.
LEMMA SettledEnd ==
    ASSUME NEW i \in Nat, NEW j \in Nat, NEW l \in Nat, More(i, j) <= l
    PROVE  More(l, j) = l /\ i <= l /\ j <= l
BY DEF More

\* What the invariant says of a store that is up.
LEMMA ExposedUp ==
    ASSUME SegInv, ~lost, status = "up"
    PROVE  /\ disk \in Disks /\ Settled \in Offsets /\ checkpoint \in Checkpoints \cup {None} /\ mem \in Stores
           /\ cur \in InProgress \cup {None} /\ used \in Nat /\ crashes \in Nat /\ crashes <= MaxCrashes /\ MemOK(mem, cur, used)
           /\ crashes < MaxCrashes => Safe(disk, Settled, checkpoint, "up", mem, cur, used, crashes)
<1>1. Settled \in Offsets
  BY SettledTyped DEF SegInv, SegTypeOK
<1> QED BY <1>1, SegmentsAssumption DEF SegInv, SegTypeOK, Exposed

\* Data records at the end of a segment.
LEMMA DataGrown ==
    ASSUME NEW S, NEW p \in Seq(S \cup {Torn}), NEW r \in Seq(S), NEW t, Size(p) = Len(p),
           \A x \in Elements(r) : x.kind # "torn" /\ x.txn = t
    PROVE  /\ Longer(p, p \o r, t)
           /\ Between(p \o r, Len(p), Len(p \o r)) = Elements(r)
<1>1. r \in Seq(S \cup {Torn})
  BY SeqMonotonic
<1>2. PICK n \in Nat, k \in Nat : n = Len(p) /\ k = Len(r)
  BY LenProperties
<1>3. \A i \in 1 .. k : r[i].kind # "torn" /\ r[i].txn = t
  <2> TAKE i \in 1 .. k
  <2>1. r[i] \in Elements(r)
    BY <1>2 DEF Elements
  <2> QED BY <2>1
<1>4. PICK q : q = p \o r
  OBVIOUS
<1>5. Longer(p, q, t) /\ Len(q) = n + k /\ \A i \in 1 .. k : q[n + i] = r[i]
  BY <1>1, <1>2, <1>3, <1>4, LongerOf
<1>6. Between(q, n, n + k) = Elements(r)
  <2>1. ASSUME NEW i \in n + 1 .. n + k PROVE q[i] \in Elements(r)
    <3>1. i - n \in 1 .. k /\ n + (i - n) = i
      OBVIOUS
    <3>2. q[n + (i - n)] = r[i - n]
      BY <1>5, <3>1
    <3>3. r[i - n] \in Elements(r)
      BY <1>2, <3>1 DEF Elements
    <3> QED BY <3>1, <3>2, <3>3
  <2>2. ASSUME NEW i \in 1 .. k PROVE r[i] \in Between(q, n, n + k)
    <3>1. n + i \in n + 1 .. n + k
      OBVIOUS
    <3>2. q[n + i] = r[i]
      BY <1>5
    <3>3. q[n + i] \in Between(q, n, n + k)
      BY <3>1 DEF Between
    <3> QED BY <3>2, <3>3
  <2>3. Between(q, n, n + k) \subseteq Elements(r)
    BY <2>1 DEF Between
  <2>4. Elements(r) \subseteq Between(q, n, n + k)
    BY <1>2, <2>2 DEF Elements
  <2> QED BY <2>3, <2>4
<1> QED BY <1>2, <1>4, <1>5, <1>6

\* The records of a transaction are whole and carry its number.
LEMMA RecordsShape ==
    ASSUME NEW t \in Nat, NEW w \in WriteSets
    PROVE  /\ \A x \in RecordsOf("node", t, w) : x.kind # "torn" /\ x.txn = t
           /\ \A x \in RecordsOf("edge", t, w) : x.kind # "torn" /\ x.txn = t
<1>1. \A x \in RecordsOf("node", t, w) : x \in NodeRecs
  BY NodeRecordTyped
<1>2. \A x \in RecordsOf("edge", t, w) : x \in EdgeRecs
  BY EdgeRecordTyped
<1>3. \A x \in NodeRecs \cup EdgeRecs : x.kind # "torn"
  BY DEF NodeRecs, EdgeRecs
<1> QED BY <1>1, <1>2, <1>3, RecordsOfTxn

\* CommitWithInfo up to its data records keeps the invariant.
LEMMA StepBegin ==
    ASSUME SegInv, ~lost, NEW w \in WriteSets, BeginCommit(w)
    PROVE  SegInv'
<1>1. /\ disk \in Disks /\ Settled \in Offsets /\ checkpoint \in Checkpoints \cup {None} /\ mem \in Stores
      /\ used \in Nat /\ crashes \in Nat /\ MemOK(mem, None, used) /\ cur = None /\ status = "up"
      /\ crashes < MaxCrashes => Safe(disk, Settled, checkpoint, "up", mem, None, used, crashes)
  BY ExposedUp DEF BeginCommit
<1>2. PICK t \in Nat : t = used + 1
  BY <1>1
<1>3. PICK c : c = [txn |-> t, writes |-> w, step |-> "data"]
  OBVIOUS
<1>4. PICK p : p = Append(disk.txn, [kind |-> "begin", txn |-> t])
  OBVIOUS
<1>5. PICK q : q = disk.node \o NodeRecords(t, w)
  OBVIOUS
<1>6. PICK r : r = disk.edge \o EdgeDataRecords(t, w)
  OBVIOUS
<1>7. PICK e : e = [txn |-> p, node |-> q, edge |-> r]
  OBVIOUS
<1>8. /\ disk' = e /\ cur' = c /\ used' = t /\ synced' = synced /\ found' = found /\ lost' = lost /\ checkpoint' = checkpoint /\ status' = "up" /\ mem' = mem
      /\ crashes' = crashes /\ ~InvariantConflict(mem, w) /\ w # NoWrites
  BY <1>1, <1>2, <1>3, <1>4, <1>5, <1>6, <1>7 DEF BeginCommit, Conflict
<1>9. c \in InProgress /\ c # None /\ c.txn = t /\ c.writes = w /\ c.step = "data"
  <2>1. c \in [txn : Nat, writes : WriteRecords, step : {"data", "commit", "sync"}]
    BY <1>3 DEF WriteSets
  <2>3. t \in Nat \ {0}
    BY <1>1, <1>2
  <2>2. c \in InProgress
    BY <1>3, <1>8, <2>3 DEF InProgress
  <2> QED BY <1>3, <2>1, <2>2, SegmentsAssumption
<1>10. /\ disk.txn \in Seq(TxnRecs \cup {Torn}) /\ disk.node \in Seq(NodeRecs \cup {Torn}) /\ disk.edge \in Seq(EdgeRecs \cup {Torn})
  BY <1>1 DEF Disks
<1>11. /\ NodeRecords(t, w) \in Seq(NodeRecs) /\ Elements(NodeRecords(t, w)) = RecordsOf("node", t, w)
       /\ EdgeDataRecords(t, w) \in Seq(EdgeRecs) /\ Elements(EdgeDataRecords(t, w)) = RecordsOf("edge", t, w)
  BY NodeRecordsOf, EdgeRecordsOf
<1>0. PICK b : b = [kind |-> "begin", txn |-> t]
  OBVIOUS
<1>12. b \in TxnRecs /\ b.kind # "torn" /\ b.txn = t /\ b.kind # "commit"
  <2>1. b \in [kind : {"begin"}, txn : Nat]
    BY <1>0
  <2>2. b.kind = "begin" /\ b.txn = t
    BY <1>0
  <2> QED BY <2>1, <2>2 DEF TxnRecs
<1>13. e \in Disks
  <2>1. p \in Seq(TxnRecs \cup {Torn})
    BY <1>0, <1>4, <1>10, <1>12, AppendProperties
  <2>2. q \in Seq(NodeRecs \cup {Torn})
    <3>1. NodeRecords(t, w) \in Seq(NodeRecs \cup {Torn})
      BY <1>11, SeqMonotonic
    <3> QED BY <1>5, <1>10, <3>1, ConcatProperties
  <2>3. r \in Seq(EdgeRecs \cup {Torn})
    <3>1. EdgeDataRecords(t, w) \in Seq(EdgeRecs \cup {Torn})
      BY <1>11, SeqMonotonic
    <3> QED BY <1>6, <1>10, <3>1, ConcatProperties
  <2> QED BY <1>7, <2>1, <2>2, <2>3 DEF Disks
<1>14. MemOK(mem, c, t)
  BY <1>1, <1>8, <1>9 DEF MemOK
<1>15. ASSUME crashes < MaxCrashes
       PROVE  Safe(e, Settled, checkpoint, "up", mem, c, t, crashes)
  <2>1. Safe(disk, Settled, checkpoint, "up", mem, None, used, crashes)
    BY <1>1, <1>15
  <2>2. Size(disk.txn) = Len(disk.txn) /\ Size(disk.node) = Len(disk.node) /\ Size(disk.edge) = Len(disk.edge)
    BY <2>1, <1>15, SafeFacts DEF LogOK, Whole
  <2>3. Longer(disk.txn, p, t) /\ Len(p) = Len(disk.txn) + 1 /\ p[Len(disk.txn) + 1] = b /\ Len(disk.txn) \in Nat
    <3>1. b \in TxnRecs \cup {Torn}
      BY <1>12
    <3>2. p = Append(disk.txn, b)
      BY <1>0, <1>4
    <3>3. PICK S : S = TxnRecs \cup {Torn}
      OBVIOUS
    <3>4. disk.txn \in Seq(S) /\ b \in S /\ Size(disk.txn) = Len(disk.txn) /\ b.kind # "torn" /\ b.txn = t
      BY <2>2, <3>1, <3>3, <1>10, <1>12
    <3>5. PICK a : a = disk.txn
      OBVIOUS
    <3>6. Longer(a, Append(a, b), t) /\ Len(Append(a, b)) = Len(a) + 1 /\ Append(a, b)[Len(a) + 1] = b /\ Len(a) \in Nat
      BY ONLY <3>4, <3>5, Appended, LenProperties
    <3> QED BY <3>2, <3>5, <3>6
  <2>4. \A i \in Len(disk.txn) + 1 .. Len(p) : ~CommitAt(p, i)
    <3> TAKE i \in Len(disk.txn) + 1 .. Len(p)
    <3>1. i = Len(disk.txn) + 1
      BY <2>3
    <3> QED BY <3>1, <2>3, <1>12 DEF CommitAt
  <2>5. Longer(disk.node, q, t) /\ Between(q, Len(disk.node), Len(q)) = RecordsOf("node", t, w)
    <3>1. \A x \in Elements(NodeRecords(t, w)) : x.kind # "torn" /\ x.txn = t
      BY <1>11, RecordsShape
    <3> QED BY <3>1, <2>2, <1>5, <1>10, <1>11, DataGrown
  <2>6. Longer(disk.edge, r, t) /\ Between(r, Len(disk.edge), Len(r)) = RecordsOf("edge", t, w)
    <3>1. \A x \in Elements(EdgeDataRecords(t, w)) : x.kind # "torn" /\ x.txn = t
      BY <1>11, RecordsShape
    <3> QED BY <3>1, <2>2, <1>6, <1>10, <1>11, DataGrown
  <2>7. e.txn = p /\ e.node = q /\ e.edge = r
    BY <1>7
  <2>8. Grows(disk, e, used + 1)
    BY <1>2, <2>3, <2>5, <2>6, <2>7 DEF Grows
  <2>9. Safe(e, Settled, checkpoint, "up", mem, c, used + 1, crashes)
    BY <1>1, <1>2, <1>9, <1>13, <1>15, <2>1, <2>4, <2>5, <2>6, <2>7, <2>8, SafeBegin
  <2> QED BY <1>2, <2>9
<1>16. SegTypeOK'
  BY <1>1, <1>8, <1>9, <1>13 DEF SegTypeOK, SegInv
<1> QED BY <1>8, <1>14, <1>15, <1>16, SettledKept DEF SegInv, Exposed

\* syncDataSegments leaves out a segment only when the transaction has no
\* record there.
LEMMA NothingWritten ==
    ASSUME NEW t, NEW w \in WriteSets
    PROVE  /\ WrittenNodes(w) = {} => RecordsOf("node", t, w) = {}
           /\ WrittenEdges(w) = {} => RecordsOf("edge", t, w) = {}
<1>1. ASSUME WrittenNodes(w) = {} PROVE RecordsOf("node", t, w) = {}
  <2>1. {y \in Nodes : w.nodePuts[y] # None} = {} /\ w.nodeDeletes = {}
    BY <1>1 DEF WrittenNodes
  <2>2. PutsOf(t, Nodes, w.nodePuts) = {} /\ TombstonesOf(t, w.nodeDeletes) = {}
    BY <2>1 DEF PutsOf, TombstonesOf
  <2> QED BY <2>2 DEF RecordsOf
<1>2. ASSUME WrittenEdges(w) = {} PROVE RecordsOf("edge", t, w) = {}
  <2>1. {y \in Edges : w.edgePuts[y] # None} = {} /\ w.edgeDeletes = {}
    BY <1>2 DEF WrittenEdges
  <2>2. PutsOf(t, Edges, w.edgePuts) = {} /\ TombstonesOf(t, w.edgeDeletes) = {}
    BY <2>1 DEF PutsOf, TombstonesOf
  <2> QED BY <2>2 DEF RecordsOf
<1> QED BY <1>1, <1>2

\* CommitWithInfo going on to its next step.
LEMMA NextStep ==
    ASSUME NEW c \in InProgress, NEW s \in {"data", "commit", "sync"}, NEW b, b = [c EXCEPT !.step = s]
    PROVE  b \in InProgress /\ b # None /\ b.txn = c.txn /\ b.writes = c.writes /\ b.step = s
<1>1. b \in InProgress /\ b.txn = c.txn /\ b.writes = c.writes /\ b.step = s
  BY DEF InProgress
<1>2. b \in [txn : Nat, writes : WriteRecords, step : {"data", "commit", "sync"}]
  BY <1>1 DEF InProgress, WriteSets
<1> QED BY <1>1, <1>2, SegmentsAssumption

\* syncDataSegments keeps the invariant: it is what lets the commit record be
\* trusted.
LEMMA StepSync ==
    ASSUME SegInv, ~lost, SyncData
    PROVE  SegInv'
<1>1. /\ disk \in Disks /\ Settled \in Offsets /\ checkpoint \in Checkpoints \cup {None} /\ mem \in Stores
      /\ cur \in InProgress /\ used \in Nat /\ crashes \in Nat /\ MemOK(mem, cur, used) /\ cur # None /\ cur.step = "data"
      /\ status = "up"
      /\ crashes < MaxCrashes => Safe(disk, Settled, checkpoint, "up", mem, cur, used, crashes)
  BY ExposedUp DEF SyncData
<1>2. PICK b : b = [cur EXCEPT !.step = "commit"]
  OBVIOUS
<1>3. b \in InProgress /\ b # None /\ b.txn = cur.txn /\ b.writes = cur.writes /\ b.step = "commit"
  BY <1>1, <1>2, NextStep
<1>4. PICK y : y = DataSynced(cur.writes)
  OBVIOUS
<1>5. /\ cur' = b /\ synced' = y /\ disk' = disk /\ checkpoint' = checkpoint /\ status' = "up" /\ mem' = mem /\ used' = used
      /\ crashes' = crashes /\ found' = found /\ lost' = lost
  BY <1>1, <1>2, <1>4 DEF SyncData
<1>0. synced \in Offsets /\ found \in Offsets
  BY DEF SegInv, SegTypeOK
<1>6. /\ y \in Offsets /\ y.txn = synced.txn
      /\ y.node = (IF WrittenNodes(cur.writes) # {} THEN Len(disk.node) ELSE synced.node)
      /\ y.edge = (IF WrittenEdges(cur.writes) # {} THEN Len(disk.edge) ELSE synced.edge)
  <2>1. Len(disk.node) \in Nat /\ Len(disk.edge) \in Nat
    BY <1>1, SegmentsTyped
  <2> QED BY <2>1, <1>0, <1>4 DEF DataSynced, Offsets
<1>7. PICK z : z = Settled'
  OBVIOUS
<1>11. /\ z = [txn |-> More(y.txn, found.txn), node |-> More(y.node, found.node), edge |-> More(y.edge, found.edge)]
       /\ z \in Offsets
       /\ z.txn = More(y.txn, found.txn) /\ z.node = More(y.node, found.node) /\ z.edge = More(y.edge, found.edge)
  <2>1. z = [txn |-> More(y.txn, found.txn), node |-> More(y.node, found.node), edge |-> More(y.edge, found.edge)]
    BY <1>5, <1>7 DEF Settled
  <2>2. More(y.txn, found.txn) \in Nat /\ More(y.node, found.node) \in Nat /\ More(y.edge, found.edge) \in Nat
    BY <1>0, <1>6 DEF More, Offsets
  <2> QED BY <2>1, <2>2 DEF Offsets
<1>8. ASSUME crashes < MaxCrashes PROVE Safe(disk, z, checkpoint, "up", mem, b, used, crashes)
  <2>1. Safe(disk, Settled, checkpoint, "up", mem, cur, used, crashes)
    BY <1>1, <1>8
  <2>2. Settled.node <= Len(disk.node) /\ Settled.edge <= Len(disk.edge)
    BY <2>1, SafeFacts DEF SyncOK
  <2>3. Len(disk.node) \in Nat /\ Len(disk.edge) \in Nat
    BY <1>1, SegmentsTyped
  <2>4. synced.node \in Nat /\ found.node \in Nat /\ synced.edge \in Nat /\ found.edge \in Nat
    BY <1>0 DEF Offsets
  <2>5. More(Len(disk.node), found.node) = Len(disk.node) /\ More(Len(disk.edge), found.edge) = Len(disk.edge)
    <3>1. More(synced.node, found.node) <= Len(disk.node) /\ More(synced.edge, found.edge) <= Len(disk.edge)
      BY <2>2, <1>0, SettledTyped
    <3> QED BY <2>3, <2>4, <3>1, SettledEnd
  <2>6. z.txn = Settled.txn
    BY <1>0, <1>6, <1>11, SettledTyped
  <2>7. z.node = Len(disk.node) \/ (z.node = Settled.node /\ WrittenNodes(cur.writes) = {})
    BY <1>0, <1>6, <1>11, <2>5, SettledTyped
  <2>8. z.edge = Len(disk.edge) \/ (z.edge = Settled.edge /\ WrittenEdges(cur.writes) = {})
    BY <1>0, <1>6, <1>11, <2>5, SettledTyped
  <2>9. cur.writes \in WriteSets
    BY <1>1 DEF InProgress
  <2>10. /\ z.node = Len(disk.node) \/ (z.node = Settled.node /\ RecordsOf("node", cur.txn, cur.writes) = {})
         /\ z.edge = Len(disk.edge) \/ (z.edge = Settled.edge /\ RecordsOf("edge", cur.txn, cur.writes) = {})
    BY <2>7, <2>8, <2>9, NothingWritten
  <2> QED BY <1>1, <1>3, <1>8, <1>11, <2>1, <2>6, <2>10, SafeSync
<1>9. MemOK(mem, b, used)
  BY <1>1, <1>3 DEF MemOK
<1>10. SegTypeOK'
  BY <1>1, <1>3, <1>5, <1>6 DEF SegTypeOK, SegInv
<1> QED BY <1>5, <1>7, <1>8, <1>9, <1>10 DEF SegInv, Exposed

\* The commit record keeps the invariant.
LEMMA StepAppend ==
    ASSUME SegInv, ~lost, AppendCommit
    PROVE  SegInv'
<1>1. /\ disk \in Disks /\ Settled \in Offsets /\ checkpoint \in Checkpoints \cup {None} /\ mem \in Stores
      /\ cur \in InProgress /\ used \in Nat /\ crashes \in Nat /\ MemOK(mem, cur, used) /\ cur # None /\ cur.step = "commit"
      /\ status = "up"
      /\ crashes < MaxCrashes => Safe(disk, Settled, checkpoint, "up", mem, cur, used, crashes)
  BY ExposedUp DEF AppendCommit
<1>2. PICK b : b = [cur EXCEPT !.step = "sync"]
  OBVIOUS
<1>3. b \in InProgress /\ b # None /\ b.txn = cur.txn /\ b.writes = cur.writes /\ b.step = "sync"
  BY <1>1, <1>2, NextStep
<1>4. PICK r : r = [kind |-> "commit", txn |-> cur.txn, rev |-> mem.revision + 1]
  OBVIOUS
<1>5. PICK p : p = Append(disk.txn, r)
  OBVIOUS
<1>6. PICK e : e = [disk EXCEPT !.txn = p]
  OBVIOUS
<1>7. /\ cur' = b /\ disk' = e /\ synced' = synced /\ found' = found /\ lost' = lost /\ checkpoint' = checkpoint /\ status' = "up" /\ mem' = mem /\ used' = used
      /\ crashes' = crashes
  BY <1>1, <1>2, <1>4, <1>5, <1>6 DEF AppendCommit
<1>8. cur.txn = used /\ used \in Nat /\ used > 0
  <2>1. cur.txn \in Nat \ {0}
    BY <1>1 DEF InProgress
  <2>2. cur.txn = used
    BY <1>1 DEF MemOK
  <2> QED BY <2>1, <2>2
<1>9. /\ r \in TxnRecs /\ r.kind # "torn" /\ r.txn = used /\ r.kind = "commit" /\ r.rev = mem.revision + 1
  <2>1. r.kind = "commit" /\ r.txn = used /\ r.rev = mem.revision + 1
    BY <1>4, <1>8
  <2>2. mem.revision + 1 \in Nat
    BY <1>1 DEF Stores
  <2>3. r \in [kind : {"commit"}, txn : Nat, rev : Nat]
    BY <1>4, <1>8, <2>2
  <2> QED BY <2>1, <2>3 DEF TxnRecs
<1>10. disk.txn \in Seq(TxnRecs \cup {Torn}) /\ e.txn = p /\ e.node = disk.node /\ e.edge = disk.edge
  BY <1>1, <1>6 DEF Disks
<1>11. e \in Disks
  <2>1. p \in Seq(TxnRecs \cup {Torn})
    BY <1>5, <1>9, <1>10, AppendProperties
  <2> QED BY <2>1, <1>1, <1>6 DEF Disks
<1>12. ASSUME crashes < MaxCrashes
       PROVE  Safe(e, Settled, checkpoint, "up", mem, b, used, crashes)
  <2>1. Safe(disk, Settled, checkpoint, "up", mem, cur, used, crashes)
    BY <1>1, <1>12
  <2>2. Size(disk.txn) = Len(disk.txn)
    BY <2>1, <1>12, SafeFacts DEF LogOK, Whole
  <2>3. PICK S : S = TxnRecs \cup {Torn}
    OBVIOUS
  <2>4. PICK a : a = disk.txn
    OBVIOUS
  <2>5. a \in Seq(S) /\ r \in S /\ Size(a) = Len(a) /\ r.kind # "torn" /\ r.txn = used
    BY <2>2, <2>3, <2>4, <1>9, <1>10
  <2>6. Longer(a, Append(a, r), used) /\ Len(Append(a, r)) = Len(a) + 1 /\ Append(a, r)[Len(a) + 1] = r
    BY ONLY <2>5, Appended
  <2>7. Longer(disk.txn, e.txn, used) /\ Len(e.txn) = Len(disk.txn) + 1 /\ e.txn[Len(disk.txn) + 1] = r
    BY <2>4, <2>6, <1>5, <1>10
  <2>8. CommitAt(e.txn, Len(disk.txn) + 1) /\ e.txn[Len(disk.txn) + 1].rev = mem.revision + 1
    BY <2>7, <1>9 DEF CommitAt
  <2> QED BY <2>1, <2>7, <2>8, <1>1, <1>3, <1>8, <1>10, <1>11, <1>12, SafeAppend
<1>13. MemOK(mem, b, used)
  BY <1>1, <1>3 DEF MemOK
<1>14. SegTypeOK'
  BY <1>1, <1>3, <1>7, <1>11 DEF SegTypeOK, SegInv
<1> QED BY <1>7, <1>12, <1>13, <1>14, SettledKept DEF SegInv, Exposed

\* The sync of the commit record and the application in memory keep the
\* invariant.
LEMMA StepFinish ==
    ASSUME SegInv, ~lost, FinishCommit
    PROVE  SegInv'
<1>1. /\ disk \in Disks /\ Settled \in Offsets /\ checkpoint \in Checkpoints \cup {None} /\ mem \in Stores
      /\ cur \in InProgress /\ used \in Nat /\ crashes \in Nat /\ MemOK(mem, cur, used) /\ cur # None /\ cur.step = "sync"
      /\ status = "up"
      /\ crashes < MaxCrashes => Safe(disk, Settled, checkpoint, "up", mem, cur, used, crashes)
  BY ExposedUp DEF FinishCommit
<1>2. PICK w : w = cur.writes
  OBVIOUS
<1>3. w \in WriteSets /\ NoDanglingEdges(mem) /\ ParentIndexExact(mem) /\ ~InvariantConflict(mem, w)
  BY <1>1, <1>2 DEF InProgress, MemOK
<1>4. PICK a : a = ApplyWrites(mem, w)
  OBVIOUS
<1>5. PICK y : y = CommitSynced
  OBVIOUS
<1>6. /\ cur' = None /\ synced' = y /\ disk' = disk /\ checkpoint' = checkpoint /\ status' = "up" /\ mem' = a /\ used' = used
      /\ crashes' = crashes /\ found' = found /\ lost' = lost
  BY <1>1, <1>2, <1>4, <1>5 DEF FinishCommit
<1>0. synced \in Offsets /\ found \in Offsets
  BY DEF SegInv, SegTypeOK
<1>7. y \in Offsets /\ y.txn = Len(disk.txn) /\ y.node = synced.node /\ y.edge = synced.edge
  <2>1. Len(disk.txn) \in Nat
    BY <1>1, SegmentsTyped
  <2> QED BY <2>1, <1>0, <1>5 DEF CommitSynced, Offsets
<1>12. PICK z : z = Settled'
  OBVIOUS
<1>13. /\ z = [txn |-> More(y.txn, found.txn), node |-> More(y.node, found.node), edge |-> More(y.edge, found.edge)]
       /\ z \in Offsets
       /\ z.txn = More(y.txn, found.txn) /\ z.node = More(y.node, found.node) /\ z.edge = More(y.edge, found.edge)
  <2>1. z = [txn |-> More(y.txn, found.txn), node |-> More(y.node, found.node), edge |-> More(y.edge, found.edge)]
    BY <1>6, <1>12 DEF Settled
  <2>2. More(y.txn, found.txn) \in Nat /\ More(y.node, found.node) \in Nat /\ More(y.edge, found.edge) \in Nat
    BY <1>0, <1>7 DEF More, Offsets
  <2> QED BY <2>1, <2>2 DEF Offsets
<1>8. a \in Stores /\ NoDanglingEdges(a) /\ ParentIndexExact(a)
  BY <1>1, <1>3, <1>4, ApplyWritesType, CommitNoDangling, CommitParentIndex DEF InvariantConflict
<1>9. ASSUME crashes < MaxCrashes PROVE Safe(disk, z, checkpoint, "up", a, None, used, crashes)
  <2>1. Safe(disk, Settled, checkpoint, "up", mem, cur, used, crashes)
    BY <1>1, <1>9
  <2>2. Settled.txn <= Len(disk.txn)
    BY <2>1, SafeFacts DEF SyncOK
  <2>3. Len(disk.txn) \in Nat
    BY <1>1, SegmentsTyped
  <2>4. synced.txn \in Nat /\ found.txn \in Nat
    BY <1>0 DEF Offsets
  <2>5. More(Len(disk.txn), found.txn) = Len(disk.txn)
    <3>1. More(synced.txn, found.txn) <= Len(disk.txn)
      BY <2>2, <1>0, SettledTyped
    <3> QED BY <2>3, <2>4, <3>1, SettledEnd
  <2>6. z.txn = Len(disk.txn) /\ z.node = Settled.node /\ z.edge = Settled.edge
    BY <1>0, <1>7, <1>13, <2>5, SettledTyped
  <2> QED BY <1>1, <1>2, <1>3, <1>4, <1>9, <1>13, <2>1, <2>6, SafeFinish
<1>10. MemOK(a, None, used)
  BY <1>8 DEF MemOK
<1>11. SegTypeOK'
  BY <1>1, <1>6, <1>7, <1>8 DEF SegTypeOK, SegInv
<1> QED BY <1>6, <1>9, <1>10, <1>11, <1>12 DEF SegInv, Exposed

\* A commit given up with an error keeps the invariant: no commit record of it
\* is on disk.
LEMMA StepFail ==
    ASSUME SegInv, ~lost, LateFaults, FailCommit
    PROVE  SegInv'
<1>1. /\ disk \in Disks /\ Settled \in Offsets /\ checkpoint \in Checkpoints \cup {None} /\ mem \in Stores
      /\ cur \in InProgress /\ used \in Nat /\ crashes \in Nat /\ MemOK(mem, cur, used) /\ cur # None /\ status = "up"
      /\ crashes < MaxCrashes => Safe(disk, Settled, checkpoint, "up", mem, cur, used, crashes)
  BY ExposedUp DEF FailCommit
<1>2. cur.step # "sync" /\ crashes + 1 >= MaxCrashes
  BY DEF FailCommit, May, LateFaults
<1>3. /\ cur' = None /\ synced' = synced /\ found' = found /\ lost' = lost /\ disk' = disk /\ checkpoint' = checkpoint /\ status' = "up" /\ mem' = mem
      /\ used' = used /\ crashes' = crashes
  BY <1>1 DEF FailCommit
<1>4. ~(crashes + 1 < MaxCrashes)
  BY <1>1, <1>2, SegmentsAssumption
<1>5. crashes < MaxCrashes => Safe(disk, Settled, checkpoint, "up", mem, None, used, crashes)
  BY <1>1, <1>2, <1>4, SafeFail
<1>6. MemOK(mem, None, used)
  BY <1>1 DEF MemOK
<1>7. SegTypeOK'
  BY <1>1, <1>3 DEF SegTypeOK, SegInv
<1> QED BY <1>3, <1>5, <1>6, <1>7, SettledKept DEF SegInv, Exposed

\* WriteCheckpoint keeps the invariant: its offsets end the transactions it
\* holds.
LEMMA StepCheckpoint ==
    ASSUME SegInv, ~lost, WriteCheckpoint
    PROVE  SegInv'
<1>1. /\ disk \in Disks /\ Settled \in Offsets /\ checkpoint \in Checkpoints \cup {None} /\ mem \in Stores
      /\ used \in Nat /\ crashes \in Nat /\ MemOK(mem, None, used) /\ cur = None /\ status = "up"
      /\ crashes < MaxCrashes => Safe(disk, Settled, checkpoint, "up", mem, None, used, crashes)
  BY ExposedUp DEF WriteCheckpoint
<1>2. PICK b : b = [nodes |-> mem.nodes, edges |-> mem.edges, revision |-> mem.revision, offsets |-> CapturedOffsets]
  OBVIOUS
<1>3. /\ cur' = None /\ synced' = synced /\ found' = found /\ lost' = lost /\ disk' = disk /\ checkpoint' = b /\ status' = "up" /\ mem' = mem
      /\ used' = used /\ crashes' = crashes
  BY <1>1, <1>2 DEF WriteCheckpoint
<1>4. /\ b \in Checkpoints /\ b.nodes = mem.nodes /\ b.edges = mem.edges /\ b.revision = mem.revision
      /\ b.offsets.txn = Len(disk.txn) /\ b.offsets.node = Len(disk.node) /\ b.offsets.edge = Len(disk.edge)
  <2>1. Len(disk.txn) \in Nat /\ Len(disk.node) \in Nat /\ Len(disk.edge) \in Nat
    BY <1>1, SegmentsTyped
  <2>2. CapturedOffsets = [txn |-> Len(disk.txn), node |-> Len(disk.node), edge |-> Len(disk.edge)]
    BY DEF CapturedOffsets, Kinds
  <2>3. CapturedOffsets \in Offsets
    BY <2>1, <2>2 DEF Offsets
  <2> QED BY <2>2, <2>3, <1>1, <1>2 DEF Checkpoints, Stores
<1>5. ParentIndexExact(mem)
  BY <1>1 DEF MemOK
<1>6. crashes < MaxCrashes => Safe(disk, Settled, b, "up", mem, None, used, crashes)
  BY <1>1, <1>4, <1>5, SafeCheckpoint
<1>7. SegTypeOK'
  BY <1>1, <1>3, <1>4 DEF SegTypeOK, SegInv
<1> QED BY <1>1, <1>3, <1>6, <1>7, SettledKept DEF SegInv, Exposed

\* OpenWithOptions after a crash succeeds and keeps the invariant.
LEMMA StepOpen ==
    ASSUME SegInv, ~lost, Open
    PROVE  SegInv'
<1>1. /\ disk \in Disks /\ Settled \in Offsets /\ checkpoint \in Checkpoints \cup {None} /\ mem \in Stores
      /\ cur \in InProgress \cup {None} /\ used \in Nat /\ crashes \in Nat /\ MemOK(mem, cur, used) /\ status = "down"
      /\ Safe(disk, Settled, checkpoint, "down", mem, cur, used, crashes)
  <2>1. Settled \in Offsets
    BY SettledTyped DEF SegInv, SegTypeOK
  <2> QED BY <2>1, SegmentsAssumption DEF SegInv, SegTypeOK, Exposed, Open
<1>2. /\ synced' = synced /\ found' = found /\ lost' = lost /\ disk' = disk /\ checkpoint' = checkpoint /\ used' = used /\ crashes' = crashes
  BY DEF Open
<1>0. PICK b \in {checkpoint, None} : \E o \in Reopened(disk, b) :
        \/ o.ok /\ status' = "up" /\ mem' = o.store /\ cur' = None
        \/ ~o.ok /\ status' = "failed" /\ mem' = mem /\ cur' = cur
  BY DEF Open
<1>3. PICK o \in Reopened(disk, b) :
        \/ o.ok /\ status' = "up" /\ mem' = o.store /\ cur' = None
        \/ ~o.ok /\ status' = "failed" /\ mem' = mem /\ cur' = cur
  BY <1>0
<1>4. PICK r : r = Recovered(disk, b)
  OBVIOUS
<1>5. o = [ok |-> TRUE, store |-> r] /\ r \in Stores /\ AtomicView(r) = AtomicView(Survivor(mem, cur, disk))
  BY <1>1, <1>4, ReopensTo
<1>6. o.ok /\ o.store = r
  BY <1>5
<1>7. status' = "up" /\ mem' = r /\ cur' = None
  BY <1>3, <1>6
<1>8. Safe(disk, Settled, checkpoint, "up", r, None, used, crashes) /\ MemOK(r, None, used)
  BY <1>1, <1>5, SafeOpen
<1>9. SegTypeOK'
  BY <1>1, <1>2, <1>5, <1>7 DEF SegTypeOK, SegInv
<1> QED BY <1>2, <1>7, <1>8, <1>9, SettledKept DEF SegInv, Exposed

\* What a crash leaves of one segment.
Left(p, n, torn) == {SubSeq(p, 1, i) : i \in n .. Len(p)}
                    \cup (IF torn THEN {Append(SubSeq(p, 1, i), Torn) : i \in n .. Len(p) - 1} ELSE {})

\* No more is cut off than what was not synced.
LEMMA RemainsWithin ==
    ASSUME NEW k, NEW power \in BOOLEAN, NEW torn, torn <=> May("torn"), synced[k] \in Nat, Len(disk[k]) \in Nat
    PROVE  Remains(k, power) \subseteq Left(disk[k], synced[k], torn)
<1> SUFFICES ASSUME NEW q \in Remains(k, power) PROVE q \in Left(disk[k], synced[k], torn)
  OBVIOUS
<1>1. Staying(k, power) \subseteq synced[k] .. Len(disk[k])
  BY DEF Staying
<1>2. PICK n \in Nat, l \in Nat : n = synced[k] /\ l = Len(disk[k])
  OBVIOUS
<1>3. \A i \in n .. l : i # l => i \in n .. l - 1
  OBVIOUS
<1>4. CASE q \in {SubSeq(disk[k], 1, i) : i \in Staying(k, power)}
  BY <1>1, <1>4 DEF Left
<1>5. CASE torn /\ q \in {Append(SubSeq(disk[k], 1, i), Torn) : i \in Staying(k, power) \ {Len(disk[k])}}
  BY <1>1, <1>2, <1>3, <1>5 DEF Left
<1> QED BY <1>4, <1>5 DEF Remains

\* What a crash leaves of one segment, when it leaves the records found there.
LEMMA RemainsOf ==
    ASSUME NEW S, NEW p \in Seq(S), NEW u, WholeBut(p, u), Size(p) = Len(p), NEW n \in Nat, Torn \in S, NEW torn \in BOOLEAN,
           NEW m \in Nat, More(n, m) <= Len(p), NEW q \in Left(p, n, torn), IsPrefix(SubSeq(p, 1, m), q)
    PROVE  q \in Seq(S) /\ CutAt(p, q, More(n, m)) /\ (~torn => Size(q) = Len(q))
<1>0. PICK l \in Nat : l = Len(p)
  BY LenProperties
<1>3. m <= l /\ n <= l /\ More(n, m) \in {n, m}
  BY <1>0 DEF More
<1>4. Len(SubSeq(p, 1, m)) = m /\ \A j \in 1 .. m : SubSeq(p, 1, m)[j] = p[j]
  BY <1>0, <1>3, PrefixOf
<1>5. m <= Len(q) /\ SubSeq(SubSeq(p, 1, m), 1, m) = SubSeq(q, 1, m)
  BY <1>4 DEF IsPrefix
<1>1. CASE q \in {SubSeq(p, 1, i) : i \in n .. Len(p)}
  <2>1. PICK i \in n .. Len(p) : q = SubSeq(p, 1, i)
    BY <1>1
  <2>2. i \in Nat /\ i <= Len(p)
    BY <1>0, <2>1
  <2>3. Len(q) = i
    BY <2>1, <2>2, PrefixOf
  <2>4. i \in More(n, m) .. Len(p) /\ More(n, m) \in Nat
    BY <1>0, <1>3, <1>5, <2>1, <2>2, <2>3
  <2> QED BY <2>1, <2>4, CutOf
<1>2. CASE torn /\ q \in {Append(SubSeq(p, 1, i), Torn) : i \in n .. Len(p) - 1}
  <2>1. PICK i \in n .. Len(p) - 1 : q = Append(SubSeq(p, 1, i), Torn)
    BY <1>2
  <2>2. i \in Nat /\ i <= Len(p) /\ i < l
    BY <1>0, <2>1
  <2>3. PICK r : r = SubSeq(p, 1, i)
    OBVIOUS
  <2>4. r \in Seq(S) /\ Len(r) = i
    BY <2>2, <2>3, PrefixOf
  <2>5. q \in Seq(S) /\ Len(q) = i + 1 /\ q[i + 1] = Torn
    BY <2>1, <2>3, <2>4, AppendProperties
  <2>6. m <= i
    <3> SUFFICES ASSUME m > i PROVE FALSE
      BY <2>2
    <3>1. m = i + 1 /\ m \in 1 .. m /\ m \in 1 .. l
      BY <1>3, <1>5, <2>2, <2>5
    <3>2. p[m].kind # "torn"
      BY <3>1, <1>0 DEF WholeBut
    <3>3. PICK a : a = SubSeq(p, 1, m)
      OBVIOUS
    <3>4. a \in Seq(S) /\ Len(a) = m /\ \A j \in 1 .. m : a[j] = p[j]
      BY <1>0, <1>3, <3>3, PrefixOf
    <3>5. \A j \in 1 .. m : SubSeq(a, 1, m)[j] = a[j]
      <4>1. m <= Len(a)
        BY <3>4
      <4> QED BY <3>4, <4>1, PrefixOf
    <3>6. \A j \in 1 .. m : SubSeq(q, 1, m)[j] = q[j]
      <4>1. m <= Len(q)
        BY <1>5
      <4> QED BY <2>5, <4>1, PrefixOf
    <3>7. SubSeq(a, 1, m) = SubSeq(q, 1, m)
      BY <1>5, <3>3
    <3>8. p[m] = Torn
      BY <2>5, <3>1, <3>4, <3>5, <3>6, <3>7
    <3> QED BY <3>2, <3>8 DEF Torn
  <2>7. i \in More(n, m) .. Len(p) - 1 /\ More(n, m) \in Nat
    BY <1>0, <1>3, <2>1, <2>2, <2>6
  <2> QED BY <2>1, <2>7, <1>2, CutTorn
<1> QED BY <1>1, <1>2 DEF Left

\* What a crash leaves of the three.
LEMMA CrashStep ==
    ASSUME SegInv, ~lost, ~lost', LateFaults, NEW power \in BOOLEAN, Crash(power)
    PROVE  \E e \in Disks, y \in Offsets :
              /\ disk' = e /\ Settled' = y /\ synced' \in Offsets /\ found' \in Offsets
              /\ CutAt(disk.txn, e.txn, Settled.txn) /\ CutAt(disk.node, e.node, Settled.node) /\ CutAt(disk.edge, e.edge, Settled.edge)
              /\ crashes + 1 < MaxCrashes => Whole(e)
              /\ y.txn = Len(e.txn) /\ y.node = Len(e.node) /\ y.edge = Len(e.edge)
<1>1. /\ disk \in Disks /\ Settled \in Offsets /\ used \in Nat /\ crashes \in Nat
      /\ Safe(disk, Settled, checkpoint, "up", mem, cur, used, crashes) /\ crashes < MaxCrashes
  BY ExposedUp DEF Crash
<1>0. synced \in Offsets /\ found \in Offsets
  BY DEF SegInv, SegTypeOK
<1>2. LogOK(disk, mem, cur, used, "up", crashes)
  BY <1>1, SafeFacts
<1>3. /\ WholeBut(disk.txn, used) /\ WholeBut(disk.node, used) /\ WholeBut(disk.edge, used)
      /\ Size(disk.txn) = Len(disk.txn) /\ Size(disk.node) = Len(disk.node) /\ Size(disk.edge) = Len(disk.edge)
  BY <1>1, <1>2 DEF LogOK, Whole, Orderly
<1>4. PICK torn \in BOOLEAN : torn <=> May("torn")
  OBVIOUS
<1>5. ASSUME crashes + 1 < MaxCrashes PROVE ~torn
  <2>1. May("torn") => crashes + 1 >= MaxCrashes
    BY DEF May, LateFaults
  <2>2. ~(crashes + 1 >= MaxCrashes)
    BY <1>1, <1>5, SegmentsAssumption
  <2> QED BY <1>4, <2>1, <2>2
<1>6. PICK t \in Remains("txn", power), n \in Remains("node", power), k \in Remains("edge", power) :
          disk' = [txn |-> t, node |-> n, edge |-> k]
  BY DEF Crash
<1>7. PICK yt \in Nat, yn \in Nat, ye \in Nat : yt = synced.txn /\ yn = synced.node /\ ye = synced.edge
  BY <1>0 DEF Offsets
<1>23. PICK ft \in Nat, fn \in Nat, fe \in Nat : ft = found.txn /\ fn = found.node /\ fe = found.edge
  BY <1>0 DEF Offsets
<1>24. Settled.txn = More(yt, ft) /\ Settled.node = More(yn, fn) /\ Settled.edge = More(ye, fe)
  BY <1>0, <1>7, <1>23, SettledTyped
<1>8. PICK A, B, C : A = TxnRecs \cup {Torn} /\ B = NodeRecs \cup {Torn} /\ C = EdgeRecs \cup {Torn}
  OBVIOUS
<1>9. PICK p, q, r : p = disk.txn /\ q = disk.node /\ r = disk.edge
  OBVIOUS
<1>10. p \in Seq(A) /\ q \in Seq(B) /\ r \in Seq(C) /\ Torn \in A /\ Torn \in B /\ Torn \in C
  BY <1>1, <1>8, <1>9 DEF Disks
<1>11. t \in Left(p, yt, torn) /\ n \in Left(q, yn, torn) /\ k \in Left(r, ye, torn)
  <2>0. Len(disk["txn"]) \in Nat /\ Len(disk["node"]) \in Nat /\ Len(disk["edge"]) \in Nat
    BY <1>1, SegmentsTyped
  <2>1. Remains("txn", power) \subseteq Left(disk["txn"], synced["txn"], torn)
    BY <1>4, <1>7, <2>0, RemainsWithin
  <2>2. Remains("node", power) \subseteq Left(disk["node"], synced["node"], torn)
    BY <1>4, <1>7, <2>0, RemainsWithin
  <2>3. Remains("edge", power) \subseteq Left(disk["edge"], synced["edge"], torn)
    BY <1>4, <1>7, <2>0, RemainsWithin
  <2> QED BY <2>1, <2>2, <2>3, <1>6, <1>7, <1>9
<1>22. WholeBut(p, used) /\ WholeBut(q, used) /\ WholeBut(r, used) /\ Size(p) = Len(p) /\ Size(q) = Len(q) /\ Size(r) = Len(r)
  BY <1>3, <1>9
<1>25. More(yt, ft) <= Len(p) /\ More(yn, fn) <= Len(q) /\ More(ye, fe) <= Len(r)
  BY <1>1, <1>9, <1>24, SafeFacts DEF SyncOK
<1>26. IsPrefix(SubSeq(p, 1, ft), t) /\ IsPrefix(SubSeq(q, 1, fn), n) /\ IsPrefix(SubSeq(r, 1, fe), k)
  <2>0. PICK e : e = disk'
    OBVIOUS
  <2>1. \A j \in Kinds : IsPrefix(SubSeq(disk[j], 1, found[j]), e[j])
    BY <2>0 DEF Crash
  <2>2. e["txn"] = t /\ e["node"] = n /\ e["edge"] = k
    BY <2>0, <1>6
  <2>3. "txn" \in Kinds /\ "node" \in Kinds /\ "edge" \in Kinds
    BY DEF Kinds
  <2> HIDE DEF Kinds
  <2>4. /\ IsPrefix(SubSeq(disk["txn"], 1, found["txn"]), t) /\ IsPrefix(SubSeq(disk["node"], 1, found["node"]), n)
        /\ IsPrefix(SubSeq(disk["edge"], 1, found["edge"]), k)
    BY <2>1, <2>2, <2>3
  <2> QED BY <2>4, <1>9, <1>23
<1>12. t \in Seq(A) /\ CutAt(p, t, More(yt, ft)) /\ (~torn => Size(t) = Len(t))
  BY <1>10, <1>11, <1>22, <1>25, <1>26, RemainsOf
<1>13. n \in Seq(B) /\ CutAt(q, n, More(yn, fn)) /\ (~torn => Size(n) = Len(n))
  BY <1>10, <1>11, <1>22, <1>25, <1>26, RemainsOf
<1>14. k \in Seq(C) /\ CutAt(r, k, More(ye, fe)) /\ (~torn => Size(k) = Len(k))
  BY <1>10, <1>11, <1>22, <1>25, <1>26, RemainsOf
<1>15. PICK e : e = [txn |-> t, node |-> n, edge |-> k]
  OBVIOUS
<1>16. e \in Disks /\ e.txn = t /\ e.node = n /\ e.edge = k /\ disk' = e
  BY <1>6, <1>8, <1>12, <1>13, <1>14, <1>15 DEF Disks
<1>17. PICK y : y = [txn |-> Len(t), node |-> Len(n), edge |-> Len(k)]
  OBVIOUS
<1>27. PICK lt \in Nat, ln \in Nat, le \in Nat : lt = Len(t) /\ ln = Len(n) /\ le = Len(k)
  BY <1>12, <1>13, <1>14, LenProperties
<1>18. y \in Offsets /\ y.txn = Len(t) /\ y.node = Len(n) /\ y.edge = Len(k)
  BY <1>17, <1>27 DEF Offsets
<1>19. found' = y /\ synced' \in {synced, y}
  <2>1. found' = [j \in Kinds |-> Len(e[j])] /\ synced' \in {synced, [j \in Kinds |-> Len(e[j])]}
    BY <1>16 DEF Crash
  <2>2. e["txn"] = t /\ e["node"] = n /\ e["edge"] = k
    BY <1>15
  <2>3. y = [j \in Kinds |-> Len(e[j])]
    BY <2>2, <1>17 DEF Kinds
  <2> QED BY <2>1, <2>3
<1>28. yt <= lt /\ yn <= ln /\ ye <= le
  <2>1. Size(t) <= lt /\ Size(n) <= ln /\ Size(k) <= le /\ Size(t) \in Nat /\ Size(n) \in Nat /\ Size(k) \in Nat
    BY <1>12, <1>13, <1>14, <1>27, SizeOf
  <2>2. More(yt, ft) <= Size(t) /\ More(yn, fn) <= Size(n) /\ More(ye, fe) <= Size(k)
    BY <1>12, <1>13, <1>14, <2>1 DEF CutAt, More
  <2> QED BY <2>1, <2>2 DEF More
<1>29. Settled' = y
  <2>1. PICK g, h : g = synced' /\ h = found'
    OBVIOUS
  <2>2. Settled' = [txn |-> More(g.txn, h.txn), node |-> More(g.node, h.node), edge |-> More(g.edge, h.edge)]
    BY <2>1 DEF Settled
  <2>3. h.txn = lt /\ h.node = ln /\ h.edge = le
    BY <1>18, <1>19, <1>27, <2>1
  <2>4. g.txn \in {yt, lt} /\ g.node \in {yn, ln} /\ g.edge \in {ye, le}
    BY <1>7, <1>18, <1>19, <1>27, <2>1
  <2>5. More(g.txn, h.txn) = lt /\ More(g.node, h.node) = ln /\ More(g.edge, h.edge) = le
    BY <1>28, <2>3, <2>4 DEF More
  <2> QED BY <2>2, <2>5, <1>17, <1>27
<1>20. crashes + 1 < MaxCrashes => Whole(e)
  BY <1>5, <1>12, <1>13, <1>14, <1>16 DEF Whole
<1>21. CutAt(disk.txn, e.txn, Settled.txn) /\ CutAt(disk.node, e.node, Settled.node) /\ CutAt(disk.edge, e.edge, Settled.edge)
  BY <1>9, <1>12, <1>13, <1>14, <1>16, <1>24
<1> QED BY <1>0, <1>16, <1>18, <1>19, <1>20, <1>21, <1>29

\* A crash that takes nothing that was found keeps the invariant, and no
\* acknowledged commit is lost by it.
LEMMA StepCrash ==
    ASSUME SegInv, ~lost, ~lost', LateFaults, NEW power \in BOOLEAN, Crash(power)
    PROVE  SegInv' /\ Done(disk', cur') = Done(disk, cur)
<1>1. /\ disk \in Disks /\ Settled \in Offsets /\ checkpoint \in Checkpoints \cup {None} /\ mem \in Stores
      /\ cur \in InProgress \cup {None} /\ used \in Nat /\ crashes \in Nat /\ MemOK(mem, cur, used)
      /\ Safe(disk, Settled, checkpoint, "up", mem, cur, used, crashes) /\ crashes < MaxCrashes
  BY ExposedUp DEF Crash
<1>2. /\ checkpoint' = checkpoint /\ used' = used /\ cur' = cur /\ mem' = mem /\ status' = "down" /\ crashes' = crashes + 1
  BY DEF Crash
<1>3. PICK e \in Disks, y \in Offsets :
              /\ disk' = e /\ Settled' = y /\ synced' \in Offsets /\ found' \in Offsets
              /\ CutAt(disk.txn, e.txn, Settled.txn) /\ CutAt(disk.node, e.node, Settled.node) /\ CutAt(disk.edge, e.edge, Settled.edge)
              /\ crashes + 1 < MaxCrashes => Whole(e)
              /\ y.txn = Len(e.txn) /\ y.node = Len(e.node) /\ y.edge = Len(e.edge)
  BY CrashStep
<1>4. Safe(e, y, checkpoint, "down", mem, cur, used, crashes + 1) /\ Done(e, cur) = Done(disk, cur)
  BY <1>1, <1>3, SafeCrash
<1>5. crashes + 1 \in 0 .. MaxCrashes
  BY <1>1, SegmentsAssumption
<1>6. SegTypeOK'
  BY <1>1, <1>2, <1>3, <1>5 DEF SegTypeOK, SegInv
<1> QED BY <1>1, <1>2, <1>3, <1>4, <1>6 DEF SegInv, Exposed

\* A step that changes nothing keeps the invariant.
LEMMA StepNothing ==
    ASSUME SegInv, ~lost, UNCHANGED vars
    PROVE  SegInv'
BY SettledKept DEF SegInv, SegTypeOK, Exposed, vars

\* What was taken stays taken.
LEMMA LostStays ==
    ASSUME [Next]_vars, ~lost'
    PROVE  ~lost
BY DEF Next, vars, BeginCommit, SyncData, AppendCommit, FinishCommit, FailCommit, WriteCheckpoint, Open, Crash

\* Every step keeps the invariant.
LEMMA SegStep ==
    ASSUME SegInv, LateFaults, [Next]_vars
    PROVE  SegInv'
<1> SUFFICES ASSUME ~lost' PROVE SegInv'
  BY DEF SegInv
<1> ~lost
  BY LostStays
<1>1. CASE \E w \in WriteSets : BeginCommit(w)
  BY <1>1, StepBegin
<1>2. CASE SyncData
  BY <1>2, StepSync
<1>3. CASE AppendCommit
  BY <1>3, StepAppend
<1>4. CASE FinishCommit
  BY <1>4, StepFinish
<1>5. CASE FailCommit
  BY <1>5, StepFail
<1>6. CASE WriteCheckpoint
  BY <1>6, StepCheckpoint
<1>7. CASE Open
  BY <1>7, StepOpen
<1>8. CASE \E power \in BOOLEAN : Crash(power)
  BY <1>8, StepCrash
<1>9. CASE UNCHANGED vars
  BY <1>9, StepNothing
<1> QED BY <1>1, <1>2, <1>3, <1>4, <1>5, <1>6, <1>7, <1>8, <1>9 DEF Next

\* The invariant of the files: until a power loss takes records that an
\* incarnation had found, and while a crash is to come or the store is down,
\* the commit records on disk are those of the acknowledged commits and at
\* most the one in progress, their data records are synced before them, and
\* replay, from the checkpoint as from the start, gives the graph in memory.
THEOREM SegmentsInvariant ==
    ASSUME LateFaults
    PROVE  Spec => []SegInv
<1>1. Init => SegInv
  BY InitSegInv
<1>2. SegInv /\ [Next]_vars => SegInv'
  BY SegStep
<1> QED BY <1>1, <1>2, PTL DEF Spec

\* What the invariant says of a store that is down.
LEMMA DownSafe ==
    ASSUME SegInv, ~lost, status = "down"
    PROVE  /\ disk \in Disks /\ checkpoint \in Checkpoints \cup {None} /\ mem \in Stores /\ cur \in InProgress \cup {None}
           /\ used \in Nat /\ MemOK(mem, cur, used)
           /\ Safe(disk, Settled, checkpoint, status, mem, cur, used, crashes)
BY DEF SegInv, SegTypeOK, Exposed

\* The graph of a store that is down is the survivor's.
LEMMA DownGraph ==
    ASSUME SegInv, ~lost, status = "down"
    PROVE  Graph = AtomicView(Survivor(mem, cur, disk))
<1>1. CommitOnDisk <=> cur # None /\ cur.txn \in Comm(disk)
  BY DownSafe, CommitShown
<1> QED BY <1>1 DEF Graph, Survivor

\* On such files open shows exactly the acknowledged commits, and the one cut
\* off as a whole or not at all.
LEMMA InvRecovers == SegInv => RecoveryExact
<1> SUFFICES ASSUME SegInv, ~lost, status = "down", NEW b \in {checkpoint, None}, NEW o \in Reopened(disk, b)
             PROVE  o.ok /\ AtomicView(o.store) = Graph
  BY DEF RecoveryExact
<1>1. PICK r : r = Recovered(disk, b)
  OBVIOUS
<1>0. /\ disk \in Disks /\ checkpoint \in Checkpoints \cup {None} /\ mem \in Stores /\ cur \in InProgress \cup {None}
      /\ used \in Nat /\ MemOK(mem, cur, used)
      /\ Safe(disk, Settled, checkpoint, status, mem, cur, used, crashes)
  BY DownSafe
<1>5. /\ Reopened(disk, b) = {[ok |-> TRUE, store |-> Recovered(disk, b)]}
      /\ AtomicView(Recovered(disk, b)) = AtomicView(Survivor(mem, cur, disk))
  BY <1>0, ReopensTo
<1>2. o = [ok |-> TRUE, store |-> r] /\ AtomicView(r) = AtomicView(Survivor(mem, cur, disk))
  BY <1>1, <1>5
<1>3. o.ok /\ o.store = r
  BY <1>2
<1> QED BY <1>2, <1>3, DownGraph

\* On such files an entity replayed from a checkpoint never looks older than
\* replayed from the start.
LEMMA InvModRevisions == SegInv => ModRevisionsKept
<1> SUFFICES ASSUME SegInv, ~lost, status = "down", NEW o \in Reopened(disk, checkpoint), NEW p \in FullReplay(disk)
             PROVE  /\ \A n \in Nodes : o.store.nodes[n] # None => o.store.nodeMod[n] >= p.store.nodeMod[n]
                    /\ \A e \in Edges : o.store.edges[e] # None => o.store.edgeMod[e] >= p.store.edgeMod[e]
  BY DEF ModRevisionsKept
<1>1. PICK a, b : a = Recovered(disk, checkpoint) /\ b = Full(disk, Comm(disk))
  OBVIOUS
<1>2. o.store = a
  <2>1. o = [ok |-> TRUE, store |-> a]
    BY <1>1, DownSafe, ReopensTo
  <2> QED BY <2>1
<1>3. p.store = b
  <2>1. Orderly(disk, used)
    BY DownSafe, SafeFacts DEF LogOK
  <2>2. p = [ok |-> TRUE, store |-> b]
    BY <2>1, <1>1, DownSafe, FullReplayIs DEF Full
  <2> QED BY <2>2
<1>4. ImageOK(disk, Survivor(mem, cur, disk), Comm(disk), checkpoint)
  BY DownSafe, Survives
<1>5. NotOlder(a, b)
  <2>1. CASE checkpoint # None
    BY <2>1, <1>1, <1>4 DEF ImageOK, Recovered, Part
  <2>2. CASE checkpoint = None
    <3>1. a = b
      BY <2>2, <1>1 DEF Recovered, Full
    <3>2. b \in Stores
      <4>1. Recovered(disk, None) \in Stores
        BY DownSafe, ReopensTo
      <4> QED BY <4>1, <2>2, <3>1, <1>1
    <3>3. (\A n \in Nodes : b.nodeMod[n] \in Nat) /\ (\A e \in Edges : b.edgeMod[e] \in Nat)
      BY <3>2 DEF Stores
    <3>4. (\A n \in Nodes : b.nodeMod[n] >= b.nodeMod[n]) /\ (\A e \in Edges : b.edgeMod[e] >= b.edgeMod[e])
      BY <3>3
    <3> QED BY <3>1, <3>4 DEF NotOlder
  <2> QED BY <2>1, <2>2
<1> QED BY <1>2, <1>3, <1>5 DEF NotOlder

\* OpenWithOptions after a crash succeeds and shows exactly the acknowledged
\* commits, and the one that was cut off as a whole or not at all, from the
\* checkpoint as from the segments alone: for any nodes, edges, values,
\* transactions, kills and power losses, with faults only in the last
\* incarnation a crash ends, and until a power loss takes records that an
\* incarnation had found, which open (store.go) shows without a sync.
THEOREM RecoveryShowsGraph ==
    ASSUME LateFaults
    PROVE  Spec => []RecoveryExact
BY SegmentsInvariant, InvRecovers, PTL

\* Opening from a checkpoint never makes a live entity look older than its
\* last commit to writeSetConflict, under the same conditions.
THEOREM RevisionsNotOlder ==
    ASSUME LateFaults
    PROVE  Spec => []ModRevisionsKept
BY SegmentsInvariant, InvModRevisions, PTL

-----------------------------------------------------------------------------
(* The refinement.                                                         *)

\* A commit that invariantConflict lets pass is a commit of AtomicGraph.
LEMMA CommitStep ==
    ASSUME NEW m, NEW w \in WriteSets, w # NoWrites, ~InvariantConflict(m, w),
           Graph = AtomicView(m), Graph' = AtomicView(ApplyWrites(m, w))
    PROVE  Atomic!Next
<1>1. PICK g, h : g = Graph /\ h = Graph'
  OBVIOUS
<1>2. g.nodes = m.nodes /\ g.edges = m.edges /\ g.parent = m.parent /\ g.revision = m.revision
  BY <1>1 DEF AtomicView
<1>3. AtomicView(g) = AtomicView(m)
  BY <1>2 DEF AtomicView
<1>4. ~InvariantConflict(g, w)
  BY <1>3, ViewShape
<1>5. h = [nodes |-> ApplyNodes(m, w), edges |-> ApplyEdges(m, w), parent |-> ApplyParents(m, w), revision |-> m.revision + 1]
  BY <1>1 DEF AtomicView, ApplyWrites
<1>6. ApplyNodes(m, w) = ApplyNodes(g, w)
  BY <1>2 DEF ApplyNodes
<1>7. ApplyEdges(m, w) = ApplyEdges(g, w)
  BY <1>2 DEF ApplyEdges
<1>8. ApplyParents(m, w) = ApplyParents(g, w)
  BY <1>2 DEF ApplyParents
<1>9. h = [nodes |-> ApplyNodes(g, w), edges |-> ApplyEdges(g, w), parent |-> ApplyParents(g, w), revision |-> g.revision + 1]
  BY <1>2, <1>5, <1>6, <1>7, <1>8
<1>10. h.revision = g.revision + 1
  BY <1>9
<1>11. Atomic!WriteSets = WriteSets /\ Atomic!NoWrites = NoWrites
  BY DEF Atomic!WriteSets, WriteSets, Atomic!WriteRecords, WriteRecords, Atomic!EdgeRecords, EdgeRecords, Atomic!NoWrites, NoWrites
<1>12. Atomic!InvariantConflict(g, w) <=> InvariantConflict(g, w)
  <2>1. Atomic!EndpointConflict(g, w) <=> EndpointConflict(g, w)
    BY DEF Atomic!EndpointConflict, EndpointConflict, Atomic!Incident, Incident
  <2>2. Atomic!ParentConflict(g, w) <=> ParentConflict(g, w)
    BY DEF Atomic!ParentConflict, ParentConflict
  <2>3. Atomic!DeleteConflict(g, w) <=> DeleteConflict(g, w)
    BY DEF Atomic!DeleteConflict, DeleteConflict, Atomic!Incident, Incident
  <2> QED BY <2>1, <2>2, <2>3 DEF Atomic!InvariantConflict, InvariantConflict
<1>13. Atomic!ApplyNodes(g, w) = ApplyNodes(g, w)
  BY DEF Atomic!ApplyNodes, ApplyNodes
<1>14. Atomic!ApplyEdges(g, w) = ApplyEdges(g, w)
  BY DEF Atomic!ApplyEdges, ApplyEdges
<1>15. Atomic!ApplyParents(g, w) = ApplyParents(g, w)
  BY DEF Atomic!ApplyParents, ApplyParents, Atomic!NewParents, NewParents, Atomic!WrittenEdges, WrittenEdges
<1>16. Atomic!Commit(w)
  BY <1>1, <1>4, <1>9, <1>11, <1>12, <1>13, <1>14, <1>15 DEF Atomic!Commit
<1> QED BY <1>1, <1>10, <1>11, <1>16 DEF Atomic!Next

\* The graph of a store that is up is the one in memory.
LEMMA UpGraph ==
    ASSUME status = "up"
    PROVE  Graph = AtomicView(mem)
BY DEF Graph

\* The acknowledgement of CommitWithInfo is a commit of AtomicGraph.
LEMMA FinishImplements ==
    ASSUME SegInv, ~lost, FinishCommit
    PROVE  Atomic!Next
<1>1. cur \in InProgress /\ MemOK(mem, cur, used) /\ cur # None /\ status = "up" /\ status' = "up"
      /\ mem' = ApplyWrites(mem, cur.writes)
  BY DEF FinishCommit, SegInv, SegTypeOK
<1>2. cur.writes \in WriteSets /\ cur.writes # NoWrites /\ ~InvariantConflict(mem, cur.writes)
  BY <1>1 DEF InProgress, MemOK
<1>3. Graph = AtomicView(mem) /\ Graph' = AtomicView(mem')
  BY <1>1 DEF Graph
<1> QED BY <1>1, <1>2, <1>3, CommitStep

\* A crash leaves the graph as it is, or is the commit of the transaction
\* whose commit record it leaves.
LEMMA CrashImplements ==
    ASSUME SegInv, ~lost, LateFaults, NEW power \in BOOLEAN, Crash(power)
    PROVE  Atomic!Next \/ Graph' = Graph
<1>1. /\ disk \in Disks /\ cur \in InProgress \cup {None} /\ MemOK(mem, cur, used) /\ status = "up" /\ status' = "down"
      /\ mem' = mem /\ cur' = cur
  BY DEF Crash, SegInv, SegTypeOK
<1>2. Graph = AtomicView(mem)
  BY <1>1 DEF Graph
<1>3. Graph' = AtomicView(IF CommitOnDisk' THEN ApplyWrites(mem, cur.writes) ELSE mem)
  BY <1>1 DEF Graph
<1>4. CASE ~CommitOnDisk'
  BY <1>2, <1>3, <1>4
<1>5. CASE CommitOnDisk'
  <2>1. cur # None
    BY <1>1, <1>5 DEF CommitOnDisk
  <2>2. cur.writes \in WriteSets /\ cur.writes # NoWrites /\ ~InvariantConflict(mem, cur.writes)
    BY <1>1, <2>1 DEF InProgress, MemOK
  <2>3. Graph' = AtomicView(ApplyWrites(mem, cur.writes))
    BY <1>3, <1>5
  <2> QED BY <1>2, <2>2, <2>3, CommitStep
<1> QED BY <1>4, <1>5

\* OpenWithOptions leaves the graph as it is.
LEMMA OpenImplements ==
    ASSUME SegInv, ~lost, Open
    PROVE  Graph' = Graph
<1>1. status = "down"
  BY DEF Open
<1>2. PICK b \in {checkpoint, None} : \E o \in Reopened(disk, b) :
        \/ o.ok /\ status' = "up" /\ mem' = o.store
        \/ ~o.ok
  BY DEF Open
<1>3. PICK o \in Reopened(disk, b) :
        \/ o.ok /\ status' = "up" /\ mem' = o.store
        \/ ~o.ok
  BY <1>2
<1>4. o.ok /\ AtomicView(o.store) = Graph
  BY <1>1, InvRecovers DEF RecoveryExact
<1>5. status' = "up" /\ mem' = o.store
  BY <1>3, <1>4
<1>6. Graph' = AtomicView(mem')
  BY <1>5 DEF Graph
<1> QED BY <1>4, <1>5, <1>6

\* Every step is a commit of AtomicGraph or leaves the graph as it is.
LEMMA StepImplements ==
    ASSUME SegInv, LateFaults, [Next]_vars
    PROVE  [Atomic!Next \/ lost']_Graph
<1> SUFFICES ASSUME ~lost' PROVE Atomic!Next \/ Graph' = Graph
  OBVIOUS
<1> ~lost
  BY LostStays
<1>1. ASSUME status = "up", status' = "up", mem' = mem PROVE Graph' = Graph
  BY <1>1 DEF Graph
<1>2. CASE \E w \in WriteSets : BeginCommit(w)
  BY <1>1, <1>2 DEF BeginCommit
<1>3. CASE SyncData
  BY <1>1, <1>3 DEF SyncData
<1>4. CASE AppendCommit
  BY <1>1, <1>4 DEF AppendCommit
<1>5. CASE FinishCommit
  BY <1>5, FinishImplements
<1>6. CASE FailCommit
  BY <1>1, <1>6 DEF FailCommit
<1>7. CASE WriteCheckpoint
  BY <1>1, <1>7 DEF WriteCheckpoint
<1>8. CASE Open
  BY <1>8, OpenImplements
<1>9. CASE \E power \in BOOLEAN : Crash(power)
  BY <1>9, CrashImplements
<1>10. CASE UNCHANGED vars
  BY <1>10 DEF vars, Graph, CommitOnDisk
<1> QED BY <1>2, <1>3, <1>4, <1>5, <1>6, <1>7, <1>8, <1>9, <1>10 DEF Next

\* A new store is the empty graph.
LEMMA InitImplements == Init => Atomic!Init
<1> SUFFICES ASSUME Init PROVE Atomic!Init
  OBVIOUS
<1>1. Graph = AtomicView(EmptyStore)
  BY DEF Init, Graph
<1>2. Atomic!EmptyStore = EmptyStore
  BY DEF Atomic!EmptyStore, EmptyStore
<1> QED BY <1>1, <1>2 DEF Atomic!Init, Atomic!Visible, AtomicView

\* Across appends, syncs, checkpoints, crashes and replays a domain store
\* behaves as one graph that changes by whole commits and loses none, until a
\* power loss takes records that an incarnation had found and shown.
THEOREM SegmentsImplement ==
    ASSUME LateFaults
    PROVE  Spec => ImplementsAtomicGraph
<1>1. Init => Atomic!Init
  BY InitImplements
<1>2. SegInv /\ [Next]_vars => [Atomic!Next \/ lost']_Graph
  BY StepImplements
<1> QED BY <1>1, <1>2, SegmentsInvariant, PTL DEF Spec, ImplementsAtomicGraph
=============================================================================
