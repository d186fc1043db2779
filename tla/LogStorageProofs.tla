-------------------------- MODULE LogStorageProofs --------------------------
(***************************************************************************)
(* Proofs about the two logs on a member's disk, and about the group that  *)
(* writes one of them.                                                     *)
(*                                                                         *)
(* The files of a consensus group's member (RaftStorage), for any number   *)
(* of terms, entries and crashes: what a member has answered for would be  *)
(* loaded, what the hard state commits is the cluster's log but for the    *)
(* one window the code leaves open, and a restart panics only over crashes *)
(* between certain writes.  The code syncs these files for a backup only,  *)
(* so all of it is claimed for kills of the daemon at any moment, and up   *)
(* to the first power loss that takes a write.  Logs are compared index by *)
(* index: Term is the entry at an index, and the lemmas of the first part  *)
(* say what loading, replacing and appending do to it, so that the rest    *)
(* needs no sequences.                                                     *)
(*                                                                         *)
(* The write-ahead log (WriteAheadLog), for any writers, segment size and  *)
(* number of records, failed appends, requests given up and crashes: what  *)
(* was reported as committed is on disk, what recovery needs is retained,  *)
(* recovery forgets nothing, and Open fails only over what it must, each   *)
(* but for the harms that the property names.  Files are compared place by *)
(* place: At and Bad say what is at one, and lemmas about each operation   *)
(* say what it does to them, so that the steps need no sequences either.   *)
(*                                                                         *)
(* The ready loop of a consensus group (RaftGroup), for any calls,         *)
(* commands, readers and bounds.  Its inductive invariant has five parts:  *)
(* what the loop is doing, which calls the waiters belong to, what is in   *)
(* the channels of the calls, what a read knows of the log, and what the   *)
(* state machine and the stored snapshot hold.                             *)
(***************************************************************************)
EXTENDS RaftStorage, WriteAheadLog, RaftGroup, SequenceTheorems, WellFoundedInduction, TLAPS

Term(log, i) == log.ents[i - log.from]

\* Log a is log b up to the last index of a.
Prefix(a, b) ==
    /\ a.from = b.from /\ LastOf(a) <= LastOf(b)
    /\ \A i \in (a.from + 1)..LastOf(a) : Term(a, i) = Term(b, i)

\* The log that the Ready being written leads to.
Written == IF rsTodo.ents = <<>> THEN rsMem ELSE Replaced(rsMem, rsTodo.from, rsTodo.ents)

\* Memory and files.  The entries file never starts above the snapshot; memory
\* is what the files would load, but for the parts of a Ready already on disk
\* and for a local snapshot that has not been compacted yet.
FileInv ==
    /\ rsLogFile.from <= rsSnapFile
    /\ rsStatus = "up" =>
        /\ rsPc \in {"idle", "snapshot", "hard state", "entries"} => rsMem = LoadedFiles
        /\ rsPc = "frames" =>
            /\ Prefix(LoadedFiles, Written) /\ rsMem.from = rsSnapFile
            /\ rsTodo.from = LastOf(rsMem) /\ rsLogFile.ents # <<>>
            /\ LastOf(rsLogFile) \in (rsTodo.from + 1)..(rsTodo.from + Len(rsTodo.ents) - 1)
        /\ rsPc = "send" => LoadedFiles = Written
        /\ rsPc = "compact" =>
            /\ rsMem.from <= rsSnapFile /\ rsSnapFile = rsCommit
            /\ LoadedFiles = Loaded(rsSnapFile, rsMem)

\* The Ready being written: entries that follow what memory holds and that are
\* the cluster's up to the commit index, or a commit index memory reaches and
\* agrees up to, or a snapshot.
ReadyInv ==
    rsStatus = "up" /\ rsPc \notin {"idle", "compact"} =>
        /\ rsCommit <= rsTodo.commit /\ rsTodo.commit <= Len(rsTruth)
        /\ rsPc \in {"snapshot", "snapshot log"} => rsTodo.snap > 0
        /\ rsPc \in {"entries", "frames"} => rsTodo.ents # <<>>
        /\ rsTodo.snap > 0 =>
            /\ rsTodo.ents = <<>> /\ rsTodo.commit = rsTodo.snap /\ rsCommit < rsTodo.snap
            /\ rsPc # "snapshot" => rsSnapFile = rsTodo.snap
            /\ rsPc \notin {"snapshot", "snapshot log"} => rsMem = EmptyLog(rsTodo.snap)
        /\ rsTodo.ents # <<>> =>
            /\ rsTodo.from \in rsCommit..LastOf(rsMem) /\ rsTodo.from <= Len(rsTruth)
            /\ rsTodo.from + Len(rsTodo.ents) <= MaxIndex
            /\ rsTodo.commit <= rsTodo.from + Len(rsTodo.ents)
            /\ Agrees(rsTodo.from)
            /\ \A k \in 1..Len(rsTodo.ents) :
                  rsTodo.from + k <= rsTodo.commit => rsTodo.ents[k] = rsTruth[rsTodo.from + k]
        /\ rsTodo.ents = <<>> /\ rsTodo.snap = 0 =>
            rsTodo.commit <= LastOf(rsMem) /\ Agrees(rsTodo.commit)

\* Commit indexes, in memory and in the file.
CommitInv ==
    /\ {rsCommit, rsHardFile, rsSnapFile} \subseteq 0..Len(rsTruth)
    /\ rsStatus = "up" =>
        /\ rsPc \in {"idle", "snapshot", "compact"} \/ rsTodo.snap = 0 => rsMem.from <= rsCommit
        /\ rsPc \in {"idle", "snapshot", "compact"} => rsCommit <= LastOf(rsMem)
        /\ IF rsPc \in {"entries", "frames", "send"} THEN rsHardFile = rsTodo.commit
           ELSE rsHardFile <= rsCommit

\* Without a crash in one of the windows, the commit index on disk is that of
\* memory between two Readys, and within what the files would load.
Windows == {"snapshot log", "hard state", "entries", "frames"}
WindowInv ==
    /\ rsCuts \cap Windows = {} =>
        /\ rsStatus # "panic"
        /\ rsStatus = "up" /\ rsPc \in {"idle", "snapshot", "compact"} => rsHardFile = rsCommit
        /\ rsStatus = "down" => rsSnapFile <= rsHardFile /\ rsHardFile <= LastOf(LoadedFiles)
    /\ rsStatus = "down" => rsPc = "idle"

\* What a member has answered for would be loaded, or the snapshot covers it, and
\* the one window of CommittedKept is the only one.
AnswersHeld == \A e \in rsAcked : e \in EntriesOf(LoadedFiles) \/ e[1] <= rsSnapFile
CommitsHeld == rsPc # "entries" /\ "entries" \notin rsCuts => CommittedSurvives

StorageInv ==
    /\ RsTypeOK /\ FileInv /\ ReadyInv /\ CommitInv /\ WindowInv
    /\ AnswersHeld /\ CommitsHeld

-----------------------------------------------------------------------------
(* Logs by index.                                                          *)

\* The fields of a log, and its last index as a number.
LEMMA LogFields ==
    ASSUME NEW log \in RsLogs
    PROVE  /\ log.from \in Nat /\ log.ents \in Seq(RsTerms) /\ Len(log.ents) \in Nat
           /\ LastOf(log) \in Nat /\ log.from <= LastOf(log) /\ LastOf(log) <= MaxIndex
           /\ LastOf(log) = log.from + Len(log.ents) /\ log = [from |-> log.from, ents |-> log.ents]
           /\ log.ents = <<>> <=> LastOf(log) = log.from
           /\ \A i \in (log.from + 1)..LastOf(log) : Term(log, i) \in RsTerms /\ i \in 1..MaxIndex
           /\ \A k \in 1..Len(log.ents) : log.ents[k] = Term(log, log.from + k)
<1>1. log.from \in Nat /\ log.ents \in Seq(RsTerms) /\ LastOf(log) <= MaxIndex /\ MaxIndex \in Nat
      /\ log = [from |-> log.from, ents |-> log.ents]
  BY RaftStorageAssumption DEF RsLogs
<1>2. Len(log.ents) \in Nat /\ LastOf(log) = log.from + Len(log.ents)
  BY <1>1 DEF LastOf
<1>3. log.ents = <<>> <=> Len(log.ents) = 0
  BY <1>1
<1>4. \A i \in (log.from + 1)..LastOf(log) : i - log.from \in 1..Len(log.ents) /\ i \in 1..MaxIndex
  BY <1>1, <1>2
<1>5. \A i \in (log.from + 1)..LastOf(log) : Term(log, i) \in RsTerms
  BY <1>1, <1>4 DEF Term
<1>6. \A k \in 1..Len(log.ents) : (log.from + k) - log.from = k
  BY <1>1, <1>2
<1> QED BY <1>1, <1>2, <1>3, <1>4, <1>5, <1>6 DEF Term

\* A log made of an index and entries.
LEMMA NewLog ==
    ASSUME NEW f \in Nat, NEW s \in Seq(RsTerms), f + Len(s) <= MaxIndex,
           NEW log, log = [from |-> f, ents |-> s]
    PROVE  /\ log \in RsLogs /\ log.from = f /\ log.ents = s /\ LastOf(log) = f + Len(s)
           /\ \A i \in Nat : Term(log, i) = s[i - f]
<1>1. Len(s) \in Nat /\ MaxIndex \in Nat
  BY RaftStorageAssumption
<1>2. f \in 0..MaxIndex
  BY <1>1
<1> QED BY <1>1, <1>2 DEF RsLogs, LastOf, Term

\* A log that is a prefix of another and reaches as far is that log.
LEMMA LogEqual ==
    ASSUME NEW a \in RsLogs, NEW b \in RsLogs, Prefix(a, b), LastOf(b) <= LastOf(a)
    PROVE  a = b
<1>1. Len(a.ents) = Len(b.ents) /\ a.from = b.from
  BY LogFields DEF Prefix
<1>2. \A k \in 1..Len(a.ents) : a.ents[k] = b.ents[k]
  BY <1>1, LogFields DEF Prefix
<1>3. a.ents = b.ents
  BY <1>1, <1>2, LogFields, SeqEqual
<1> QED BY <1>1, <1>3, LogFields

\* The entries of a log are the pairs of its indexes and their terms.
LEMMA EntryIn ==
    ASSUME NEW log \in RsLogs
    PROVE  /\ \A e : e \in EntriesOf(log) <=> \E i \in (log.from + 1)..LastOf(log) : e = <<i, Term(log, i)>>
           /\ EntriesOf(log) \subseteq (1..MaxIndex) \X RsTerms
<1>1. \A e \in EntriesOf(log) : \E i \in (log.from + 1)..LastOf(log) : e = <<i, Term(log, i)>>
  <2> SUFFICES ASSUME NEW k \in 1..Len(log.ents)
               PROVE  \E i \in (log.from + 1)..LastOf(log) : <<log.from + k, log.ents[k]>> = <<i, Term(log, i)>>
    BY DEF EntriesOf
  <2>1. log.from + k \in (log.from + 1)..LastOf(log) /\ log.ents[k] = Term(log, log.from + k)
    BY LogFields
  <2> QED BY <2>1
<1>2. ASSUME NEW i \in (log.from + 1)..LastOf(log)
      PROVE  <<i, Term(log, i)>> \in EntriesOf(log)
  <2>1. i - log.from \in 1..Len(log.ents) /\ log.from + (i - log.from) = i
    BY LogFields
  <2> QED BY <2>1 DEF EntriesOf, Term
<1>3. \A i \in (log.from + 1)..LastOf(log) : i \in 1..MaxIndex /\ Term(log, i) \in RsTerms
  BY LogFields
<1> QED BY <1>1, <1>2, <1>3

\* A log without entries ends where it starts (Compact, an installed snapshot).
LEMMA EmptyLogShape ==
    ASSUME NEW s \in 0..MaxIndex
    PROVE  /\ EmptyLog(s) \in RsLogs /\ EmptyLog(s).from = s /\ LastOf(EmptyLog(s)) = s
           /\ EmptyLog(s).ents = <<>> /\ EntriesOf(EmptyLog(s)) = {}
<1>1. s \in Nat /\ s + Len(<<>>) <= MaxIndex /\ s + Len(<<>>) = s /\ <<>> \in Seq(RsTerms) /\ Len(<<>>) = 0
  BY RaftStorageAssumption
<1>2. EmptyLog(s) \in RsLogs /\ EmptyLog(s).from = s /\ LastOf(EmptyLog(s)) = s /\ EmptyLog(s).ents = <<>>
  BY <1>1, NewLog DEF EmptyLog
<1> QED BY <1>1, <1>2 DEF EntriesOf

\* What load makes of the files: the snapshot's index and the entries above it.
LEMMA LoadedShape ==
    ASSUME NEW log \in RsLogs, NEW s \in 0..MaxIndex, log.from <= s
    PROVE  /\ Loaded(s, log) \in RsLogs /\ Loaded(s, log).from = s
           /\ LastOf(Loaded(s, log)) = IF LastOf(log) <= s THEN s ELSE LastOf(log)
           /\ \A i \in (s + 1)..LastOf(log) : Term(Loaded(s, log), i) = Term(log, i)
<1> DEFINE len == Len(log.ents)
<1>0. /\ s \in Nat /\ log.from \in Nat /\ len \in Nat /\ LastOf(log) = log.from + len
      /\ LastOf(log) <= MaxIndex /\ MaxIndex \in Nat
  BY LogFields, RaftStorageAssumption
<1>1. CASE LastOf(log) <= s
  <2>1. Loaded(s, log) = EmptyLog(s)
    BY <1>1 DEF Loaded, EmptyLog
  <2> QED BY <1>0, <1>1, <2>1, EmptyLogShape
<1>2. CASE ~(LastOf(log) <= s)
  <2> DEFINE a == s - log.from + 1
             sub == SubSeq(log.ents, a, len)
  <2>1. a \in Int /\ a >= 1 /\ a <= len /\ len - a + 1 = LastOf(log) - s
    BY SMTT(60), <1>0, <1>2
  <2>2. \A i \in a..len : log.ents[i] \in RsTerms
    BY SMTT(60), <1>0, <2>1, LogFields, ElementOfSeq
  <2>3. /\ sub \in Seq(RsTerms) /\ Len(sub) = LastOf(log) - s
        /\ \A i \in 1..(LastOf(log) - s) : sub[i] = log.ents[a + i - 1]
    <3>1. /\ sub \in Seq(RsTerms)
          /\ Len(sub) = IF a <= len THEN len - a + 1 ELSE 0
          /\ \A i \in 1..(len - a + 1) : sub[i] = log.ents[a + i - 1]
      <4> HIDE DEF a, len
      <4> QED BY <1>0, <2>1, <2>2, SubSeqProperties DEF sub
    <3> HIDE DEF sub, a, len
    <3> QED BY <2>1, <3>1
  <2>4. Loaded(s, log) = [from |-> s, ents |-> sub]
    <3>1. log.ents # <<>>
      <4>1. log.ents = <<>> => LastOf(log) = log.from
        BY LogFields
      <4> HIDE DEF sub, a, len
      <4> QED BY <1>0, <1>2, <4>1
    <3> QED BY <1>2, <3>1 DEF Loaded
  <2> HIDE DEF sub
  <2>5. /\ Loaded(s, log) \in RsLogs /\ Loaded(s, log).from = s /\ LastOf(Loaded(s, log)) = LastOf(log)
        /\ \A i \in Nat : Term(Loaded(s, log), i) = sub[i - s]
    <3>1. s + Len(sub) <= MaxIndex /\ s + Len(sub) = LastOf(log)
      <4>1. Len(sub) = LastOf(log) - s
        BY <2>3
      <4>2. PICK last \in Nat, max \in Nat : last = LastOf(log) /\ max = MaxIndex /\ last <= max
        BY <1>0
      <4>3. s \in Nat
        BY <1>0
      <4> HIDE DEF len, a
      <4> QED BY <4>1, <4>2, <4>3
    <3>2. PICK x : x = Loaded(s, log)
      OBVIOUS
    <3>3. x = [from |-> s, ents |-> sub]
      BY <2>4, <3>2
    <3>4. /\ x \in RsLogs /\ x.from = s /\ LastOf(x) = s + Len(sub)
          /\ \A i \in Nat : Term(x, i) = sub[i - s]
      <4>1. s \in Nat /\ sub \in Seq(RsTerms) /\ s + Len(sub) <= MaxIndex
        BY <1>0, <2>3, <3>1
      <4> HIDE DEF len, a
      <4> QED BY <3>3, <4>1, NewLog
    <3> QED BY <3>1, <3>2, <3>4
  <2>6. ASSUME NEW i \in (s + 1)..LastOf(log)
        PROVE  Term(Loaded(s, log), i) = Term(log, i)
    <3>1. i \in Nat /\ i - s \in 1..(LastOf(log) - s) /\ a + (i - s) - 1 = i - log.from
      BY <1>0
    <3> QED BY <2>3, <2>5, <3>1 DEF Term
  <2> QED BY <1>2, <2>5, <2>6
<1> QED BY <1>1, <1>2

\* The second half of a concatenation, numbered from index f.
Half(all, ents, m, k) == \A j \in 1..(m + k) : ~(j <= m) => all[j] = ents[j - m]
HalfFrom(all, ents, f, m, k, p) == \A i \in (p + 1)..(p + k) : all[i - f] = ents[i - p]
\* What follows the first entries of a concatenation.
LEMMA SecondHalf ==
    ASSUME NEW f \in Nat, NEW m \in Nat, NEW k \in Nat, NEW p \in Nat, p = f + m, NEW all, NEW ents,
           Half(all, ents, m, k)
    PROVE  HalfFrom(all, ents, f, m, k, p)
<1> SUFFICES ASSUME NEW i \in (p + 1)..(p + k)
             PROVE  all[i - f] = ents[i - p]
  BY DEF HalfFrom
<1>1. i - f \in 1..(m + k) /\ ~(i - f <= m) /\ (i - f) - m = i - p
  OBVIOUS
<1> QED BY <1>1 DEF Half

\* Two sums of one start and two lengths.
Summed(f, n, p, k) == f + n = p + k

\* They are equal.
LEMMA SumsAgree ==
    ASSUME NEW f \in Nat, NEW m \in Nat, NEW k \in Nat, NEW p, p = f + m, NEW n, n = m + k
    PROVE  Summed(f, n, p, k)
BY DEF Summed

\* The first entries of a sequence.
LEMMA BeginningOf ==
    ASSUME NEW S, NEW s, NEW n \in Nat, \A i \in 1..n : s[i] \in S
    PROVE  /\ SubSeq(s, 1, n) \in Seq(S) /\ Len(SubSeq(s, 1, n)) = n
           /\ \A i \in 1..n : SubSeq(s, 1, n)[i] = s[i]
<1>1. 1 \in Int /\ n \in Int
  OBVIOUS
<1>2. /\ SubSeq(s, 1, n) \in Seq(S)
      /\ Len(SubSeq(s, 1, n)) = IF 1 <= n THEN n - 1 + 1 ELSE 0
      /\ \A i \in 1..(n - 1 + 1) : SubSeq(s, 1, n)[i] = s[1 + i - 1]
  BY <1>1, SubSeqProperties
<1> DEFINE sub == SubSeq(s, 1, n)
<1>3. /\ sub \in Seq(S) /\ Len(sub) = IF 1 <= n THEN n - 1 + 1 ELSE 0
      /\ \A i \in 1..(n - 1 + 1) : sub[i] = s[1 + i - 1]
  BY <1>2
<1> HIDE DEF sub
<1>4. sub \in Seq(S) /\ Len(sub) = n /\ \A i \in 1..n : sub[i] = s[i]
  BY <1>3
<1> QED BY <1>4 DEF sub

\* A log of which the entries after index p are replaced (or just added).
LEMMA ReplacedShape ==
    ASSUME NEW log \in RsLogs, NEW p \in Nat, log.from <= p, p <= LastOf(log),
           NEW ents \in Seq(RsTerms), p + Len(ents) <= MaxIndex
    PROVE  /\ Replaced(log, p, ents) \in RsLogs /\ Replaced(log, p, ents).from = log.from
           /\ LastOf(Replaced(log, p, ents)) = p + Len(ents)
           /\ \A i \in (log.from + 1)..p : Term(Replaced(log, p, ents), i) = Term(log, i)
           /\ \A i \in (p + 1)..(p + Len(ents)) : Term(Replaced(log, p, ents), i) = ents[i - p]
<1> PICK len \in Nat : len = p - log.from
  BY LogFields
<1> DEFINE sub == SubSeq(log.ents, 1, len)
           all == sub \o ents
<1>0. /\ log.from \in Nat /\ len \in Nat /\ len <= Len(log.ents) /\ log.ents \in Seq(RsTerms)
      /\ log.from + len = p /\ Len(ents) \in Nat
  BY LogFields
<1>1. \A i \in 1..len : log.ents[i] \in RsTerms
  BY <1>0, LogFields, ElementOfSeq
<1>2. sub \in Seq(RsTerms) /\ Len(sub) = len /\ \A i \in 1..len : sub[i] = log.ents[i]
  BY <1>1, BeginningOf
<1> HIDE DEF sub
<1>3. /\ all \in Seq(RsTerms) /\ Len(all) = len + Len(ents)
      /\ \A i \in 1..(len + Len(ents)) : all[i] = IF i <= len THEN sub[i] ELSE ents[i - len]
  <2>1. /\ all \in Seq(RsTerms) /\ Len(all) = Len(sub) + Len(ents)
        /\ \A i \in 1..(Len(sub) + Len(ents)) : all[i] = IF i <= Len(sub) THEN sub[i] ELSE ents[i - Len(sub)]
    BY <1>2, ConcatProperties
  <2> HIDE DEF all
  <2> QED BY <1>2, <2>1
<1>4. Replaced(log, p, ents) = [from |-> log.from, ents |-> all]
  BY DEF Replaced, sub
<1> HIDE DEF all
<1>5. /\ Replaced(log, p, ents) \in RsLogs /\ Replaced(log, p, ents).from = log.from
      /\ LastOf(Replaced(log, p, ents)) = p + Len(ents)
      /\ \A i \in Nat : Term(Replaced(log, p, ents), i) = all[i - log.from]
  <2>1. log.from + Len(all) <= MaxIndex /\ log.from + Len(all) = p + Len(ents)
    <3>1. PICK f \in Nat, k \in Nat : f = log.from /\ k = Len(ents) /\ f + len = p
      BY <1>0
    <3>2. PICK n : n = Len(all) /\ n = len + k
      BY <1>3, <3>1
    <3>3. Summed(f, n, p, k)
      BY <3>1, <3>2, SumsAgree
    <3> QED BY <3>1, <3>2, <3>3 DEF Summed
  <2>2. PICK x : x = Replaced(log, p, ents)
    OBVIOUS
  <2>3. x = [from |-> log.from, ents |-> all]
    BY <1>4, <2>2
  <2>4. /\ x \in RsLogs /\ x.from = log.from /\ LastOf(x) = log.from + Len(all)
        /\ \A i \in Nat : Term(x, i) = all[i - log.from]
    <3>1. log.from \in Nat /\ all \in Seq(RsTerms) /\ log.from + Len(all) <= MaxIndex
      BY <1>0, <1>3, <2>1
    <3> QED BY <2>3, <3>1, NewLog
  <2> QED BY <2>1, <2>2, <2>4
<1>6. ASSUME NEW i \in (log.from + 1)..p
      PROVE  Term(Replaced(log, p, ents), i) = Term(log, i)
  <2>1. i \in Nat /\ i - log.from \in 1..(len + Len(ents)) /\ i - log.from <= len /\ i - log.from \in 1..len
    BY SMTT(60), <1>0
  <2>2. all[i - log.from] = sub[i - log.from]
    BY <1>3, <2>1
  <2>3. sub[i - log.from] = log.ents[i - log.from]
    BY <1>2, <2>1
  <2>4. Term(Replaced(log, p, ents), i) = all[i - log.from]
    BY <1>5, <2>1
  <2> QED BY <2>2, <2>3, <2>4 DEF Term
<1>7. ASSUME NEW i \in (p + 1)..(p + Len(ents))
      PROVE  Term(Replaced(log, p, ents), i) = ents[i - p]
  <2>1. i \in Nat
    BY <1>0
  <2>2. all[i - log.from] = ents[i - p]
    <3> DEFINE f == log.from
               k == Len(ents)
    <3>1. f \in Nat /\ k \in Nat /\ p = f + len
      BY <1>0
    <3>2. Half(all, ents, len, k)
      BY <1>3 DEF Half
    <3> HIDE DEF f, k
    <3>3. HalfFrom(all, ents, f, len, k, p)
      BY <3>1, <3>2, SecondHalf
    <3> QED BY <3>3 DEF f, k, HalfFrom
  <2> QED BY <1>5, <2>1, <2>2
<1> QED BY <1>5, <1>6, <1>7

\* A frame added to a log.
LEMMA AppendShape ==
    ASSUME NEW log \in RsLogs, NEW t \in RsTerms, LastOf(log) + 1 <= MaxIndex
    PROVE  LET new == [log EXCEPT !.ents = Append(@, t)] IN
           /\ new \in RsLogs /\ new.from = log.from /\ LastOf(new) = LastOf(log) + 1
           /\ \A i \in (log.from + 1)..LastOf(log) : Term(new, i) = Term(log, i)
           /\ Term(new, LastOf(log) + 1) = t
           /\ new.ents # <<>>
<1> DEFINE s == Append(log.ents, t)
<1>0. /\ log.from \in Nat /\ log.ents \in Seq(RsTerms) /\ Len(log.ents) \in Nat
      /\ LastOf(log) = log.from + Len(log.ents)
  BY LogFields
<1>1. /\ s \in Seq(RsTerms) /\ Len(s) = Len(log.ents) + 1
      /\ \A i \in 1..Len(log.ents) : s[i] = log.ents[i]
      /\ s[Len(log.ents) + 1] = t
  BY <1>0, AppendProperties
<1>2. [log EXCEPT !.ents = Append(@, t)] = [from |-> log.from, ents |-> s]
  <2>1. [log EXCEPT !.ents = Append(@, t)] = [log EXCEPT !.ents = s]
    BY Zenon
  <2> HIDE DEF s
  <2>2. log = [from |-> log.from, ents |-> log.ents]
    BY LogFields
  <2>3. [log EXCEPT !.ents = s] = [from |-> log.from, ents |-> s]
    BY <2>2
  <2> QED BY <2>1, <2>3
<1> HIDE DEF s
<1> DEFINE new == [from |-> log.from, ents |-> s]
<1>3. /\ new \in RsLogs /\ new.from = log.from /\ LastOf(new) = LastOf(log) + 1 /\ new.ents = s
      /\ \A i \in Nat : Term(new, i) = s[i - log.from]
  <2>1. log.from + Len(s) <= MaxIndex /\ log.from + Len(s) = LastOf(log) + 1
    <3>1. PICK f \in Nat, k \in Nat : f = log.from /\ k = Len(log.ents) /\ LastOf(log) = f + k
      BY <1>0
    <3>2. PICK n : n = Len(s) /\ n = k + 1
      BY <1>1, <3>1
    <3>3. f + n = (f + k) + 1
      BY <3>1, <3>2
    <3> QED BY <3>1, <3>2, <3>3
  <2> QED BY <1>0, <1>1, <2>1, NewLog
<1> HIDE DEF new
<1>4. ASSUME NEW i \in (log.from + 1)..LastOf(log)
      PROVE  Term(new, i) = Term(log, i)
  <2>1. i \in Nat /\ i - log.from \in 1..Len(log.ents)
    BY <1>0
  <2> QED BY <1>1, <1>3, <2>1 DEF Term
<1>5. Term(new, LastOf(log) + 1) = t
  <2>1. LastOf(log) + 1 \in Nat /\ (LastOf(log) + 1) - log.from = Len(log.ents) + 1
    BY <1>0
  <2> QED BY <1>1, <1>3, <2>1
<1>6. new.ents # <<>>
  BY <1>0, <1>1, <1>3
<1> QED BY <1>2, <1>3, <1>4, <1>5, <1>6 DEF new

-----------------------------------------------------------------------------
(* Two logs compared.                                                      *)

\* Log and committed entries agree up to index n.
AgreesTo(log, n, truth) == \A i \in (log.from + 1)..LastOf(log) : i <= n => Term(log, i) = truth[i]

\* Agreement of entries is agreement at every index.
LEMMA AgreeByIndex ==
    ASSUME NEW log \in RsLogs, NEW n, NEW truth
    PROVE  (\A e \in EntriesOf(log) : e[1] <= n => e[2] = truth[e[1]]) <=> AgreesTo(log, n, truth)
<1>1. ASSUME \A e \in EntriesOf(log) : e[1] <= n => e[2] = truth[e[1]]
      PROVE  AgreesTo(log, n, truth)
  <2> SUFFICES ASSUME NEW i \in (log.from + 1)..LastOf(log), i <= n
               PROVE  Term(log, i) = truth[i]
    BY DEF AgreesTo
  <2>1. PICK e : e = <<i, Term(log, i)>>
    OBVIOUS
  <2>2. e \in EntriesOf(log)
    BY <2>1, EntryIn
  <2> QED BY <1>1, <2>1, <2>2
<1>2. ASSUME AgreesTo(log, n, truth), NEW e \in EntriesOf(log), e[1] <= n
      PROVE  e[2] = truth[e[1]]
  <2>1. PICK i \in (log.from + 1)..LastOf(log) : e = <<i, Term(log, i)>>
    BY EntryIn
  <2> QED BY <1>2, <2>1 DEF AgreesTo
<1> QED BY <1>1, <1>2

\* The entries of a log are among those of a log it is a prefix of.
LEMMA PrefixEntries ==
    ASSUME NEW a \in RsLogs, NEW b \in RsLogs, Prefix(a, b)
    PROVE  /\ EntriesOf(a) \subseteq EntriesOf(b)
           /\ \A n, truth : AgreesTo(b, n, truth) => AgreesTo(a, n, truth)
<1>0. \A i \in (a.from + 1)..LastOf(a) : i \in (b.from + 1)..LastOf(b) /\ Term(a, i) = Term(b, i)
  BY LogFields DEF Prefix
<1>1. ASSUME NEW e \in EntriesOf(a)
      PROVE  e \in EntriesOf(b)
  <2>1. PICK i \in (a.from + 1)..LastOf(a) : e = <<i, Term(a, i)>>
    BY EntryIn
  <2> QED BY <1>0, <2>1, EntryIn
<1>2. \A n, truth : AgreesTo(b, n, truth) => AgreesTo(a, n, truth)
  BY <1>0 DEF AgreesTo
<1> QED BY <1>1, <1>2

\* Loading drops entries the snapshot covers, and nothing else.
LEMMA LoadedEntries ==
    ASSUME NEW log \in RsLogs, NEW s \in 0..MaxIndex, log.from <= s
    PROVE  /\ \A e \in EntriesOf(log) : e \in EntriesOf(Loaded(s, log)) \/ e[1] <= s
           /\ \A n, truth : AgreesTo(log, n, truth) => AgreesTo(Loaded(s, log), n, truth)
<1> PICK new : new = Loaded(s, log)
  OBVIOUS
<1>0. /\ new \in RsLogs /\ new.from = s /\ s \in Nat
      /\ LastOf(new) = IF LastOf(log) <= s THEN s ELSE LastOf(log)
      /\ \A i \in (s + 1)..LastOf(log) : Term(new, i) = Term(log, i)
  BY LoadedShape
<1>1. ASSUME NEW e \in EntriesOf(log), ~(e[1] <= s)
      PROVE  e \in EntriesOf(new)
  <2>1. PICK i \in (log.from + 1)..LastOf(log) : e = <<i, Term(log, i)>>
    BY EntryIn
  <2>2. i \in (s + 1)..LastOf(log) /\ i \in (new.from + 1)..LastOf(new)
    BY <1>0, <1>1, <2>1, LogFields
  <2> QED BY <1>0, <2>1, <2>2, EntryIn
<1>2. \A i \in (new.from + 1)..LastOf(new) : i \in (s + 1)..LastOf(log) /\ i \in (log.from + 1)..LastOf(log)
  BY <1>0, LogFields
<1>3. \A n, truth : AgreesTo(log, n, truth) => AgreesTo(new, n, truth)
  BY <1>0, <1>2 DEF AgreesTo
<1> QED BY <1>1, <1>3

\* A log is loaded as it is when its snapshot is at its start, and loading
\* twice is loading with the later snapshot.
LEMMA LoadedTwice ==
    ASSUME NEW log \in RsLogs, NEW s \in 0..MaxIndex, log.from <= s,
           NEW t \in 0..MaxIndex, s <= t
    PROVE  /\ Loaded(t, Loaded(s, log)) = Loaded(t, log)
           /\ log.from = s => Loaded(s, log) = log
<1> PICK a : a = Loaded(s, log)
  OBVIOUS
<1> PICK b : b = Loaded(t, a)
  OBVIOUS
<1> PICK c : c = Loaded(t, log)
  OBVIOUS
<1>0. s \in Nat /\ t \in Nat /\ log.from <= t /\ log.from \in Nat /\ LastOf(log) \in Nat /\ log.from <= LastOf(log)
  BY LogFields
<1>1. /\ a \in RsLogs /\ a.from = s
      /\ LastOf(a) = IF LastOf(log) <= s THEN s ELSE LastOf(log)
      /\ \A i \in (s + 1)..LastOf(log) : Term(a, i) = Term(log, i)
  BY LoadedShape
<1>2. /\ b \in RsLogs /\ b.from = t
      /\ LastOf(b) = IF LastOf(a) <= t THEN t ELSE LastOf(a)
      /\ \A i \in (t + 1)..LastOf(a) : Term(b, i) = Term(a, i)
  BY <1>1, LoadedShape
<1>3. /\ c \in RsLogs /\ c.from = t
      /\ LastOf(c) = IF LastOf(log) <= t THEN t ELSE LastOf(log)
      /\ \A i \in (t + 1)..LastOf(log) : Term(c, i) = Term(log, i)
  BY <1>0, LoadedShape
<1>4. LastOf(b) = LastOf(c)
  BY <1>0, <1>1, <1>2, <1>3
<1>5. \A i \in (t + 1)..LastOf(b) : i \in (s + 1)..LastOf(log) /\ i \in (t + 1)..LastOf(a) /\ i \in (t + 1)..LastOf(log)
  BY <1>0, <1>1, <1>2
<1>6. b = c
  <2>1. \A i \in (t + 1)..LastOf(b) : Term(b, i) = Term(c, i)
    BY <1>1, <1>2, <1>3, <1>5
  <2>2. LastOf(b) <= LastOf(c) /\ LastOf(c) <= LastOf(b)
    BY SMTT(60), <1>2, <1>3, <1>4, LogFields
  <2>3. Prefix(b, c)
    BY <1>2, <1>3, <2>1, <2>2 DEF Prefix
  <2> QED BY <1>2, <1>3, <2>2, <2>3, LogEqual
<1>7. ASSUME log.from = s
      PROVE  a = log
  BY <1>0, <1>1, <1>7, LogEqual, LogFields DEF Prefix
<1> QED BY <1>6, <1>7

Gap(f, s, k) == (s - f) + 1 = k + 1
\* The entries between two indexes, as a number.
LEMMA GapFits ==
    ASSUME NEW f \in Nat, NEW k \in Nat, NEW s, s = f + k
    PROVE  Gap(f, s, k)
BY DEF Gap

\* What Compact keeps is what loading the snapshot over memory would give.
LEMMA KeptIsLoaded ==
    ASSUME NEW log \in RsLogs, NEW s \in 0..MaxIndex, log.from <= s, s <= LastOf(log)
    PROVE  [from |-> s, ents |-> SubSeq(log.ents, s - log.from + 1, Len(log.ents))] = Loaded(s, log)
<1>1. CASE LastOf(log) <= s
  <2>1. PICK f \in Nat, k \in Nat : f = log.from /\ k = Len(log.ents) /\ s = f + k
    BY <1>1, LogFields
  <2>2. (s - log.from) + 1 = k + 1
    <3>1. Gap(f, s, k)
      BY <2>1, GapFits
    <3> QED BY <2>1, <3>1 DEF Gap
  <2>3. SubSeq(log.ents, k + 1, k) = <<>>
    BY <2>1, LogFields, SubSeqProperties
  <2> QED BY <1>1, <2>1, <2>2, <2>3 DEF Loaded
<1>2. CASE ~(LastOf(log) <= s)
  <2>1. log.ents = <<>> => LastOf(log) = log.from
    BY LogFields
  <2>2. log.ents # <<>>
    BY <1>2, <2>1
  <2> QED BY <1>2, <2>2 DEF Loaded
<1> QED BY <1>1, <1>2

-----------------------------------------------------------------------------
(* The invariant, taken apart.                                             *)

\* The plain facts that the invariant holds about memory, files and constants.
LEMMA Ground ==
    ASSUME StorageInv
    PROVE  /\ MaxIndex \in Nat /\ MaxRsCrashes \in Nat
           /\ rsTruth \in Seq(RsTerms) /\ Len(rsTruth) \in Nat /\ Len(rsTruth) <= MaxIndex
           /\ rsCommit \in Nat /\ rsCommit <= Len(rsTruth)
           /\ rsHardFile \in Nat /\ rsHardFile <= Len(rsTruth)
           /\ rsSnapFile \in Nat /\ rsSnapFile <= Len(rsTruth) /\ rsSnapFile \in 0..MaxIndex
           /\ rsMem \in RsLogs /\ rsLogFile \in RsLogs /\ rsLogFile.from <= rsSnapFile
           /\ LoadedFiles \in RsLogs /\ LoadedFiles.from = rsSnapFile
           /\ LastOf(LoadedFiles) = IF LastOf(rsLogFile) <= rsSnapFile THEN rsSnapFile ELSE LastOf(rsLogFile)
           /\ \A i \in (rsSnapFile + 1)..LastOf(rsLogFile) : Term(LoadedFiles, i) = Term(rsLogFile, i)
<1>1. /\ MaxIndex \in Nat /\ MaxRsCrashes \in Nat
      /\ rsTruth \in Seq(RsTerms) /\ Len(rsTruth) \in Nat /\ Len(rsTruth) <= MaxIndex
      /\ rsMem \in RsLogs /\ rsLogFile \in RsLogs /\ rsLogFile.from <= rsSnapFile
  <2>1. rsTruth \in Seq(RsTerms) /\ Len(rsTruth) <= MaxIndex /\ rsMem \in RsLogs /\ rsLogFile \in RsLogs
    BY DEF StorageInv, RsTypeOK
  <2>2. Len(rsTruth) \in Nat
    BY <2>1
  <2>3. rsLogFile.from <= rsSnapFile
    BY DEF StorageInv, FileInv
  <2> QED BY <2>1, <2>2, <2>3, RaftStorageAssumption
<1>2. rsCommit \in 0..Len(rsTruth) /\ rsHardFile \in 0..Len(rsTruth) /\ rsSnapFile \in 0..Len(rsTruth)
  BY DEF StorageInv, CommitInv
<1>3. rsSnapFile \in 0..MaxIndex
  BY <1>1, <1>2
<1>4. /\ LoadedFiles \in RsLogs /\ LoadedFiles.from = rsSnapFile
      /\ LastOf(LoadedFiles) = IF LastOf(rsLogFile) <= rsSnapFile THEN rsSnapFile ELSE LastOf(rsLogFile)
      /\ \A i \in (rsSnapFile + 1)..LastOf(rsLogFile) : Term(LoadedFiles, i) = Term(rsLogFile, i)
  BY <1>1, <1>3, LoadedShape DEF LoadedFiles
<1> QED BY <1>1, <1>2, <1>3, <1>4

\* The fields of the Ready being written.
LEMMA ReadyFields ==
    ASSUME StorageInv
    PROVE  /\ rsTodo.snap \in Nat /\ rsTodo.snap <= MaxIndex /\ rsTodo.commit \in Nat /\ rsTodo.commit <= MaxIndex
           /\ rsTodo.from \in Nat /\ rsTodo.ents \in Seq(RsTerms) /\ Len(rsTodo.ents) \in Nat
           /\ rsTodo.ents = <<>> <=> Len(rsTodo.ents) = 0
           /\ \A k \in 1..Len(rsTodo.ents) : rsTodo.ents[k] \in RsTerms
<1>1. /\ rsTodo.snap \in 0..MaxIndex /\ rsTodo.commit \in 0..MaxIndex
      /\ rsTodo.from \in 0..MaxIndex /\ rsTodo.ents \in Seq(RsTerms)
  BY DEF StorageInv, RsTypeOK, RsReadys
<1>2. Len(rsTodo.ents) \in Nat /\ (rsTodo.ents = <<>> <=> Len(rsTodo.ents) = 0)
  BY <1>1
<1> QED BY <1>1, <1>2, ElementOfSeq, RaftStorageAssumption

\* The run's properties, index by index.
LEMMA Agreements ==
    ASSUME StorageInv
    PROVE  /\ CommittedSurvives <=> AgreesTo(LoadedFiles, rsHardFile, rsTruth)
           /\ \A n : Agrees(n) <=> AgreesTo(rsMem, n, rsTruth)
<1>1. CommittedSurvives <=> AgreesTo(LoadedFiles, rsHardFile, rsTruth)
  BY Ground, AgreeByIndex DEF CommittedSurvives
<1>2. ASSUME NEW n
      PROVE  Agrees(n) <=> AgreesTo(rsMem, n, rsTruth)
  BY Ground, AgreeByIndex DEF Agrees
<1> QED BY <1>1, <1>2

\* The log that a Ready with entries leads to.
LEMMA WrittenShape ==
    ASSUME StorageInv, rsStatus = "up", rsPc \notin {"idle", "compact"}, rsTodo.ents # <<>>
    PROVE  /\ Written = Replaced(rsMem, rsTodo.from, rsTodo.ents)
           /\ Written \in RsLogs /\ Written.from = rsMem.from
           /\ LastOf(Written) = rsTodo.from + Len(rsTodo.ents) /\ LastOf(Written) <= MaxIndex
           /\ \A i \in (rsMem.from + 1)..rsTodo.from : Term(Written, i) = Term(rsMem, i)
           /\ \A i \in (rsTodo.from + 1)..(rsTodo.from + Len(rsTodo.ents)) :
                 Term(Written, i) = rsTodo.ents[i - rsTodo.from]
           /\ rsMem.from <= rsCommit /\ rsCommit <= rsTodo.from /\ rsTodo.from <= LastOf(rsMem)
           /\ rsTodo.snap = 0 /\ Len(rsTodo.ents) > 0
<1>1. /\ rsTodo.from \in rsCommit..LastOf(rsMem) /\ rsTodo.from + Len(rsTodo.ents) <= MaxIndex
      /\ rsTodo.snap = 0
  <2>1. rsTodo.from \in rsCommit..LastOf(rsMem) /\ rsTodo.from + Len(rsTodo.ents) <= MaxIndex
    BY DEF StorageInv, ReadyInv
  <2>2. ~(rsTodo.snap > 0)
    BY DEF StorageInv, ReadyInv
  <2>3. rsTodo.snap \in Nat
    BY ReadyFields
  <2> QED BY <2>1, <2>2, <2>3
<1>2. rsMem.from <= rsCommit
  BY <1>1 DEF StorageInv, CommitInv
<1>3. rsMem.from <= rsTodo.from /\ rsTodo.from <= LastOf(rsMem) /\ rsCommit <= rsTodo.from
  <2>1. rsMem.from \in Nat /\ rsTodo.from \in Nat /\ rsCommit \in Nat /\ LastOf(rsMem) \in Nat
    BY Ground, LogFields, ReadyFields
  <2> QED BY <1>1, <1>2, <2>1
<1>4. Written = Replaced(rsMem, rsTodo.from, rsTodo.ents)
  BY DEF Written
<1>5. Len(rsTodo.ents) > 0
  BY ReadyFields
<1>6. rsMem \in RsLogs /\ rsTodo.from \in Nat /\ rsTodo.ents \in Seq(RsTerms)
  BY Ground, ReadyFields
<1>7. /\ Written \in RsLogs /\ Written.from = rsMem.from
      /\ LastOf(Written) = rsTodo.from + Len(rsTodo.ents)
      /\ \A i \in (rsMem.from + 1)..rsTodo.from : Term(Written, i) = Term(rsMem, i)
      /\ \A i \in (rsTodo.from + 1)..(rsTodo.from + Len(rsTodo.ents)) :
            Term(Written, i) = rsTodo.ents[i - rsTodo.from]
  BY <1>1, <1>3, <1>4, <1>6, ReplacedShape
<1> QED BY <1>1, <1>2, <1>3, <1>4, <1>5, <1>7

\* What the entries file will hold agrees with the cluster's log up to the commit
\* index of the Ready.
LEMMA WrittenAgrees ==
    ASSUME StorageInv, rsStatus = "up", rsPc \notin {"idle", "compact"}, rsTodo.ents # <<>>
    PROVE  AgreesTo(Written, rsTodo.commit, rsTruth)
<1> SUFFICES ASSUME NEW i \in (rsMem.from + 1)..(rsTodo.from + Len(rsTodo.ents)), i <= rsTodo.commit
             PROVE  Term(Written, i) = rsTruth[i]
  BY WrittenShape DEF AgreesTo
<1>0. /\ rsMem.from \in Nat /\ rsTodo.from \in Nat /\ Len(rsTodo.ents) \in Nat /\ i \in Nat
      /\ rsTodo.from <= LastOf(rsMem) /\ LastOf(rsMem) \in Nat
  BY SMTT(60), Ground, ReadyFields, LogFields, WrittenShape
<1>1. CASE i <= rsTodo.from
  <2>1. i \in (rsMem.from + 1)..rsTodo.from /\ i \in (rsMem.from + 1)..LastOf(rsMem)
    BY <1>0, <1>1
  <2>2. AgreesTo(rsMem, rsTodo.from, rsTruth)
    BY Agreements DEF StorageInv, ReadyInv
  <2> QED BY <1>1, <2>1, <2>2, WrittenShape DEF AgreesTo
<1>2. CASE ~(i <= rsTodo.from)
  <2>1. PICK k \in 1..Len(rsTodo.ents) : i = rsTodo.from + k /\ i - rsTodo.from = k
    <3>1. i - rsTodo.from \in 1..Len(rsTodo.ents) /\ i = rsTodo.from + (i - rsTodo.from)
      BY <1>0, <1>2
    <3> QED BY <3>1
  <2>2. i \in (rsTodo.from + 1)..(rsTodo.from + Len(rsTodo.ents))
    BY <1>0, <1>2
  <2>3. Term(Written, i) = rsTodo.ents[k]
    BY <2>1, <2>2, WrittenShape
  <2>4. rsTodo.ents[k] = rsTruth[i]
    BY <2>1 DEF StorageInv, ReadyInv
  <2> QED BY <2>3, <2>4
<1> QED BY <1>1, <1>2

-----------------------------------------------------------------------------
(* The steps.                                                              *)

\* The invariant holds of a member without files.
LEMMA StorageInit ==
    ASSUME RsInit
    PROVE  StorageInv
<1>0. 0 \in 0..MaxIndex /\ MaxIndex \in Nat /\ MaxRsCrashes \in Nat
  BY RaftStorageAssumption
<1>1. EmptyLog(0) \in RsLogs /\ EmptyLog(0).from = 0 /\ LastOf(EmptyLog(0)) = 0 /\ EntriesOf(EmptyLog(0)) = {}
  BY <1>0, EmptyLogShape
<1>2. LoadedFiles = EmptyLog(0)
  BY <1>1 DEF RsInit, LoadedFiles, Loaded, EmptyLog
<1>3. RsTypeOK
  <2>1. rsTodo \in RsReadys
    BY <1>0 DEF RsInit, RsReadys, NoReady
  <2>2. rsTruth \in Seq(RsTerms) /\ Len(rsTruth) = 0
    BY DEF RsInit
  <2>3. rsFlushed \in [hard : 0..MaxIndex, snap : 0..MaxIndex, log : RsLogs] /\ rsLost \in BOOLEAN
    BY <1>0, <1>1 DEF RsInit, FilesNow
  <2>4. /\ rsMem \in RsLogs /\ rsLogFile \in RsLogs /\ {rsCommit, rsHardFile, rsSnapFile} \subseteq 0..MaxIndex
        /\ rsAcked \subseteq (1..MaxIndex) \X RsTerms /\ rsCrashes \in 0..MaxRsCrashes
    BY <1>0, <1>1 DEF RsInit
  <2>5. /\ rsPc \in RsSteps /\ rsCuts \subseteq RsSteps /\ rsStatus \in {"up", "down", "panic"}
    BY DEF RsInit, RsSteps
  <2>6. Len(rsTruth) <= MaxIndex
    BY <1>0, <2>2
  <2> QED BY <2>1, <2>2, <2>3, <2>4, <2>5, <2>6 DEF RsTypeOK
<1>4. FileInv /\ ReadyInv
  BY <1>1, <1>2 DEF RsInit, FileInv, ReadyInv
<1>5. CommitInv
  BY <1>1 DEF RsInit, CommitInv
<1>6. WindowInv
  BY <1>1, <1>2 DEF RsInit, WindowInv
<1>7. AnswersHeld /\ CommitsHeld
  BY <1>1, <1>2 DEF RsInit, AnswersHeld, CommitsHeld, CommittedSurvives
<1> QED BY <1>3, <1>4, <1>5, <1>6, <1>7 DEF StorageInv

\* What the cluster commits changes nothing that is already committed.
LEMMA ClusterCommitsStep ==
    ASSUME StorageInv, ClusterCommits
    PROVE  StorageInv'
<1>1. PICK t \in RsTerms : rsTruth' = Append(rsTruth, t)
  BY DEF ClusterCommits
<1>2. UNCHANGED <<rsMem, rsCommit, rsHardFile, rsSnapFile, rsLogFile, rsTodo, rsPc, rsAcked, rsStatus, rsCuts, rsCrashes, rsFlushed, rsLost>>
      /\ Len(rsTruth) < MaxIndex
  BY DEF ClusterCommits, rsFiles
<1>3. /\ rsTruth' \in Seq(RsTerms) /\ Len(rsTruth') = Len(rsTruth) + 1
      /\ \A i \in 1..Len(rsTruth) : rsTruth'[i] = rsTruth[i]
  BY <1>1, Ground, AppendProperties
<1>4. LoadedFiles' = LoadedFiles
  BY <1>2 DEF LoadedFiles
<1>5. ASSUME NEW log \in RsLogs, NEW n \in Nat, n <= Len(rsTruth), AgreesTo(log, n, rsTruth)
      PROVE  AgreesTo(log, n, rsTruth')
  <2> SUFFICES ASSUME NEW i \in (log.from + 1)..LastOf(log), i <= n
               PROVE  Term(log, i) = rsTruth'[i]
    BY DEF AgreesTo
  <2>1. i \in 1..Len(rsTruth)
    BY SMTT(60), <1>5, Ground, LogFields
  <2> QED BY <1>3, <1>5, <2>1 DEF AgreesTo
<1>6. RsTypeOK'
  <2>1. Len(rsTruth') <= MaxIndex
    BY <1>2, <1>3, Ground
  <2> QED BY <1>2, <1>3, <2>1 DEF StorageInv, RsTypeOK
<1>7. FileInv'
  BY <1>2, <1>4 DEF StorageInv, FileInv, Written
<1>8. ASSUME NEW n \in Nat, n <= Len(rsTruth), Agrees(n)
      PROVE  \A e \in EntriesOf(rsMem) : e[1] <= n => e[2] = rsTruth'[e[1]]
  <2>1. AgreesTo(rsMem, n, rsTruth)
    BY <1>8, Agreements
  <2>2. AgreesTo(rsMem, n, rsTruth')
    BY <1>5, <1>8, <2>1, Ground
  <2> QED BY <2>2, Ground, AgreeByIndex
<1>9. ReadyInv'
  <2> SUFFICES ASSUME rsStatus = "up", rsPc \notin {"idle", "compact"}
               PROVE  ReadyInv'
    BY <1>2 DEF ReadyInv
  <2>0. rsTodo.commit <= Len(rsTruth) /\ rsCommit <= rsTodo.commit
    BY DEF StorageInv, ReadyInv
  <2>1. rsTodo.commit <= Len(rsTruth')
    BY <1>3, <2>0, Ground, ReadyFields
  <2>2. ASSUME rsTodo.ents # <<>>
        PROVE  /\ rsTodo.from <= Len(rsTruth')
               /\ \A e \in EntriesOf(rsMem) : e[1] <= rsTodo.from => e[2] = rsTruth'[e[1]]
               /\ \A k \in 1..Len(rsTodo.ents) :
                     rsTodo.from + k <= rsTodo.commit => rsTodo.ents[k] = rsTruth'[rsTodo.from + k]
    <3>1. rsTodo.from <= Len(rsTruth) /\ rsTodo.from \in Nat /\ Agrees(rsTodo.from)
      BY <2>2, ReadyFields DEF StorageInv, ReadyInv
    <3>2. rsTodo.from <= Len(rsTruth')
      BY <1>3, <3>1, Ground
    <3>3. ASSUME NEW k \in 1..Len(rsTodo.ents), rsTodo.from + k <= rsTodo.commit
          PROVE  rsTodo.ents[k] = rsTruth'[rsTodo.from + k]
      <4>1. rsTodo.from + k \in 1..Len(rsTruth)
        BY <2>0, <3>1, <3>3, Ground, ReadyFields
      <4>2. rsTodo.ents[k] = rsTruth[rsTodo.from + k]
        BY <2>2, <3>3 DEF StorageInv, ReadyInv
      <4> QED BY <1>3, <4>1, <4>2
    <3> QED BY <1>8, <3>1, <3>2, <3>3
  <2>3. ASSUME rsTodo.ents = <<>>, rsTodo.snap = 0
        PROVE  \A e \in EntriesOf(rsMem) : e[1] <= rsTodo.commit => e[2] = rsTruth'[e[1]]
    <3>1. rsTodo.commit \in Nat /\ Agrees(rsTodo.commit)
      BY <2>3, ReadyFields DEF StorageInv, ReadyInv
    <3> QED BY <1>8, <2>0, <3>1
  <2> QED BY <1>2, <2>0, <2>1, <2>2, <2>3 DEF StorageInv, ReadyInv, Agrees
<1>10. CommitInv'
  <2>1. {rsCommit, rsHardFile, rsSnapFile} \subseteq 0..Len(rsTruth')
    BY <1>3, Ground
  <2> QED BY <1>2, <2>1 DEF StorageInv, CommitInv
<1>11. WindowInv' /\ AnswersHeld'
  BY <1>2, <1>4 DEF StorageInv, WindowInv, AnswersHeld
<1>12. CommitsHeld'
  <2> SUFFICES ASSUME CommittedSurvives
               PROVE  CommittedSurvives'
    BY <1>2 DEF StorageInv, CommitsHeld
  <2>1. AgreesTo(LoadedFiles, rsHardFile, rsTruth')
    BY <1>5, Ground, Agreements
  <2>2. \A e \in EntriesOf(LoadedFiles) : e[1] <= rsHardFile => e[2] = rsTruth'[e[1]]
    BY <2>1, Ground, AgreeByIndex
  <2> QED BY <1>2, <1>4, <2>2 DEF CommittedSurvives
<1> QED BY <1>6, <1>7, <1>9, <1>10, <1>11, <1>12 DEF StorageInv

\* The entries of a leader's log are the committed ones as far as those go.
LEMMA LeaderLogShape ==
    ASSUME StorageInv, NEW l \in LeaderLogs
    PROVE  /\ l \in Seq(RsTerms) /\ Len(l) \in Nat
           /\ \A i \in 1..Len(rsTruth) : l[i] = rsTruth[i]
<1>1. rsTruth \in Seq(RsTerms)
  BY Ground
<1>2. CASE l = rsTruth
  BY <1>1, <1>2
<1>3. CASE \E t \in RsTerms : l = Append(rsTruth, t)
  <2>1. PICK t \in RsTerms : l = Append(rsTruth, t)
    BY <1>3
  <2> QED BY <1>1, <2>1, AppendProperties
<1> QED BY <1>2, <1>3 DEF LeaderLogs

\* A Ready with entries, as the library deals it.
LEMMA AppendReadyShape ==
    ASSUME StorageInv, rsStatus = "up", rsPc = "idle", NEW todo \in AppendReadys
    PROVE  /\ todo \in RsReadys /\ todo.snap = 0 /\ todo.ents # <<>>
           /\ rsCommit <= todo.commit /\ todo.commit <= Len(rsTruth)
           /\ todo.from \in rsCommit..LastOf(rsMem) /\ todo.from <= Len(rsTruth)
           /\ todo.from + Len(todo.ents) <= MaxIndex /\ todo.commit <= todo.from + Len(todo.ents)
           /\ Agrees(todo.from)
           /\ \A k \in 1..Len(todo.ents) :
                 todo.from + k <= todo.commit => todo.ents[k] = rsTruth[todo.from + k]
<1>1. PICK q \in {q \in (rsCommit..MaxIndex) \X (rsCommit..LastOf(rsMem)) \X (0..MaxIndex) \X LeaderLogs :
                     Sendable(q[1], q[2], q[3], q[4])} :
              todo = [snap |-> 0, commit |-> q[1], from |-> q[2], ents |-> SubSeq(q[4], q[2] + 1, q[3])]
  BY DEF AppendReadys
<1>2. PICK c, p, n, l : c = q[1] /\ p = q[2] /\ n = q[3] /\ l = q[4]
  OBVIOUS
<1>3. c \in rsCommit..MaxIndex /\ p \in rsCommit..LastOf(rsMem) /\ n \in 0..MaxIndex /\ l \in LeaderLogs
      /\ Sendable(c, p, n, l)
  BY <1>1, <1>2
<1>4. todo = [snap |-> 0, commit |-> c, from |-> p, ents |-> SubSeq(l, p + 1, n)]
  BY <1>1, <1>2
<1>5. p < n /\ n <= Len(l) /\ p <= Len(rsTruth) /\ c <= n /\ c <= Len(rsTruth) /\ Agrees(p)
  BY <1>3 DEF Sendable
<1>6. l \in Seq(RsTerms) /\ Len(l) \in Nat /\ \A i \in 1..Len(rsTruth) : l[i] = rsTruth[i]
  BY <1>3, LeaderLogShape
<1>7. /\ c \in Nat /\ p \in Nat /\ n \in Nat /\ rsCommit \in Nat /\ MaxIndex \in Nat /\ Len(rsTruth) \in Nat
      /\ LastOf(rsMem) \in Nat /\ LastOf(rsMem) <= MaxIndex
      /\ rsCommit <= c /\ n <= MaxIndex
  <2>1. rsCommit \in Nat /\ MaxIndex \in Nat /\ Len(rsTruth) \in Nat
    BY Ground
  <2>2. LastOf(rsMem) \in Nat /\ LastOf(rsMem) <= MaxIndex
    BY Ground, LogFields
  <2> QED BY <1>3, <2>1, <2>2
<1>8. \A i \in (p + 1)..n : l[i] \in RsTerms
  BY SMTT(60), <1>5, <1>6, <1>7, ElementOfSeq
<1>9. PICK ents : ents = SubSeq(l, p + 1, n)
  OBVIOUS
<1>10. /\ ents \in Seq(RsTerms) /\ Len(ents) = n - p
       /\ \A k \in 1..(n - p) : ents[k] = l[p + k]
  <2>1. PICK a \in Nat : a = p + 1
    BY <1>7
  <2>0. \A i \in a..n : l[i] \in RsTerms
    BY <1>8, <2>1
  <2>2. /\ ents \in Seq(RsTerms) /\ Len(ents) = IF a <= n THEN n - a + 1 ELSE 0
        /\ \A i \in 1..(n - a + 1) : ents[i] = l[a + i - 1]
    <3>1. a \in 1..(Len(l) + 1) /\ n \in Nat /\ n <= Len(l)
      BY <1>5, <1>6, <1>7, <2>1
    <3>2. ents = SubSeq(l, a, n)
      BY <1>9, <2>1
    <3> QED BY <1>6, <2>0, <3>1, <3>2, SubSeqProperties
  <2>3. a <= n /\ n - a + 1 = n - p /\ \A i \in 1..(n - p) : a + i - 1 = p + i
    BY <1>5, <1>7, <2>1
  <2> QED BY <2>2, <2>3
<1>11. todo.snap = 0 /\ todo.commit = c /\ todo.from = p /\ todo.ents = ents
  BY <1>4, <1>9
<1>12. todo \in RsReadys
  <2>1. c \in 0..MaxIndex /\ p \in 0..MaxIndex /\ 0 \in 0..MaxIndex
    BY <1>3, <1>7
  <2> QED BY <1>4, <1>9, <1>10, <2>1 DEF RsReadys
<1>13. p + Len(ents) = n /\ ents # <<>>
  BY <1>5, <1>7, <1>10
<1>14. ASSUME NEW k \in 1..Len(ents), p + k <= c
       PROVE  ents[k] = rsTruth[p + k]
  <2>1. k \in 1..(n - p) /\ p + k \in 1..Len(rsTruth)
    BY <1>5, <1>7, <1>10, <1>14
  <2> QED BY <1>6, <1>10, <2>1
<1> QED BY <1>3, <1>5, <1>7, <1>11, <1>12, <1>13, <1>14

\* A Ready with a commit index or a snapshot alone.
LEMMA OtherReadyShape ==
    ASSUME StorageInv, rsStatus = "up", rsPc = "idle", NEW todo \in CommitReadys \cup SnapshotReadys
    PROVE  /\ todo \in RsReadys /\ todo.ents = <<>>
           /\ rsCommit < todo.commit /\ todo.commit <= Len(rsTruth)
           /\ \/ todo.snap = todo.commit
              \/ todo.snap = 0 /\ todo.commit <= LastOf(rsMem) /\ Agrees(todo.commit)
<1>0. /\ rsCommit \in Nat /\ MaxIndex \in Nat /\ Len(rsTruth) \in Nat /\ Len(rsTruth) <= MaxIndex
      /\ LastOf(rsMem) \in Nat /\ LastOf(rsMem) <= MaxIndex
  BY Ground, LogFields
<1>1. CASE todo \in CommitReadys
  <2>1. PICK c \in (rsCommit + 1)..LastOf(rsMem) :
              c <= Len(rsTruth) /\ Agrees(c) /\ todo = [NoReady EXCEPT !.commit = c]
    BY <1>1 DEF CommitReadys
  <2>2. todo = [snap |-> 0, commit |-> c, from |-> 0, ents |-> <<>>]
    BY <2>1 DEF NoReady
  <2>3. c \in 0..MaxIndex /\ 0 \in 0..MaxIndex /\ rsCommit < c /\ c <= LastOf(rsMem)
    BY <1>0
  <2>4. todo \in RsReadys
    BY <2>2, <2>3 DEF RsReadys
  <2> QED BY <2>1, <2>2, <2>3, <2>4
<1>2. CASE todo \in SnapshotReadys
  <2>1. PICK s \in (rsCommit + 1)..Len(rsTruth) : todo = [NoReady EXCEPT !.snap = s, !.commit = s]
    BY <1>2 DEF SnapshotReadys
  <2>2. todo = [snap |-> s, commit |-> s, from |-> 0, ents |-> <<>>]
    BY <2>1 DEF NoReady
  <2>3. s \in 0..MaxIndex /\ 0 \in 0..MaxIndex /\ rsCommit < s /\ s <= Len(rsTruth)
    BY <1>0
  <2>4. todo \in RsReadys
    BY <2>2, <2>3 DEF RsReadys
  <2> QED BY <2>2, <2>3, <2>4
<1> QED BY <1>1, <1>2

\* The loop takes a Ready (processReady).
LEMMA TakeReadyStep ==
    ASSUME StorageInv, TakeReady
    PROVE  StorageInv'
<1>1. /\ rsStatus = "up" /\ rsPc = "idle"
      /\ rsTodo' \in AppendReadys \cup CommitReadys \cup SnapshotReadys
      /\ rsPc' = IF rsTodo'.snap > 0 THEN "snapshot" ELSE "hard state"
      /\ UNCHANGED <<rsTruth, rsMem, rsCommit, rsHardFile, rsSnapFile, rsLogFile, rsAcked, rsStatus, rsCuts, rsCrashes, rsFlushed, rsLost>>
  BY DEF TakeReady, rsFiles
<1> PICK todo : todo = rsTodo'
  OBVIOUS
<1>2. LoadedFiles' = LoadedFiles
  BY <1>1 DEF LoadedFiles
<1>3. rsPc' \in {"snapshot", "hard state"}
  BY <1>1
<1>4. /\ todo \in RsReadys /\ rsCommit <= todo.commit /\ todo.commit <= Len(rsTruth)
      /\ todo.snap \in Nat
      /\ todo.snap > 0 => todo.ents = <<>> /\ todo.commit = todo.snap /\ rsCommit < todo.snap
      /\ todo.ents # <<>> =>
            /\ todo.from \in rsCommit..LastOf(rsMem) /\ todo.from <= Len(rsTruth)
            /\ todo.from + Len(todo.ents) <= MaxIndex /\ todo.commit <= todo.from + Len(todo.ents)
            /\ Agrees(todo.from)
            /\ \A k \in 1..Len(todo.ents) :
                  todo.from + k <= todo.commit => todo.ents[k] = rsTruth[todo.from + k]
      /\ todo.ents = <<>> /\ todo.snap = 0 => todo.commit <= LastOf(rsMem) /\ Agrees(todo.commit)
  <2>1. CASE todo \in AppendReadys
    <3>0. /\ todo \in RsReadys /\ todo.snap = 0 /\ todo.ents # <<>>
          /\ rsCommit <= todo.commit /\ todo.commit <= Len(rsTruth)
          /\ todo.from \in rsCommit..LastOf(rsMem) /\ todo.from <= Len(rsTruth)
          /\ todo.from + Len(todo.ents) <= MaxIndex /\ todo.commit <= todo.from + Len(todo.ents)
          /\ Agrees(todo.from)
          /\ \A k \in 1..Len(todo.ents) :
                todo.from + k <= todo.commit => todo.ents[k] = rsTruth[todo.from + k]
      BY <1>1, <2>1, AppendReadyShape
    <3>1. ~(todo.snap > 0) /\ todo.snap \in Nat
      BY <3>0
    <3> QED BY <3>0, <3>1
  <2>2. CASE todo \in CommitReadys \cup SnapshotReadys
    <3>1. todo \in RsReadys /\ todo.ents = <<>> /\ rsCommit < todo.commit /\ todo.commit <= Len(rsTruth)
          /\ \/ todo.snap = todo.commit
             \/ todo.snap = 0 /\ todo.commit <= LastOf(rsMem) /\ Agrees(todo.commit)
      BY <1>1, <2>2, OtherReadyShape
    <3>2. todo.snap \in Nat /\ todo.commit \in Nat
      BY <3>1, RaftStorageAssumption DEF RsReadys
    <3> QED BY <3>1, <3>2, Ground
  <2> QED BY <1>1, <2>1, <2>2
<1>5. RsTypeOK'
  <2>1. rsPc' \in RsSteps
    BY <1>3 DEF RsSteps
  <2> QED BY <1>1, <1>4, <2>1 DEF StorageInv, RsTypeOK
<1>6. FileInv'
  BY <1>1, <1>2, <1>3 DEF StorageInv, FileInv
<1>7. ReadyInv'
  <2>1. rsPc' = "snapshot" => todo.snap > 0
    BY <1>1
  <2>2. todo.snap > 0 => rsPc' = "snapshot"
    BY <1>1
  <2>3. \A n : Agrees(n) => \A e \in EntriesOf(rsMem') : e[1] <= n => e[2] = rsTruth'[e[1]]
    BY <1>1 DEF Agrees
  <2> QED BY <1>1, <1>3, <1>4, <2>1, <2>2, <2>3 DEF ReadyInv, Agrees
<1>8. CommitInv'
  BY <1>1, <1>3 DEF StorageInv, CommitInv
<1>9. WindowInv' /\ AnswersHeld'
  BY <1>1, <1>2, <1>3 DEF StorageInv, WindowInv, AnswersHeld
<1>10. CommitsHeld'
  BY <1>1, <1>2, <1>3 DEF StorageInv, CommitsHeld, CommittedSurvives
<1> QED BY <1>5, <1>6, <1>7, <1>8, <1>9, <1>10 DEF StorageInv

\* The snapshot file is ahead of the entries file for a step: fewer entries
\* are loaded, none of them another.
LEMMA WriteSnapshotStep ==
    ASSUME StorageInv, WriteSnapshot
    PROVE  StorageInv'
<1>1. /\ rsStatus = "up" /\ rsPc = "snapshot" /\ rsSnapFile' = rsTodo.snap /\ rsPc' = "snapshot log"
      /\ UNCHANGED <<rsTruth, rsMem, rsCommit, rsHardFile, rsLogFile, rsTodo, rsAcked, rsStatus, rsCuts, rsCrashes, rsFlushed, rsLost>>
  BY DEF WriteSnapshot
<1>2. /\ rsTodo.snap > 0 /\ rsTodo.commit = rsTodo.snap /\ rsCommit < rsTodo.snap /\ rsTodo.ents = <<>>
      /\ rsTodo.commit <= Len(rsTruth)
  BY <1>1 DEF StorageInv, ReadyInv
<1>3. rsMem = LoadedFiles /\ rsMem.from <= rsCommit
  BY <1>1 DEF StorageInv, FileInv, CommitInv
<1>4. rsTodo.snap \in 0..MaxIndex /\ rsSnapFile <= rsTodo.snap /\ rsLogFile.from <= rsTodo.snap /\ rsTodo.snap <= Len(rsTruth)
  <2>1. rsLogFile.from \in Nat
    BY Ground, LogFields
  <2> QED BY <1>2, <1>3, <2>1, Ground, ReadyFields
<1>5. LoadedFiles' = Loaded(rsTodo.snap, LoadedFiles)
  BY <1>1, <1>4, Ground, LoadedTwice DEF LoadedFiles
<1>6. RsTypeOK'
  BY <1>1, <1>4 DEF StorageInv, RsTypeOK, RsSteps
<1>7. FileInv'
  <2>1. rsLogFile'.from <= rsSnapFile'
    BY <1>1, <1>4
  <2>2. rsPc' \notin {"idle", "snapshot", "hard state", "entries", "frames", "send", "compact"}
    BY <1>1
  <2> QED BY <2>1, <2>2 DEF FileInv
<1>8. ReadyInv'
  <2>1. rsTodo.snap # 0 /\ rsCommit <= rsTodo.commit
    BY <1>2, Ground, ReadyFields
  <2> QED BY <1>1, <1>2, <2>1 DEF ReadyInv
<1>9. CommitInv'
  <2>1. rsTodo.snap \in 0..Len(rsTruth)
    BY <1>4, Ground, ReadyFields
  <2> QED BY <1>1, <1>2, <2>1 DEF StorageInv, CommitInv
<1>10. WindowInv'
  BY <1>1 DEF StorageInv, WindowInv
<1>11. AnswersHeld'
  <2> SUFFICES ASSUME NEW e \in rsAcked, ~(e[1] <= rsTodo.snap)
               PROVE  e \in EntriesOf(LoadedFiles')
    BY <1>1 DEF AnswersHeld
  <2>1. e \in (1..MaxIndex) \X RsTerms
    BY DEF StorageInv, RsTypeOK
  <2>2. e[1] \in Nat /\ ~(e[1] <= rsSnapFile)
    BY <1>4, <2>1, Ground
  <2>3. e \in EntriesOf(LoadedFiles)
    BY <2>2 DEF StorageInv, AnswersHeld
  <2> QED BY <1>4, <1>5, <2>3, Ground, LoadedEntries
<1>12. CommitsHeld'
  <2> SUFFICES ASSUME CommittedSurvives
               PROVE  CommittedSurvives'
    BY <1>1 DEF StorageInv, CommitsHeld
  <2>1. AgreesTo(LoadedFiles', rsHardFile, rsTruth)
    BY <1>4, <1>5, Ground, Agreements, LoadedEntries
  <2>2. LoadedFiles' \in RsLogs
    BY <1>4, <1>5, Ground, LoadedShape
  <2>3. \A e \in EntriesOf(LoadedFiles') : e[1] <= rsHardFile => e[2] = rsTruth[e[1]]
    BY <2>1, <2>2, AgreeByIndex
  <2> QED BY <1>1, <2>3 DEF CommittedSurvives
<1> QED BY <1>6, <1>7, <1>8, <1>9, <1>10, <1>11, <1>12 DEF StorageInv

\* An installed snapshot empties the entries file (ApplySnapshot).
LEMMA WriteSnapshotLogStep ==
    ASSUME StorageInv, WriteSnapshotLog
    PROVE  StorageInv'
<1>1. /\ rsStatus = "up" /\ rsPc = "snapshot log" /\ rsLogFile' = EmptyLog(rsTodo.snap)
      /\ rsMem' = EmptyLog(rsTodo.snap) /\ rsAcked' = {} /\ rsPc' = "hard state"
      /\ UNCHANGED <<rsTruth, rsCommit, rsHardFile, rsSnapFile, rsTodo, rsStatus, rsCuts, rsCrashes, rsFlushed, rsLost>>
  BY DEF WriteSnapshotLog
<1>2. rsTodo.snap > 0 /\ rsSnapFile = rsTodo.snap /\ rsTodo.ents = <<>>
  BY <1>1 DEF StorageInv, ReadyInv
<1> PICK log : log = EmptyLog(rsTodo.snap)
  OBVIOUS
<1>3. /\ log \in RsLogs /\ log.from = rsSnapFile /\ LastOf(log) = rsSnapFile /\ EntriesOf(log) = {}
  BY <1>2, Ground, EmptyLogShape
<1>4. LoadedFiles' = log
  <2>1. Loaded(rsSnapFile, log) = log
    <3>1. rsSnapFile <= rsSnapFile /\ log.from <= rsSnapFile
      BY <1>3, Ground
    <3> QED BY <1>3, <3>1, Ground, LoadedTwice
  <2> QED BY <1>1, <2>1 DEF LoadedFiles
<1>5. RsTypeOK'
  BY <1>1, <1>3 DEF StorageInv, RsTypeOK, RsSteps
<1>6. FileInv'
  <2>0. rsSnapFile <= rsSnapFile
    BY Ground
  <2>1. rsLogFile'.from <= rsSnapFile'
    BY <1>1, <1>3, <2>0
  <2>2. rsPc' \notin {"frames", "send", "compact"} /\ rsMem' = LoadedFiles'
    BY <1>1, <1>4
  <2> QED BY <2>1, <2>2 DEF FileInv
<1>7. ReadyInv'
  <2>0. rsTodo.commit = rsTodo.snap /\ rsCommit < rsTodo.snap
    BY <1>1, <1>2 DEF StorageInv, ReadyInv
  <2>1. rsTodo.snap # 0
    BY <1>2, ReadyFields
  <2>2. rsCommit <= rsTodo.commit /\ rsTodo.commit <= Len(rsTruth)
    BY <1>1 DEF StorageInv, ReadyInv
  <2> QED BY <1>1, <1>2, <2>0, <2>1, <2>2 DEF ReadyInv
<1>8. CommitInv'
  <2>1. rsTodo.snap # 0
    BY <1>2, ReadyFields
  <2> QED BY <1>1, <2>1 DEF StorageInv, CommitInv
<1>9. WindowInv'
  BY <1>1 DEF StorageInv, WindowInv
<1>10. AnswersHeld' /\ CommitsHeld'
  BY <1>1, <1>3, <1>4 DEF AnswersHeld, CommitsHeld, CommittedSurvives
<1> QED BY <1>5, <1>6, <1>7, <1>8, <1>9, <1>10 DEF StorageInv

\* The hard state is written before the entries (SetHardState).
LEMMA WriteHardStateStep ==
    ASSUME StorageInv, WriteHardState
    PROVE  StorageInv'
<1>1. /\ rsStatus = "up" /\ rsPc = "hard state" /\ rsHardFile' = rsTodo.commit
      /\ rsPc' = IF rsTodo.ents = <<>> THEN "send" ELSE "entries"
      /\ UNCHANGED <<rsTruth, rsMem, rsCommit, rsSnapFile, rsLogFile, rsTodo, rsAcked, rsStatus, rsCuts, rsCrashes, rsFlushed, rsLost>>
  BY DEF WriteHardState
<1>2. LoadedFiles' = LoadedFiles /\ rsMem = LoadedFiles
  BY <1>1 DEF StorageInv, FileInv, LoadedFiles
<1>3. rsTodo.commit <= Len(rsTruth) /\ rsPc' \in {"send", "entries"}
  BY <1>1 DEF StorageInv, ReadyInv
<1>4. RsTypeOK'
  <2>1. rsTodo.commit \in 0..MaxIndex
    BY DEF StorageInv, RsTypeOK, RsReadys
  <2> QED BY <1>1, <1>3, <2>1 DEF StorageInv, RsTypeOK, RsSteps
<1>5. FileInv'
  <2>1. rsPc' = "send" => Written' = rsMem
    BY <1>1 DEF Written
  <2> QED BY <1>1, <1>2, <1>3, <2>1, Ground DEF FileInv
<1>6. ReadyInv'
  BY <1>1, <1>3 DEF StorageInv, ReadyInv, Agrees
<1>7. CommitInv'
  <2>1. rsTodo.commit \in 0..Len(rsTruth)
    BY <1>3, Ground, ReadyFields
  <2> QED BY <1>1, <1>3, <2>1 DEF StorageInv, CommitInv
<1>8. WindowInv'
  BY <1>1, <1>3 DEF StorageInv, WindowInv
<1>9. AnswersHeld'
  BY <1>1, <1>2 DEF StorageInv, AnswersHeld
<1>10. CommitsHeld'
  <2> SUFFICES ASSUME rsTodo.ents = <<>>
               PROVE  CommittedSurvives'
    BY <1>1 DEF CommitsHeld
  <2>1. CASE rsTodo.snap > 0
    <3>1. rsMem = EmptyLog(rsTodo.snap)
      BY <1>1, <2>1 DEF StorageInv, ReadyInv
    <3>2. rsTodo.snap \in 0..MaxIndex
      BY DEF StorageInv, RsTypeOK, RsReadys
    <3>3. EntriesOf(LoadedFiles') = {}
      BY <1>2, <3>1, <3>2, EmptyLogShape
    <3> QED BY <3>3 DEF CommittedSurvives
  <2>2. CASE rsTodo.snap = 0
    <3>1. Agrees(rsTodo.commit)
      BY <1>1, <2>2 DEF StorageInv, ReadyInv
    <3> QED BY <1>1, <1>2, <3>1 DEF CommittedSurvives, Agrees
  <2> QED BY <2>1, <2>2, ReadyFields
<1> QED BY <1>4, <1>5, <1>6, <1>7, <1>8, <1>9, <1>10 DEF StorageInv

\* The file a frame is appended to: what it would load is a part of what the
\* Ready leads to, and the frame is the next entry of that.
LEMMA FrameBase ==
    ASSUME StorageInv, AppendFrame
    PROVE  LET base == IF rsLogFile.ents = <<>> THEN EmptyLog(rsTodo.from) ELSE rsLogFile IN
           /\ base \in RsLogs /\ base.from <= rsSnapFile /\ rsSnapFile <= LastOf(base)
           /\ Prefix(Loaded(rsSnapFile, base), Written) /\ LoadedFiles = Loaded(rsSnapFile, base)
           /\ rsTodo.from <= LastOf(base) /\ LastOf(base) < rsTodo.from + Len(rsTodo.ents)
           /\ rsTodo.from = LastOf(rsMem) /\ rsMem.from = rsSnapFile
<1> DEFINE base == IF rsLogFile.ents = <<>> THEN EmptyLog(rsTodo.from) ELSE rsLogFile
<1>1. rsStatus = "up" /\ rsPc \in {"entries", "frames"} /\ (rsPc = "entries" => AppendsOnly)
  BY DEF AppendFrame
<1>2. rsTodo.ents # <<>>
  BY <1>1 DEF StorageInv, ReadyInv
<1>3. /\ Written \in RsLogs /\ Written.from = rsMem.from
      /\ LastOf(Written) = rsTodo.from + Len(rsTodo.ents)
      /\ \A i \in (rsMem.from + 1)..rsTodo.from : Term(Written, i) = Term(rsMem, i)
      /\ rsMem.from <= rsCommit /\ rsCommit <= rsTodo.from /\ rsTodo.from <= LastOf(rsMem)
      /\ Len(rsTodo.ents) > 0
  BY <1>1, <1>2, WrittenShape
<1>4. /\ rsMem \in RsLogs /\ rsMem.from \in Nat /\ LastOf(rsMem) \in Nat /\ rsTodo.from \in Nat
      /\ Len(rsTodo.ents) \in Nat /\ LastOf(rsLogFile) \in Nat /\ rsLogFile.from \in Nat
      /\ rsLogFile \in RsLogs
  BY Ground, ReadyFields, LogFields
<1>5. CASE rsPc = "entries"
  <2>1. rsMem = LoadedFiles /\ rsMem.from = rsSnapFile
    BY <1>1, <1>5, Ground DEF StorageInv, FileInv
  <2>2. rsTodo.from = LastOf(rsMem) => Prefix(rsMem, Written)
    <3>1. LastOf(rsMem) <= LastOf(rsMem) + Len(rsTodo.ents)
      BY <1>4
    <3> QED BY <1>3, <3>1 DEF Prefix
  <2>3. CASE rsLogFile.ents = <<>>
    <3>1. LastOf(rsLogFile) <= rsSnapFile
      <4>1. LastOf(rsLogFile) = rsLogFile.from
        BY <1>4, <2>3, LogFields
      <4> QED BY <4>1, Ground
    <3>2. LastOf(rsMem) = rsSnapFile
      BY <2>1, <3>1, Ground
    <3>3. rsTodo.from = rsSnapFile
      BY <1>3, <1>4, <2>1, <3>2, Ground
    <3>4. base = EmptyLog(rsSnapFile) /\ LoadedFiles = EmptyLog(rsSnapFile)
      BY <2>3, <3>1, <3>3 DEF LoadedFiles, Loaded, EmptyLog
    <3>5. base \in RsLogs /\ base.from = rsSnapFile /\ LastOf(base) = rsSnapFile
      BY <3>4, Ground, EmptyLogShape
    <3>6. Loaded(rsSnapFile, base) = base
      <4>1. base.from <= rsSnapFile /\ rsSnapFile <= rsSnapFile
        BY <3>5, Ground
      <4> HIDE DEF base
      <4> QED BY <3>5, <4>1, Ground, LoadedTwice
    <3>7. rsSnapFile <= rsSnapFile /\ rsSnapFile < rsSnapFile + Len(rsTodo.ents)
      BY <1>3, <1>4, Ground
    <3> HIDE DEF base
    <3>8. QED BY <2>1, <2>2, <3>2, <3>3, <3>4, <3>5, <3>6, <3>7 DEF base
  <2>4. CASE rsLogFile.ents # <<>>
    <3>1. LastOf(rsLogFile) = rsTodo.from
      BY <1>1, <1>5, <2>4 DEF AppendsOnly
    <3>2. rsSnapFile <= LastOf(rsLogFile)
      BY <1>3, <1>4, <2>1, <3>1, Ground
    <3>3. LastOf(rsMem) = rsTodo.from
      BY <1>4, <2>1, <3>1, <3>2, Ground
    <3>4. base = rsLogFile
      BY <2>4
    <3>5. rsTodo.from <= rsTodo.from /\ rsTodo.from < rsTodo.from + Len(rsTodo.ents)
      BY <1>3, <1>4
    <3> HIDE DEF base
    <3> QED BY <2>1, <2>2, <3>1, <3>2, <3>3, <3>4, <3>5, Ground DEF base, LoadedFiles
  <2> QED BY <2>3, <2>4
<1>6. CASE rsPc = "frames"
  <2>1. /\ Prefix(LoadedFiles, Written) /\ rsMem.from = rsSnapFile
        /\ rsTodo.from = LastOf(rsMem) /\ rsLogFile.ents # <<>>
        /\ LastOf(rsLogFile) \in (rsTodo.from + 1)..(rsTodo.from + Len(rsTodo.ents) - 1)
    BY <1>1, <1>6 DEF StorageInv, FileInv
  <2>2. base = rsLogFile
    BY <2>1
  <2>3. /\ rsTodo.from <= LastOf(rsLogFile) /\ LastOf(rsLogFile) < rsTodo.from + Len(rsTodo.ents)
        /\ rsSnapFile <= LastOf(rsLogFile)
    BY SMTT(60), <1>3, <1>4, <2>1, Ground
  <2> HIDE DEF base
  <2> QED BY <2>1, <2>2, <2>3, Ground DEF base, LoadedFiles
<1> QED BY <1>1, <1>5, <1>6

\* One frame is appended to the entries file (appendEntriesLog).
LEMMA AppendFrameStep ==
    ASSUME StorageInv, AppendFrame
    PROVE  StorageInv'
<1> DEFINE b == IF rsLogFile.ents = <<>> THEN EmptyLog(rsTodo.from) ELSE rsLogFile
<1>1. /\ rsStatus = "up" /\ rsPc \in {"entries", "frames"}
      /\ rsLogFile' = [b EXCEPT !.ents = Append(@, rsTodo.ents[(LastOf(b) - rsTodo.from) + 1])]
      /\ rsPc' = IF (LastOf(b) - rsTodo.from) + 1 = Len(rsTodo.ents) THEN "send" ELSE "frames"
      /\ UNCHANGED <<rsTruth, rsMem, rsCommit, rsHardFile, rsSnapFile, rsTodo, rsAcked, rsStatus, rsCuts, rsCrashes, rsFlushed, rsLost>>
  BY DEF AppendFrame
<1>2. PICK base : base = b
  OBVIOUS
<1>3. /\ base \in RsLogs /\ base.from <= rsSnapFile /\ rsSnapFile <= LastOf(base)
      /\ Prefix(Loaded(rsSnapFile, base), Written) /\ LoadedFiles = Loaded(rsSnapFile, base)
      /\ rsTodo.from <= LastOf(base) /\ LastOf(base) < rsTodo.from + Len(rsTodo.ents)
      /\ rsTodo.from = LastOf(rsMem) /\ rsMem.from = rsSnapFile
  BY <1>2, FrameBase
<1> HIDE DEF b
<1>4. PICK last \in Nat, from \in Nat, len \in Nat, done \in Nat, snap \in Nat, low \in Nat :
         /\ last = LastOf(base) /\ from = rsTodo.from /\ len = Len(rsTodo.ents) /\ snap = rsSnapFile
         /\ done = last - from /\ last = from + done /\ done < len /\ low = base.from
  <2>1. /\ LastOf(base) \in Nat /\ rsTodo.from \in Nat /\ Len(rsTodo.ents) \in Nat /\ rsSnapFile \in Nat
        /\ base.from \in Nat
    BY <1>3, Ground, LogFields, ReadyFields
  <2>2. LastOf(base) - rsTodo.from \in Nat /\ LastOf(base) = rsTodo.from + (LastOf(base) - rsTodo.from)
        /\ LastOf(base) - rsTodo.from < Len(rsTodo.ents)
    BY <1>3, <2>1
  <2> QED BY <2>1, <2>2
<1>a. last = from + done /\ done < len
  BY <1>4
<1>b. low <= snap /\ snap <= last
  BY <1>3, <1>4
<1>5. PICK t : t = rsTodo.ents[done + 1]
  OBVIOUS
<1>6. done + 1 \in 1..len /\ t \in RsTerms
  <2>1. done + 1 \in 1..len
    BY <1>a
  <2> QED BY <1>4, <1>5, <2>1, ReadyFields
<1>7. rsTodo.ents # <<>> /\ rsPc \notin {"idle", "compact"}
  BY <1>1 DEF StorageInv, ReadyInv
<1>8. /\ Written \in RsLogs /\ Written.from = rsMem.from /\ LastOf(Written) = from + len
      /\ \A i \in (from + 1)..(from + len) : Term(Written, i) = rsTodo.ents[i - from]
      /\ LastOf(Written) <= MaxIndex /\ rsTodo.snap = 0
  BY <1>1, <1>4, <1>7, WrittenShape
<1>9. PICK new : new = [base EXCEPT !.ents = Append(@, t)]
  OBVIOUS
<1>10. rsLogFile' = new /\ rsPc' = IF done + 1 = len THEN "send" ELSE "frames"
  BY <1>1, <1>2, <1>4, <1>5, <1>9
<1>11. /\ new \in RsLogs /\ new.from = base.from /\ LastOf(new) = last + 1
       /\ \A i \in (base.from + 1)..last : Term(new, i) = Term(base, i)
       /\ Term(new, last + 1) = t /\ new.ents # <<>>
  <2>1. last + 1 <= MaxIndex
    <3>1. last + 1 <= from + len /\ from + len \in Nat
      BY <1>a
    <3>2. from + len <= MaxIndex
      BY <1>8
    <3> HIDE DEF b
    <3> QED BY <3>1, <3>2, RaftStorageAssumption
  <2> QED BY <1>3, <1>4, <1>6, <1>9, <2>1, AppendShape
<1>12. PICK old : old = Loaded(snap, base)
  OBVIOUS
<1>13. PICK res : res = Loaded(snap, new)
  OBVIOUS
<1>14. /\ old \in RsLogs /\ old.from = snap /\ LastOf(old) = last
       /\ \A i \in (snap + 1)..last : Term(old, i) = Term(base, i)
  <2>0. snap \in 0..MaxIndex /\ base \in RsLogs /\ base.from <= snap
    BY <1>3, <1>4, Ground
  <2>1. /\ old \in RsLogs /\ old.from = snap /\ LastOf(old) = IF LastOf(base) <= snap THEN snap ELSE LastOf(base)
        /\ \A i \in (snap + 1)..LastOf(base) : Term(old, i) = Term(base, i)
    BY <1>12, <2>0, LoadedShape
  <2>2. last <= snap => snap = last
    BY <1>b
  <2>3. last = LastOf(base)
    BY <1>4
  <2> QED BY <2>1, <2>2, <2>3
<1>15. /\ res \in RsLogs /\ res.from = snap /\ LastOf(res) = last + 1
       /\ \A i \in (snap + 1)..(last + 1) : Term(res, i) = Term(new, i)
  <2>1. snap \in 0..MaxIndex /\ new.from <= snap
    BY <1>3, <1>4, <1>11, Ground
  <2>2. /\ res \in RsLogs /\ res.from = snap /\ LastOf(res) = IF LastOf(new) <= snap THEN snap ELSE LastOf(new)
        /\ \A i \in (snap + 1)..LastOf(new) : Term(res, i) = Term(new, i)
    BY <1>11, <1>13, <2>1, LoadedShape
  <2>3. ~(last + 1 <= snap)
    BY <1>b
  <2> QED BY <1>11, <2>2, <2>3
<1>16. LoadedFiles' = res /\ LoadedFiles = old
  BY <1>1, <1>3, <1>4, <1>10, <1>12, <1>13 DEF LoadedFiles
<1>17. \A i \in (snap + 1)..last : i \in (base.from + 1)..last /\ i \in (snap + 1)..(last + 1)
  <2>1. \A i \in (snap + 1)..last : i \in (low + 1)..last /\ i \in (snap + 1)..(last + 1)
    BY <1>b
  <2> QED BY <1>4, <2>1
<1>18. Prefix(old, res)
  <2>1. last <= last + 1
    OBVIOUS
  <2>2. \A i \in (snap + 1)..last : Term(old, i) = Term(res, i)
    BY <1>11, <1>14, <1>15, <1>17
  <2> QED BY <1>14, <1>15, <2>1, <2>2 DEF Prefix
<1>19. Prefix(res, Written)
  <2>1. last + 1 <= from + len
    BY <1>a
  <2>2. ASSUME NEW i \in (snap + 1)..(last + 1)
        PROVE  Term(res, i) = Term(Written, i)
    <3>1. CASE i = last + 1
      <4>1. i \in (from + 1)..(from + len) /\ i - from = done + 1
        BY <1>a, <3>1
      <4>2. Term(Written, i) = t
        BY <1>5, <1>8, <4>1
      <4> QED BY <1>11, <1>15, <3>1, <4>2
    <3>2. CASE i # last + 1
      <4>1. i \in (snap + 1)..last
        BY <3>2
      <4>2. Term(old, i) = Term(Written, i)
        BY <1>3, <1>4, <1>12, <1>14, <4>1 DEF Prefix
      <4> QED BY <1>14, <1>11, <1>15, <1>17, <4>1, <4>2
    <3> QED BY <3>1, <3>2
  <2>3. res.from = Written.from
    BY <1>3, <1>4, <1>8, <1>15
  <2> QED BY <1>8, <1>15, <2>1, <2>2, <2>3 DEF Prefix
<1>20. Written' = Written /\ rsPc' \in {"send", "frames"}
  BY <1>1, <1>10 DEF Written
<1>21. RsTypeOK'
  BY <1>1, <1>10, <1>11, <1>20 DEF StorageInv, RsTypeOK, RsSteps
<1>22. FileInv'
  <2>1. rsLogFile'.from <= rsSnapFile'
    BY <1>1, <1>3, <1>10, <1>11
  <2>2. ASSUME rsPc' = "frames"
        PROVE  last + 1 \in (from + 1)..(from + len - 1)
    <3>1. done + 1 # len
      BY <1>10, <2>2
    <3> QED BY <1>a, <3>1
  <2>3. ASSUME rsPc' = "send"
        PROVE  res = Written
    <3>1. done + 1 = len
      BY <1>10, <2>3
    <3>2. from + len <= last + 1
      BY <1>a, <3>1
    <3> QED BY <1>8, <1>15, <1>19, <3>2, LogEqual
  <2>4. rsPc' = "frames" =>
           /\ Prefix(LoadedFiles', Written') /\ rsMem'.from = rsSnapFile'
           /\ rsTodo'.from = LastOf(rsMem') /\ rsLogFile'.ents # <<>>
           /\ LastOf(rsLogFile') \in (rsTodo'.from + 1)..(rsTodo'.from + Len(rsTodo'.ents) - 1)
    BY <1>1, <1>3, <1>4, <1>10, <1>11, <1>16, <1>19, <1>20, <2>2
  <2> QED BY <1>16, <1>20, <2>1, <2>3, <2>4 DEF FileInv
<1>23. ReadyInv'
  BY <1>1, <1>7, <1>8, <1>20 DEF StorageInv, ReadyInv, Agrees
<1>24. CommitInv'
  BY <1>1, <1>20 DEF StorageInv, CommitInv
<1>25. WindowInv'
  BY <1>1, <1>20 DEF StorageInv, WindowInv
<1>26. AnswersHeld'
  <2>1. EntriesOf(old) \subseteq EntriesOf(res)
    BY <1>14, <1>15, <1>18, PrefixEntries
  <2> QED BY <1>1, <1>16, <2>1 DEF StorageInv, AnswersHeld
<1>27. CommitsHeld'
  <2>1. rsHardFile = rsTodo.commit
    BY <1>1 DEF StorageInv, CommitInv
  <2>2. AgreesTo(res, rsHardFile, rsTruth)
    BY <1>1, <1>7, <1>8, <1>15, <1>19, <2>1, WrittenAgrees, PrefixEntries
  <2>3. \A e \in EntriesOf(res) : e[1] <= rsHardFile => e[2] = rsTruth[e[1]]
    BY <1>15, <2>2, AgreeByIndex
  <2> QED BY <1>1, <1>16, <2>3 DEF CommitsHeld, CommittedSurvives
<1> QED BY <1>21, <1>22, <1>23, <1>24, <1>25, <1>26, <1>27 DEF StorageInv

\* Entries that replace others are written to a new file (writeEntriesLogAtomic).
LEMMA RewriteEntriesStep ==
    ASSUME StorageInv, RewriteEntries
    PROVE  StorageInv'
<1>1. /\ rsStatus = "up" /\ rsPc = "entries"
      /\ rsLogFile' = Replaced(rsMem, rsTodo.from, rsTodo.ents)
      /\ rsAcked' = {e \in rsAcked : e[1] <= rsTodo.from} /\ rsPc' = "send"
      /\ UNCHANGED <<rsTruth, rsMem, rsCommit, rsHardFile, rsSnapFile, rsTodo, rsStatus, rsCuts, rsCrashes, rsFlushed, rsLost>>
  BY DEF RewriteEntries
<1>2. rsTodo.ents # <<>>
  BY <1>1 DEF StorageInv, ReadyInv
<1>3. rsMem = LoadedFiles /\ rsMem.from = rsSnapFile
  BY <1>1, Ground DEF StorageInv, FileInv
<1>4. /\ Written = Replaced(rsMem, rsTodo.from, rsTodo.ents)
      /\ Written \in RsLogs /\ Written.from = rsMem.from
      /\ LastOf(Written) = rsTodo.from + Len(rsTodo.ents)
      /\ \A i \in (rsMem.from + 1)..rsTodo.from : Term(Written, i) = Term(rsMem, i)
      /\ rsTodo.snap = 0
  BY <1>1, <1>2, WrittenShape
<1>5. LoadedFiles' = Written
  <2>1. Written.from <= rsSnapFile /\ rsSnapFile <= rsSnapFile
    BY <1>3, <1>4, Ground
  <2>2. Loaded(rsSnapFile, Written) = Written
    BY <1>3, <1>4, <2>1, Ground, LoadedTwice
  <2> QED BY <1>1, <1>4, <2>2 DEF LoadedFiles
<1>6. Written' = Written
  BY <1>1 DEF Written
<1>7. RsTypeOK'
  BY <1>1, <1>4 DEF StorageInv, RsTypeOK, RsSteps
<1>8. FileInv'
  <2>1. rsLogFile'.from <= rsSnapFile'
    <3>1. rsSnapFile <= rsSnapFile
      BY Ground
    <3> QED BY <1>1, <1>3, <1>4, <3>1
  <2>2. rsPc' \notin {"idle", "snapshot", "hard state", "entries", "frames", "compact"}
    BY <1>1
  <2> QED BY <1>5, <1>6, <2>1, <2>2 DEF FileInv
<1>9. ReadyInv'
  BY <1>1, <1>2, <1>4 DEF StorageInv, ReadyInv, Agrees
<1>10. CommitInv'
  BY <1>1 DEF StorageInv, CommitInv
<1>11. WindowInv'
  BY <1>1 DEF StorageInv, WindowInv
<1>12. AnswersHeld'
  <2> SUFFICES ASSUME NEW e \in rsAcked, e[1] <= rsTodo.from, ~(e[1] <= rsSnapFile)
               PROVE  e \in EntriesOf(Written)
    BY <1>1, <1>5 DEF AnswersHeld
  <2>1. e \in EntriesOf(rsMem)
    BY <1>3 DEF StorageInv, AnswersHeld
  <2>2. PICK i \in (rsMem.from + 1)..LastOf(rsMem) : e = <<i, Term(rsMem, i)>>
    BY <2>1, Ground, EntryIn
  <2>3. i <= rsTodo.from
    BY <2>2
  <2>4. i \in (rsMem.from + 1)..rsTodo.from /\ i \in (rsMem.from + 1)..(rsTodo.from + Len(rsTodo.ents))
    <3>1. rsMem.from \in Nat /\ LastOf(rsMem) \in Nat /\ rsTodo.from \in Nat /\ Len(rsTodo.ents) \in Nat
      BY Ground, LogFields, ReadyFields
    <3> QED BY <2>3, <3>1
  <2> QED BY <1>4, <2>2, <2>4, EntryIn
<1>13. CommitsHeld'
  <2>1. rsHardFile = rsTodo.commit
    BY <1>1 DEF StorageInv, CommitInv
  <2>2. AgreesTo(Written, rsHardFile, rsTruth)
    BY <1>1, <1>2, <2>1, WrittenAgrees
  <2>3. \A e \in EntriesOf(Written) : e[1] <= rsHardFile => e[2] = rsTruth[e[1]]
    BY <1>4, <2>2, AgreeByIndex
  <2> QED BY <1>1, <1>5, <2>3 DEF CommitsHeld, CommittedSurvives
<1> QED BY <1>7, <1>8, <1>9, <1>10, <1>11, <1>12, <1>13 DEF StorageInv

\* The commit index of a Ready lies within the log that the Ready leads to.
LEMMA SendReaches ==
    ASSUME StorageInv, rsStatus = "up", rsPc = "send"
    PROVE  /\ Written = LoadedFiles /\ rsHardFile = rsTodo.commit
           /\ rsSnapFile <= rsTodo.commit /\ rsTodo.commit <= LastOf(LoadedFiles)
<1>1. Written = LoadedFiles /\ rsHardFile = rsTodo.commit /\ Written.from = rsSnapFile
  BY Ground DEF StorageInv, FileInv, CommitInv
<1>2. rsCommit <= rsTodo.commit
  BY DEF StorageInv, ReadyInv
<1>3. CASE rsTodo.ents # <<>>
  <2>1. rsMem.from <= rsCommit /\ Written.from = rsMem.from /\ LastOf(Written) = rsTodo.from + Len(rsTodo.ents)
    BY <1>3, WrittenShape
  <2>2. rsTodo.commit <= rsTodo.from + Len(rsTodo.ents)
    BY <1>3 DEF StorageInv, ReadyInv
  <2>3. rsSnapFile <= rsCommit /\ rsSnapFile <= rsTodo.commit
    BY <1>1, <1>2, <2>1, Ground, ReadyFields
  <2> QED BY <1>1, <2>1, <2>2, <2>3
<1>4. CASE rsTodo.ents = <<>> /\ rsTodo.snap > 0
  <2>1. rsMem = EmptyLog(rsTodo.snap) /\ rsTodo.commit = rsTodo.snap /\ Written = rsMem
    BY <1>4 DEF StorageInv, ReadyInv, Written
  <2>2. rsTodo.snap \in 0..MaxIndex
    BY DEF StorageInv, RsTypeOK, RsReadys
  <2>3. rsMem.from = rsTodo.snap /\ LastOf(rsMem) = rsTodo.snap
    BY <2>1, <2>2, EmptyLogShape
  <2>4. rsTodo.snap <= rsTodo.snap
    BY <2>2
  <2> QED BY <1>1, <2>1, <2>3, <2>4
<1>5. CASE rsTodo.ents = <<>> /\ rsTodo.snap = 0
  <2>1. rsTodo.commit <= LastOf(rsMem) /\ Written = rsMem
    BY <1>5 DEF StorageInv, ReadyInv, Written
  <2>2. rsMem.from <= rsCommit
    BY <1>5 DEF StorageInv, CommitInv
  <2>3. rsSnapFile <= rsCommit /\ rsSnapFile <= rsTodo.commit
    BY <1>1, <1>2, <2>1, <2>2, Ground, ReadyFields
  <2> QED BY <1>1, <2>1, <2>3
<1> QED BY <1>3, <1>4, <1>5, ReadyFields

\* The member answers for what it has written (processReady).
LEMMA SendMessagesStep ==
    ASSUME StorageInv, SendMessages
    PROVE  StorageInv'
<1>1. /\ rsStatus = "up" /\ rsPc = "send" /\ rsMem' = Written /\ rsCommit' = rsTodo.commit
      /\ rsAcked' = EntriesOf(rsMem') /\ rsTodo' = NoReady /\ rsPc' = "idle"
      /\ UNCHANGED <<rsTruth, rsHardFile, rsSnapFile, rsLogFile, rsStatus, rsCuts, rsCrashes, rsFlushed, rsLost>>
  BY DEF SendMessages, Written, rsFiles
<1>2. /\ Written = LoadedFiles /\ rsHardFile = rsTodo.commit
      /\ rsSnapFile <= rsTodo.commit /\ rsTodo.commit <= LastOf(LoadedFiles)
  BY <1>1, SendReaches
<1>3. LoadedFiles' = LoadedFiles /\ rsMem' = LoadedFiles
  BY <1>1, <1>2 DEF LoadedFiles
<1>4. RsTypeOK'
  <2>1. NoReady \in RsReadys
    <3>1. 0 \in 0..MaxIndex
      BY RaftStorageAssumption
    <3> QED BY <3>1 DEF NoReady, RsReadys
  <2>2. rsTodo.commit \in 0..MaxIndex
    BY DEF StorageInv, RsTypeOK, RsReadys
  <2>3. EntriesOf(LoadedFiles) \subseteq (1..MaxIndex) \X RsTerms
    BY Ground, EntryIn
  <2> QED BY <1>1, <1>3, <2>1, <2>2, <2>3, Ground DEF StorageInv, RsTypeOK, RsSteps
<1>5. FileInv' /\ ReadyInv'
  BY <1>1, <1>3, Ground DEF FileInv, ReadyInv
<1>6. CommitInv'
  <2>1. {rsCommit', rsHardFile', rsSnapFile'} \subseteq 0..Len(rsTruth')
    BY <1>1, <1>2 DEF StorageInv, CommitInv
  <2>2. rsMem'.from <= rsCommit' /\ rsCommit' <= LastOf(rsMem')
    BY <1>1, <1>2, <1>3, Ground
  <2>3. rsHardFile' <= rsCommit'
    BY <1>1, <1>2, ReadyFields
  <2> QED BY <1>1, <2>1, <2>2, <2>3 DEF CommitInv
<1>7. WindowInv'
  BY <1>1, <1>2 DEF StorageInv, WindowInv
<1>8. AnswersHeld'
  BY <1>1, <1>3 DEF AnswersHeld
<1>9. CommitsHeld'
  BY <1>1, <1>3 DEF StorageInv, CommitsHeld, CommittedSurvives
<1> QED BY <1>4, <1>5, <1>6, <1>7, <1>8, <1>9 DEF StorageInv

\* A local snapshot is stored (CreateSnapshot).
LEMMA SnapshotLocallyStep ==
    ASSUME StorageInv, SnapshotLocally
    PROVE  StorageInv'
<1>1. /\ rsStatus = "up" /\ rsPc = "idle" /\ rsCommit > rsMem.from /\ rsSnapFile' = rsCommit /\ rsPc' = "compact"
      /\ UNCHANGED <<rsTruth, rsMem, rsCommit, rsHardFile, rsLogFile, rsTodo, rsAcked, rsStatus, rsCuts, rsCrashes, rsFlushed, rsLost>>
  BY DEF SnapshotLocally
<1>2. rsMem = LoadedFiles /\ rsMem.from = rsSnapFile
  BY <1>1, Ground DEF StorageInv, FileInv
<1>3. rsCommit \in 0..MaxIndex /\ rsSnapFile <= rsCommit /\ rsLogFile.from <= rsCommit
  <2>1. rsLogFile.from \in Nat
    BY Ground, LogFields
  <2> QED BY <1>1, <1>2, <2>1, Ground
<1>4. LoadedFiles' = Loaded(rsCommit, rsMem)
  BY <1>1, <1>2, <1>3, Ground, LoadedTwice DEF LoadedFiles
<1>5. RsTypeOK'
  BY <1>1, <1>3 DEF StorageInv, RsTypeOK, RsSteps
<1>6. FileInv'
  <2>1. rsLogFile'.from <= rsSnapFile' /\ rsMem'.from <= rsSnapFile' /\ rsSnapFile' = rsCommit'
    BY <1>1, <1>2, <1>3
  <2>2. LoadedFiles' = Loaded(rsSnapFile', rsMem')
    BY <1>1, <1>4
  <2>3. rsPc' \notin {"idle", "snapshot", "hard state", "entries", "frames", "send"}
    BY <1>1
  <2> QED BY <2>1, <2>2, <2>3 DEF FileInv
<1>7. ReadyInv'
  BY <1>1 DEF ReadyInv
<1>8. CommitInv'
  BY <1>1 DEF StorageInv, CommitInv
<1>9. WindowInv'
  BY <1>1 DEF StorageInv, WindowInv
<1>10. AnswersHeld'
  <2> SUFFICES ASSUME NEW e \in rsAcked, ~(e[1] <= rsCommit)
               PROVE  e \in EntriesOf(LoadedFiles')
    BY <1>1 DEF AnswersHeld
  <2>1. e \in (1..MaxIndex) \X RsTerms
    BY DEF StorageInv, RsTypeOK
  <2>2. ~(e[1] <= rsSnapFile)
    BY <1>3, <2>1, Ground
  <2>3. e \in EntriesOf(rsMem)
    BY <1>2, <2>2 DEF StorageInv, AnswersHeld
  <2> QED BY <1>2, <1>3, <1>4, <2>3, Ground, LoadedEntries
<1>11. CommitsHeld'
  <2> SUFFICES ASSUME CommittedSurvives
               PROVE  CommittedSurvives'
    BY <1>1 DEF StorageInv, CommitsHeld
  <2>1. AgreesTo(LoadedFiles', rsHardFile, rsTruth)
    BY <1>2, <1>3, <1>4, Ground, Agreements, LoadedEntries
  <2>2. LoadedFiles' \in RsLogs
    BY <1>2, <1>3, <1>4, Ground, LoadedShape
  <2>3. \A e \in EntriesOf(LoadedFiles') : e[1] <= rsHardFile => e[2] = rsTruth[e[1]]
    BY <2>1, <2>2, AgreeByIndex
  <2> QED BY <1>1, <2>3 DEF CommittedSurvives
<1> QED BY <1>5, <1>6, <1>7, <1>8, <1>9, <1>10, <1>11 DEF StorageInv

\* The entries below it are dropped (Compact).
LEMMA CompactLocallyStep ==
    ASSUME StorageInv, CompactLocally
    PROVE  StorageInv'
<1> PICK kept : kept = [from |-> rsSnapFile,
                        ents |-> SubSeq(rsMem.ents, rsSnapFile - rsMem.from + 1, Len(rsMem.ents))]
  OBVIOUS
<1>1. /\ rsStatus = "up" /\ rsPc = "compact" /\ rsMem' = kept /\ rsLogFile' = kept /\ rsPc' = "idle"
      /\ UNCHANGED <<rsTruth, rsCommit, rsHardFile, rsSnapFile, rsTodo, rsAcked, rsStatus, rsCuts, rsCrashes, rsFlushed, rsLost>>
  BY DEF CompactLocally
<1>2. /\ rsMem.from <= rsSnapFile /\ rsSnapFile = rsCommit /\ LoadedFiles = Loaded(rsSnapFile, rsMem)
      /\ rsCommit <= LastOf(rsMem)
  BY <1>1 DEF StorageInv, FileInv, CommitInv
<1>3. kept = LoadedFiles
  BY <1>2, Ground, KeptIsLoaded
<1>4. LoadedFiles' = LoadedFiles
  <2>1. LoadedFiles.from <= rsSnapFile /\ rsSnapFile <= rsSnapFile
    BY Ground
  <2>2. Loaded(rsSnapFile, LoadedFiles) = LoadedFiles
    BY <2>1, Ground, LoadedTwice
  <2>3. LoadedFiles' = Loaded(rsSnapFile, kept)
    BY <1>1 DEF LoadedFiles
  <2> QED BY <1>3, <2>2, <2>3
<1>5. RsTypeOK'
  BY <1>1, <1>3, Ground DEF StorageInv, RsTypeOK, RsSteps
<1>6. FileInv'
  <2>1. rsLogFile'.from <= rsSnapFile'
    BY <1>1, <1>3, Ground
  <2> QED BY <1>1, <1>3, <1>4, <2>1 DEF FileInv
<1>7. ReadyInv'
  BY <1>1 DEF ReadyInv
<1>8. CommitInv'
  <2>1. rsMem'.from <= rsCommit' /\ rsCommit' <= LastOf(rsMem')
    <3>1. LoadedFiles.from <= LastOf(LoadedFiles) /\ rsCommit <= rsCommit
      BY Ground, LogFields
    <3> QED BY <1>1, <1>2, <1>3, <3>1, Ground
  <2> QED BY <1>1, <2>1 DEF StorageInv, CommitInv
<1>9. WindowInv'
  BY <1>1 DEF StorageInv, WindowInv
<1>10. AnswersHeld'
  BY <1>1, <1>4 DEF StorageInv, AnswersHeld
<1>11. CommitsHeld'
  BY <1>1, <1>4 DEF StorageInv, CommitsHeld, CommittedSurvives
<1> QED BY <1>5, <1>6, <1>7, <1>8, <1>9, <1>10, <1>11 DEF StorageInv

\* Outside the windows, a crash leaves a commit index within what is loaded.
LEMMA StopStep ==
    ASSUME StorageInv, Stops, UNCHANGED rsFiles,
           rsFlushed' \in [hard : 0..MaxIndex, snap : 0..MaxIndex, log : RsLogs], rsLost' \in BOOLEAN
    PROVE  StorageInv'
<1>1. /\ rsStatus = "up" /\ rsCrashes < MaxRsCrashes /\ rsCrashes' = rsCrashes + 1 /\ rsStatus' = "down"
      /\ rsCuts' = rsCuts \cup {rsPc} /\ rsPc' = "idle" /\ rsTodo' = NoReady /\ rsMem' = EmptyLog(0)
      /\ UNCHANGED <<rsTruth, rsCommit, rsHardFile, rsSnapFile, rsLogFile, rsAcked>>
  BY DEF Stops, rsFiles
<1>2. LoadedFiles' = LoadedFiles
  BY <1>1 DEF LoadedFiles
<1>3. RsTypeOK'
  <2>1. NoReady \in RsReadys /\ EmptyLog(0) \in RsLogs
    <3>1. 0 \in 0..MaxIndex
      BY RaftStorageAssumption
    <3> QED BY <3>1, EmptyLogShape DEF NoReady, RsReadys
  <2>2. rsPc \in RsSteps /\ rsCuts \subseteq RsSteps /\ rsCrashes \in 0..MaxRsCrashes
    BY DEF StorageInv, RsTypeOK
  <2>3. rsCrashes' \in 0..MaxRsCrashes
    BY <1>1, <2>2, RaftStorageAssumption
  <2>4. rsPc' \in RsSteps
    BY <1>1 DEF RsSteps
  <2> QED BY <1>1, <2>1, <2>2, <2>3, <2>4 DEF StorageInv, RsTypeOK
<1>4. FileInv' /\ ReadyInv'
  BY <1>1, Ground DEF FileInv, ReadyInv
<1>5. CommitInv'
  BY <1>1 DEF StorageInv, CommitInv
<1>6. WindowInv'
  <2> SUFFICES ASSUME rsPc \notin Windows, rsCuts \cap Windows = {}
               PROVE  rsSnapFile <= rsHardFile /\ rsHardFile <= LastOf(LoadedFiles)
    BY <1>1, <1>2 DEF WindowInv
  <2>0. rsPc \in {"idle", "snapshot", "compact", "send"}
    BY DEF StorageInv, RsTypeOK, RsSteps, Windows
  <2>1. CASE rsPc \in {"idle", "snapshot"}
    <3>1. rsHardFile = rsCommit /\ rsMem = LoadedFiles /\ rsMem.from <= rsCommit /\ rsCommit <= LastOf(rsMem)
      BY <1>1, <2>1 DEF StorageInv, WindowInv, FileInv, CommitInv
    <3> QED BY <3>1, Ground
  <2>2. CASE rsPc = "compact"
    <3>1. rsHardFile = rsCommit /\ rsSnapFile = rsCommit
      BY <1>1, <2>2 DEF StorageInv, WindowInv, FileInv
    <3>2. LoadedFiles.from <= LastOf(LoadedFiles) /\ rsSnapFile <= rsSnapFile
      BY Ground, LogFields
    <3> QED BY <3>1, <3>2, Ground
  <2>3. CASE rsPc = "send"
    BY <1>1, <2>3, SendReaches
  <2> QED BY <2>0, <2>1, <2>2, <2>3
<1>7. AnswersHeld'
  BY <1>1, <1>2 DEF StorageInv, AnswersHeld
<1>8. CommitsHeld'
  BY <1>1, <1>2 DEF StorageInv, CommitsHeld, CommittedSurvives
<1> QED BY <1>3, <1>4, <1>5, <1>6, <1>7, <1>8 DEF StorageInv

\* The files are of the type that a flush gives them.
LEMMA FilesNowTyped ==
    ASSUME StorageInv
    PROVE  FilesNow \in [hard : 0..MaxIndex, snap : 0..MaxIndex, log : RsLogs]
BY DEF StorageInv, RsTypeOK, FilesNow

\* A kill takes none of them, nor does a power loss that loses nothing.
LEMMA CrashStep ==
    ASSUME StorageInv, RsCrash
    PROVE  StorageInv'
<1>1. rsFlushed \in [hard : 0..MaxIndex, snap : 0..MaxIndex, log : RsLogs] /\ rsLost \in BOOLEAN
  BY DEF StorageInv, RsTypeOK
<1> QED BY <1>1, StopStep DEF RsCrash

LEMMA PowerLossStep ==
    ASSUME StorageInv, RsPowerLoss, ~rsLost'
    PROVE  StorageInv'
<1>1. PICK files : /\ rsHardFile' = files.hard /\ rsSnapFile' = files.snap /\ rsLogFile' = files.log
                   /\ rsFlushed' = files
                   /\ rsLost' = (rsLost \/ files # FilesNow)
  BY DEF RsPowerLoss
<1>2. files = FilesNow /\ rsLost' = FALSE
  BY <1>1
<1>3. FilesNow.hard = rsHardFile /\ FilesNow.snap = rsSnapFile /\ FilesNow.log = rsLogFile
  BY DEF FilesNow
<1>4. UNCHANGED rsFiles /\ rsFlushed' = FilesNow
  BY <1>1, <1>2, <1>3 DEF rsFiles
<1> QED BY <1>2, <1>4, FilesNowTyped, StopStep DEF RsPowerLoss

\* Flush changes what a power loss may take, and nothing else.
LEMMA FlushStep ==
    ASSUME StorageInv, RsFlush
    PROVE  StorageInv'
<1>1. /\ rsFlushed' = FilesNow
      /\ UNCHANGED <<rsTruth, rsMem, rsCommit, rsHardFile, rsSnapFile, rsLogFile, rsTodo, rsPc, rsAcked,
                     rsStatus, rsCuts, rsCrashes, rsLost>>
  BY DEF RsFlush, rsFiles
<1>2. LoadedFiles' = LoadedFiles /\ Written' = Written
  BY <1>1 DEF LoadedFiles, Written
<1>3. RsTypeOK'
  BY <1>1, FilesNowTyped DEF StorageInv, RsTypeOK
<1>4. FileInv' /\ CommitInv' /\ WindowInv' /\ AnswersHeld'
  BY <1>1, <1>2 DEF StorageInv, FileInv, CommitInv, WindowInv, AnswersHeld
<1>5. ReadyInv'
  BY <1>1 DEF StorageInv, ReadyInv, Agrees
<1>6. CommitsHeld'
  BY <1>1, <1>2 DEF StorageInv, CommitsHeld, CommittedSurvives
<1> QED BY <1>3, <1>4, <1>5, <1>6 DEF StorageInv

\* What a power loss has taken stays taken.
LEMMA LossStays ==
    ASSUME RsNext, ~rsLost'
    PROVE  ~rsLost
<1> USE DEF ClusterCommits, TakeReady, WriteSnapshot, WriteSnapshotLog, WriteHardState, AppendFrame, RewriteEntries,
            SendMessages, SnapshotLocally, CompactLocally, RsFlush, RsCrash, RsPowerLoss, RsRestart
<1> QED BY DEF RsNext

\* The files are loaded again, or the library panics (load).
LEMMA RestartStep ==
    ASSUME StorageInv, RsRestart
    PROVE  StorageInv'
<1>1. /\ rsStatus = "down"
      /\ UNCHANGED <<rsTruth, rsHardFile, rsSnapFile, rsLogFile, rsTodo, rsPc, rsAcked, rsCuts, rsCrashes, rsFlushed, rsLost>>
  BY DEF RsRestart, rsFiles
<1>2. LoadedFiles' = LoadedFiles /\ rsPc = "idle"
  BY <1>1 DEF LoadedFiles, StorageInv, WindowInv
<1>3. AnswersHeld'
  BY <1>1, <1>2 DEF StorageInv, AnswersHeld
<1>4. CommitsHeld'
  BY <1>1, <1>2 DEF StorageInv, CommitsHeld, CommittedSurvives
<1>5. CASE LoadPanics
  <2>1. rsStatus' = "panic" /\ UNCHANGED <<rsMem, rsCommit>>
    BY <1>5 DEF RsRestart
  <2>2. RsTypeOK'
    BY <1>1, <2>1 DEF StorageInv, RsTypeOK
  <2>3. FileInv' /\ ReadyInv' /\ CommitInv'
    BY <1>1, <2>1 DEF StorageInv, FileInv, ReadyInv, CommitInv
  <2>4. WindowInv'
    <3>1. rsCuts \cap Windows # {}
      <4> SUFFICES ASSUME rsSnapFile <= rsHardFile, rsHardFile <= LastOf(LoadedFiles)
                   PROVE  FALSE
        BY <1>1 DEF StorageInv, WindowInv
      <4>1. ~(rsHardFile < rsSnapFile) /\ ~(rsLogFile.from > rsSnapFile)
        <5>1. rsLogFile.from \in Nat
          BY Ground, LogFields
        <5> QED BY <5>1, Ground
      <4>2. ~(rsHardFile > LastOf(LoadedFiles))
        <5>1. LastOf(LoadedFiles) \in Nat
          BY Ground, LogFields
        <5> QED BY <5>1, Ground
      <4> QED BY <1>5, <4>1, <4>2 DEF LoadPanics
    <3> QED BY <1>1, <2>1, <3>1 DEF WindowInv
  <2> QED BY <1>3, <1>4, <2>2, <2>3, <2>4 DEF StorageInv
<1>6. CASE ~LoadPanics
  <2>1. rsStatus' = "up" /\ rsMem' = LoadedFiles /\ rsCommit' = IF rsHardFile > rsSnapFile THEN rsHardFile ELSE rsSnapFile
    BY <1>6 DEF RsRestart
  <2>2. ~(rsHardFile > LastOf(LoadedFiles))
    BY <1>6 DEF LoadPanics
  <2>3. LastOf(LoadedFiles) \in Nat /\ rsSnapFile <= LastOf(LoadedFiles)
    BY Ground, LogFields
  <2>4. /\ rsCommit' \in 0..Len(rsTruth) /\ rsCommit' \in 0..MaxIndex /\ rsSnapFile <= rsCommit'
        /\ rsCommit' <= LastOf(LoadedFiles) /\ rsHardFile <= rsCommit'
        /\ rsSnapFile <= rsHardFile => rsCommit' = rsHardFile
    BY <2>1, <2>2, <2>3, Ground
  <2>5. RsTypeOK'
    BY <1>1, <2>1, <2>4, Ground DEF StorageInv, RsTypeOK
  <2>6. FileInv' /\ ReadyInv'
    BY <1>1, <1>2, <2>1, Ground DEF FileInv, ReadyInv
  <2>7. CommitInv'
    <3>1. {rsCommit', rsHardFile', rsSnapFile'} \subseteq 0..Len(rsTruth')
      BY <1>1, <2>4 DEF StorageInv, CommitInv
    <3>2. rsMem'.from <= rsCommit' /\ rsCommit' <= LastOf(rsMem')
      BY <2>1, <2>4, Ground
    <3> QED BY <1>1, <1>2, <2>4, <3>1, <3>2 DEF CommitInv
  <2>8. WindowInv'
    BY <1>1, <1>2, <2>1, <2>4 DEF StorageInv, WindowInv
  <2> QED BY <1>3, <1>4, <2>5, <2>6, <2>7, <2>8 DEF StorageInv
<1> QED BY <1>5, <1>6

-----------------------------------------------------------------------------
(* The theorems.                                                           *)

\* The inductive invariant holds until a power loss takes a write: what the
\* files would load, what memory holds and what the Ready being written says
\* fit together at every step of processReady, CreateSnapshot, Compact, Flush
\* and load, however often the daemon is killed.
THEOREM StorageInvariant == RsSpec => [](~rsLost => StorageInv)
<1>1. RsInit => StorageInv
  BY StorageInit
<1>2. (~rsLost => StorageInv) /\ [RsNext]_rsVars => (~rsLost' => StorageInv')
  <2> SUFFICES ASSUME ~rsLost => StorageInv, [RsNext]_rsVars, ~rsLost'
               PROVE  StorageInv'
    OBVIOUS
  <2>1. CASE RsNext
    <3>1. StorageInv
      BY <2>1, LossStays
    <3> QED BY <2>1, <3>1, ClusterCommitsStep, TakeReadyStep, WriteSnapshotStep, WriteSnapshotLogStep,
               WriteHardStateStep, AppendFrameStep, RewriteEntriesStep, SendMessagesStep, SnapshotLocallyStep,
               CompactLocallyStep, FlushStep, CrashStep, PowerLossStep, RestartStep DEF RsNext
  <2>2. CASE UNCHANGED rsVars
    <3>0. StorageInv
      BY <2>2 DEF rsVars
    <3>1. LoadedFiles' = LoadedFiles /\ Written' = Written
      BY <2>2 DEF rsVars, LoadedFiles, Written
    <3>2. RsTypeOK' /\ FileInv' /\ CommitInv' /\ WindowInv' /\ AnswersHeld'
      BY <2>2, <3>0, <3>1 DEF rsVars, StorageInv, RsTypeOK, FileInv, CommitInv, WindowInv, AnswersHeld
    <3>3. ReadyInv'
      BY <2>2, <3>0 DEF rsVars, StorageInv, ReadyInv, Agrees
    <3>4. CommitsHeld'
      BY <2>2, <3>0, <3>1 DEF rsVars, StorageInv, CommitsHeld, CommittedSurvives
    <3> QED BY <3>2, <3>3, <3>4 DEF StorageInv
  <2> QED BY <2>1, <2>2
<1> QED BY <1>1, <1>2, PTL DEF RsSpec

\* What a member has answered for is loaded after a kill at any moment, or its
\* snapshot covers it, and after a power loss that finds on disk all that was
\* written (Append, canAppendEntriesLog, ApplySnapshot, Compact, Flush, load).
THEOREM AnswersKept == RsSpec => []AckedSurvives
<1>1. (~rsLost => StorageInv) => AckedSurvives
  BY DEF StorageInv, AnswersHeld, AckedSurvives
<1> QED BY <1>1, StorageInvariant, PTL

\* What the persisted hard state commits and the files would load is the
\* cluster's log, but for a crash between the hard state and its entries
\* (processReady writes the hard state first) and for what a power loss takes.
THEOREM CommitsKept == RsSpec => []CommittedKept
<1>1. (~rsLost => StorageInv) => CommittedKept
  BY DEF StorageInv, CommitsHeld, CommittedKept
<1> QED BY <1>1, StorageInvariant, PTL

\* A restart panics only over a crash in one of the four windows, and never over
\* a gap between the snapshot and the log, unless a power loss has taken a write
\* (load, newRaft).
THEOREM PanicsInWindow == RsSpec => []PanicWindow
<1>1. (~rsLost => StorageInv) => PanicWindow
  <2> SUFFICES ASSUME StorageInv
               PROVE  /\ rsStatus = "panic" => rsCuts \cap Windows # {}
                      /\ ~(rsLogFile.ents # <<>> /\ rsLogFile.from > rsSnapFile)
    BY DEF PanicWindow, Windows
  <2>1. ~(rsLogFile.from > rsSnapFile)
    <3>1. rsLogFile.from \in Nat
      BY Ground, LogFields
    <3> QED BY <3>1, Ground
  <2>2. rsStatus = "panic" => rsCuts \cap Windows # {}
    BY DEF StorageInv, WindowInv
  <2> QED BY <2>1, <2>2
<1> QED BY <1>1, StorageInvariant, PTL

-----------------------------------------------------------------------------
(* The write-ahead log.                                                    *)

\* Record l is at place j of file s.
At(segs, s, j, l) ==
    /\ s \in DOMAIN segs /\ j \in 1..Len(segs[s].frames)
    /\ segs[s].frames[j].lsn = l /\ l # 0

\* Garbage is at place j of file s.
Bad(segs, s, j) ==
    /\ s \in DOMAIN segs /\ j \in 1..Len(segs[s].frames)
    /\ segs[s].frames[j].lsn = 0

\* The places of a file, and how many of them are synced.
End(segs, s) == Len(segs[s].frames)
Synced(segs, s) == segs[s].synced

\* Record l is in some file, and in the synced part of it.
Kept(l) == \E s \in Starts, j \in Nat : At(walSegs, s, j, l)
Safe(l) == \E s \in Starts, j \in Nat : At(walSegs, s, j, l) /\ j <= Synced(walSegs, s)

\* The log is in use; it is, or it waits to be opened; a writer is at work.
Live == walStatus \in {"open", "recovering"}
Whole == walStatus \in {"open", "recovering", "down"}
Busy(w) == walPc[w] # "idle"

\* Files: no more is synced than there is, all of it after a crash, and what is
\* synced is durable.
FilesInv ==
    /\ DOMAIN walSegs # {}
    /\ \A s \in DOMAIN walSegs :
          /\ Synced(walSegs, s) <= End(walSegs, s)
          /\ walStatus \in {"recovering", "down"} => Synced(walSegs, s) = End(walSegs, s)
    /\ \A s \in Starts, j \in Nat, l \in 1..MaxLSN :
          At(walSegs, s, j, l) =>
             /\ j <= Synced(walSegs, s) => l \in walDurable
             /\ Live => l <= walLast

\* Memory: writers work while the log is open, on LSNs that were given out.
MemoryInv ==
    /\ walStatus # "open" => \A w \in WalWriters : walPc[w] = "idle"
    /\ \A w \in WalWriters : Busy(w) => walAt[w] \in 1..walLast

ShapeInv == FilesInv /\ MemoryInv

\* What a writer has synced is durable.
AckInv ==
    walHarm \cap {"closed unsynced", "unlinked"} = {} =>
        /\ walAcked \subseteq walDurable
        /\ Live => walFile \in DOMAIN walSegs
        /\ \A w \in WalWriters :
              /\ walPc[w] \in {"synced", "applied"} => walAt[w] \in walDurable
              /\ walPc[w] = "appended" =>
                    walAt[w] \in walDurable \/ \E j \in Nat : At(walSegs, walFile, j, walAt[w])

\* The file in use is the last one.
LastInUse == Whole => walFile \in DOMAIN walSegs /\ \A s \in DOMAIN walSegs : s <= walFile

\* No LSN is above the last one given out.
BelowLast ==
    Live => /\ walFile <= walLast + 1 /\ walProgress <= walLast
            /\ \A l \in walDurable : l <= walLast

\* A file's LSNs are below the names of the files behind it.
BelowNames ==
    \A s, t \in DOMAIN walSegs, j \in Nat, l \in 1..MaxLSN : At(walSegs, s, j, l) /\ s < t => l < t

\* What has to be replayed is on disk.
DurableSafe == \A l \in walDurable : l > walProgress => Safe(l)

\* A log that is opened again gives out LSNs above the applied one.
ProgressSafe == Whole => walProgress < walFile \/ Safe(walProgress)

\* A writer's LSN could be the applied one: both of the above hold of it.
WriterSafe(w) ==
    Busy(w) =>
        /\ walAt[w] >= walFile =>
              \E j \in Nat : At(walSegs, walFile, j, walAt[w]) /\ (walPc[w] # "appended" => j <= Synced(walSegs, walFile))
        /\ \A l \in walDurable : l > walAt[w] => Safe(l)

\* Where the LSNs are, and what the applied LSN may pass.
OrderInv ==
    WalWhole =>
        /\ LastInUse /\ BelowLast /\ BelowNames
        /\ DurableSafe /\ ProgressSafe
        /\ \A w \in WalWriters : WriterSafe(w)

\* The stores hold record l's effect or have refused it, or the request has failed;
\* a writer has still to ask them.
Decided(l) == l \in walApplied \cup walRefused \cup walGivenUp
InFlight(l) == \E w \in WalWriters : walAt[w] = l /\ walPc[w] \in {"appended", "synced"}

\* The records that a running log has to account for: those on disk or in a file
\* that recovery would replay, or would if a writer at work moved the applied LSN
\* to its own.
ToAccount(l) ==
    /\ l \in walDurable \/ Kept(l)
    /\ l > walProgress \/ \E w \in WalWriters : Busy(w) /\ l > walAt[w]

\* What may be replayed or passed over is decided.
ForgetInv ==
    /\ \A w \in WalWriters : walPc[w] = "applied" => walAt[w] \in walApplied
    /\ WalWhole /\ walStatus = "open" => \A l \in 1..MaxLSN : ToAccount(l) => Decided(l) \/ InFlight(l)

\* Garbage is the last thing in its file, and only a crash leaves some.
GarbageLast ==
    /\ "cut" \notin walHarm
    /\ walStatus # "corrupt"
    /\ \A s \in DOMAIN walSegs, j \in Nat : Bad(walSegs, s, j) => ~Live /\ j = End(walSegs, s)

\* It is in the file in use: the others are synced.
GarbageInUse ==
    /\ walStatus # "torn"
    /\ Live => \A s \in DOMAIN walSegs \ {walFile} : Synced(walSegs, s) = End(walSegs, s)
    /\ Whole => \A s \in DOMAIN walSegs, j \in Nat : Bad(walSegs, s, j) => s = walFile

\* Garbage in a log whose appends have not failed.
GarbageInv ==
    "failed append" \notin walHarm =>
        /\ GarbageLast
        /\ walHarm \cap {"closed unsynced", "misnamed"} = {} => GarbageInUse

\* Place j of file s comes before place k of file t in a scan.
Earlier(s, j, t, k) == s < t \/ (s = t /\ j < k)

\* The LSNs ascend in the order of a scan.
Ascending(segs) ==
    \A s, t \in DOMAIN segs, j, k \in Nat, l, m \in 1..MaxLSN :
        At(segs, s, j, l) /\ At(segs, t, k, m) /\ Earlier(s, j, t, k) => l < m

\* Record l is in some file.
KeptIn(segs, l) == \E s \in Starts, j \in Nat : At(segs, s, j, l)

\* They start at 1 and none is missing.
Unbroken(segs) == \A l \in 1..MaxLSN : KeptIn(segs, l) => l = 1 \/ KeptIn(segs, l - 1)

\* A file is named after the record behind the last one of the files before it.
Continued(segs) ==
    \A t \in DOMAIN segs : t = 1 \/ \E s \in DOMAIN segs, j \in Nat : s < t /\ At(segs, s, j, t - 1)

\* Only the file in use has records that no sync covers.
OthersSynced ==
    \A s \in DOMAIN walSegs, j \in Nat, l \in 1..MaxLSN :
        At(walSegs, s, j, l) /\ s # walFile => j <= Synced(walSegs, s)

\* What the memory of a running log says of the last record.
LastKept ==
    /\ walLast = 0 \/ KeptIn(walSegs, walLast)
    /\ walSize > 0 => \E j \in Nat : At(walSegs, walFile, j, walLast)
    /\ walFile <= walLast + 1

\* The LSNs of the files, in sequence.
Sequenced ==
    /\ "misnamed" \notin walHarm
    /\ walStatus # "non-contiguous"
    /\ LastInUse
    /\ Whole => Ascending(walSegs) /\ Unbroken(walSegs) /\ Continued(walSegs) /\ OthersSynced
    /\ Live => LastKept

\* They are, while no file was closed unsynced and none removed.
SequenceInv == walHarm \cap {"closed unsynced", "retention"} = {} => Sequenced

\* Segment files of the type that WalTypeOK gives them.
Typed(segs) == DOMAIN segs \subseteq Starts /\ segs \in [DOMAIN segs -> SegmentFiles]

\* A frame is a record or garbage, by its LSN.
LEMMA FrameKinds ==
    ASSUME NEW f \in Frames \cup {Garbage}
    PROVE  /\ f.lsn \in 0..MaxLSN /\ f.lsn \in Nat
           /\ f.lsn = 0 <=> f = Garbage
           /\ f.lsn # 0 => f.lsn \in 1..MaxLSN
BY WalAssumption DEF Frames, Garbage

\* The parts of a file.
LEMMA FileFields ==
    ASSUME NEW segs, Typed(segs), NEW s \in DOMAIN segs
    PROVE  /\ segs[s].frames \in Seq(Frames \cup {Garbage})
           /\ End(segs, s) \in Nat /\ Synced(segs, s) \in Nat
           /\ s \in Starts /\ s \in Nat
           /\ \A j \in 1..End(segs, s) : segs[s].frames[j] \in Frames \cup {Garbage}
<1>1. segs[s] \in SegmentFiles
  BY DEF Typed
<1>2. segs[s].frames \in Seq(Frames \cup {Garbage}) /\ segs[s].synced \in Nat
  BY <1>1 DEF SegmentFiles
<1>3. s \in Starts /\ s \in Nat
  BY WalAssumption DEF Typed, Starts
<1> QED BY <1>2, <1>3 DEF End, Synced

\* What is at a place.
LEMMA PlaceFields ==
    ASSUME NEW segs, Typed(segs)
    PROVE  /\ \A s, j, l : At(segs, s, j, l) =>
                 s \in DOMAIN segs /\ s \in Starts /\ j \in 1..End(segs, s) /\ j \in Nat /\ l \in 1..MaxLSN
           /\ \A s, j, l, m : At(segs, s, j, l) /\ At(segs, s, j, m) => l = m
           /\ \A s, j : Bad(segs, s, j) =>
                 s \in DOMAIN segs /\ s \in Starts /\ j \in 1..End(segs, s) /\ j \in Nat
           /\ \A s, j, l : ~(Bad(segs, s, j) /\ At(segs, s, j, l))
           /\ \A s \in DOMAIN segs : \A j \in 1..End(segs, s) :
                 Bad(segs, s, j) \/ \E l \in 1..MaxLSN : At(segs, s, j, l)
<1>1. ASSUME NEW s \in DOMAIN segs, NEW j \in 1..Len(segs[s].frames)
      PROVE  /\ s \in Starts /\ j \in Nat /\ segs[s].frames[j].lsn \in Nat
             /\ segs[s].frames[j].lsn # 0 => segs[s].frames[j].lsn \in 1..MaxLSN
  <2>1. segs[s].frames[j] \in Frames \cup {Garbage} /\ s \in Starts /\ End(segs, s) \in Nat
    BY FileFields DEF End
  <2> QED BY <2>1, FrameKinds DEF End
<1>2. \A s, j, l : At(segs, s, j, l) =>
                 s \in DOMAIN segs /\ s \in Starts /\ j \in 1..End(segs, s) /\ j \in Nat /\ l \in 1..MaxLSN
  BY <1>1 DEF At, End
<1>3. \A s, j : Bad(segs, s, j) =>
                 s \in DOMAIN segs /\ s \in Starts /\ j \in 1..End(segs, s) /\ j \in Nat
  BY <1>1 DEF Bad, End
<1>4. /\ \A s, j, l, m : At(segs, s, j, l) /\ At(segs, s, j, m) => l = m
      /\ \A s, j, l : ~(Bad(segs, s, j) /\ At(segs, s, j, l))
  BY DEF At, Bad
<1>5. \A s \in DOMAIN segs : \A j \in 1..End(segs, s) :
                 Bad(segs, s, j) \/ \E l \in 1..MaxLSN : At(segs, s, j, l)
  BY <1>1 DEF At, Bad, End
<1> QED BY <1>2, <1>3, <1>4, <1>5

\* The records of a file, and those that are retained.
LEMMA RecordsOf ==
    ASSUME NEW segs, Typed(segs), NEW s \in DOMAIN segs
    PROVE  \A l : l \in LSNsOf(segs[s]) <=> \E j \in Nat : At(segs, s, j, l)
<1>1. End(segs, s) \in Nat
  BY FileFields
<1> QED BY <1>1 DEF At, LSNsOf, End

\* The model's set of retained records.
LEMMA RetainedIsKept ==
    ASSUME Typed(walSegs)
    PROVE  \A l : l \in Retained <=> Kept(l)
<1>1. \A s \in DOMAIN walSegs : s \in Starts /\ \A l : l \in LSNsOf(walSegs[s]) <=> \E j \in Nat : At(walSegs, s, j, l)
  BY RecordsOf, FileFields
<1>2. \A s, j, l : At(walSegs, s, j, l) => s \in DOMAIN walSegs
  BY DEF At
<1> QED BY <1>1, <1>2 DEF Retained, Kept

\* Some file is the last.
LEMMA LastIsLast ==
    ASSUME NEW segs, Typed(segs), DOMAIN segs # {}
    PROVE  /\ LastSegment(segs) \in DOMAIN segs
           /\ \A s \in DOMAIN segs : s <= LastSegment(segs)
<1> DEFINE R == OpToRel(<, Nat)
           T == {MaxLSN + 1 - n : n \in DOMAIN segs}
<1>1. \A n \in DOMAIN segs : n \in Nat /\ MaxLSN + 1 - n \in Nat
  BY WalAssumption DEF Typed, Starts
<1>2. T \subseteq Nat /\ T # {}
  BY <1>1
<1>3. IsWellFoundedOn(R, Nat)
  BY NatLessThanWellFounded
<1>4. PICK x \in T : \A y \in T : ~(<<y, x>> \in R)
  BY <1>2, <1>3, WFMin
<1>5. PICK n \in DOMAIN segs : x = MaxLSN + 1 - n
  BY <1>4
<1>6. ASSUME NEW m \in DOMAIN segs
      PROVE  m <= n
  <2>1. MaxLSN + 1 - m \in T
    OBVIOUS
  <2>2. ~(MaxLSN + 1 - m < MaxLSN + 1 - n)
    BY <2>1, <1>4, <1>5, <1>1 DEF OpToRel
  <2> QED BY <2>2, <1>1, WalAssumption
<1> QED BY <1>6 DEF LastSegment

\* A frame more: at the end of the file in use, which may be a new one.
LEMMA FrameAdded ==
    ASSUME Typed(walSegs), walFile \in Starts, NEW lsn \in 1..MaxLSN, NEW full \in BOOLEAN,
           NEW frame \in Frames \cup {Garbage}, NEW segs,
           NEW file, file = AppendFile(lsn, full), NEW m, m = frame.lsn,
           segs = WithFrame(AppendTarget(lsn, full), file, frame)
    PROVE  /\ Typed(segs)
           /\ DOMAIN segs = DOMAIN walSegs \cup (IF full THEN {lsn} ELSE {})
           /\ \A s \in DOMAIN segs :
                 /\ Synced(segs, s) = IF s \in DOMAIN walSegs THEN Synced(walSegs, s) ELSE 0
                 /\ End(segs, s) = (IF s \in DOMAIN walSegs THEN End(walSegs, s) ELSE 0)
                                   + (IF s = file THEN 1 ELSE 0)
           /\ \A s, j, l : At(segs, s, j, l) <=>
                 \/ At(walSegs, s, j, l)
                 \/ s = file /\ s \in DOMAIN segs /\ j = End(segs, s) /\ l = m /\ l # 0
           /\ \A s, j : Bad(segs, s, j) <=>
                 \/ Bad(walSegs, s, j)
                 \/ s = file /\ s \in DOMAIN segs /\ j = End(segs, s) /\ m = 0
<1> DEFINE old == AppendTarget(lsn, full)
<1>1. /\ DOMAIN old = DOMAIN walSegs \cup (IF full THEN {lsn} ELSE {})
      /\ \A s \in DOMAIN old : old[s] = IF s \in DOMAIN walSegs THEN walSegs[s] ELSE EmptySegment
  BY DEF AppendTarget
<1>2. EmptySegment \in SegmentFiles /\ EmptySegment.frames = <<>> /\ EmptySegment.synced = 0
  BY DEF EmptySegment, SegmentFiles
<1>3. /\ DOMAIN segs = DOMAIN old
      /\ \A s \in DOMAIN segs :
            segs[s] = IF s = file THEN [old[s] EXCEPT !.frames = Append(@, frame)] ELSE old[s]
      /\ segs = [s \in DOMAIN segs |-> segs[s]]
  BY DEF WithFrame
<1>4. \A s \in DOMAIN old : old[s] \in SegmentFiles
  BY <1>1, <1>2 DEF Typed
<1>5. ASSUME NEW s \in DOMAIN segs
      PROVE  LET was == old[s].frames IN
             /\ segs[s] \in SegmentFiles
             /\ was \in Seq(Frames \cup {Garbage})
             /\ segs[s].synced = old[s].synced
             /\ segs[s].frames = IF s = file THEN Append(was, frame) ELSE was
  <2>1. old[s] \in SegmentFiles
    BY <1>3, <1>4
  <2>2. old[s].frames \in Seq(Frames \cup {Garbage}) /\ old[s].synced \in Nat
    BY <2>1 DEF SegmentFiles
  <2>3. Append(old[s].frames, frame) \in Seq(Frames \cup {Garbage})
    BY <2>2
  <2>4. segs[s] = IF s = file THEN [old[s] EXCEPT !.frames = Append(@, frame)] ELSE old[s]
    BY <1>3
  <2> QED BY <2>1, <2>2, <2>3, <2>4 DEF SegmentFiles
<1>6. Typed(segs)
  <2>1. lsn \in Starts
    BY WalAssumption DEF Starts
  <2>2. DOMAIN segs \subseteq Starts
    BY <2>1, <1>1, <1>3 DEF Typed
  <2>3. segs \in [DOMAIN segs -> SegmentFiles]
    BY <1>3, <1>5
  <2> QED BY <2>2, <2>3 DEF Typed
<1>7. ASSUME NEW s \in DOMAIN segs
      PROVE  LET was == old[s].frames
                 n == IF s = file THEN Len(was) + 1 ELSE Len(was) IN
             /\ Len(segs[s].frames) = n /\ Len(was) \in Nat
             /\ \A j \in 1..Len(was) : segs[s].frames[j] = was[j]
             /\ s = file => segs[s].frames[n] = frame
  <2>1. \A q \in Seq(Frames \cup {Garbage}) :
           /\ Len(q) \in Nat /\ Len(Append(q, frame)) = Len(q) + 1
           /\ \A j \in 1..Len(q) : Append(q, frame)[j] = q[j]
           /\ Append(q, frame)[Len(q) + 1] = frame
    OBVIOUS
  <2>2. PICK was : was = old[s].frames
    OBVIOUS
  <2>3. was \in Seq(Frames \cup {Garbage}) /\ segs[s].frames = IF s = file THEN Append(was, frame) ELSE was
    BY <1>5, <2>2
  <2> HIDE DEF old
  <2> QED BY <2>1, <2>2, <2>3
<1>8. ASSUME NEW s \in DOMAIN segs
      PROVE  /\ s \in DOMAIN walSegs => old[s] = walSegs[s]
             /\ s \notin DOMAIN walSegs => Len(old[s].frames) = 0 /\ old[s].synced = 0
  BY <1>1, <1>2, <1>3
<1>9. ASSUME NEW s \in DOMAIN segs
      PROVE  /\ Synced(segs, s) = IF s \in DOMAIN walSegs THEN Synced(walSegs, s) ELSE 0
             /\ End(segs, s) = (IF s \in DOMAIN walSegs THEN End(walSegs, s) ELSE 0)
                                + (IF s = file THEN 1 ELSE 0)
  <2> HIDE DEF old
  <2>1. segs[s].synced = old[s].synced
    BY <1>5
  <2>2. Len(old[s].frames) \in Nat /\ Len(segs[s].frames) = Len(old[s].frames) + (IF s = file THEN 1 ELSE 0)
    <3>1. PICK n \in Nat : n = Len(old[s].frames)
      BY <1>7
    <3>2. Len(segs[s].frames) = IF s = file THEN n + 1 ELSE n
      BY <1>7, <3>1
    <3>3. PICK total : total = Len(segs[s].frames)
      OBVIOUS
    <3>4. total = n + (IF s = file THEN 1 ELSE 0)
      BY ONLY <3>2, <3>3
    <3> QED BY <3>1, <3>3, <3>4
  <2> QED BY <2>1, <2>2, <1>8 DEF Synced, End
<1>10. DOMAIN walSegs \subseteq DOMAIN segs
  BY <1>1, <1>3
<1>11. \A s, j, l : At(segs, s, j, l) <=>
                 \/ At(walSegs, s, j, l)
                 \/ s = file /\ s \in DOMAIN segs /\ j = End(segs, s) /\ l = m /\ l # 0
  <2> HIDE DEF old
  <2>1. ASSUME NEW s \in DOMAIN segs, NEW j, NEW l
        PROVE  At(segs, s, j, l) <=>
                 \/ At(walSegs, s, j, l)
                 \/ s = file /\ j = End(segs, s) /\ l = m /\ l # 0
    <3>1. PICK n \in Nat : n = Len(old[s].frames)
      BY <1>7
    <3>2. /\ Len(segs[s].frames) = IF s = file THEN n + 1 ELSE n
          /\ \A i \in 1..n : segs[s].frames[i] = old[s].frames[i]
          /\ s = file => segs[s].frames[n + 1] = frame
      BY <1>7, <3>1
    <3>3. At(walSegs, s, j, l) <=> j \in 1..n /\ old[s].frames[j].lsn = l /\ l # 0
      BY <1>8, <3>1 DEF At
    <3>4. At(segs, s, j, l) <=> j \in 1..Len(segs[s].frames) /\ segs[s].frames[j].lsn = l /\ l # 0
      BY DEF At
    <3>5. n + 1 \notin 1..n /\ n \in Nat
      BY <3>1
    <3>6. j \in 1..(n + 1) <=> j \in 1..n \/ j = n + 1
      BY <3>1
    <3>7. CASE s = file
      BY <3>2, <3>3, <3>4, <3>5, <3>6, <3>7 DEF End
    <3>8. CASE s # file
      BY <3>2, <3>3, <3>4, <3>8
    <3> QED BY <3>7, <3>8
  <2>2. \A s, j, l : At(segs, s, j, l) \/ At(walSegs, s, j, l) => s \in DOMAIN segs
    BY <1>10 DEF At
  <2> QED BY <2>1, <2>2
<1>12. \A s, j : Bad(segs, s, j) <=>
                 \/ Bad(walSegs, s, j)
                 \/ s = file /\ s \in DOMAIN segs /\ j = End(segs, s) /\ m = 0
  <2> HIDE DEF old
  <2>1. ASSUME NEW s \in DOMAIN segs, NEW j
        PROVE  Bad(segs, s, j) <=>
                 \/ Bad(walSegs, s, j)
                 \/ s = file /\ j = End(segs, s) /\ m = 0
    <3>1. PICK n \in Nat : n = Len(old[s].frames)
      BY <1>7
    <3>2. /\ Len(segs[s].frames) = IF s = file THEN n + 1 ELSE n
          /\ \A i \in 1..n : segs[s].frames[i] = old[s].frames[i]
          /\ s = file => segs[s].frames[n + 1] = frame
      BY <1>7, <3>1
    <3>3. Bad(walSegs, s, j) <=> j \in 1..n /\ old[s].frames[j].lsn = 0
      BY <1>8, <3>1 DEF Bad
    <3>4. Bad(segs, s, j) <=> j \in 1..Len(segs[s].frames) /\ segs[s].frames[j].lsn = 0
      BY DEF Bad
    <3>5. n + 1 \notin 1..n /\ n \in Nat
      BY <3>1
    <3>6. j \in 1..(n + 1) <=> j \in 1..n \/ j = n + 1
      BY <3>1
    <3>7. CASE s = file
      BY <3>2, <3>3, <3>4, <3>5, <3>6, <3>7 DEF End
    <3>8. CASE s # file
      BY <3>2, <3>3, <3>4, <3>8
    <3> QED BY <3>7, <3>8
  <2>2. \A s, j : Bad(segs, s, j) \/ Bad(walSegs, s, j) => s \in DOMAIN segs
    BY <1>10 DEF Bad
  <2> QED BY <2>1, <2>2
<1> QED BY <1>1, <1>3, <1>6, <1>9, <1>11, <1>12

\* A part of a file: its first k frames.
LEMMA FilePrefix ==
    ASSUME NEW frames \in Seq(Frames \cup {Garbage}), NEW k \in 0..Len(frames)
    PROVE  /\ SubSeq(frames, 1, k) \in Seq(Frames \cup {Garbage})
           /\ Len(SubSeq(frames, 1, k)) = k
           /\ \A j \in 1..k : SubSeq(frames, 1, k)[j] = frames[j]
<1>1. /\ Len(frames) \in Nat
      /\ k \in Nat /\ 1 \in Int /\ k \in Int
  OBVIOUS
<1>2. SubSeq(frames, 1, k) \in Seq(Frames \cup {Garbage}) /\ Len(SubSeq(frames, 1, k)) = k
  BY <1>1, SubSeqProperties
<1>3. \A j \in 1..k : SubSeq(frames, 1, k)[j] = frames[j]
  BY <1>1, SubSeqProperties
<1> QED BY <1>2, <1>3

\* What a crash leaves of a file: its first k frames, and then perhaps garbage.
LEMMA SurvivorShape ==
    ASSUME NEW seg \in SegmentFiles, seg.synced <= Len(seg.frames), NEW left \in Survivors(seg)
    PROVE  /\ left \in Seq(Frames \cup {Garbage})
           /\ \E k \in seg.synced..Len(seg.frames) :
                /\ \A j \in 1..k : left[j] = seg.frames[j]
                /\ \/ Len(left) = k
                   \/ k < Len(seg.frames) /\ Len(left) = k + 1 /\ left[k + 1] = Garbage
<1>1. seg.frames \in Seq(Frames \cup {Garbage}) /\ seg.synced \in Nat /\ Len(seg.frames) \in Nat
  BY DEF SegmentFiles
<1>2. CASE ~PowerLoss
  <2>1. left = seg.frames
    BY <1>2 DEF Survivors
  <2> QED BY <1>1, <2>1
<1>3. CASE PowerLoss
  <2>1. PICK k \in seg.synced..Len(seg.frames) :
           \/ left = SubSeq(seg.frames, 1, k)
           \/ k < Len(seg.frames) /\ left = Append(SubSeq(seg.frames, 1, k), Garbage)
    BY <1>3 DEF Survivors
  <2>2. k \in 0..Len(seg.frames) /\ k \in Nat
    BY <1>1
  <2>3. PICK part \in Seq(Frames \cup {Garbage}) :
           /\ part = SubSeq(seg.frames, 1, k) /\ Len(part) = k
           /\ \A j \in 1..k : part[j] = seg.frames[j]
    BY <1>1, <2>2, FilePrefix
  <2>4. CASE left = part
    BY <2>3, <2>4
  <2>5. CASE k < Len(seg.frames) /\ left = Append(part, Garbage)
    <3>1. left \in Seq(Frames \cup {Garbage}) /\ Len(left) = k + 1 /\ left[k + 1] = Garbage
      BY <2>2, <2>3, <2>5
    <3>2. \A j \in 1..k : left[j] = seg.frames[j]
      BY <2>2, <2>3, <2>5
    <3> QED BY <2>5, <3>1, <3>2
  <2> QED BY <2>1, <2>3, <2>4, <2>5
<1> QED BY <1>2, <1>3

\* What is left of the files when they are cut, each behind its first k frames.
Cut(new, old, s, k) ==
    /\ \A j, l : At(new, s, j, l) <=> At(old, s, j, l) /\ j <= k
    /\ \/ End(new, s) = k /\ \A j : Bad(new, s, j) <=> Bad(old, s, j) /\ j <= k
       \/ /\ k < End(old, s) /\ End(new, s) = k + 1
          /\ \A j : Bad(new, s, j) <=> (Bad(old, s, j) /\ j <= k) \/ j = k + 1

\* A file whose frames are the first k of another's, perhaps with garbage after.
LEMMA CutShape ==
    ASSUME NEW new, NEW old, Typed(old), Typed(new), NEW s \in DOMAIN old, s \in DOMAIN new,
           NEW k \in 0..End(old, s),
           \A j \in 1..k : new[s].frames[j] = old[s].frames[j],
           \/ End(new, s) = k
           \/ k < End(old, s) /\ End(new, s) = k + 1 /\ new[s].frames[k + 1] = Garbage
    PROVE  Cut(new, old, s, k)
<1>1. End(old, s) \in Nat /\ End(new, s) \in Nat /\ k \in Nat
  BY FileFields
<1>2. Garbage.lsn = 0
  BY DEF Garbage
<1>3. CASE End(new, s) = k
  BY <1>1, <1>3 DEF At, Bad, End, Cut
<1>4. CASE k < End(old, s) /\ End(new, s) = k + 1 /\ new[s].frames[k + 1] = Garbage
  <2>1. \A j : j \in 1..(k + 1) <=> j \in 1..k \/ j = k + 1
    BY <1>1
  <2>2. \A j : j \in 1..k <=> j \in 1..End(old, s) /\ j <= k
    BY <1>1, <1>4
  <2>3. \A j, l : At(new, s, j, l) <=> At(old, s, j, l) /\ j <= k
    BY <1>2, <1>4, <2>1, <2>2, <1>1 DEF At, End
  <2>4. \A j : Bad(new, s, j) <=> (Bad(old, s, j) /\ j <= k) \/ j = k + 1
    BY <1>2, <1>4, <2>1, <2>2, <1>1 DEF Bad, End
  <2> QED BY <1>4, <2>3, <2>4 DEF Cut
<1> QED BY <1>3, <1>4

\* Places, and the frames at them.
LEMMA PlaceIn ==
    ASSUME NEW segs, Typed(segs)
    PROVE  /\ \A s, j : <<s, j>> \in Places(segs) <=> s \in DOMAIN segs /\ j \in 1..End(segs, s)
           /\ \A p \in Places(segs) : p = <<p[1], p[2]>> /\ p[1] \in DOMAIN segs /\ p[2] \in 1..End(segs, p[1])
           /\ \A s, j : <<s, j>> \in Garbled(segs) <=> Bad(segs, s, j)
           /\ \A s, j : FrameAt(segs, <<s, j>>) = segs[s].frames[j]
<1>1. \A p : p \in Places(segs) <=> \E s \in DOMAIN segs : \E j \in 1..End(segs, s) : p = <<s, j>>
  BY DEF Places, End
<1>2. /\ \A s, j : <<s, j>> \in Places(segs) <=> s \in DOMAIN segs /\ j \in 1..End(segs, s)
      /\ \A p \in Places(segs) : p = <<p[1], p[2]>> /\ p[1] \in DOMAIN segs /\ p[2] \in 1..End(segs, p[1])
  BY <1>1
<1>3. \A s, j : FrameAt(segs, <<s, j>>) = segs[s].frames[j]
  BY DEF FrameAt
<1>4. ASSUME NEW s, NEW j
      PROVE  <<s, j>> \in Garbled(segs) <=> Bad(segs, s, j)
  <2>1. <<s, j>> \in Garbled(segs) <=> <<s, j>> \in Places(segs) /\ segs[s].frames[j] = Garbage
    BY <1>3 DEF Garbled
  <2>2. s \in DOMAIN segs /\ j \in 1..End(segs, s) => segs[s].frames[j] \in Frames \cup {Garbage}
    BY FileFields
  <2>3. s \in DOMAIN segs /\ j \in 1..End(segs, s) => (segs[s].frames[j].lsn = 0 <=> segs[s].frames[j] = Garbage)
    BY <2>2, FrameKinds
  <2> QED BY <2>1, <2>3, <1>2 DEF Bad, End
<1> QED BY <1>2, <1>3, <1>4

\* What a scan reads: the records in front of all garbage.
LEMMA ScannedIn ==
    ASSUME NEW segs, Typed(segs)
    PROVE  /\ \A s, j : <<s, j>> \in Scanned(segs) <=>
                 /\ \E l \in 1..MaxLSN : At(segs, s, j, l)
                 /\ \A t, k : Bad(segs, t, k) => Earlier(s, j, t, k)
           /\ \A p \in Scanned(segs) : p = <<p[1], p[2]>> /\ p[1] \in DOMAIN segs /\ p[2] \in 1..End(segs, p[1])
<1>1. ASSUME NEW s, NEW j
      PROVE  <<s, j>> \in Places(segs) \ Garbled(segs) <=> \E l \in 1..MaxLSN : At(segs, s, j, l)
  BY PlaceIn, PlaceFields
<1>2. \A s, j, t, k : Before(<<s, j>>, <<t, k>>) <=> Earlier(s, j, t, k)
  BY DEF Before, Earlier
<1>3. ASSUME NEW s, NEW j
      PROVE  (\A g \in Garbled(segs) : Before(<<s, j>>, g)) <=> \A t, k : Bad(segs, t, k) => Earlier(s, j, t, k)
  <2>1. ASSUME NEW g \in Garbled(segs)
        PROVE  g = <<g[1], g[2]>> /\ Bad(segs, g[1], g[2])
    <3>1. g \in Places(segs)
      BY DEF Garbled
    <3>2. g = <<g[1], g[2]>>
      BY <3>1, PlaceIn
    <3> QED BY <3>2, PlaceIn
  <2>2. \A t, k : Bad(segs, t, k) => <<t, k>> \in Garbled(segs)
    BY PlaceIn
  <2>3. \A g \in Garbled(segs) : Before(<<s, j>>, g) <=> Earlier(s, j, g[1], g[2])
    BY DEF Before, Earlier
  <2> QED BY <2>1, <2>2, <2>3, <1>2
<1>4. \A s, j : <<s, j>> \in Scanned(segs) <=>
         /\ \E l \in 1..MaxLSN : At(segs, s, j, l)
         /\ \A t, k : Bad(segs, t, k) => Earlier(s, j, t, k)
  BY <1>1, <1>3 DEF Scanned
<1>5. \A p \in Scanned(segs) : p = <<p[1], p[2]>> /\ p[1] \in DOMAIN segs /\ p[2] \in 1..End(segs, p[1])
  BY PlaceIn DEF Scanned
<1> QED BY <1>4, <1>5

\* A number that is the least, or the largest, of a set.
LEMMA LeastIn ==
    ASSUME NEW S \in SUBSET Nat, S # {}
    PROVE  \E n \in S : \A m \in S : n <= m
<1> DEFINE R == OpToRel(<, Nat)
<1>1. IsWellFoundedOn(R, Nat)
  BY NatLessThanWellFounded
<1>2. PICK n \in S : \A m \in S : ~(<<m, n>> \in R)
  BY <1>1, WFMin
<1>3. \A m \in S : ~(m < n)
  BY <1>2 DEF OpToRel
<1> QED BY <1>3

\* The records of the last file that a scan reads are its first ones.
LEMMA ScannedFirst ==
    ASSUME NEW segs, Typed(segs), DOMAIN segs # {}, NEW last \in DOMAIN segs,
           \A g \in Garbled(segs) : g[1] = last
    PROVE  \E n \in 0..End(segs, last) :
              /\ \A j \in 1..End(segs, last) : <<last, j>> \in Scanned(segs) <=> j <= n
              /\ \A j \in 1..n : ~Bad(segs, last, j)
              /\ \A j \in 1..End(segs, last) : j > n => \E k \in 1..j : Bad(segs, last, k)
<1>1. End(segs, last) \in Nat /\ last \in Nat
  BY FileFields
<1>2. ASSUME NEW t, NEW k, Bad(segs, t, k)
      PROVE  t = last
  <2>1. PICK g \in Garbled(segs) : g = <<t, k>>
    BY <1>2, PlaceIn
  <2> QED BY <2>1
<1>3. \A j \in 1..End(segs, last) : <<last, j>> \in Scanned(segs) <=>
         ~Bad(segs, last, j) /\ \A k : Bad(segs, last, k) => j < k
  BY <1>1, <1>2, ScannedIn, PlaceFields DEF Earlier
<1> DEFINE B == {k \in 1..End(segs, last) : Bad(segs, last, k)}
<1>4. \A k : Bad(segs, last, k) => k \in B
  BY PlaceFields
<1>5. CASE B = {}
  <2>1. \A k : ~Bad(segs, last, k)
    BY <1>4, <1>5
  <2>2. End(segs, last) \in 0..End(segs, last) /\ \A j \in 1..End(segs, last) : ~(j > End(segs, last))
    BY <1>1
  <2> QED BY <1>3, <2>1, <2>2
<1>6. CASE B # {}
  <2>1. B \in SUBSET Nat
    BY <1>1
  <2>2. PICK m \in B : \A k \in B : m <= k
    BY <2>1, <1>6, LeastIn
  <2>3. m \in 1..End(segs, last) /\ Bad(segs, last, m)
    OBVIOUS
  <2>4. PICK n : n = m - 1
    OBVIOUS
  <2>5. n \in 0..End(segs, last) /\ m = n + 1 /\ n \in Nat
    BY <2>3, <2>4, <1>1
  <2>6. \A k : Bad(segs, last, k) => n < k /\ k \in Nat
    BY <2>5, <2>2, <1>4, <2>1
  <2>7. \A j \in 1..End(segs, last) : <<last, j>> \in Scanned(segs) <=> j <= n
    BY <1>1, <1>3, <2>3, <2>5, <2>6
  <2>8. \A j \in 1..n : ~Bad(segs, last, j)
    BY <2>5, <2>6
  <2>9. \A j \in 1..End(segs, last) : j > n => \E k \in 1..j : Bad(segs, last, k)
    BY <1>1, <2>3, <2>5
  <2> QED BY <2>5, <2>7, <2>8, <2>9
<1> QED BY <1>5, <1>6

\* A file is cut off at one place.
LEMMA OneLength ==
    ASSUME NEW segs, NEW last, NEW e \in Nat, NEW i \in 0..e, NEW k \in 0..e,
           \A j \in 1..e : <<last, j>> \in Scanned(segs) <=> j <= i,
           \A j \in 1..e : <<last, j>> \in Scanned(segs) <=> j <= k
    PROVE  i = k
<1>1. \A j \in 1..e : j <= i <=> j <= k
  OBVIOUS
<1> QED BY ONLY <1>1, e \in Nat, i \in 0..e, k \in 0..e

\* What Open leaves: the last file cut off in front of the first garbage.
LEMMA Reopened ==
    ASSUME NEW segs, Typed(segs), DOMAIN segs # {}, Scannable(segs),
           NEW new, new = Truncated(segs), NEW last, last = LastSegment(segs)
    PROVE  /\ Typed(new) /\ DOMAIN new = DOMAIN segs
           /\ last \in DOMAIN segs /\ \A s \in DOMAIN segs : s <= last
           /\ \A s \in DOMAIN segs : s # last => new[s] = segs[s]
           /\ \A s, j : ~Bad(new, s, j)
           /\ \E n \in 0..End(segs, last) :
                 /\ End(new, last) = n /\ Synced(new, last) = n
                 /\ \A j, l : At(new, last, j, l) <=> At(segs, last, j, l) /\ j <= n
                 /\ \A j \in 1..End(segs, last) : <<last, j>> \in Scanned(segs) <=> j <= n
                 /\ \A j \in 1..End(segs, last) : j > n => \E k \in 1..j : Bad(segs, last, k)
<1>1. last \in DOMAIN segs /\ \A s \in DOMAIN segs : s <= last
  BY LastIsLast
<1>2. \A g \in Garbled(segs) : g[1] = last
  BY DEF Scannable
<1>3. End(segs, last) \in Nat
  BY <1>1, FileFields
<1> DEFINE Fits(k) == \A j \in 1..End(segs, last) : <<last, j>> \in Scanned(segs) <=> j <= k
           n == CHOOSE k \in 0..End(segs, last) : Fits(k)
<1>4. PICK m \in 0..End(segs, last) :
              /\ Fits(m)
              /\ \A j \in 1..m : ~Bad(segs, last, j)
              /\ \A j \in 1..End(segs, last) : j > m => \E k \in 1..j : Bad(segs, last, k)
  BY <1>1, <1>2, ScannedFirst
<1>5. n \in 0..End(segs, last) /\ Fits(n)
  BY <1>4
<1>6. n = m
  <2>1. \A i, k \in 0..End(segs, last) : Fits(i) /\ Fits(k) => i = k
    BY <1>3, OneLength
  <2> QED BY <1>4, <1>5, <2>1
<1>7. PICK file : file = [frames |-> SubSeq(segs[last].frames, 1, m), synced |-> m]
  OBVIOUS
<1>8. new = [segs EXCEPT ![last] = file]
  <2>1. n = CHOOSE k \in 0..Len(segs[last].frames) :
                \A j \in 1..Len(segs[last].frames) : <<last, j>> \in Scanned(segs) <=> j <= k
    BY DEF End
  <2> HIDE DEF n, Fits
  <2> QED BY <2>1, <1>6, <1>7 DEF Truncated
<1>9. segs[last].frames \in Seq(Frames \cup {Garbage})
  BY <1>1, FileFields
<1>10. m \in 0..Len(segs[last].frames)
  BY DEF End
<1>11. /\ file.frames \in Seq(Frames \cup {Garbage}) /\ Len(file.frames) = m /\ file.synced = m
       /\ \A j \in 1..m : file.frames[j] = segs[last].frames[j]
       /\ file \in SegmentFiles
  BY <1>7, <1>9, <1>10, FilePrefix DEF SegmentFiles
<1>12. /\ DOMAIN new = DOMAIN segs /\ new[last] = file
       /\ \A s \in DOMAIN segs : s # last => new[s] = segs[s]
  BY <1>1, <1>8
<1>13. Typed(new)
  BY <1>8, <1>11, <1>1 DEF Typed
<1>14. End(new, last) = m /\ Synced(new, last) = m
  BY <1>11, <1>12 DEF End, Synced
<1>15. Cut(new, segs, last, m)
  BY <1>1, <1>3, <1>4, <1>11, <1>12, <1>13, <1>14, CutShape
<1>16. m \in Nat /\ m + 1 # m
  BY <1>3
<1>17. /\ \A j, l : At(new, last, j, l) <=> At(segs, last, j, l) /\ j <= m
       /\ \A j : Bad(new, last, j) <=> Bad(segs, last, j) /\ j <= m
  BY <1>14, <1>15, <1>16 DEF Cut
<1>18. \A s, j : ~Bad(new, s, j)
  <2>1. \A j : ~Bad(new, last, j)
    <3>1. \A j : Bad(segs, last, j) /\ j <= m => j \in 1..m
      BY PlaceFields, <1>16, <1>3
    <3> QED BY <1>17, <3>1, <1>4
  <2>2. ASSUME NEW s, NEW j, Bad(segs, s, j)
        PROVE  s = last
    <3>1. PICK g \in Garbled(segs) : g = <<s, j>>
      BY <2>2, PlaceIn
    <3> QED BY <3>1, <1>2
  <2>3. \A s, j : Bad(new, s, j) => s \in DOMAIN segs
    BY <1>12 DEF Bad
  <2>4. \A s, j : s # last /\ s \in DOMAIN segs /\ Bad(new, s, j) => Bad(segs, s, j)
    BY <1>12 DEF Bad
  <2> QED BY <2>1, <2>2, <2>3, <2>4
<1> QED BY <1>1, <1>4, <1>12, <1>13, <1>14, <1>17, <1>18

\* The files are of their type.
LEMMA FilesTyped ==
    ASSUME WalTypeOK
    PROVE  Typed(walSegs)
BY DEF WalTypeOK, Typed

\* The numbers are numbers.
LEMMA Numbers ==
    ASSUME WalTypeOK
    PROVE  /\ walLast \in Nat /\ walProgress \in Nat /\ walFile \in Nat /\ walSize \in Nat
           /\ walLast <= MaxLSN
           /\ \A w \in WalWriters : walAt[w] \in Nat
           /\ \A l \in walDurable : l \in Nat /\ l \in 1..MaxLSN
           /\ MaxLSN \in Nat
<1>1. MaxLSN \in Nat
  BY WalAssumption
<1>2. walLast \in 0..MaxLSN /\ walProgress \in 0..MaxLSN /\ walFile \in Starts /\ walSize \in Nat
  BY DEF WalTypeOK
<1>3. \A w \in WalWriters : walAt[w] \in 0..MaxLSN
  BY DEF WalTypeOK
<1>4. \A l \in walDurable : l \in 1..MaxLSN
  BY DEF WalTypeOK
<1>5. Starts \subseteq Nat
  BY <1>1 DEF Starts
<1>6. \A l \in 0..MaxLSN : l \in Nat /\ l <= MaxLSN
  BY <1>1
<1>7. \A l \in 1..MaxLSN : l \in Nat
  BY <1>1
<1> QED BY <1>1, <1>2, <1>3, <1>4, <1>5, <1>6, <1>7

\* What Append does to the files: record l, or garbage if l is 0, goes to the end
\* of the file in use, which is named after LSN lsn if the last one was full.
Appended(full, lsn, l) ==
    /\ full => walSize > 0
    /\ walFile' = IF full THEN lsn ELSE walFile
    /\ walSize' = (IF full THEN 0 ELSE walSize) + (IF l = 0 THEN 0 ELSE 1)
    /\ Typed(walSegs')
    /\ DOMAIN walSegs' = DOMAIN walSegs \cup (IF full THEN {lsn} ELSE {})
    /\ \A s \in DOMAIN walSegs' :
          /\ Synced(walSegs', s) = IF s \in DOMAIN walSegs THEN Synced(walSegs, s) ELSE 0
          /\ End(walSegs', s) = (IF s \in DOMAIN walSegs THEN End(walSegs, s) ELSE 0)
                                 + (IF s = walFile' THEN 1 ELSE 0)
    /\ \A s, j, m : At(walSegs', s, j, m) <=>
          \/ At(walSegs, s, j, m)
          \/ s = walFile' /\ s \in DOMAIN walSegs' /\ j = End(walSegs', s) /\ m = l /\ m # 0
    /\ \A s, j : Bad(walSegs', s, j) <=>
          \/ Bad(walSegs, s, j)
          \/ s = walFile' /\ s \in DOMAIN walSegs' /\ j = End(walSegs', s) /\ l = 0
    /\ full /\ walFile \in DOMAIN walSegs /\ "closed unsynced" \notin walHarm' =>
          \A j, m : At(walSegs, walFile, j, m) => j <= Synced(walSegs, walFile)

\* An unsynced record is one behind what the last sync of its file covered.
LEMMA UnsyncedRecords ==
    ASSUME NEW segs, Typed(segs), NEW s \in DOMAIN segs, Unsynced(segs[s]) = {}
    PROVE  \A j, m : At(segs, s, j, m) => j <= Synced(segs, s)
<1> SUFFICES ASSUME NEW j, NEW m, At(segs, s, j, m), ~(j <= Synced(segs, s))
             PROVE  FALSE
  OBVIOUS
<1>1. End(segs, s) \in Nat /\ Synced(segs, s) \in Nat
  BY FileFields
<1>2. j \in 1..End(segs, s) /\ segs[s].frames[j].lsn = m /\ m # 0
  BY DEF At, End
<1>3. j \in (segs[s].synced + 1)..Len(segs[s].frames)
  BY <1>1, <1>2 DEF End, Synced
<1> QED BY <1>2, <1>3 DEF Unsynced

\* Only a file that counts a record can be full.
LEMMA FullIsBoolean == Full \subseteq BOOLEAN /\ \A full \in Full : WalTypeOK /\ full => walSize > 0
<1>1. ASSUME WalTypeOK, walSize >= SegmentRecords
      PROVE  walSize > 0
  <2>1. walSize \in Nat /\ SegmentRecords \in Nat /\ SegmentRecords # 0
    BY <1>1, WalAssumption DEF WalTypeOK
  <2> QED BY ONLY <2>1, <1>1
<1>2. \A full \in Full : full = (walSize > 0) \/ full = (walSize >= SegmentRecords)
  BY DEF Full
<1>3. (walSize > 0) \in BOOLEAN /\ (walSize >= SegmentRecords) \in BOOLEAN
  OBVIOUS
<1>4. Full \subseteq BOOLEAN
  BY <1>2, <1>3
<1> QED BY <1>1, <1>2, <1>4

\* Manager.Append.
LEMMA AppendFacts ==
    ASSUME WalTypeOK, NEW w \in WalWriters, WalAppend(w)
    PROVE  /\ walLast + 1 \in 1..MaxLSN
           /\ \E full \in BOOLEAN : Appended(full, walLast + 1, walLast + 1)
<1>1. PICK lsn : lsn = walLast + 1
  OBVIOUS
<1>2. lsn \in 1..MaxLSN /\ lsn # 0
  <2>1. lsn <= MaxLSN
    BY <1>1 DEF WalAppend
  <2>2. walLast \in 0..MaxLSN
    BY DEF WalTypeOK
  <2> QED BY ONLY <1>1, <2>1, <2>2, WalAssumption DEF WalAssumption
<1>3. PICK full \in Full :
        /\ walSegs' = WithFrame(AppendTarget(lsn, full), AppendFile(lsn, full),
                                [lsn |-> lsn, graph |-> w \in GraphWriters])
        /\ walFile' = AppendFile(lsn, full)
        /\ walSize' = (IF full THEN 0 ELSE walSize) + 1
        /\ walHarm' = walHarm \cup ClosedUnsynced(full)
  BY <1>1 DEF WalAppend
<1>4. full \in BOOLEAN /\ (full => walSize > 0)
  BY FullIsBoolean
<1>5. PICK frame \in Frames \cup {Garbage} : frame = [lsn |-> lsn, graph |-> w \in GraphWriters]
  <2>1. [lsn |-> lsn, graph |-> w \in GraphWriters] \in Frames
    BY <1>2 DEF Frames
  <2> QED BY <2>1
<1>6. PICK rec : rec = frame.lsn
  OBVIOUS
<1>7. rec = lsn
  BY <1>5, <1>6
<1>8. walFile \in Starts /\ walFile' = AppendFile(lsn, full)
  BY <1>3 DEF WalTypeOK
<1>9. PICK segs : segs = walSegs'
  OBVIOUS
<1>10. /\ Typed(segs)
       /\ DOMAIN segs = DOMAIN walSegs \cup (IF full THEN {lsn} ELSE {})
       /\ \A s \in DOMAIN segs :
                 /\ Synced(segs, s) = IF s \in DOMAIN walSegs THEN Synced(walSegs, s) ELSE 0
                 /\ End(segs, s) = (IF s \in DOMAIN walSegs THEN End(walSegs, s) ELSE 0)
                                   + (IF s = walFile' THEN 1 ELSE 0)
       /\ \A s, j, l : At(segs, s, j, l) <=>
                 \/ At(walSegs, s, j, l)
                 \/ s = walFile' /\ s \in DOMAIN segs /\ j = End(segs, s) /\ l = rec /\ l # 0
       /\ \A s, j : Bad(segs, s, j) <=>
                 \/ Bad(walSegs, s, j)
                 \/ s = walFile' /\ s \in DOMAIN segs /\ j = End(segs, s) /\ rec = 0
  <2>1. segs = WithFrame(AppendTarget(lsn, full), walFile', frame)
    BY <1>3, <1>5, <1>9
  <2>2. Typed(walSegs)
    BY FilesTyped
  <2>3. lsn \in 1..MaxLSN /\ full \in BOOLEAN /\ frame \in Frames \cup {Garbage}
    BY <1>2, <1>4
  <2> QED BY ONLY <1>6, <1>8, <2>1, <2>2, <2>3, FrameAdded
<1>11. full /\ walFile \in DOMAIN walSegs /\ "closed unsynced" \notin walHarm' =>
          \A j, m : At(walSegs, walFile, j, m) => j <= Synced(walSegs, walFile)
  <2>1. full /\ walFile \in DOMAIN walSegs /\ "closed unsynced" \notin walHarm' => Unsynced(walSegs[walFile]) = {}
    BY <1>3 DEF ClosedUnsynced
  <2> QED BY <2>1, UnsyncedRecords, FilesTyped
<1>12. walSize' = (IF full THEN 0 ELSE walSize) + (IF rec = 0 THEN 0 ELSE 1)
  BY <1>3, <1>2, <1>7
<1>13. walFile' = IF full THEN lsn ELSE walFile
  BY <1>3 DEF AppendFile
<1>14. Appended(full, lsn, rec)
  BY ONLY <1>4, <1>9, <1>10, <1>11, <1>12, <1>13 DEF Appended
<1> QED BY <1>1, <1>2, <1>4, <1>7, <1>14

\* The same when the write fails.
LEMMA AppendFailsFacts ==
    ASSUME WalTypeOK, NEW w \in WalWriters, WalAppendFails(w)
    PROVE  /\ walLast + 1 \in 1..MaxLSN
           /\ \E full \in BOOLEAN : Appended(full, walLast + 1, 0)
<1>1. PICK lsn : lsn = walLast + 1
  OBVIOUS
<1>2. lsn \in 1..MaxLSN
  <2>1. lsn <= MaxLSN
    BY <1>1 DEF WalAppendFails
  <2>2. walLast \in 0..MaxLSN
    BY DEF WalTypeOK
  <2> QED BY ONLY <1>1, <2>1, <2>2, WalAssumption DEF WalAssumption
<1>3. PICK full \in Full :
        /\ walSegs' = WithFrame(AppendTarget(lsn, full), AppendFile(lsn, full), Garbage)
        /\ walFile' = AppendFile(lsn, full)
        /\ walSize' = IF full THEN 0 ELSE walSize
        /\ walHarm' = walHarm \cup {"failed append"} \cup ClosedUnsynced(full)
  BY <1>1 DEF WalAppendFails
<1>4. full \in BOOLEAN /\ (full => walSize > 0)
  BY FullIsBoolean
<1>6. Garbage.lsn = 0
  BY DEF Garbage
<1>7. walFile' = IF full THEN lsn ELSE walFile
  BY <1>3 DEF AppendFile
<1>8. walFile \in Starts /\ walSize \in Nat
  BY DEF WalTypeOK
<1>9. PICK segs : segs = walSegs'
  OBVIOUS
<1>10. /\ Typed(segs)
       /\ DOMAIN segs = DOMAIN walSegs \cup (IF full THEN {lsn} ELSE {})
       /\ \A s \in DOMAIN segs :
                 /\ Synced(segs, s) = IF s \in DOMAIN walSegs THEN Synced(walSegs, s) ELSE 0
                 /\ End(segs, s) = (IF s \in DOMAIN walSegs THEN End(walSegs, s) ELSE 0)
                                   + (IF s = walFile' THEN 1 ELSE 0)
       /\ \A s, j, l : At(segs, s, j, l) <=>
                 \/ At(walSegs, s, j, l)
                 \/ s = walFile' /\ s \in DOMAIN segs /\ j = End(segs, s) /\ l = 0 /\ l # 0
       /\ \A s, j : Bad(segs, s, j) <=>
                 \/ Bad(walSegs, s, j)
                 \/ s = walFile' /\ s \in DOMAIN segs /\ j = End(segs, s) /\ 0 = 0
  <2>1. PICK frame \in Frames \cup {Garbage} : frame = Garbage
    OBVIOUS
  <2>2. segs = WithFrame(AppendTarget(lsn, full), walFile', frame) /\ frame.lsn = 0
    BY <1>3, <1>6, <1>9, <2>1
  <2>3. AppendFile(lsn, full) = walFile'
    BY <1>3
  <2> QED BY <1>2, <1>4, <1>8, <2>2, <2>3, FrameAdded, FilesTyped
<1>11. full /\ walFile \in DOMAIN walSegs /\ "closed unsynced" \notin walHarm' =>
          \A j, m : At(walSegs, walFile, j, m) => j <= Synced(walSegs, walFile)
  <2>1. full /\ walFile \in DOMAIN walSegs /\ "closed unsynced" \notin walHarm' => Unsynced(walSegs[walFile]) = {}
    BY <1>3 DEF ClosedUnsynced
  <2> QED BY <2>1, UnsyncedRecords, FilesTyped
<1>12. walSize' = (IF full THEN 0 ELSE walSize) + (IF 0 = 0 THEN 0 ELSE 1)
  <2>1. walSize' = IF full THEN 0 ELSE walSize
    BY <1>3
  <2> QED BY ONLY <2>1, <1>8
<1>13. Appended(full, lsn, 0)
  BY <1>4, <1>7, <1>9, <1>10, <1>11, <1>12 DEF Appended
<1> QED BY <1>1, <1>2, <1>4, <1>13

\* What Sync does to the files.
LEMMA SyncFacts ==
    ASSUME WalTypeOK, NEW w \in WalWriters, WalSync(w)
    PROVE  /\ Typed(walSegs') /\ DOMAIN walSegs' = DOMAIN walSegs
           /\ \A s \in DOMAIN walSegs :
                 /\ End(walSegs', s) = End(walSegs, s)
                 /\ Synced(walSegs', s) = IF s = walFile THEN End(walSegs, s) ELSE Synced(walSegs, s)
           /\ \A s, j, l : At(walSegs', s, j, l) <=> At(walSegs, s, j, l)
           /\ \A s, j : Bad(walSegs', s, j) <=> Bad(walSegs, s, j)
           /\ \A l : l \in walDurable' <=> l \in walDurable \/ \E j \in Nat : At(walSegs, walFile, j, l)
<1>1. PICK segs : segs = walSegs'
  OBVIOUS
<1>2. segs = [s \in DOMAIN walSegs |->
                 IF s = walFile THEN [walSegs[s] EXCEPT !.synced = Len(walSegs[s].frames)] ELSE walSegs[s]]
  BY <1>1 DEF WalSync
<1>3. Typed(walSegs)
  BY FilesTyped
<1>4. ASSUME NEW s \in DOMAIN walSegs
      PROVE  /\ segs[s] \in SegmentFiles /\ segs[s].frames = walSegs[s].frames
             /\ segs[s].synced = IF s = walFile THEN Len(walSegs[s].frames) ELSE walSegs[s].synced
  <2>1. walSegs[s] \in SegmentFiles /\ Len(walSegs[s].frames) \in Nat
    BY <1>3, FileFields DEF Typed, End
  <2> QED BY <1>2, <2>1 DEF SegmentFiles
<1>5. DOMAIN segs = DOMAIN walSegs /\ Typed(segs)
  BY <1>2, <1>3, <1>4 DEF Typed
<1>6. \A l : l \in walDurable' <=> l \in walDurable \/ \E j \in Nat : At(walSegs, walFile, j, l)
  <2>1. \A l, j : At(walSegs, walFile, j, l) => walFile \in DOMAIN walSegs
    BY DEF At
  <2>2. walFile \in DOMAIN walSegs => \A l : l \in LSNsOf(walSegs[walFile]) <=> \E j \in Nat : At(walSegs, walFile, j, l)
    BY RecordsOf, <1>3
  <2>3. walDurable' = walDurable \cup UNION {LSNsOf(walSegs[s]) : s \in DOMAIN walSegs \cap {walFile}}
    BY DEF WalSync
  <2>4. \A l : l \in walDurable' <=> l \in walDurable \/ (walFile \in DOMAIN walSegs /\ l \in LSNsOf(walSegs[walFile]))
    BY <2>3
  <2> QED BY <2>1, <2>2, <2>4
<1> QED BY <1>1, <1>4, <1>5, <1>6 DEF At, Bad, End, Synced

\* What retention leaves of the files.
LEMMA CheckpointFacts ==
    ASSUME WalTypeOK, WalCheckpoint
    PROVE  /\ Typed(walSegs')
           /\ DOMAIN walSegs' = {t \in DOMAIN walSegs : \A u \in DOMAIN walSegs : t < u => u > walProgress + 1}
           /\ \A s \in DOMAIN walSegs' :
                 End(walSegs', s) = End(walSegs, s) /\ Synced(walSegs', s) = Synced(walSegs, s)
           /\ \A s, j, l : At(walSegs', s, j, l) <=> At(walSegs, s, j, l) /\ s \in DOMAIN walSegs'
           /\ \A s, j : Bad(walSegs', s, j) <=> Bad(walSegs, s, j) /\ s \in DOMAIN walSegs'
           /\ "unlinked" \notin walHarm' => walFile \in DOMAIN walSegs'
<1>1. PICK segs : segs = walSegs'
  OBVIOUS
<1>2. segs = [s \in {t \in DOMAIN walSegs : \A u \in DOMAIN walSegs : t < u => u > walProgress + 1} |-> walSegs[s]]
  BY <1>1 DEF WalCheckpoint, RetainFrom
<1>3. Typed(walSegs)
  BY FilesTyped
<1>4. /\ DOMAIN segs = {t \in DOMAIN walSegs : \A u \in DOMAIN walSegs : t < u => u > walProgress + 1}
      /\ \A s \in DOMAIN segs : s \in DOMAIN walSegs /\ segs[s] = walSegs[s]
  BY <1>2
<1>5. Typed(segs)
  BY <1>2, <1>3, <1>4 DEF Typed
<1>6. "unlinked" \notin walHarm' => walFile \in DOMAIN segs
  BY <1>1 DEF WalCheckpoint
<1> QED BY <1>1, <1>4, <1>5, <1>6 DEF At, Bad, End, Synced

\* What a crash leaves of the files.
LEMMA CrashFacts ==
    ASSUME WalTypeOK, ShapeInv, WalCrash
    PROVE  /\ Typed(walSegs') /\ DOMAIN walSegs' = DOMAIN walSegs
           /\ \A s \in DOMAIN walSegs :
                 /\ Synced(walSegs', s) = End(walSegs', s)
                 /\ \E k \in Nat : /\ k \in Synced(walSegs, s)..End(walSegs, s)
                                   /\ Cut(walSegs', walSegs, s, k)
           /\ \A l : l \in walDurable' <=> l \in walDurable \/ \E s \in Starts, j \in Nat : At(walSegs', s, j, l)
<1>1. PICK segs : segs = walSegs'
  OBVIOUS
<1>2. Typed(walSegs)
  BY FilesTyped
<1>3. PICK left : /\ \A s \in DOMAIN walSegs : left[s] \in Survivors(walSegs[s])
                  /\ segs = [s \in DOMAIN walSegs |-> [frames |-> left[s], synced |-> Len(left[s])]]
  BY <1>1 DEF WalCrash
<1>4. ASSUME NEW s \in DOMAIN walSegs
      PROVE  /\ segs[s] \in SegmentFiles
             /\ Synced(segs, s) = End(segs, s)
             /\ \E k \in Nat :
                   /\ k \in Synced(walSegs, s)..End(walSegs, s) /\ k \in 0..End(walSegs, s)
                   /\ \A j \in 1..k : segs[s].frames[j] = walSegs[s].frames[j]
                   /\ \/ End(segs, s) = k
                      \/ k < End(walSegs, s) /\ End(segs, s) = k + 1 /\ segs[s].frames[k + 1] = Garbage
  <2>1. walSegs[s] \in SegmentFiles
    BY <1>2 DEF Typed
  <2>2. walSegs[s].synced <= Len(walSegs[s].frames)
    BY DEF ShapeInv, FilesInv, MemoryInv, End, Synced
  <2>3. PICK seg : seg = walSegs[s]
    OBVIOUS
  <2>4. PICK ls : ls = left[s]
    OBVIOUS
  <2>5. ls \in Survivors(seg)
    BY <1>3, <2>3, <2>4
  <2>6. /\ ls \in Seq(Frames \cup {Garbage})
        /\ \E k \in seg.synced..Len(seg.frames) :
                /\ \A j \in 1..k : ls[j] = seg.frames[j]
                /\ \/ Len(ls) = k
                   \/ k < Len(seg.frames) /\ Len(ls) = k + 1 /\ ls[k + 1] = Garbage
    BY <2>1, <2>2, <2>3, <2>5, SurvivorShape
  <2>7. segs[s] = [frames |-> ls, synced |-> Len(ls)]
    BY <1>3, <2>4
  <2>8. Len(ls) \in Nat /\ segs[s].frames = ls /\ segs[s].synced = Len(ls)
    BY <2>6, <2>7
  <2>9. segs[s] \in SegmentFiles
    BY <2>6, <2>7, <2>8 DEF SegmentFiles
  <2>10. seg.synced \in Nat /\ Len(seg.frames) \in Nat
    BY <2>1, <2>3 DEF SegmentFiles
  <2>11. \A k \in seg.synced..Len(seg.frames) : k \in Nat /\ k \in 0..Len(seg.frames)
    BY <2>10
  <2> QED BY <2>3, <2>6, <2>8, <2>9, <2>11 DEF End, Synced
<1>5. DOMAIN segs = DOMAIN walSegs /\ Typed(segs)
  BY <1>2, <1>3, <1>4 DEF Typed
<1>6. ASSUME NEW s \in DOMAIN walSegs
      PROVE  \E k \in Nat : k \in Synced(walSegs, s)..End(walSegs, s) /\ Cut(segs, walSegs, s, k)
  <2>1. PICK k \in Nat :
                   /\ k \in Synced(walSegs, s)..End(walSegs, s) /\ k \in 0..End(walSegs, s)
                   /\ \A j \in 1..k : segs[s].frames[j] = walSegs[s].frames[j]
                   /\ \/ End(segs, s) = k
                      \/ k < End(walSegs, s) /\ End(segs, s) = k + 1 /\ segs[s].frames[k + 1] = Garbage
    BY <1>4
  <2>2. Cut(segs, walSegs, s, k)
    BY <1>2, <1>5, <2>1, CutShape
  <2> QED BY <2>1, <2>2
<1>7. \A l : l \in walDurable' <=> l \in walDurable \/ \E s \in Starts, j \in Nat : At(segs, s, j, l)
  <2>1. walDurable' = walDurable \cup UNION {LSNsOf(segs[s]) : s \in DOMAIN walSegs}
    BY <1>1 DEF WalCrash
  <2>2. \A s \in DOMAIN segs : s \in Starts /\ \A l : l \in LSNsOf(segs[s]) <=> \E j \in Nat : At(segs, s, j, l)
    BY RecordsOf, FileFields, <1>5
  <2>3. \A s, j, l : At(segs, s, j, l) => s \in DOMAIN segs
    BY DEF At
  <2> QED BY <1>5, <2>1, <2>2, <2>3
<1> QED BY <1>1, <1>4, <1>5, <1>6, <1>7

\* What can be wrong with a log.
LEMMA ErrorsOfScan ==
    \A segs : ScanErrors(segs) \subseteq {"non-contiguous", "corrupt", "torn"}
BY DEF ScanErrors

\* What Open leaves of the files, if it succeeds.
LEMMA OpenFacts ==
    ASSUME WalTypeOK, ShapeInv, WalOpen, walStatus' = "recovering"
    PROVE  /\ walStatus = "down" /\ Scannable(walSegs)
           /\ Typed(walSegs') /\ DOMAIN walSegs' = DOMAIN walSegs
           /\ walFile' \in DOMAIN walSegs /\ \A s \in DOMAIN walSegs : s <= walFile'
           /\ walSize' = End(walSegs', walFile')
           /\ \A s, j : ~Bad(walSegs', s, j)
           /\ \A s \in DOMAIN walSegs : s # walFile' => walSegs'[s] = walSegs[s]
           /\ \E n \in Nat :
                 /\ n <= End(walSegs, walFile')
                 /\ End(walSegs', walFile') = n /\ Synced(walSegs', walFile') = n
                 /\ \A j, l : At(walSegs', walFile', j, l) <=> At(walSegs, walFile', j, l) /\ j <= n
                 /\ \A j \in 1..End(walSegs, walFile') : j > n => \E k \in 1..j : Bad(walSegs, walFile', k)
           /\ walLast' \in 0..MaxLSN
           /\ walLast' = 0 \/ \E s \in Starts, j \in Nat : At(walSegs', s, j, walLast')
           /\ \A s, j, l : At(walSegs', s, j, l) => l <= walLast'
           /\ walHarm \subseteq walHarm'
           /\ "cut" \notin walHarm' => "cut" \notin walHarm /\ \A g \in Garbled(walSegs) : ~Followed(walSegs, g)
           /\ "misnamed" \notin walHarm' => ~(walLast' + 1 < walFile')
           /\ walHarm' \subseteq walHarm \cup {"cut", "misnamed"}
           /\ "cut" \in walHarm' => "cut" \in walHarm \/ \E g \in Garbled(walSegs) : Followed(walSegs, g)
           /\ "misnamed" \in walHarm' => "misnamed" \in walHarm \/ walLast' + 1 < walFile'
<1>1. walStatus' \notin {"non-contiguous", "corrupt", "torn"}
  OBVIOUS
<1>2. ~(walStatus' \in ScanErrors(walSegs))
  BY <1>1, ErrorsOfScan
<1>3. /\ walStatus = "down" /\ Scannable(walSegs)
      /\ walSegs' = Truncated(walSegs) /\ walFile' = LastSegment(walSegs)
      /\ walSize' = Len(walSegs'[walFile'].frames)
      /\ \E last \in 0..MaxLSN :
                /\ last = 0 \/ last \in Retained'
                /\ \A l \in Retained' : l <= last
                /\ walLast' = last
      /\ walHarm' = walHarm \cup (IF \E g \in Garbled(walSegs) : Followed(walSegs, g) THEN {"cut"} ELSE {})
                            \cup (IF walLast' + 1 < walFile' THEN {"misnamed"} ELSE {})
  BY <1>2 DEF WalOpen
<1>4. Typed(walSegs) /\ DOMAIN walSegs # {}
  BY FilesTyped DEF ShapeInv, FilesInv, MemoryInv
<1>5. PICK segs, last : segs = walSegs' /\ last = walFile'
  OBVIOUS
<1>6. /\ Typed(segs) /\ DOMAIN segs = DOMAIN walSegs
      /\ last \in DOMAIN walSegs /\ \A s \in DOMAIN walSegs : s <= last
      /\ \A s \in DOMAIN walSegs : s # last => segs[s] = walSegs[s]
      /\ \A s, j : ~Bad(segs, s, j)
      /\ \E n \in 0..End(walSegs, last) :
                 /\ End(segs, last) = n /\ Synced(segs, last) = n
                 /\ \A j, l : At(segs, last, j, l) <=> At(walSegs, last, j, l) /\ j <= n
                 /\ \A j \in 1..End(walSegs, last) : <<last, j>> \in Scanned(walSegs) <=> j <= n
                 /\ \A j \in 1..End(walSegs, last) : j > n => \E k \in 1..j : Bad(walSegs, last, k)
  BY <1>3, <1>4, <1>5, Reopened
<1>7. End(walSegs, last) \in Nat
  BY <1>4, <1>6, FileFields
<1>8. \E n \in Nat :
                 /\ n <= End(walSegs, last)
                 /\ End(segs, last) = n /\ Synced(segs, last) = n
                 /\ \A j, l : At(segs, last, j, l) <=> At(walSegs, last, j, l) /\ j <= n
                 /\ \A j \in 1..End(walSegs, last) : j > n => \E k \in 1..j : Bad(walSegs, last, k)
  <2>1. \A n \in 0..End(walSegs, last) : n \in Nat /\ n <= End(walSegs, last)
    BY <1>7
  <2> QED BY <1>6, <2>1
<1>9. \A l : l \in Retained' <=> \E s \in Starts, j \in Nat : At(segs, s, j, l)
  <2>1. \A s \in DOMAIN segs : s \in Starts /\ \A l : l \in LSNsOf(segs[s]) <=> \E j \in Nat : At(segs, s, j, l)
    BY RecordsOf, FileFields, <1>6
  <2>2. \A s, j, l : At(segs, s, j, l) => s \in DOMAIN segs
    BY DEF At
  <2>3. Retained' = UNION {LSNsOf(segs[s]) : s \in DOMAIN segs}
    BY <1>5 DEF Retained
  <2> QED BY <2>1, <2>2, <2>3
<1>10. \A s, j, l : At(segs, s, j, l) => s \in Starts /\ j \in Nat
  BY <1>6, PlaceFields
<1>11. /\ walLast' \in 0..MaxLSN
       /\ walLast' = 0 \/ \E s \in Starts, j \in Nat : At(segs, s, j, walLast')
       /\ \A s, j, l : At(segs, s, j, l) => l <= walLast'
  BY <1>3, <1>9, <1>10
<1>12. walSize' = End(segs, last)
  BY <1>3, <1>5 DEF End
<1>13. /\ walHarm \subseteq walHarm'
       /\ "cut" \notin walHarm' => "cut" \notin walHarm /\ \A g \in Garbled(walSegs) : ~Followed(walSegs, g)
       /\ "misnamed" \notin walHarm' => ~(walLast' + 1 < walFile')
       /\ walHarm' \subseteq walHarm \cup {"cut", "misnamed"}
       /\ "cut" \in walHarm' => "cut" \in walHarm \/ \E g \in Garbled(walSegs) : Followed(walSegs, g)
       /\ "misnamed" \in walHarm' => "misnamed" \in walHarm \/ walLast' + 1 < walFile'
  BY <1>3
<1> QED BY <1>3, <1>5, <1>6, <1>8, <1>11, <1>12, <1>13

\* Open loses a record only behind garbage that is not at the end of its file.
LEMMA OpenKeeps ==
    ASSUME WalTypeOK, ShapeInv, WalOpen, walStatus' = "recovering",
           "cut" \notin walHarm'
    PROVE  \A s, j, l : At(walSegs', s, j, l) <=> At(walSegs, s, j, l)
<1>1. PICK segs, last : segs = walSegs' /\ last = walFile'
  OBVIOUS
<1>2. /\ Typed(segs) /\ DOMAIN segs = DOMAIN walSegs /\ last \in DOMAIN walSegs
      /\ \A s \in DOMAIN walSegs : s # last => segs[s] = walSegs[s]
      /\ \A g \in Garbled(walSegs) : ~Followed(walSegs, g)
  BY <1>1, OpenFacts
<1>3. PICK n \in Nat :
        /\ \A j, l : At(segs, last, j, l) <=> At(walSegs, last, j, l) /\ j <= n
        /\ \A j \in 1..End(walSegs, last) : j > n => \E k \in 1..j : Bad(walSegs, last, k)
  BY <1>1, OpenFacts
<1>4. Typed(walSegs)
  BY FilesTyped
<1>5. ASSUME NEW k, Bad(walSegs, last, k), k < End(walSegs, last)
      PROVE  FALSE
  <2>1. PICK g \in Garbled(walSegs) : g = <<last, k>>
    BY <1>4, <1>5, PlaceIn
  <2>2. Followed(walSegs, g)
    BY <1>5, <2>1 DEF Followed, End
  <2> QED BY <1>2, <2>2
<1>6. ASSUME NEW j, NEW l, At(walSegs, last, j, l), ~(j <= n)
      PROVE  FALSE
  <2>1. End(walSegs, last) \in Nat /\ j \in 1..End(walSegs, last) /\ j \in Nat
    BY <1>2, <1>4, <1>6, PlaceFields, FileFields
  <2>2. PICK k \in 1..j : Bad(walSegs, last, k)
    BY <1>3, <1>6, <2>1
  <2>3. k # j
    BY <1>4, <1>6, <2>2, PlaceFields
  <2>4. k < End(walSegs, last)
    BY <2>1, <2>3
  <2> QED BY <1>5, <2>2, <2>4
<1>7. \A j, l : At(segs, last, j, l) <=> At(walSegs, last, j, l)
  BY <1>3, <1>6
<1>8. \A s, j, l : s # last => (At(segs, s, j, l) <=> At(walSegs, s, j, l))
  BY <1>2 DEF At
<1> QED BY <1>1, <1>7, <1>8

\* Open keeps the synced frames of the files that it does not cut off.
LEMMA OpenOthers ==
    ASSUME WalTypeOK, ShapeInv, WalOpen, walStatus' = "recovering"
    PROVE  /\ \A s, j, l : At(walSegs', s, j, l) => At(walSegs, s, j, l)
           /\ \A s \in DOMAIN walSegs : s # walFile' =>
                 /\ End(walSegs', s) = End(walSegs, s) /\ Synced(walSegs', s) = Synced(walSegs, s)
                 /\ \A j, l : At(walSegs', s, j, l) <=> At(walSegs, s, j, l)
           /\ \A s \in DOMAIN walSegs' : Synced(walSegs', s) = End(walSegs', s)
<1>1. PICK segs, last : segs = walSegs' /\ last = walFile'
  OBVIOUS
<1>2. /\ DOMAIN segs = DOMAIN walSegs /\ last \in DOMAIN walSegs
      /\ \A s \in DOMAIN walSegs : s # last => segs[s] = walSegs[s]
      /\ Synced(segs, last) = End(segs, last)
      /\ \A j, l : At(segs, last, j, l) => At(walSegs, last, j, l)
      /\ walStatus = "down"
  BY <1>1, OpenFacts
<1>3. \A s \in DOMAIN walSegs : s # last =>
                 /\ End(segs, s) = End(walSegs, s) /\ Synced(segs, s) = Synced(walSegs, s)
                 /\ \A j, l : At(segs, s, j, l) <=> At(walSegs, s, j, l)
  BY <1>2 DEF At, End, Synced
<1>4. \A s, j, l : At(segs, s, j, l) => s \in DOMAIN walSegs
  BY <1>2 DEF At
<1>5. \A s \in DOMAIN walSegs : Synced(walSegs, s) = End(walSegs, s)
  BY <1>2 DEF ShapeInv, FilesInv, MemoryInv
<1> QED BY <1>1, <1>2, <1>3, <1>4, <1>5

\* What a failed Open leaves.
LEMMA OpenFailsFacts ==
    ASSUME WalOpen, walStatus' # "recovering"
    PROVE  /\ walStatus' \in ScanErrors(walSegs) /\ walStatus = "down"
           /\ walStatus' \in {"non-contiguous", "corrupt", "torn"}
           /\ UNCHANGED <<walSegs, walFile, walSize, walLast, walHarm>>
BY ErrorsOfScan DEF WalOpen

\* What is left to replay.
LEMMA ReplayFrames ==
    ASSUME WalTypeOK
    PROVE  /\ \A f \in ToReplay : \E s, j : At(walSegs, s, j, f.lsn) /\ f.lsn > walProgress
           /\ \A s, j, l : At(walSegs, s, j, l) /\ l > walProgress =>
                 \/ \E f \in ToReplay : f.lsn = l
                 \/ \E t \in DOMAIN walSegs : t <= walProgress + 1 /\ ~(t <= s)
<1>1. Typed(walSegs) /\ walProgress \in Nat
  BY FilesTyped, Numbers
<1>2. ASSUME NEW f \in ToReplay
      PROVE  \E s, j : At(walSegs, s, j, f.lsn) /\ f.lsn > walProgress
  <2>1. PICK p \in Places(walSegs) : f = FrameAt(walSegs, p) /\ FrameAt(walSegs, p).lsn > walProgress
    BY DEF ToReplay
  <2>2. PICK s, j : p = <<s, j>>
    BY <1>1, PlaceIn
  <2>3. s \in DOMAIN walSegs /\ j \in 1..End(walSegs, s) /\ f = walSegs[s].frames[j] /\ f.lsn > walProgress
    BY <1>1, <2>1, <2>2, PlaceIn
  <2>4. f \in Frames \cup {Garbage}
    BY <1>1, <2>3, FileFields
  <2>5. f.lsn \in Nat
    BY <2>4, FrameKinds
  <2>6. f.lsn # 0
    BY <1>1, <2>3, <2>5
  <2> QED BY <2>3, <2>6 DEF At, End
<1>3. ASSUME NEW s, NEW j, NEW l, At(walSegs, s, j, l), l > walProgress,
             \A t \in DOMAIN walSegs : t <= walProgress + 1 => t <= s
      PROVE  \E f \in ToReplay : f.lsn = l
  <2>1. PICK p : p = <<s, j>>
    OBVIOUS
  <2>2. p \in Places(walSegs) /\ FrameAt(walSegs, p).lsn = l /\ p[1] = s
    BY <1>1, <1>3, <2>1, PlaceIn, PlaceFields DEF At
  <2>3. FrameAt(walSegs, p) \in ToReplay
    BY <1>3, <2>2 DEF ToReplay
  <2> QED BY <2>2, <2>3
<1> QED BY <1>2, <1>3

\* The parts of the type that are about the files, and the others.
FileTypes ==
    /\ Typed(walSegs) /\ walFile \in Starts /\ walSize \in Nat /\ walLast \in 0..MaxLSN
OtherTypes ==
    /\ walStatus \in {"open", "recovering", "down", "corrupt", "torn", "non-contiguous", "apply"}
    /\ walProgress \in 0..MaxLSN
    /\ walPc \in [WalWriters -> {"idle", "appended", "synced", "applied"}]
    /\ walAt \in [WalWriters -> 0..MaxLSN]
    /\ walApplied \cup walRefused \cup walGivenUp \cup walDurable \cup walAcked \subseteq 1..MaxLSN
    /\ walHarm \subseteq {"closed unsynced", "failed append", "retention", "unlinked", "misnamed", "cut"}
    /\ walCrashes \in 0..MaxWalCrashes

\* They are the type.
LEMMA TypeParts == WalTypeOK <=> FileTypes /\ OtherTypes
BY DEF WalTypeOK, FileTypes, OtherTypes, Typed

\* Every LSN in a file is one of those that exist.
LEMMA AppendTypes ==
    ASSUME WalTypeOK, ShapeInv, NEW w \in WalWriters, WalAppend(w) \/ WalAppendFails(w)
    PROVE  WalTypeOK'
<1>1. FileTypes /\ OtherTypes
  BY TypeParts
<1>2. walLast + 1 \in 1..MaxLSN /\ \E l \in {0, walLast + 1}, full \in BOOLEAN : Appended(full, walLast + 1, l)
  BY AppendFacts, AppendFailsFacts
<1>3. MaxLSN \in Nat
  BY WalAssumption
<1>4. walLast' = walLast \/ walLast' = walLast + 1
  BY DEF WalAppend, WalAppendFails
<1>5. FileTypes'
  <2>1. walLast + 1 \in Starts /\ walLast + 1 \in 0..MaxLSN
    BY <1>2, <1>3 DEF Starts
  <2>2. walLast' \in 0..MaxLSN
    BY <1>4, <2>1, <1>1 DEF FileTypes
  <2>3. Typed(walSegs') /\ walFile' \in Starts
    BY <1>1, <1>2, <2>1 DEF FileTypes, Appended
  <2>4. walSize' \in Nat
    <3>1. PICK l, full : walSize' = (IF full THEN 0 ELSE walSize) + (IF l = 0 THEN 0 ELSE 1)
      BY <1>2 DEF Appended
    <3>2. walSize \in Nat
      BY <1>1 DEF FileTypes
    <3> QED BY ONLY <3>1, <3>2
  <2> QED BY <2>2, <2>3, <2>4 DEF FileTypes
<1>6. walHarm' \subseteq {"closed unsynced", "failed append", "retention", "unlinked", "misnamed", "cut"}
  BY <1>1 DEF OtherTypes, WalAppend, WalAppendFails, ClosedUnsynced
<1>7. walAt' \in [WalWriters -> 0..MaxLSN]
  <2>1. walLast + 1 \in 0..MaxLSN
    BY <1>2, <1>3
  <2> QED BY <2>1, <1>1 DEF OtherTypes, WalAppend, WalAppendFails
<1>8. walPc' \in [WalWriters -> {"idle", "appended", "synced", "applied"}]
  BY <1>1 DEF OtherTypes, WalAppend, WalAppendFails
<1>9. UNCHANGED <<walStatus, walProgress, walApplied, walRefused, walGivenUp, walDurable, walAcked, walCrashes>>
  BY DEF WalAppend, WalAppendFails
<1>10. OtherTypes'
  BY <1>1, <1>6, <1>7, <1>8, <1>9 DEF OtherTypes
<1> QED BY <1>5, <1>10, TypeParts, PTL

\* A writer's other steps keep the types.
LEMMA WriterTypes ==
    ASSUME WalTypeOK, ShapeInv, NEW w \in WalWriters,
           WalSync(w) \/ WalApply(w) \/ WalApplyRefused(w) \/ WalMarkApplied(w) \/ WalGiveUp(w)
    PROVE  WalTypeOK'
<1>1. FileTypes /\ OtherTypes
  BY TypeParts
<1>2. walPc' \in [WalWriters -> {"idle", "appended", "synced", "applied"}]
  BY <1>1 DEF OtherTypes, WalSync, WalApply, WalApplyRefused, WalMarkApplied, WalGiveUp
<1>3. CASE WalSync(w)
  <2>1. Typed(walSegs') /\ walDurable' \subseteq 1..MaxLSN
    <3>1. \A j, l : At(walSegs, walFile, j, l) => l \in 1..MaxLSN
      BY PlaceFields, FilesTyped
    <3> QED BY <1>1, <1>3, <3>1, SyncFacts DEF OtherTypes
  <2>2. FileTypes'
    BY <1>1, <1>3, <2>1 DEF FileTypes, WalSync
  <2>3. OtherTypes'
    BY <1>1, <1>2, <1>3, <2>1 DEF OtherTypes, WalSync
  <2> QED BY <2>2, <2>3, TypeParts, PTL
<1>4. CASE WalApply(w) \/ WalApplyRefused(w) \/ WalMarkApplied(w) \/ WalGiveUp(w)
  <2>1. UNCHANGED <<walSegs, walFile, walSize, walLast, walStatus, walAt, walHarm, walCrashes>>
    BY <1>4 DEF WalApply, WalApplyRefused, WalMarkApplied, WalGiveUp
  <2>2. FileTypes'
    BY <1>1, <2>1 DEF FileTypes
  <2>3. walAt[w] \in 1..MaxLSN
    <3>1. walPc[w] # "idle"
      BY <1>4 DEF WalApply, WalApplyRefused, WalMarkApplied, WalGiveUp
    <3>2. walAt[w] \in 1..walLast /\ walLast \in 0..MaxLSN
      BY <1>1, <3>1 DEF ShapeInv, FilesInv, MemoryInv, Busy, FileTypes
    <3> QED BY ONLY <3>2, WalAssumption DEF WalAssumption
  <2>4. walAt[w] \in 0..MaxLSN
    BY <1>1 DEF OtherTypes
  <2>5. walProgress' \in 0..MaxLSN
    BY <1>1, <1>4, <2>4 DEF OtherTypes, WalApply, WalApplyRefused, WalMarkApplied, WalGiveUp
  <2>6. walApplied' \cup walRefused' \cup walGivenUp' \cup walDurable' \cup walAcked' \subseteq 1..MaxLSN
    BY <1>1, <1>4, <2>3 DEF OtherTypes, WalApply, WalApplyRefused, WalMarkApplied, WalGiveUp
  <2>7. OtherTypes'
    BY <1>1, <1>2, <2>1, <2>5, <2>6 DEF OtherTypes
  <2> QED BY <2>2, <2>7, TypeParts, PTL
<1> QED BY <1>3, <1>4

\* So do a checkpoint, a crash and Open.
LEMMA SystemTypes ==
    ASSUME WalTypeOK, ShapeInv, WalCheckpoint \/ WalCrash \/ WalOpen
    PROVE  WalTypeOK'
<1>1. FileTypes /\ OtherTypes
  BY TypeParts
<1>2. CASE WalCheckpoint
  <2>1. FileTypes'
    BY <1>1, <1>2, CheckpointFacts DEF FileTypes, WalCheckpoint
  <2>2. OtherTypes'
    BY <1>1, <1>2 DEF OtherTypes, WalCheckpoint
  <2> QED BY <2>1, <2>2, TypeParts, PTL
<1>3. CASE WalCrash
  <2>1. Typed(walSegs') /\ walDurable' \subseteq 1..MaxLSN
    <3>1. PICK segs : segs = walSegs'
      OBVIOUS
    <3>2. Typed(segs) /\ \A l : l \in walDurable' <=> l \in walDurable \/ \E s \in Starts, j \in Nat : At(segs, s, j, l)
      BY <1>3, <3>1, CrashFacts
    <3>3. \A s, j, l : At(segs, s, j, l) => l \in 1..MaxLSN
      BY <3>2, PlaceFields
    <3> QED BY <1>1, <3>1, <3>2, <3>3 DEF OtherTypes
  <2>2. FileTypes'
    BY <1>1, <1>3, <2>1 DEF FileTypes, WalCrash
  <2>3. walCrashes' \in 0..MaxWalCrashes
    <3>1. walCrashes' = walCrashes + 1 /\ walCrashes < MaxWalCrashes /\ walCrashes \in 0..MaxWalCrashes
      BY <1>1, <1>3 DEF OtherTypes, WalCrash
    <3> QED BY ONLY <3>1, WalAssumption DEF WalAssumption
  <2>4. UNCHANGED <<walProgress, walAt, walApplied, walRefused, walAcked, walHarm>>
        /\ walStatus' = "down" /\ walPc' = [x \in WalWriters |-> "idle"] /\ walGivenUp' = {}
    BY <1>3 DEF WalCrash
  <2>5. OtherTypes'
    BY <1>1, <2>1, <2>3, <2>4 DEF OtherTypes
  <2> QED BY <2>2, <2>5, TypeParts, PTL
<1>4. CASE WalOpen
  <2>1. UNCHANGED <<walProgress, walPc, walAt, walApplied, walRefused, walGivenUp, walDurable, walAcked, walCrashes>>
    BY <1>4 DEF WalOpen
  <2>2. CASE walStatus' = "recovering"
    <3>1. PICK segs, file : segs = walSegs' /\ file = walFile'
      OBVIOUS
    <3>2. Typed(segs) /\ file \in DOMAIN segs /\ walLast' \in 0..MaxLSN
      BY <1>4, <2>2, <3>1, OpenFacts
    <3>3. walSize' = End(segs, file)
      BY <1>4, <2>2, <3>1, OpenFacts
    <3>4. file \in Starts /\ walSize' \in Nat
      BY <3>2, <3>3, FileFields
    <3>5. FileTypes'
      BY <3>1, <3>2, <3>4 DEF FileTypes
    <3>6. walHarm' \subseteq walHarm \cup {"cut", "misnamed"}
      BY <1>4, <2>2, OpenFacts
    <3>7. OtherTypes'
      BY <1>1, <2>1, <2>2, <3>6 DEF OtherTypes
    <3> QED BY <3>5, <3>7, TypeParts, PTL
  <2>3. CASE walStatus' # "recovering"
    <3>1. /\ walStatus' \in {"non-contiguous", "corrupt", "torn"}
          /\ UNCHANGED <<walSegs, walFile, walSize, walLast, walHarm>>
      BY <1>4, <2>3, OpenFailsFacts
    <3>2. FileTypes'
      BY <1>1, <3>1 DEF FileTypes
    <3>3. OtherTypes'
      BY <1>1, <2>1, <3>1 DEF OtherTypes
    <3> QED BY <3>2, <3>3, TypeParts, PTL
  <2> QED BY <2>2, <2>3
<1> QED BY <1>2, <1>3, <1>4

\* What a replay does.
LEMMA ReplayFacts ==
    ASSUME WalTypeOK, WalReplay
    PROVE  /\ walStatus = "recovering"
           /\ walProgress' \in 1..MaxLSN /\ walProgress' > walProgress
           /\ walApplied' = walApplied \cup {walProgress'}
           /\ \E s \in Starts, j \in Nat : At(walSegs, s, j, walProgress')
<1>1. PICK f \in ToReplay : walApplied' = walApplied \cup {f.lsn} /\ walProgress' = f.lsn
  BY DEF WalReplay
<1>2. PICK s, j : At(walSegs, s, j, f.lsn) /\ f.lsn > walProgress
  BY <1>1, ReplayFrames
<1>3. s \in Starts /\ j \in Nat /\ f.lsn \in 1..MaxLSN
  BY <1>2, PlaceFields, FilesTyped
<1> QED BY <1>1, <1>2, <1>3 DEF WalReplay

\* So does recovery.
LEMMA RecoveryTypes ==
    ASSUME WalTypeOK, ShapeInv, WalReplay \/ WalReplayRefused \/ WalRecovered
    PROVE  WalTypeOK'
<1>1. FileTypes /\ OtherTypes
  BY TypeParts
<1>2. UNCHANGED <<walSegs, walFile, walSize, walLast, walPc, walAt, walGivenUp, walDurable, walAcked, walHarm, walCrashes>>
  BY DEF WalReplay, WalReplayRefused, WalRecovered
<1>3. FileTypes'
  BY <1>1, <1>2 DEF FileTypes
<1>4. walStatus' \in {"open", "recovering", "down", "corrupt", "torn", "non-contiguous", "apply"}
  BY <1>1 DEF OtherTypes, WalReplay, WalReplayRefused, WalRecovered
<1>5. walProgress' \in 0..MaxLSN /\ walApplied' \cup walRefused' \subseteq 1..MaxLSN
  <2>1. CASE WalReplay
    <3>1. walProgress' \in 1..MaxLSN /\ walApplied' = walApplied \cup {walProgress'} /\ walRefused' = walRefused
      BY <2>1, ReplayFacts DEF WalReplay
    <3>2. walProgress' \in 0..MaxLSN
      BY ONLY <3>1, WalAssumption DEF WalAssumption
    <3> QED BY <1>1, <3>1, <3>2 DEF OtherTypes
  <2>2. CASE WalReplayRefused
    <3>1. PICK f \in ToReplay : walRefused' = IF f.lsn \in walApplied THEN walRefused ELSE walRefused \cup {f.lsn}
      BY <2>2 DEF WalReplayRefused
    <3>2. f.lsn \in 1..MaxLSN
      BY ReplayFrames, PlaceFields, FilesTyped
    <3>3. walProgress' = walProgress /\ walApplied' = walApplied
      BY <2>2 DEF WalReplayRefused
    <3> QED BY <1>1, <3>1, <3>2, <3>3 DEF OtherTypes
  <2>3. CASE WalRecovered
    BY <1>1, <2>3 DEF OtherTypes, WalRecovered
  <2> QED BY <2>1, <2>2, <2>3
<1>6. OtherTypes'
  BY <1>1, <1>2, <1>4, <1>5 DEF OtherTypes
<1> QED BY <1>3, <1>6, TypeParts, PTL

\* Records that are where they were, in files that are synced as far.
LEMMA MemoryStep ==
    ASSUME WalTypeOK, MemoryInv, WalNext
    PROVE  MemoryInv'
<1>1. walLast \in Nat /\ \A w \in WalWriters : walAt[w] \in Nat
  BY Numbers
<1>2. ASSUME NEW w \in WalWriters, WalAppend(w)
      PROVE  MemoryInv'
  <2>1. walLast' = walLast + 1 /\ walStatus' = "open"
    BY <1>2 DEF WalAppend
  <2>2. walAt' = [walAt EXCEPT ![w] = walLast'] /\ walPc' = [walPc EXCEPT ![w] = "appended"]
    BY <1>2 DEF WalAppend
  <2>3. ASSUME NEW v \in WalWriters, walPc'[v] # "idle"
        PROVE  walAt'[v] \in 1..walLast'
    <3>1. CASE v = w
      <4>1. walAt'[v] = walLast'
        BY <2>2, <3>1 DEF WalTypeOK
      <4> QED BY <4>1, <2>1, <1>1
    <3>2. CASE v # w
      <4>1. walAt'[v] = walAt[v] /\ walPc[v] # "idle"
        BY <2>2, <2>3, <3>2 DEF WalTypeOK
      <4>2. walAt[v] \in 1..walLast
        BY <4>1 DEF MemoryInv, Busy
      <4> QED BY <4>1, <4>2, <2>1, <1>1
    <3> QED BY <3>1, <3>2
  <2> QED BY <2>1, <2>3 DEF MemoryInv, Busy
<1>3. ASSUME NEW w \in WalWriters, WalAppendFails(w)
      PROVE  MemoryInv'
  BY <1>3 DEF MemoryInv, Busy, WalAppendFails
<1>4. ASSUME NEW w \in WalWriters, WalSync(w) \/ WalApply(w) \/ WalApplyRefused(w) \/ WalMarkApplied(w) \/ WalGiveUp(w)
      PROVE  MemoryInv'
  <2>1. UNCHANGED <<walStatus, walLast, walAt>> /\ walStatus = "open" /\ walPc[w] # "idle"
    BY <1>4 DEF WalSync, WalApply, WalApplyRefused, WalMarkApplied, WalGiveUp
  <2>2. \A v \in WalWriters : v # w => walPc'[v] = walPc[v]
    BY <1>4 DEF WalTypeOK, WalSync, WalApply, WalApplyRefused, WalMarkApplied, WalGiveUp
  <2> QED BY <2>1, <2>2 DEF MemoryInv, Busy
<1>5. CASE WalCheckpoint \/ WalCrash \/ WalOpen
  <2>1. UNCHANGED walAt /\ \A w \in WalWriters : walPc'[w] = "idle"
    BY <1>5 DEF MemoryInv, WalCheckpoint, WalCrash, WalOpen
  <2> QED BY <2>1 DEF MemoryInv, Busy
<1>6. CASE WalReplay \/ WalReplayRefused \/ WalRecovered
  <2>1. UNCHANGED <<walAt, walPc>> /\ \A w \in WalWriters : walPc[w] = "idle"
    BY <1>6 DEF MemoryInv, WalReplay, WalReplayRefused, WalRecovered
  <2> QED BY <2>1 DEF MemoryInv, Busy
<1> QED BY <1>2, <1>3, <1>4, <1>5, <1>6 DEF WalNext

\* A write that succeeds or fails adds a record or garbage.
LEMMA EitherAppend ==
    ASSUME WalTypeOK, NEW w \in WalWriters, WalAppend(w) \/ WalAppendFails(w)
    PROVE  \E full \in BOOLEAN, l \in Nat :
              /\ Appended(full, walLast + 1, l)
              /\ (l = 0 /\ walLast' = walLast) \/ (l = walLast + 1 /\ walLast' = walLast + 1)
<1>1. WalAppend(w) => walLast' = walLast + 1
  BY DEF WalAppend
<1>2. WalAppendFails(w) => walLast' = walLast
  BY DEF WalAppendFails
<1>3. WalAppend(w) => \E full \in BOOLEAN : Appended(full, walLast + 1, walLast + 1)
  BY AppendFacts
<1>4. WalAppendFails(w) => \E full \in BOOLEAN : Appended(full, walLast + 1, 0)
  BY AppendFailsFacts
<1>5. 0 \in Nat /\ walLast + 1 \in Nat
  BY Numbers
<1> QED BY <1>1, <1>2, <1>3, <1>4, <1>5

\* Append.
LEMMA FilesAppended ==
    ASSUME WalTypeOK, FilesInv, NEW w \in WalWriters, WalAppend(w) \/ WalAppendFails(w)
    PROVE  FilesInv'
<1>1. walLast \in Nat
  BY Numbers
<1>2. walStatus = "open" /\ walStatus' = "open" /\ walDurable' = walDurable
  BY DEF WalAppend, WalAppendFails
<1>3. PICK full \in BOOLEAN, l \in Nat :
         /\ Appended(full, walLast + 1, l)
         /\ (l = 0 /\ walLast' = walLast) \/ (l = walLast + 1 /\ walLast' = walLast + 1)
  BY EitherAppend
<1>4. PICK segs : segs = walSegs'
  OBVIOUS
<1>5. /\ DOMAIN walSegs \subseteq DOMAIN segs
      /\ \A s \in DOMAIN segs :
          /\ Synced(segs, s) = IF s \in DOMAIN walSegs THEN Synced(walSegs, s) ELSE 0
          /\ End(segs, s) = (IF s \in DOMAIN walSegs THEN End(walSegs, s) ELSE 0)
                                 + (IF s = walFile' THEN 1 ELSE 0)
      /\ \A s, j, m : At(segs, s, j, m) <=>
          \/ At(walSegs, s, j, m)
          \/ s = walFile' /\ s \in DOMAIN segs /\ j = End(segs, s) /\ m = l /\ m # 0
      /\ Typed(segs)
  BY <1>3, <1>4 DEF Appended
<1>6. \A s \in DOMAIN walSegs : End(walSegs, s) \in Nat /\ Synced(walSegs, s) \in Nat /\ Synced(walSegs, s) <= End(walSegs, s)
  BY FilesTyped, FileFields DEF FilesInv
<1>7. ASSUME NEW s \in DOMAIN segs
      PROVE  /\ Synced(segs, s) <= End(segs, s)
             /\ s = walFile' => Synced(segs, s) < End(segs, s)
             /\ s \in DOMAIN walSegs => Synced(segs, s) = Synced(walSegs, s)
             /\ End(segs, s) \in Nat /\ Synced(segs, s) \in Nat
  BY <1>5, <1>6
<1>8. ASSUME NEW s \in Starts, NEW j \in Nat, NEW m \in 1..MaxLSN, At(segs, s, j, m)
      PROVE  /\ j <= Synced(segs, s) => m \in walDurable
             /\ m <= walLast'
  <2>1. CASE At(walSegs, s, j, m)
    <3>1. m <= walLast /\ (j <= Synced(walSegs, s) => m \in walDurable)
      BY <1>2, <2>1 DEF FilesInv, Live
    <3>2. Synced(segs, s) = Synced(walSegs, s)
      BY <1>5, <1>7, <2>1 DEF At
    <3> QED BY <3>1, <3>2, <1>1, <1>3, WalAssumption
  <2>2. CASE s = walFile' /\ s \in DOMAIN segs /\ j = End(segs, s) /\ m = l /\ m # 0
    <3>1. ~(j <= Synced(segs, s))
      BY <1>7, <2>2
    <3>2. m <= walLast'
      BY <1>3, <2>2, <1>1
    <3> QED BY <3>1, <3>2
  <2> QED BY <1>5, <1>8, <2>1, <2>2
<1>9. DOMAIN segs # {}
  BY <1>5 DEF FilesInv
<1> QED BY <1>2, <1>4, <1>7, <1>8, <1>9 DEF FilesInv, Live

\* Sync.
LEMMA FilesSynced ==
    ASSUME WalTypeOK, FilesInv, NEW w \in WalWriters, WalSync(w)
    PROVE  FilesInv'
<1>1. PICK segs : segs = walSegs'
  OBVIOUS
<1>2. /\ DOMAIN segs = DOMAIN walSegs
      /\ \A s \in DOMAIN walSegs :
                 /\ End(segs, s) = End(walSegs, s)
                 /\ Synced(segs, s) = IF s = walFile THEN End(walSegs, s) ELSE Synced(walSegs, s)
      /\ \A s, j, l : At(segs, s, j, l) <=> At(walSegs, s, j, l)
      /\ \A l : l \in walDurable' <=> l \in walDurable \/ \E j \in Nat : At(walSegs, walFile, j, l)
  BY <1>1, SyncFacts
<1>3. walStatus = "open" /\ walStatus' = "open" /\ walLast' = walLast
  BY DEF WalSync
<1>4. \A s \in DOMAIN walSegs : End(walSegs, s) \in Nat /\ Synced(segs, s) <= End(segs, s)
  BY <1>2, FilesTyped, FileFields DEF FilesInv
<1>5. ASSUME NEW s \in Starts, NEW j \in Nat, NEW l \in 1..MaxLSN, At(segs, s, j, l)
      PROVE  /\ j <= Synced(segs, s) => l \in walDurable'
             /\ l <= walLast'
  <2>1. At(walSegs, s, j, l) /\ s \in DOMAIN walSegs
    BY <1>2, <1>5, PlaceFields, FilesTyped
  <2>2. l <= walLast /\ (j <= Synced(walSegs, s) => l \in walDurable)
    BY <2>1, <1>3 DEF FilesInv, Live
  <2> QED BY <2>1, <2>2, <1>2, <1>3
<1> QED BY <1>1, <1>2, <1>3, <1>4, <1>5 DEF FilesInv, Live

\* A checkpoint and a crash leave a part of the files.
LEMMA FilesCut ==
    ASSUME WalTypeOK, ShapeInv, WalCheckpoint \/ WalCrash
    PROVE  FilesInv'
<1>1. PICK segs : segs = walSegs'
  OBVIOUS
<1>2. FilesInv
  BY DEF ShapeInv
<1>3. CASE WalCheckpoint
  <2>1. /\ DOMAIN segs \subseteq DOMAIN walSegs
        /\ \A s \in DOMAIN segs :
                 End(segs, s) = End(walSegs, s) /\ Synced(segs, s) = Synced(walSegs, s)
        /\ \A s, j, l : At(segs, s, j, l) <=> At(walSegs, s, j, l) /\ s \in DOMAIN segs
        /\ DOMAIN segs = {t \in DOMAIN walSegs : \A u \in DOMAIN walSegs : t < u => u > walProgress + 1}
    BY <1>1, <1>3, CheckpointFacts
  <2>2. walStatus' = walStatus /\ walDurable' = walDurable /\ walLast' = walLast
    BY <1>3 DEF WalCheckpoint
  <2>3. PICK last \in DOMAIN walSegs : \A s \in DOMAIN walSegs : s <= last
    BY <1>2, LastIsLast, FilesTyped DEF FilesInv
  <2>4. last \in DOMAIN segs
    <3>1. \A s \in DOMAIN walSegs : s \in Nat
      BY FilesTyped, FileFields
    <3>2. \A s \in DOMAIN walSegs : ~(last < s)
      BY <2>3, <3>1
    <3> QED BY <2>1, <3>2
  <2> QED BY <1>1, <1>2, <2>1, <2>2, <2>4 DEF FilesInv, Live
<1>4. CASE WalCrash
  <2>1. /\ DOMAIN segs = DOMAIN walSegs /\ Typed(segs)
        /\ \A s \in DOMAIN walSegs : Synced(segs, s) = End(segs, s)
        /\ \A l : l \in walDurable' <=> l \in walDurable \/ \E s \in Starts, j \in Nat : At(segs, s, j, l)
    BY <1>1, <1>4, CrashFacts
  <2>2. walStatus' = "down"
    BY <1>4 DEF WalCrash
  <2>3. \A s \in DOMAIN segs : Synced(segs, s) <= End(segs, s)
    BY <2>1, FileFields
  <2> QED BY <1>1, <1>2, <2>1, <2>2, <2>3 DEF FilesInv, Live
<1> QED BY <1>3, <1>4

\* Open.
LEMMA FilesOpened ==
    ASSUME WalTypeOK, ShapeInv, WalOpen
    PROVE  FilesInv'
<1>1. PICK segs : segs = walSegs'
  OBVIOUS
<1>2. FilesInv
  BY DEF ShapeInv
<1>3. walDurable' = walDurable /\ walStatus = "down"
  BY DEF WalOpen
<1>4. CASE walStatus' = "recovering"
  <2>1. /\ DOMAIN segs = DOMAIN walSegs /\ Typed(segs)
        /\ \A s, j, l : At(segs, s, j, l) => l <= walLast'
    BY <1>1, <1>4, OpenFacts
  <2>2. /\ \A s, j, l : At(segs, s, j, l) => At(walSegs, s, j, l)
        /\ \A s \in DOMAIN segs : Synced(segs, s) = End(segs, s)
    BY <1>1, <1>4, OpenOthers
  <2>3. \A s \in DOMAIN segs : Synced(segs, s) <= End(segs, s)
    BY <2>1, <2>2, FileFields
  <2>4. ASSUME NEW s \in Starts, NEW j \in Nat, NEW l \in 1..MaxLSN, At(segs, s, j, l)
        PROVE  l \in walDurable
    <3>1. At(walSegs, s, j, l) /\ s \in DOMAIN walSegs
      BY <2>2, <2>4 DEF At
    <3>2. Synced(walSegs, s) = End(walSegs, s) /\ End(walSegs, s) \in Nat
      BY <1>2, <1>3, <3>1, FileFields, FilesTyped DEF FilesInv
    <3>3. j <= Synced(walSegs, s)
      BY <3>1, <3>2, PlaceFields, FilesTyped
    <3> QED BY <1>2, <3>1, <3>3 DEF FilesInv
  <2> QED BY <1>1, <1>2, <1>3, <2>1, <2>2, <2>3, <2>4 DEF FilesInv, Live
<1>5. CASE walStatus' # "recovering"
  <2>1. UNCHANGED <<walSegs, walLast>> /\ walStatus' \in {"non-contiguous", "corrupt", "torn"}
    BY <1>5, OpenFailsFacts
  <2> QED BY <1>2, <1>3, <2>1 DEF FilesInv, Live
<1> QED BY <1>4, <1>5

\* The files and the memory, in every step.
LEMMA ShapeStep ==
    ASSUME WalTypeOK, ShapeInv, WalNext
    PROVE  ShapeInv'
<1>1. FilesInv /\ MemoryInv
  BY DEF ShapeInv
<1>2. MemoryInv'
  BY <1>1, MemoryStep
<1>3. ASSUME NEW w \in WalWriters, WalApply(w) \/ WalApplyRefused(w) \/ WalMarkApplied(w) \/ WalGiveUp(w)
      PROVE  FilesInv'
  <2>1. UNCHANGED <<walSegs, walStatus, walLast, walDurable>>
    BY <1>3 DEF WalApply, WalApplyRefused, WalMarkApplied, WalGiveUp
  <2> QED BY <1>1, <2>1 DEF FilesInv, Live
<1>4. ASSUME WalReplay \/ WalReplayRefused \/ WalRecovered
      PROVE  FilesInv'
  <2>1. UNCHANGED <<walSegs, walLast, walDurable>> /\ walStatus = "recovering"
        /\ walStatus' \in {"recovering", "open", "apply"}
    BY <1>4 DEF WalReplay, WalReplayRefused, WalRecovered
  <2> QED BY <1>1, <2>1 DEF FilesInv, Live
<1>5. FilesInv'
  BY <1>1, <1>3, <1>4, FilesAppended, FilesSynced, FilesCut, FilesOpened DEF WalNext
<1> QED BY <1>2, <1>5 DEF ShapeInv

\* What has happened to the files is not undone.
LEMMA HarmGrows ==
    ASSUME WalNext
    PROVE  walHarm \subseteq walHarm'
<1>1. ASSUME NEW w \in WalWriters, WalAppend(w) \/ WalAppendFails(w)
      PROVE  walHarm \subseteq walHarm'
  BY <1>1 DEF WalAppend, WalAppendFails
<1>2. ASSUME NEW w \in WalWriters, WalSync(w) \/ WalApply(w) \/ WalApplyRefused(w) \/ WalMarkApplied(w) \/ WalGiveUp(w)
      PROVE  walHarm \subseteq walHarm'
  BY <1>2 DEF WalSync, WalApply, WalApplyRefused, WalMarkApplied, WalGiveUp
<1>3. CASE WalCheckpoint \/ WalCrash \/ WalOpen
  BY <1>3 DEF WalCheckpoint, WalCrash, WalOpen
<1>4. CASE WalReplay \/ WalReplayRefused \/ WalRecovered
  BY <1>4 DEF WalReplay, WalReplayRefused, WalRecovered
<1> QED BY <1>1, <1>2, <1>3, <1>4 DEF WalNext

\* The writer of an append has the new LSN, the others have what they had.
LEMMA AppendWriters ==
    ASSUME WalTypeOK, NEW w \in WalWriters, WalAppend(w) \/ WalAppendFails(w)
    PROVE  /\ walStatus = "open" /\ UNCHANGED <<walStatus, walProgress, walApplied, walRefused, walGivenUp, walDurable, walAcked>>
           /\ walPc[w] = "idle"
           /\ \A v \in WalWriters : v # w => walPc'[v] = walPc[v] /\ walAt'[v] = walAt[v]
           /\ WalAppend(w) => walPc'[w] = "appended" /\ walAt'[w] = walLast + 1 /\ walLast' = walLast + 1
           /\ WalAppendFails(w) => walPc' = walPc /\ walAt' = walAt /\ walLast' = walLast
<1>1. walPc \in [WalWriters -> {"idle", "appended", "synced", "applied"}] /\ walAt \in [WalWriters -> 0..MaxLSN]
  BY DEF WalTypeOK
<1>2. CASE WalAppend(w)
  <2>1. walStatus = "open" /\ UNCHANGED <<walStatus, walProgress, walApplied, walRefused, walGivenUp, walDurable, walAcked>>
        /\ walPc[w] = "idle" /\ walLast' = walLast + 1
        /\ walPc' = [walPc EXCEPT ![w] = "appended"] /\ walAt' = [walAt EXCEPT ![w] = walLast + 1]
    BY <1>2 DEF WalAppend
  <2>2. ~WalAppendFails(w) \/ walPc' = walPc
    BY DEF WalAppendFails
  <2>3. walPc' # walPc
    BY <1>1, <2>1
  <2> QED BY <1>1, <2>1, <2>2, <2>3
<1>3. CASE WalAppendFails(w)
  <2>1. walStatus = "open" /\ walPc[w] = "idle"
        /\ UNCHANGED <<walStatus, walProgress, walApplied, walRefused, walGivenUp, walDurable, walAcked, walPc, walAt, walLast>>
    BY <1>3 DEF WalAppendFails
  <2>2. ~WalAppend(w) \/ walPc' = [walPc EXCEPT ![w] = "appended"]
    BY DEF WalAppend
  <2>3. walPc' # [walPc EXCEPT ![w] = "appended"]
    BY <1>1, <2>1
  <2> QED BY <2>1, <2>2, <2>3
<1> QED BY <1>2, <1>3

\* What a writer's step changes of where the writers are.
LEMMA WriterMovesOn ==
    ASSUME WalTypeOK, NEW w \in WalWriters, WalSync(w) \/ WalApply(w) \/ WalApplyRefused(w) \/ WalMarkApplied(w) \/ WalGiveUp(w)
    PROVE  /\ walStatus = "open" /\ UNCHANGED <<walStatus, walFile, walLast, walAt, walHarm>>
           /\ \A v \in WalWriters : v # w => walPc'[v] = walPc[v]
           /\ WalSync(w) => walPc[w] = "appended" /\ walPc'[w] = "synced"
           /\ WalApply(w) => walPc[w] = "synced" /\ walPc'[w] = "applied"
           /\ WalApplyRefused(w) => walPc[w] = "synced" /\ walPc'[w] = "idle"
           /\ WalMarkApplied(w) => walPc[w] = "applied" /\ walPc'[w] = "idle"
           /\ WalGiveUp(w) => walPc[w] # "idle" /\ walPc'[w] = "idle"
<1>1. walPc \in [WalWriters -> {"idle", "appended", "synced", "applied"}]
  BY DEF WalTypeOK
<1>2. walStatus = "open" /\ UNCHANGED <<walStatus, walFile, walLast, walAt, walHarm>>
  BY DEF WalSync, WalApply, WalApplyRefused, WalMarkApplied, WalGiveUp
<1>3. WalSync(w) => walPc[w] = "appended" /\ walPc' = [walPc EXCEPT ![w] = "synced"]
  BY DEF WalSync
<1>4. WalApply(w) => walPc[w] = "synced" /\ walPc' = [walPc EXCEPT ![w] = "applied"]
  BY DEF WalApply
<1>5. WalApplyRefused(w) => walPc[w] = "synced" /\ walPc' = [walPc EXCEPT ![w] = "idle"]
  BY DEF WalApplyRefused
<1>6. WalMarkApplied(w) => walPc[w] = "applied" /\ walPc' = [walPc EXCEPT ![w] = "idle"]
  BY DEF WalMarkApplied
<1>7. WalGiveUp(w) => walPc[w] # "idle" /\ walPc' = [walPc EXCEPT ![w] = "idle"]
  BY DEF WalGiveUp
<1> QED BY <1>1, <1>2, <1>3, <1>4, <1>5, <1>6, <1>7

AckHarm == {"closed unsynced", "unlinked"}

\* Append.
LEMMA AckAppended ==
    ASSUME WalTypeOK, ShapeInv, AckInv, NEW w \in WalWriters, WalAppend(w) \/ WalAppendFails(w),
           walHarm \subseteq walHarm'
    PROVE  AckInv'
<1> SUFFICES ASSUME walHarm' \cap AckHarm = {}
             PROVE  /\ walAcked' \subseteq walDurable'
                    /\ Live' => walFile' \in DOMAIN walSegs'
                    /\ \A v \in WalWriters :
                          /\ walPc'[v] \in {"synced", "applied"} => walAt'[v] \in walDurable'
                          /\ walPc'[v] = "appended" =>
                                walAt'[v] \in walDurable' \/ \E j \in Nat : At(walSegs', walFile', j, walAt'[v])
  BY DEF AckInv, AckHarm
<1>1. walHarm \cap AckHarm = {} /\ "closed unsynced" \notin walHarm'
  BY DEF AckHarm
<1>2. /\ walAcked \subseteq walDurable /\ walFile \in DOMAIN walSegs
      /\ \A v \in WalWriters :
              /\ walPc[v] \in {"synced", "applied"} => walAt[v] \in walDurable
              /\ walPc[v] = "appended" =>
                    walAt[v] \in walDurable \/ \E j \in Nat : At(walSegs, walFile, j, walAt[v])
  BY <1>1, AppendWriters DEF AckInv, AckHarm, Live
<1>3. PICK full \in BOOLEAN, l \in Nat :
         /\ Appended(full, walLast + 1, l)
         /\ (l = 0 /\ walLast' = walLast) \/ (l = walLast + 1 /\ walLast' = walLast + 1)
  BY EitherAppend
<1>4. UNCHANGED <<walDurable, walAcked>>
  BY AppendWriters
<1>5. walFile' \in DOMAIN walSegs'
  BY <1>2, <1>3 DEF Appended
<1>6. \A j, m : At(walSegs, walFile, j, m) => m \in walDurable \/ At(walSegs', walFile', j, m)
  <2>1. CASE full
    <3>1. \A j, m : At(walSegs, walFile, j, m) => j <= Synced(walSegs, walFile)
      BY <1>1, <1>2, <1>3, <2>1 DEF Appended
    <3>2. \A j, m : At(walSegs, walFile, j, m) => walFile \in Starts /\ j \in Nat /\ m \in 1..MaxLSN
      BY PlaceFields, FilesTyped
    <3> QED BY <3>1, <3>2 DEF ShapeInv, FilesInv
  <2>2. CASE ~full
    BY <1>3, <2>2 DEF Appended
  <2> QED BY <2>1, <2>2
<1>7. ASSUME NEW v \in WalWriters, walPc'[v] = walPc[v], walAt'[v] = walAt[v]
      PROVE  /\ walPc'[v] \in {"synced", "applied"} => walAt'[v] \in walDurable'
             /\ walPc'[v] = "appended" =>
                                walAt'[v] \in walDurable' \/ \E j \in Nat : At(walSegs', walFile', j, walAt'[v])
  BY <1>2, <1>4, <1>6, <1>7
<1>8. ASSUME WalAppend(w)
      PROVE  walPc'[w] = "appended" /\ \E j \in Nat : At(walSegs', walFile', j, walAt'[w])
  <2>1. walPc'[w] = "appended" /\ walAt'[w] = walLast + 1 /\ walLast' = walLast + 1
    BY <1>8, AppendWriters
  <2>2. walLast \in Nat
    BY Numbers
  <2>3. l = walLast + 1 /\ l # 0
    BY ONLY <1>3, <2>1, <2>2
  <2>4. At(walSegs', walFile', End(walSegs', walFile'), l)
    BY <1>3, <1>5, <2>3 DEF Appended
  <2>5. End(walSegs', walFile') \in Nat
    BY <1>3, <1>5, FileFields DEF Appended
  <2> QED BY <2>1, <2>3, <2>4, <2>5
<1>9. \A v \in WalWriters : (v # w \/ WalAppendFails(w)) => walPc'[v] = walPc[v] /\ walAt'[v] = walAt[v]
  BY AppendWriters
<1>10. ASSUME NEW v \in WalWriters
       PROVE  /\ walPc'[v] \in {"synced", "applied"} => walAt'[v] \in walDurable'
              /\ walPc'[v] = "appended" =>
                                walAt'[v] \in walDurable' \/ \E j \in Nat : At(walSegs', walFile', j, walAt'[v])
  <2>1. CASE v # w \/ WalAppendFails(w)
    BY <1>7, <1>9, <2>1
  <2>2. CASE v = w /\ WalAppend(w)
    BY <1>8, <2>2
  <2> QED BY <2>1, <2>2
<1> QED BY <1>2, <1>4, <1>5, <1>10

\* A writer's other steps.
LEMMA AckWritten ==
    ASSUME WalTypeOK, ShapeInv, AckInv, NEW w \in WalWriters,
           WalSync(w) \/ WalApply(w) \/ WalApplyRefused(w) \/ WalMarkApplied(w) \/ WalGiveUp(w)
    PROVE  AckInv'
<1> SUFFICES ASSUME walHarm' \cap AckHarm = {}
             PROVE  /\ walAcked' \subseteq walDurable'
                    /\ Live' => walFile' \in DOMAIN walSegs'
                    /\ \A v \in WalWriters :
                          /\ walPc'[v] \in {"synced", "applied"} => walAt'[v] \in walDurable'
                          /\ walPc'[v] = "appended" =>
                                walAt'[v] \in walDurable' \/ \E j \in Nat : At(walSegs', walFile', j, walAt'[v])
  BY DEF AckInv, AckHarm
<1>1. /\ walStatus = "open" /\ UNCHANGED <<walStatus, walFile, walLast, walAt, walHarm>>
      /\ \A v \in WalWriters : v # w => walPc'[v] = walPc[v]
  BY WriterMovesOn
<1>2. /\ walAcked \subseteq walDurable /\ walFile \in DOMAIN walSegs
      /\ \A v \in WalWriters :
              /\ walPc[v] \in {"synced", "applied"} => walAt[v] \in walDurable
              /\ walPc[v] = "appended" =>
                    walAt[v] \in walDurable \/ \E j \in Nat : At(walSegs, walFile, j, walAt[v])
  BY <1>1 DEF AckInv, AckHarm, Live
<1>3. CASE WalSync(w)
  <2>1. walPc[w] = "appended" /\ walPc'[w] = "synced"
    BY <1>3, WriterMovesOn
  <2>2. /\ DOMAIN walSegs' = DOMAIN walSegs /\ \A s, j, l : At(walSegs', s, j, l) <=> At(walSegs, s, j, l)
        /\ \A l : l \in walDurable' <=> l \in walDurable \/ \E j \in Nat : At(walSegs, walFile, j, l)
    BY <1>3, SyncFacts
  <2>3. walAcked' = walAcked
    BY <1>3 DEF WalSync
  <2> QED BY <1>1, <1>2, <2>1, <2>2, <2>3
<1>4. CASE WalApply(w) \/ WalApplyRefused(w) \/ WalMarkApplied(w)
  <2>1. UNCHANGED <<walSegs, walDurable>>
    BY <1>4 DEF WalApply, WalApplyRefused, WalMarkApplied
  <2>2. walPc[w] \in {"synced", "applied"} /\ walPc'[w] \in {"idle", "applied"}
    BY <1>4, WriterMovesOn
  <2>3. walAcked' \subseteq walAcked \cup {walAt[w]}
    BY <1>4 DEF WalApply, WalApplyRefused, WalMarkApplied
  <2> QED BY <1>1, <1>2, <2>1, <2>2, <2>3
<1>5. CASE WalGiveUp(w)
  <2>1. UNCHANGED <<walSegs, walDurable, walAcked>>
    BY <1>5 DEF WalGiveUp
  <2>2. walPc'[w] = "idle"
    BY <1>5, WriterMovesOn
  <2> QED BY <1>1, <1>2, <2>1, <2>2
<1> QED BY <1>3, <1>4, <1>5

\* The steps of the system.
LEMMA AckOther ==
    ASSUME WalTypeOK, ShapeInv, AckInv, walHarm \subseteq walHarm',
           WalCheckpoint \/ WalCrash \/ WalOpen \/ WalReplay \/ WalReplayRefused \/ WalRecovered
    PROVE  AckInv'
<1> SUFFICES ASSUME walHarm' \cap AckHarm = {}
             PROVE  /\ walAcked' \subseteq walDurable'
                    /\ Live' => walFile' \in DOMAIN walSegs'
                    /\ \A v \in WalWriters : walPc'[v] = "idle"
  BY DEF AckInv, AckHarm
<1>1. walHarm \cap AckHarm = {} /\ "unlinked" \notin walHarm'
  BY DEF AckHarm
<1>2. walAcked \subseteq walDurable /\ (Live => walFile \in DOMAIN walSegs)
  BY <1>1 DEF AckInv, AckHarm
<1>3. walAcked' = walAcked /\ walDurable \subseteq walDurable'
  BY DEF WalCheckpoint, WalCrash, WalOpen, WalReplay, WalReplayRefused, WalRecovered
<1>4. \A v \in WalWriters : walPc'[v] = "idle"
  <2>1. CASE WalCheckpoint
    BY <2>1 DEF WalCheckpoint
  <2>2. CASE WalCrash
    BY <2>2 DEF WalCrash
  <2>3. CASE WalOpen \/ WalReplay \/ WalReplayRefused \/ WalRecovered
    BY <2>3 DEF ShapeInv, MemoryInv, WalOpen, WalReplay, WalReplayRefused, WalRecovered
  <2> QED BY <2>1, <2>2, <2>3
<1>5. Live' => walFile' \in DOMAIN walSegs'
  <2>1. CASE WalCheckpoint
    <3>1. walFile' = walFile
      BY <2>1 DEF WalCheckpoint
    <3> QED BY <1>1, <2>1, <3>1, CheckpointFacts
  <2>2. CASE WalCrash
    BY <2>2 DEF WalCrash, Live
  <2>3. CASE WalOpen
    <3>1. walStatus' = "recovering" \/ walStatus' \in {"non-contiguous", "corrupt", "torn"}
      BY <2>3, OpenFailsFacts
    <3> QED BY <2>3, <3>1, OpenFacts DEF Live
  <2>4. CASE WalReplay \/ WalReplayRefused \/ WalRecovered
    BY <1>2, <2>4 DEF WalReplay, WalReplayRefused, WalRecovered, Live
  <2> QED BY <2>1, <2>2, <2>3, <2>4
<1> QED BY <1>2, <1>3, <1>4, <1>5

\* What is acknowledged is durable, in every step.
LEMMA AckStep ==
    ASSUME WalTypeOK, ShapeInv, AckInv, WalNext
    PROVE  AckInv'
BY HarmGrows, AckAppended, AckWritten, AckOther DEF WalNext

\* A log that is still whole was whole.
LEMMA WholeBefore ==
    ASSUME WalNext, WalWhole'
    PROVE  WalWhole
BY HarmGrows DEF WalWhole

\* The parts of the order, in a step of a log that stays whole.
LEMMA OrderParts ==
    ASSUME OrderInv, WalWhole
    PROVE  /\ LastInUse /\ BelowLast /\ BelowNames /\ DurableSafe /\ ProgressSafe
           /\ \A w \in WalWriters : WriterSafe(w)
BY DEF OrderInv

\* What is synced stays synced when a frame is added.
LEMMA SafeAppended ==
    ASSUME WalTypeOK, NEW full, NEW lsn, NEW l, Appended(full, lsn, l)
    PROVE  \A m : Safe(m) => Safe(m)'
<1>1. PICK segs : segs = walSegs'
  OBVIOUS
<1>2. /\ DOMAIN walSegs \subseteq DOMAIN segs
      /\ \A s \in DOMAIN segs : Synced(segs, s) = IF s \in DOMAIN walSegs THEN Synced(walSegs, s) ELSE 0
      /\ \A s, j, m : At(walSegs, s, j, m) => At(segs, s, j, m) /\ s \in DOMAIN walSegs
  BY <1>1 DEF Appended, At
<1> QED BY <1>1, <1>2 DEF Safe

\* Append.
LEMMA OrderAppended ==
    ASSUME WalTypeOK, ShapeInv, OrderInv, WalWhole, NEW w \in WalWriters,
           WalAppend(w) \/ WalAppendFails(w)
    PROVE  /\ LastInUse' /\ BelowLast' /\ BelowNames' /\ DurableSafe' /\ ProgressSafe'
           /\ \A v \in WalWriters : WriterSafe(v)'
<1>1. /\ LastInUse /\ BelowLast /\ BelowNames /\ DurableSafe /\ ProgressSafe
      /\ \A v \in WalWriters : WriterSafe(v)
  BY OrderParts
<1>2. PICK full \in BOOLEAN, l \in Nat :
         /\ Appended(full, walLast + 1, l)
         /\ (l = 0 /\ walLast' = walLast) \/ (l = walLast + 1 /\ walLast' = walLast + 1)
  BY EitherAppend
<1>3. PICK segs, file, lsn : segs = walSegs' /\ file = walFile' /\ lsn = walLast + 1
  OBVIOUS
<1>4. /\ file = IF full THEN lsn ELSE walFile
      /\ DOMAIN segs = DOMAIN walSegs \cup (IF full THEN {lsn} ELSE {})
      /\ \A s \in DOMAIN walSegs : Synced(segs, s) = Synced(walSegs, s)
      /\ \A s, j, m : At(segs, s, j, m) <=>
          \/ At(walSegs, s, j, m)
          \/ s = file /\ s \in DOMAIN segs /\ j = End(segs, s) /\ m = l /\ m # 0
      /\ Typed(segs)
  BY <1>2, <1>3 DEF Appended
<1>5. /\ walStatus = "open" /\ UNCHANGED <<walStatus, walProgress, walDurable>>
      /\ \A v \in WalWriters : v # w => walPc'[v] = walPc[v] /\ walAt'[v] = walAt[v]
      /\ WalAppend(w) => walPc'[w] = "appended" /\ walAt'[w] = walLast + 1 /\ walLast' = walLast + 1
      /\ WalAppendFails(w) => walPc' = walPc /\ walAt' = walAt /\ walLast' = walLast
  BY AppendWriters
<1>6. Live /\ Whole /\ Live' /\ Whole'
  BY <1>5 DEF Live, Whole
<1>7. walLast \in Nat /\ walProgress \in Nat /\ walFile \in Nat /\ lsn \in Nat /\ lsn > walLast
  BY <1>3, Numbers
<1>8. /\ walFile \in DOMAIN walSegs /\ \A s \in DOMAIN walSegs : s <= walFile
      /\ walFile <= lsn /\ walProgress <= walLast
      /\ \A m \in walDurable : m <= walLast
  BY <1>1, <1>3, <1>6 DEF LastInUse, BelowLast
<1>9. \A s \in DOMAIN walSegs : s \in Nat
  BY FilesTyped, FileFields
<1>10. walLast' \in Nat /\ walLast <= walLast'
  BY <1>2, <1>7
<1>11. walFile <= file /\ file \in DOMAIN segs /\ file \in Nat /\ file <= lsn
  BY <1>4, <1>7, <1>8
<1>12. \A s \in DOMAIN segs : s <= file
  <2>1. CASE full
    BY <1>4, <1>7, <1>8, <1>9, <2>1
  <2>2. CASE ~full
    BY <1>4, <1>8, <2>2
  <2> QED BY <2>1, <2>2
<1>13. LastInUse'
  BY <1>3, <1>11, <1>12 DEF LastInUse
<1>14. BelowLast'
  <2>1. lsn <= walLast' + 1 /\ walProgress <= walLast'
    <3>1. PICK next, last, prog : next = walLast' /\ last = walLast /\ prog = walProgress
      OBVIOUS
    <3>2. lsn = last + 1 /\ last \in Nat /\ next \in Nat /\ last <= next /\ prog \in Nat /\ prog <= last
      BY <1>3, <1>7, <1>8, <1>10, <3>1
    <3>3. lsn <= next + 1 /\ prog <= next
      BY ONLY <3>2
    <3> QED BY <3>1, <3>3
  <2>2. file <= walLast' + 1
    <3>1. PICK next : next = walLast'
      OBVIOUS
    <3>2. file \in Nat /\ lsn \in Nat /\ next \in Nat /\ file <= lsn /\ lsn <= next + 1
      BY <1>11, <1>10, <1>7, <2>1, <3>1
    <3>3. file <= next + 1
      BY ONLY <3>2
    <3> QED BY <3>1, <3>3
  <2>3. \A m \in walDurable : m <= walLast'
    BY Numbers, <1>7, <1>8, <1>10
  <2> QED BY <1>3, <1>5, <2>1, <2>2, <2>3 DEF BelowLast
<1>15. BelowNames'
  <2>1. ASSUME NEW s \in DOMAIN segs, NEW t \in DOMAIN segs, NEW j \in Nat, NEW m \in 1..MaxLSN,
               At(segs, s, j, m), s < t
        PROVE  m < t
    <3>1. CASE At(walSegs, s, j, m)
      <4>1. s \in DOMAIN walSegs /\ m <= walLast /\ m \in Nat
        <5>1. s \in DOMAIN walSegs /\ s \in Starts
          BY <3>1, FilesTyped, PlaceFields
        <5>2. m <= walLast
          BY <1>6, <3>1, <5>1 DEF ShapeInv, FilesInv
        <5> QED BY <5>1, <5>2, WalAssumption
      <4>2. CASE t \in DOMAIN walSegs
        BY <1>1, <2>1, <3>1, <4>1, <4>2 DEF BelowNames
      <4>3. CASE t \notin DOMAIN walSegs
        <5>1. t = lsn
          BY <1>4, <4>3
        <5> QED BY <5>1, <4>1, <1>7
      <4> QED BY <4>2, <4>3
    <3>2. CASE s = file
      <4>1. t <= file /\ t \in Nat
        BY <1>4, <1>12, FileFields
      <4> QED BY ONLY <4>1, <3>2, <2>1, <1>11
    <3> QED BY <1>4, <2>1, <3>1, <3>2
  <2> QED BY <1>3, <2>1 DEF BelowNames
<1>16. \A m : Safe(m) => Safe(m)'
  BY <1>2, SafeAppended
<1>17. DurableSafe'
  BY <1>1, <1>5, <1>16 DEF DurableSafe
<1>18. ProgressSafe'
  <2>1. walProgress < walFile \/ Safe(walProgress)
    BY <1>1, <1>6 DEF ProgressSafe
  <2>2. walProgress < walFile => walProgress < file
    BY <1>7, <1>11
  <2>3. PICK p : p = walProgress
    OBVIOUS
  <2>4. Safe(p) => Safe(p)'
    BY <1>16
  <2>5. p = walProgress'
    BY <1>5, <2>3
  <2>6. Safe(walProgress) => Safe(walProgress)'
    BY <2>3, <2>4, <2>5 DEF Safe
  <2> QED BY <2>1, <2>2, <2>6, <1>3, <1>5 DEF ProgressSafe
<1>19. ASSUME NEW v \in WalWriters, walPc'[v] = walPc[v], walAt'[v] = walAt[v]
       PROVE  WriterSafe(v)'
  <2>1. PICK a, pc : a = walAt[v] /\ pc = walPc[v]
    OBVIOUS
  <2>2. SUFFICES ASSUME pc # "idle"
                 PROVE  /\ a >= file => \E j \in Nat : At(segs, file, j, a) /\ (pc # "appended" => j <= Synced(segs, file))
                        /\ \A m \in walDurable : m > a => Safe(m)'
    <3>1. walAt'[v] = a /\ walPc'[v] = pc /\ walDurable' = walDurable
      BY <1>5, <1>19, <2>1
    <3> QED BY <1>3, <3>1, <2>2 DEF WriterSafe, Busy
  <2>3. /\ a >= walFile => \E j \in Nat : At(walSegs, walFile, j, a) /\ (pc # "appended" => j <= Synced(walSegs, walFile))
        /\ \A m \in walDurable : m > a => Safe(m)
    BY <1>1, <2>1, <2>2 DEF WriterSafe, Busy
  <2>4. a \in Nat /\ a <= walLast
    BY <1>7, <2>1, <2>2 DEF ShapeInv, MemoryInv, Busy
  <2>5. CASE full
    <3>1. file = lsn
      BY <1>4, <2>5
    <3>2. ~(a >= file)
      BY <3>1, <2>4, <1>7
    <3> QED BY <3>2, <2>3, <1>16
  <2>6. CASE ~full
    BY <1>4, <1>8, <1>16, <2>3, <2>6
  <2> QED BY <2>5, <2>6
<1>20. ASSUME WalAppend(w)
       PROVE  WriterSafe(w)'
  <2>1. walPc'[w] = "appended" /\ walAt'[w] = lsn /\ l = lsn /\ l # 0
    BY <1>2, <1>3, <1>5, <1>7, <1>20
  <2>2. At(segs, file, End(segs, file), lsn) /\ End(segs, file) \in Nat
    BY <1>4, <1>11, <2>1, FileFields
  <2>3. \A m \in walDurable : ~(m > lsn)
    BY Numbers, <1>7, <1>8
  <2> QED BY <1>3, <1>5, <2>1, <2>2, <2>3 DEF WriterSafe
<1>21. \A v \in WalWriters : (v # w \/ WalAppendFails(w)) => walPc'[v] = walPc[v] /\ walAt'[v] = walAt[v]
  BY <1>5
<1>22. ASSUME NEW v \in WalWriters
       PROVE  WriterSafe(v)'
  <2>1. CASE v # w \/ WalAppendFails(w)
    BY <1>19, <1>21, <2>1
  <2>2. CASE v = w /\ WalAppend(w)
    BY <1>20, <2>2
  <2> QED BY <2>1, <2>2
<1> QED BY <1>13, <1>14, <1>15, <1>17, <1>18, <1>22

\* Sync.
LEMMA OrderSynced ==
    ASSUME WalTypeOK, ShapeInv, OrderInv, WalWhole, NEW w \in WalWriters, WalSync(w)
    PROVE  /\ LastInUse' /\ BelowLast' /\ BelowNames' /\ DurableSafe' /\ ProgressSafe'
           /\ \A v \in WalWriters : WriterSafe(v)'
<1>1. /\ LastInUse /\ BelowLast /\ BelowNames /\ DurableSafe /\ ProgressSafe
      /\ \A v \in WalWriters : WriterSafe(v)
  BY OrderParts
<1>2. PICK segs : segs = walSegs'
  OBVIOUS
<1>3. /\ DOMAIN segs = DOMAIN walSegs
      /\ \A s \in DOMAIN walSegs :
                 /\ End(segs, s) = End(walSegs, s)
                 /\ Synced(segs, s) = IF s = walFile THEN End(walSegs, s) ELSE Synced(walSegs, s)
      /\ \A s, j, l : At(segs, s, j, l) <=> At(walSegs, s, j, l)
      /\ \A l : l \in walDurable' <=> l \in walDurable \/ \E j \in Nat : At(walSegs, walFile, j, l)
  BY <1>2, SyncFacts
<1>4. /\ walStatus = "open" /\ UNCHANGED <<walStatus, walFile, walLast, walAt, walHarm, walProgress>>
      /\ \A v \in WalWriters : v # w => walPc'[v] = walPc[v]
      /\ walPc[w] = "appended" /\ walPc'[w] = "synced"
  BY WriterMovesOn DEF WalSync
<1>5. /\ \A s, j, l : At(walSegs, s, j, l) => s \in DOMAIN walSegs /\ s \in Starts /\ j \in 1..End(walSegs, s) /\ j \in Nat /\ l \in 1..MaxLSN
      /\ \A s \in DOMAIN walSegs : End(walSegs, s) \in Nat /\ Synced(walSegs, s) \in Nat /\ Synced(walSegs, s) <= End(walSegs, s)
  BY PlaceFields, FilesTyped, FileFields DEF ShapeInv, FilesInv
<1>6. \A s, j, l : At(walSegs, s, j, l) => j <= End(walSegs, s)
  BY <1>5
<1>7. \A m : Safe(m) => Safe(m)'
  <2>1. ASSUME NEW s, NEW j, NEW m, At(walSegs, s, j, m), j <= Synced(walSegs, s)
        PROVE  j <= Synced(segs, s)
    <3>1. s \in DOMAIN walSegs /\ j <= End(walSegs, s)
      BY <1>5, <1>6, <2>1
    <3> QED BY <1>3, <2>1, <3>1
  <2> QED BY <1>2, <1>3, <2>1 DEF Safe
<1>8. \A j, m : At(walSegs, walFile, j, m) => At(segs, walFile, j, m) /\ j <= Synced(segs, walFile) /\ Safe(m)'
  <2>1. ASSUME NEW j, NEW m, At(walSegs, walFile, j, m)
        PROVE  At(segs, walFile, j, m) /\ j <= Synced(segs, walFile) /\ walFile \in Starts /\ j \in Nat
    <3>1. walFile \in DOMAIN walSegs /\ j <= End(walSegs, walFile) /\ walFile \in Starts /\ j \in Nat
      BY <1>5, <1>6, <2>1
    <3> QED BY <1>3, <2>1, <3>1
  <2> QED BY <1>2, <2>1 DEF Safe
<1>9. \A m : m \in walDurable' => m \in walDurable \/ Safe(m)'
  BY <1>3, <1>8
<1>10. LastInUse' /\ BelowNames'
  BY <1>1, <1>2, <1>3, <1>4 DEF LastInUse, BelowNames, Whole
<1>11. BelowLast'
  <2>1. \A j, m : At(walSegs, walFile, j, m) => m <= walLast
    BY <1>4, <1>5 DEF ShapeInv, FilesInv, Live
  <2> QED BY <1>1, <1>3, <1>4, <2>1 DEF BelowLast, Live
<1>12. DurableSafe'
  BY <1>1, <1>4, <1>7, <1>9 DEF DurableSafe
<1>13. ProgressSafe'
  <2>1. walProgress < walFile \/ Safe(walProgress)
    BY <1>1, <1>4 DEF ProgressSafe, Whole
  <2>2. PICK p : p = walProgress
    OBVIOUS
  <2>3. p = walProgress' /\ (Safe(p) => Safe(p)')
    BY <1>4, <1>7, <2>2
  <2>4. Safe(walProgress) => Safe(walProgress)'
    BY <2>2, <2>3 DEF Safe
  <2> QED BY <2>1, <2>4, <1>4 DEF ProgressSafe
<1>14. ASSUME NEW v \in WalWriters, Busy(v)'
       PROVE  WriterSafe(v)'
  <2>1. PICK a : a = walAt[v] /\ a = walAt'[v]
    BY <1>4
  <2>2. Busy(v)
    BY <1>4, <1>14 DEF Busy
  <2>3. /\ a >= walFile => \E j \in Nat : At(walSegs, walFile, j, a)
        /\ \A m \in walDurable : m > a => Safe(m)
    BY <1>1, <2>1, <2>2 DEF WriterSafe
  <2>4. a >= walFile => \E j \in Nat : At(segs, walFile, j, a) /\ j <= Synced(segs, walFile)
    BY <1>8, <2>3
  <2>5. \A m \in walDurable' : m > a => Safe(m)'
    BY <1>7, <1>9, <2>3
  <2> QED BY <1>2, <1>4, <2>1, <2>4, <2>5 DEF WriterSafe
<1>15. \A v \in WalWriters : WriterSafe(v)'
  BY <1>14 DEF WriterSafe
<1> QED BY <1>10, <1>11, <1>12, <1>13, <1>15

\* A record is applied or refused, or the applied LSN is moved.
LEMMA OrderApplied ==
    ASSUME WalTypeOK, ShapeInv, OrderInv, WalWhole, NEW w \in WalWriters,
           WalApply(w) \/ WalApplyRefused(w) \/ WalMarkApplied(w) \/ WalGiveUp(w)
    PROVE  /\ LastInUse' /\ BelowLast' /\ BelowNames' /\ DurableSafe' /\ ProgressSafe'
           /\ \A v \in WalWriters : WriterSafe(v)'
<1>1. /\ LastInUse /\ BelowLast /\ BelowNames /\ DurableSafe /\ ProgressSafe
      /\ \A v \in WalWriters : WriterSafe(v)
  BY OrderParts
<1>2. /\ walStatus = "open" /\ UNCHANGED <<walStatus, walFile, walLast, walAt, walHarm, walSegs, walDurable>>
      /\ \A v \in WalWriters : v # w => walPc'[v] = walPc[v]
      /\ walPc[w] # "idle" /\ walPc'[w] \in {"applied", "idle"} /\ (walPc[w] = "appended" => walPc'[w] = "idle")
      /\ walProgress' = walProgress \/ (walPc[w] # "appended" /\ walProgress' = walAt[w])
  BY WriterMovesOn DEF WalApply, WalApplyRefused, WalMarkApplied, WalGiveUp
<1>3. Live /\ Whole /\ Busy(w)
  BY <1>2 DEF Live, Whole, Busy
<1>4. \A m : Safe(m) => Safe(m)'
  BY <1>2 DEF Safe
<1>5. LastInUse' /\ BelowNames'
  BY <1>1, <1>2 DEF LastInUse, BelowNames, Whole
<1>6. walAt[w] <= walLast
  BY <1>3, Numbers DEF ShapeInv, MemoryInv
<1>7. BelowLast'
  BY <1>1, <1>2, <1>3, <1>6 DEF BelowLast, Live
<1>8. DurableSafe'
  <2>1. \A m \in walDurable : m > walAt[w] => Safe(m)
    BY <1>1, <1>3 DEF WriterSafe
  <2> QED BY <1>1, <1>2, <1>4, <2>1 DEF DurableSafe
<1>9. walPc[w] # "appended" => walAt[w] < walFile \/ Safe(walAt[w])
  <2>1. walPc[w] # "appended" /\ walAt[w] >= walFile =>
           \E j \in Nat : At(walSegs, walFile, j, walAt[w]) /\ j <= Synced(walSegs, walFile)
    BY <1>1, <1>2, <1>3 DEF WriterSafe
  <2>2. walFile \in Starts
    BY DEF WalTypeOK
  <2>3. walAt[w] \in Nat /\ walFile \in Nat
    BY Numbers
  <2>4. walAt[w] >= walFile \/ walAt[w] < walFile
    BY ONLY <2>3
  <2> QED BY <2>1, <2>2, <2>4 DEF Safe
<1>10. ProgressSafe'
  <2>1. PICK p : p = walProgress'
    OBVIOUS
  <2>2. p < walFile \/ Safe(p)
    BY <1>1, <1>2, <1>3, <1>9, <2>1 DEF ProgressSafe
  <2>3. Safe(p) => Safe(p)'
    BY <1>4
  <2>4. Safe(p)' => Safe(walProgress)'
    BY <2>1 DEF Safe
  <2> QED BY <1>2, <2>1, <2>2, <2>3, <2>4 DEF ProgressSafe
<1>11. ASSUME NEW v \in WalWriters, Busy(v)'
       PROVE  WriterSafe(v)'
  <2>1. Busy(v) /\ (walPc'[v] # "appended" => walPc[v] # "appended")
    BY <1>2, <1>11 DEF Busy
  <2>2. WriterSafe(v)
    BY <1>1
  <2> QED BY <1>2, <1>4, <2>1, <2>2 DEF WriterSafe
<1>12. \A v \in WalWriters : WriterSafe(v)'
  BY <1>11 DEF WriterSafe
<1> QED BY <1>5, <1>7, <1>8, <1>10, <1>12

\* Retention.
LEMMA OrderRetained ==
    ASSUME WalTypeOK, ShapeInv, OrderInv, WalWhole, WalCheckpoint
    PROVE  /\ LastInUse' /\ BelowLast' /\ BelowNames' /\ DurableSafe' /\ ProgressSafe'
           /\ \A v \in WalWriters : WriterSafe(v)'
<1>1. /\ LastInUse /\ BelowLast /\ BelowNames /\ DurableSafe /\ ProgressSafe
      /\ \A v \in WalWriters : WriterSafe(v)
  BY OrderParts
<1>2. PICK segs : segs = walSegs'
  OBVIOUS
<1>3. /\ DOMAIN segs = {t \in DOMAIN walSegs : \A u \in DOMAIN walSegs : t < u => u > walProgress + 1}
      /\ \A s \in DOMAIN segs : Synced(segs, s) = Synced(walSegs, s)
      /\ \A s, j, l : At(segs, s, j, l) <=> At(walSegs, s, j, l) /\ s \in DOMAIN segs
  BY <1>2, CheckpointFacts
<1>4. /\ walStatus = "open" /\ UNCHANGED <<walStatus, walFile, walLast, walAt, walPc, walProgress, walDurable>>
      /\ \A v \in WalWriters : walPc[v] = "idle"
  BY DEF WalCheckpoint
<1>5. Live /\ Whole
  BY <1>4 DEF Live, Whole
<1>6. walFile \in DOMAIN walSegs /\ \A s \in DOMAIN walSegs : s <= walFile /\ s \in Nat
  BY <1>1, <1>5, FilesTyped, FileFields DEF LastInUse
<1>7. walFile \in DOMAIN segs
  <2>1. \A s \in DOMAIN walSegs : ~(walFile < s)
    BY <1>6
  <2> QED BY <1>3, <1>6, <2>1
<1>8. LastInUse' /\ BelowLast' /\ BelowNames'
  BY <1>1, <1>2, <1>3, <1>4, <1>6, <1>7 DEF LastInUse, BelowLast, BelowNames, Live
<1>9. walProgress \in Nat /\ walFile \in Nat /\ \A l \in walDurable : l \in Nat /\ l \in 1..MaxLSN
  BY Numbers
<1>10. ASSUME NEW s \in Starts, NEW j \in Nat, NEW l, At(walSegs, s, j, l), j <= Synced(walSegs, s)
       PROVE  Safe(l)' \/ \E u \in DOMAIN walSegs : l < u /\ u <= walProgress + 1
  <2>1. s \in DOMAIN walSegs /\ l \in 1..MaxLSN
    BY <1>10, PlaceFields, FilesTyped
  <2>2. CASE s \in DOMAIN segs
    <3>1. At(segs, s, j, l) /\ j <= Synced(segs, s)
      BY <1>3, <1>10, <2>2
    <3> QED BY <1>2, <1>10, <3>1 DEF Safe
  <2>3. CASE s \notin DOMAIN segs
    <3>1. PICK u \in DOMAIN walSegs : s < u /\ ~(u > walProgress + 1)
      BY <1>3, <2>1, <2>3
    <3>2. l < u
      BY <1>1, <1>10, <2>1, <3>1 DEF BelowNames
    <3>3. u \in Nat
      BY <1>6, <3>1
    <3>4. u <= walProgress + 1
      BY ONLY <3>1, <3>3, <1>9
    <3> QED BY <3>2, <3>4, <3>1
  <2> QED BY <2>2, <2>3
<1>11. DurableSafe'
  <2>1. ASSUME NEW l \in walDurable, l > walProgress
        PROVE  Safe(l)'
    <3>1. PICK s \in Starts, j \in Nat : At(walSegs, s, j, l) /\ j <= Synced(walSegs, s)
      BY <1>1, <2>1 DEF DurableSafe, Safe
    <3>2. ASSUME NEW u \in DOMAIN walSegs, l < u, u <= walProgress + 1
          PROVE  FALSE
      <4>1. u \in Nat /\ l \in Nat /\ walProgress \in Nat
        BY <1>6, <1>9
      <4> QED BY ONLY <4>1, <3>2, <2>1
    <3> QED BY <1>10, <3>1, <3>2
  <2> QED BY <1>4, <2>1 DEF DurableSafe
<1>12. ProgressSafe'
  <2>1. PICK p : p = walProgress
    OBVIOUS
  <2>2. CASE p < walFile
    BY <1>4, <2>1, <2>2 DEF ProgressSafe
  <2>3. CASE Safe(p)
    <3>1. PICK s \in Starts, j \in Nat : At(walSegs, s, j, p) /\ j <= Synced(walSegs, s)
      BY <2>3 DEF Safe
    <3>2. Safe(p)' \/ \E u \in DOMAIN walSegs : p < u /\ u <= walProgress + 1
      BY <1>10, <3>1
    <3>3. ASSUME NEW u \in DOMAIN walSegs, p < u
          PROVE  p < walFile
      <4>1. u \in Nat /\ u <= walFile /\ walFile \in Nat /\ p \in Nat
        BY <1>6, <1>9, <2>1
      <4> QED BY ONLY <4>1, <3>3
    <3>4. Safe(p)' => Safe(walProgress)'
      BY <1>4, <2>1 DEF Safe
    <3> QED BY <1>4, <2>1, <3>2, <3>3, <3>4 DEF ProgressSafe
  <2> QED BY <1>1, <1>5, <2>1, <2>2, <2>3 DEF ProgressSafe
<1>13. \A v \in WalWriters : WriterSafe(v)'
  BY <1>4 DEF WriterSafe, Busy
<1> QED BY <1>8, <1>11, <1>12, <1>13

\* A crash.
LEMMA OrderCrashed ==
    ASSUME WalTypeOK, ShapeInv, OrderInv, WalWhole, WalCrash
    PROVE  /\ LastInUse' /\ BelowLast' /\ BelowNames' /\ DurableSafe' /\ ProgressSafe'
           /\ \A v \in WalWriters : WriterSafe(v)'
<1>1. /\ LastInUse /\ BelowLast /\ BelowNames /\ DurableSafe /\ ProgressSafe
      /\ \A v \in WalWriters : WriterSafe(v)
  BY OrderParts
<1>2. PICK segs : segs = walSegs'
  OBVIOUS
<1>3. /\ DOMAIN segs = DOMAIN walSegs /\ Typed(segs)
      /\ \A s \in DOMAIN walSegs :
                 /\ Synced(segs, s) = End(segs, s)
                 /\ \E k \in Nat : /\ k \in Synced(walSegs, s)..End(walSegs, s)
                                   /\ Cut(segs, walSegs, s, k)
      /\ \A l : l \in walDurable' <=> l \in walDurable \/ \E s \in Starts, j \in Nat : At(segs, s, j, l)
  BY <1>2, CrashFacts
<1>4. /\ walStatus \in {"open", "recovering"} /\ walStatus' = "down"
      /\ UNCHANGED <<walFile, walLast, walProgress>>
      /\ \A v \in WalWriters : walPc'[v] = "idle"
  BY DEF WalCrash
<1>5. Live /\ Whole /\ ~Live' /\ Whole'
  BY <1>4 DEF Live, Whole
<1>6. \A s, j, l : At(segs, s, j, l) =>
         /\ At(walSegs, s, j, l) /\ s \in DOMAIN walSegs /\ s \in Starts /\ j \in Nat
         /\ j <= Synced(segs, s)
  <2>1. ASSUME NEW s, NEW j, NEW l, At(segs, s, j, l)
        PROVE  /\ At(walSegs, s, j, l) /\ s \in DOMAIN walSegs /\ s \in Starts /\ j \in Nat
               /\ j <= Synced(segs, s)
    <3>1. s \in DOMAIN segs /\ s \in Starts /\ j \in 1..End(segs, s) /\ j \in Nat
      BY <1>3, <2>1, PlaceFields
    <3>2. PICK k \in Nat : Cut(segs, walSegs, s, k)
      BY <1>3, <3>1
    <3>3. At(walSegs, s, j, l)
      BY <2>1, <3>2 DEF Cut
    <3>4. End(segs, s) = Synced(segs, s) /\ End(segs, s) \in Nat
      BY <1>3, <3>1, FileFields
    <3> QED BY <1>3, <3>1, <3>3, <3>4
  <2> QED BY <2>1
<1>7. \A m : (\E s \in Starts, j \in Nat : At(segs, s, j, m)) => Safe(m)'
  BY <1>2, <1>6 DEF Safe
<1>8. \A m : Safe(m) => Safe(m)'
  <2>1. ASSUME NEW m, NEW s \in Starts, NEW j \in Nat, At(walSegs, s, j, m), j <= Synced(walSegs, s)
        PROVE  At(segs, s, j, m)
    <3>1. s \in DOMAIN walSegs
      BY <2>1 DEF At
    <3>2. PICK k \in Nat : k \in Synced(walSegs, s)..End(walSegs, s) /\ Cut(segs, walSegs, s, k)
      BY <1>3, <3>1
    <3>3. Synced(walSegs, s) \in Nat /\ End(walSegs, s) \in Nat
      BY <3>1, FileFields, FilesTyped
    <3>4. j <= k
      BY ONLY <3>2, <3>3, <2>1, j \in Nat
    <3> QED BY <2>1, <3>2, <3>4 DEF Cut
  <2> QED BY <1>7, <2>1 DEF Safe
<1>9. LastInUse' /\ BelowLast'
  BY <1>1, <1>2, <1>3, <1>4, <1>5 DEF LastInUse, BelowLast
<1>10. BelowNames'
  BY <1>1, <1>2, <1>3, <1>6 DEF BelowNames
<1>11. DurableSafe'
  BY <1>1, <1>3, <1>4, <1>7, <1>8 DEF DurableSafe
<1>12. ProgressSafe'
  <2>1. PICK p : p = walProgress
    OBVIOUS
  <2>2. p < walFile \/ Safe(p)
    BY <1>1, <1>5, <2>1 DEF ProgressSafe
  <2>3. Safe(p) => Safe(p)'
    BY <1>8
  <2>4. Safe(p)' => Safe(walProgress)'
    BY <1>4, <2>1 DEF Safe
  <2> QED BY <1>4, <2>1, <2>2, <2>3, <2>4 DEF ProgressSafe
<1>13. \A v \in WalWriters : WriterSafe(v)'
  BY <1>4 DEF WriterSafe, Busy
<1> QED BY <1>9, <1>10, <1>11, <1>12, <1>13

\* Open, when it succeeds and leaves the log whole.
LEMMA OrderOpened ==
    ASSUME WalTypeOK, ShapeInv, OrderInv, WalWhole, WalOpen, WalWhole', walStatus' = "recovering"
    PROVE  /\ LastInUse' /\ BelowLast' /\ BelowNames' /\ DurableSafe' /\ ProgressSafe'
           /\ \A v \in WalWriters : WriterSafe(v)'
<1>1. /\ LastInUse /\ BelowLast /\ BelowNames /\ DurableSafe /\ ProgressSafe
      /\ \A v \in WalWriters : WriterSafe(v)
  BY OrderParts
<1>2. PICK segs, file, last : segs = walSegs' /\ file = walFile' /\ last = walLast'
  OBVIOUS
<1>3. "cut" \notin walHarm' /\ "misnamed" \notin walHarm'
  BY DEF WalWhole
<1>4. /\ walStatus = "down" /\ DOMAIN segs = DOMAIN walSegs /\ Typed(segs)
      /\ file \in DOMAIN walSegs /\ \A s \in DOMAIN walSegs : s <= file
      /\ last \in 0..MaxLSN /\ \A s, j, l : At(segs, s, j, l) => l <= last
      /\ ~(last + 1 < file)
  BY <1>2, <1>3, OpenFacts
<1>5. \A s, j, l : At(segs, s, j, l) <=> At(walSegs, s, j, l)
  BY <1>2, <1>3, OpenKeeps
<1>6. \A s \in DOMAIN walSegs : Synced(segs, s) = End(segs, s)
  BY <1>2, <1>4, OpenOthers
<1>7. /\ UNCHANGED <<walProgress, walPc, walDurable>>
      /\ \A v \in WalWriters : walPc[v] = "idle"
  BY <1>4 DEF WalOpen, ShapeInv, MemoryInv
<1>8. Whole /\ Live' /\ Whole'
  BY <1>4 DEF Live, Whole
<1>9. walFile = file
  <2>1. walFile \in DOMAIN walSegs /\ \A s \in DOMAIN walSegs : s <= walFile
    BY <1>1, <1>8 DEF LastInUse
  <2>2. walFile <= file /\ file <= walFile /\ walFile \in Nat /\ file \in Nat
    BY <1>4, <2>1, FilesTyped, FileFields
  <2> QED BY ONLY <2>2
<1>10. file \in Nat /\ last \in Nat /\ walProgress \in Nat /\ MaxLSN \in Nat
       /\ \A l \in walDurable : l \in Nat
  BY <1>4, <1>9, Numbers, WalAssumption
<1>11. \A m : Safe(m) => Safe(m)' /\ m <= last
  <2>1. ASSUME NEW m, NEW s \in Starts, NEW j \in Nat, At(walSegs, s, j, m)
        PROVE  At(segs, s, j, m) /\ j <= Synced(segs, s) /\ m <= last
    <3>1. At(segs, s, j, m) /\ s \in DOMAIN walSegs
      BY <1>5, <2>1 DEF At
    <3>2. j \in 1..End(segs, s) /\ End(segs, s) \in Nat
      BY <1>4, <3>1, PlaceFields, FileFields
    <3>3. j <= End(segs, s)
      BY ONLY <3>2
    <3> QED BY <1>4, <1>6, <3>1, <3>3
  <2> QED BY <1>2, <2>1 DEF Safe
<1>12. file <= last + 1
  BY ONLY <1>4, <1>10
<1>13. walProgress <= last
  <2>1. walProgress < walFile \/ Safe(walProgress)
    BY <1>1, <1>8 DEF ProgressSafe
  <2>2. ASSUME walProgress < walFile
        PROVE  walProgress <= last
    <3>1. walProgress < file
      BY <1>9, <2>2
    <3> QED BY ONLY <3>1, <1>12, <1>10
  <2> QED BY <1>11, <2>1, <2>2
<1>14. \A l \in walDurable : l <= last
  <2>1. ASSUME NEW l \in walDurable
        PROVE  l <= last
    <3>1. CASE l > walProgress
      BY <1>1, <1>11, <3>1 DEF DurableSafe
    <3>2. CASE ~(l > walProgress)
      <4>1. l \in Nat
        BY <1>10
      <4> QED BY ONLY <4>1, <3>2, <1>10, <1>13
    <3> QED BY <3>1, <3>2
  <2> QED BY <2>1
<1>15. LastInUse' /\ BelowLast'
  BY <1>2, <1>4, <1>7, <1>12, <1>13, <1>14 DEF LastInUse, BelowLast
<1>16. BelowNames'
  BY <1>1, <1>2, <1>4, <1>5 DEF BelowNames
<1>17. DurableSafe'
  BY <1>1, <1>7, <1>11 DEF DurableSafe
<1>18. ProgressSafe'
  <2>1. PICK p : p = walProgress
    OBVIOUS
  <2>2. p < walFile \/ Safe(p)
    BY <1>1, <1>8, <2>1 DEF ProgressSafe
  <2>3. Safe(p) => Safe(p)'
    BY <1>11
  <2>4. Safe(p)' => Safe(walProgress)'
    BY <1>7, <2>1 DEF Safe
  <2> QED BY <1>2, <1>7, <1>9, <2>1, <2>2, <2>3, <2>4 DEF ProgressSafe
<1>19. \A v \in WalWriters : WriterSafe(v)'
  BY <1>7 DEF WriterSafe, Busy
<1> QED BY <1>15, <1>16, <1>17, <1>18, <1>19

\* Open, when it fails.
LEMMA OrderNotOpened ==
    ASSUME WalTypeOK, ShapeInv, OrderInv, WalWhole, WalOpen, walStatus' # "recovering"
    PROVE  /\ LastInUse' /\ BelowLast' /\ BelowNames' /\ DurableSafe' /\ ProgressSafe'
           /\ \A v \in WalWriters : WriterSafe(v)'
<1>1. LastInUse /\ BelowLast /\ BelowNames /\ DurableSafe /\ ProgressSafe
  BY OrderParts
<1>2. /\ walStatus = "down" /\ walStatus' \in {"non-contiguous", "corrupt", "torn"}
      /\ UNCHANGED <<walSegs, walFile, walSize, walLast, walHarm>>
  BY OpenFailsFacts
<1>3. ~Live' /\ ~Whole'
  BY <1>2 DEF Live, Whole
<1>4. UNCHANGED <<walProgress, walPc, walDurable>> /\ \A v \in WalWriters : walPc[v] = "idle"
  BY <1>2 DEF WalOpen, ShapeInv, MemoryInv
<1>5. \A m : Safe(m) => Safe(m)'
  BY <1>2 DEF Safe
<1> QED BY <1>1, <1>2, <1>3, <1>4, <1>5 DEF LastInUse, BelowLast, BelowNames, DurableSafe, ProgressSafe, WriterSafe, Busy

\* Recovery.
LEMMA OrderReplayed ==
    ASSUME WalTypeOK, ShapeInv, OrderInv, WalWhole, WalReplay \/ WalReplayRefused \/ WalRecovered
    PROVE  /\ LastInUse' /\ BelowLast' /\ BelowNames' /\ DurableSafe' /\ ProgressSafe'
           /\ \A v \in WalWriters : WriterSafe(v)'
<1>1. LastInUse /\ BelowLast /\ BelowNames /\ DurableSafe /\ ProgressSafe
  BY OrderParts
<1>2. /\ walStatus = "recovering" /\ walStatus' \in {"recovering", "open", "apply"}
      /\ UNCHANGED <<walSegs, walFile, walLast, walPc, walDurable>>
      /\ \A v \in WalWriters : walPc[v] = "idle"
      /\ WalReplay \/ walProgress' = walProgress
  BY DEF WalReplay, WalReplayRefused, WalRecovered, ShapeInv, MemoryInv
<1>3. Live /\ Whole
  BY <1>2 DEF Live, Whole
<1>4. \A m : Safe(m) => Safe(m)'
  BY <1>2 DEF Safe
<1>5. WalReplay => /\ walProgress' \in 1..MaxLSN /\ walProgress' > walProgress
                   /\ \E s \in Starts, j \in Nat : At(walSegs, s, j, walProgress')
  BY ReplayFacts
<1>6. ASSUME NEW m, NEW s \in Starts, NEW j \in Nat, At(walSegs, s, j, m)
      PROVE  Safe(m)' /\ m <= walLast
  <2>1. s \in DOMAIN walSegs /\ j \in 1..End(walSegs, s) /\ m \in 1..MaxLSN
    BY <1>6, PlaceFields, FilesTyped
  <2>2. Synced(walSegs, s) = End(walSegs, s) /\ End(walSegs, s) \in Nat
    BY <1>2, <2>1, FileFields, FilesTyped DEF ShapeInv, FilesInv
  <2>3. j <= Synced(walSegs, s)
    BY ONLY <2>1, <2>2
  <2>4. m <= walLast
    BY <1>3, <1>6, <2>1 DEF ShapeInv, FilesInv
  <2> QED BY <1>2, <1>6, <2>3, <2>4 DEF Safe
<1>7. PICK p : p = walProgress'
  OBVIOUS
<1>8. p = walProgress \/ (Safe(p)' /\ p <= walLast)
  BY <1>2, <1>5, <1>6, <1>7
<1>9. LastInUse' /\ BelowLast' /\ BelowNames'
  BY <1>1, <1>2, <1>3, <1>7, <1>8 DEF LastInUse, BelowLast, BelowNames
<1>10. DurableSafe'
  <2>1. ASSUME NEW l \in walDurable, l > walProgress'
        PROVE  l > walProgress
    <3>1. walProgress \in Nat /\ l \in Nat /\ (p = walProgress \/ (p \in 1..MaxLSN /\ p > walProgress)) /\ MaxLSN \in Nat /\ l > p
      BY <1>2, <1>5, <1>7, <2>1, Numbers
    <3> QED BY ONLY <3>1
  <2> QED BY <1>1, <1>2, <1>4, <2>1 DEF DurableSafe
<1>11. ProgressSafe'
  <2>1. PICK q : q = walProgress
    OBVIOUS
  <2>2. (q < walFile \/ Safe(q)) /\ (Safe(q) => Safe(q)')
    BY <1>1, <1>3, <1>4, <2>1 DEF ProgressSafe
  <2>3. p < walFile \/ Safe(p)'
    BY <1>8, <2>1, <2>2
  <2>4. Safe(p)' => Safe(walProgress)'
    BY <1>7 DEF Safe
  <2> QED BY <1>2, <1>7, <2>3, <2>4 DEF ProgressSafe
<1>12. \A v \in WalWriters : WriterSafe(v)'
  BY <1>2 DEF WriterSafe, Busy
<1> QED BY <1>9, <1>10, <1>11, <1>12

\* The order, in every step.
LEMMA OrderStep ==
    ASSUME WalTypeOK, ShapeInv, OrderInv, WalNext
    PROVE  OrderInv'
<1> SUFFICES ASSUME WalWhole'
             PROVE  /\ LastInUse' /\ BelowLast' /\ BelowNames' /\ DurableSafe' /\ ProgressSafe'
                    /\ \A v \in WalWriters : WriterSafe(v)'
  BY DEF OrderInv
<1>1. WalWhole
  BY WholeBefore
<1>2. ASSUME NEW w \in WalWriters, WalAppend(w) \/ WalAppendFails(w)
      PROVE  /\ LastInUse' /\ BelowLast' /\ BelowNames' /\ DurableSafe' /\ ProgressSafe'
             /\ \A v \in WalWriters : WriterSafe(v)'
  BY <1>1, <1>2, OrderAppended
<1>3. ASSUME NEW w \in WalWriters, WalSync(w) \/ WalApply(w) \/ WalApplyRefused(w) \/ WalMarkApplied(w) \/ WalGiveUp(w)
      PROVE  /\ LastInUse' /\ BelowLast' /\ BelowNames' /\ DurableSafe' /\ ProgressSafe'
             /\ \A v \in WalWriters : WriterSafe(v)'
  BY <1>1, <1>3, OrderSynced, OrderApplied
<1>4. CASE WalCheckpoint
  BY <1>1, <1>4, OrderRetained
<1>5. CASE WalCrash
  BY <1>1, <1>5, OrderCrashed
<1>6. CASE WalOpen
  BY <1>1, <1>6, OrderOpened, OrderNotOpened
<1>7. CASE WalReplay \/ WalReplayRefused \/ WalRecovered
  BY <1>1, <1>7, OrderReplayed
<1> QED BY <1>2, <1>3, <1>4, <1>5, <1>6, <1>7 DEF WalNext

\* WalNeededRetained follows.
LEMMA OrderRetains ==
    ASSUME WalTypeOK, OrderInv
    PROVE  WalNeededRetained
<1>1. ASSUME WalWhole, NEW l \in walDurable, l > walProgress
      PROVE  l \in Retained
  <2>1. Safe(l)
    BY <1>1 DEF OrderInv, DurableSafe
  <2>2. Kept(l)
    BY <2>1 DEF Safe, Kept
  <2> QED BY <2>2, RetainedIsKept, FilesTyped
<1> QED BY <1>1 DEF WalNeededRetained

\* Append.
LEMMA ForgetAppended ==
    ASSUME WalTypeOK, ShapeInv, OrderInv, ForgetInv, NEW w \in WalWriters,
           WalAppend(w) \/ WalAppendFails(w), WalNext
    PROVE  ForgetInv'
<1>1. PICK full \in BOOLEAN, l \in Nat :
         /\ Appended(full, walLast + 1, l)
         /\ (l = 0 /\ walLast' = walLast) \/ (l = walLast + 1 /\ walLast' = walLast + 1)
  BY EitherAppend
<1>2. /\ walStatus = "open" /\ UNCHANGED <<walStatus, walProgress, walApplied, walRefused, walGivenUp, walDurable>>
      /\ walPc[w] = "idle"
      /\ \A v \in WalWriters : v # w => walPc'[v] = walPc[v] /\ walAt'[v] = walAt[v]
      /\ WalAppend(w) => walPc'[w] = "appended" /\ walAt'[w] = walLast + 1 /\ walLast' = walLast + 1
      /\ WalAppendFails(w) => walPc' = walPc /\ walAt' = walAt /\ walLast' = walLast
  BY AppendWriters
<1>3. \A v \in WalWriters : walPc'[v] = "applied" => walAt'[v] \in walApplied'
  <2>1. ASSUME NEW v \in WalWriters, walPc'[v] = "applied"
        PROVE  walPc[v] = "applied" /\ walAt'[v] = walAt[v]
    BY <1>2, <2>1
  <2> QED BY <1>2, <2>1 DEF ForgetInv
<1>4. ASSUME WalWhole', NEW m \in 1..MaxLSN, ToAccount(m)'
      PROVE  Decided(m)' \/ InFlight(m)'
  <2>1. WalWhole
    BY <1>4, WholeBefore
  <2>2. PICK segs : segs = walSegs'
    OBVIOUS
  <2>3. \A s, j, n : At(segs, s, j, n) => At(walSegs, s, j, n) \/ (n = l /\ n # 0)
    BY <1>1, <2>2 DEF Appended
  <2>4. Kept(m)' => Kept(m) \/ (m = l /\ m # 0)
    BY <2>2, <2>3 DEF Kept
  <2>5. walLast \in Nat /\ m \in Nat
    BY Numbers, WalAssumption
  <2>6. CASE m = l /\ m # 0
    <3>1. l = walLast + 1 /\ walLast' = walLast + 1
      BY <1>1, <2>6
    <3>2. walLast' # walLast
      BY ONLY <3>1, <2>5
    <3>3. WalAppend(w)
      BY <1>2, <3>2
    <3> QED BY <1>2, <2>6, <3>1, <3>3 DEF InFlight
  <2>7. CASE m \in walDurable \/ Kept(m)
    <3>1. m <= walLast
      <4>1. CASE m \in walDurable
        BY <1>2, <2>1, <4>1 DEF OrderInv, BelowLast, Live
      <4>2. CASE Kept(m)
        BY <1>2, <4>2 DEF Kept, ShapeInv, FilesInv, Live
      <4> QED BY <2>7, <4>1, <4>2
    <3>2. ToAccount(m)
      <4>1. CASE m > walProgress'
        BY <1>2, <2>7, <4>1 DEF ToAccount
      <4>2. ASSUME NEW v \in WalWriters, walPc'[v] # "idle", m > walAt'[v]
            PROVE  ToAccount(m)
        <5>1. CASE v # w \/ WalAppendFails(w)
          <6>1. walPc[v] # "idle" /\ m > walAt[v]
            BY <1>2, <4>2, <5>1
          <6> QED BY <2>7, <6>1 DEF ToAccount, Busy
        <5>2. CASE v = w /\ WalAppend(w)
          <6>1. walAt'[v] = walLast + 1
            BY <1>2, <5>2
          <6>2. m > walLast + 1
            BY <4>2, <6>1
          <6>3. FALSE
            BY ONLY <6>2, <3>1, <2>5
          <6> QED BY <6>3
        <5> QED BY <5>1, <5>2
      <4> QED BY <1>4, <4>1, <4>2 DEF ToAccount, Busy
    <3>3. Decided(m) \/ InFlight(m)
      BY <1>2, <2>1, <3>2 DEF ForgetInv
    <3>4. InFlight(m) => InFlight(m)'
      <4>1. ASSUME NEW v \in WalWriters, walAt[v] = m, walPc[v] \in {"appended", "synced"}
            PROVE  walAt'[v] = m /\ walPc'[v] \in {"appended", "synced"}
        BY <1>2, <4>1
      <4> QED BY <4>1 DEF InFlight
    <3> QED BY <1>2, <3>3, <3>4 DEF Decided
  <2>8. m \in walDurable \/ Kept(m) \/ (m = l /\ m # 0)
    BY <1>2, <1>4, <2>4 DEF ToAccount
  <2> QED BY <2>6, <2>7, <2>8
<1> QED BY <1>3, <1>4 DEF ForgetInv

\* The other steps of a writer.
LEMMA ForgetWritten ==
    ASSUME WalTypeOK, ShapeInv, OrderInv, ForgetInv, NEW w \in WalWriters,
           WalSync(w) \/ WalApply(w) \/ WalApplyRefused(w) \/ WalMarkApplied(w) \/ WalGiveUp(w)
    PROVE  ForgetInv'
<1>1. /\ walStatus = "open" /\ UNCHANGED <<walStatus, walFile, walLast, walAt, walHarm>>
      /\ \A v \in WalWriters : v # w => walPc'[v] = walPc[v]
      /\ WalSync(w) => walPc[w] = "appended" /\ walPc'[w] = "synced"
      /\ WalApply(w) => walPc[w] = "synced" /\ walPc'[w] = "applied"
      /\ WalApplyRefused(w) => walPc[w] = "synced" /\ walPc'[w] = "idle"
      /\ WalMarkApplied(w) => walPc[w] = "applied" /\ walPc'[w] = "idle"
      /\ WalGiveUp(w) => walPc[w] # "idle" /\ walPc'[w] = "idle"
  BY WriterMovesOn
<1>2. /\ \A v \in WalWriters : walPc[v] = "applied" => walAt[v] \in walApplied
      /\ WalWhole => \A m \in 1..MaxLSN : ToAccount(m) => Decided(m) \/ InFlight(m)
  BY <1>1 DEF ForgetInv
<1>3. /\ walApplied \subseteq walApplied' /\ walRefused \subseteq walRefused' /\ walGivenUp \subseteq walGivenUp'
      /\ WalApply(w) => walAt[w] \in walApplied'
      /\ WalGiveUp(w) => walAt[w] \in walGivenUp'
      /\ WalApplyRefused(w) => walAt[w] \in walRefused'
      /\ WalMarkApplied(w) => walProgress' = walAt[w]
      /\ ~WalMarkApplied(w) => walProgress' = walProgress
  BY DEF WalSync, WalApply, WalApplyRefused, WalMarkApplied, WalGiveUp
<1>4. WalWhole' => WalWhole
  BY <1>1 DEF WalWhole
<1>5. ASSUME NEW v \in WalWriters, walPc'[v] = "applied"
      PROVE  walAt'[v] \in walApplied'
  BY <1>1, <1>2, <1>3, <1>5
<1>6. ASSUME NEW m \in 1..MaxLSN, Kept(m)' \/ m \in walDurable'
      PROVE  Kept(m) \/ m \in walDurable
  <2>1. CASE WalSync(w)
    <3>1. PICK segs : segs = walSegs'
      OBVIOUS
    <3>2. /\ \A s, j, l : At(segs, s, j, l) <=> At(walSegs, s, j, l)
          /\ m \in walDurable' <=> m \in walDurable \/ \E j \in Nat : At(walSegs, walFile, j, m)
      BY <2>1, <3>1, SyncFacts
    <3>3. walFile \in Starts
      BY DEF WalTypeOK
    <3> QED BY <1>6, <3>1, <3>2, <3>3 DEF Kept
  <2>2. CASE WalApply(w) \/ WalApplyRefused(w) \/ WalMarkApplied(w) \/ WalGiveUp(w)
    <3>1. UNCHANGED <<walSegs, walDurable>>
      BY <2>2 DEF WalApply, WalApplyRefused, WalMarkApplied, WalGiveUp
    <3> QED BY <1>6, <3>1 DEF Kept
  <2> QED BY <2>1, <2>2
<1>7. ASSUME NEW m \in 1..MaxLSN, ToAccount(m)'
      PROVE  ToAccount(m)
  <2>1. Kept(m) \/ m \in walDurable
    BY <1>6, <1>7 DEF ToAccount
  <2>2. \A v \in WalWriters : walPc'[v] # "idle" => walPc[v] # "idle"
    BY <1>1
  <2>3. m > walProgress' => m > walProgress \/ (walPc[w] # "idle" /\ m > walAt[w])
    BY <1>1, <1>3
  <2> QED BY <1>1, <1>7, <2>1, <2>2, <2>3 DEF ToAccount, Busy
<1>8. ASSUME NEW m, Decided(m) \/ InFlight(m)
      PROVE  Decided(m)' \/ InFlight(m)'
  <2>1. CASE Decided(m)
    BY <1>3, <2>1 DEF Decided
  <2>2. ASSUME NEW v \in WalWriters, walAt[v] = m, walPc[v] \in {"appended", "synced"}
        PROVE  Decided(m)' \/ InFlight(m)'
    <3>1. CASE v # w
      BY <1>1, <2>2, <3>1 DEF InFlight
    <3>2. CASE v = w /\ WalSync(w)
      BY <1>1, <2>2, <3>2 DEF InFlight
    <3>3. CASE v = w /\ (WalApply(w) \/ WalApplyRefused(w) \/ WalGiveUp(w))
      BY <1>3, <2>2, <3>3 DEF Decided
    <3>4. CASE v = w /\ WalMarkApplied(w)
      BY <1>1, <2>2, <3>4
    <3> QED BY <3>1, <3>2, <3>3, <3>4
  <2> QED BY <1>8, <2>1, <2>2 DEF InFlight
<1>9. ASSUME WalWhole', NEW m \in 1..MaxLSN, ToAccount(m)'
      PROVE  Decided(m)' \/ InFlight(m)'
  BY <1>2, <1>4, <1>7, <1>8, <1>9
<1> QED BY <1>5, <1>9 DEF ForgetInv

\* A checkpoint, a crash and a reopen leave no writer at work.
LEMMA ForgetOther ==
    ASSUME WalTypeOK, ShapeInv, OrderInv, ForgetInv, WalNext,
           WalCheckpoint \/ WalCrash \/ WalOpen \/ WalReplay \/ WalReplayRefused \/ WalRecovered
    PROVE  ForgetInv'
<1>1. \A v \in WalWriters : walPc'[v] = "idle"
  <2>1. CASE WalCheckpoint \/ WalCrash
    BY <2>1 DEF WalCheckpoint, WalCrash
  <2>2. CASE WalOpen \/ WalReplay \/ WalReplayRefused \/ WalRecovered
    BY <2>2 DEF ShapeInv, MemoryInv, WalOpen, WalReplay, WalReplayRefused, WalRecovered
  <2> QED BY <2>1, <2>2
<1>2. CASE WalCheckpoint
  <2>1. UNCHANGED <<walStatus, walProgress, walPc, walAt, walApplied, walRefused, walGivenUp, walDurable>>
        /\ walStatus = "open"
    BY <1>2 DEF WalCheckpoint
  <2>2. ASSUME WalWhole', NEW m \in 1..MaxLSN, ToAccount(m)'
        PROVE  Decided(m)' \/ InFlight(m)'
    <3>1. PICK segs : segs = walSegs'
      OBVIOUS
    <3>2. \A s, j, l : At(segs, s, j, l) => At(walSegs, s, j, l)
      BY <1>2, <3>1, CheckpointFacts
    <3>3. Kept(m)' => Kept(m)
      BY <3>1, <3>2 DEF Kept
    <3>4. ToAccount(m)
      BY <2>1, <2>2, <3>3 DEF ToAccount, Busy
    <3>5. WalWhole
      BY <2>2, WholeBefore
    <3>6. Decided(m) \/ InFlight(m)
      BY <2>1, <3>4, <3>5 DEF ForgetInv
    <3> QED BY <2>1, <3>6 DEF Decided, InFlight
  <2> QED BY <1>1, <2>2 DEF ForgetInv
<1>3. CASE WalCrash \/ WalOpen \/ WalReplay \/ WalReplayRefused
  <2>1. walStatus' # "open"
    <3>1. WalOpen => walStatus' # "open"
      BY OpenFailsFacts
    <3> QED BY <1>3, <3>1 DEF WalCrash, WalReplay, WalReplayRefused
  <2> QED BY <1>1, <2>1 DEF ForgetInv
<1>4. CASE WalRecovered
  <2>1. /\ walStatus = "recovering" /\ ToReplay = {}
        /\ UNCHANGED <<walSegs, walProgress, walDurable, walHarm>>
    BY <1>4 DEF WalRecovered
  <2>2. ASSUME WalWhole', NEW m \in 1..MaxLSN, ToAccount(m)'
        PROVE  FALSE
    <3>1. m > walProgress /\ (m \in walDurable \/ Kept(m))
      BY <1>1, <2>1, <2>2 DEF ToAccount, Busy, Kept
    <3>2. WalWhole
      BY <2>2, WholeBefore
    <3>3. Kept(m)
      BY <3>1, <3>2 DEF OrderInv, DurableSafe, Safe, Kept
    <3>4. PICK s \in Starts, j \in Nat : At(walSegs, s, j, m)
      BY <3>3 DEF Kept
    <3>5. PICK t \in DOMAIN walSegs : t <= walProgress + 1 /\ ~(t <= s)
      BY <2>1, <3>1, <3>4, ReplayFrames
    <3>6. s \in DOMAIN walSegs /\ s \in Nat /\ t \in Nat
      BY <3>4, FilesTyped, FileFields DEF At
    <3>7. s < t
      BY ONLY <3>5, <3>6
    <3>8. m < t
      BY <3>2, <3>4, <3>6, <3>7 DEF OrderInv, BelowNames
    <3>9. walProgress \in Nat /\ m \in Nat
      BY Numbers, WalAssumption
    <3> QED BY ONLY <3>1, <3>5, <3>6, <3>8, <3>9
  <2> QED BY <1>1, <2>2 DEF ForgetInv
<1> QED BY <1>2, <1>3, <1>4

\* What is decided, in every step.
LEMMA ForgetStep ==
    ASSUME WalTypeOK, ShapeInv, OrderInv, ForgetInv, WalNext
    PROVE  ForgetInv'
BY ForgetAppended, ForgetWritten, ForgetOther DEF WalNext

\* WalNothingForgotten follows.
LEMMA ForgetsNone ==
    ASSUME WalTypeOK, ForgetInv
    PROVE  WalNothingForgotten
<1>1. \A l \in walDurable : l \in 1..MaxLSN
  BY Numbers
<1> QED BY <1>1 DEF ForgetInv, ToAccount, WalNothingForgotten, Decided, InFlight

\* A running log has no garbage.
LEMMA NoGarbage ==
    ASSUME WalTypeOK, GarbageLast, Live
    PROVE  \A s, j : ~Bad(walSegs, s, j)
BY PlaceFields, FilesTyped DEF GarbageLast

\* Append.
LEMMA GarbageAppended ==
    ASSUME WalTypeOK, ShapeInv, GarbageLast, NEW w \in WalWriters, WalAppend(w), walHarm \subseteq walHarm'
    PROVE  /\ GarbageLast'
           /\ GarbageInUse /\ "closed unsynced" \notin walHarm' => GarbageInUse'
<1>1. PICK full \in BOOLEAN : Appended(full, walLast + 1, walLast + 1) /\ walLast + 1 \in 1..MaxLSN
  BY AppendFacts
<1>2. PICK segs, file, lsn : segs = walSegs' /\ file = walFile' /\ lsn = walLast + 1
  OBVIOUS
<1>3. lsn # 0
  <2>1. walLast \in Nat
    BY Numbers
  <2> QED BY ONLY <1>2, <2>1
<1>4. /\ file = IF full THEN lsn ELSE walFile
      /\ DOMAIN segs = DOMAIN walSegs \cup (IF full THEN {lsn} ELSE {})
      /\ \A s \in DOMAIN segs :
          /\ Synced(segs, s) = IF s \in DOMAIN walSegs THEN Synced(walSegs, s) ELSE 0
          /\ End(segs, s) = (IF s \in DOMAIN walSegs THEN End(walSegs, s) ELSE 0)
                                 + (IF s = file THEN 1 ELSE 0)
      /\ \A s, j : Bad(segs, s, j) => Bad(walSegs, s, j)
      /\ full /\ walFile \in DOMAIN walSegs /\ "closed unsynced" \notin walHarm' =>
          \A j, m : At(walSegs, walFile, j, m) => j <= Synced(walSegs, walFile)
  BY <1>1, <1>2, <1>3 DEF Appended
<1>5. walStatus = "open" /\ walStatus' = walStatus /\ Live
  BY AppendWriters DEF Live
<1>6. \A s, j : ~Bad(walSegs, s, j)
  BY <1>5, NoGarbage
<1>7. walHarm' \subseteq walHarm \cup {"closed unsynced"}
  BY DEF WalAppend, ClosedUnsynced
<1>8. GarbageLast'
  BY <1>2, <1>4, <1>5, <1>6, <1>7 DEF GarbageLast
<1>9. ASSUME GarbageInUse, "closed unsynced" \notin walHarm', NEW s \in DOMAIN segs \ {file}
      PROVE  Synced(segs, s) = End(segs, s)
  <2>1. s \in DOMAIN walSegs
    BY <1>4, <1>9
  <2>2. Synced(walSegs, s) \in Nat /\ End(walSegs, s) \in Nat /\ Synced(walSegs, s) <= End(walSegs, s)
    BY <2>1, FileFields, FilesTyped DEF ShapeInv, FilesInv
  <2>3. Synced(walSegs, s) = End(walSegs, s)
    <3>1. CASE s # walFile
      BY <1>5, <1>9, <2>1, <3>1 DEF GarbageInUse
    <3>2. CASE s = walFile
      <4>1. full
        BY <1>4, <1>9, <3>2
      <4>2. \A j, m : At(walSegs, s, j, m) => j <= Synced(walSegs, s)
        BY <1>4, <1>9, <2>1, <3>2, <4>1
      <4>3. \A j \in 1..End(walSegs, s) : \E m : At(walSegs, s, j, m)
        BY <1>6, <2>1, PlaceFields, FilesTyped
      <4>4. \A j \in 1..End(walSegs, s) : j <= Synced(walSegs, s)
        BY <4>2, <4>3
      <4> QED BY ONLY <4>4, <2>2
    <3> QED BY <3>1, <3>2
  <2>4. Synced(segs, s) = Synced(walSegs, s) /\ End(segs, s) = End(walSegs, s) + 0
    BY <1>4, <1>9, <2>1
  <2> QED BY <2>2, <2>3, <2>4
<1>10. GarbageInUse /\ "closed unsynced" \notin walHarm' => GarbageInUse'
  BY <1>2, <1>4, <1>5, <1>6, <1>9 DEF GarbageInUse, Live
<1> QED BY <1>8, <1>10

\* The other steps of a writer.
LEMMA GarbageWritten ==
    ASSUME WalTypeOK, GarbageLast, NEW w \in WalWriters,
           WalSync(w) \/ WalApply(w) \/ WalApplyRefused(w) \/ WalMarkApplied(w) \/ WalGiveUp(w)
    PROVE  GarbageLast' /\ (GarbageInUse => GarbageInUse')
<1>1. walStatus = "open" /\ UNCHANGED <<walStatus, walFile, walHarm>>
  BY WriterMovesOn
<1>2. CASE WalSync(w)
  <2>1. PICK segs : segs = walSegs'
    OBVIOUS
  <2>2. /\ DOMAIN segs = DOMAIN walSegs
        /\ \A s \in DOMAIN walSegs :
                 /\ End(segs, s) = End(walSegs, s)
                 /\ Synced(segs, s) = IF s = walFile THEN End(walSegs, s) ELSE Synced(walSegs, s)
        /\ \A s, j : Bad(segs, s, j) <=> Bad(walSegs, s, j)
    BY <1>2, <2>1, SyncFacts
  <2> QED BY <1>1, <2>1, <2>2 DEF GarbageLast, GarbageInUse, Live, Whole
<1>3. CASE WalApply(w) \/ WalApplyRefused(w) \/ WalMarkApplied(w) \/ WalGiveUp(w)
  <2>1. UNCHANGED walSegs
    BY <1>3 DEF WalApply, WalApplyRefused, WalMarkApplied, WalGiveUp
  <2> QED BY <1>1, <2>1 DEF GarbageLast, GarbageInUse, Live, Whole
<1> QED BY <1>2, <1>3

\* Retention.
LEMMA GarbageRetained ==
    ASSUME WalTypeOK, GarbageLast, WalCheckpoint
    PROVE  GarbageLast' /\ (GarbageInUse => GarbageInUse')
<1>1. PICK segs : segs = walSegs'
  OBVIOUS
<1>2. /\ DOMAIN segs \subseteq DOMAIN walSegs
      /\ \A s \in DOMAIN segs :
                 End(segs, s) = End(walSegs, s) /\ Synced(segs, s) = Synced(walSegs, s)
      /\ \A s, j : Bad(segs, s, j) => Bad(walSegs, s, j)
  BY <1>1, CheckpointFacts
<1>3. walStatus = "open" /\ UNCHANGED <<walStatus, walFile>> /\ walHarm' \subseteq walHarm \cup {"retention", "unlinked"}
  BY DEF WalCheckpoint
<1>4. GarbageLast'
  BY <1>1, <1>2, <1>3 DEF GarbageLast, Live
<1> QED BY <1>1, <1>2, <1>3, <1>4 DEF GarbageInUse, Live, Whole

\* A crash.
LEMMA GarbageCrashed ==
    ASSUME WalTypeOK, ShapeInv, GarbageLast, WalCrash
    PROVE  GarbageLast' /\ (GarbageInUse => GarbageInUse')
<1>1. PICK segs : segs = walSegs'
  OBVIOUS
<1>2. /\ DOMAIN segs = DOMAIN walSegs /\ Typed(segs)
      /\ \A s \in DOMAIN walSegs :
            \E k \in Nat : k \in Synced(walSegs, s)..End(walSegs, s) /\ Cut(segs, walSegs, s, k)
  BY <1>1, CrashFacts
<1>3. walStatus \in {"open", "recovering"} /\ walStatus' = "down" /\ UNCHANGED <<walFile, walHarm>>
  BY DEF WalCrash
<1>4. Live /\ Whole /\ ~Live'
  BY <1>3 DEF Live, Whole
<1>5. \A s, j : ~Bad(walSegs, s, j)
  BY <1>4, NoGarbage
<1>6. ASSUME NEW s \in DOMAIN segs, NEW j \in Nat, Bad(segs, s, j)
      PROVE  j = End(segs, s) /\ Synced(walSegs, s) # End(walSegs, s)
  <2>1. PICK k \in Nat : k \in Synced(walSegs, s)..End(walSegs, s) /\ Cut(segs, walSegs, s, k)
    BY <1>2
  <2>2. k < End(walSegs, s) /\ End(segs, s) = k + 1 /\ j = k + 1
    BY <1>5, <1>6, <2>1 DEF Cut
  <2>3. Synced(walSegs, s) \in Nat /\ End(walSegs, s) \in Nat
    BY <1>2, FileFields, FilesTyped
  <2>4. Synced(walSegs, s) # End(walSegs, s)
    BY ONLY <2>1, <2>2, <2>3
  <2> QED BY <2>2, <2>4
<1>7. GarbageLast'
  BY <1>1, <1>3, <1>4, <1>6 DEF GarbageLast
<1>8. GarbageInUse => GarbageInUse'
  BY <1>1, <1>2, <1>3, <1>4, <1>6 DEF GarbageInUse
<1> QED BY <1>7, <1>8

\* The places of garbage, as a scan finds them.
LEMMA GarbledPlaces ==
    ASSUME WalTypeOK, NEW g \in Garbled(walSegs)
    PROVE  /\ Bad(walSegs, g[1], g[2]) /\ g[1] \in DOMAIN walSegs /\ g[2] \in Nat
           /\ Followed(walSegs, g) => g[2] # End(walSegs, g[1])
<1>1. g \in Places(walSegs)
  BY DEF Garbled
<1>2. g = <<g[1], g[2]>>
  BY <1>1, PlaceIn, FilesTyped
<1>3. Bad(walSegs, g[1], g[2])
  BY <1>2, PlaceIn, FilesTyped
<1>4. g[1] \in DOMAIN walSegs /\ g[2] \in Nat /\ g[2] \in 1..End(walSegs, g[1]) /\ End(walSegs, g[1]) \in Nat
  BY <1>3, PlaceFields, FilesTyped, FileFields
<1>5. Followed(walSegs, g) => g[2] < End(walSegs, g[1])
  BY DEF Followed, End
<1> QED BY <1>3, <1>4, <1>5

\* Open, when it succeeds.
LEMMA GarbageOpened ==
    ASSUME WalTypeOK, ShapeInv, GarbageLast, WalOpen, walStatus' = "recovering"
    PROVE  GarbageLast' /\ GarbageInUse'
<1>1. PICK segs : segs = walSegs'
  OBVIOUS
<1>2. /\ \A s, j : ~Bad(segs, s, j)
      /\ "cut" \in walHarm' => "cut" \in walHarm \/ \E g \in Garbled(walSegs) : Followed(walSegs, g)
  BY <1>1, OpenFacts
<1>3. \A s \in DOMAIN segs : Synced(segs, s) = End(segs, s)
  BY <1>1, OpenOthers
<1>4. \A g \in Garbled(walSegs) : ~Followed(walSegs, g)
  BY GarbledPlaces DEF GarbageLast
<1> QED BY <1>1, <1>2, <1>3, <1>4 DEF GarbageLast, GarbageInUse

\* Open, when it fails.
LEMMA GarbageNotOpened ==
    ASSUME WalTypeOK, ShapeInv, OrderInv, GarbageLast, WalOpen, walStatus' # "recovering"
    PROVE  /\ GarbageLast'
           /\ GarbageInUse /\ "misnamed" \notin walHarm => GarbageInUse'
<1>1. /\ walStatus' \in ScanErrors(walSegs) /\ walStatus = "down"
      /\ walStatus' \in {"non-contiguous", "corrupt", "torn"}
      /\ UNCHANGED <<walSegs, walFile, walSize, walLast, walHarm>>
  BY OpenFailsFacts
<1>2. ~Live' /\ ~Whole' /\ Whole
  BY <1>1 DEF Live, Whole
<1>3. \A g \in Garbled(walSegs) : ~Followed(walSegs, g)
  BY GarbledPlaces DEF GarbageLast
<1>4. /\ walStatus' = "corrupt" => \E g \in Garbled(walSegs) : Followed(walSegs, g)
      /\ walStatus' = "torn" => \E g \in Garbled(walSegs) : g[1] # LastSegment(walSegs)
  BY <1>1 DEF ScanErrors, FirstGarbled
<1>5. GarbageLast'
  BY <1>1, <1>2, <1>3, <1>4 DEF GarbageLast
<1>6. ASSUME GarbageInUse, "misnamed" \notin walHarm, walStatus' = "torn"
      PROVE  FALSE
  <2>1. PICK g \in Garbled(walSegs) : g[1] # LastSegment(walSegs)
    BY <1>4, <1>6
  <2>2. g[1] = walFile
    BY <1>2, <1>6, GarbledPlaces DEF GarbageInUse
  <2>3. WalWhole
    BY <1>6 DEF WalWhole, GarbageLast
  <2>4. walFile \in DOMAIN walSegs /\ \A s \in DOMAIN walSegs : s <= walFile
    BY <1>2, <2>3 DEF OrderInv, LastInUse
  <2>5. PICK last : last = LastSegment(walSegs)
    OBVIOUS
  <2>6. last \in DOMAIN walSegs /\ \A s \in DOMAIN walSegs : s <= last
    BY <2>5, LastIsLast, FilesTyped DEF ShapeInv, FilesInv
  <2>7. last \in Nat /\ walFile \in Nat /\ last <= walFile /\ walFile <= last
    BY <2>4, <2>6, FilesTyped, FileFields
  <2>8. last = walFile
    BY ONLY <2>7
  <2> QED BY <2>1, <2>2, <2>5, <2>8
<1>7. GarbageInUse /\ "misnamed" \notin walHarm => GarbageInUse'
  BY <1>2, <1>6 DEF GarbageInUse
<1> QED BY <1>5, <1>7

\* Recovery.
LEMMA GarbageReplayed ==
    ASSUME WalTypeOK, GarbageLast, WalReplay \/ WalReplayRefused \/ WalRecovered
    PROVE  GarbageLast' /\ (GarbageInUse => GarbageInUse')
<1>1. /\ walStatus = "recovering" /\ walStatus' \in {"recovering", "open", "apply"}
      /\ UNCHANGED <<walSegs, walFile, walHarm>>
  BY DEF WalReplay, WalReplayRefused, WalRecovered
<1>2. Live /\ Whole
  BY <1>1 DEF Live, Whole
<1>3. \A s, j : ~Bad(walSegs, s, j)
  BY <1>2, NoGarbage
<1> QED BY <1>1, <1>2, <1>3 DEF GarbageLast, GarbageInUse

\* Garbage, in every step.
LEMMA GarbageStep ==
    ASSUME WalTypeOK, ShapeInv, OrderInv, GarbageInv, WalNext
    PROVE  GarbageInv'
<1> SUFFICES ASSUME "failed append" \notin walHarm'
             PROVE  /\ GarbageLast'
                    /\ walHarm' \cap {"closed unsynced", "misnamed"} = {} => GarbageInUse'
  BY DEF GarbageInv
<1>1. walHarm \subseteq walHarm'
  BY HarmGrows
<1>2. GarbageLast /\ (walHarm' \cap {"closed unsynced", "misnamed"} = {} => GarbageInUse)
  BY <1>1 DEF GarbageInv
<1>3. \A w \in WalWriters : ~WalAppendFails(w)
  BY DEF WalAppendFails
<1>4. ASSUME NEW w \in WalWriters, WalAppend(w)
      PROVE  /\ GarbageLast'
             /\ walHarm' \cap {"closed unsynced", "misnamed"} = {} => GarbageInUse'
  BY <1>1, <1>2, <1>4, GarbageAppended
<1>5. ASSUME NEW w \in WalWriters, WalSync(w) \/ WalApply(w) \/ WalApplyRefused(w) \/ WalMarkApplied(w) \/ WalGiveUp(w)
      PROVE  /\ GarbageLast'
             /\ walHarm' \cap {"closed unsynced", "misnamed"} = {} => GarbageInUse'
  BY <1>2, <1>5, GarbageWritten
<1>6. CASE WalCheckpoint \/ WalCrash
  BY <1>2, <1>6, GarbageRetained, GarbageCrashed
<1>7. CASE WalOpen
  <2>1. CASE walStatus' = "recovering"
    BY <1>2, <1>7, <2>1, GarbageOpened
  <2>2. CASE walStatus' # "recovering"
    BY <1>1, <1>2, <1>7, <2>2, GarbageNotOpened
  <2> QED BY <2>1, <2>2
<1>8. CASE WalReplay \/ WalReplayRefused \/ WalRecovered
  BY <1>2, <1>8, GarbageReplayed
<1> QED BY <1>3, <1>4, <1>5, <1>6, <1>7, <1>8 DEF WalNext

\* Places are in a total order.
LEMMA EarlierTotal ==
    ASSUME NEW s \in Nat, NEW j \in Nat, NEW t \in Nat, NEW k \in Nat
    PROVE  /\ (s = t /\ j = k) \/ Earlier(s, j, t, k) \/ Earlier(t, k, s, j)
           /\ \A u \in Nat, h \in Nat : Earlier(s, j, t, k) /\ Earlier(t, k, u, h) => Earlier(s, j, u, h)
           /\ ~Earlier(s, j, s, j)
BY DEF Earlier

\* Places are numbers.
LEMMA PlaceNumbers ==
    ASSUME NEW segs, Typed(segs), NEW s, NEW j, NEW l, At(segs, s, j, l)
    PROVE  s \in DOMAIN segs /\ s \in Starts /\ s \in Nat /\ j \in Nat /\ l \in 1..MaxLSN /\ l \in Nat
           /\ j <= End(segs, s) /\ End(segs, s) \in Nat
<1>1. s \in DOMAIN segs /\ s \in Starts /\ j \in 1..End(segs, s) /\ j \in Nat /\ l \in 1..MaxLSN
  BY PlaceFields
<1>2. End(segs, s) \in Nat /\ s \in Nat
  BY <1>1, FileFields
<1>3. j <= End(segs, s)
  BY ONLY <1>1, <1>2
<1>4. l \in Nat
  BY <1>1, WalAssumption
<1> QED BY <1>1, <1>2, <1>3, <1>4

\* Of ascending LSNs the smaller one is earlier.
LEMMA SmallerIsEarlier ==
    ASSUME NEW segs, Typed(segs), Ascending(segs), NEW s, NEW j, NEW l, NEW t, NEW k, NEW m,
           At(segs, s, j, l), At(segs, t, k, m), l < m
    PROVE  Earlier(s, j, t, k)
<1>1. /\ s \in DOMAIN segs /\ t \in DOMAIN segs /\ s \in Nat /\ t \in Nat /\ j \in Nat /\ k \in Nat
      /\ l \in 1..MaxLSN /\ m \in 1..MaxLSN /\ l \in Nat /\ m \in Nat
  BY PlaceNumbers
<1>2. CASE s = t /\ j = k
  <2>1. l = m
    BY <1>2, PlaceFields
  <2> QED BY ONLY <1>1, <2>1, l < m
<1>3. CASE Earlier(t, k, s, j)
  <2>1. m < l
    BY <1>1, <1>3 DEF Ascending
  <2> QED BY ONLY <1>1, <2>1, l < m
<1> QED BY <1>1, <1>2, <1>3, EarlierTotal

\* The end of the last file is cut off: the LSNs stay in sequence.
LEMMA SequenceCut ==
    ASSUME NEW old, Typed(old), NEW new, Typed(new), DOMAIN new = DOMAIN old,
           NEW file \in DOMAIN old, \A s \in DOMAIN old : s <= file,
           \A s, j, l : At(new, s, j, l) => At(old, s, j, l),
           \A s, j, l : At(old, s, j, l) /\ s # file => At(new, s, j, l),
           \A j, l, k, m : At(new, file, j, l) /\ At(old, file, k, m) /\ k < j => At(new, file, k, m),
           Ascending(old), Unbroken(old), Continued(old)
    PROVE  Ascending(new) /\ Unbroken(new) /\ Continued(new)
<1>1. Ascending(new)
  BY DEF Ascending
<1>2. ASSUME NEW l \in 1..MaxLSN, NEW s \in Starts, NEW j \in Nat, At(new, s, j, l), l # 1
      PROVE  KeptIn(new, l - 1)
  <2>1. At(old, s, j, l)
    BY <1>2
  <2>2. PICK t \in Starts, k \in Nat : At(old, t, k, l - 1)
    BY <1>2, <2>1 DEF Unbroken, KeptIn
  <2>3. PICK m : m = l - 1
    OBVIOUS
  <2>4. m < l
    <3>1. l \in Nat
      BY WalAssumption
    <3> QED BY ONLY <3>1, <2>3
  <2>5. Earlier(t, k, s, j)
    BY <2>1, <2>2, <2>3, <2>4, SmallerIsEarlier
  <2>6. At(new, t, k, m)
    <3>1. CASE t # file
      BY <2>2, <2>3, <3>1
    <3>2. CASE t = file
      <4>1. s \in Nat /\ s <= file /\ file \in Nat
        BY <2>1, PlaceNumbers, FileFields
      <4>2. s = file /\ k < j
        BY ONLY <4>1, <3>2, <2>5 DEF Earlier
      <4> QED BY <1>2, <2>2, <2>3, <3>2, <4>2
    <3> QED BY <3>1, <3>2
  <2> QED BY <2>3, <2>6 DEF KeptIn
<1>3. Unbroken(new)
  BY <1>2 DEF Unbroken, KeptIn
<1>4. ASSUME NEW t \in DOMAIN new, t # 1
      PROVE  \E s \in DOMAIN new, j \in Nat : s < t /\ At(new, s, j, t - 1)
  <2>1. PICK s \in DOMAIN old, j \in Nat : s < t /\ At(old, s, j, t - 1)
    BY <1>4 DEF Continued
  <2>2. s # file
    <3>1. t <= file /\ t \in Nat /\ s \in Nat
      BY <2>1, FileFields
    <3>2. file \in Nat
      BY FileFields
    <3> QED BY ONLY <2>1, <3>1, <3>2
  <2> QED BY <2>1, <2>2
<1>5. Continued(new)
  BY <1>4 DEF Continued
<1> QED BY <1>1, <1>3, <1>5

\* A scan of such files finds every record in sequence.
LEMMA AllInSequence ==
    ASSUME NEW segs, Typed(segs), Ascending(segs), Unbroken(segs), NEW p \in Scanned(segs)
    PROVE  InSequence(segs, p)
<1>1. PICK s, j : p = <<s, j>> /\ s = p[1] /\ j = p[2]
  BY ScannedIn
<1>2. PICK l \in 1..MaxLSN : At(segs, s, j, l)
  BY <1>1, ScannedIn
<1>3. \A t, k : Bad(segs, t, k) => Earlier(s, j, t, k)
  BY <1>1, ScannedIn
<1>4. s \in Nat /\ j \in Nat /\ l \in Nat /\ s \in Starts
  BY <1>2, PlaceNumbers
<1>5. FrameAt(segs, p).lsn = l
  BY <1>1, <1>2 DEF FrameAt, At
<1>6. ASSUME NEW q \in Scanned(segs)
      PROVE  \E t, k, m : /\ q = <<t, k>> /\ At(segs, t, k, m) /\ FrameAt(segs, q).lsn = m
                          /\ Before(q, p) => Earlier(t, k, s, j)
  <2>1. PICK t, k : q = <<t, k>>
    BY ScannedIn
  <2>2. PICK m \in 1..MaxLSN : At(segs, t, k, m)
    BY <2>1, ScannedIn
  <2>3. FrameAt(segs, q).lsn = m
    BY <2>1, <2>2 DEF FrameAt, At
  <2>4. Before(q, p) => Earlier(t, k, s, j)
    BY <1>1, <2>1 DEF Before, Earlier
  <2> QED BY <2>1, <2>2, <2>3, <2>4
<1>7. \A q \in Scanned(segs) : Before(q, p) =>
         \E t, k, m : /\ q = <<t, k>> /\ At(segs, t, k, m) /\ m \in Nat /\ m < l /\ m # 0
  <2>1. ASSUME NEW q \in Scanned(segs), Before(q, p)
        PROVE  \E t, k, m : /\ q = <<t, k>> /\ At(segs, t, k, m) /\ m \in Nat /\ m < l /\ m # 0
    <3>1. PICK t, k, m : q = <<t, k>> /\ At(segs, t, k, m) /\ Earlier(t, k, s, j)
      BY <1>6, <2>1
    <3>2. t \in DOMAIN segs /\ s \in DOMAIN segs /\ k \in Nat /\ m \in 1..MaxLSN /\ m \in Nat
      BY <1>2, <3>1, PlaceNumbers
    <3>3. m < l
      BY <1>2, <1>4, <3>1, <3>2 DEF Ascending
    <3>4. m # 0
      BY <3>1 DEF At
    <3> QED BY <3>1, <3>2, <3>3, <3>4
  <2> QED BY <2>1
<1>8. CASE l = 1
  <2>1. ASSUME NEW q \in Scanned(segs), Before(q, p)
        PROVE  FALSE
    <3>1. PICK m : m \in Nat /\ m < l /\ m # 0
      BY <1>7, <2>1
    <3> QED BY ONLY <3>1, <1>8
  <2> QED BY <1>5, <1>8, <2>1 DEF InSequence
<1>9. CASE l # 1
  <2>1. PICK m : m = l - 1
    OBVIOUS
  <2>2. PICK t \in Starts, k \in Nat : At(segs, t, k, m)
    BY <1>2, <1>4, <1>9, <2>1 DEF Unbroken, KeptIn
  <2>3. m < l /\ m \in 1..MaxLSN /\ m \in Nat /\ t \in Nat
    <3>1. m \in 1..MaxLSN /\ m \in Nat /\ t \in Nat
      BY <2>2, PlaceNumbers
    <3>2. m < l
      BY ONLY <1>4, <2>1
    <3> QED BY <3>1, <3>2
  <2>4. Earlier(t, k, s, j)
    BY <1>2, <2>2, <2>3, SmallerIsEarlier
  <2>5. PICK q : q = <<t, k>>
    OBVIOUS
  <2>6. q \in Scanned(segs)
    <3>1. ASSUME NEW u, NEW h, Bad(segs, u, h)
          PROVE  Earlier(t, k, u, h)
      <4>1. Earlier(s, j, u, h) /\ u \in DOMAIN segs /\ h \in Nat
        BY <1>3, <3>1, PlaceFields
      <4>2. u \in Nat
        BY <4>1, FileFields
      <4> QED BY <1>4, <2>3, <2>4, <4>1, <4>2, EarlierTotal
    <3> QED BY <2>2, <2>3, <2>5, <3>1, ScannedIn
  <2>7. Before(q, p)
    BY <1>1, <2>4, <2>5 DEF Before, Earlier
  <2>8. FrameAt(segs, q).lsn = m
    BY <2>2, <2>5 DEF FrameAt, At
  <2>9. l = m + 1
    BY ONLY <1>4, <2>1, <2>3
  <2>10. ASSUME NEW r \in Scanned(segs), Before(r, p)
         PROVE  r = q \/ Before(r, q)
    <3>1. PICK u, h, n : r = <<u, h>> /\ At(segs, u, h, n) /\ n \in Nat /\ n < l
      BY <1>7, <2>10
    <3>2. n = m \/ n < m
      BY ONLY <3>1, <2>9, <2>3
    <3>3. u \in Nat /\ h \in Nat
      BY <3>1, PlaceNumbers
    <3>4. CASE n < m
      <4>1. Earlier(u, h, t, k)
        BY <2>2, <3>1, <3>4, SmallerIsEarlier
      <4> QED BY <2>5, <3>1, <4>1 DEF Before, Earlier
    <3>5. CASE n = m
      <4>1. ASSUME NEW a, NEW b, NEW c, NEW d, At(segs, a, b, m), At(segs, c, d, m), Earlier(a, b, c, d)
            PROVE  FALSE
        <5>1. a \in DOMAIN segs /\ c \in DOMAIN segs /\ b \in Nat /\ d \in Nat
          BY <4>1, PlaceNumbers
        <5>2. m < m
          BY <2>3, <4>1, <5>1 DEF Ascending
        <5> QED BY ONLY <5>2, <2>3
      <4>2. (u = t /\ h = k) \/ Earlier(u, h, t, k) \/ Earlier(t, k, u, h)
        BY <2>3, <3>3, EarlierTotal
      <4> QED BY <2>2, <2>5, <3>1, <3>5, <4>1, <4>2
    <3> QED BY <3>2, <3>4, <3>5
  <2>11. FrameAt(segs, p).lsn = FrameAt(segs, q).lsn + 1
    BY <1>5, <2>8, <2>9
  <2> QED BY <2>6, <2>7, <2>10, <2>11 DEF InSequence
<1> QED BY <1>8, <1>9

\* The files of a running log get a frame.
LEMMA SequenceLonger ==
    ASSUME WalTypeOK, ShapeInv, Sequenced, Live, Live', NEW full \in BOOLEAN, NEW l \in Nat,
           Appended(full, walLast + 1, l),
           (l = 0 /\ walLast' = walLast) \/ (l = walLast + 1 /\ walLast' = walLast + 1),
           full => \A j, m : At(walSegs, walFile, j, m) => j <= Synced(walSegs, walFile)
    PROVE  LastInUse' /\ Ascending(walSegs') /\ Unbroken(walSegs') /\ Continued(walSegs') /\ OthersSynced' /\ LastKept'
<1>2. PICK segs, file, lsn, size, last : segs = walSegs' /\ file = walFile' /\ lsn = walLast + 1 /\ size = walSize' /\ last = walLast'
  OBVIOUS
<1>3. /\ file = IF full THEN lsn ELSE walFile
      /\ full => walSize > 0
      /\ size = (IF full THEN 0 ELSE walSize) + (IF l = 0 THEN 0 ELSE 1)
      /\ DOMAIN segs = DOMAIN walSegs \cup (IF full THEN {lsn} ELSE {})
      /\ \A s \in DOMAIN walSegs : Synced(segs, s) = Synced(walSegs, s)
      /\ \A s, j, m : At(segs, s, j, m) <=>
          \/ At(walSegs, s, j, m)
          \/ s = file /\ s \in DOMAIN segs /\ j = End(segs, s) /\ m = l /\ m # 0
      /\ Typed(segs)
  BY <1>2 DEF Appended
<1>5. Live /\ Whole /\ Live' /\ Whole'
  BY DEF Live, Whole
<1>6. walLast \in Nat /\ walFile \in Nat /\ lsn \in Nat /\ lsn > walLast /\ lsn # 0 /\ walSize \in Nat
  BY <1>2, Numbers
<1>7. /\ walFile \in DOMAIN walSegs /\ \A s \in DOMAIN walSegs : s <= walFile
      /\ Ascending(walSegs) /\ Unbroken(walSegs) /\ Continued(walSegs) /\ OthersSynced
      /\ walLast = 0 \/ KeptIn(walSegs, walLast)
      /\ walSize > 0 => \E j \in Nat : At(walSegs, walFile, j, walLast)
      /\ walFile <= lsn
  BY <1>2, <1>5 DEF Sequenced, LastInUse, LastKept
<1>8. \A s \in DOMAIN segs : s \in Nat /\ s \in Starts
  BY <1>3, FileFields
<1>9. walFile <= file /\ file \in DOMAIN segs /\ file \in Nat /\ file <= lsn /\ \A s \in DOMAIN segs : s <= file
  <2>1. CASE full
    BY <1>3, <1>6, <1>7, <2>1, FilesTyped, FileFields
  <2>2. CASE ~full
    BY <1>3, <1>6, <1>7, <2>2
  <2> QED BY <2>1, <2>2
<1>10. LastInUse'
  BY <1>2, <1>9 DEF LastInUse
<1>11. (l = 0 /\ last = walLast) \/ (l = lsn /\ last = lsn)
  BY <1>2
<1>12. ASSUME NEW s, NEW j, NEW m, At(segs, s, j, m)
       PROVE  /\ s \in DOMAIN segs /\ s \in Nat /\ s <= file /\ j \in Nat /\ j <= End(segs, s) /\ End(segs, s) \in Nat
              /\ m \in Nat /\ s \in Starts /\ m \in 1..MaxLSN
              /\ \/ At(walSegs, s, j, m) /\ m <= walLast
                 \/ s = file /\ j = End(segs, s) /\ m = lsn /\ l = lsn
  <2>1. /\ s \in DOMAIN segs /\ s \in Nat /\ j \in Nat /\ j <= End(segs, s) /\ End(segs, s) \in Nat
        /\ m \in Nat /\ s \in Starts /\ m \in 1..MaxLSN
    BY <1>3, <1>12, PlaceNumbers
  <2>2. At(walSegs, s, j, m) => m <= walLast
    BY <1>5, <2>1 DEF ShapeInv, FilesInv
  <2>3. s <= file
    BY <1>9, <2>1
  <2>4. At(walSegs, s, j, m) \/ (s = file /\ j = End(segs, s) /\ m = lsn /\ l = lsn)
    BY <1>3, <1>11, <1>12
  <2> QED BY <2>1, <2>2, <2>3, <2>4
<1>13. Ascending(segs)
  <2>1. ASSUME NEW s, NEW t, NEW j, NEW k, NEW m, NEW n,
               At(segs, s, j, m), At(segs, t, k, n), Earlier(s, j, t, k)
        PROVE  m < n
    <3>1. CASE At(walSegs, s, j, m) /\ At(walSegs, t, k, n)
      <4>1. /\ s \in DOMAIN walSegs /\ t \in DOMAIN walSegs /\ j \in Nat /\ k \in Nat
            /\ m \in 1..MaxLSN /\ n \in 1..MaxLSN
        BY <3>1, PlaceFields, FilesTyped
      <4> QED BY <1>7, <2>1, <3>1, <4>1 DEF Ascending
    <3>2. CASE At(walSegs, s, j, m) /\ m <= walLast /\ n = lsn
      <4>1. m \in Nat
        BY <1>12, <2>1
      <4> QED BY ONLY <4>1, <3>2, <1>6
    <3>3. CASE s = file /\ j = End(segs, s)
      <4>1. /\ t \in Nat /\ t <= file /\ k \in Nat /\ k <= End(segs, t) /\ End(segs, t) \in Nat
            /\ j \in Nat /\ s \in Nat
        BY <1>12, <2>1
      <4>2. t = file
        BY ONLY <4>1, <3>3, <2>1 DEF Earlier
      <4>3. ~(s < t) /\ ~(j < k)
        BY ONLY <4>1, <4>2, <3>3
      <4> QED BY <2>1, <4>3 DEF Earlier
    <3> QED BY <1>12, <2>1, <3>1, <3>2, <3>3
  <2> QED BY <2>1 DEF Ascending
<1>14. \A m : KeptIn(walSegs, m) => KeptIn(segs, m)
  BY <1>3 DEF KeptIn
<1>15. l = lsn => KeptIn(segs, lsn) /\ End(segs, file) \in Nat /\ At(segs, file, End(segs, file), lsn)
  <2>1. End(segs, file) \in Nat /\ file \in Starts
    BY <1>3, <1>8, <1>9, FileFields
  <2> QED BY <1>3, <1>6, <1>9, <2>1 DEF KeptIn
<1>16. Unbroken(segs)
  <2>1. ASSUME NEW m \in 1..MaxLSN, KeptIn(segs, m), m # 1
        PROVE  KeptIn(segs, m - 1)
    <3>1. CASE KeptIn(walSegs, m)
      BY <1>7, <1>14, <2>1, <3>1 DEF Unbroken
    <3>2. CASE m = lsn
      <4>1. m - 1 = walLast /\ walLast # 0
        BY <1>2, <1>6, <2>1, <3>2
      <4> QED BY <1>7, <1>14, <4>1
    <3> QED BY <1>12, <2>1, <3>1, <3>2 DEF KeptIn
  <2> QED BY <2>1 DEF Unbroken
<1>17. Continued(segs)
  <2>1. ASSUME NEW t \in DOMAIN segs, t # 1
        PROVE  \E s \in DOMAIN segs, j \in Nat : s < t /\ At(segs, s, j, t - 1)
    <3>1. CASE t \in DOMAIN walSegs
      BY <1>3, <1>7, <2>1, <3>1 DEF Continued
    <3>2. CASE t \notin DOMAIN walSegs
      <4>1. full /\ t = lsn /\ lsn # walFile
        BY <1>3, <1>7, <2>1, <3>2
      <4>2. walFile < t /\ t - 1 = walLast
        BY <1>2, <1>6, <1>7, <4>1
      <4>3. PICK j \in Nat : At(walSegs, walFile, j, walLast)
        BY <1>3, <1>7, <4>1
      <4> QED BY <1>3, <1>7, <4>2, <4>3
    <3> QED BY <3>1, <3>2
  <2> QED BY <2>1 DEF Continued
<1>18. OthersSynced'
  <2>1. ASSUME NEW s \in DOMAIN segs, NEW j \in Nat, NEW m \in 1..MaxLSN, At(segs, s, j, m), s # file
        PROVE  j <= Synced(segs, s)
    <3>1. At(walSegs, s, j, m) /\ s \in DOMAIN walSegs
      <4>1. At(walSegs, s, j, m)
        BY <1>3, <2>1
      <4> QED BY <4>1, PlaceFields, FilesTyped
    <3>2. j <= Synced(walSegs, s)
      <4>1. CASE s # walFile
        BY <1>7, <2>1, <3>1, <4>1 DEF OthersSynced
      <4>2. CASE s = walFile
        BY <1>3, <1>7, <2>1, <3>1, <4>2
      <4> QED BY <4>1, <4>2
    <3> QED BY <1>3, <3>1, <3>2
  <2> QED BY <1>2, <2>1 DEF OthersSynced
<1>19. LastKept'
  <2>1. last = 0 \/ KeptIn(segs, last)
    BY <1>7, <1>11, <1>14, <1>15
  <2>2. size > 0 => \E j \in Nat : At(segs, file, j, last)
    <3>1. CASE l = lsn /\ last = lsn
      BY <1>15, <3>1
    <3>2. CASE l = 0 /\ last = walLast
      <4>1. size > 0 => ~full /\ walSize > 0
        BY <1>3, <1>6, <3>2
      <4> QED BY <1>3, <1>7, <3>2, <4>1
    <3> QED BY <1>11, <3>1, <3>2
  <2>3. file <= last + 1
    BY ONLY <1>2, <1>6, <1>9, <1>11
  <2> QED BY <1>2, <2>1, <2>2, <2>3 DEF LastKept
<1> QED BY <1>2, <1>10, <1>13, <1>16, <1>17, <1>18, <1>19

\* Append.
LEMMA SequenceAppended ==
    ASSUME WalTypeOK, ShapeInv, Sequenced, NEW w \in WalWriters, WalAppend(w) \/ WalAppendFails(w),
           "closed unsynced" \notin walHarm'
    PROVE  Sequenced'
<1>1. PICK full \in BOOLEAN, l \in Nat :
         /\ Appended(full, walLast + 1, l)
         /\ (l = 0 /\ walLast' = walLast) \/ (l = walLast + 1 /\ walLast' = walLast + 1)
  BY EitherAppend
<1>2. walStatus = "open" /\ walStatus' = walStatus
  BY AppendWriters
<1>3. Live /\ Live' /\ Whole /\ Whole'
  BY <1>2 DEF Live, Whole
<1>4. full => \A j, m : At(walSegs, walFile, j, m) => j <= Synced(walSegs, walFile)
  BY <1>1, <1>3 DEF Appended, Sequenced, LastInUse
<1>5. LastInUse' /\ Ascending(walSegs') /\ Unbroken(walSegs') /\ Continued(walSegs') /\ OthersSynced' /\ LastKept'
  BY <1>1, <1>3, <1>4, SequenceLonger
<1>6. walHarm' \subseteq walHarm \cup {"closed unsynced", "failed append"}
  BY DEF WalAppend, WalAppendFails, ClosedUnsynced
<1>7. "misnamed" \notin walHarm'
  BY <1>6 DEF Sequenced
<1>8. walStatus' # "non-contiguous"
  BY <1>2
<1> QED BY <1>5, <1>7, <1>8 DEF Sequenced

\* Records that are where they were.
LEMMA SequenceKept ==
    ASSUME WalTypeOK, Sequenced,
           walStatus \in {"open", "recovering"}, walStatus' \in {"open", "recovering", "apply"},
           UNCHANGED <<walFile, walSize, walLast, walHarm>>,
           DOMAIN walSegs' = DOMAIN walSegs,
           \A s, j, l : At(walSegs', s, j, l) <=> At(walSegs, s, j, l),
           \A s \in DOMAIN walSegs : s # walFile => Synced(walSegs', s) = Synced(walSegs, s)
    PROVE  Sequenced'
<1>1. PICK segs : segs = walSegs'
  OBVIOUS
<1>2. Live /\ Whole
  BY DEF Live, Whole
<1>3. /\ LastInUse /\ Ascending(walSegs) /\ Unbroken(walSegs) /\ Continued(walSegs) /\ OthersSynced /\ LastKept
      /\ "misnamed" \notin walHarm
  BY <1>2 DEF Sequenced
<1>4. LastInUse'
  BY <1>2, <1>3 DEF LastInUse
<1>5. \A l : KeptIn(segs, l) <=> KeptIn(walSegs, l)
  BY <1>1 DEF KeptIn
<1>6. Ascending(segs) /\ Unbroken(segs) /\ Continued(segs)
  BY <1>1, <1>3, <1>5 DEF Ascending, Unbroken, Continued
<1>7. OthersSynced' /\ LastKept'
  BY <1>1, <1>3, <1>5 DEF OthersSynced, LastKept
<1> QED BY <1>1, <1>3, <1>4, <1>6, <1>7 DEF Sequenced

\* The other steps of a writer, and those of recovery.
LEMMA SequenceWritten ==
    ASSUME WalTypeOK, Sequenced, NEW w \in WalWriters,
           WalSync(w) \/ WalApply(w) \/ WalApplyRefused(w) \/ WalMarkApplied(w) \/ WalGiveUp(w)
    PROVE  Sequenced'
<1>1. walStatus = "open" /\ UNCHANGED <<walStatus, walFile, walSize, walLast, walHarm>>
  BY DEF WalSync, WalApply, WalApplyRefused, WalMarkApplied, WalGiveUp
<1>2. CASE WalSync(w)
  BY <1>1, <1>2, SyncFacts, SequenceKept
<1>3. CASE WalApply(w) \/ WalApplyRefused(w) \/ WalMarkApplied(w) \/ WalGiveUp(w)
  <2>1. UNCHANGED walSegs
    BY <1>3 DEF WalApply, WalApplyRefused, WalMarkApplied, WalGiveUp
  <2> QED BY <1>1, <2>1, SequenceKept
<1> QED BY <1>2, <1>3

\* Recovery.
LEMMA SequenceReplayed ==
    ASSUME WalTypeOK, Sequenced, WalReplay \/ WalReplayRefused \/ WalRecovered
    PROVE  Sequenced'
<1>1. /\ walStatus = "recovering" /\ walStatus' \in {"recovering", "open", "apply"}
      /\ UNCHANGED <<walSegs, walFile, walSize, walLast, walHarm>>
  BY DEF WalReplay, WalReplayRefused, WalRecovered
<1> QED BY <1>1, SequenceKept

\* A crash.
LEMMA SequenceCrashed ==
    ASSUME WalTypeOK, ShapeInv, Sequenced, WalCrash
    PROVE  Sequenced'
<1>1. PICK segs : segs = walSegs'
  OBVIOUS
<1>2. /\ DOMAIN segs = DOMAIN walSegs /\ Typed(segs)
      /\ \A s \in DOMAIN walSegs :
            /\ Synced(segs, s) = End(segs, s)
            /\ \E k \in Nat : k \in Synced(walSegs, s)..End(walSegs, s) /\ Cut(segs, walSegs, s, k)
  BY <1>1, CrashFacts
<1>3. walStatus \in {"open", "recovering"} /\ walStatus' = "down" /\ UNCHANGED <<walFile, walHarm>>
  BY DEF WalCrash
<1>4. Live /\ Whole /\ ~Live' /\ Whole'
  BY <1>3 DEF Live, Whole
<1>5. /\ walFile \in DOMAIN walSegs /\ \A s \in DOMAIN walSegs : s <= walFile
      /\ Ascending(walSegs) /\ Unbroken(walSegs) /\ Continued(walSegs) /\ OthersSynced
      /\ "misnamed" \notin walHarm
  BY <1>4 DEF Sequenced, LastInUse
<1>6. \A s, j, l : At(segs, s, j, l) => At(walSegs, s, j, l)
  <2>1. \A s, j, l : At(segs, s, j, l) => s \in DOMAIN walSegs
    BY <1>2 DEF At
  <2> QED BY <1>2, <2>1 DEF Cut
<1>7. ASSUME NEW s, NEW j, NEW l, At(walSegs, s, j, l), s # walFile
      PROVE  At(segs, s, j, l)
  <2>1. s \in DOMAIN walSegs /\ j \in Nat /\ l \in 1..MaxLSN
    BY <1>7, PlaceFields, FilesTyped
  <2>2. j <= Synced(walSegs, s)
    BY <1>5, <1>7, <2>1 DEF OthersSynced
  <2>3. PICK k \in Nat : k \in Synced(walSegs, s)..End(walSegs, s) /\ Cut(segs, walSegs, s, k)
    BY <1>2, <2>1
  <2>4. Synced(walSegs, s) \in Nat /\ End(walSegs, s) \in Nat
    BY <2>1, FileFields, FilesTyped
  <2>5. j <= k
    BY ONLY <2>1, <2>2, <2>3, <2>4
  <2> QED BY <1>7, <2>3, <2>5 DEF Cut
<1>8. ASSUME NEW j, NEW l, NEW k, NEW m, At(segs, walFile, j, l), At(walSegs, walFile, k, m), k < j
      PROVE  At(segs, walFile, k, m)
  <2>1. PICK n \in Nat : Cut(segs, walSegs, walFile, n)
    BY <1>2, <1>5
  <2>2. j <= n
    BY <1>8, <2>1 DEF Cut
  <2>3. j \in Nat /\ k \in Nat
    BY <1>2, <1>8, PlaceNumbers, FilesTyped
  <2>4. k <= n
    BY ONLY <1>8, <2>2, <2>3, n \in Nat
  <2> QED BY <1>8, <2>1, <2>4 DEF Cut
<1>9. Ascending(segs) /\ Unbroken(segs) /\ Continued(segs)
  BY <1>2, <1>5, <1>6, <1>7, <1>8, SequenceCut, FilesTyped
<1>10. OthersSynced'
  <2>1. \A s, j, l : At(segs, s, j, l) => j <= Synced(segs, s)
    BY <1>2, PlaceNumbers
  <2> QED BY <1>1, <2>1 DEF OthersSynced
<1>11. LastInUse'
  BY <1>1, <1>2, <1>3, <1>5 DEF LastInUse
<1> QED BY <1>1, <1>3, <1>4, <1>5, <1>9, <1>10, <1>11 DEF Sequenced

\* Open, when it succeeds.
LEMMA SequenceOpened ==
    ASSUME WalTypeOK, ShapeInv, Sequenced, WalOpen, walStatus' = "recovering"
    PROVE  Sequenced'
<1>1. PICK segs, file, last, size : segs = walSegs' /\ file = walFile' /\ last = walLast' /\ size = walSize'
  OBVIOUS
<1>2. /\ walStatus = "down" /\ DOMAIN segs = DOMAIN walSegs /\ Typed(segs)
      /\ file \in DOMAIN walSegs /\ \A s \in DOMAIN walSegs : s <= file
      /\ size = End(segs, file)
      /\ \A s, j : ~Bad(segs, s, j)
      /\ last \in 0..MaxLSN /\ \A s, j, l : At(segs, s, j, l) => l <= last
      /\ last = 0 \/ \E s \in Starts, j \in Nat : At(segs, s, j, last)
      /\ "misnamed" \in walHarm' => "misnamed" \in walHarm \/ last + 1 < file
  BY <1>1, OpenFacts
<1>3. PICK n \in Nat : \A j, l : At(segs, file, j, l) <=> At(walSegs, file, j, l) /\ j <= n
  BY <1>1, OpenFacts
<1>4. /\ \A s, j, l : At(segs, s, j, l) => At(walSegs, s, j, l)
      /\ \A s \in DOMAIN walSegs : s # file => \A j, l : At(segs, s, j, l) <=> At(walSegs, s, j, l)
      /\ \A s \in DOMAIN segs : Synced(segs, s) = End(segs, s)
  BY <1>1, OpenOthers
<1>5. Whole
  BY <1>2 DEF Whole
<1>6. /\ Ascending(walSegs) /\ Unbroken(walSegs) /\ Continued(walSegs)
      /\ "misnamed" \notin walHarm
  BY <1>5 DEF Sequenced
<1>7. \A s, j, l : At(walSegs, s, j, l) /\ s # file => At(segs, s, j, l)
  <2>1. \A s, j, l : At(walSegs, s, j, l) => s \in DOMAIN walSegs
    BY DEF At
  <2> QED BY <1>4, <2>1
<1>8. ASSUME NEW j, NEW l, NEW k, NEW m, At(segs, file, j, l), At(walSegs, file, k, m), k < j
      PROVE  At(segs, file, k, m)
  <2>1. j <= n
    BY <1>3, <1>8
  <2>2. j \in Nat /\ k \in Nat
    BY <1>2, <1>8, PlaceNumbers, FilesTyped
  <2>3. k <= n
    BY ONLY <1>8, <2>1, <2>2, n \in Nat
  <2> QED BY <1>3, <1>8, <2>3
<1>9. Ascending(segs) /\ Unbroken(segs) /\ Continued(segs)
  BY <1>2, <1>4, <1>6, <1>7, <1>8, SequenceCut, FilesTyped
<1>10. last \in Nat /\ file \in Nat /\ file \in Starts
  BY <1>2, WalAssumption, FileFields
<1>11. file <= last + 1
  <2>1. CASE file = 1
    BY ONLY <1>10, <2>1
  <2>2. CASE file # 1
    <3>1. PICK s, j : At(segs, s, j, file - 1)
      BY <1>2, <1>9, <2>2 DEF Continued
    <3>2. file - 1 <= last
      BY <1>2, <3>1
    <3> QED BY ONLY <1>10, <3>2
  <2> QED BY <2>1, <2>2
<1>12. size > 0 => \E j \in Nat : At(segs, file, j, last)
  <2>1. SUFFICES ASSUME size > 0
                 PROVE  At(segs, file, size, last) /\ size \in Nat
    OBVIOUS
  <2>2. size \in Nat /\ size \in 1..End(segs, file)
    BY <1>2, <2>1, FileFields
  <2>3. PICK m \in 1..MaxLSN : At(segs, file, size, m)
    BY <1>2, <2>2, PlaceFields
  <2>4. m <= last /\ m \in Nat /\ m # 0
    BY <1>2, <2>3, WalAssumption DEF At
  <2>5. last # 0
    BY ONLY <2>4
  <2>6. PICK s, j : At(segs, s, j, last)
    BY <1>2, <2>5
  <2>7. CASE m = last
    BY <2>2, <2>3, <2>7
  <2>8. CASE m # last
    <3>1. m < last
      BY ONLY <2>4, <2>8, <1>10
    <3>2. Earlier(file, size, s, j)
      BY <1>2, <1>9, <2>3, <2>6, <3>1, SmallerIsEarlier
    <3>3. s \in Nat /\ s <= file /\ j \in Nat /\ j <= End(segs, s)
      BY <1>2, <2>6, PlaceNumbers
    <3>4. s = file /\ size < j
      BY ONLY <3>2, <3>3, <1>10, <2>2 DEF Earlier
    <3>5. j <= size
      BY <1>2, <3>3, <3>4
    <3>6. FALSE
      BY ONLY <2>2, <3>3, <3>4, <3>5
    <3> QED BY <3>6
  <2> QED BY <2>7, <2>8
<1>13. LastInUse' /\ LastKept'
  <2>1. last = 0 \/ KeptIn(segs, last)
    BY <1>2 DEF KeptIn
  <2> QED BY <1>1, <1>2, <1>11, <1>12, <2>1 DEF LastInUse, LastKept
<1>14. OthersSynced'
  <2>1. \A s, j, l : At(segs, s, j, l) => s \in DOMAIN segs /\ j <= End(segs, s)
    BY <1>2, PlaceNumbers
  <2>2. \A s, j, l : At(segs, s, j, l) => j <= Synced(segs, s)
    BY <1>4, <2>1
  <2> QED BY <1>1, <2>2 DEF OthersSynced
<1>15. ~(last + 1 < file)
  BY ONLY <1>10, <1>11
<1> QED BY <1>1, <1>2, <1>6, <1>9, <1>13, <1>14, <1>15 DEF Sequenced

\* Open, when it fails.
LEMMA SequenceNotOpened ==
    ASSUME WalTypeOK, Sequenced, WalOpen, walStatus' # "recovering"
    PROVE  Sequenced'
<1>1. /\ walStatus' \in ScanErrors(walSegs) /\ walStatus = "down"
      /\ walStatus' \in {"non-contiguous", "corrupt", "torn"}
      /\ UNCHANGED <<walSegs, walFile, walSize, walLast, walHarm>>
  BY OpenFailsFacts
<1>2. Whole /\ ~Live' /\ ~Whole'
  BY <1>1 DEF Live, Whole
<1>3. \A p \in Scanned(walSegs) : InSequence(walSegs, p)
  BY <1>2, AllInSequence, FilesTyped DEF Sequenced
<1>4. walStatus' # "non-contiguous"
  BY <1>1, <1>3 DEF ScanErrors
<1> QED BY <1>1, <1>2, <1>4 DEF Sequenced, LastInUse

\* The sequence, in every step.
LEMMA SequenceStep ==
    ASSUME WalTypeOK, ShapeInv, SequenceInv, WalNext
    PROVE  SequenceInv'
<1> SUFFICES ASSUME walHarm' \cap {"closed unsynced", "retention"} = {}
             PROVE  Sequenced'
  BY DEF SequenceInv
<1>1. Sequenced /\ "closed unsynced" \notin walHarm'
  BY HarmGrows DEF SequenceInv
<1>2. ~WalCheckpoint
  BY DEF WalCheckpoint
<1> QED BY <1>1, <1>2, SequenceAppended, SequenceWritten, SequenceCrashed, SequenceOpened,
           SequenceNotOpened, SequenceReplayed DEF WalNext

\* All of it.
WalInv == WalTypeOK /\ ShapeInv /\ AckInv /\ OrderInv /\ ForgetInv /\ GarbageInv /\ SequenceInv

\* A new log.
LEMMA WalInitially ==
    ASSUME WalInit
    PROVE  WalInv
<1>1. /\ walSegs = [s \in {1} |-> EmptySegment] /\ walFile = 1 /\ walSize = 0 /\ walLast = 0
      /\ walStatus = "open" /\ walProgress = 0
      /\ walPc = [w \in WalWriters |-> "idle"] /\ walAt = [w \in WalWriters |-> 0]
      /\ walApplied = {} /\ walRefused = {} /\ walGivenUp = {} /\ walDurable = {} /\ walAcked = {} /\ walHarm = {}
      /\ walCrashes = 0
  BY DEF WalInit
<1>2. MaxLSN \in Nat /\ MaxWalCrashes \in Nat
  BY WalAssumption
<1>3. EmptySegment \in SegmentFiles /\ EmptySegment.frames = <<>> /\ EmptySegment.synced = 0
  BY DEF EmptySegment, SegmentFiles
<1>4. 1 \in Starts
  BY <1>2 DEF Starts
<1>5. Typed(walSegs) /\ DOMAIN walSegs = {1} /\ End(walSegs, 1) = 0 /\ Synced(walSegs, 1) = 0
  BY <1>1, <1>3, <1>4 DEF Typed, End, Synced
<1>6. 0 \in 0..MaxLSN /\ 0 \in 0..MaxWalCrashes
  BY <1>2
<1>7. FileTypes
  BY <1>1, <1>4, <1>5, <1>6 DEF FileTypes
<1>8. OtherTypes
  BY <1>1, <1>6 DEF OtherTypes
<1>9. WalTypeOK
  BY <1>7, <1>8, TypeParts
<1>10. \A s, j, l : ~At(walSegs, s, j, l) /\ ~Bad(walSegs, s, j)
  <2>1. \A s, j : s \in DOMAIN walSegs /\ j \in 1..End(walSegs, s) => FALSE
    BY <1>5
  <2> QED BY <2>1, <1>5, PlaceFields
<1>11. \A w \in WalWriters : walPc[w] = "idle"
  BY <1>1
<1>12. ShapeInv
  BY <1>1, <1>5, <1>10, <1>11 DEF ShapeInv, FilesInv, MemoryInv, Busy
<1>13. AckInv
  BY <1>1, <1>5, <1>11 DEF AckInv
<1>14. LastInUse
  BY <1>1, <1>5 DEF LastInUse
<1>15. OrderInv
  <2>1. BelowLast
    BY <1>1 DEF BelowLast
  <2>2. BelowNames /\ DurableSafe
    BY <1>1, <1>10 DEF BelowNames, DurableSafe
  <2>3. ProgressSafe
    BY <1>1 DEF ProgressSafe
  <2>4. \A w \in WalWriters : WriterSafe(w)
    BY <1>11 DEF WriterSafe, Busy
  <2> QED BY <1>14, <2>1, <2>2, <2>3, <2>4 DEF OrderInv
<1>16. ForgetInv
  BY <1>1, <1>10, <1>11 DEF ForgetInv, ToAccount, Kept
<1>17. GarbageInv
  BY <1>1, <1>5, <1>10 DEF GarbageInv, GarbageLast, GarbageInUse
<1>18. Sequenced
  <2>1. Ascending(walSegs) /\ Unbroken(walSegs) /\ Continued(walSegs) /\ OthersSynced
    BY <1>5, <1>10 DEF Ascending, Unbroken, KeptIn, Continued, OthersSynced
  <2>2. LastKept
    BY <1>1 DEF LastKept
  <2> QED BY <1>1, <1>14, <2>1, <2>2 DEF Sequenced
<1> QED BY <1>9, <1>12, <1>13, <1>15, <1>16, <1>17, <1>18 DEF WalInv, SequenceInv

\* A step.
LEMMA WalStep ==
    ASSUME WalInv, WalNext
    PROVE  WalInv'
<1>1. WalTypeOK /\ ShapeInv /\ AckInv /\ OrderInv /\ ForgetInv /\ GarbageInv /\ SequenceInv
  BY DEF WalInv
<1>2. WalTypeOK'
  BY <1>1, AppendTypes, WriterTypes, SystemTypes, RecoveryTypes DEF WalNext
<1>3. ShapeInv'
  BY <1>1, ShapeStep
<1>4. AckInv'
  BY <1>1, AckStep
<1>5. OrderInv'
  BY <1>1, OrderStep
<1>6. ForgetInv'
  BY <1>1, ForgetStep
<1>7. GarbageInv'
  BY <1>1, GarbageStep
<1>8. SequenceInv'
  BY <1>1, SequenceStep
<1> QED BY <1>2, <1>3, <1>4, <1>5, <1>6, <1>7, <1>8 DEF WalInv

\* Stuttering.
LEMMA WalStutter ==
    ASSUME WalInv, UNCHANGED walVars
    PROVE  WalInv'
<1> USE DEF walVars
<1>1. WalTypeOK'
  BY DEF WalInv, WalTypeOK
<1>2. ShapeInv'
  BY DEF WalInv, ShapeInv, FilesInv, MemoryInv, Busy, Live
<1>3. AckInv'
  BY DEF WalInv, AckInv, Live
<1>4. \A l : Safe(l)' <=> Safe(l)
  BY DEF Safe
<1>5. OrderInv'
  BY <1>4 DEF WalInv, OrderInv, WalWhole, LastInUse, BelowLast, BelowNames, DurableSafe, ProgressSafe, WriterSafe, Busy, Live, Whole, Safe
<1>6. ForgetInv'
  BY DEF WalInv, ForgetInv, WalWhole, ToAccount, Kept, Busy, Decided, InFlight
<1>7. GarbageInv'
  BY DEF WalInv, GarbageInv, GarbageLast, GarbageInUse, Live, Whole
<1>8. SequenceInv'
  BY DEF WalInv, SequenceInv, Sequenced, LastInUse, OthersSynced, LastKept, Live, Whole
<1> QED BY <1>1, <1>2, <1>3, <1>5, <1>6, <1>7, <1>8 DEF WalInv

\* The inductive invariant holds (every action of WriteAheadLog, requests that fail
\* or are cancelled between Append, Sync, the application and the mark among them).
THEOREM WalInvariant == WalSpec => []WalInv
<1>1. WalInit => WalInv
  BY WalInitially
<1>2. WalInv /\ [WalNext]_walVars => WalInv'
  BY WalStep, WalStutter
<1> QED BY <1>1, <1>2, PTL DEF WalSpec

\* Every variable of the log stays in its set.
THEOREM WalTypeCorrect == WalSpec => []WalTypeOK
<1>1. WalInv => WalTypeOK
  BY DEF WalInv
<1> QED BY <1>1, WalInvariant, PTL

\* What was reported as committed is on disk, unless a rotation between some append
\* and its sync, or retention of the file in use, took it from under the sync
\* (Manager.Append, Sync, rotateLocked, RetainFrom).
THEOREM AckedDurable == WalSpec => []WalAckedDurable
<1>1. WalInv => WalAckedDurable
  BY DEF WalInv, AckInv, WalAckedDurable
<1> QED BY <1>1, WalInvariant, PTL

\* A record on disk above the applied LSN is still in the log: no retention, crash
\* or reopen removes it while the log is whole (RetainFrom, scanAndOpen).
THEOREM NeededRetained == WalSpec => []WalNeededRetained
<1>1. WalInv => WalNeededRetained
  BY OrderRetains DEF WalInv
<1> QED BY <1>1, WalInvariant, PTL

\* Of the records on disk above the applied LSN a running log has decided all but
\* those of requests in flight and of requests that have failed since it was
\* opened: recovery replays whatever earlier incarnations left (Recovery.Recover,
\* SetAppliedLSN).
THEOREM NothingForgotten == WalSpec => []WalNothingForgotten
<1>1. WalInv => WalNothingForgotten
  BY ForgetsNone DEF WalInv
<1> QED BY <1>1, WalInvariant, PTL

\* Open fails only over what a failed append, a file closed without a sync, a
\* misnamed file or retention has left (scanAndOpen).
THEOREM Reopens == WalSpec => []WalReopens
<1>1. WalInv => WalReopens
  <2>1. ASSUME WalInv, walStatus = "corrupt"
        PROVE  "failed append" \in walHarm
    BY <2>1 DEF WalInv, GarbageInv, GarbageLast, GarbageInUse
  <2>2. ASSUME WalInv, walStatus = "torn"
        PROVE  walHarm \cap {"failed append", "closed unsynced", "misnamed"} # {}
    BY <2>2 DEF WalInv, GarbageInv, GarbageLast, GarbageInUse
  <2>3. ASSUME WalInv, walStatus = "non-contiguous"
        PROVE  walHarm \cap {"retention", "closed unsynced"} # {}
    BY <2>3 DEF WalInv, SequenceInv, Sequenced
  <2> QED BY <2>1, <2>2, <2>3 DEF WalReopens
<1> QED BY <1>1, WalInvariant, PTL

-----------------------------------------------------------------------------
(* The ready loop of a consensus group.                                    *)

\* The Ready being processed is part of the log; an application that reads is
\* at an entry of it, and only Stop cuts its read off.
LoopInv ==
    rgLoop = "inner" => /\ rgApplied < rgUpTo
                        /\ rgLog[rgApplied + 1] \in ReadingCommands
                        /\ rgRead[SelfRead] = "error" => rgStopping

\* A call that has not begun, or whose channel is full, has no waiter.
ChanInv ==
    \A c \in Calls :
        /\ rgCall[c] = "idle" => rgChan[c] = "empty"
        /\ rgChan[c] # "empty" => \A k \in Commands : rgWaiters[k] # c

\* An outcome is true of the log and the state machine, in a channel or returned.
TrueOutcome(c, out) ==
    /\ out = "ok" => \E i \in rgState : rgLog[i] = CallCommand[c]
    /\ out = "refused" => /\ \E i \in 1..Len(rgLog) : rgLog[i] = CallCommand[c]
                          /\ CallCommand[c] \in RefusedCommands
OutcomeInv == \A c \in Calls : TrueOutcome(c, rgChan[c]) /\ TrueOutcome(c, rgCall[c])

\* The index that raft confirmed for a read is not below what was committed
\* when the read began.
ReadInv ==
    \A r \in AllReads :
        /\ rgReadFloor[r] <= Len(rgLog)
        /\ rgRead[r] \in {"confirmed", "ready", "answered"} => rgReadFloor[r] <= rgReadIndex[r]

\* S holds the effects of the first n entries, but for commands whose read Stop
\* has cut off.
Holds(S, n) ==
    /\ S \subseteq Effects(n)
    /\ \A i \in Effects(n) \ S : rgStopping /\ rgLog[i] \in ReadingCommands

\* The state machine is at the applied index, the snapshot at its own; while a
\* snapshot is taken the loop does not run.
StateInv ==
    /\ Holds(rgState, rgApplied)
    /\ rgSnap.at <= Len(rgLog)
    /\ Holds(rgSnap.holds, rgSnap.at)
    /\ rgLock = "snapshot" => rgLoop \in {"select", "stopped"} /\ rgSnap.next = rgApplied

RgInv ==
    /\ RgTypeOK /\ LoopInv /\ WaitersLive /\ ChanInv /\ OutcomeInv
    /\ ReadInv /\ ReadFresh /\ StateInv

-----------------------------------------------------------------------------
(* Facts about the steps that the proofs below share.                      *)

\* The committed log only grows (raft never takes back a committed entry).
LogGrows ==
    /\ Len(rgLog) <= Len(rgLog')
    /\ \A i \in 1..Len(rgLog) : rgLog'[i] = rgLog[i]

\* processReady and Propose leave the log alone; the library appends to it.
LEMMA LogStep ==
  ASSUME RgTypeOK, [RgNext]_rgVars
  PROVE  LogGrows
<1>1. CASE RaftCommit
  BY <1>1 DEF RaftCommit, RgTypeOK, RgRaftType, LogGrows
<1>2. CASE UNCHANGED rgLog
  BY <1>2 DEF RgTypeOK, RgRaftType, LogGrows
<1>3. QED
  BY <1>1, <1>2 DEF RgNext, rgVars, rgRaftVars, RaftElection, ProposeRegister, ProposeAccepted,
     ProposeDropped, ProposeReturn, ProposeTimeout, ReadBegin, RaftConfirmRead, ReadReturn, ReadTimeout,
     ReadyBegin, ReadySnapshot, ReadyApply, ReadyInnerRead, ReadyInnerReturn, Finish, ReadyEnd, RgStop,
     LoopExit, LockRequest, LockTake, FreezeCancel, SnapshotWrite, FreezeRelease

-----------------------------------------------------------------------------
(* Type correctness.                                                       *)

\* completeWaiter and failWaiters keep channels and waiters well-typed.
LEMMA WaiterTypes ==
  ASSUME RgCallType, NEW k \in Commands, NEW out \in {"ok", "refused", "error"}
  PROVE  /\ Delivered(rgChan, k, out) \in [Calls -> {"empty", "ok", "refused", "error"}]
         /\ Answered(k, out) \in [Calls -> {"empty", "ok", "refused", "error"}]
         /\ Forgotten(k) \in [Commands -> Calls \cup {NoCall}]
  BY DEF RgCallType, Delivered, Answered, Forgotten

\* failReadWaiters keeps the reads well-typed.
LEMMA ReadsFailedType ==
  ASSUME RgReadType
  PROVE  ReadsFailed \in [AllReads -> {"idle", "asked", "confirmed", "ready", "answered", "ok", "error"}]
  BY DEF RgReadType, ReadsFailed

\* applyEntry after ApplyCommand.
LEMMA FinishType ==
  ASSUME RgTypeOK, NEW failed \in BOOLEAN, rgApplied < rgUpTo,
         NEW reads \in [AllReads -> {"idle", "asked", "confirmed", "ready", "answered", "ok", "error"}],
         Finish(rgLog[rgApplied + 1], failed, reads)
  PROVE  RgTypeOK'
<1> DEFINE k == rgLog[rgApplied + 1]
           out == Outcome(k, failed)
<1>1. rgApplied + 1 \in 1..Len(rgLog) /\ k \in Commands
  BY DEF RgTypeOK, RgRaftType, RgLoopType
<1>2. out \in {"ok", "refused", "error"}
  BY DEF Outcome
<1>3. UNCHANGED <<rgKnown, rgStopping, rgUpTo, rgCall, rgLost, rgReadIndex, rgReadFloor, rgRaftVars, rgLockVars>>
  BY DEF Finish
<1>4. RgCallType'
  <2>1. /\ rgChan' = Answered(k, out)
        /\ rgWaiters' \in {[q \in Commands |-> NoCall], Forgotten(k)}
    BY DEF Finish
  <2>2. QED
    BY <1>1, <1>2, <1>3, <2>1, WaiterTypes DEF RgTypeOK, RgCallType
<1>5. RgReadType'
  <2>1. rgRead' \in {reads, ReadsFailed}
    BY DEF Finish
  <2>2. QED
    BY <1>3, <2>1, ReadsFailedType DEF RgTypeOK, RgReadType
<1>6. RgLoopType'
  <2>1. /\ rgLoop' \in {"stopped", "apply"}
        /\ rgApplied' \in {rgApplied, rgApplied + 1}
        /\ rgState' \in {rgState, rgState \cup {rgApplied + 1}}
    BY DEF Finish
  <2>2. QED
    BY <1>1, <1>3, <2>1 DEF RgTypeOK, RgLoopType, rgRaftVars
<1>7. QED
  BY <1>3, <1>4, <1>5, <1>6 DEF RgTypeOK, RgRaftType, RgLockType, rgRaftVars, rgLockVars

\* A step keeps the types of the variables it leaves alone.
LEMMA TypeFrame ==
  ASSUME RgTypeOK
  PROVE  /\ UNCHANGED rgRaftVars => RgRaftType'
         /\ UNCHANGED rgLoopVars /\ UNCHANGED rgLog => RgLoopType'
         /\ UNCHANGED rgCallVars => RgCallType'
         /\ UNCHANGED rgReadVars => RgReadType'
         /\ UNCHANGED rgLockVars => RgLockType'
<1>1. UNCHANGED rgRaftVars => RgRaftType'
  BY DEF RgTypeOK, RgRaftType, rgRaftVars
<1>2. UNCHANGED rgLoopVars /\ UNCHANGED rgLog => RgLoopType'
  BY DEF RgTypeOK, RgLoopType, rgLoopVars
<1>3. UNCHANGED rgCallVars => RgCallType'
  BY DEF RgTypeOK, RgCallType, rgCallVars
<1>4. UNCHANGED rgReadVars => RgReadType'
  BY DEF RgTypeOK, RgReadType, rgReadVars
<1>5. UNCHANGED rgLockVars => RgLockType'
  BY DEF RgTypeOK, RgLockType, rgLockVars
<1>6. QED
  BY <1>1, <1>2, <1>3, <1>4, <1>5

SnapType == [at : 0..MaxCommitted, holds : SUBSET (1..MaxCommitted), next : 0..MaxCommitted]

\* Every step keeps the types.
LEMMA TypeStep ==
  ASSUME RgTypeOK, LoopInv, [RgNext]_rgVars
  PROVE  RgTypeOK'
<1>1. CASE RaftCommit
  <2>1. RgRaftType'
    BY <1>1, RaftGroupAssumption DEF RaftCommit, RgTypeOK, RgRaftType
  <2>2. RgLoopType'
    BY <1>1 DEF RaftCommit, RgTypeOK, RgRaftType, RgLoopType, rgLoopVars
  <2>3. QED
    BY <1>1, <2>1, <2>2, TypeFrame DEF RaftCommit, RgTypeOK
<1>2. CASE RaftElection
  <2>1. RgRaftType' /\ RgCallType'
    BY <1>2, RaftGroupAssumption DEF RaftElection, RgTypeOK, RgRaftType, RgCallType
  <2>2. QED
    BY <1>2, <2>1, TypeFrame DEF RaftElection, RgTypeOK
<1>3. ASSUME NEW c \in Calls, ProposeRegister(c) PROVE RgTypeOK'
  <2>1. RgCallType'
    BY <1>3, RaftGroupAssumption DEF ProposeRegister, RgTypeOK, RgCallType
  <2>2. QED
    BY <1>3, <2>1, TypeFrame DEF ProposeRegister, RgTypeOK, rgRaftVars
<1>4. ASSUME NEW c \in Calls, ProposeAccepted(c) PROVE RgTypeOK'
  <2>1. RgCallType' /\ RgRaftType'
    BY <1>4 DEF ProposeAccepted, RgTypeOK, RgCallType, RgRaftType
  <2>2. QED
    BY <1>4, <2>1, TypeFrame DEF ProposeAccepted, RgTypeOK
<1>5. ASSUME NEW c \in Calls, ProposeReturn(c) PROVE RgTypeOK'
  <2>1. RgCallType'
    BY <1>5 DEF ProposeReturn, RgTypeOK, RgCallType
  <2>2. QED
    BY <1>5, <2>1, TypeFrame DEF ProposeReturn, RgTypeOK, rgRaftVars
<1>6. ASSUME NEW c \in Calls, ProposeDropped(c) \/ ProposeTimeout(c) PROVE RgTypeOK'
  <2>1. CallCommand[c] \in Commands
    BY RaftGroupAssumption
  <2>2. /\ Delivered(rgChan, CallCommand[c], "error") \in [Calls -> {"empty", "ok", "refused", "error"}]
        /\ Forgotten(CallCommand[c]) \in [Commands -> Calls \cup {NoCall}]
    BY <2>1, WaiterTypes DEF RgTypeOK
  <2>3. RgCallType'
    BY <1>6, <2>2 DEF ProposeDropped, ProposeTimeout, RgTypeOK, RgCallType
  <2>4. QED
    BY <1>6, <2>3, TypeFrame DEF ProposeDropped, ProposeTimeout, RgTypeOK, rgRaftVars
<1>7. ASSUME NEW r \in AllReads, ReadBegin(r) \/ RaftConfirmRead(r) \/ ReadReturn(r) \/ ReadTimeout(r)
      PROVE RgTypeOK'
  <2>1. Len(rgLog) \in 0..MaxCommitted
    BY RaftGroupAssumption DEF RgTypeOK, RgRaftType
  <2>2. RgReadType'
    BY ZenonT(60), <1>7, <2>1 DEF ReadBegin, RaftConfirmRead, ReadReturn, ReadTimeout, RgTypeOK, RgReadType
  <2>3. QED
    BY <1>7, <2>2, TypeFrame DEF ReadBegin, RaftConfirmRead, ReadReturn, ReadTimeout, RgTypeOK, rgRaftVars
<1>8. CASE ReadyBegin
  <2>1. RgReadType'
    BY <1>8, ReadsFailedType DEF ReadyBegin, RgTypeOK, RgReadType
  <2>2. RgLoopType'
    BY <1>8 DEF ReadyBegin, Batches, RgTypeOK, RgLoopType, RgRaftType, rgRaftVars
  <2>3. RgLockType'
    BY <1>8 DEF ReadyBegin, RgTypeOK, RgLockType
  <2>4. QED
    BY <1>8, <2>1, <2>2, <2>3, TypeFrame DEF ReadyBegin, RgTypeOK
<1>9. CASE ReadySnapshot
  <2>1. Effects(Len(rgLog)) \subseteq 1..Len(rgLog) /\ Len(rgLog) \in 0..MaxCommitted /\ Len(rgLog) \in Nat
    BY RaftGroupAssumption DEF Effects, RgTypeOK, RgRaftType
  <2>2. Awaited((rgApplied + 1)..Len(rgLog)) \subseteq Calls
    BY DEF Awaited
  <2>3. RgLoopType'
    <3>1. rgLog' = rgLog /\ rgApplied' = Len(rgLog) /\ rgUpTo' = Len(rgLog) /\ rgState' = Effects(Len(rgLog))
      BY <1>9 DEF ReadySnapshot, rgRaftVars
    <3>2. rgApplied' \in 0..Len(rgLog') /\ rgUpTo' \in 0..Len(rgLog') /\ rgState' \subseteq 1..Len(rgLog')
      BY <2>1, <3>1
    <3>3. QED
      BY <1>9, <3>2 DEF ReadySnapshot, RgTypeOK, RgLoopType
  <2>4. RgCallType'
    BY <1>9, <2>2 DEF ReadySnapshot, RgTypeOK, RgCallType
  <2>5. RgReadType'
    BY <1>9, ReadsFailedType DEF ReadySnapshot, RgTypeOK, RgReadType
  <2>6. [at |-> Len(rgLog), holds |-> Effects(Len(rgLog)), next |-> 0] \in SnapType
    BY <2>1, RaftGroupAssumption DEF SnapType
  <2>7. RgLockType'
    BY <1>9, <2>6 DEF ReadySnapshot, RgTypeOK, RgLockType, SnapType
  <2>8. QED
    BY <1>9, <2>3, <2>4, <2>5, <2>7, TypeFrame DEF ReadySnapshot, RgTypeOK
<1>10. CASE ReadyApply
  <2>1. rgRead \in [AllReads -> {"idle", "asked", "confirmed", "ready", "answered", "ok", "error"}]
    BY DEF RgTypeOK, RgReadType
  <2>2. QED
    BY <1>10, <2>1, FinishType DEF ReadyApply
<1>11. CASE ReadyInnerRead
  <2>1. RgReadType'
    BY <1>11, RaftGroupAssumption DEF ReadyInnerRead, RgTypeOK, RgReadType, RgRaftType, AllReads
  <2>2. RgLoopType'
    BY <1>11 DEF ReadyInnerRead, RgTypeOK, RgLoopType, rgRaftVars
  <2>3. QED
    BY <1>11, <2>1, <2>2, TypeFrame DEF ReadyInnerRead, RgTypeOK
<1>12. CASE ReadyInnerReturn
  <2> DEFINE reads == [rgRead EXCEPT ![SelfRead] = "idle"]
  <2>1. reads \in [AllReads -> {"idle", "asked", "confirmed", "ready", "answered", "ok", "error"}]
    BY DEF RgTypeOK, RgReadType
  <2>2. rgApplied < rgUpTo
    BY <1>12 DEF ReadyInnerReturn, LoopInv
  <2>3. Finish(rgLog[rgApplied + 1], rgRead[SelfRead] = "error", reads)
    BY <1>12 DEF ReadyInnerReturn
  <2> HIDE DEF reads
  <2>4. (rgRead[SelfRead] = "error") \in BOOLEAN
    OBVIOUS
  <2>5. QED
    BY <2>1, <2>2, <2>3, <2>4, FinishType
<1>13. CASE ReadyEnd \/ RgStop
  <2>1. RgReadType'
    BY <1>13 DEF ReadyEnd, RgStop, RgTypeOK, RgReadType
  <2>2. RgLoopType'
    BY <1>13 DEF ReadyEnd, RgStop, RgTypeOK, RgLoopType, rgRaftVars
  <2>3. QED
    BY <1>13, <2>1, <2>2, TypeFrame DEF ReadyEnd, RgStop, RgTypeOK
<1>14. CASE LoopExit
  <2>1. RgReadType'
    BY <1>14, ReadsFailedType DEF LoopExit, RgTypeOK, RgReadType
  <2>2. RgLoopType' /\ RgCallType' /\ RgLockType'
    BY <1>14 DEF LoopExit, RgTypeOK, RgLoopType, RgCallType, RgLockType, rgRaftVars
  <2>3. QED
    BY <1>14, <2>1, <2>2, TypeFrame DEF LoopExit, RgTypeOK
<1>15. ASSUME NEW w \in {"freeze", "snapshot", "cancelled"}, LockTake(w) PROVE RgTypeOK'
  <2>1. rgSnap' \in [at : 0..MaxCommitted, holds : SUBSET (1..MaxCommitted), next : 0..MaxCommitted]
    <3>1. rgApplied \in 0..MaxCommitted
      BY RaftGroupAssumption DEF RgTypeOK, RgLoopType, RgRaftType
    <3>2. rgSnap \in [at : 0..MaxCommitted, holds : SUBSET (1..MaxCommitted), next : 0..MaxCommitted]
      BY DEF RgTypeOK, RgLockType
    <3>3. rgSnap' = rgSnap \/ rgSnap' = [rgSnap EXCEPT !.next = rgApplied]
      BY <1>15 DEF LockTake
    <3>4. QED
      BY <3>1, <3>2, <3>3
  <2>2. RgLockType'
    BY <1>15, <2>1 DEF LockTake, ReadyAvailable, RgTypeOK, RgLockType
  <2>3. QED
    BY <1>15, <2>2, TypeFrame DEF LockTake, RgTypeOK, rgRaftVars
<1>16. CASE FreezeCancel \/ SnapshotWrite \/ FreezeRelease \/ \E w \in {"freeze", "snapshot"} : LockRequest(w)
  <2>1. rgState \subseteq 1..MaxCommitted
    BY RaftGroupAssumption DEF RgTypeOK, RgLoopType, RgRaftType
  <2>2. [at |-> rgSnap.next, holds |-> rgState, next |-> 0] \in SnapType
    BY <2>1, RaftGroupAssumption DEF SnapType, RgTypeOK, RgLockType
  <2>3. RgLockType'
    BY <1>16, <2>2 DEF SnapType, FreezeCancel, SnapshotWrite, FreezeRelease, LockRequest, ReadyAvailable, RgTypeOK, RgLockType
  <2>4. QED
    BY <1>16, <2>3, TypeFrame DEF FreezeCancel, SnapshotWrite, FreezeRelease, LockRequest, RgTypeOK, rgRaftVars
<1>17. CASE UNCHANGED rgVars
  BY <1>17, TypeFrame DEF rgVars, RgTypeOK, rgRaftVars, rgLoopVars, rgCallVars, rgReadVars, rgLockVars
<1>18. QED
  BY <1>1, <1>2, <1>3, <1>4, <1>5, <1>6, <1>7, <1>8, <1>9, <1>10, <1>11, <1>12, <1>13, <1>14, <1>15,
     <1>16, <1>17 DEF RgNext, AllReads

-----------------------------------------------------------------------------
(* The loop, the waiters and the outcomes.                                 *)

\* Both ways through applyEntry end in Finish for the next entry; only a stop
\* cuts off the read of the application.
ApplyStep(failed, reads) ==
    /\ rgLoop \in {"apply", "inner"} /\ rgApplied < rgUpTo
    /\ failed => rgStopping /\ rgLog[rgApplied + 1] \in ReadingCommands
    /\ \A r \in AllReads : reads[r] \in {rgRead[r], "idle"}
    /\ Finish(rgLog[rgApplied + 1], failed, reads)

\* An application that returns finishes the entry, with or without an error
\* (applyEntry).
LEMMA ApplyIsFinish ==
  ASSUME RgTypeOK, LoopInv, ReadyApply \/ ReadyInnerReturn
  PROVE  \E failed \in BOOLEAN :
            \E reads \in [AllReads -> {"idle", "asked", "confirmed", "ready", "answered", "ok", "error"}] :
                ApplyStep(failed, reads)
<1> DEFINE R == [AllReads -> {"idle", "asked", "confirmed", "ready", "answered", "ok", "error"}]
           inner == [rgRead EXCEPT ![SelfRead] = "idle"]
<1>1. rgRead \in R /\ inner \in R /\ \A r \in AllReads : inner[r] \in {rgRead[r], "idle"}
  BY DEF RgTypeOK, RgReadType
<1>2. CASE ReadyApply
  <2>1. ApplyStep(FALSE, rgRead)
    BY <1>2 DEF ReadyApply, ApplyStep
  <2>2. QED
    BY <1>1, <2>1
<1>3. CASE ReadyInnerReturn
  <2>1. ApplyStep(rgRead[SelfRead] = "error", inner)
    BY <1>1, <1>3 DEF ReadyInnerReturn, ApplyStep, LoopInv
  <2>2. (rgRead[SelfRead] = "error") \in BOOLEAN
    OBVIOUS
  <2>3. QED
    BY <1>1, <2>1, <2>2
<1>4. QED
  BY <1>2, <1>3

\* What applyEntry does to the variables, for the entry at rgApplied + 1.
LEMMA FinishEffect ==
  ASSUME RgTypeOK, NEW failed \in BOOLEAN, NEW reads, ApplyStep(failed, reads)
  PROVE  LET k == rgLog[rgApplied + 1]
             out == Outcome(k, failed) IN
         /\ k \in Commands /\ rgApplied + 1 \in 1..Len(rgLog)
         /\ rgChan' = Answered(k, out)
         /\ rgWaiters' = IF k \in FatalCommands THEN [q \in Commands |-> NoCall] ELSE Forgotten(k)
         /\ UNCHANGED <<rgLog, rgCall, rgStopping, rgUpTo, rgReadIndex, rgReadFloor, rgSnap, rgLock>>
         /\ rgLoop' \in {"apply", "stopped"}
         /\ k \in FatalCommands => out = "error" /\ UNCHANGED <<rgApplied, rgState>>
         /\ k \notin FatalCommands => /\ rgApplied' = rgApplied + 1
                                     /\ rgState' = IF out = "ok" THEN rgState \cup {rgApplied + 1} ELSE rgState
<1>1. rgLog[rgApplied + 1] \in Commands /\ rgApplied + 1 \in 1..Len(rgLog)
  BY DEF RgTypeOK, RgRaftType, RgLoopType, ApplyStep
<1>2. QED
  BY <1>1 DEF ApplyStep, Finish, Outcome, rgRaftVars, rgLockVars

\* LoopInv is kept.
LEMMA LoopStep ==
  ASSUME RgTypeOK, LoopInv, [RgNext]_rgVars
  PROVE  LoopInv'
<1>1. CASE RaftCommit
  <2>1. LogGrows
    BY LogStep
  <2>2. rgApplied \in 0..Len(rgLog) /\ rgUpTo \in 0..Len(rgLog) /\ Len(rgLog) \in Nat
    BY DEF RgTypeOK, RgLoopType, RgRaftType
  <2>3. QED
    BY <1>1, <2>1, <2>2 DEF RaftCommit, LoopInv, LogGrows, rgLoopVars, rgReadVars
<1>2. CASE ReadyApply \/ ReadyInnerReturn
  <2>1. PICK failed \in BOOLEAN : \E reads : ApplyStep(failed, reads)
    BY <1>2, ApplyIsFinish
  <2>2. QED
    BY <2>1, FinishEffect DEF LoopInv
<1>3. ASSUME NEW r \in Readers, ReadBegin(r) PROVE LoopInv'
  BY <1>3, RaftGroupAssumption DEF ReadBegin, LoopInv, RgTypeOK, RgReadType, AllReads, rgRaftVars, rgLoopVars
<1>4. ASSUME NEW r \in AllReads, RaftConfirmRead(r) \/ ReadReturn(r) \/ ReadTimeout(r) PROVE LoopInv'
  BY <1>4 DEF RaftConfirmRead, ReadReturn, ReadTimeout, LoopInv, RgTypeOK, RgReadType, AllReads, rgRaftVars,
     rgLoopVars
<1>5. CASE ReadyInnerRead
  BY <1>5 DEF ReadyInnerRead, LoopInv, RgTypeOK, RgReadType, AllReads, rgRaftVars
<1>6. CASE RgStop
  BY <1>6 DEF RgStop, LoopInv, rgRaftVars
<1>7. CASE ReadyBegin \/ ReadySnapshot \/ ReadyEnd \/ LoopExit
  BY <1>7 DEF ReadyBegin, ReadySnapshot, ReadyEnd, LoopExit, LoopInv
<1>8. CASE UNCHANGED <<rgLog, rgLoop, rgApplied, rgUpTo, rgRead, rgStopping>>
  BY <1>8 DEF LoopInv
<1>9. QED
  BY <1>1, <1>2, <1>3, <1>4, <1>5, <1>6, <1>7, <1>8
     DEF RgNext, rgVars, rgRaftVars, rgLoopVars, rgReadVars, RaftElection, ProposeRegister, ProposeAccepted,
         ProposeDropped, ProposeReturn, ProposeTimeout, LockRequest, LockTake, FreezeCancel, SnapshotWrite,
         FreezeRelease

\* completeWaiter answers a call that waits under its own command, and forgets
\* it: no waiter is left with an outcome in its channel.
LEMMA WaiterStep ==
  ASSUME RgTypeOK, LoopInv, WaitersLive, ChanInv, [RgNext]_rgVars
  PROVE  WaitersLive' /\ ChanInv'
<1> USE RaftGroupAssumption DEF RgTypeOK, RgCallType
<1>1. ASSUME NEW c \in Calls, ProposeRegister(c) PROVE WaitersLive' /\ ChanInv'
  <2>1. WaitersLive'
    BY <1>1 DEF ProposeRegister, WaitersLive
  <2>2. ChanInv'
    BY <1>1 DEF ProposeRegister, ChanInv, WaitersLive
  <2>3. QED
    BY <2>1, <2>2
<1>2. ASSUME NEW c \in Calls, ProposeAccepted(c) PROVE WaitersLive' /\ ChanInv'
  BY <1>2 DEF ProposeAccepted, WaitersLive, ChanInv
<1>3. ASSUME NEW c \in Calls, ProposeReturn(c) PROVE WaitersLive' /\ ChanInv'
  BY <1>3 DEF ProposeReturn, WaitersLive, ChanInv
<1>4. ASSUME NEW c \in Calls, ProposeDropped(c) \/ ProposeTimeout(c) PROVE WaitersLive' /\ ChanInv'
  <2>1. WaitersLive'
    BY <1>4 DEF ProposeDropped, ProposeTimeout, Forgotten, WaitersLive
  <2>2. ChanInv'
    BY <1>4 DEF ProposeDropped, ProposeTimeout, Forgotten, Delivered, ChanInv, WaitersLive
  <2>3. QED
    BY <2>1, <2>2
<1>5. CASE ReadyApply \/ ReadyInnerReturn
  <2>1. PICK failed \in BOOLEAN : \E reads : ApplyStep(failed, reads)
    BY <1>5, ApplyIsFinish
  <2> DEFINE k == rgLog[rgApplied + 1]
             out == Outcome(k, failed)
  <2>2. /\ k \in Commands
        /\ rgChan' = Answered(k, out)
        /\ rgWaiters' = IF k \in FatalCommands THEN [q \in Commands |-> NoCall] ELSE Forgotten(k)
        /\ rgCall' = rgCall
    BY <2>1, FinishEffect
  <2>3. out \in {"ok", "refused", "error"}
    BY DEF Outcome
  <2> HIDE DEF k, out
  <2>4. CASE k \in FatalCommands
    BY <2>2, <2>3, <2>4 DEF Answered, WaitersLive, ChanInv
  <2>5. CASE k \notin FatalCommands
    <3>1. WaitersLive'
      BY <2>2, <2>5 DEF Forgotten, WaitersLive
    <3>2. ChanInv'
      BY <2>2, <2>3, <2>5 DEF Answered, Delivered, Forgotten, WaitersLive, ChanInv
    <3>3. QED
      BY <3>1, <3>2
  <2>6. QED
    BY <2>4, <2>5
<1>6. CASE UNCHANGED <<rgCall, rgChan, rgWaiters>>
  BY <1>6 DEF WaitersLive, ChanInv
<1>7. QED
  BY <1>1, <1>2, <1>3, <1>4, <1>5, <1>6
     DEF RgNext, rgVars, rgCallVars, RaftCommit, RaftElection, ReadBegin, RaftConfirmRead, ReadReturn,
         ReadTimeout, ReadyBegin, ReadySnapshot, ReadyInnerRead, ReadyEnd, RgStop, LoopExit, LockRequest,
         LockTake, FreezeCancel, SnapshotWrite, FreezeRelease

\* A true outcome stays true while the log and the state machine only grow.
LEMMA OutcomeKept ==
  ASSUME RgTypeOK, LogGrows, rgState \subseteq rgState', NEW c \in Calls, NEW out, TrueOutcome(c, out)
  PROVE  TrueOutcome(c, out)'
  BY DEF RgTypeOK, RgLoopType, RgRaftType, LogGrows, TrueOutcome

\* Outcomes are true in the channels and when they are returned.
LEMMA OutcomeStep ==
  ASSUME RgTypeOK, LoopInv, WaitersLive, OutcomeInv, StateInv, [RgNext]_rgVars
  PROVE  OutcomeInv'
<1>1. LogGrows
  BY LogStep
<1>2. ASSUME rgState \subseteq rgState',
             \A c \in Calls : /\ rgChan'[c] \in {rgChan[c], "error"}
                             /\ \/ rgCall'[c] \in {rgCall[c], rgChan[c]}
                                \/ rgCall'[c] \notin {"ok", "refused"}
      PROVE  OutcomeInv'
  <2>1. SUFFICES ASSUME NEW c \in Calls
                 PROVE  (TrueOutcome(c, rgChan[c]) /\ TrueOutcome(c, rgCall[c]))'
    BY DEF OutcomeInv
  <2>2. QED
    BY <1>1, <1>2, OutcomeKept DEF OutcomeInv, TrueOutcome
<1>3. CASE ReadyApply \/ ReadyInnerReturn
  <2>1. PICK failed \in BOOLEAN : \E reads : ApplyStep(failed, reads)
    BY <1>3, ApplyIsFinish
  <2> DEFINE k == rgLog[rgApplied + 1]
             out == Outcome(k, failed)
  <2>2. /\ k \in Commands /\ rgApplied + 1 \in 1..Len(rgLog)
        /\ rgChan' = Answered(k, out)
        /\ rgCall' = rgCall /\ rgLog' = rgLog
        /\ k \in FatalCommands => out = "error" /\ rgState' = rgState
        /\ k \notin FatalCommands => rgState' = IF out = "ok" THEN rgState \cup {rgApplied + 1} ELSE rgState
    BY <2>1, FinishEffect
  <2>3. (out = "refused" => k \in RefusedCommands) /\ out \in {"ok", "refused", "error"}
    BY DEF Outcome
  <2>4. \A c \in Calls : TrueOutcome(c, rgChan[c])' /\ TrueOutcome(c, rgCall[c])'
    <3>1. SUFFICES ASSUME NEW c \in Calls
                   PROVE  TrueOutcome(c, rgChan[c])' /\ TrueOutcome(c, rgCall[c])'
      OBVIOUS
    <3>2. rgState \subseteq rgState'
      BY <2>2
    <3>3. TrueOutcome(c, rgCall[c])'
      BY <1>1, <2>2, <3>2, OutcomeKept DEF OutcomeInv
    <3>4. CASE rgChan'[c] = rgChan[c]
      BY <1>1, <3>2, <3>3, <3>4, OutcomeKept DEF OutcomeInv
    <3>5. CASE rgChan'[c] # rgChan[c]
      <4>1. rgChan'[c] = out
        BY <2>2, <3>5 DEF Answered, Delivered, RgTypeOK, RgCallType
      <4>2. k \notin FatalCommands => CallCommand[c] = k
        BY <2>2, <3>5 DEF Answered, Delivered, WaitersLive, RgTypeOK, RgCallType
      <4>3. CASE out = "error"
        BY <3>3, <4>1, <4>3 DEF TrueOutcome
      <4>4. CASE out # "error"
        <5>1. k \notin FatalCommands /\ CallCommand[c] = k /\ rgLog'[rgApplied + 1] = k
          BY <2>2, <4>2, <4>4
        <5>2. out = "ok" => rgApplied + 1 \in rgState'
          BY <2>2, <5>1
        <5>3. QED
          BY <2>2, <2>3, <3>3, <4>1, <5>1, <5>2 DEF TrueOutcome
      <4>5. QED
        BY <4>3, <4>4
    <3>6. QED
      BY <3>3, <3>4, <3>5
  <2>5. QED
    BY <2>4 DEF OutcomeInv
<1>4. CASE ReadySnapshot
  <2>1. rgState \subseteq Effects(Len(rgLog))
    BY DEF StateInv, Holds, Effects, RgTypeOK, RgLoopType, RgRaftType
  <2>2. QED
    BY <1>2, <1>4, <2>1 DEF ReadySnapshot
<1>5. ASSUME NEW c \in Calls, ProposeRegister(c) \/ ProposeAccepted(c) \/ ProposeReturn(c) PROVE OutcomeInv'
  BY <1>2, <1>5 DEF ProposeRegister, ProposeAccepted, ProposeReturn, RgTypeOK, RgCallType, rgLoopVars
<1>6. ASSUME NEW c \in Calls, ProposeDropped(c) \/ ProposeTimeout(c) PROVE OutcomeInv'
  BY <1>2, <1>6 DEF ProposeDropped, ProposeTimeout, Delivered, RgTypeOK, RgCallType, rgLoopVars
<1>7. CASE UNCHANGED <<rgCall, rgChan, rgState>>
  BY <1>2, <1>7
<1>8. QED
  BY <1>3, <1>4, <1>5, <1>6, <1>7
     DEF RgNext, rgVars, rgCallVars, rgLoopVars, RaftCommit, RaftElection, ReadBegin, RaftConfirmRead, ReadReturn,
         ReadTimeout, ReadyBegin, ReadyInnerRead, ReadyEnd, RgStop, LoopExit, LockRequest,
         LockTake, FreezeCancel, SnapshotWrite, FreezeRelease

-----------------------------------------------------------------------------
(* Reads and snapshots.                                                    *)

\* A step moves the applied index forward only (markApplied).
LEMMA AppliedGrows ==
  ASSUME RgTypeOK, LoopInv, [RgNext]_rgVars
  PROVE  rgApplied <= rgApplied'
<1>1. rgApplied \in Nat /\ Len(rgLog) \in Nat /\ rgApplied <= Len(rgLog)
  BY DEF RgTypeOK, RgLoopType, RgRaftType
<1>2. CASE ReadyApply \/ ReadyInnerReturn
  <2>1. PICK failed \in BOOLEAN : \E reads : ApplyStep(failed, reads)
    BY <1>2, ApplyIsFinish
  <2>2. QED
    BY <1>1, <2>1, FinishEffect
<1>3. CASE ReadySnapshot
  BY <1>1, <1>3 DEF ReadySnapshot
<1>4. CASE UNCHANGED rgApplied
  BY <1>1, <1>4
<1>5. QED
  BY <1>2, <1>3, <1>4
     DEF RgNext, rgVars, rgLoopVars, RaftCommit, RaftElection, ProposeRegister, ProposeAccepted,
         ProposeDropped, ProposeReturn, ProposeTimeout, ReadBegin, RaftConfirmRead, ReadReturn,
         ReadTimeout, ReadyBegin, ReadyInnerRead, ReadyEnd, RgStop, LoopExit, LockRequest,
         LockTake, FreezeCancel, SnapshotWrite, FreezeRelease

\* A read keeps its place, goes forward with a confirmed index, or fails
\* (LinearizableRead, completeReadWaiter, failReadWaiters).
ReadKept(r) ==
    /\ rgReadFloor'[r] = rgReadFloor[r] /\ rgReadIndex'[r] = rgReadIndex[r]
    /\ \/ rgRead'[r] \in {rgRead[r], "idle", "asked", "error"}
       \/ rgRead[r] = "confirmed" /\ rgRead'[r] = "ready"
       \/ rgRead[r] = "ready" /\ rgRead'[r] = "answered"
       \/ rgRead[r] = "answered" /\ rgRead'[r] = "ok" /\ rgApplied >= rgReadIndex[r]

\* A read that does not move keeps what it knows of the log.
LEMMA ReadKeptInv ==
  ASSUME RgTypeOK, LoopInv, ReadInv, ReadFresh, [RgNext]_rgVars, NEW r \in AllReads, ReadKept(r)
  PROVE  /\ rgReadFloor'[r] <= Len(rgLog')
         /\ rgRead'[r] \in {"confirmed", "ready", "answered"} => rgReadFloor'[r] <= rgReadIndex'[r]
         /\ rgRead'[r] = "ok" => rgApplied' >= rgReadFloor'[r]
<1>1. LogGrows /\ rgApplied <= rgApplied'
  BY LogStep, AppliedGrows
<1>2. /\ rgApplied \in Nat /\ rgReadFloor[r] \in Nat /\ rgReadIndex[r] \in Nat /\ Len(rgLog) \in Nat
      /\ rgApplied' \in Nat /\ Len(rgLog') \in Nat
  BY TypeStep, RaftGroupAssumption DEF RgTypeOK, RgLoopType, RgRaftType, RgReadType
<1>3. QED
  BY <1>1, <1>2 DEF ReadKept, ReadInv, ReadFresh, LogGrows

\* ReadInv and ReadFresh are kept.
LEMMA ReadStep ==
  ASSUME RgTypeOK, LoopInv, ReadInv, ReadFresh, [RgNext]_rgVars
  PROVE  ReadInv' /\ ReadFresh'
<1> DEFINE Good(r) == /\ rgReadFloor'[r] <= Len(rgLog')
                      /\ rgRead'[r] \in {"confirmed", "ready", "answered"} => rgReadFloor'[r] <= rgReadIndex'[r]
                      /\ rgRead'[r] = "ok" => rgApplied' >= rgReadFloor'[r]
<1>1. SUFFICES ASSUME NEW r \in AllReads PROVE Good(r)
  BY DEF ReadInv, ReadFresh
<1>2. CASE ReadKept(r)
  BY <1>2, ReadKeptInv
<1>t. /\ rgReadFloor[r] \in Nat /\ rgReadIndex[r] \in Nat /\ Len(rgLog) \in Nat
      /\ rgRead \in [AllReads -> {"idle", "asked", "confirmed", "ready", "answered", "ok", "error"}]
      /\ DOMAIN rgReadFloor = AllReads /\ DOMAIN rgReadIndex = AllReads
  BY RaftGroupAssumption DEF RgTypeOK, RgRaftType, RgReadType
<1>3. ASSUME NEW q \in AllReads, ReadBegin(q) PROVE Good(r)
  <2>1. ReadKept(r) \/ /\ rgReadFloor'[r] = Len(rgLog') /\ Len(rgLog') = Len(rgLog) /\ rgRead'[r] \in {"asked", "error"}
    BY <1>3, <1>t DEF ReadBegin, ReadKept, rgRaftVars
  <2>2. QED
    BY <1>2, <1>t, <2>1
<1>4. ASSUME NEW q \in AllReads, RaftConfirmRead(q) PROVE Good(r)
  <2>1. ReadKept(r) \/ /\ rgReadIndex'[r] = Len(rgLog) /\ Len(rgLog') = Len(rgLog)
                       /\ rgReadFloor'[r] = rgReadFloor[r] /\ rgRead'[r] = "confirmed"
    BY <1>4, <1>t DEF RaftConfirmRead, ReadKept, rgRaftVars
  <2>2. QED
    BY <1>2, <1>t, <2>1 DEF ReadInv
<1>5. ASSUME NEW q \in AllReads, ReadReturn(q) \/ ReadTimeout(q) PROVE Good(r)
  BY <1>2, <1>5, <1>t DEF ReadReturn, ReadTimeout, ReadKept
<1>6. CASE ReadyBegin \/ ReadySnapshot \/ LoopExit
  BY <1>2, <1>6, <1>t DEF ReadyBegin, ReadySnapshot, LoopExit, ReadsFailed, ReadKept
<1>7. CASE ReadyApply \/ ReadyInnerReturn
  <2>1. PICK failed \in BOOLEAN : \E reads : ApplyStep(failed, reads)
    BY <1>7, ApplyIsFinish
  <2>2. QED
    BY <1>2, <2>1, <1>t DEF ApplyStep, Finish, ReadsFailed, ReadKept
<1>8. CASE ReadyInnerRead
  <2>1. ReadKept(r) \/ /\ rgReadFloor'[r] = Len(rgLog') /\ Len(rgLog') = Len(rgLog) /\ rgRead'[r] \in {"asked", "error"}
    BY <1>8, <1>t DEF ReadyInnerRead, ReadKept, rgRaftVars
  <2>2. QED
    BY <1>2, <1>t, <2>1
<1>9. CASE ReadyEnd \/ RgStop
  BY <1>2, <1>9, <1>t DEF ReadyEnd, RgStop, ReadKept
<1>10. CASE UNCHANGED rgReadVars
  BY <1>2, <1>10 DEF ReadKept, rgReadVars
<1> HIDE DEF Good
<1>11. QED
  BY <1>3, <1>4, <1>5, <1>6, <1>7, <1>8, <1>9, <1>10
     DEF RgNext, AllReads, rgVars, rgReadVars, RaftCommit, RaftElection, ProposeRegister, ProposeAccepted,
         ProposeDropped, ProposeReturn, ProposeTimeout, LockRequest, LockTake, FreezeCancel, SnapshotWrite,
         FreezeRelease

\* The effects of a prefix of the log do not change when the log grows.
LEMMA EffectsKept ==
  ASSUME RgTypeOK, LogGrows, NEW n \in Nat, n <= Len(rgLog)
  PROVE  /\ Effects(n)' = Effects(n)
         /\ \A i \in Effects(n) : rgLog'[i] = rgLog[i]
  BY DEF RgTypeOK, RgRaftType, LogGrows, Effects

\* What holds the effects of a prefix goes on holding them.
LEMMA HoldsKept ==
  ASSUME RgTypeOK, LogGrows, rgStopping => rgStopping', NEW S, NEW n \in Nat, n <= Len(rgLog), Holds(S, n)
  PROVE  Holds(S, n)'
  BY EffectsKept DEF Holds

\* Stop is not taken back.
LEMMA StoppingKept ==
  ASSUME [RgNext]_rgVars
  PROVE  rgStopping => rgStopping'
  BY DEF RgNext, rgVars, rgLoopVars, RaftCommit, RaftElection, ProposeRegister, ProposeAccepted,
         ProposeDropped, ProposeReturn, ProposeTimeout, ReadBegin, RaftConfirmRead, ReadReturn,
         ReadTimeout, ReadyBegin, ReadySnapshot, ReadyApply, ReadyInnerRead, ReadyInnerReturn, Finish, ReadyEnd,
         RgStop, LoopExit, LockRequest, LockTake, FreezeCancel, SnapshotWrite, FreezeRelease

\* applyEntry takes the state machine to the next index (ApplyCommand, then
\* markApplied whatever it answered, unless the error is fatal).
LEMMA FinishState ==
  ASSUME RgTypeOK, StateInv, NEW failed \in BOOLEAN, NEW reads, ApplyStep(failed, reads)
  PROVE  Holds(rgState, rgApplied)'
<1> DEFINE k == rgLog[rgApplied + 1]
           out == Outcome(k, failed)
<1>1. /\ rgLog' = rgLog /\ rgStopping' = rgStopping
      /\ k \in FatalCommands => UNCHANGED <<rgApplied, rgState>>
      /\ k \notin FatalCommands => /\ rgApplied' = rgApplied + 1
                                  /\ rgState' = IF out = "ok" THEN rgState \cup {rgApplied + 1} ELSE rgState
  BY FinishEffect
<1>2. failed => rgStopping /\ k \in ReadingCommands
  BY DEF ApplyStep
<1>3. rgApplied \in Nat
  BY DEF RgTypeOK, RgLoopType, RgRaftType
<1>4. CASE k \in FatalCommands
  BY <1>1, <1>4 DEF StateInv, Holds, Effects
<1>5. CASE k \notin FatalCommands
  <2>1. Effects(rgApplied + 1) = Effects(rgApplied) \cup (IF k \notin RefusedCommands THEN {rgApplied + 1} ELSE {})
    BY <1>3 DEF Effects
  <2>2. Effects(rgApplied)' = Effects(rgApplied + 1)
    BY <1>1, <1>5 DEF Effects
  <2>3. /\ out = "ok" => k \notin RefusedCommands
        /\ out # "ok" => k \in RefusedCommands \/ (rgStopping /\ k \in ReadingCommands)
    BY <1>2, <1>5 DEF Outcome
  <2>4. rgState' = IF out = "ok" THEN rgState \cup {rgApplied + 1} ELSE rgState
    BY <1>1, <1>5
  <2>5. Holds(rgState, rgApplied)
    BY DEF StateInv
  <2> HIDE DEF out
  <2>6. rgState' \subseteq Effects(rgApplied + 1)
    BY <2>1, <2>3, <2>4, <2>5 DEF Holds
  <2>7. \A i \in Effects(rgApplied + 1) \ rgState' : rgStopping /\ rgLog[i] \in ReadingCommands
    BY <2>1, <2>3, <2>4, <2>5 DEF Holds
  <2>8. QED
    BY <1>1, <2>2, <2>6, <2>7 DEF Holds
<1>6. QED
  BY <1>4, <1>5

\* backupMu keeps the loop out while a snapshot is taken, so the bytes that are
\* stored are those of the index that was noted.
LEMMA StateStep ==
  ASSUME RgTypeOK, LoopInv, StateInv, [RgNext]_rgVars
  PROVE  StateInv'
<1>1. LogGrows /\ (rgStopping => rgStopping')
  BY LogStep, StoppingKept
<1>2. /\ rgApplied \in Nat /\ rgApplied <= Len(rgLog) /\ Len(rgLog) \in Nat /\ Len(rgLog') \in Nat
      /\ rgSnap.at \in Nat /\ rgSnap.next \in Nat
  BY SMTT(60), TypeStep, RaftGroupAssumption DEF RgTypeOK, RgLoopType, RgRaftType, RgLockType
<1>3. ASSUME UNCHANGED <<rgState, rgApplied>> PROVE Holds(rgState, rgApplied)'
  <2>1. Holds(rgState, rgApplied)
    BY DEF StateInv
  <2>2. QED
    BY <1>1, <1>2, <1>3, <2>1, EffectsKept DEF Holds
<1>4. ASSUME rgSnap'.at = rgSnap.at, rgSnap'.holds = rgSnap.holds
      PROVE  rgSnap'.at <= Len(rgLog') /\ Holds(rgSnap.holds, rgSnap.at)'
  <2> DEFINE S == rgSnap.holds
             n == rgSnap.at
  <2>1. Holds(S, n) /\ n \in Nat /\ n <= Len(rgLog)
    BY <1>2 DEF StateInv
  <2>2. Holds(S, n)' <=> /\ S' \subseteq {i \in 1..n' : rgLog'[i] \notin RefusedCommands}
                         /\ \A i \in {j \in 1..n' : rgLog'[j] \notin RefusedCommands} \ S' :
                                rgStopping' /\ rgLog'[i] \in ReadingCommands
    BY DEF Holds, Effects
  <2>3. S' = S /\ n' = n
    BY <1>4
  <2> HIDE DEF S, n
  <2>4. \A i \in 1..n : i \in 1..Len(rgLog) /\ rgLog'[i] = rgLog[i]
    BY <1>1, <1>2, <2>1 DEF LogGrows
  <2>5. Holds(S, n)'
    BY <1>1, <2>1, <2>2, <2>3, <2>4 DEF Holds, Effects
  <2>6. n' <= Len(rgLog')
    BY <1>1, <1>2, <2>1, <2>3 DEF LogGrows
  <2>7. QED
    BY <2>5, <2>6 DEF S, n
<1>5. CASE ReadyApply \/ ReadyInnerReturn
  <2>1. PICK failed \in BOOLEAN : \E reads : ApplyStep(failed, reads)
    BY <1>5, ApplyIsFinish
  <2>2. rgSnap' = rgSnap /\ rgLock' = rgLock /\ rgLoop \in {"apply", "inner"}
    BY <2>1, FinishEffect DEF ApplyStep
  <2>3. Holds(rgState, rgApplied)'
    BY <2>1, FinishState
  <2>4. QED
    BY <1>4, <2>2, <2>3 DEF StateInv
<1>6. CASE ReadySnapshot
  <2>1. /\ rgSnap'.at = Len(rgLog) /\ rgSnap'.holds = Effects(Len(rgLog))
        /\ rgState' = Effects(Len(rgLog)) /\ rgApplied' = Len(rgLog) /\ rgLog' = rgLog
        /\ rgLock' = "none"
    BY <1>6 DEF ReadySnapshot, LoopMayRun, rgRaftVars
  <2>2. QED
    BY <1>2, <2>1 DEF StateInv, Holds, Effects
<1>7. CASE ReadyBegin
  BY <1>3, <1>4, <1>7 DEF ReadyBegin, LoopMayRun, StateInv
<1>8. ASSUME NEW w \in {"freeze", "snapshot", "cancelled"}, LockTake(w) PROVE StateInv'
  <2>1. /\ rgSnap'.at = rgSnap.at /\ rgSnap'.holds = rgSnap.holds
        /\ w = "snapshot" => rgSnap'.next = rgApplied
    <3>1. rgSnap \in SnapType
      BY DEF RgTypeOK, RgLockType, SnapType
    <3>2. IF w = "snapshot" THEN rgSnap' = [rgSnap EXCEPT !.next = rgApplied] ELSE rgSnap' = rgSnap
      BY <1>8 DEF LockTake
    <3>3. QED
      BY <3>1, <3>2 DEF SnapType
  <2>2. rgLock' = "snapshot" => w = "snapshot"
    BY <1>8 DEF LockTake
  <2>3. UNCHANGED <<rgState, rgApplied, rgLoop>> /\ rgLoop \in {"select", "stopped"}
    BY <1>8 DEF LockTake, rgLoopVars
  <2>4. QED
    BY <1>3, <1>4, <2>1, <2>2, <2>3 DEF StateInv
<1>9. CASE SnapshotWrite
  <2>1. /\ rgSnap'.at = rgSnap.next /\ rgSnap'.holds = rgState /\ rgLock' = "none"
        /\ UNCHANGED <<rgState, rgApplied, rgLog, rgStopping>>
    BY <1>9 DEF SnapshotWrite, rgLoopVars, rgRaftVars
  <2>2. rgSnap.next = rgApplied
    BY <1>9 DEF SnapshotWrite, StateInv
  <2>3. QED
    BY <1>2, <1>3, <2>1, <2>2 DEF StateInv, Holds, Effects
<1>10. CASE /\ UNCHANGED <<rgState, rgApplied, rgSnap>>
            /\ rgLock' \in {rgLock, "none"}
            /\ rgLoop' = rgLoop \/ rgLoop' = "stopped" \/ rgLoop \notin {"select", "stopped"}
  BY <1>3, <1>4, <1>10 DEF StateInv
<1>11. QED
  BY <1>5, <1>6, <1>7, <1>8, <1>9, <1>10
     DEF RgNext, rgVars, rgLoopVars, rgLockVars, RaftCommit, RaftElection, ProposeRegister, ProposeAccepted,
         ProposeDropped, ProposeReturn, ProposeTimeout, ReadBegin, RaftConfirmRead, ReadReturn,
         ReadTimeout, ReadyInnerRead, ReadyEnd, RgStop, LoopExit, LockRequest, FreezeCancel, FreezeRelease

-----------------------------------------------------------------------------
(* The theorems.                                                           *)

\* The invariant is inductive.
LEMMA RgInvInit ==
  ASSUME RgInit
  PROVE  RgInv
<1> USE RaftGroupAssumption DEF RgInit
<1>1. RgTypeOK
  <2>1. /\ rgLog \in Seq(Commands) /\ Len(rgLog) = 0 /\ 0 \in 0..MaxCommitted /\ 0 \in 0..MaxElections
        /\ rgApplied \in 0..Len(rgLog) /\ rgUpTo \in 0..Len(rgLog)
    OBVIOUS
  <2>2. RgRaftType /\ RgLoopType
    <3>1. rgLeads \in BOOLEAN /\ rgKnown \in BOOLEAN /\ rgStopping \in BOOLEAN
      BY Zenon
    <3>2. QED
      BY <2>1, <3>1 DEF RgRaftType, RgLoopType
  <2>3. RgCallType /\ RgReadType
    BY DEF RgCallType, RgReadType
  <2>4. RgLockType
    <3>1. rgOwed \in BOOLEAN
      BY Zenon
    <3>2. rgSnap \in [at : 0..MaxCommitted, holds : SUBSET (1..MaxCommitted), next : 0..MaxCommitted]
      BY <2>1
    <3>3. QED
      BY <3>1, <3>2 DEF RgLockType
  <2>5. QED
    BY <2>2, <2>3, <2>4 DEF RgTypeOK
<1>2. LoopInv /\ WaitersLive /\ ChanInv /\ OutcomeInv
  BY DEF LoopInv, WaitersLive, ChanInv, OutcomeInv, TrueOutcome
<1>3. ReadInv /\ ReadFresh /\ StateInv
  BY DEF ReadInv, ReadFresh, StateInv, Holds, Effects
<1>4. QED
  BY <1>1, <1>2, <1>3 DEF RgInv

\* Every step of loop, callers, readers and library keeps the invariant.
LEMMA RgInvStep ==
  ASSUME RgInv, [RgNext]_rgVars
  PROVE  RgInv'
  BY TypeStep, LoopStep, WaiterStep, OutcomeStep, ReadStep, StateStep DEF RgInv

\* The invariant always holds.
LEMMA RgInvAlways == RgSpec => []RgInv
<1>1. RgInit => RgInv
  BY RgInvInit
<1>2. RgInv /\ [RgNext]_rgVars => RgInv'
  BY RgInvStep
<1>3. QED
  BY <1>1, <1>2, PTL DEF RgSpec

\* Type correctness of a consensus group for any calls, commands and readers
\* (the fields of Group).
THEOREM GroupTypeCorrect == RgSpec => []RgTypeOK
<1>1. RgInv => RgTypeOK
  BY DEF RgInv
<1>2. QED
  BY <1>1, RgInvAlways, PTL

\* No command_id stays in flight after its call has returned (Propose,
\* completeWaiter, forgetWaiter, failWaiters).
THEOREM NoLeakedWaiter == RgSpec => []WaitersLive
<1>1. RgInv => WaitersLive
  BY DEF RgInv
<1>2. QED
  BY <1>1, RgInvAlways, PTL

\* Propose returns what the state machine did, for any number of retries,
\* timeouts, elections and installed snapshots (Propose, applyEntry).
THEOREM ProposalsTruthful == RgSpec => []ProposeTruthful
<1>1. RgInv => ProposeTruthful
  BY DEF RgInv, OutcomeInv, TrueOutcome, ProposeTruthful
<1>2. QED
  BY <1>1, RgInvAlways, PTL

\* LinearizableRead never returns behind what was committed when it began.
THEOREM ReadsLinearizable == RgSpec => []ReadFresh
<1>1. RgInv => ReadFresh
  BY DEF RgInv
<1>2. QED
  BY <1>1, RgInvAlways, PTL

\* A stored snapshot is the state of its index (CreateSnapshot, backupMu), but
\* for applications that Stop has cut off.
THEOREM SnapshotsExact == RgSpec => []SnapshotExact
<1>1. RgInv => SnapshotExact
  BY DEF RgInv, StateInv, Holds, SnapshotExact
<1>2. QED
  BY <1>1, RgInvAlways, PTL
=============================================================================
