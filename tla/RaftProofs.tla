----------------------------- MODULE RaftProofs -----------------------------
(***************************************************************************)
(* What holds of Raft for every finite set of servers and every bound:     *)
(* types and log positions, the limits of the indexes a leader keeps, and  *)
(* election safety.                                                        *)
(***************************************************************************)
EXTENDS Raft, TLAPS, FiniteSetTheorems, SequenceTheorems, WellFoundedInduction

-----------------------------------------------------------------------------
(* The log *)

\* The index of the last entry of a log whose positions tell the indexes.
LEMMA LastIndex ==
  ASSUME NEW log \in Seq(Entry), NEW base \in Nat,
         \A p \in DOMAIN log : log[p].index = base + p
  PROVE  (IF log = <<>> THEN base ELSE log[Len(log)].index) = base + Len(log)
<1>1. CASE log = <<>>
  BY <1>1
<1>2. CASE log # <<>>
  <2>1. Len(log) \in DOMAIN log
    BY <1>2, LenProperties, EmptySeq
  <2> QED
    BY <1>2, <2>1
<1> QED
  BY <1>1, <1>2

\* LastLogIndex is the snapshot's index plus the length of m_logs.
LEMMA LastLogIndexIs ==
  ASSUME TypeOK, Contiguous, NEW i \in Server
  PROVE  /\ LastLogIndex(i) = lastSnapshot[i].index + Len(logs[i])
         /\ LastLogIndex(i) \in Nat
         /\ Len(logs[i]) \in Nat
<1>1. logs[i] \in Seq(Entry) /\ lastSnapshot[i].index \in Nat
  BY DEF TypeOK, Snapshot
<1>2. \A p \in DOMAIN logs[i] : logs[i][p].index = lastSnapshot[i].index + p
  BY DEF Contiguous
<1>3. LastLogIndex(i) = lastSnapshot[i].index + Len(logs[i])
  BY <1>1, <1>2, LastIndex DEF LastLogIndex
<1> QED
  BY <1>1, <1>3, LenProperties

\* A term is found for every index.
LEMMA LogTermType ==
  ASSUME TypeOK, NEW i \in Server, NEW index \in Int
  PROVE  LogTermAt(i, index) \in Nat
<1>1. logs[i] \in Seq(Entry) /\ lastSnapshot[i] \in Snapshot
  BY DEF TypeOK
<1>2. \A p \in DOMAIN logs[i] : logs[i][p] \in Entry
  BY <1>1, LenProperties, ElementOfSeq
<1> QED
  BY <1>1, <1>2 DEF LogTermAt, Entry, Snapshot

\* The last term of a log is a term.
LEMMA LastTermType ==
  ASSUME TypeOK, NEW i \in Server
  PROVE  LastLogTerm(i) \in Nat
<1>1. logs[i] \in Seq(Entry) /\ lastSnapshot[i] \in Snapshot
  BY DEF TypeOK
<1>2. logs[i] # <<>> => logs[i][Len(logs[i])] \in Entry
  BY <1>1, EmptySeq, ElementOfSeq
<1> QED
  BY <1>1, <1>2 DEF LastLogTerm, Entry, Snapshot

\* What AppendEntries1 makes of a log: no shorter, and positions still tell
\* the indexes.
LEMMA MergeFacts ==
  ASSUME TypeOK, Contiguous, NEW i \in Server, NEW prev \in Nat, NEW entries \in Seq(Entry),
         lastSnapshot[i].index <= prev, prev <= LastLogIndex(i),
         \A k \in DOMAIN entries : entries[k].index = prev + k
  PROVE  LET merged == MergeEntries(i, prev, entries) IN
         /\ merged \in Seq(Entry)
         /\ Len(merged) >= Len(logs[i])
         /\ \A p \in DOMAIN merged :
              /\ merged[p].index = lastSnapshot[i].index + p
              /\ \/ \E k \in DOMAIN entries : merged[p] = entries[k]
                 \/ p \in DOMAIN logs[i] /\ merged[p] = logs[i][p]
<1> DEFINE base == lastSnapshot[i].index
           old == logs[i]
           len == Larger(Len(old), Slice(i, prev) + Len(entries))
           merged == MergeEntries(i, prev, entries)
<1>1. /\ old \in Seq(Entry) /\ base \in Nat /\ Len(old) \in Nat /\ Len(entries) \in Nat
      /\ DOMAIN old = 1 .. Len(old) /\ DOMAIN entries = 1 .. Len(entries)
  BY LenProperties DEF TypeOK, Snapshot
<1>2. Slice(i, prev) = prev - base /\ Slice(i, prev) \in Nat /\ Slice(i, prev) <= Len(old)
  BY <1>1, LastLogIndexIs DEF Slice
<1>3. len \in Nat /\ len >= Len(old)
  BY <1>1, <1>2 DEF Larger
<1>4. \A p \in DOMAIN old : old[p] \in Entry /\ old[p].index = base + p
  BY <1>1, ElementOfSeq DEF Contiguous
<1>5. \A k \in DOMAIN entries : entries[k] \in Entry
  BY <1>1, ElementOfSeq
<1>6. DOMAIN merged = 1 .. len
  BY DEF MergeEntries
<1>7. ASSUME NEW p \in 1 .. len
      PROVE  /\ merged[p] \in Entry
             /\ merged[p].index = base + p
             /\ \/ \E k \in DOMAIN entries : merged[p] = entries[k]
                \/ p \in DOMAIN old /\ merged[p] = old[p]
  <2> DEFINE at == p - Slice(i, prev)
  <2>1. merged[p] = IF at \in DOMAIN entries /\ (p > Len(old) \/ old[p].term # entries[at].term)
                    THEN entries[at] ELSE old[p]
    BY DEF MergeEntries
  <2>2. at \in Int /\ prev + at = base + p
    BY <1>1, <1>2, <1>3
  <2>3. at \in DOMAIN entries => entries[at] \in Entry /\ entries[at].index = base + p
    BY <1>5, <2>2
  <2>4. p > Len(old) => at \in DOMAIN entries
    <3>1. Slice(i, prev) + Len(entries) \in Nat
      BY <1>1, <1>2
    <3>2. len = Len(old) \/ len = Slice(i, prev) + Len(entries)
      BY DEF Larger
    <3>3. p \in Int /\ p <= len
      BY <1>3
    <3>4. ASSUME p > Len(old) PROVE p <= Slice(i, prev) + Len(entries)
      <4> HIDE DEF len, old
      <4> QED
        BY <1>1, <3>2, <3>3, <3>4
    <3>5. ASSUME p > Len(old) PROVE p > Slice(i, prev)
      <4> HIDE DEF len, old
      <4> QED
        BY <1>1, <1>2, <3>3, <3>5
    <3>6. Slice(i, prev) \in Int /\ Len(entries) \in Nat
      BY <1>1, <1>2
    <3>7. p > Len(old) => at \in 1 .. Len(entries)
      <4> HIDE DEF len, old
      <4> QED
        BY <3>3, <3>4, <3>5, <3>6
    <3> QED
      BY <1>1, <3>7
  <2>5. p <= Len(old) => p \in DOMAIN old
    BY <1>1, <1>3
  <2> QED
    BY <1>1, <1>3, <1>4, <2>1, <2>3, <2>4, <2>5
<1>8. merged \in [1 .. len -> Entry]
  BY <1>6, <1>7 DEF MergeEntries
<1>9. merged \in Seq(Entry) /\ Len(merged) = len
  BY <1>3, <1>8
<1> QED
  BY <1>3, <1>6, <1>7, <1>9

\* What Snapshot and InstallSnapshot leave of a log.
LEMMA AfterSnapshotFacts ==
  ASSUME TypeOK, Contiguous, NEW i \in Server, NEW index \in Nat,
         lastSnapshot[i].index < index, index <= LastLogIndex(i)
  PROVE  LET rest == LogAfterSnapshot(i, index) IN
         /\ rest \in Seq(Entry)
         /\ index + Len(rest) = LastLogIndex(i)
         /\ \A p \in DOMAIN rest : /\ rest[p].index = index + p
                                   /\ \E q \in DOMAIN logs[i] : rest[p] = logs[i][q]
<1> DEFINE base == lastSnapshot[i].index
           old == logs[i]
           rest == LogAfterSnapshot(i, index)
           from == Slice(i, index) + 1
<1>1. /\ old \in Seq(Entry) /\ base \in Nat /\ Len(old) \in Nat
      /\ DOMAIN old = 1 .. Len(old)
  BY LenProperties DEF TypeOK, Snapshot
<1>2. from \in Nat /\ from > 1 /\ from <= Len(old) + 1 /\ from - 1 = index - base
  BY <1>1, LastLogIndexIs DEF Slice
<1>3. \A p \in DOMAIN old : old[p] \in Entry /\ old[p].index = base + p
  BY <1>1, ElementOfSeq DEF Contiguous
<1>4. \A p \in from .. Len(old) : old[p] \in Entry
  BY <1>1, <1>2, <1>3
<1>5. rest = SubSeq(old, from, Len(old))
  BY DEF LogAfterSnapshot
<1>6. /\ rest \in Seq(Entry)
      /\ Len(rest) = IF from <= Len(old) THEN Len(old) - from + 1 ELSE 0
      /\ \A p \in 1 .. Len(old) - from + 1 : rest[p] = old[from + p - 1]
  <2> HIDE DEF from, old, rest
  <2> QED
    BY <1>1, <1>2, <1>4, <1>5, SubSeqProperties
<1>7. Len(rest) = Len(old) - from + 1
  BY <1>1, <1>2, <1>6
<1>8. ASSUME NEW p \in DOMAIN rest
      PROVE  rest[p].index = index + p /\ \E q \in DOMAIN old : rest[p] = old[q]
  <2>1. p \in 1 .. Len(old) - from + 1
    BY <1>6, <1>7, LenProperties
  <2>2. from + p - 1 \in DOMAIN old
    <3> HIDE DEF from, rest, old, base
    <3> QED
      BY <1>1, <1>2, <2>1
  <2> QED
    <3>1. rest[p] = old[from + p - 1]
      BY <1>6, <2>1
    <3> HIDE DEF from, rest, old, base
    <3>2. p \in Int
      BY <2>1
    <3>3. base + (from + p - 1) = index + p
      BY <1>1, <1>2, <3>2
    <3> QED
      BY <1>3, <2>2, <3>1, <3>3
<1>9. index + Len(rest) = LastLogIndex(i)
  <2>1. LastLogIndex(i) = base + Len(old)
    BY LastLogIndexIs
  <2> HIDE DEF from, rest, old, base
  <2> QED
    BY <1>1, <1>2, <1>7, <2>1
<1> QED
  BY <1>6, <1>8, <1>9

\* A set of numbers with a bound has a largest one.
LEMMA LargestOf ==
  ASSUME NEW S \in SUBSET Nat, S # {}, NEW n \in Nat, \A k \in S : k <= n
  PROVE  \E k \in S : \A l \in S : l <= k
<1> DEFINE below == {n - k : k \in S}
           less == OpToRel(<, Nat)
<1>1. below \subseteq Nat /\ below # {}
  <2>1. \A k \in S : n - k \in Nat
    OBVIOUS
  <2> QED
    BY <2>1
<1>2. \E x \in below : \A y \in below : ~ (<<y, x>> \in less)
  <2> HIDE DEF below
  <2> QED
    BY <1>1, WFMin, NatLessThanWellFounded
<1>3. PICK x \in below : \A y \in below : ~ (<<y, x>> \in less)
  BY <1>2
<1>4. \A y \in below : ~ (y < x)
  BY <1>1, <1>3 DEF OpToRel
<1>5. PICK k \in S : x = n - k
  BY <1>3
<1>6. ASSUME NEW l \in S PROVE l <= k
  <2>1. n - l \in below
    OBVIOUS
  <2>2. ~ (n - l < n - k)
    BY <1>4, <1>5, <2>1
  <2> QED
    BY <2>2
<1> QED
  BY <1>6

\* The hint of a refusal does not pass the previous index of the call.
LEMMA ConflictFacts ==
  ASSUME TypeOK, NEW i \in Server, NEW prev \in Nat, lastSnapshot[i].index <= prev
  PROVE  ConflictIndex(i, prev) \in Nat /\ ConflictIndex(i, prev) <= prev
<1> DEFINE other == {k \in lastSnapshot[i].index .. prev : LogTermAt(i, k) # LogTermAt(i, prev)}
<1>1. lastSnapshot[i].index \in Nat
  BY DEF TypeOK, Snapshot
<1>2. CASE other = {}
  BY <1>2 DEF ConflictIndex
<1>3. CASE other # {}
  <2>1. \A k \in other : k \in Nat /\ k < prev
    BY <1>1
  <2>2. PICK k \in other : \A l \in other : l <= k
    <3>1. other \subseteq Nat /\ \A k \in other : k <= prev
      BY <2>1
    <3> HIDE DEF other
    <3> QED
      BY <1>3, <3>1, LargestOf
  <2> DEFINE top == CHOOSE x \in other : \A l \in other : l <= x
  <2>6. top \in other
    BY <2>2
  <2>7. ConflictIndex(i, prev) = top + 1
    BY <1>3 DEF ConflictIndex
  <2> QED
    BY <2>1, <2>6, <2>7
<1> QED
  BY <1>2, <1>3

-----------------------------------------------------------------------------
(* Types, positions and bounds *)

\* No index that a leader keeps, or that a call carries, lies past the leader's
\* log: what the assertions of sendAppendEntries and getPrevLogInfo count on.
IndexBounds ==
  /\ \A i \in Server : lastSnapshot[i].index <= lastApplied[i]
  /\ \A i, j \in Server : /\ nextIndex[i][j] <= LastLogIndex(i) + 1
                          /\ matchIndex[i][j] <= LastLogIndex(i)
  /\ \A m \in appendRequests : m.prevLogIndex + Len(m.entries) <= LastLogIndex(m.leader)
  /\ \A m \in appendReplies : /\ m.upTo <= LastLogIndex(m.leader)
                              /\ m.updateNextIndex <= LastLogIndex(m.leader) + 1
  /\ \A m \in snapshotRequests : m.snapshot.index <= LastLogIndex(m.leader)
  /\ \A m \in snapshotReplies : m.index <= LastLogIndex(m.leader)

\* The inductive invariant.  What getApplyLogs reads has a type only because
\* commitIndex stays inside the log, which holds only because the indexes in
\* late replies do, which needs positions to tell indexes.
IInv == TypeOK /\ Contiguous /\ CommitWithinLog /\ IndexBounds

\* The steps that change m_logs.
LogAction ==
  \/ \E m \in appendRequests : AppendEntries1(m)
  \/ \E i \in Server : StartSome(i)
  \/ \E i \in Server : SnapshotDelivered(i)
  \/ \E m \in snapshotRequests : InstallSnapshot(m)

\* Every other step leaves the logs and the snapshots as they are.
LEMMA LogsElsewhere ==
  ASSUME Next, ~LogAction
  PROVE  UNCHANGED <<logs, lastSnapshot>>
<1>1. CASE ElectionNext
  BY <1>1 DEF ElectionNext, DoElection, RequestVote, SendRequestVote, BecomeLeader, durableVars
<1>2. CASE AppendNext
  BY <1>2 DEF AppendNext, LogAction, DoHeartBeat, SendAppendEntries, LoseAppendCall, durableVars
<1>3. CASE ApplyNext
  BY <1>3 DEF ApplyNext, CollectApplyMsgs, PushApplyMsg, durableVars
<1>4. CASE SnapshotNext
  BY <1>4 DEF SnapshotNext, LogAction, LeaderSendSnapShot, SnapshotToClosedPeer,
              SnapshotAnswered, LoseSnapshotCall, PushMsgToKvServer, durableVars
<1> QED
  BY <1>1, <1>2, <1>3, <1>4 DEF Next

\* What every step does to the log of a node: its type and its positions stay,
\* and the index of its last entry does not fall.
LEMMA LogStep ==
  ASSUME IInv, Next
  PROVE  /\ logs' \in [Server -> Seq(Entry)]
         /\ lastSnapshot' \in [Server -> Snapshot]
         /\ \A i \in Server :
              /\ \A p \in DOMAIN logs'[i] : logs'[i][p].index = lastSnapshot'[i].index + p
              /\ LastLogIndex(i)' = lastSnapshot'[i].index + Len(logs'[i])
              /\ LastLogIndex(i)' >= LastLogIndex(i)
<1> USE DEF IInv
<1> DEFINE Placed(log, base) == \A p \in DOMAIN log : log[p].index = base + p
           Kept(i) == /\ logs'[i] \in Seq(Entry)
                      /\ lastSnapshot'[i] \in Snapshot
                      /\ Placed(logs'[i], lastSnapshot'[i].index)
                      /\ lastSnapshot'[i].index + Len(logs'[i]) >= LastLogIndex(i)
           AreFunctions == /\ logs' = [i \in Server |-> logs'[i]]
                           /\ lastSnapshot' = [i \in Server |-> lastSnapshot'[i]]
<1>0. /\ \A i \in Server : /\ LastLogIndex(i) = lastSnapshot[i].index + Len(logs[i])
                           /\ LastLogIndex(i) \in Nat /\ Len(logs[i]) \in Nat
      /\ \A i \in Server : /\ lastSnapshot[i] \in Snapshot /\ lastSnapshot[i].index \in Nat
                           /\ logs[i] \in Seq(Entry)
                           /\ currentTerm[i] \in Nat /\ commitIndex[i] \in Nat
  BY LastLogIndexIs DEF TypeOK, Snapshot
<1>1. ASSUME NEW i \in Server, logs'[i] = logs[i], lastSnapshot'[i] = lastSnapshot[i]
      PROVE  Kept(i)
  <2>1. Placed(logs[i], lastSnapshot[i].index)
    BY DEF Contiguous
  <2> QED
    BY <1>0, <1>1, <2>1
<1>2. ASSUME NEW m \in appendRequests, AppendEntries1(m), NEW i \in Server
      PROVE  Kept(i) /\ AreFunctions
  <2>1. lastSnapshot' = lastSnapshot
    BY <1>2 DEF AppendEntries1, durableVars
  <2>2. CASE UNCHANGED logs
    BY <1>1, <2>1, <2>2 DEF TypeOK
  <2>3. CASE AcceptEntries(m.follower, m)
    <3>1. m \in AppendRequest
      BY DEF TypeOK
    <3>2. m.follower \in Server /\ m.prevLogIndex \in Nat /\ m.entries \in Seq(Entry)
      BY <3>1 DEF AppendRequest
    <3>3. logs' = [logs EXCEPT ![m.follower] = MergeEntries(m.follower, m.prevLogIndex, m.entries)]
      BY <2>3 DEF AcceptEntries
    <3>4. CASE i = m.follower
      <4> DEFINE merged == MergeEntries(i, m.prevLogIndex, m.entries)
      <4>1. /\ merged \in Seq(Entry)
            /\ Len(merged) >= Len(logs[i])
            /\ Placed(merged, lastSnapshot[i].index)
        <5>1. \A k \in DOMAIN m.entries : m.entries[k].index = m.prevLogIndex + k
          BY DEF Contiguous
        <5>2. lastSnapshot[i].index <= m.prevLogIndex /\ m.prevLogIndex <= LastLogIndex(i)
          BY <2>3, <3>4 DEF AcceptEntries
        <5>3. /\ merged \in Seq(Entry) /\ Len(merged) >= Len(logs[i])
              /\ \A p \in DOMAIN merged : merged[p].index = lastSnapshot[i].index + p
          BY <3>2, <5>1, <5>2, MergeFacts
        <5> QED
          BY <5>3
      <4>2. logs'[i] = merged
        BY <3>3, <3>4 DEF TypeOK
      <4>3. lastSnapshot[i].index \in Nat /\ lastSnapshot[i] \in Snapshot
        BY DEF TypeOK, Snapshot
      <4>4. lastSnapshot[i].index + Len(merged) >= LastLogIndex(i)
        <5> HIDE DEF merged
        <5> QED
          BY <4>1, <4>3, LastLogIndexIs, LenProperties
      <4> HIDE DEF merged
      <4> QED
        BY <2>1, <3>3, <4>1, <4>2, <4>3, <4>4 DEF TypeOK
    <3>5. CASE i # m.follower
      BY <1>1, <2>1, <3>3, <3>5 DEF TypeOK
    <3> QED
      BY <3>4, <3>5
  <2> QED
    BY <1>2, <2>2, <2>3 DEF AppendEntries1, durableVars, RejectEntries, PrevInsideSnapshot
<1>3. ASSUME NEW n \in Server, StartSome(n), NEW i \in Server
      PROVE  Kept(i) /\ AreFunctions
  <2>1. PICK command \in Command : Start(n, command)
    BY <1>3 DEF StartSome
  <2> DEFINE entry == [index |-> LastLogIndex(n) + 1, term |-> currentTerm[n], command |-> command]
  <2>2. logs' = [logs EXCEPT ![n] = Append(logs[n], entry)] /\ lastSnapshot' = lastSnapshot
    BY <2>1 DEF Start
  <2>3. CASE i = n
    <3>1. entry \in Entry /\ entry.index = lastSnapshot[n].index + Len(logs[n]) + 1
      BY <1>0 DEF Entry
    <3>2. /\ Append(logs[n], entry) \in Seq(Entry)
          /\ Len(Append(logs[n], entry)) = Len(logs[n]) + 1
          /\ \A p \in 1 .. Len(logs[n]) : Append(logs[n], entry)[p] = logs[n][p]
          /\ Append(logs[n], entry)[Len(logs[n]) + 1] = entry
      <4> HIDE DEF entry
      <4> QED
        BY <3>1, AppendProperties DEF TypeOK
    <3>3. /\ logs[n] \in Seq(Entry) /\ Len(logs[n]) \in Nat /\ DOMAIN logs[n] = 1 .. Len(logs[n])
          /\ lastSnapshot[n] \in Snapshot /\ lastSnapshot[n].index \in Nat
      BY LenProperties DEF TypeOK, Snapshot
    <3>4. logs'[n] = Append(logs[n], entry)
      BY <2>2 DEF TypeOK
    <3>5. DOMAIN logs'[n] = 1 .. Len(logs[n]) + 1
      <4> HIDE DEF entry
      <4> QED
        BY <3>2, <3>4, LenProperties
    <3>6. Placed(logs'[n], lastSnapshot[n].index)
      <4> HIDE DEF entry
      <4> SUFFICES ASSUME NEW p \in 1 .. Len(logs[n]) + 1
                   PROVE  logs'[n][p].index = lastSnapshot[n].index + p
        BY <3>5
      <4>1. CASE p \in 1 .. Len(logs[n])
        BY <3>2, <3>3, <3>4, <4>1 DEF Contiguous
      <4>2. CASE p = Len(logs[n]) + 1
        <5>1. logs'[n][p] = entry
          BY <3>2, <3>4, <4>2
        <5> QED
          BY <3>1, <3>3, <4>2, <5>1
      <4> QED
        BY <3>3, <4>1, <4>2
    <3>7. lastSnapshot[n].index + Len(logs'[n]) >= LastLogIndex(n)
      <4> HIDE DEF entry
      <4> QED
        BY <3>2, <3>3, <3>4, LastLogIndexIs
    <3> HIDE DEF entry
    <3> QED
      BY <2>2, <2>3, <3>2, <3>3, <3>4, <3>6, <3>7 DEF TypeOK
  <2>4. CASE i # n
    BY <1>1, <2>2, <2>4 DEF TypeOK
  <2> QED
    BY <2>3, <2>4
<1>4. ASSUME NEW n \in Server, SnapshotDelivered(n), NEW i \in Server
      PROVE  Kept(i) /\ AreFunctions
  <2>1. PICK index \in SnapshotIndexes : Delivered(n, index) /\ MakeSnapshot(n, index)
    BY <1>4 DEF SnapshotDelivered
  <2>2. /\ logs' = [logs EXCEPT ![n] = LogAfterSnapshot(n, index)]
        /\ lastSnapshot' = [lastSnapshot EXCEPT ![n] = [index |-> index, term |-> LogTermAt(n, index)]]
        /\ lastSnapshot[n].index < index /\ index <= commitIndex[n]
    BY <2>1 DEF MakeSnapshot
  <2>3. index \in Nat
    <3>1. PICK k \in DOMAIN applyChan[n] : applyChan[n][k].index = index
      BY <2>1 DEF Delivered
    <3>2. applyChan[n][k] \in ApplyMsg
      BY <3>1, LenProperties, ElementOfSeq DEF TypeOK
    <3> QED
      BY <3>1, <3>2 DEF ApplyMsg
  <2>4. CASE i = n
    <3>1. index <= LastLogIndex(n)
      BY <1>0, <2>2, <2>3 DEF CommitWithinLog
    <3>2. LET rest == LogAfterSnapshot(n, index) IN
          rest \in Seq(Entry) /\ index + Len(rest) = LastLogIndex(n) /\ Placed(rest, index)
      BY <2>2, <2>3, <3>1, AfterSnapshotFacts
    <3>3. LogTermAt(n, index) \in Nat
      BY <2>3, LogTermType
    <3>4. logs'[n] = LogAfterSnapshot(n, index)
          /\ lastSnapshot'[n] = [index |-> index, term |-> LogTermAt(n, index)]
      BY <2>2 DEF TypeOK
    <3>5. AreFunctions
      BY <2>2 DEF TypeOK
    <3>6. lastSnapshot'[n] \in Snapshot /\ lastSnapshot'[n].index = index
      BY <2>3, <3>3, <3>4 DEF Snapshot
    <3>7. index + Len(LogAfterSnapshot(n, index)) >= LastLogIndex(n)
      BY <1>0, <3>2
    <3> HIDE DEF AreFunctions
    <3> QED
      BY <2>4, <3>2, <3>4, <3>5, <3>6, <3>7
  <2>5. CASE i # n
    BY <1>1, <2>2, <2>5 DEF TypeOK
  <2> QED
    BY <2>4, <2>5
<1>5. ASSUME NEW m \in snapshotRequests, InstallSnapshot(m), NEW i \in Server
      PROVE  Kept(i) /\ AreFunctions
  <2>1. CASE UNCHANGED <<logs, lastSnapshot>>
    BY <1>1, <2>1 DEF TypeOK
  <2>2. CASE Install(m.follower, m.snapshot) /\ m.snapshot.index > lastSnapshot[m.follower].index
    <3> DEFINE n == m.follower
               index == m.snapshot.index
    <3>1. m \in SnapshotRequest /\ n \in Server /\ m.snapshot \in Snapshot /\ index \in Nat
      BY DEF TypeOK, SnapshotRequest, Snapshot
    <3>2. /\ logs' = [logs EXCEPT ![n] = LogAfterInstall(n, index)]
          /\ lastSnapshot' = [lastSnapshot EXCEPT ![n] = m.snapshot]
          /\ lastSnapshot[n].index < index
      BY <2>2, <3>1 DEF Install, TypeOK, Snapshot
    <3>3. LET rest == LogAfterInstall(n, index) IN
          rest \in Seq(Entry) /\ index + Len(rest) >= LastLogIndex(n) /\ Placed(rest, index)
      <4>1. CASE LastLogIndex(n) > index
        <5>1. LogAfterInstall(n, index) = LogAfterSnapshot(n, index) /\ index <= LastLogIndex(n)
          BY <3>1, <4>1, LastLogIndexIs DEF LogAfterInstall
        <5> QED
          BY <3>1, <3>2, <5>1, AfterSnapshotFacts, LastLogIndexIs
      <4>2. CASE ~(LastLogIndex(n) > index)
        <5>1. LogAfterInstall(n, index) = <<>> /\ index >= LastLogIndex(n)
          BY <3>1, <4>2, LastLogIndexIs DEF LogAfterInstall
        <5> QED
          BY <3>1, <5>1, EmptySeq, LastLogIndexIs
      <4> QED
        BY <4>1, <4>2
    <3>4. CASE i = n
      <4>1. logs'[n] = LogAfterInstall(n, index) /\ lastSnapshot'[n] = m.snapshot
        BY <3>1, <3>2 DEF TypeOK
      <4>2. AreFunctions
        BY <3>2 DEF TypeOK
      <4>3. /\ logs'[i] = LogAfterInstall(i, index) /\ lastSnapshot'[i] = m.snapshot
            /\ LogAfterInstall(i, index) \in Seq(Entry)
            /\ Placed(LogAfterInstall(i, index), index)
            /\ index + Len(LogAfterInstall(i, index)) >= LastLogIndex(i)
        BY <3>3, <3>4, <4>1
      <4> HIDE DEF AreFunctions
      <4> QED
        BY <3>1, <4>2, <4>3
    <3>5. CASE i # n
      <4>1. AreFunctions /\ logs'[i] = logs[i] /\ lastSnapshot'[i] = lastSnapshot[i]
        BY <3>1, <3>2, <3>5 DEF TypeOK
      <4> HIDE DEF AreFunctions
      <4> QED
        BY <1>1, <4>1
    <3> QED
      BY <3>4, <3>5
  <2> QED
    BY <1>5, <2>1, <2>2 DEF InstallSnapshot, durableVars
<1>6. ASSUME NEW i \in Server
      PROVE  Kept(i) /\ AreFunctions
  <2>1. CASE LogAction
    BY <1>2, <1>3, <1>4, <1>5, <2>1 DEF LogAction
  <2>2. CASE ~LogAction
    BY <1>1, <2>2, LogsElsewhere DEF TypeOK
  <2> QED
    BY <2>1, <2>2
<1>7. AreFunctions
  BY <1>6, ServerAssumption
<1>8. ASSUME NEW i \in Server
      PROVE  LastLogIndex(i)' = lastSnapshot'[i].index + Len(logs'[i])
  <2>1. lastSnapshot'[i].index \in Nat
    BY <1>6 DEF Snapshot
  <2> QED
    BY <1>6, <2>1, LastIndex DEF LastLogIndex
<1> QED
  BY <1>6, <1>7, <1>8


\* What persist() hands over has the type of a saved state.
LEMMA PersistType ==
  ASSUME persisted \in [Server -> Saved],
         currentTerm' \in [Server -> Nat], votedFor' \in [Server -> Server \cup {Nil}],
         logs' \in [Server -> Seq(Entry)], lastSnapshot' \in [Server -> Snapshot],
         NEW i \in Server, Persist(i)
  PROVE  persisted' \in [Server -> Saved]
BY DEF Persist, Saved

\* What a step that sees a larger term makes of the three variables it sets.
LEMMA StepDownType ==
  ASSUME status \in [Server -> {Follower, Candidate, Leader}],
         currentTerm \in [Server -> Nat], votedFor \in [Server -> Server \cup {Nil}],
         NEW i \in Server, NEW term \in Nat, StepDown(i, term)
  PROVE  /\ status' \in [Server -> {Follower, Candidate, Leader}]
         /\ currentTerm' \in [Server -> Nat]
         /\ votedFor' \in [Server -> Server \cup {Nil}]
BY DEF StepDown

\* A row, and a single place, of nextIndex or matchIndex is replaced.
LEMMA IndexTableType ==
  ASSUME NEW f \in [Server -> [Server -> Nat]], NEW i \in Server, NEW j \in Server, NEW n \in Nat
  PROVE  /\ [f EXCEPT ![i] = [k \in Server |-> n]] \in [Server -> [Server -> Nat]]
         /\ [f EXCEPT ![i][j] = n] \in [Server -> [Server -> Nat]]
<1>1. [k \in Server |-> n] \in [Server -> Nat]
  OBVIOUS
<1>2. f[i] \in [Server -> Nat]
  OBVIOUS
<1>3. [f[i] EXCEPT ![j] = n] \in [Server -> Nat]
  BY <1>2
<1>4. [f EXCEPT ![i][j] = n] = [f EXCEPT ![i] = [f[i] EXCEPT ![j] = n]]
  OBVIOUS
<1> QED
  BY <1>1, <1>3, <1>4

\* Types are kept by the steps of an election.
LEMMA ElectionTypes ==
  ASSUME IInv, ElectionNext
  PROVE  TypeOK'
<1>1. TypeOK
  BY DEF IInv
<1>2. Next
  BY DEF Next
<1>3. logs' \in [Server -> Seq(Entry)] /\ lastSnapshot' \in [Server -> Snapshot]
  BY <1>2, LogStep
<1>4. \A i \in Server : LastLogIndex(i) \in Nat /\ LastLogTerm(i) \in Nat
  BY LastLogIndexIs, LastTermType DEF IInv
<1>5. ASSUME NEW i \in Server, DoElection(i)
      PROVE  TypeOK'
  <2>1. /\ currentTerm' \in [Server -> Nat]
        /\ votedFor' \in [Server -> Server \cup {Nil}]
        /\ status' \in [Server -> {Follower, Candidate, Leader}]
        /\ votedNum' \in [Server -> SUBSET Server]
        /\ votes' \subseteq Server \X Nat \X Server
    BY <1>1, <1>5 DEF DoElection, TypeOK
  <2>2. voteRequests' \subseteq VoteRequest
    <3>1. voteRequests \subseteq VoteRequest /\ currentTerm[i] + 1 \in Nat
      BY <1>1 DEF TypeOK
    <3>2. \A j \in Server :
            [candidate |-> i, voter |-> j, term |-> currentTerm[i] + 1,
             lastLogIndex |-> LastLogIndex(i), lastLogTerm |-> LastLogTerm(i)] \in VoteRequest
      BY <1>4, <3>1 DEF VoteRequest
    <3> QED
      BY <1>5, <3>1, <3>2 DEF DoElection
  <2>3. persisted' \in [Server -> Saved]
    BY <1>1, <1>3, <1>5, <2>1, PersistType DEF DoElection, TypeOK
  <2> QED
    BY <1>1, <1>3, <1>5, <2>1, <2>2, <2>3
    DEF DoElection, TypeOK, applyVars, leaderVars, appendCalls, snapCalls
<1>6. ASSUME NEW m \in voteRequests, RequestVote(m)
      PROVE  TypeOK'
  <2>1. m \in VoteRequest /\ m.voter \in Server /\ m.candidate \in Server /\ m.term \in Nat
    BY <1>1 DEF TypeOK, VoteRequest
  <2>2. currentTerm' \in [Server -> Nat]
    <3>1. currentTerm \in [Server -> Nat]
      BY <1>1 DEF TypeOK
    <3>2. \/ currentTerm' = currentTerm
          \/ currentTerm' = [currentTerm EXCEPT ![m.voter] = Larger(currentTerm[m.voter], m.term)]
      BY <1>6 DEF RequestVote, AdoptTerm
    <3>3. Larger(currentTerm[m.voter], m.term) \in Nat
      BY <2>1, <3>1 DEF Larger
    <3> QED
      BY <3>1, <3>2, <3>3
  <2>3. votedFor' \in [Server -> Server \cup {Nil}]
    <3>1. votedFor \in [Server -> Server \cup {Nil}]
      BY <1>1 DEF TypeOK
    <3>2. \/ votedFor' = votedFor
          \/ votedFor' = [votedFor EXCEPT ![m.voter] = m.candidate]
          \/ votedFor' = [votedFor EXCEPT ![m.voter] = VoteAfter(m.voter, m.term)]
      BY <1>6 DEF RequestVote
    <3>3. VoteAfter(m.voter, m.term) \in Server \cup {Nil}
      BY <2>1, <3>1 DEF VoteAfter
    <3> QED
      BY <2>1, <3>1, <3>2, <3>3
  <2>4. status' \in [Server -> {Follower, Candidate, Leader}]
    BY <1>1, <1>6, <2>1 DEF RequestVote, TypeOK
  <2>5. votes' \subseteq Server \X Nat \X Server
    <3>1. votes \subseteq Server \X Nat \X Server
      BY <1>1 DEF TypeOK
    <3>2. <<m.voter, m.term, m.candidate>> \in Server \X Nat \X Server
      BY <2>1
    <3>3. votes' = votes \/ votes' = votes \cup {<<m.voter, m.term, m.candidate>>}
      BY <1>6 DEF RequestVote
    <3> QED
      BY <3>1, <3>2, <3>3
  <2>6. voteRequests' \subseteq VoteRequest /\ voteReplies' \subseteq VoteReply
    <3>1. \/ AnswerVote(m, currentTerm[m.voter], FALSE)
          \/ AnswerVote(m, m.term, TRUE)
          \/ AnswerVote(m, m.term, FALSE)
      BY <1>6 DEF RequestVote
    <3>2. currentTerm[m.voter] \in Nat
      BY <1>1, <2>1 DEF TypeOK
    <3>3. PICK term \in Nat, granted \in BOOLEAN : AnswerVote(m, term, granted)
      BY <2>1, <3>1, <3>2
    <3>4. voteRequests \subseteq VoteRequest /\ voteReplies \subseteq VoteReply
      BY <1>1 DEF TypeOK
    <3>5. [candidate |-> m.candidate, voter |-> m.voter, term |-> term, voteGranted |-> granted]
            \in VoteReply
      BY <2>1, <3>3 DEF VoteReply
    <3> QED
      BY <3>3, <3>4, <3>5 DEF AnswerVote
  <2>7. persisted' \in [Server -> Saved]
    BY <1>1, <1>3, <1>6, <2>1, <2>2, <2>3, PersistType DEF RequestVote, TypeOK
  <2> QED
    BY <1>1, <1>3, <1>6, <2>2, <2>3, <2>4, <2>5, <2>6, <2>7
    DEF RequestVote, TypeOK, applyVars, leaderVars, appendCalls, snapCalls
<1>7. ASSUME NEW m \in voteReplies, SendRequestVote(m)
      PROVE  TypeOK'
  <2>1. m.candidate \in Server /\ m.voter \in Server /\ m.term \in Nat
    BY <1>1 DEF TypeOK, VoteReply
  <2>2. /\ currentTerm' \in [Server -> Nat]
        /\ votedFor' \in [Server -> Server \cup {Nil}]
        /\ status' \in [Server -> {Follower, Candidate, Leader}]
    <3>1. \/ StepDown(m.candidate, m.term)
          \/ UNCHANGED <<status, currentTerm, votedFor>>
          \/ status' = [status EXCEPT ![m.candidate] = Leader] /\ UNCHANGED durableVars
      BY <1>7 DEF SendRequestVote, BecomeLeader, durableVars
    <3> QED
      BY <1>1, <2>1, <3>1, StepDownType DEF TypeOK, durableVars
  <2>3. votedNum' \in [Server -> SUBSET Server] /\ up' \in [Server -> BOOLEAN]
    <3>1. votedNum \in [Server -> SUBSET Server] /\ up \in [Server -> BOOLEAN]
      BY <1>1 DEF TypeOK
    <3>2. \/ UNCHANGED <<up, votedNum>>
          \/ /\ votedNum' = [votedNum EXCEPT ![m.candidate] = votedNum[m.candidate] \cup {m.voter}]
             /\ UNCHANGED up
          \/ /\ votedNum' = [votedNum EXCEPT ![m.candidate] = {}]
             /\ up' = [up EXCEPT ![m.candidate] = status[m.candidate] # Leader]
      BY <1>7 DEF SendRequestVote, BecomeLeader, Asserts
    <3>3. votedNum' \in [Server -> SUBSET Server]
      BY <2>1, <3>1, <3>2
    <3>4. up' \in [Server -> BOOLEAN]
      BY <2>1, <3>1, <3>2
    <3> QED
      BY <3>3, <3>4
  <2>4. /\ nextIndex' \in [Server -> [Server -> Nat]]
        /\ matchIndex' \in [Server -> [Server -> Nat]]
    <3>1. /\ nextIndex \in [Server -> [Server -> Nat]]
          /\ matchIndex \in [Server -> [Server -> Nat]]
          /\ LastLogIndex(m.candidate) + 1 \in Nat
      <4>1. LastLogIndex(m.candidate) + 1 \in Nat
        BY <1>4, <2>1
      <4> QED
        BY <1>1, <4>1 DEF TypeOK
    <3>2. \/ UNCHANGED <<nextIndex, matchIndex>>
          \/ /\ nextIndex' = [nextIndex EXCEPT ![m.candidate] =
                               [j \in Server |-> LastLogIndex(m.candidate) + 1]]
             /\ matchIndex' = [matchIndex EXCEPT ![m.candidate] = [j \in Server |-> 0]]
      BY <1>7 DEF SendRequestVote, BecomeLeader
    <3> DEFINE next == LastLogIndex(m.candidate) + 1
    <3>3. CASE UNCHANGED <<nextIndex, matchIndex>>
      BY <3>1, <3>3
    <3>4. CASE /\ nextIndex' = [nextIndex EXCEPT ![m.candidate] = [j \in Server |-> next]]
               /\ matchIndex' = [matchIndex EXCEPT ![m.candidate] = [j \in Server |-> 0]]
      <4>0. next \in Nat
        BY <3>1
      <4> HIDE DEF next
      <4>1. nextIndex' \in [Server -> [Server -> Nat]]
        BY <2>1, <3>1, <3>4, <4>0, IndexTableType
      <4>2. matchIndex' \in [Server -> [Server -> Nat]]
        BY <2>1, <3>1, <3>4, IndexTableType
      <4> QED
        BY <4>1, <4>2
    <3> QED
      BY <3>2, <3>3, <3>4
  <2>5. persisted' \in [Server -> Saved]
    BY <1>1, <1>3, <1>7, <2>1, <2>2, PersistType DEF SendRequestVote, BecomeLeader, TypeOK
  <2> QED
    BY <1>1, <1>3, <1>7, <2>2, <2>3, <2>4, <2>5
    DEF SendRequestVote, TypeOK, applyVars, appendCalls, snapCalls
<1> QED
  BY <1>5, <1>6, <1>7 DEF ElectionNext

\* Types are kept by the steps of replication.
LEMMA AppendTypes ==
  ASSUME IInv, AppendNext
  PROVE  TypeOK'
<1>1. TypeOK
  BY DEF IInv
<1>2. Next
  BY DEF Next
<1>3. logs' \in [Server -> Seq(Entry)] /\ lastSnapshot' \in [Server -> Snapshot]
  BY <1>2, LogStep
<1>4. \A i \in Server : /\ LastLogIndex(i) \in Nat
                        /\ Len(logs[i]) \in Nat /\ DOMAIN logs[i] = 1 .. Len(logs[i])
                        /\ logs[i] \in Seq(Entry) /\ lastSnapshot[i].index \in Nat
                        /\ LastLogIndex(i) = lastSnapshot[i].index + Len(logs[i])
  BY LastLogIndexIs, LenProperties DEF IInv, TypeOK, Snapshot
<1>5. ASSUME NEW i \in Server, DoHeartBeat(i)
      PROVE  TypeOK'
  <2>1. PICK r \in Rounds :
          /\ appendRequests' = appendRequests \cup
               {AppendCall(i, j, r) : j \in {k \in Server \ {i} : ~BehindSnapshot(i, k)}}
          /\ snapshotThreads' = snapshotThreads \cup
               {[leader |-> i, follower |-> j, round |-> r] :
                  j \in {k \in Server \ {i} : BehindSnapshot(i, k)}}
          /\ appendNums' = [appendNums EXCEPT ![i][r] = {i}]
    BY <1>5 DEF DoHeartBeat
  <2>2. ASSUME NEW j \in Server, ~BehindSnapshot(i, j)
        PROVE  AppendCall(i, j, r) \in AppendRequest
    <3>1. nextIndex[i][j] \in Nat /\ nextIndex[i][j] > lastSnapshot[i].index
      <4>1. nextIndex[i][j] \in Nat
        BY <1>1, <2>2 DEF TypeOK
      <4> QED
        BY <1>4, <2>2, <4>1 DEF BehindSnapshot
    <3>2. PrevLogIndex(i, j) \in Nat
      BY <1>4, <3>1 DEF PrevLogIndex
    <3>3. LogTermAt(i, PrevLogIndex(i, j)) \in Nat
      BY <1>1, <3>2, LogTermType
    <3>4. SubSeq(logs[i], Slice(i, nextIndex[i][j]), Len(logs[i])) \in Seq(Entry)
      <4>1. Slice(i, nextIndex[i][j]) \in Nat /\ Slice(i, nextIndex[i][j]) >= 1
        BY <1>4, <3>1 DEF Slice
      <4>2. \A k \in Slice(i, nextIndex[i][j]) .. Len(logs[i]) : logs[i][k] \in Entry
        BY <1>4, <4>1, ElementOfSeq
      <4> QED
        BY <1>4, <4>1, <4>2, SubSeqProperties
    <3> QED
      BY <1>1, <3>2, <3>3, <3>4 DEF AppendCall, AppendRequest, TypeOK
  <2>3. appendRequests' \subseteq AppendRequest
    BY <1>1, <2>1, <2>2 DEF TypeOK
  <2>4. snapshotThreads' \subseteq SnapshotThread
    BY <1>1, <2>1 DEF TypeOK, SnapshotThread
  <2>5. appendNums' \in [Server -> [Rounds -> SUBSET Server]]
    BY <1>1, <2>1 DEF TypeOK
  <2>6. up' \in [Server -> BOOLEAN]
    BY <1>1, <1>5 DEF DoHeartBeat, Asserts, TypeOK
  <2> QED
    BY <1>1, <1>5, <2>3, <2>4, <2>5, <2>6
    DEF DoHeartBeat, TypeOK, durableVars, applyVars, electionVars
<1>6. ASSUME NEW i \in Server, StartSome(i)
      PROVE  TypeOK'
  <2>1. PICK command \in Command : Start(i, command)
    BY <1>6 DEF StartSome
  <2>2. persisted' \in [Server -> Saved]
    BY <1>1, <1>3, <2>1, PersistType DEF Start, TypeOK
  <2> QED
    BY <1>1, <1>3, <2>1, <2>2
    DEF Start, TypeOK, applyVars, leaderVars, electionVars, appendCalls, snapCalls
<1>7. ASSUME NEW m \in appendRequests, AppendEntries1(m)
      PROVE  TypeOK'
  <2> DEFINE i == m.follower
  <2>1. /\ m \in AppendRequest /\ i \in Server /\ m.leader \in Server /\ m.term \in Nat
        /\ m.prevLogIndex \in Nat /\ m.entries \in Seq(Entry) /\ m.leaderCommit \in Nat
        /\ m.round \in Rounds
    BY <1>1 DEF TypeOK, AppendRequest
  <2>2. /\ currentTerm' \in [Server -> Nat]
        /\ votedFor' \in [Server -> Server \cup {Nil}]
        /\ status' \in [Server -> {Follower, Candidate, Leader}]
    <3>1. /\ currentTerm \in [Server -> Nat]
          /\ votedFor \in [Server -> Server \cup {Nil}]
          /\ status \in [Server -> {Follower, Candidate, Leader}]
      BY <1>1 DEF TypeOK
    <3>2. \/ UNCHANGED <<status, currentTerm, votedFor>>
          \/ /\ currentTerm' = [currentTerm EXCEPT ![i] = Larger(currentTerm[i], m.term)]
             /\ votedFor' = [votedFor EXCEPT ![i] = VoteAfter(i, m.term)]
             /\ status' = [status EXCEPT ![i] = Follower]
      BY <1>7 DEF AppendEntries1, StatusAfterCall, durableVars, AdoptTerm
    <3>3. Larger(currentTerm[i], m.term) \in Nat /\ VoteAfter(i, m.term) \in Server \cup {Nil}
      BY <2>1, <3>1 DEF Larger, VoteAfter
    <3>4. CASE UNCHANGED <<status, currentTerm, votedFor>>
      BY <3>1, <3>4
    <3>5. CASE /\ currentTerm' = [currentTerm EXCEPT ![i] = Larger(currentTerm[i], m.term)]
               /\ votedFor' = [votedFor EXCEPT ![i] = VoteAfter(i, m.term)]
               /\ status' = [status EXCEPT ![i] = Follower]
      BY <2>1, <3>1, <3>3, <3>5
    <3> QED
      BY <3>2, <3>4, <3>5
  <2>3. up' \in [Server -> BOOLEAN]
    BY <1>1, <1>7, <2>1
    DEF AppendEntries1, AcceptEntries, RejectEntries, PrevInsideSnapshot, Asserts, TypeOK
  <2>4. commitIndex' \in [Server -> Nat]
    <3>1. CASE UNCHANGED commitIndex
      BY <1>1, <3>1 DEF TypeOK
    <3>2. CASE AcceptEntries(i, m)
      <4>1. LastLogIndex(i)' \in Nat
        BY <1>2, <1>3, <2>1, LogStep, LenProperties DEF Snapshot
      <4>2. FollowerCommit(i, m.leaderCommit, LastLogIndex(i)') \in Nat
        BY <1>1, <2>1, <4>1 DEF FollowerCommit, Smaller, TypeOK
      <4> QED
        BY <1>1, <2>1, <3>2, <4>2 DEF AcceptEntries, TypeOK
    <3> QED
      BY <1>7, <3>1, <3>2 DEF AppendEntries1, RejectEntries, PrevInsideSnapshot
  <2>5. appendRequests' \subseteq AppendRequest /\ appendReplies' \subseteq AppendReply
    <3>1. CASE PrevInsideSnapshot(i, m)
      BY <1>1, <3>1 DEF PrevInsideSnapshot, TypeOK
    <3>2. ASSUME NEW term \in Nat, NEW success \in BOOLEAN, NEW hint \in Nat \cup {NoHint},
                 AnswerAppend(m, term, success, hint)
          PROVE  appendRequests' \subseteq AppendRequest /\ appendReplies' \subseteq AppendReply
      <4>1. m.prevLogIndex + Len(m.entries) \in Nat
        BY <2>1, LenProperties
      <4>2. (IF m.entries = <<>> THEN 0 ELSE m.entries[Len(m.entries)].term) \in Nat
        <5>1. m.entries # <<>> => m.entries[Len(m.entries)] \in Entry
          BY <2>1, EmptySeq, ElementOfSeq
        <5> QED
          BY <5>1 DEF Entry
      <4> QED
        <5>1. appendRequests \subseteq AppendRequest /\ appendReplies \subseteq AppendReply
          BY <1>1 DEF TypeOK
        <5>2. [leader |-> m.leader, follower |-> m.follower, round |-> m.round, term |-> term,
               success |-> success, updateNextIndex |-> hint,
               upTo |-> m.prevLogIndex + Len(m.entries),
               tailTerm |-> IF m.entries = <<>> THEN 0 ELSE m.entries[Len(m.entries)].term]
                 \in AppendReply
          BY <2>1, <3>2, <4>1, <4>2 DEF AppendReply
        <5> QED
          BY <3>2, <5>1, <5>2 DEF AnswerAppend
    <3>3. CASE AnswerAppend(m, currentTerm[i], FALSE, NoHint)
      <4>1. currentTerm[i] \in Nat
        BY <1>1, <2>1 DEF TypeOK
      <4> QED
        BY <3>2, <3>3, <4>1
    <3>4. CASE AcceptEntries(i, m)
      BY <2>1, <3>2, <3>4 DEF AcceptEntries
    <3>5. CASE RejectEntries(i, m)
      <4>1. LastLogIndex(i) + 1 \in Nat
        BY <1>4, <2>1
      <4>2. m.prevLogIndex >= lastSnapshot[i].index => ConflictIndex(i, m.prevLogIndex) \in Nat
        BY <1>1, <1>4, <2>1, ConflictFacts
      <4> QED
        BY <2>1, <3>2, <3>5, <4>1, <4>2 DEF RejectEntries
    <3> QED
      BY <1>7, <3>1, <3>3, <3>4, <3>5 DEF AppendEntries1
  <2>6. persisted' \in [Server -> Saved]
    BY <1>1, <1>3, <1>7, <2>1, <2>2, PersistType DEF AppendEntries1, TypeOK
  <2> QED
    BY <1>1, <1>3, <1>7, <2>2, <2>3, <2>4, <2>5, <2>6
    DEF AppendEntries1, TypeOK, applyVars, leaderVars, electionVars, snapCalls
<1>8. ASSUME NEW m \in appendReplies, SendAppendEntries(m)
      PROVE  TypeOK'
  <2> DEFINE i == m.leader
  <2>1. /\ i \in Server /\ m.follower \in Server /\ m.round \in Rounds /\ m.term \in Nat
        /\ m.updateNextIndex \in Nat \cup {NoHint} /\ m.upTo \in Nat
    BY <1>1 DEF TypeOK, AppendReply
  <2>2. /\ currentTerm' \in [Server -> Nat]
        /\ votedFor' \in [Server -> Server \cup {Nil}]
        /\ status' \in [Server -> {Follower, Candidate, Leader}]
    <3>1. StepDown(i, m.term) \/ UNCHANGED <<status, currentTerm, votedFor>>
      BY <1>8 DEF SendAppendEntries
    <3> QED
      BY <1>1, <2>1, <3>1, StepDownType DEF TypeOK
  <2>3. up' \in [Server -> BOOLEAN]
    BY <1>1, <1>8, <2>1 DEF SendAppendEntries, Acknowledged, Asserts, TypeOK
  <2>4. MatchAfter(i, m) \in Nat
    BY <1>1, <2>1 DEF MatchAfter, Larger, TypeOK
  <2>5. /\ nextIndex' \in [Server -> [Server -> Nat]]
        /\ matchIndex' \in [Server -> [Server -> Nat]]
    <3>1. /\ nextIndex \in [Server -> [Server -> Nat]]
          /\ matchIndex \in [Server -> [Server -> Nat]]
      BY <1>1 DEF TypeOK
    <3>2. \/ UNCHANGED <<nextIndex, matchIndex>>
          \/ /\ nextIndex' = [nextIndex EXCEPT ![i][m.follower] = MatchAfter(i, m) + 1]
             /\ matchIndex' = [matchIndex EXCEPT ![i][m.follower] = MatchAfter(i, m)]
          \/ /\ m.updateNextIndex # NoHint
             /\ nextIndex' = [nextIndex EXCEPT ![i][m.follower] = m.updateNextIndex]
             /\ UNCHANGED matchIndex
      BY <1>8 DEF SendAppendEntries, Acknowledged
    <3>3. MatchAfter(i, m) + 1 \in Nat
      BY <2>4
    <3>4. nextIndex' \in [Server -> [Server -> Nat]]
      <4>1. PICK n \in Nat : \/ nextIndex' = nextIndex
                           \/ nextIndex' = [nextIndex EXCEPT ![i][m.follower] = n]
        <5>1. MatchAfter(i, m) + 1 \in Nat /\ 0 \in Nat
          BY <3>3
        <5>2. m.updateNextIndex # NoHint => m.updateNextIndex \in Nat
          BY <2>1
        <5> QED
          BY <3>2, <5>1, <5>2
      <4>2. CASE nextIndex' = nextIndex
        BY <3>1, <4>2
      <4>3. CASE nextIndex' = [nextIndex EXCEPT ![i][m.follower] = n]
        BY <2>1, <3>1, <4>3, IndexTableType
      <4> QED
        BY <4>1, <4>2, <4>3
    <3>5. matchIndex' \in [Server -> [Server -> Nat]]
      BY <2>1, <2>4, <3>1, <3>2, IndexTableType
    <3> QED
      BY <3>4, <3>5
  <2>6. commitIndex' \in [Server -> Nat]
    <3>1. \A counted : CommitAfter(i, m, counted) \in Nat
      BY <1>1, <2>1 DEF CommitAfter, Larger, TypeOK
    <3> QED
      <4>1. \/ UNCHANGED commitIndex
            \/ \E counted : commitIndex' = [commitIndex EXCEPT ![i] = CommitAfter(i, m, counted)]
        BY <1>8 DEF SendAppendEntries, Acknowledged
      <4>2. commitIndex \in [Server -> Nat]
        BY <1>1 DEF TypeOK
      <4> QED
        BY <2>1, <3>1, <4>1, <4>2
  <2>7. appendNums' \in [Server -> [Rounds -> SUBSET Server]]
    <3>1. \A counted \in SUBSET Server : Tally(m, counted) \in [Server -> [Rounds -> SUBSET Server]]
      BY <1>1, <2>1 DEF Tally, TypeOK
    <3>2. appendNums[i][m.round] \subseteq Server
      <4>1. appendNums \in [Server -> [Rounds -> SUBSET Server]]
        BY <1>1 DEF TypeOK
      <4>2. appendNums[i] \in [Rounds -> SUBSET Server]
        BY <2>1, <4>1
      <4> QED
        BY <2>1, <4>2
    <3> DEFINE before == appendNums[i][m.round]
               after  == before \cup {m.follower}
    <3>3. \/ appendNums' = Tally(m, before)
          \/ appendNums' = Tally(m, IF Cardinality(after) >= Majority THEN {} ELSE after)
      BY <1>8 DEF SendAppendEntries, Acknowledged
    <3>4. /\ before \in SUBSET Server
          /\ (IF Cardinality(after) >= Majority THEN {} ELSE after) \in SUBSET Server
      BY <2>1, <3>2
    <3> HIDE DEF before, after
    <3> QED
      BY <3>1, <3>3, <3>4
  <2> QED
    BY <1>1, <1>8, <2>2, <2>3, <2>5, <2>6, <2>7
    DEF SendAppendEntries, TypeOK, applyVars, electionVars, snapCalls
<1>9. ASSUME NEW m \in appendRequests \cup appendReplies, LoseAppendCall(m)
      PROVE  TypeOK'
  <2>1. m.leader \in Server /\ m.round \in Rounds
    BY <1>1 DEF TypeOK, AppendRequest, AppendReply
  <2>2. appendNums' \in [Server -> [Rounds -> SUBSET Server]]
    BY <1>1, <1>9, <2>1 DEF LoseAppendCall, Tally, TypeOK
  <2> QED
    BY <1>1, <1>9, <2>2
    DEF LoseAppendCall, TypeOK, durableVars, applyVars, electionVars, snapCalls
<1> QED
  BY <1>5, <1>6, <1>7, <1>8, <1>9 DEF AppendNext

\* What getApplyLogs collects are messages: it reads inside the log.
LEMMA GetApplyLogsType ==
  ASSUME IInv, NEW i \in Server, lastApplied[i] < commitIndex[i]
  PROVE  GetApplyLogs(i) \in Seq(ApplyMsg)
<1> DEFINE n == commitIndex[i] - lastApplied[i]
           from == Slice(i, lastApplied[i])
           msg(k) == CommandMsg(logs[i][from + k])
<1>1. /\ lastApplied[i] \in Nat /\ commitIndex[i] \in Nat /\ lastSnapshot[i].index \in Nat
      /\ logs[i] \in Seq(Entry)
  BY DEF IInv, TypeOK, Snapshot
<1>2. /\ LastLogIndex(i) = lastSnapshot[i].index + Len(logs[i])
      /\ Len(logs[i]) \in Nat /\ DOMAIN logs[i] = 1 .. Len(logs[i])
  BY <1>1, LastLogIndexIs, LenProperties DEF IInv
<1>3. lastSnapshot[i].index <= lastApplied[i] /\ commitIndex[i] <= LastLogIndex(i)
  BY DEF IInv, IndexBounds, CommitWithinLog
<1>4. n \in Nat /\ from \in Nat /\ from + n <= Len(logs[i])
  BY <1>1, <1>2, <1>3 DEF Slice
<1>5. ASSUME NEW k \in 1 .. n
      PROVE  msg(k) \in ApplyMsg
  <2>1. from + k \in 1 .. Len(logs[i])
    <3> HIDE DEF n, from
    <3> QED
      BY <1>2, <1>4
  <2>2. logs[i][from + k] \in Entry
    <3> HIDE DEF n, from
    <3> QED
      BY <1>1, <1>2, <2>1, ElementOfSeq
  <2> QED
    BY <2>2 DEF CommandMsg, ApplyMsg, Entry
<1>6. [k \in 1 .. n |-> msg(k)] \in [1 .. n -> ApplyMsg]
  <2> HIDE DEF n, msg
  <2> QED
    BY <1>5
<1>7. [k \in 1 .. n |-> msg(k)] \in Seq(ApplyMsg)
  <2> HIDE DEF n, msg
  <2> QED
    BY <1>4, <1>6, SeqDef
<1> QED
  BY <1>7 DEF GetApplyLogs

\* Types are kept by applierTicker.
LEMMA ApplyTypes ==
  ASSUME IInv, ApplyNext
  PROVE  TypeOK'
<1>1. TypeOK
  BY DEF IInv
<1>2. ASSUME NEW i \in Server, CollectApplyMsgs(i)
      PROVE  TypeOK'
  <2>1. GetApplyLogs(i) \in Seq(ApplyMsg)
    BY <1>2, GetApplyLogsType DEF CollectApplyMsgs
  <2>2. /\ applying' \in [Server -> Seq(ApplyMsg)]
        /\ lastApplied' \in [Server -> Nat]
    BY <1>1, <1>2, <2>1 DEF CollectApplyMsgs, TypeOK
  <2>3. up' \in [Server -> BOOLEAN]
    BY <1>1, <1>2 DEF CollectApplyMsgs, Asserts, TypeOK
  <2> QED
    BY <1>1, <1>2, <2>2, <2>3
    DEF CollectApplyMsgs, TypeOK, durableVars, leaderVars, electionVars, appendCalls, snapCalls
<1>3. ASSUME NEW i \in Server, PushApplyMsg(i)
      PROVE  TypeOK'
  <2>1. /\ Head(applying[i]) \in ApplyMsg /\ Tail(applying[i]) \in Seq(ApplyMsg)
    BY <1>1, <1>3, HeadTailProperties DEF PushApplyMsg, TypeOK
  <2>2. Append(applyChan[i], Head(applying[i])) \in Seq(ApplyMsg)
    BY <1>1, <2>1, AppendProperties DEF TypeOK
  <2>3. /\ applying' \in [Server -> Seq(ApplyMsg)]
        /\ applyChan' \in [Server -> Seq(ApplyMsg)]
    BY <1>1, <1>3, <2>1, <2>2 DEF PushApplyMsg, TypeOK
  <2> QED
    BY <1>1, <1>3, <2>3
    DEF PushApplyMsg, TypeOK, durableVars, leaderVars, electionVars, appendCalls, snapCalls
<1> QED
  BY <1>2, <1>3, SubsetsAssumption DEF ApplyNext

\* Types are kept by the steps that make, send and install snapshots.
LEMMA SnapshotTypes ==
  ASSUME IInv, SnapshotNext
  PROVE  TypeOK'
<1>1. TypeOK
  BY DEF IInv
<1>2. Next
  BY DEF Next
<1>3. logs' \in [Server -> Seq(Entry)] /\ lastSnapshot' \in [Server -> Snapshot]
  BY <1>2, LogStep
<1>4. ASSUME NEW i \in Server, SnapshotDelivered(i)
      PROVE  TypeOK'
  <2>1. PICK index \in SnapshotIndexes : Delivered(i, index) /\ MakeSnapshot(i, index)
    BY <1>4 DEF SnapshotDelivered
  <2>2. index \in Nat
    <3>1. PICK k \in DOMAIN applyChan[i] : applyChan[i][k].index = index
      BY <2>1 DEF Delivered
    <3>2. applyChan[i][k] \in ApplyMsg
      BY <1>1, <3>1, LenProperties, ElementOfSeq DEF TypeOK
    <3> QED
      BY <3>1, <3>2 DEF ApplyMsg
  <2>3. lastApplied' \in [Server -> Nat]
    BY <1>1, <2>1, <2>2 DEF MakeSnapshot, Larger, TypeOK
  <2>4. up' \in [Server -> BOOLEAN]
    BY <1>1, <2>1 DEF MakeSnapshot, Asserts, TypeOK
  <2>5. persisted' \in [Server -> Saved]
    BY <1>1, <1>3, <2>1, PersistType DEF MakeSnapshot, TypeOK
  <2> QED
    BY <1>1, <1>3, <2>1, <2>3, <2>4, <2>5
    DEF MakeSnapshot, TypeOK, leaderVars, electionVars, appendCalls, snapCalls
<1>5. ASSUME NEW t \in snapshotThreads, LeaderSendSnapShot(t)
      PROVE  TypeOK'
  <2>1. t.leader \in Server /\ t.follower \in Server /\ t.round \in Rounds
    BY <1>1 DEF TypeOK, SnapshotThread
  <2>2. [leader |-> t.leader, follower |-> t.follower, round |-> t.round,
         term |-> currentTerm[t.leader], snapshot |-> lastSnapshot[t.leader]] \in SnapshotRequest
    BY <1>1, <2>1 DEF TypeOK, SnapshotRequest
  <2>3. snapshotRequests' \subseteq SnapshotRequest /\ snapshotThreads' \subseteq SnapshotThread
    BY <1>1, <1>5, <2>2 DEF LeaderSendSnapShot, TypeOK
  <2> QED
    BY <1>1, <1>5, <2>3
    DEF LeaderSendSnapShot, TypeOK, durableVars, applyVars, leaderVars, electionVars, appendCalls
<1>6. ASSUME NEW m \in snapshotRequests, NEW replyTerm \in Nat, AnswerSnapshot(m, replyTerm)
      PROVE  snapshotRequests' \subseteq SnapshotRequest /\ snapshotReplies' \subseteq SnapshotReply
  <2>1. snapshotRequests \subseteq SnapshotRequest /\ snapshotReplies \subseteq SnapshotReply
    BY <1>1 DEF TypeOK
  <2>2. [leader |-> m.leader, follower |-> m.follower, round |-> m.round, term |-> m.term,
         replyTerm |-> replyTerm, index |-> m.snapshot.index] \in SnapshotReply
    BY <2>1, <1>6 DEF SnapshotRequest, SnapshotReply, Snapshot
  <2> QED
    BY <1>6, <2>1, <2>2 DEF AnswerSnapshot
<1>7. ASSUME NEW m \in snapshotRequests, InstallSnapshot(m)
      PROVE  TypeOK'
  <2> DEFINE i == m.follower
             index == m.snapshot.index
  <2>1. /\ i \in Server /\ m.term \in Nat
        /\ m.snapshot \in Snapshot /\ index \in Nat
    BY <1>1 DEF TypeOK, SnapshotRequest, Snapshot
  <2>2. /\ currentTerm' \in [Server -> Nat]
        /\ votedFor' \in [Server -> Server \cup {Nil}]
        /\ status' \in [Server -> {Follower, Candidate, Leader}]
    <3>1. /\ currentTerm \in [Server -> Nat]
          /\ votedFor \in [Server -> Server \cup {Nil}]
          /\ status \in [Server -> {Follower, Candidate, Leader}]
      BY <1>1 DEF TypeOK
    <3>2. \/ UNCHANGED <<status, currentTerm, votedFor>>
          \/ /\ currentTerm' = [currentTerm EXCEPT ![i] = Larger(currentTerm[i], m.term)]
             /\ votedFor' = [votedFor EXCEPT ![i] = VoteAfter(i, m.term)]
             /\ status' = [status EXCEPT ![i] = Follower]
      BY <1>7 DEF InstallSnapshot, StatusAfterCall, durableVars, AdoptTerm
    <3>3. Larger(currentTerm[i], m.term) \in Nat /\ VoteAfter(i, m.term) \in Server \cup {Nil}
      BY <2>1, <3>1 DEF Larger, VoteAfter
    <3>4. CASE UNCHANGED <<status, currentTerm, votedFor>>
      BY <3>1, <3>4
    <3>5. CASE /\ currentTerm' = [currentTerm EXCEPT ![i] = Larger(currentTerm[i], m.term)]
               /\ votedFor' = [votedFor EXCEPT ![i] = VoteAfter(i, m.term)]
               /\ status' = [status EXCEPT ![i] = Follower]
      BY <2>1, <3>1, <3>3, <3>5
    <3> QED
      BY <3>2, <3>4, <3>5
  <2>3. snapshotRequests' \subseteq SnapshotRequest /\ snapshotReplies' \subseteq SnapshotReply
    <3>1. currentTerm[i] \in Nat /\ 0 \in Nat
      BY <1>1, <2>1 DEF TypeOK
    <3>2. CASE LeaveUnanswered(m)
      BY <1>1, <3>2 DEF LeaveUnanswered, TypeOK
    <3> QED
      BY <1>6, <1>7, <2>1, <3>1, <3>2 DEF InstallSnapshot
  <2>4. SnapshotMsg(index) \in ApplyMsg
    BY <2>1 DEF SnapshotMsg, ApplyMsg
  <2>5. /\ commitIndex' \in [Server -> Nat]
        /\ lastApplied' \in [Server -> Nat]
        /\ applyChan' \in [Server -> Seq(ApplyMsg)]
        /\ latePushes' \subseteq Server \X ApplyMsg
        /\ applying' = applying
    <3>1. CASE UNCHANGED <<commitIndex, applyVars>>
      BY <1>1, <3>1 DEF TypeOK, applyVars
    <3>2. CASE Install(i, m.snapshot) /\ UNCHANGED applying
      <4>1. CommitAfterInstall(i, index) \in Nat /\ Larger(lastApplied[i], index) \in Nat
        BY <1>1, <2>1 DEF CommitAfterInstall, Larger, TypeOK
      <4>2. commitIndex' \in [Server -> Nat] /\ lastApplied' \in [Server -> Nat]
        BY <1>1, <2>1, <3>2, <4>1 DEF Install, TypeOK
      <4>3. PushedByInstall(i, index) \in Seq(ApplyMsg)
        BY <1>1, <2>1, <2>4, AppendProperties DEF PushedByInstall, TypeOK
      <4>4. applyChan' \in [Server -> Seq(ApplyMsg)]
        BY <1>1, <2>1, <3>2, <4>3 DEF Install, TypeOK
      <4>5. latePushes' \subseteq Server \X ApplyMsg
        <5>1. latePushes \subseteq Server \X ApplyMsg
          BY <1>1 DEF TypeOK
        <5>2. latePushes' = latePushes \cup {<<i, SnapshotMsg(index)>>}
          BY <3>2 DEF Install
        <5> QED
          BY <2>1, <2>4, <5>1, <5>2
      <4> QED
        BY <3>2, <4>2, <4>4, <4>5
    <3> QED
      BY <1>7, <3>1, <3>2 DEF InstallSnapshot
  <2>6. persisted' \in [Server -> Saved]
    BY <1>1, <1>3, <1>7, <2>1, <2>2, PersistType DEF InstallSnapshot, Install, TypeOK
  <2> QED
    BY <1>1, <1>3, <1>7, <2>2, <2>3, <2>5, <2>6
    DEF InstallSnapshot, TypeOK, leaderVars, electionVars, appendCalls
<1>8. ASSUME NEW m \in snapshotRequests, SnapshotToClosedPeer(m)
      PROVE  TypeOK'
  <2>1. snapshotRequests' \subseteq SnapshotRequest /\ snapshotReplies' \subseteq SnapshotReply
    BY <1>6, <1>8 DEF SnapshotToClosedPeer
  <2> QED
    BY <1>1, <1>8, <2>1
    DEF SnapshotToClosedPeer, TypeOK, durableVars, applyVars, leaderVars, electionVars, appendCalls
<1>9. ASSUME NEW m \in snapshotReplies, SnapshotAnswered(m)
      PROVE  TypeOK'
  <2> DEFINE i == m.leader
  <2>1. i \in Server /\ m.follower \in Server /\ m.replyTerm \in Nat /\ m.index \in Nat
    BY <1>1 DEF TypeOK, SnapshotReply
  <2>2. /\ currentTerm' \in [Server -> Nat]
        /\ votedFor' \in [Server -> Server \cup {Nil}]
        /\ status' \in [Server -> {Follower, Candidate, Leader}]
    <3>1. StepDown(i, m.replyTerm) \/ UNCHANGED <<status, currentTerm, votedFor>>
      BY <1>9 DEF SnapshotAnswered, durableVars
    <3> QED
      BY <1>1, <2>1, <3>1, StepDownType DEF TypeOK
  <2>3. /\ nextIndex' \in [Server -> [Server -> Nat]]
        /\ matchIndex' \in [Server -> [Server -> Nat]]
    <3>1. CASE UNCHANGED <<nextIndex, matchIndex>>
      BY <1>1, <3>1 DEF TypeOK
    <3>2. CASE /\ matchIndex' = [matchIndex EXCEPT ![i][m.follower] = m.index]
               /\ nextIndex' = [nextIndex EXCEPT ![i][m.follower] = m.index + 1]
      <4>1. m.index + 1 \in Nat
        BY <2>1
      <4>2. nextIndex \in [Server -> [Server -> Nat]] /\ matchIndex \in [Server -> [Server -> Nat]]
        BY <1>1 DEF TypeOK
      <4>3. nextIndex' \in [Server -> [Server -> Nat]]
        BY <2>1, <3>2, <4>1, <4>2, IndexTableType
      <4>4. matchIndex' \in [Server -> [Server -> Nat]]
        BY <2>1, <3>2, <4>2, IndexTableType
      <4> QED
        BY <4>3, <4>4
    <3> QED
      BY <1>9, <3>1, <3>2 DEF SnapshotAnswered
  <2>4. persisted' \in [Server -> Saved]
    BY <1>1, <1>3, <1>9, <2>1, <2>2, PersistType DEF SnapshotAnswered, TypeOK
  <2> QED
    BY <1>1, <1>3, <1>9, <2>2, <2>3, <2>4
    DEF SnapshotAnswered, TypeOK, applyVars, electionVars, appendCalls
<1>10. ASSUME NEW m \in snapshotRequests \cup snapshotReplies, LoseSnapshotCall(m)
       PROVE  TypeOK'
  BY <1>1, <1>10
  DEF LoseSnapshotCall, TypeOK, durableVars, applyVars, leaderVars, electionVars, appendCalls
<1>11. ASSUME NEW p \in latePushes, PushMsgToKvServer(p)
       PROVE  TypeOK'
  <2>1. p[1] \in Server /\ p[2] \in ApplyMsg
    BY <1>1 DEF TypeOK
  <2>2. Append(applyChan[p[1]], p[2]) \in Seq(ApplyMsg)
    BY <1>1, <2>1, AppendProperties DEF TypeOK
  <2>3. applyChan' \in [Server -> Seq(ApplyMsg)]
    BY <1>1, <1>11, <2>1, <2>2 DEF PushMsgToKvServer, TypeOK
  <2> QED
    BY <1>1, <1>11, <2>3
    DEF PushMsgToKvServer, TypeOK, durableVars, leaderVars, electionVars, appendCalls, snapCalls
<1> QED
  BY <1>4, <1>5, <1>7, <1>8, <1>9, <1>10, <1>11 DEF SnapshotNext

\* Types are kept by every step.
LEMMA TypeStep ==
  ASSUME IInv, Next
  PROVE  TypeOK'
BY ElectionTypes, AppendTypes, ApplyTypes, SnapshotTypes DEF Next

\* A call that doHeartBeat makes carries the log from nextIndex to the end.
LEMMA AppendCallFacts ==
  ASSUME IInv, NEW i \in Server, NEW j \in Server, NEW r \in Rounds, ~BehindSnapshot(i, j)
  PROVE  LET call == AppendCall(i, j, r) IN
         /\ call.leader = i
         /\ \A k \in DOMAIN call.entries :
              /\ call.entries[k].index = call.prevLogIndex + k
              /\ \E p \in DOMAIN logs[i] : call.entries[k] = logs[i][p]
         /\ call.prevLogIndex + Len(call.entries) <= LastLogIndex(i)
<1> DEFINE next == nextIndex[i][j]
           base == lastSnapshot[i].index
           from == Slice(i, next)
           sent == SubSeq(logs[i], from, Len(logs[i]))
<1>1. /\ next \in Nat /\ base \in Nat /\ logs[i] \in Seq(Entry)
  BY DEF IInv, TypeOK, Snapshot
<1>2. /\ LastLogIndex(i) = base + Len(logs[i])
      /\ Len(logs[i]) \in Nat /\ DOMAIN logs[i] = 1 .. Len(logs[i])
  BY <1>1, LastLogIndexIs, LenProperties DEF IInv
<1>3. next > base /\ next <= LastLogIndex(i) + 1
  BY <1>1 DEF BehindSnapshot, IInv, IndexBounds
<1>4. from \in Nat /\ from >= 1 /\ from = next - base /\ from <= Len(logs[i]) + 1
  BY <1>1, <1>2, <1>3 DEF Slice
<1>5. \A k \in from .. Len(logs[i]) : logs[i][k] \in Entry
  <2> HIDE DEF from
  <2> QED
    BY <1>1, <1>2, <1>4, ElementOfSeq
<1>6. /\ sent \in Seq(Entry)
      /\ Len(sent) = IF from <= Len(logs[i]) THEN Len(logs[i]) - from + 1 ELSE 0
      /\ \A k \in 1 .. Len(logs[i]) - from + 1 : sent[k] = logs[i][from + k - 1]
  <2> HIDE DEF from
  <2> QED
    BY <1>2, <1>4, <1>5, SubSeqProperties
<1>7. Len(sent) = Len(logs[i]) - from + 1 /\ DOMAIN sent = 1 .. Len(sent)
  <2>1. DOMAIN sent = 1 .. Len(sent)
    BY <1>6, LenProperties
  <2> HIDE DEF from, sent
  <2> QED
    BY <1>2, <1>4, <1>6, <2>1
<1>8. ASSUME NEW k \in DOMAIN sent
      PROVE  sent[k].index = next - 1 + k /\ \E p \in DOMAIN logs[i] : sent[k] = logs[i][p]
  <2> HIDE DEF from, sent
  <2>1. k \in 1 .. Len(logs[i]) - from + 1
    BY <1>7
  <2>2. sent[k] = logs[i][from + k - 1] /\ from + k - 1 \in DOMAIN logs[i]
    <3> HIDE DEF base, next
    <3> QED
      BY <1>2, <1>4, <1>6, <2>1
  <2>3. logs[i][from + k - 1].index = base + (from + k - 1)
    BY <2>2 DEF IInv, Contiguous
  <2> HIDE DEF base, next
  <2> QED
    BY <1>1, <1>4, <2>1, <2>2, <2>3
<1>9. next - 1 + Len(sent) <= LastLogIndex(i)
  <2> HIDE DEF from, sent, base, next
  <2> QED
    BY <1>1, <1>2, <1>4, <1>7
<1> HIDE DEF from, sent
<1>10. /\ AppendCall(i, j, r).entries = sent
       /\ AppendCall(i, j, r).prevLogIndex = next - 1
       /\ AppendCall(i, j, r).leader = i
  BY DEF AppendCall, PrevLogIndex, sent, from
<1> QED
  BY <1>8, <1>9, <1>10

\* Calls under way come from doHeartBeat of a leader.
LEMMA AppendRequestOrigin ==
  ASSUME IInv, Next, NEW m \in appendRequests'
  PROVE  \/ m \in appendRequests
         \/ \E i \in Server, j \in Server, r \in Rounds :
              /\ status[i] = Leader /\ i # j
              /\ ~BehindSnapshot(i, j) /\ m = AppendCall(i, j, r)
              /\ UNCHANGED <<status, currentTerm, logs, lastSnapshot>>
<1>1. CASE ElectionNext
  BY <1>1 DEF ElectionNext, DoElection, RequestVote, SendRequestVote, appendCalls
<1>2. CASE AppendNext
  <2>1. CASE \E i \in Server : DoHeartBeat(i)
    BY <2>1 DEF DoHeartBeat, durableVars
  <2>2. CASE \E i \in Server : StartSome(i)
    BY <2>2 DEF StartSome, Start, appendCalls
  <2>3. CASE \E q \in appendRequests : AppendEntries1(q)
    BY <2>3 DEF AppendEntries1, AcceptEntries, RejectEntries, PrevInsideSnapshot, AnswerAppend
  <2>4. CASE \E q \in appendReplies : SendAppendEntries(q)
    BY <2>4 DEF SendAppendEntries
  <2>5. CASE \E q \in appendRequests \cup appendReplies : LoseAppendCall(q)
    BY <2>5 DEF LoseAppendCall
  <2> QED
    BY <1>2, <2>1, <2>2, <2>3, <2>4, <2>5 DEF AppendNext
<1>3. CASE ApplyNext
  BY <1>3 DEF ApplyNext, CollectApplyMsgs, PushApplyMsg, appendCalls
<1>4. CASE SnapshotNext
  BY <1>4 DEF SnapshotNext, SnapshotDelivered, MakeSnapshot, LeaderSendSnapShot, InstallSnapshot,
              SnapshotToClosedPeer, SnapshotAnswered, LoseSnapshotCall, PushMsgToKvServer,
              appendCalls
<1> QED
  BY <1>1, <1>2, <1>3, <1>4 DEF Next

\* Positions tell indexes after every step.
LEMMA ContiguousStep ==
  ASSUME IInv, Next
  PROVE  Contiguous'
<1>1. \A i \in Server : \A p \in DOMAIN logs'[i] :
        logs'[i][p].index = lastSnapshot'[i].index + p
  BY LogStep
<1>2. ASSUME NEW m \in appendRequests'
      PROVE  \A k \in DOMAIN m.entries : m.entries[k].index = m.prevLogIndex + k
  <2>1. CASE m \in appendRequests
    BY <2>1 DEF IInv, Contiguous
  <2>2. CASE \E i \in Server, j \in Server, r \in Rounds :
               ~BehindSnapshot(i, j) /\ m = AppendCall(i, j, r)
    BY <2>2, AppendCallFacts
  <2> QED
    BY <2>1, <2>2, AppendRequestOrigin
<1> QED
  BY <1>1, <1>2 DEF Contiguous

\* The steps that change commitIndex, lastApplied or the snapshot.
ApplyAction ==
  \/ \E m \in appendRequests : AppendEntries1(m)
  \/ \E m \in appendReplies : SendAppendEntries(m)
  \/ \E i \in Server : CollectApplyMsgs(i)
  \/ \E i \in Server : SnapshotDelivered(i)
  \/ \E m \in snapshotRequests : InstallSnapshot(m)

\* Every other step leaves the three as they are.
LEMMA AppliedElsewhere ==
  ASSUME Next, ~ApplyAction
  PROVE  UNCHANGED <<commitIndex, lastApplied, lastSnapshot>>
<1>1. CASE ElectionNext
  BY <1>1 DEF ElectionNext, DoElection, RequestVote, SendRequestVote, BecomeLeader,
              durableVars, applyVars
<1>2. CASE AppendNext
  BY <1>2 DEF AppendNext, ApplyAction, DoHeartBeat, StartSome, Start, LoseAppendCall,
              durableVars, applyVars
<1>3. CASE ApplyNext
  BY <1>3, SubsetsAssumption DEF ApplyNext, ApplyAction, PushApplyMsg, durableVars
<1>4. CASE SnapshotNext
  BY <1>4 DEF SnapshotNext, ApplyAction, LeaderSendSnapShot, SnapshotToClosedPeer,
              SnapshotAnswered, LoseSnapshotCall, PushMsgToKvServer, durableVars, applyVars
<1> QED
  BY <1>1, <1>2, <1>3, <1>4 DEF Next

\* snapshot <= lastApplied <= commitIndex <= last index, after every step.
LEMMA AppliedStep ==
  ASSUME IInv, Next
  PROVE  \A i \in Server : /\ lastSnapshot'[i].index <= lastApplied'[i]
                           /\ lastApplied'[i] <= commitIndex'[i]
                           /\ commitIndex'[i] <= LastLogIndex(i)'
<1> DEFINE Ordered(i) == /\ lastSnapshot'[i].index <= lastApplied'[i]
                         /\ lastApplied'[i] <= commitIndex'[i]
                         /\ commitIndex'[i] <= LastLogIndex(i)'
<1>1. TypeOK
  BY DEF IInv
<1>2. \A i \in Server :
        /\ lastSnapshot[i].index \in Nat /\ lastApplied[i] \in Nat /\ commitIndex[i] \in Nat
        /\ lastSnapshot[i].index <= lastApplied[i]
        /\ lastApplied[i] <= commitIndex[i]
        /\ commitIndex[i] <= LastLogIndex(i)
        /\ LastLogIndex(i) \in Nat
  BY LastLogIndexIs DEF IInv, TypeOK, Snapshot, CommitWithinLog, IndexBounds
<1>3. \A i \in Server : LastLogIndex(i)' \in Nat /\ LastLogIndex(i)' >= LastLogIndex(i)
  BY LogStep, LenProperties DEF Snapshot
<1>4. ASSUME NEW i \in Server, commitIndex'[i] = commitIndex[i], lastApplied'[i] = lastApplied[i],
             lastSnapshot'[i] = lastSnapshot[i]
      PROVE  Ordered(i)
  BY <1>2, <1>3, <1>4
<1>5. ASSUME NEW m \in appendRequests, AppendEntries1(m), NEW i \in Server
      PROVE  Ordered(i)
  <2>1. UNCHANGED <<lastApplied, lastSnapshot>>
    BY <1>5 DEF AppendEntries1, applyVars, durableVars
  <2>2. CASE commitIndex' = commitIndex
    BY <1>4, <2>1, <2>2
  <2>3. CASE AcceptEntries(m.follower, m)
    <3>1. m.follower \in Server /\ m.leaderCommit \in Nat
      BY <1>1 DEF TypeOK, AppendRequest
    <3>2. commitIndex' = [commitIndex EXCEPT ![m.follower] =
            FollowerCommit(m.follower, m.leaderCommit, LastLogIndex(m.follower)')]
      BY <2>3 DEF AcceptEntries
    <3>3. CASE i = m.follower
      <4>1. commitIndex'[i] = FollowerCommit(i, m.leaderCommit, LastLogIndex(i)')
        BY <1>1, <3>2, <3>3 DEF TypeOK
      <4>2. commitIndex[i] <= commitIndex'[i] /\ commitIndex'[i] <= LastLogIndex(i)'
        BY <1>2, <1>3, <3>1, <4>1 DEF FollowerCommit, Smaller
      <4>3. commitIndex'[i] \in Nat
        BY <1>2, <1>3, <3>1, <4>1 DEF FollowerCommit, Smaller
      <4> QED
        BY <1>2, <2>1, <4>2, <4>3
    <3>4. CASE i # m.follower
      BY <1>1, <1>4, <2>1, <3>2, <3>4 DEF TypeOK
    <3> QED
      BY <3>3, <3>4
  <2> QED
    BY <1>5, <2>2, <2>3 DEF AppendEntries1, RejectEntries, PrevInsideSnapshot
<1>6. ASSUME NEW m \in appendReplies, SendAppendEntries(m), NEW i \in Server
      PROVE  Ordered(i)
  <2>1. UNCHANGED <<lastApplied, lastSnapshot>>
    BY <1>6 DEF SendAppendEntries, applyVars
  <2>2. CASE commitIndex' = commitIndex
    BY <1>4, <2>1, <2>2
  <2>3. CASE Acknowledged(m.leader, m)
    <3>1. m.leader \in Server /\ m.upTo \in Nat /\ m.upTo <= LastLogIndex(m.leader)
      BY <1>1 DEF TypeOK, AppendReply, IInv, IndexBounds
    <3>2. PICK counted : commitIndex' = [commitIndex EXCEPT ![m.leader] =
                           CommitAfter(m.leader, m, counted)]
      BY <2>3 DEF Acknowledged
    <3>3. CASE i = m.leader
      <4>1. commitIndex'[i] = CommitAfter(i, m, counted)
        BY <1>1, <3>2, <3>3 DEF TypeOK
      <4>2. \/ commitIndex'[i] = commitIndex[i]
            \/ commitIndex'[i] = Larger(commitIndex[i], m.upTo)
        BY <4>1 DEF CommitAfter
      <4>3. commitIndex[i] <= commitIndex'[i] /\ commitIndex'[i] <= LastLogIndex(i)
        BY <1>2, <3>1, <3>3, <4>2 DEF Larger
      <4>4. commitIndex'[i] \in Nat
        BY <1>2, <3>1, <3>3, <4>2 DEF Larger
      <4> QED
        BY <1>2, <1>3, <2>1, <4>3, <4>4
    <3>4. CASE i # m.leader
      BY <1>1, <1>4, <2>1, <3>2, <3>4 DEF TypeOK
    <3> QED
      BY <3>3, <3>4
  <2> QED
    BY <1>6, <2>2, <2>3 DEF SendAppendEntries
<1>7. ASSUME NEW n \in Server, CollectApplyMsgs(n), NEW i \in Server
      PROVE  Ordered(i)
  <2>1. /\ lastApplied' = [lastApplied EXCEPT ![n] = commitIndex[n]]
        /\ UNCHANGED <<commitIndex, lastSnapshot>>
    BY <1>7 DEF CollectApplyMsgs, durableVars
  <2>2. CASE i = n
    <3>1. lastApplied'[i] = commitIndex[i]
      BY <1>1, <2>1, <2>2 DEF TypeOK
    <3> QED
      BY <1>2, <1>3, <2>1, <3>1
  <2>3. CASE i # n
    BY <1>1, <1>4, <2>1, <2>3 DEF TypeOK
  <2> QED
    BY <2>2, <2>3
<1>8. ASSUME NEW n \in Server, SnapshotDelivered(n), NEW i \in Server
      PROVE  Ordered(i)
  <2>1. PICK index \in SnapshotIndexes : Delivered(n, index) /\ MakeSnapshot(n, index)
    BY <1>8 DEF SnapshotDelivered
  <2>2. /\ lastApplied' = [lastApplied EXCEPT ![n] = Larger(lastApplied[n], index)]
        /\ lastSnapshot' = [lastSnapshot EXCEPT ![n] =
                              [index |-> index, term |-> LogTermAt(n, index)]]
        /\ index <= commitIndex[n]
        /\ UNCHANGED commitIndex
    BY <2>1 DEF MakeSnapshot
  <2>3. index \in Nat
    <3>1. PICK k \in DOMAIN applyChan[n] : applyChan[n][k].index = index
      BY <2>1 DEF Delivered
    <3>2. applyChan[n][k] \in ApplyMsg
      BY <1>1, <3>1, LenProperties, ElementOfSeq DEF TypeOK
    <3> QED
      BY <3>1, <3>2 DEF ApplyMsg
  <2>4. CASE i = n
    <3>1. lastApplied'[i] = Larger(lastApplied[i], index) /\ lastSnapshot'[i].index = index
      BY <1>1, <2>2, <2>4 DEF TypeOK
    <3> QED
      BY <1>2, <1>3, <2>2, <2>3, <2>4, <3>1 DEF Larger
  <2>5. CASE i # n
    BY <1>1, <1>4, <2>2, <2>5 DEF TypeOK
  <2> QED
    BY <2>4, <2>5
<1>9. ASSUME NEW m \in snapshotRequests, InstallSnapshot(m), NEW i \in Server
      PROVE  Ordered(i)
  <2> DEFINE n == m.follower
             index == m.snapshot.index
  <2>1. n \in Server /\ index \in Nat
    BY <1>1 DEF TypeOK, SnapshotRequest, Snapshot
  <2>2. CASE UNCHANGED <<commitIndex, lastApplied, lastSnapshot>>
    BY <1>4, <2>2
  <2>3. CASE Install(n, m.snapshot)
    <3>1. /\ commitIndex' = [commitIndex EXCEPT ![n] = Larger(commitIndex[n], index)]
          /\ lastApplied' = [lastApplied EXCEPT ![n] = Larger(lastApplied[n], index)]
          /\ lastSnapshot' = [lastSnapshot EXCEPT ![n] = m.snapshot]
      BY <2>3 DEF Install, CommitAfterInstall
    <3>2. CASE i = n
      <4>1. /\ commitIndex'[i] = Larger(commitIndex[i], index)
            /\ lastApplied'[i] = Larger(lastApplied[i], index)
            /\ lastSnapshot'[i].index = index
        BY <1>1, <2>1, <3>1, <3>2 DEF TypeOK
      <4>2. index <= LastLogIndex(i)'
        <5>1. LastLogIndex(i)' = index + Len(logs'[i]) /\ logs'[i] \in Seq(Entry)
          BY <4>1, LogStep
        <5> QED
          BY <2>1, <5>1, LenProperties
      <4> QED
        BY <1>2, <1>3, <2>1, <4>1, <4>2 DEF Larger
    <3>3. CASE i # n
      BY <1>1, <1>4, <2>1, <3>1, <3>3 DEF TypeOK
    <3> QED
      BY <3>2, <3>3
  <2> QED
    BY <1>9, <2>2, <2>3 DEF InstallSnapshot, durableVars, applyVars
<1>10. ASSUME NEW i \in Server
       PROVE  Ordered(i)
  <2>1. CASE ApplyAction
    BY <1>5, <1>6, <1>7, <1>8, <1>9, <2>1 DEF ApplyAction
  <2>2. CASE ~ApplyAction
    BY <1>4, <2>2, AppliedElsewhere
  <2> QED
    BY <2>1, <2>2
<1> QED
  BY <1>10

\* Where the answers to appendEntries calls come from, and what they may say.
LEMMA AppendReplyOrigin ==
  ASSUME IInv, Next, NEW m \in appendReplies'
  PROVE  \/ m \in appendReplies
         \/ \E q \in appendRequests :
              /\ m.leader = q.leader
              /\ m.upTo = q.prevLogIndex + Len(q.entries)
              /\ m.updateNextIndex <= LastLogIndex(q.leader) + 1
<1>1. CASE UNCHANGED appendReplies
  BY <1>1
<1>2. CASE \E q \in appendRequests : AppendEntries1(q)
  <2>1. PICK q \in appendRequests : AppendEntries1(q)
    BY <1>2
  <2> DEFINE i == q.follower
  <2>2. /\ i \in Server /\ q.leader \in Server /\ q.prevLogIndex \in Nat
        /\ Len(q.entries) \in Nat
    <3>1. q \in AppendRequest
      BY DEF IInv, TypeOK
    <3> QED
      BY <3>1, LenProperties DEF AppendRequest
  <2>3. /\ q.prevLogIndex + Len(q.entries) <= LastLogIndex(q.leader)
        /\ LastLogIndex(q.leader) \in Nat /\ LastLogIndex(i) \in Nat
        /\ lastSnapshot[i].index \in Nat
    BY <2>2, LastLogIndexIs DEF IInv, IndexBounds, TypeOK, Snapshot
  <2>4. q.prevLogIndex <= LastLogIndex(q.leader)
    BY <2>2, <2>3
  <2>5. ASSUME NEW term, NEW success, NEW hint, hint <= LastLogIndex(q.leader) + 1,
               AnswerAppend(q, term, success, hint)
        PROVE  \/ m \in appendReplies
               \/ /\ m.leader = q.leader
                  /\ m.upTo = q.prevLogIndex + Len(q.entries)
                  /\ m.updateNextIndex <= LastLogIndex(q.leader) + 1
    BY <2>5 DEF AnswerAppend
  <2>6. NoHint <= LastLogIndex(q.leader) + 1
    BY <2>3 DEF NoHint
  <2>7. CASE q.prevLogIndex > LastLogIndex(i)
    <3>1. LastLogIndex(i) + 1 <= LastLogIndex(q.leader) + 1
      BY <2>2, <2>3, <2>4, <2>7
    <3>2. \/ \E term, success : AnswerAppend(q, term, success, NoHint)
          \/ AnswerAppend(q, q.term, FALSE, LastLogIndex(i) + 1)
          \/ UNCHANGED appendReplies
      <4>1. \/ AnswerAppend(q, currentTerm[i], FALSE, NoHint)
            \/ AcceptEntries(i, q) \/ RejectEntries(i, q) \/ PrevInsideSnapshot(i, q)
        BY <2>1 DEF AppendEntries1
      <4>2. ~(q.prevLogIndex <= LastLogIndex(i))
        BY <2>2, <2>3, <2>7
      <4> QED
        BY <4>1, <4>2 DEF AcceptEntries, RejectEntries, PrevInsideSnapshot
    <3> QED
      BY <2>5, <2>6, <3>1, <3>2
  <2>8. CASE ~(q.prevLogIndex > LastLogIndex(i))
    <3>1. q.prevLogIndex >= lastSnapshot[i].index =>
            ConflictIndex(i, q.prevLogIndex) <= LastLogIndex(q.leader) + 1
      <4>1. q.prevLogIndex >= lastSnapshot[i].index =>
              /\ ConflictIndex(i, q.prevLogIndex) \in Nat
              /\ ConflictIndex(i, q.prevLogIndex) <= q.prevLogIndex
        BY <2>2, <2>3, ConflictFacts DEF IInv
      <4> QED
        BY <2>2, <2>3, <2>4, <4>1
    <3>2. \/ \E term, success : AnswerAppend(q, term, success, NoHint)
          \/ /\ q.prevLogIndex >= lastSnapshot[i].index
             /\ AnswerAppend(q, q.term, FALSE, ConflictIndex(i, q.prevLogIndex))
          \/ UNCHANGED appendReplies
      BY <2>1, <2>8 DEF AppendEntries1, AcceptEntries, RejectEntries, PrevInsideSnapshot
    <3> QED
      BY <2>5, <2>6, <3>1, <3>2
  <2> QED
    BY <2>7, <2>8
<1>3. CASE \E q \in appendReplies : SendAppendEntries(q)
  BY <1>3 DEF SendAppendEntries
<1>4. CASE \E q \in appendRequests \cup appendReplies : LoseAppendCall(q)
  BY <1>4 DEF LoseAppendCall
<1>5. CASE ElectionNext
  BY <1>1, <1>5 DEF ElectionNext, DoElection, RequestVote, SendRequestVote, appendCalls
<1>6. CASE AppendNext
  BY <1>1, <1>2, <1>3, <1>4, <1>6 DEF AppendNext, DoHeartBeat, StartSome, Start, appendCalls
<1>7. CASE ApplyNext
  BY <1>1, <1>7 DEF ApplyNext, CollectApplyMsgs, PushApplyMsg, appendCalls
<1>8. CASE SnapshotNext
  BY <1>1, <1>8 DEF SnapshotNext, SnapshotDelivered, MakeSnapshot, LeaderSendSnapShot,
              InstallSnapshot, SnapshotToClosedPeer, SnapshotAnswered, LoseSnapshotCall,
              PushMsgToKvServer, appendCalls
<1> QED
  BY <1>5, <1>6, <1>7, <1>8 DEF Next

\* A snapshot that is sent is the sender's own, and an answer names the one sent.
LEMMA SnapshotCallOrigin ==
  ASSUME Next
  PROVE  /\ \A m \in snapshotRequests' :
              \/ m \in snapshotRequests
              \/ \E t \in snapshotThreads : /\ m.leader = t.leader
                                            /\ m.snapshot = lastSnapshot[t.leader]
         /\ \A m \in snapshotReplies' :
              \/ m \in snapshotReplies
              \/ \E q \in snapshotRequests : m.leader = q.leader /\ m.index = q.snapshot.index
<1>1. CASE ElectionNext
  BY <1>1 DEF ElectionNext, DoElection, RequestVote, SendRequestVote, snapCalls
<1>2. CASE AppendNext
  BY <1>2 DEF AppendNext, DoHeartBeat, StartSome, Start, AppendEntries1, SendAppendEntries,
              LoseAppendCall, snapCalls
<1>3. CASE ApplyNext
  BY <1>3 DEF ApplyNext, CollectApplyMsgs, PushApplyMsg, snapCalls
<1>4. CASE SnapshotNext
  <2>1. CASE UNCHANGED <<snapshotRequests, snapshotReplies>>
    BY <2>1
  <2>2. CASE \E t \in snapshotThreads : LeaderSendSnapShot(t)
    BY <2>2 DEF LeaderSendSnapShot
  <2>3. CASE \E m \in snapshotRequests : \E term : AnswerSnapshot(m, term)
    BY <2>3 DEF AnswerSnapshot
  <2>4. CASE \E m \in snapshotReplies : SnapshotAnswered(m)
    BY <2>4 DEF SnapshotAnswered
  <2>5. CASE \E m \in snapshotRequests \cup snapshotReplies : LoseSnapshotCall(m)
    BY <2>5 DEF LoseSnapshotCall
  <2>6. CASE \E m \in snapshotRequests : LeaveUnanswered(m)
    BY <2>6 DEF LeaveUnanswered
  <2> QED
    BY <1>4, <2>1, <2>2, <2>3, <2>4, <2>5, <2>6
    DEF SnapshotNext, SnapshotDelivered, MakeSnapshot, InstallSnapshot, SnapshotToClosedPeer,
        PushMsgToKvServer, snapCalls
<1> QED
  BY <1>1, <1>2, <1>3, <1>4 DEF Next

\* The steps that change nextIndex or matchIndex, and what they write.
LEMMA IndexTableOrigin ==
  ASSUME IInv, Next, NEW i \in Server, NEW j \in Server
  PROVE  /\ nextIndex'[i][j] <= LastLogIndex(i) + 1
         /\ matchIndex'[i][j] <= LastLogIndex(i)
<1> DEFINE Bounded == /\ nextIndex'[i][j] <= LastLogIndex(i) + 1
                      /\ matchIndex'[i][j] <= LastLogIndex(i)
<1>1. /\ nextIndex \in [Server -> [Server -> Nat]] /\ matchIndex \in [Server -> [Server -> Nat]]
      /\ \A k \in Server : LastLogIndex(k) \in Nat
  BY LastLogIndexIs DEF IInv, TypeOK
<1>2. /\ nextIndex[i][j] <= LastLogIndex(i) + 1
      /\ matchIndex[i][j] <= LastLogIndex(i)
  BY DEF IInv, IndexBounds
<1>3. CASE UNCHANGED <<nextIndex, matchIndex>>
  BY <1>2, <1>3
<1>4. ASSUME NEW n \in Server, NEW k \in Server, NEW next \in Nat, NEW match \in Nat,
             next <= LastLogIndex(n) + 1, match <= LastLogIndex(n),
             nextIndex' = [nextIndex EXCEPT ![n][k] = next],
             matchIndex' = matchIndex \/ matchIndex' = [matchIndex EXCEPT ![n][k] = match]
      PROVE  Bounded
  <2>1. nextIndex'[i][j] = nextIndex[i][j] \/ (i = n /\ nextIndex'[i][j] = next)
    BY <1>1, <1>4
  <2>2. matchIndex'[i][j] = matchIndex[i][j] \/ (i = n /\ matchIndex'[i][j] = match)
    BY <1>1, <1>4
  <2> QED
    BY <1>2, <1>4, <2>1, <2>2
<1>5. CASE \E m \in voteReplies : SendRequestVote(m)
  <2>1. PICK m \in voteReplies : SendRequestVote(m)
    BY <1>5
  <2>2. CASE BecomeLeader(m.candidate)
    <3>1. \/ nextIndex'[i][j] = nextIndex[i][j] /\ matchIndex'[i][j] = matchIndex[i][j]
          \/ nextIndex'[i][j] = LastLogIndex(i) + 1 /\ matchIndex'[i][j] = 0
      BY <1>1, <2>2 DEF BecomeLeader
    <3> QED
      BY <1>1, <1>2, <3>1
  <2> QED
    BY <1>3, <2>1, <2>2 DEF SendRequestVote
<1>6. CASE \E m \in appendReplies : SendAppendEntries(m)
  <2>1. PICK m \in appendReplies : SendAppendEntries(m)
    BY <1>6
  <2> DEFINE n == m.leader
             match == MatchAfter(n, m)
  <2>2. /\ n \in Server /\ m.follower \in Server /\ m.upTo \in Nat
        /\ m.updateNextIndex \in Nat \cup {NoHint}
        /\ m.upTo <= LastLogIndex(n) /\ m.updateNextIndex <= LastLogIndex(n) + 1
    BY DEF IInv, IndexBounds, TypeOK, AppendReply
  <2>3. matchIndex[n][m.follower] \in Nat /\ matchIndex[n][m.follower] <= LastLogIndex(n)
    BY <1>1, <2>2 DEF IInv, IndexBounds
  <2>4. match \in Nat /\ match <= LastLogIndex(n)
    BY <2>2, <2>3 DEF MatchAfter, Larger
  <2>5. \/ UNCHANGED <<nextIndex, matchIndex>>
        \/ /\ nextIndex' = [nextIndex EXCEPT ![n][m.follower] = match + 1]
           /\ matchIndex' = [matchIndex EXCEPT ![n][m.follower] = match]
        \/ /\ m.updateNextIndex # NoHint
           /\ nextIndex' = [nextIndex EXCEPT ![n][m.follower] = m.updateNextIndex]
           /\ matchIndex' = matchIndex
    BY <2>1 DEF SendAppendEntries, Acknowledged
  <2>6. match + 1 \in Nat /\ match + 1 <= LastLogIndex(n) + 1
    BY <1>1, <2>2, <2>4
  <2>7. m.updateNextIndex # NoHint => m.updateNextIndex \in Nat
    BY <2>2
  <2> HIDE DEF match
  <2> QED
    BY <1>3, <1>4, <2>2, <2>4, <2>5, <2>6, <2>7
<1>7. CASE \E m \in snapshotReplies : SnapshotAnswered(m)
  <2>1. PICK m \in snapshotReplies : SnapshotAnswered(m)
    BY <1>7
  <2>2. /\ m.leader \in Server /\ m.follower \in Server /\ m.index \in Nat
        /\ m.index <= LastLogIndex(m.leader)
    BY DEF IInv, IndexBounds, TypeOK, SnapshotReply
  <2>3. m.index + 1 \in Nat /\ m.index + 1 <= LastLogIndex(m.leader) + 1
    BY <1>1, <2>2
  <2>4. \/ UNCHANGED <<nextIndex, matchIndex>>
        \/ /\ matchIndex' = [matchIndex EXCEPT ![m.leader][m.follower] = m.index]
           /\ nextIndex' = [nextIndex EXCEPT ![m.leader][m.follower] = m.index + 1]
    BY <2>1 DEF SnapshotAnswered
  <2> QED
    BY <1>3, <1>4, <2>2, <2>3, <2>4
<1>8. CASE ElectionNext
  BY <1>3, <1>5, <1>8 DEF ElectionNext, DoElection, RequestVote, leaderVars
<1>9. CASE AppendNext
  BY <1>3, <1>6, <1>9 DEF AppendNext, DoHeartBeat, StartSome, Start, AppendEntries1,
                          LoseAppendCall, leaderVars
<1>10. CASE ApplyNext
  BY <1>3, <1>10 DEF ApplyNext, CollectApplyMsgs, PushApplyMsg, leaderVars
<1>11. CASE SnapshotNext
  BY <1>3, <1>7, <1>11 DEF SnapshotNext, SnapshotDelivered, MakeSnapshot, LeaderSendSnapShot,
              InstallSnapshot, SnapshotToClosedPeer, LoseSnapshotCall, PushMsgToKvServer,
              leaderVars
<1> QED
  BY <1>8, <1>9, <1>10, <1>11 DEF Next

\* No index outruns its log after any step.
LEMMA BoundsStep ==
  ASSUME IInv, Next
  PROVE  IndexBounds'
<1>1. \A i \in Server : /\ LastLogIndex(i) \in Nat /\ LastLogIndex(i)' \in Nat
                        /\ LastLogIndex(i)' >= LastLogIndex(i)
  BY LogStep, LastLogIndexIs, LenProperties DEF IInv, Snapshot
<1>2. TypeOK'
  BY TypeStep
<1>3. \A i \in Server : lastSnapshot'[i].index <= lastApplied'[i]
  BY AppliedStep
<1>4. ASSUME NEW i \in Server, NEW j \in Server
      PROVE  nextIndex'[i][j] <= LastLogIndex(i)' + 1 /\ matchIndex'[i][j] <= LastLogIndex(i)'
  <2>1. /\ nextIndex'[i][j] <= LastLogIndex(i) + 1
        /\ matchIndex'[i][j] <= LastLogIndex(i)
    BY IndexTableOrigin
  <2>2. nextIndex'[i][j] \in Nat /\ matchIndex'[i][j] \in Nat
    BY <1>2 DEF TypeOK
  <2> QED
    BY <1>1, <2>1, <2>2
<1>5. ASSUME NEW m \in appendRequests'
      PROVE  m.prevLogIndex + Len(m.entries) <= LastLogIndex(m.leader)'
  <2>1. /\ m.leader \in Server /\ m.prevLogIndex \in Nat /\ Len(m.entries) \in Nat
    <3>1. m \in AppendRequest
      BY <1>2 DEF TypeOK
    <3> QED
      BY <3>1, LenProperties DEF AppendRequest
  <2>2. m.prevLogIndex + Len(m.entries) <= LastLogIndex(m.leader)
    <3>1. CASE m \in appendRequests
      BY <3>1 DEF IInv, IndexBounds
    <3>2. CASE \E i \in Server, j \in Server, r \in Rounds :
                 ~BehindSnapshot(i, j) /\ m = AppendCall(i, j, r)
      BY <3>2, AppendCallFacts
    <3> QED
      BY <3>1, <3>2, AppendRequestOrigin
  <2> QED
    BY <1>1, <2>1, <2>2
<1>6. ASSUME NEW m \in appendReplies'
      PROVE  m.upTo <= LastLogIndex(m.leader)' /\ m.updateNextIndex <= LastLogIndex(m.leader)' + 1
  <2>1. m.leader \in Server /\ m.upTo \in Nat /\ m.updateNextIndex \in Int
    <3>1. m \in AppendReply /\ NoHint \in Int
      BY <1>2 DEF TypeOK, NoHint
    <3> QED
      BY <3>1 DEF AppendReply
  <2>2. m.upTo <= LastLogIndex(m.leader) /\ m.updateNextIndex <= LastLogIndex(m.leader) + 1
    <3>1. CASE m \in appendReplies
      BY <3>1 DEF IInv, IndexBounds
    <3>2. CASE \E q \in appendRequests : /\ m.leader = q.leader
                                         /\ m.upTo = q.prevLogIndex + Len(q.entries)
                                         /\ m.updateNextIndex <= LastLogIndex(q.leader) + 1
      BY <3>2 DEF IInv, IndexBounds
    <3> QED
      BY <3>1, <3>2, AppendReplyOrigin
  <2> QED
    BY <1>1, <2>1, <2>2
<1>7. ASSUME NEW m \in snapshotRequests'
      PROVE  m.snapshot.index <= LastLogIndex(m.leader)'
  <2>1. m.leader \in Server /\ m.snapshot.index \in Nat
    BY <1>2 DEF TypeOK, SnapshotRequest, Snapshot
  <2>2. m.snapshot.index <= LastLogIndex(m.leader)
    <3>1. CASE m \in snapshotRequests
      BY <3>1 DEF IInv, IndexBounds
    <3>2. CASE m.snapshot = lastSnapshot[m.leader]
      BY <2>1, <3>2, LastLogIndexIs DEF IInv
    <3> QED
      BY <3>1, <3>2, SnapshotCallOrigin
  <2> QED
    BY <1>1, <2>1, <2>2
<1>8. ASSUME NEW m \in snapshotReplies'
      PROVE  m.index <= LastLogIndex(m.leader)'
  <2>1. m.leader \in Server /\ m.index \in Nat
    BY <1>2 DEF TypeOK, SnapshotReply
  <2>2. m.index <= LastLogIndex(m.leader)
    BY SnapshotCallOrigin DEF IInv, IndexBounds
  <2> QED
    BY <1>1, <2>1, <2>2
<1> QED
  BY <1>3, <1>4, <1>5, <1>6, <1>7, <1>8 DEF IndexBounds

\* The invariant holds of the initial states.
LEMMA InitIInv ==
  ASSUME Init
  PROVE  IInv
<1>1. TypeOK
  <2>1. \A S : <<>> \in Seq(S)
    BY EmptySeq
  <2>2. InitialSave \in Saved
    BY <2>1 DEF InitialSave, Saved, Snapshot
  <2> QED
    BY <2>1, <2>2 DEF Init, TypeOK, Snapshot
<1>2. Contiguous
  <2>1. \A i \in Server : DOMAIN logs[i] = {}
    BY DEF Init
  <2> QED
    BY <2>1 DEF Init, Contiguous
<1>3. \A i \in Server : LastLogIndex(i) = 0
  BY DEF Init, LastLogIndex
<1>4. CommitWithinLog
  BY <1>3 DEF Init, CommitWithinLog
<1>5. IndexBounds
  BY <1>3 DEF Init, IndexBounds
<1> QED
  BY <1>1, <1>2, <1>4, <1>5 DEF IInv

\* The invariant is inductive.
LEMMA IInvStep ==
  ASSUME IInv, [Next]_vars
  PROVE  IInv'
<1>1. CASE Next
  <2>1. TypeOK' /\ Contiguous' /\ IndexBounds'
    BY <1>1, TypeStep, ContiguousStep, BoundsStep
  <2>2. CommitWithinLog'
    BY <1>1, AppliedStep DEF CommitWithinLog
  <2> QED
    BY <2>1, <2>2 DEF IInv
<1>2. CASE UNCHANGED vars
  BY <1>2 DEF IInv, TypeOK, Contiguous, CommitWithinLog, IndexBounds, LastLogIndex, vars,
              durableVars, electionVars, leaderVars, appendCalls, snapCalls, applyVars
<1> QED
  BY <1>1, <1>2

\* Every reachable state satisfies the invariant.
THEOREM Invariance == Spec => []IInv
<1>1. Init => IInv
  BY InitIInv
<1>2. IInv /\ [Next]_vars => IInv'
  BY IInvStep
<1> QED
  BY <1>1, <1>2, PTL DEF Spec

\* The types of the variables, for every number of servers and every bound.
THEOREM TypeCorrect == Spec => []TypeOK
<1>1. IInv => TypeOK
  BY DEF IInv
<1> QED
  BY <1>1, Invariance, PTL

\* Positions in m_logs tell the indexes, in every log and every call: what
\* getSlicesIndexFromLogIndex relies on.
THEOREM ContiguousAlways == Spec => []Contiguous
<1>1. IInv => Contiguous
  BY DEF IInv
<1> QED
  BY <1>1, Invariance, PTL

\* commitIndex and lastApplied stay inside the log, whatever calls are late,
\* lost or reordered.
THEOREM CommitWithinLogAlways == Spec => []CommitWithinLog
<1>1. IInv => CommitWithinLog
  BY DEF IInv
<1> QED
  BY <1>1, Invariance, PTL

\* No late call and no snapshot makes a log end earlier than it did.
THEOREM LastLogIndexStays == Spec => LastLogIndexNeverFalls
<1>1. ASSUME IInv, [Next]_vars
      PROVE  \A i \in Server : LastLogIndex(i)' >= LastLogIndex(i)
  <2>1. CASE Next
    BY <1>1, <2>1, LogStep
  <2>2. CASE UNCHANGED vars
    <3>1. \A i \in Server : LastLogIndex(i)' = LastLogIndex(i)
      BY <2>2 DEF vars, durableVars, LastLogIndex
    <3> QED
      BY <1>1, <3>1, LastLogIndexIs DEF IInv
  <2> QED
    BY <1>1, <2>1, <2>2
<1>2. IInv /\ [Next]_vars => [\A i \in Server : LastLogIndex(i)' >= LastLogIndex(i)]_vars
  BY <1>1
<1> QED
  BY <1>2, Invariance, PTL DEF Spec, LastLogIndexNeverFalls

=============================================================================
