----------------------- MODULE RaftReplicationProofs ------------------------
(***************************************************************************)
(* What a leader believes a peer stores, the peer stores.  Within a term   *)
(* the winner's log only loses its front to snapshots, every call of that  *)
(* term carries a copy of a part of it, and a peer that stays in the term  *)
(* changes its log by such calls alone: so once the two agree at an index  *)
(* they go on agreeing there, however old the answer that says so.         *)
(***************************************************************************)
EXTENDS RaftElectionProofs

-----------------------------------------------------------------------------
(* Logs within a step *)

\* The entry that m_logs holds for an index.
EntryAt(i, k) == logs[i][k - lastSnapshot[i].index]

Held(i, k) == k > lastSnapshot[i].index /\ k <= LastLogIndex(i)

\* Node i takes entries from an AppendEntries call.
Takes(i, m) ==
  /\ m \in appendRequests /\ m.follower = i /\ m.term >= currentTerm[i]
  /\ AppendEntries1(m) /\ AcceptEntries(i, m)

TakesEntries(i) == \E m \in appendRequests : Takes(i, m)

\* Inside the log the term of an index is that of its entry.
TermsHeld ==
  \A i \in Server, k \in Nat : Held(i, k) =>
    /\ k - lastSnapshot[i].index \in DOMAIN logs[i]
    /\ EntryAt(i, k) \in Entry /\ EntryAt(i, k).index = k
    /\ LogTermAt(i, k) = EntryAt(i, k).term

LEMMA HeldEntry == IInv => TermsHeld
<1> SUFFICES ASSUME IInv, NEW i \in Server, NEW k \in Nat, Held(i, k)
             PROVE  /\ k - lastSnapshot[i].index \in DOMAIN logs[i]
                    /\ EntryAt(i, k) \in Entry /\ EntryAt(i, k).index = k
                    /\ LogTermAt(i, k) = EntryAt(i, k).term
  BY DEF TermsHeld
<1>1. /\ lastSnapshot[i].index \in Nat /\ logs[i] \in Seq(Entry)
      /\ Len(logs[i]) \in Nat /\ DOMAIN logs[i] = 1 .. Len(logs[i])
      /\ LastLogIndex(i) = lastSnapshot[i].index + Len(logs[i])
  BY LastLogIndexIs, LenProperties DEF IInv, TypeOK, Snapshot
<1>2. k - lastSnapshot[i].index \in DOMAIN logs[i] /\ k # lastSnapshot[i].index
  BY <1>1 DEF Held
<1>3. EntryAt(i, k) \in Entry
  BY <1>1, <1>2, ElementOfSeq DEF EntryAt
<1>4. EntryAt(i, k).index = lastSnapshot[i].index + (k - lastSnapshot[i].index)
  BY <1>2 DEF EntryAt, IInv, Contiguous
<1> QED
  BY <1>1, <1>2, <1>3, <1>4 DEF EntryAt, LogTermAt, Slice

LEMMA HeldEntryAfter == IInv' => TermsHeld'
BY HeldEntry, PTL

\* A log that a snapshot cuts keeps the entries behind it in their places.
LEMMA CutKeeps ==
  ASSUME IInv, NEW i \in Server, NEW index \in Nat,
         lastSnapshot[i].index < index, index <= LastLogIndex(i),
         NEW k \in Nat, k > index, k <= LastLogIndex(i)
  PROVE  LogAfterSnapshot(i, index)[k - index] = EntryAt(i, k)
<1> DEFINE rest == LogAfterSnapshot(i, index)
           base == lastSnapshot[i].index
           p == k - index
<1>1. /\ rest \in Seq(Entry)
      /\ index + Len(rest) = LastLogIndex(i)
      /\ \A q \in DOMAIN rest : /\ rest[q].index = index + q
                                /\ \E s \in DOMAIN logs[i] : rest[q] = logs[i][s]
  BY AfterSnapshotFacts DEF IInv
<1>2. Len(rest) \in Nat /\ DOMAIN rest = 1 .. Len(rest)
  BY <1>1, LenProperties
<1>3. LastLogIndex(i) \in Nat /\ base \in Nat
  BY LastLogIndexIs DEF IInv, TypeOK, Snapshot
<1>4. p \in DOMAIN rest /\ p \in Nat
  <2> HIDE DEF rest
  <2> QED
    BY <1>1, <1>2, <1>3
<1>5. PICK s \in DOMAIN logs[i] : rest[p] = logs[i][s]
  BY <1>1, <1>4
<1>6. rest[p].index = k /\ logs[i][s].index = base + s
  <2>1. rest[p].index = index + p
    BY <1>1, <1>4
  <2>2. logs[i][s].index = base + s
    BY DEF IInv, Contiguous
  <2> HIDE DEF rest
  <2> QED
    BY <2>1, <2>2
<1>7. s \in Nat
  <2>1. logs[i] \in Seq(Entry)
    BY DEF IInv, TypeOK
  <2>2. DOMAIN logs[i] = 1 .. Len(logs[i]) /\ Len(logs[i]) \in Nat
    BY <2>1, LenProperties
  <2> QED
    BY <2>2
<1>8. s = k - base
  <2> HIDE DEF rest, base
  <2> QED
    BY <1>3, <1>5, <1>6, <1>7
<1> QED
  BY <1>5, <1>8 DEF EntryAt

\* Unless a node takes entries from a call, a step only cuts the front of its log
\* or adds at the end.
LEMMA LogKept ==
  ASSUME IInv, Next, NEW i \in Server, ~TakesEntries(i)
  PROVE  /\ lastSnapshot'[i].index >= lastSnapshot[i].index
         /\ \A k \in Nat : k > lastSnapshot'[i].index /\ k <= LastLogIndex(i) =>
              EntryAt(i, k)' = EntryAt(i, k)
<1> DEFINE Kept == /\ lastSnapshot'[i].index >= lastSnapshot[i].index
                   /\ \A k \in Nat : k > lastSnapshot'[i].index /\ k <= LastLogIndex(i) =>
                        logs'[i][k - lastSnapshot'[i].index] = EntryAt(i, k)
<1>1. /\ lastSnapshot[i].index \in Nat /\ logs[i] \in Seq(Entry) /\ Len(logs[i]) \in Nat
      /\ LastLogIndex(i) = lastSnapshot[i].index + Len(logs[i])
      /\ TypeOK
  BY LastLogIndexIs DEF IInv, TypeOK, Snapshot
<1>2. ASSUME logs'[i] = logs[i], lastSnapshot'[i] = lastSnapshot[i]
      PROVE  Kept
  BY <1>1, <1>2 DEF EntryAt
<1>3. ASSUME NEW n \in Server, NEW index \in Nat, NEW snapshot, snapshot.index = index,
             lastSnapshot[n].index < index,
             \/ /\ index <= LastLogIndex(n)
                /\ logs' = [logs EXCEPT ![n] = LogAfterSnapshot(n, index)]
             \/ /\ index >= LastLogIndex(n)
                /\ logs' = [logs EXCEPT ![n] = <<>>],
             lastSnapshot' = [lastSnapshot EXCEPT ![n] = snapshot]
      PROVE  Kept
  <2>1. CASE i # n
    BY <1>1, <1>2, <1>3, <2>1 DEF TypeOK
  <2>2. CASE i = n
    <3>1. lastSnapshot'[i].index = index
      BY <1>1, <1>3, <2>2 DEF TypeOK
    <3>2. ASSUME NEW k \in Nat, k > index, k <= LastLogIndex(i)
          PROVE  logs'[i][k - index] = EntryAt(i, k)
      <4>1. index <= LastLogIndex(i) /\ ~(index >= LastLogIndex(i))
        BY <1>1, <3>2
      <4>2. logs'[i] = LogAfterSnapshot(i, index)
        BY <1>1, <1>3, <2>2, <4>1 DEF TypeOK
      <4> QED
        BY <1>3, <2>2, <3>2, <4>1, <4>2, CutKeeps
    <3> QED
      BY <1>1, <1>3, <2>2, <3>1, <3>2
  <2> QED
    BY <2>1, <2>2
<1>4. ASSUME NEW m \in appendRequests, AppendEntries1(m)
      PROVE  Kept
  <2>1. lastSnapshot' = lastSnapshot
    BY <1>4 DEF AppendEntries1, durableVars
  <2>2. CASE UNCHANGED logs
    BY <1>2, <2>1, <2>2
  <2>3. CASE m.term >= currentTerm[m.follower] /\ AcceptEntries(m.follower, m)
    <3>1. m.follower # i
      BY <1>4, <2>3 DEF TakesEntries, Takes
    <3> QED
      BY <1>1, <1>2, <2>1, <2>3, <3>1 DEF AcceptEntries, TypeOK
  <2> QED
    BY <1>4, <2>2, <2>3 DEF AppendEntries1, durableVars, RejectEntries, PrevInsideSnapshot
<1>5. ASSUME NEW n \in Server, StartSome(n)
      PROVE  Kept
  <2>1. PICK command \in Command : Start(n, command)
    BY <1>5 DEF StartSome
  <2> DEFINE entry == [index |-> LastLogIndex(n) + 1, term |-> currentTerm[n], command |-> command]
  <2>2. logs' = [logs EXCEPT ![n] = Append(logs[n], entry)] /\ lastSnapshot' = lastSnapshot
    BY <2>1 DEF Start
  <2>3. CASE i = n
    <3>1. entry \in Entry
      BY <1>1, <2>3 DEF Entry, TypeOK
    <3>2. logs'[i] = Append(logs[i], entry)
      BY <1>1, <2>2, <2>3 DEF TypeOK
    <3> HIDE DEF entry
    <3>3. \A p \in 1 .. Len(logs[i]) : logs'[i][p] = logs[i][p]
      BY <1>1, <3>1, <3>2, AppendProperties
    <3>4. ASSUME NEW k \in Nat, k > lastSnapshot[i].index, k <= LastLogIndex(i)
          PROVE  logs'[i][k - lastSnapshot[i].index] = EntryAt(i, k)
      <4>1. k - lastSnapshot[i].index \in 1 .. Len(logs[i])
        BY <1>1, <3>4
      <4> QED
        BY <3>3, <4>1 DEF EntryAt
    <3> QED
      BY <1>1, <2>2, <3>4
  <2>4. CASE i # n
    BY <1>1, <1>2, <2>2, <2>4 DEF TypeOK
  <2> QED
    BY <2>3, <2>4
<1>6. ASSUME NEW n \in Server, SnapshotDelivered(n)
      PROVE  Kept
  <2>1. PICK index \in SnapshotIndexes : Delivered(n, index) /\ MakeSnapshot(n, index)
    BY <1>6 DEF SnapshotDelivered
  <2>2. index \in Nat
    <3>1. PICK k \in DOMAIN applyChan[n] : applyChan[n][k].index = index
      BY <2>1 DEF Delivered
    <3>2. applyChan[n][k] \in ApplyMsg
      BY <1>1, <3>1, LenProperties, ElementOfSeq DEF TypeOK
    <3> QED
      BY <3>1, <3>2 DEF ApplyMsg
  <2>3. /\ lastSnapshot[n].index < index /\ index <= commitIndex[n]
        /\ logs' = [logs EXCEPT ![n] = LogAfterSnapshot(n, index)]
        /\ lastSnapshot' = [lastSnapshot EXCEPT ![n] = [index |-> index, term |-> LogTermAt(n, index)]]
    BY <2>1 DEF MakeSnapshot
  <2>4. index <= LastLogIndex(n)
    <3>1. commitIndex[n] \in Nat /\ LastLogIndex(n) \in Nat /\ commitIndex[n] <= LastLogIndex(n)
      BY LastLogIndexIs DEF IInv, TypeOK, CommitWithinLog
    <3> QED
      BY <2>2, <2>3, <3>1
  <2> HIDE DEF Kept
  <2> QED
    BY <1>3, <2>2, <2>3, <2>4
<1>7. ASSUME NEW m \in snapshotRequests, InstallSnapshot(m)
      PROVE  Kept
  <2> DEFINE n == m.follower
             index == m.snapshot.index
  <2>1. n \in Server /\ index \in Nat /\ LastLogIndex(n) \in Nat /\ lastSnapshot[n].index \in Nat
    BY <1>1, LastLogIndexIs DEF IInv, TypeOK, SnapshotRequest, Snapshot
  <2>2. CASE UNCHANGED <<logs, lastSnapshot>>
    BY <1>2, <2>2
  <2>3. CASE /\ index > lastSnapshot[n].index
             /\ logs' = [logs EXCEPT ![n] = LogAfterInstall(n, index)]
             /\ lastSnapshot' = [lastSnapshot EXCEPT ![n] = m.snapshot]
    <3>1. \/ /\ index <= LastLogIndex(n)
             /\ logs' = [logs EXCEPT ![n] = LogAfterSnapshot(n, index)]
          \/ /\ index >= LastLogIndex(n)
             /\ logs' = [logs EXCEPT ![n] = <<>>]
      <4>1. CASE LastLogIndex(n) > index
        <5>1. index <= LastLogIndex(n)
          <6> HIDE DEF index, n
          <6> QED
            BY <2>1, <4>1
        <5> QED
          BY <2>3, <4>1, <5>1 DEF LogAfterInstall
      <4>2. CASE ~(LastLogIndex(n) > index)
        <5>1. index >= LastLogIndex(n)
          <6> HIDE DEF index, n
          <6> QED
            BY <2>1, <4>2
        <5> QED
          BY <2>3, <4>2, <5>1 DEF LogAfterInstall
      <4> QED
        BY <4>1, <4>2
    <3>2. lastSnapshot[n].index < index
      <4> HIDE DEF index, n
      <4> QED
        BY <2>1, <2>3
    <3>3. m.snapshot.index = index
      OBVIOUS
    <3> HIDE DEF Kept, n, index
    <3> QED
      BY <1>3, <2>1, <2>3, <3>1, <3>2, <3>3
  <2> QED
    BY <1>7, <2>2, <2>3 DEF InstallSnapshot, Install, durableVars
<1>8. ASSUME ~LogAction
      PROVE  Kept
  BY <1>2, <1>8, LogsElsewhere
<1>9. Kept
  BY <1>4, <1>5, <1>6, <1>7, <1>8 DEF LogAction
<1> QED
  BY <1>9 DEF EntryAt

\* What a node makes of the entries it takes: at the indexes they cover it has
\* their terms, elsewhere what it had.
LEMMA LogMerged ==
  ASSUME IInv, Next, NEW i \in Server, NEW m \in appendRequests, Takes(i, m)
  PROVE  /\ lastSnapshot' = lastSnapshot
         /\ m.prevLogIndex >= lastSnapshot[i].index /\ m.prevLogIndex <= LastLogIndex(i)
         /\ LogTermAt(i, m.prevLogIndex) = m.prevLogTerm
         /\ LastLogIndex(i)' >= m.prevLogIndex + Len(m.entries)
         /\ \A k \in Nat : k > lastSnapshot[i].index =>
              /\ k - m.prevLogIndex \in DOMAIN m.entries =>
                   EntryAt(i, k)'.term = m.entries[k - m.prevLogIndex].term
              /\ k - m.prevLogIndex \notin DOMAIN m.entries /\ k <= LastLogIndex(i) =>
                   EntryAt(i, k)' = EntryAt(i, k)
<1> DEFINE base == lastSnapshot[i].index
           prev == m.prevLogIndex
           old == logs[i]
           merged == MergeEntries(i, prev, m.entries)
<1>1. /\ base \in Nat /\ prev \in Nat /\ old \in Seq(Entry) /\ m.entries \in Seq(Entry)
      /\ Len(old) \in Nat /\ Len(m.entries) \in Nat /\ LastLogIndex(i) = base + Len(old)
      /\ DOMAIN m.entries = 1 .. Len(m.entries)
  BY LastLogIndexIs, LenProperties DEF IInv, TypeOK, AppendRequest, Snapshot
<1>2. /\ prev >= base /\ prev <= LastLogIndex(i)
      /\ LogTermAt(i, prev) = m.prevLogTerm
      /\ lastSnapshot' = lastSnapshot
      /\ logs'[i] = merged
  BY DEF Takes, AppendEntries1, AcceptEntries, Matches, durableVars, IInv, TypeOK
<1>3. Slice(i, prev) = prev - base
  BY DEF Slice
<1>4. ASSUME NEW k \in Nat, k > base, k - prev \in DOMAIN m.entries
      PROVE  merged[k - base].term = m.entries[k - prev].term
  <2> DEFINE p == k - base
             len == Larger(Len(old), Slice(i, prev) + Len(m.entries))
  <2>1. /\ p \in 1 .. len
        /\ p - Slice(i, prev) = k - prev
    <3> HIDE DEF old, base, prev
    <3> QED
      BY <1>1, <1>2, <1>3, <1>4 DEF Larger
  <2>2. merged[p] = IF p - Slice(i, prev) \in DOMAIN m.entries
                       /\ (p > Len(old) \/ old[p].term # m.entries[p - Slice(i, prev)].term)
                    THEN m.entries[p - Slice(i, prev)] ELSE old[p]
    <3> HIDE DEF p
    <3> QED
      BY <2>1 DEF MergeEntries
  <2> HIDE DEF p, merged, old, base, prev
  <2>3. p = k - base
    BY DEF p
  <2> QED
    BY <1>4, <2>1, <2>2, <2>3
<1>5. ASSUME NEW k \in Nat, k > base, k - prev \notin DOMAIN m.entries, k <= LastLogIndex(i)
      PROVE  merged[k - base] = old[k - base]
  <2> DEFINE p == k - base
             len == Larger(Len(old), Slice(i, prev) + Len(m.entries))
  <2>1. /\ p \in 1 .. len
        /\ p - Slice(i, prev) = k - prev
    <3> HIDE DEF old, base, prev
    <3> QED
      BY <1>1, <1>2, <1>3, <1>5 DEF Larger
  <2>2. merged[p] = IF p - Slice(i, prev) \in DOMAIN m.entries
                       /\ (p > Len(old) \/ old[p].term # m.entries[p - Slice(i, prev)].term)
                    THEN m.entries[p - Slice(i, prev)] ELSE old[p]
    <3> HIDE DEF p
    <3> QED
      BY <2>1 DEF MergeEntries
  <2> HIDE DEF p, merged, old, base, prev
  <2>3. p = k - base
    BY DEF p
  <2> QED
    BY <1>5, <2>1, <2>2, <2>3
<1>6. LastLogIndex(i)' >= prev + Len(m.entries)
  <2> DEFINE len == Larger(Len(old), Slice(i, prev) + Len(m.entries))
  <2>1. len \in Nat /\ len >= prev - base + Len(m.entries)
    <3> HIDE DEF old, base, prev
    <3> QED
      BY <1>1, <1>2, <1>3 DEF Larger
  <2>2. DOMAIN merged = 1 .. len
    BY DEF MergeEntries
  <2>3. merged \in Seq(Entry) /\ LastLogIndex(i)' = base + Len(merged)
    BY <1>2, LogStep
  <2>4. Len(merged) = len
    <3> HIDE DEF merged, len
    <3> QED
      BY <2>1, <2>2, <2>3, LenProperties
  <2> HIDE DEF merged, len, base, prev
  <2> QED
    BY <1>1, <2>1, <2>3, <2>4
<1> HIDE DEF merged
<1> QED
  BY <1>2, <1>4, <1>5, <1>6 DEF EntryAt

-----------------------------------------------------------------------------
(* A leader only adds *)

\* Who takes entries follows afterwards.
LEMMA TakerFollows ==
  ASSUME TypeOK, NEW i \in Server, NEW m \in appendRequests, Takes(i, m)
  PROVE  status'[i] = Follower /\ currentTerm'[i] = m.term
<1>1. m.term \in Nat /\ currentTerm[i] \in Nat /\ m.term >= currentTerm[i] /\ m.follower = i
  BY DEF TypeOK, AppendRequest, Takes
<1>2. AdoptTerm(i, m.term) /\ status' = [status EXCEPT ![i] = Follower]
  <2>1. ~(m.term < currentTerm[m.follower])
    BY <1>1
  <2> QED
    BY <1>1, <2>1 DEF Takes, AppendEntries1, StatusAfterCall
<1>3. currentTerm'[i] = Larger(currentTerm[i], m.term)
  BY <1>2 DEF AdoptTerm, TypeOK
<1> QED
  BY <1>1, <1>2, <1>3 DEF Larger, TypeOK

\* While a node leads a term it only adds to its log: whoever takes entries from
\* a call follows, and a snapshot takes the front away.
THEOREM LeaderOnlyAppends == Spec => LeaderAppendOnly
<1> DEFINE Appended == \A i \in Server :
             status[i] = Leader /\ status'[i] = Leader /\ currentTerm'[i] = currentTerm[i] =>
               \A p \in 1 .. LastLogIndex(i) :
                 LET old == p - lastSnapshot[i].index
                     new == p - lastSnapshot'[i].index
                 IN  old > 0 /\ new > 0 => logs'[i][new] = logs[i][old]
<1>1. ASSUME IInv, IInv', [Next]_vars
      PROVE  [Appended]_vars
  <2>1. CASE UNCHANGED vars
    BY <2>1
  <2>2. CASE Next
    <3> SUFFICES ASSUME NEW i \in Server, status[i] = Leader, status'[i] = Leader,
                        NEW p \in 1 .. LastLogIndex(i),
                        p - lastSnapshot[i].index > 0, p - lastSnapshot'[i].index > 0
                 PROVE  logs'[i][p - lastSnapshot'[i].index] = logs[i][p - lastSnapshot[i].index]
      OBVIOUS
    <3>1. ~TakesEntries(i)
      BY <1>1, TakerFollows DEF TakesEntries, IInv, Follower, Leader
    <3>2. \A k \in Nat : k > lastSnapshot'[i].index /\ k <= LastLogIndex(i) =>
            EntryAt(i, k)' = EntryAt(i, k)
      BY <1>1, <2>2, <3>1, LogKept
    <3>3. p \in Nat /\ lastSnapshot'[i].index \in Nat /\ p <= LastLogIndex(i)
      BY <1>1, LastLogIndexIs DEF IInv, TypeOK, Snapshot
    <3>4. p > lastSnapshot'[i].index
      BY <3>3
    <3> QED
      BY <3>2, <3>3, <3>4 DEF EntryAt
  <2> QED
    BY <1>1, <2>1, <2>2
<1>2. IInv /\ IInv' /\ [Next]_vars => [Appended]_vars
  BY <1>1
<1> QED
  BY <1>2, Invariance, PTL DEF Spec, LeaderAppendOnly

-----------------------------------------------------------------------------
(* Calls and answers *)

\* A call in a term is made by the winner of the term, to another node, and a
\* node that acknowledges it has reached the term.
CallsWon ==
  /\ \A m \in appendRequests : /\ m.leader # m.follower /\ Won(m.leader, m.term)
                                /\ m.term <= currentTerm[m.leader]
  /\ \A m \in appendReplies : m.success =>
       /\ m.leader # m.follower /\ Won(m.leader, m.term)
       /\ m.term <= currentTerm[m.leader] /\ m.term <= currentTerm[m.follower]

\* While the caller stays in the term its log has what the call carries.
CallsCopy ==
  \A m \in appendRequests : m.term = currentTerm[m.leader] =>
    /\ m.prevLogIndex > lastSnapshot[m.leader].index =>
         LogTermAt(m.leader, m.prevLogIndex) = m.prevLogTerm
    /\ \A k \in DOMAIN m.entries :
         m.prevLogIndex + k > lastSnapshot[m.leader].index =>
           LogTermAt(m.leader, m.prevLogIndex + k) = m.entries[k].term

\* i and j have an entry of the same term at k, unless a snapshot covers it.
Agree(i, j, k) ==
  k > lastSnapshot[i].index /\ k > lastSnapshot[j].index =>
    k <= LastLogIndex(j) /\ LogTermAt(j, k) = LogTermAt(i, k)

\* An acknowledgement is right as long as both nodes stay in its term.
AcksSound ==
  \A m \in appendReplies :
    m.success /\ m.term = currentTerm[m.leader] /\ m.term = currentTerm[m.follower] =>
      Agree(m.leader, m.follower, m.upTo)

\* matchIndex is right as long as the peer stays in the leader's term.
MatchesSound ==
  \A i, j \in Server :
    status[i] = Leader /\ i # j /\ matchIndex[i][j] > lastSnapshot[i].index =>
      /\ currentTerm[j] >= currentTerm[i]
      /\ currentTerm[j] = currentTerm[i] => Agree(i, j, matchIndex[i][j])

\* A snapshot under way is not newer than its sender's.
SnapshotCallsOld ==
  /\ \A m \in snapshotRequests : m.snapshot.index <= lastSnapshot[m.leader].index
  /\ \A m \in snapshotReplies : m.index <= lastSnapshot[m.leader].index

\* The inductive invariant of replication.
MatchInv == CallsWon /\ CallsCopy /\ AcksSound /\ MatchesSound /\ SnapshotCallsOld

\* An acknowledgement is made where entries are taken.
LEMMA AckOrigin ==
  ASSUME IInv, Next, NEW m \in appendReplies', m.success, m \notin appendReplies
  PROVE  \E q \in appendRequests :
           /\ q.follower \in Server /\ Takes(q.follower, q)
           /\ m.leader = q.leader /\ m.follower = q.follower /\ m.round = q.round
           /\ m.term = q.term /\ m.upTo = q.prevLogIndex + Len(q.entries)
           /\ m.tailTerm = IF q.entries = <<>> THEN 0 ELSE q.entries[Len(q.entries)].term
<1>1. CASE UNCHANGED appendReplies
  BY <1>1
<1>2. ASSUME NEW q \in appendRequests, AppendEntries1(q)
      PROVE  /\ q.follower \in Server /\ Takes(q.follower, q)
             /\ m.leader = q.leader /\ m.follower = q.follower /\ m.round = q.round
             /\ m.term = q.term /\ m.upTo = q.prevLogIndex + Len(q.entries)
             /\ m.tailTerm = IF q.entries = <<>> THEN 0 ELSE q.entries[Len(q.entries)].term
  <2>1. q.follower \in Server
    BY DEF IInv, TypeOK, AppendRequest
  <2>2. ASSUME NEW term, NEW hint, AnswerAppend(q, term, FALSE, hint)
        PROVE  FALSE
    BY <2>2 DEF AnswerAppend
  <2>3. q.term >= currentTerm[q.follower] /\ AcceptEntries(q.follower, q)
    BY <1>1, <1>2, <2>2 DEF AppendEntries1, RejectEntries, PrevInsideSnapshot
  <2>4. AnswerAppend(q, q.term, TRUE, NoHint)
    BY <2>3 DEF AcceptEntries
  <2> QED
    BY <1>2, <2>1, <2>3, <2>4 DEF Takes, AnswerAppend
<1>3. CASE \E q \in appendReplies : SendAppendEntries(q)
  BY <1>3 DEF SendAppendEntries
<1>4. CASE \E q \in appendRequests \cup appendReplies : LoseAppendCall(q)
  BY <1>4 DEF LoseAppendCall
<1>5. CASE ElectionNext
  BY <1>1, <1>5 DEF ElectionNext, DoElection, RequestVote, SendRequestVote, appendCalls
<1>6. CASE AppendNext
  BY <1>1, <1>2, <1>3, <1>4, <1>6 DEF AppendNext, DoHeartBeat, StartSome, Start, appendCalls
<1>7. CASE ApplyNext
  BY <1>1, <1>7 DEF ApplyNext, CollectApplyMsgs, PushApplyMsg, appendCalls
<1>8. CASE SnapshotNext
  BY <1>1, <1>8 DEF SnapshotNext, SnapshotDelivered, MakeSnapshot, LeaderSendSnapShot,
              InstallSnapshot, SnapshotToClosedPeer, SnapshotAnswered, LoseSnapshotCall,
              PushMsgToKvServer, appendCalls
<1> QED
  BY <1>5, <1>6, <1>7, <1>8 DEF Next

\* The snapshot of a node does not get older.
LEMMA SnapshotGrows ==
  ASSUME IInv, IInv', Next, NEW i \in Server
  PROVE  /\ lastSnapshot[i].index \in Nat /\ lastSnapshot'[i].index \in Nat
         /\ lastSnapshot'[i].index >= lastSnapshot[i].index
<1>1. lastSnapshot[i].index \in Nat /\ lastSnapshot'[i].index \in Nat
  BY DEF IInv, TypeOK, Snapshot
<1>2. CASE TakesEntries(i)
  BY <1>1, <1>2, LogMerged DEF TakesEntries
<1>3. CASE ~TakesEntries(i)
  BY <1>1, <1>3, LogKept
<1> QED
  BY <1>1, <1>2, <1>3

\* Calls stay those of winners.
LEMMA CallsWonStep ==
  ASSUME IInv, IInv', VoteInv, CallsWon, Next
  PROVE  CallsWon'
<1>1. \A i \in Server : currentTerm[i] \in Nat /\ currentTerm'[i] \in Nat
                        /\ currentTerm'[i] >= currentTerm[i]
  BY TermsGrow DEF IInv
<1>2. ASSUME NEW m \in appendRequests'
      PROVE  /\ m.leader # m.follower /\ Won(m.leader, m.term)'
             /\ m.term <= currentTerm'[m.leader]
  <2>1. m.leader \in Server /\ m.term \in Nat
    BY DEF IInv, TypeOK, AppendRequest
  <2>2. CASE m \in appendRequests
    <3>1. m.leader # m.follower /\ Won(m.leader, m.term) /\ m.term <= currentTerm[m.leader]
      BY <2>2 DEF CallsWon
    <3> QED
      BY <1>1, <2>1, <3>1, WonStays
  <2>3. ASSUME NEW i \in Server, NEW j \in Server, NEW r \in Rounds, status[i] = Leader, i # j,
               m = AppendCall(i, j, r)
        PROVE  /\ m.leader # m.follower /\ Won(m.leader, m.term)'
               /\ m.term <= currentTerm'[m.leader]
    <3>1. m.leader = i /\ m.follower = j /\ m.term = currentTerm[i]
      BY <2>3 DEF AppendCall
    <3>2. Won(i, currentTerm[i])
      BY <2>3 DEF VoteInv, LeaderBacked, Won
    <3> QED
      BY <1>1, <2>3, <3>1, <3>2, WonStays
  <2> QED
    BY <2>2, <2>3, AppendRequestOrigin
<1>3. ASSUME NEW m \in appendReplies', m.success
      PROVE  /\ m.leader # m.follower /\ Won(m.leader, m.term)'
             /\ m.term <= currentTerm'[m.leader] /\ m.term <= currentTerm'[m.follower]
  <2>1. m.leader \in Server /\ m.follower \in Server /\ m.term \in Nat
    BY DEF IInv, TypeOK, AppendReply
  <2>2. CASE m \in appendReplies
    <3>1. /\ m.leader # m.follower /\ Won(m.leader, m.term)
          /\ m.term <= currentTerm[m.leader] /\ m.term <= currentTerm[m.follower]
      BY <1>3, <2>2 DEF CallsWon
    <3> QED
      BY <1>1, <2>1, <3>1, WonStays
  <2>3. CASE m \notin appendReplies
    <3>1. PICK q \in appendRequests :
            /\ q.follower \in Server /\ Takes(q.follower, q)
            /\ m.leader = q.leader /\ m.follower = q.follower /\ m.term = q.term
      BY <1>3, <2>3, AckOrigin
    <3>2. q.leader # q.follower /\ Won(q.leader, q.term) /\ q.term <= currentTerm[q.leader]
      BY DEF CallsWon
    <3>3. currentTerm'[q.follower] = q.term
      BY <3>1, TakerFollows DEF IInv
    <3> QED
      BY <1>1, <2>1, <3>1, <3>2, <3>3, WonStays
  <2> QED
    BY <2>2, <2>3
<1> QED
  BY <1>2, <1>3 DEF CallsWon
\* The winner of a term takes no entries while it stays in the term.
LEMMA WinnerTakesNothing ==
  ASSUME IInv, VoteInv, CallsWon, NEW i \in Server, Won(i, currentTerm[i]),
         currentTerm'[i] = currentTerm[i]
  PROVE  ~TakesEntries(i)
<1> SUFFICES ASSUME NEW m \in appendRequests, Takes(i, m)
             PROVE  FALSE
  BY DEF TakesEntries
<1>1. m.leader \in Server /\ m.term \in Nat /\ m.follower = i
  BY DEF IInv, TypeOK, AppendRequest, Takes
<1>2. m.term = currentTerm[i]
  BY TakerFollows DEF IInv
<1>3. m.leader # m.follower /\ Won(m.leader, m.term)
  BY DEF CallsWon
<1> QED
  BY <1>1, <1>2, <1>3, OneWinner DEF VoteInv

\* The last index of a log is a number, and does not fall.
LEMMA LogGrows ==
  ASSUME IInv, IInv', Next, NEW i \in Server
  PROVE  /\ LastLogIndex(i) \in Nat /\ LastLogIndex(i)' \in Nat
         /\ LastLogIndex(i)' >= LastLogIndex(i)
<1>1. LastLogIndex(i) \in Nat
  BY LastLogIndexIs DEF IInv
<1>2. LastLogIndex(i)' = lastSnapshot'[i].index + Len(logs'[i]) /\ LastLogIndex(i)' >= LastLogIndex(i)
  BY LogStep
<1>3. lastSnapshot'[i].index \in Nat /\ Len(logs'[i]) \in Nat
  BY LenProperties DEF IInv, TypeOK, Snapshot
<1> QED
  BY <1>1, <1>2, <1>3

\* The log of a node that takes no entries keeps its terms.
LEMMA TermsKept ==
  ASSUME IInv, IInv', Next, NEW i \in Server, ~TakesEntries(i),
         NEW k \in Nat, k > lastSnapshot'[i].index, k <= LastLogIndex(i)
  PROVE  LogTermAt(i, k)' = LogTermAt(i, k) /\ Held(i, k) /\ Held(i, k)'
<1>1. /\ lastSnapshot'[i].index >= lastSnapshot[i].index
      /\ EntryAt(i, k)' = EntryAt(i, k)
  BY LogKept
<1>2. /\ lastSnapshot'[i].index \in Nat /\ lastSnapshot[i].index \in Nat
      /\ LastLogIndex(i) \in Nat /\ LastLogIndex(i)' \in Nat
      /\ LastLogIndex(i)' >= LastLogIndex(i)
  BY LogGrows, SnapshotGrows
<1>3. Held(i, k) /\ Held(i, k)'
  <2>1. k > lastSnapshot[i].index /\ k <= LastLogIndex(i)'
    BY <1>1, <1>2
  <2> QED
    BY <2>1 DEF Held
<1>4. LogTermAt(i, k) = EntryAt(i, k).term
  BY <1>3, HeldEntry DEF TermsHeld
<1>5. LogTermAt(i, k)' = EntryAt(i, k)'.term
  BY <1>3, HeldEntryAfter DEF TermsHeld
<1> QED
  BY <1>1, <1>3, <1>4, <1>5

\* The calls of a term stay copies of their caller's log.
LEMMA CallsCopyStep ==
  ASSUME IInv, IInv', VoteInv, CallsWon, CallsCopy, Next
  PROVE  CallsCopy'
<1> SUFFICES ASSUME NEW m \in appendRequests', m.term = currentTerm'[m.leader]
             PROVE  /\ m.prevLogIndex > lastSnapshot'[m.leader].index =>
                         LogTermAt(m.leader, m.prevLogIndex)' = m.prevLogTerm
                    /\ \A k \in DOMAIN m.entries :
                         m.prevLogIndex + k > lastSnapshot'[m.leader].index =>
                           LogTermAt(m.leader, m.prevLogIndex + k)' = m.entries[k].term
  BY DEF CallsCopy
<1> DEFINE i == m.leader
           prev == m.prevLogIndex
<1>1. /\ i \in Server /\ m.term \in Nat /\ prev \in Nat /\ Len(m.entries) \in Nat
      /\ DOMAIN m.entries = 1 .. Len(m.entries)
  <2>1. m \in AppendRequest
    BY DEF IInv, TypeOK
  <2> QED
    BY <2>1, LenProperties DEF AppendRequest
<1>2. LastLogIndex(i) \in Nat
  BY <1>1, LastLogIndexIs DEF IInv
<1>3. CASE m \in appendRequests
  <2>1. Won(i, m.term) /\ m.term <= currentTerm[i] /\ currentTerm[i] <= currentTerm'[i]
        /\ currentTerm[i] \in Nat
    BY <1>1, <1>3, TermsGrow DEF CallsWon, IInv
  <2>2. currentTerm'[i] = currentTerm[i] /\ m.term = currentTerm[i]
    BY <1>1, <2>1
  <2>3. ~TakesEntries(i)
    BY <1>1, <2>1, <2>2, WinnerTakesNothing
  <2>4. prev + Len(m.entries) <= LastLogIndex(i)
    BY <1>3 DEF IInv, IndexBounds
  <2>5. lastSnapshot'[i].index >= lastSnapshot[i].index
        /\ lastSnapshot'[i].index \in Nat /\ lastSnapshot[i].index \in Nat
    BY <1>1, SnapshotGrows
  <2>6. ASSUME NEW k \in 0 .. Len(m.entries), prev + k > lastSnapshot'[i].index
        PROVE  LogTermAt(i, prev + k)' = LogTermAt(i, prev + k) /\ prev + k > lastSnapshot[i].index
    <3>1. prev + k \in Nat /\ prev + k <= LastLogIndex(i) /\ prev + k > lastSnapshot[i].index
      <4> HIDE DEF i, prev
      <4> QED
        BY <1>1, <1>2, <2>4, <2>5, <2>6
    <3> HIDE DEF i, prev
    <3> QED
      BY <1>1, <2>3, <2>6, <3>1, TermsKept
  <2>7. ASSUME prev > lastSnapshot'[i].index
        PROVE  LogTermAt(i, prev)' = m.prevLogTerm
    <3>1. prev > lastSnapshot[i].index
      <4> HIDE DEF i, prev
      <4> QED
        BY <1>1, <2>5, <2>7
    <3>2. LogTermAt(i, prev) = m.prevLogTerm
      BY <1>3, <2>2, <3>1 DEF CallsCopy
    <3>3. prev <= LastLogIndex(i)
      <4> HIDE DEF i, prev
      <4> QED
        BY <1>1, <1>2, <2>4
    <3>4. LogTermAt(i, prev)' = LogTermAt(i, prev)
      <4> HIDE DEF i, prev
      <4> QED
        BY <1>1, <2>3, <2>7, <3>3, TermsKept
    <3> QED
      BY <3>2, <3>4
  <2>8. ASSUME NEW k \in DOMAIN m.entries, prev + k > lastSnapshot'[i].index
        PROVE  LogTermAt(i, prev + k)' = m.entries[k].term
    <3>1. k \in 0 .. Len(m.entries)
      BY <1>1
    <3>2. LogTermAt(i, prev + k)' = LogTermAt(i, prev + k) /\ prev + k > lastSnapshot[i].index
      BY <2>6, <2>8, <3>1
    <3> QED
      BY <1>3, <2>2, <3>2 DEF CallsCopy
  <2> QED
    BY <2>7, <2>8
<1>4. ASSUME NEW n \in Server, NEW j \in Server, NEW r \in Rounds, status[n] = Leader, n # j,
             ~BehindSnapshot(n, j), m = AppendCall(n, j, r),
             UNCHANGED <<status, currentTerm, logs, lastSnapshot>>
      PROVE  /\ LogTermAt(n, prev)' = m.prevLogTerm
             /\ \A k \in DOMAIN m.entries :
                  prev + k > lastSnapshot'[n].index => LogTermAt(n, prev + k)' = m.entries[k].term
  <2>1. /\ m.leader = n /\ prev = PrevLogIndex(n, j)
        /\ m.prevLogTerm = LogTermAt(n, PrevLogIndex(n, j))
    BY <1>4 DEF AppendCall
  <2>2. \A x : LogTermAt(n, x)' = LogTermAt(n, x)
    BY <1>4 DEF LogTermAt, Slice
  <2>3. ASSUME NEW k \in DOMAIN m.entries, prev + k > lastSnapshot[n].index
        PROVE  LogTermAt(n, prev + k) = m.entries[k].term
    <3>1. /\ m.entries[k].index = prev + k
          /\ \E p \in DOMAIN logs[n] : m.entries[k] = logs[n][p]
          /\ prev + Len(m.entries) <= LastLogIndex(n)
      BY <1>4, <2>3, AppendCallFacts
    <3>2. PICK p \in DOMAIN logs[n] : m.entries[k] = logs[n][p]
      BY <3>1
    <3>3. logs[n][p].index = lastSnapshot[n].index + p
      BY DEF IInv, Contiguous
    <3>4. p \in Nat /\ lastSnapshot[n].index \in Nat
      <4>1. logs[n] \in Seq(Entry) /\ lastSnapshot[n].index \in Nat
        BY DEF IInv, TypeOK, Snapshot
      <4>2. DOMAIN logs[n] = 1 .. Len(logs[n]) /\ Len(logs[n]) \in Nat
        BY <4>1, LenProperties
      <4> QED
        BY <4>1, <4>2
    <3>5. k \in Nat /\ k <= Len(m.entries) /\ prev + k \in Nat
      BY <1>1
    <3>6. (prev + k) - lastSnapshot[n].index = p /\ prev + k <= LastLogIndex(n)
      <4>1. lastSnapshot[n].index + p = prev + k
        BY <3>1, <3>2, <3>3
      <4>2. LastLogIndex(n) \in Nat
        BY LastLogIndexIs DEF IInv
      <4>3. prev \in Nat /\ Len(m.entries) \in Nat /\ prev + Len(m.entries) <= LastLogIndex(n)
        BY <1>1, <3>1
      <4> DEFINE base == lastSnapshot[n].index
                 len == Len(m.entries)
                 last == LastLogIndex(n)
                 at == prev + k
      <4>4. base \in Nat /\ base + p = at
        BY <3>4, <4>1
      <4>5. at \in Nat /\ at <= last
        <5> HIDE DEF prev, last, len
        <5>1. k <= len /\ k \in Nat
          BY <3>5 DEF len
        <5>2. len \in Nat /\ last \in Nat /\ prev \in Nat /\ prev + len <= last
          BY <4>2, <4>3 DEF len, last
        <5> QED
          BY <5>1, <5>2
      <4>6. at - base = p
        <5> HIDE DEF at, base
        <5> QED
          BY <3>4, <4>4, <4>5
      <4> QED
        BY <4>5, <4>6
    <3>7. EntryAt(n, prev + k) = m.entries[k]
      <4>1. EntryAt(n, prev + k) = logs[n][(prev + k) - lastSnapshot[n].index]
        BY DEF EntryAt
      <4> QED
        BY <3>2, <3>6, <4>1
    <3>8. Held(n, prev + k)
      BY <2>3, <3>6 DEF Held
    <3>9. LogTermAt(n, prev + k) = EntryAt(n, prev + k).term
      <4> HIDE DEF prev
      <4> QED
        BY <3>5, <3>8, HeldEntry DEF TermsHeld
    <3> QED
      BY <3>7, <3>9
  <2> QED
    BY <1>4, <2>1, <2>2, <2>3
<1> QED
  <2>1. CASE m \notin appendRequests
    <3>1. PICK n \in Server, j \in Server, r \in Rounds :
            /\ status[n] = Leader /\ n # j
            /\ ~BehindSnapshot(n, j) /\ m = AppendCall(n, j, r)
            /\ UNCHANGED <<status, currentTerm, logs, lastSnapshot>>
      BY <2>1, AppendRequestOrigin
    <3>2. m.leader = n
      BY <3>1 DEF AppendCall
    <3> QED
      BY <1>4, <3>1, <3>2
  <2> QED
    BY <1>3, <2>1
\* What the winner of a term and a node in that term agree on, they go on agreeing
\* on while both stay in it.
LEMMA AgreeStays ==
  ASSUME IInv, IInv', VoteInv, CallsWon, CallsCopy, Next,
         NEW i \in Server, NEW j \in Server, i # j, Won(i, currentTerm[i]),
         currentTerm[j] = currentTerm[i],
         currentTerm'[i] = currentTerm[i], currentTerm'[j] = currentTerm[j],
         NEW k \in Nat, k <= LastLogIndex(i), Agree(i, j, k)
  PROVE  Agree(i, j, k)'
<1> SUFFICES ASSUME k > lastSnapshot'[i].index, k > lastSnapshot'[j].index
             PROVE  k <= LastLogIndex(j)' /\ LogTermAt(j, k)' = LogTermAt(i, k)'
  BY DEF Agree
<1>1. \A n \in Server : /\ lastSnapshot[n].index \in Nat /\ lastSnapshot'[n].index \in Nat
                        /\ lastSnapshot'[n].index >= lastSnapshot[n].index
                        /\ LastLogIndex(n) \in Nat /\ LastLogIndex(n)' \in Nat
                        /\ LastLogIndex(n)' >= LastLogIndex(n)
  BY LogGrows, SnapshotGrows
<1>2. k > lastSnapshot[i].index /\ k > lastSnapshot[j].index
  BY <1>1
<1>3. k <= LastLogIndex(j) /\ LogTermAt(j, k) = LogTermAt(i, k)
  BY <1>2 DEF Agree
<1>4. k <= LastLogIndex(j)'
  BY <1>1, <1>3
<1>5. LogTermAt(i, k)' = LogTermAt(i, k)
  BY WinnerTakesNothing, TermsKept
<1>6. CASE ~TakesEntries(j)
  BY <1>3, <1>4, <1>5, <1>6, TermsKept
<1>7. CASE TakesEntries(j)
  <2>1. PICK m \in appendRequests : Takes(j, m)
    BY <1>7 DEF TakesEntries
  <2>2. m.leader \in Server /\ m.term \in Nat /\ m.prevLogIndex \in Nat
        /\ DOMAIN m.entries = 1 .. Len(m.entries) /\ Len(m.entries) \in Nat
    <3>1. m \in AppendRequest
      BY DEF IInv, TypeOK
    <3> QED
      BY <3>1, LenProperties DEF AppendRequest
  <2>3. m.term = currentTerm[i] /\ m.leader = i
    <3>1. m.term = currentTerm[i]
      BY <2>1, TakerFollows DEF IInv
    <3>2. Won(m.leader, m.term)
      BY DEF CallsWon
    <3> QED
      BY <2>2, <3>1, <3>2, OneWinner DEF VoteInv
  <2>4. Held(j, k) /\ Held(j, k)'
    BY <1>2, <1>3, <1>4 DEF Held
  <2>5. LogTermAt(j, k) = EntryAt(j, k).term /\ LogTermAt(j, k)' = EntryAt(j, k)'.term
    BY <2>4, HeldEntry, HeldEntryAfter DEF TermsHeld
  <2>6. CASE k - m.prevLogIndex \in DOMAIN m.entries
    <3>1. EntryAt(j, k)'.term = m.entries[k - m.prevLogIndex].term
      BY <1>2, <2>1, <2>6, LogMerged
    <3>2. m.prevLogIndex + (k - m.prevLogIndex) = k
      BY <2>2
    <3>3. LogTermAt(i, k) = m.entries[k - m.prevLogIndex].term
      BY <1>2, <2>3, <2>6, <3>2 DEF CallsCopy
    <3> QED
      BY <1>4, <1>5, <2>5, <3>1, <3>3
  <2>7. CASE k - m.prevLogIndex \notin DOMAIN m.entries
    <3>1. EntryAt(j, k)' = EntryAt(j, k)
      BY <1>2, <1>3, <2>1, <2>7, LogMerged
    <3> QED
      BY <1>3, <1>4, <1>5, <2>5, <3>1
  <2> QED
    BY <2>6, <2>7
<1> QED
  BY <1>6, <1>7

\* Where entries are taken, the two nodes agree on the last index covered.
LEMMA AgreeWhereTaken ==
  ASSUME IInv, IInv', VoteInv, CallsWon, CallsCopy, Next,
         NEW j \in Server, NEW m \in appendRequests, Takes(j, m),
         currentTerm'[m.leader] = m.term
  PROVE  Agree(m.leader, j, m.prevLogIndex + Len(m.entries))'
<1> DEFINE i == m.leader
           prev == m.prevLogIndex
           k == prev + Len(m.entries)
<1>1. /\ i \in Server /\ m.term \in Nat /\ prev \in Nat /\ Len(m.entries) \in Nat
      /\ DOMAIN m.entries = 1 .. Len(m.entries)
  <2>1. m \in AppendRequest
    BY DEF IInv, TypeOK
  <2> QED
    BY <2>1, LenProperties DEF AppendRequest
<1> SUFFICES ASSUME k > lastSnapshot'[i].index, k > lastSnapshot'[j].index
             PROVE  k <= LastLogIndex(j)' /\ LogTermAt(j, k)' = LogTermAt(i, k)'
  BY DEF Agree
<1>2. \A n \in Server : /\ lastSnapshot[n].index \in Nat /\ lastSnapshot'[n].index \in Nat
                        /\ lastSnapshot'[n].index >= lastSnapshot[n].index
                        /\ LastLogIndex(n) \in Nat /\ LastLogIndex(n)' \in Nat
                        /\ LastLogIndex(n)' >= LastLogIndex(n)
  BY LogGrows, SnapshotGrows
<1>3. k \in Nat
  BY <1>1
<1>4. k > lastSnapshot[i].index /\ k > lastSnapshot[j].index
  <2>1. \A n \in Server : k > lastSnapshot'[n].index => k > lastSnapshot[n].index
    <3> HIDE DEF k
    <3> QED
      BY <1>2, <1>3
  <2> HIDE DEF k, i
  <2> QED
    BY <1>1, <2>1
<1>5. i # m.follower /\ Won(i, m.term) /\ m.term <= currentTerm[i]
  BY DEF CallsWon
<1>6. currentTerm[i] = m.term
  <2>1. currentTerm[i] \in Nat /\ currentTerm'[i] >= currentTerm[i]
    BY <1>1, TermsGrow DEF IInv
  <2> QED
    BY <1>1, <1>5, <2>1
<1>7. k <= LastLogIndex(i)
  BY DEF IInv, IndexBounds
<1>8. LogTermAt(i, k)' = LogTermAt(i, k)
  <2> HIDE DEF k, i
  <2>1. currentTerm'[i] = currentTerm[i]
    BY <1>6 DEF i
  <2> QED
    BY <1>1, <1>3, <1>5, <1>6, <1>7, <2>1, WinnerTakesNothing, TermsKept
<1>9. /\ k <= LastLogIndex(j)'
      /\ prev <= LastLogIndex(j) /\ prev >= lastSnapshot[j].index
      /\ LogTermAt(j, prev) = m.prevLogTerm
  BY LogMerged
<1>10. LogTermAt(j, k)' = EntryAt(j, k)'.term
  <2>1. Held(j, k)'
    BY <1>9 DEF Held
  <2> QED
    BY <1>3, <2>1, HeldEntryAfter DEF TermsHeld
<1>11. CASE Len(m.entries) = 0
  <2>1. k = prev /\ k - prev \notin DOMAIN m.entries
    BY <1>1, <1>11
  <2>2. EntryAt(j, k)' = EntryAt(j, k)
    BY <1>1, <1>4, <1>9, <2>1, LogMerged
  <2>3. LogTermAt(j, prev) = EntryAt(j, prev).term
    <3>1. Held(j, prev)
      BY <1>4, <1>9, <2>1 DEF Held
    <3> QED
      BY <1>1, <3>1, HeldEntry DEF TermsHeld
  <2>4. LogTermAt(i, prev) = m.prevLogTerm
    BY <1>4, <1>6, <2>1 DEF CallsCopy
  <2> QED
    BY <1>8, <1>9, <1>10, <2>1, <2>2, <2>3, <2>4
<1>12. CASE Len(m.entries) # 0
  <2>1. Len(m.entries) \in DOMAIN m.entries /\ k - prev = Len(m.entries)
    BY <1>1, <1>12
  <2>2. EntryAt(j, k)'.term = m.entries[k - prev].term
    BY <1>3, <1>4, <2>1, LogMerged
  <2>3. LogTermAt(i, k) = m.entries[Len(m.entries)].term
    BY <1>4, <1>6, <2>1 DEF CallsCopy
  <2> QED
    BY <1>8, <1>9, <1>10, <2>1, <2>2, <2>3
<1> QED
  BY <1>11, <1>12

\* Acknowledgements stay right.
LEMMA AcksStep ==
  ASSUME IInv, IInv', VoteInv, CallsWon, CallsCopy, AcksSound, Next
  PROVE  AcksSound'
<1> SUFFICES ASSUME NEW m \in appendReplies', m.success, m.term = currentTerm'[m.leader],
                    m.term = currentTerm'[m.follower]
             PROVE  Agree(m.leader, m.follower, m.upTo)'
  BY DEF AcksSound
<1>1. m.leader \in Server /\ m.follower \in Server /\ m.term \in Nat /\ m.upTo \in Nat
  BY DEF IInv, TypeOK, AppendReply
<1>2. CASE m \in appendReplies
  <2>1. /\ m.leader # m.follower /\ Won(m.leader, m.term)
        /\ m.term <= currentTerm[m.leader] /\ m.term <= currentTerm[m.follower]
    BY <1>2 DEF CallsWon
  <2>2. m.term = currentTerm[m.leader] /\ m.term = currentTerm[m.follower]
    <3>1. /\ currentTerm[m.leader] \in Nat /\ currentTerm'[m.leader] >= currentTerm[m.leader]
          /\ currentTerm[m.follower] \in Nat /\ currentTerm'[m.follower] >= currentTerm[m.follower]
      BY <1>1, TermsGrow DEF IInv
    <3>2. m.term >= currentTerm[m.leader] /\ m.term >= currentTerm[m.follower]
      BY <3>1
    <3> QED
      BY <1>1, <2>1, <3>1, <3>2
  <2>3. Agree(m.leader, m.follower, m.upTo) /\ m.upTo <= LastLogIndex(m.leader)
    BY <1>2, <2>2 DEF AcksSound, IInv, IndexBounds
  <2> QED
    BY <1>1, <2>1, <2>2, <2>3, AgreeStays
<1>3. CASE m \notin appendReplies
  <2>1. PICK q \in appendRequests :
          /\ q.follower \in Server /\ Takes(q.follower, q)
          /\ m.leader = q.leader /\ m.follower = q.follower
          /\ m.term = q.term /\ m.upTo = q.prevLogIndex + Len(q.entries)
    BY <1>3, AckOrigin
  <2>2. Agree(q.leader, q.follower, q.prevLogIndex + Len(q.entries))'
    BY <2>1, AgreeWhereTaken
  <2> QED
    BY <2>1, <2>2
<1> QED
  BY <1>2, <1>3
\* A node that has not been leading leads after BecomeLeader.
LEMMA NewLeader ==
  ASSUME TypeOK, Next, NEW i \in Server, status[i] # Leader, status'[i] = Leader
  PROVE  \E m \in voteReplies : m.candidate = i /\ SendRequestVote(m) /\ BecomeLeader(i)
<1>1. PICK m \in voteReplies : Counted(m) /\ m.candidate = i
  BY LeaderStep
<1>2. status' # status /\ status' # [status EXCEPT ![i] = Follower]
  BY DEF TypeOK, Follower, Leader
<1> QED
  BY <1>1, <1>2 DEF Counted, SendRequestVote, StepDown

\* Where the matchIndex of a leader comes from.
LEMMA MatchOrigin ==
  ASSUME IInv, Next, NEW i \in Server, NEW j \in Server, status'[i] = Leader
  PROVE  \/ matchIndex'[i][j] = 0
         \/ status[i] = Leader /\ matchIndex'[i][j] = matchIndex[i][j]
         \/ status[i] = Leader /\ \E m \in appendReplies :
              /\ m.leader = i /\ m.follower = j /\ m.success /\ m.term = currentTerm[i]
              /\ matchIndex'[i][j] = Larger(matchIndex[i][j], m.upTo)
         \/ status[i] = Leader /\ \E m \in snapshotReplies :
              m.leader = i /\ m.follower = j /\ matchIndex'[i][j] = m.index
<1> DEFINE Origin ==
      \/ matchIndex'[i][j] = 0
      \/ matchIndex'[i][j] = matchIndex[i][j]
      \/ \E m \in appendReplies :
           /\ m.leader = i /\ m.follower = j /\ m.success /\ m.term = currentTerm[i]
           /\ matchIndex'[i][j] = Larger(matchIndex[i][j], m.upTo)
      \/ \E m \in snapshotReplies :
           m.leader = i /\ m.follower = j /\ matchIndex'[i][j] = m.index
<1>1. matchIndex \in [Server -> [Server -> Nat]]
  BY DEF IInv, TypeOK
<1>2. CASE status[i] # Leader
  <2>1. PICK m \in voteReplies : BecomeLeader(i)
    BY <1>2, NewLeader DEF IInv
  <2> QED
    BY <1>1, <2>1 DEF BecomeLeader
<1>3. ASSUME UNCHANGED matchIndex
      PROVE  Origin
  BY <1>3
<1>4. ASSUME NEW m \in voteReplies, SendRequestVote(m)
      PROVE  Origin
  <2>1. \/ UNCHANGED matchIndex
        \/ matchIndex' = [matchIndex EXCEPT ![m.candidate] = [n \in Server |-> 0]]
    BY <1>4 DEF SendRequestVote, BecomeLeader
  <2> QED
    BY <1>1, <2>1
<1>5. ASSUME NEW m \in appendReplies, SendAppendEntries(m)
      PROVE  Origin
  <2>1. \/ UNCHANGED matchIndex
        \/ /\ m.success /\ m.term = currentTerm[m.leader]
           /\ matchIndex' = [matchIndex EXCEPT ![m.leader][m.follower] = MatchAfter(m.leader, m)]
    BY <1>5 DEF SendAppendEntries, Acknowledged
  <2>2. m.leader \in Server /\ m.follower \in Server
    BY DEF IInv, TypeOK, AppendReply
  <2>3. CASE /\ m.success /\ m.term = currentTerm[m.leader]
             /\ matchIndex' = [matchIndex EXCEPT ![m.leader][m.follower] = MatchAfter(m.leader, m)]
    <3>1. CASE m.leader = i /\ m.follower = j
      BY <1>1, <2>3, <3>1 DEF MatchAfter
    <3>2. CASE ~(m.leader = i /\ m.follower = j)
      BY <1>1, <2>3, <3>2
    <3> QED
      BY <3>1, <3>2
  <2> QED
    BY <2>1, <2>3
<1>6. ASSUME NEW m \in snapshotReplies, SnapshotAnswered(m)
      PROVE  Origin
  <2>1. \/ UNCHANGED matchIndex
        \/ matchIndex' = [matchIndex EXCEPT ![m.leader][m.follower] = m.index]
    BY <1>6 DEF SnapshotAnswered
  <2>2. CASE matchIndex' = [matchIndex EXCEPT ![m.leader][m.follower] = m.index]
    <3>1. CASE m.leader = i /\ m.follower = j
      BY <1>1, <2>2, <3>1
    <3>2. CASE ~(m.leader = i /\ m.follower = j)
      BY <1>1, <2>2, <3>2
    <3> QED
      BY <3>1, <3>2
  <2> QED
    BY <2>1, <2>2
<1>7. Origin
  <2>1. CASE ElectionNext
    BY <1>3, <1>4, <2>1 DEF ElectionNext, DoElection, RequestVote, leaderVars
  <2>2. CASE AppendNext
    BY <1>3, <1>5, <2>2 DEF AppendNext, DoHeartBeat, StartSome, Start, AppendEntries1,
                            LoseAppendCall, leaderVars
  <2>3. CASE ApplyNext
    BY <1>3, <2>3 DEF ApplyNext, CollectApplyMsgs, PushApplyMsg, leaderVars
  <2>4. CASE SnapshotNext
    BY <1>3, <1>6, <2>4 DEF SnapshotNext, SnapshotDelivered, MakeSnapshot, LeaderSendSnapShot,
                InstallSnapshot, SnapshotToClosedPeer, LoseSnapshotCall, PushMsgToKvServer,
                leaderVars
  <2> QED
    BY <2>1, <2>2, <2>3, <2>4 DEF Next
<1> HIDE DEF Origin
<1>8. CASE status[i] = Leader
  BY <1>7, <1>8 DEF Origin
<1> QED
  BY <1>2, <1>8

\* matchIndex stays right.
LEMMA MatchesStep ==
  ASSUME IInv, IInv', VoteInv, MatchInv, Next
  PROVE  MatchesSound'
<1> SUFFICES ASSUME NEW i \in Server, NEW j \in Server, status'[i] = Leader, i # j,
                    matchIndex'[i][j] > lastSnapshot'[i].index
             PROVE  /\ currentTerm'[j] >= currentTerm'[i]
                    /\ currentTerm'[j] = currentTerm'[i] => Agree(i, j, matchIndex[i][j])'
  BY DEF MatchesSound
<1> USE DEF MatchInv
<1>1. \A n \in Server : /\ currentTerm[n] \in Nat /\ currentTerm'[n] \in Nat
                        /\ currentTerm'[n] >= currentTerm[n]
                        /\ lastSnapshot[n].index \in Nat /\ lastSnapshot'[n].index \in Nat
                        /\ lastSnapshot'[n].index >= lastSnapshot[n].index
  BY TermsGrow, SnapshotGrows DEF IInv
<1>2. ASSUME status[i] = Leader, NEW k \in Nat, k <= LastLogIndex(i), currentTerm[j] >= currentTerm[i],
             currentTerm[j] = currentTerm[i] => Agree(i, j, k), matchIndex'[i][j] = k
      PROVE  /\ currentTerm'[j] >= currentTerm'[i]
             /\ currentTerm'[j] = currentTerm'[i] => Agree(i, j, matchIndex[i][j])'
  <2>1. currentTerm'[i] = currentTerm[i]
    BY <1>2, LeaderTermStays DEF IInv
  <2>2. currentTerm'[j] >= currentTerm'[i]
    BY <1>1, <1>2, <2>1
  <2>3. ASSUME currentTerm'[j] = currentTerm'[i]
        PROVE  Agree(i, j, matchIndex[i][j])'
    <3>1. currentTerm[j] = currentTerm[i] /\ currentTerm'[j] = currentTerm[j]
      BY <1>1, <1>2, <2>1, <2>3
    <3>2. Won(i, currentTerm[i])
      BY <1>2 DEF VoteInv, LeaderBacked, Won
    <3>3. Agree(i, j, k)'
      BY <1>2, <2>1, <3>1, <3>2, AgreeStays
    <3> QED
      BY <1>2, <3>3 DEF Agree
  <2> QED
    BY <2>2, <2>3
<1>3. matchIndex[i][j] \in Nat /\ matchIndex[i][j] <= LastLogIndex(i)
  BY DEF IInv, TypeOK, IndexBounds
<1>4. CASE matchIndex'[i][j] = 0
  BY <1>1, <1>4
<1>5. CASE status[i] = Leader /\ matchIndex'[i][j] = matchIndex[i][j]
  <2>1. matchIndex[i][j] > lastSnapshot[i].index
    BY <1>1, <1>3, <1>5
  <2> QED
    BY <1>2, <1>3, <1>5, <2>1 DEF MatchesSound
<1>6. ASSUME status[i] = Leader, NEW m \in appendReplies, m.leader = i, m.follower = j, m.success,
             m.term = currentTerm[i], matchIndex'[i][j] = Larger(matchIndex[i][j], m.upTo)
      PROVE  /\ currentTerm'[j] >= currentTerm'[i]
             /\ currentTerm'[j] = currentTerm'[i] => Agree(i, j, matchIndex[i][j])'
  <2>1. CASE matchIndex'[i][j] = matchIndex[i][j]
    BY <1>5, <1>6, <2>1
  <2>2. CASE matchIndex'[i][j] = m.upTo
    <3>1. m.upTo \in Nat /\ m.upTo <= LastLogIndex(i)
      BY <1>6 DEF IInv, TypeOK, AppendReply, IndexBounds
    <3>2. currentTerm[j] >= currentTerm[i]
      <4>1. m.term <= currentTerm[j]
        BY <1>6 DEF CallsWon
      <4> QED
        BY <1>1, <1>6, <4>1
    <3>3. currentTerm[j] = currentTerm[i] => Agree(i, j, m.upTo)
      BY <1>6 DEF AcksSound
    <3> QED
      BY <1>2, <1>6, <2>2, <3>1, <3>2, <3>3
  <2> QED
    BY <1>6, <2>1, <2>2 DEF Larger
<1>7. ASSUME NEW m \in snapshotReplies, m.leader = i, matchIndex'[i][j] = m.index
      PROVE  FALSE
  <2>1. m.index <= lastSnapshot[i].index /\ m.index \in Nat
    BY <1>7 DEF SnapshotCallsOld, IInv, TypeOK, SnapshotReply
  <2> QED
    BY <1>1, <1>7, <2>1
<1> QED
  BY <1>4, <1>5, <1>6, <1>7, MatchOrigin

\* Snapshots under way stay old.
LEMMA SnapshotCallsStep ==
  ASSUME IInv, IInv', SnapshotCallsOld, Next
  PROVE  SnapshotCallsOld'
<1>1. ASSUME NEW m \in snapshotRequests'
      PROVE  m.snapshot.index <= lastSnapshot'[m.leader].index
  <2>1. m.leader \in Server /\ m.snapshot.index \in Nat
    BY DEF IInv, TypeOK, SnapshotRequest, Snapshot
  <2>2. m.snapshot.index <= lastSnapshot[m.leader].index
    BY <2>1, SnapshotCallOrigin, SnapshotGrows DEF SnapshotCallsOld
  <2> QED
    BY <2>1, <2>2, SnapshotGrows
<1>2. ASSUME NEW m \in snapshotReplies'
      PROVE  m.index <= lastSnapshot'[m.leader].index
  <2>1. m.leader \in Server /\ m.index \in Nat
    BY DEF IInv, TypeOK, SnapshotReply
  <2>2. m.index <= lastSnapshot[m.leader].index
    BY <2>1, SnapshotCallOrigin DEF SnapshotCallsOld
  <2> QED
    BY <2>1, <2>2, SnapshotGrows
<1> QED
  BY <1>1, <1>2 DEF SnapshotCallsOld

\* The invariant of replication is inductive.
LEMMA MatchInvStep ==
  ASSUME IInv, IInv', VoteInv, MatchInv, [Next]_vars
  PROVE  MatchInv'
<1>1. CASE Next
  BY <1>1, CallsWonStep, CallsCopyStep, AcksStep, MatchesStep, SnapshotCallsStep DEF MatchInv
<1>2. CASE UNCHANGED vars
  <2>1. UNCHANGED <<status, currentTerm, logs, lastSnapshot, matchIndex, votes, appendRequests,
                    appendReplies, snapshotRequests, snapshotReplies>>
    BY <1>2 DEF vars, durableVars, electionVars, leaderVars, appendCalls, snapCalls
  <2>2. /\ \A i, term : Won(i, term)' = Won(i, term)
        /\ \A i, k : LogTermAt(i, k)' = LogTermAt(i, k)
        /\ \A i, j, k : Agree(i, j, k)' = Agree(i, j, k)
    BY <2>1 DEF Won, Majority, LogTermAt, Slice, LastLogIndex, Agree
  <2>3. CallsWon' /\ CallsCopy'
    BY <2>1, <2>2 DEF MatchInv, CallsWon, CallsCopy
  <2>4. AcksSound'
    BY <2>1, <2>2 DEF MatchInv, AcksSound
  <2>5. MatchesSound'
    BY <2>1, <2>2 DEF MatchInv, MatchesSound
  <2>6. SnapshotCallsOld'
    BY <2>1 DEF MatchInv, SnapshotCallsOld
  <2> QED
    BY <2>3, <2>4, <2>5, <2>6 DEF MatchInv
<1> QED
  BY <1>1, <1>2

\* Every reachable state satisfies the invariant of replication.
THEOREM MatchInvariance == Spec => []MatchInv
<1>1. Init => MatchInv
  BY DEF Init, MatchInv, CallsWon, CallsCopy, AcksSound, MatchesSound, SnapshotCallsOld, Follower,
         Leader
<1>2. IInv /\ IInv' /\ VoteInv /\ MatchInv /\ [Next]_vars => MatchInv'
  BY MatchInvStep
<1> QED
  BY <1>1, <1>2, Invariance, VoteInvariance, PTL DEF Spec

\* What matchIndex says a peer stores, the peer stores, as long as it has not
\* moved to another term: late, lost and reordered answers, snapshots and changes
\* of leader included.
THEOREM MatchIndexAlwaysSound == Spec => []MatchIndexSound
<1>1. ASSUME IInv, MatchInv
      PROVE  MatchIndexSound
  <2> SUFFICES ASSUME NEW i \in Server, NEW j \in Server, status[i] = Leader, i # j,
                      currentTerm[j] = currentTerm[i], matchIndex[i][j] > lastSnapshot[i].index,
                      matchIndex[i][j] > lastSnapshot[j].index
               PROVE  /\ matchIndex[i][j] <= LastLogIndex(j)
                      /\ LogTermAt(j, matchIndex[i][j]) = LogTermAt(i, matchIndex[i][j])
    BY DEF MatchIndexSound
  <2>1. Agree(i, j, matchIndex[i][j])
    BY <1>1 DEF MatchInv, MatchesSound
  <2> QED
    BY <2>1 DEF Agree
<1> QED
  BY <1>1, Invariance, MatchInvariance, PTL

=============================================================================
