------------------------- MODULE RaftDeliveryProofs -------------------------
(***************************************************************************)
(* What the service receives from Raft: every command once, in the order   *)
(* of the log and without a gap, although applierTicker pushes what it has *)
(* collected after it let go of the lock, and snapshots are pushed by      *)
(* InstallSnapshot and by detached threads in between.                     *)
(***************************************************************************)
EXTENDS RaftProofs

-----------------------------------------------------------------------------
(* One node's queue *)

\* msg brings the command at index k, or a snapshot that contains it.
Covers(msg, k) == msg.index = k \/ (msg.snapshotValid /\ msg.index >= k)

\* The index the ticker pushes next, or collects next when it holds nothing.
NextIndex(held, applied) == IF held = <<>> THEN applied + 1 ELSE held[1].index

InOrder(chan) ==
  \A p \in DOMAIN chan : ~chan[p].snapshotValid =>
    /\ \A q \in 1 .. p - 1 : ~chan[q].snapshotValid => chan[q].index < chan[p].index
    /\ \A k \in 1 .. chan[p].index - 1 : \E q \in 1 .. p - 1 : Covers(chan[q], k)

\* chan was pushed, held is in the ticker's hands, applied is lastApplied.
Collected(held, applied) ==
  \A a \in DOMAIN held : /\ ~held[a].snapshotValid
                         /\ held[a].index = NextIndex(held, applied) + a - 1
                         /\ held[a].index <= applied

Delivers(chan, held, applied) ==
  /\ InOrder(chan)
  /\ Collected(held, applied)
  /\ \A p \in DOMAIN chan : ~chan[p].snapshotValid => chan[p].index < NextIndex(held, applied)
  /\ \A k \in 1 .. NextIndex(held, applied) - 1 : \E p \in DOMAIN chan : Covers(chan[p], k)
  /\ \A k \in 1 .. applied : \/ \E p \in DOMAIN chan : Covers(chan[p], k)
                             \/ \E a \in DOMAIN held : held[a].index = k

\* The inductive invariant.
DeliveryInv ==
  /\ \A i \in Server : Delivers(applyChan[i], applying[i], lastApplied[i])
  /\ \A p \in latePushes : p[2].snapshotValid

\* The next index is at most one past lastApplied.
LEMMA NextIndexFacts ==
  ASSUME NEW held \in Seq(ApplyMsg), NEW applied \in Nat, Collected(held, applied)
  PROVE  NextIndex(held, applied) \in Nat /\ NextIndex(held, applied) <= applied + 1
<1>1. CASE held = <<>>
  BY <1>1 DEF NextIndex
<1>2. CASE held # <<>>
  <2>1. 1 \in DOMAIN held /\ held[1] \in ApplyMsg
    BY <1>2, LenProperties, EmptySeq, ElementOfSeq
  <2>2. held[1].index \in Nat /\ held[1].index <= applied
    BY <2>1 DEF ApplyMsg, Collected
  <2> QED
    BY <1>2, <2>2 DEF NextIndex
<1> QED
  BY <1>1, <1>2

\* The positions of a queue to which a message was appended.
LEMMA PushFacts ==
  ASSUME NEW chan \in Seq(ApplyMsg), NEW msg \in ApplyMsg
  PROVE  LET new == Append(chan, msg) IN
         /\ new \in Seq(ApplyMsg)
         /\ Len(chan) \in Nat /\ DOMAIN chan = 1 .. Len(chan)
         /\ DOMAIN new = 1 .. Len(chan) + 1
         /\ \A p \in 1 .. Len(chan) : new[p] = chan[p]
         /\ new[Len(chan) + 1] = msg
<1> DEFINE new == Append(chan, msg)
<1>1. /\ new \in Seq(ApplyMsg) /\ Len(new) = Len(chan) + 1
      /\ \A p \in 1 .. Len(chan) : new[p] = chan[p]
      /\ new[Len(chan) + 1] = msg
  BY AppendProperties
<1>2. DOMAIN new = 1 .. Len(new)
  <2> HIDE DEF new
  <2> QED
    BY <1>1, LenProperties
<1> QED
  BY <1>1, <1>2, LenProperties

\* A push keeps the order if it brings a snapshot, or the command that is next.
LEMMA PushInOrder ==
  ASSUME NEW chan \in Seq(ApplyMsg), NEW msg \in ApplyMsg, InOrder(chan),
         \/ msg.snapshotValid
         \/ /\ \A p \in DOMAIN chan : ~chan[p].snapshotValid => chan[p].index < msg.index
            /\ \A k \in 1 .. msg.index - 1 : \E p \in DOMAIN chan : Covers(chan[p], k)
  PROVE  InOrder(Append(chan, msg))
<1> DEFINE new == Append(chan, msg)
           n == Len(chan)
<1>1. /\ n \in Nat /\ DOMAIN chan = 1 .. n
      /\ DOMAIN new = 1 .. n + 1
      /\ \A p \in 1 .. n : new[p] = chan[p]
      /\ new[n + 1] = msg
  BY PushFacts
<1> HIDE DEF new, n
<1>2. ASSUME NEW p \in DOMAIN new, ~new[p].snapshotValid
      PROVE  /\ \A q \in 1 .. p - 1 : ~new[q].snapshotValid => new[q].index < new[p].index
             /\ \A k \in 1 .. new[p].index - 1 : \E q \in 1 .. p - 1 : Covers(new[q], k)
  <2>1. CASE p \in 1 .. n
    <3>1. /\ \A q \in 1 .. p - 1 : ~chan[q].snapshotValid => chan[q].index < chan[p].index
          /\ \A k \in 1 .. chan[p].index - 1 : \E q \in 1 .. p - 1 : Covers(chan[q], k)
      BY <1>1, <1>2, <2>1 DEF InOrder
    <3>2. new[p] = chan[p] /\ \A q \in 1 .. p - 1 : q \in 1 .. n /\ new[q] = chan[q]
      BY <1>1, <2>1
    <3> QED
      BY <3>1, <3>2
  <2>2. CASE p = n + 1
    <3>1. p - 1 = n /\ new[p] = msg /\ ~msg.snapshotValid
      BY <1>1, <1>2, <2>2
    <3> QED
      BY <1>1, <3>1
  <2> QED
    BY <1>1, <2>1, <2>2
<1> QED
  BY <1>2 DEF InOrder, new

\* Pushing the first of the collected commands.
LEMMA PushHeld ==
  ASSUME NEW chan \in Seq(ApplyMsg), NEW held \in Seq(ApplyMsg), NEW applied \in Nat,
         held # <<>>, Delivers(chan, held, applied)
  PROVE  Delivers(Append(chan, Head(held)), Tail(held), applied)
<1> DEFINE new == Append(chan, Head(held))
           rest == Tail(held)
           next == NextIndex(held, applied)
           after == NextIndex(rest, applied)
           n == Len(chan)
<1>1. /\ Len(held) \in Nat /\ Len(held) >= 1 /\ DOMAIN held = 1 .. Len(held)
      /\ Head(held) = held[1] /\ held[1] \in ApplyMsg
  BY LenProperties, EmptySeq, ElementOfSeq
<1>2. /\ rest \in Seq(ApplyMsg) /\ DOMAIN rest = 1 .. Len(held) - 1
      /\ \A a \in DOMAIN rest : rest[a] = held[a + 1]
      /\ rest = <<>> => Len(held) = 1
  <2>1. /\ rest \in Seq(ApplyMsg) /\ Len(rest) = Len(held) - 1
        /\ \A a \in 1 .. Len(rest) : rest[a] = held[a + 1]
    BY HeadTailProperties
  <2>2. DOMAIN rest = 1 .. Len(rest) /\ (rest = <<>> => Len(rest) = 0)
    <3> HIDE DEF rest
    <3> QED
      BY <2>1, LenProperties, EmptySeq
  <2> QED
    BY <1>1, <2>1, <2>2
<1>3. /\ n \in Nat /\ DOMAIN chan = 1 .. n /\ DOMAIN new = 1 .. n + 1
      /\ \A p \in 1 .. n : new[p] = chan[p]
      /\ new[n + 1] = held[1]
  BY <1>1, PushFacts
<1>4. /\ ~held[1].snapshotValid /\ held[1].index = next /\ next \in Nat /\ next <= applied
      /\ \A a \in 1 .. Len(held) : /\ ~held[a].snapshotValid
                                   /\ held[a].index = next + a - 1
                                   /\ held[a].index <= applied
  <2>1. \A a \in 1 .. Len(held) : /\ ~held[a].snapshotValid
                                  /\ held[a].index = next + a - 1
                                  /\ held[a].index <= applied
    BY <1>1 DEF Delivers, Collected
  <2>2. next = held[1].index /\ next \in Nat
    BY <1>1 DEF NextIndex, ApplyMsg
  <2> QED
    BY <1>1, <2>1, <2>2
<1>5. /\ \A p \in 1 .. n : ~chan[p].snapshotValid => chan[p].index < next
      /\ \A k \in 1 .. next - 1 : \E p \in 1 .. n : Covers(chan[p], k)
      /\ \A k \in 1 .. applied : \/ \E p \in 1 .. n : Covers(chan[p], k)
                                 \/ \E a \in 1 .. Len(held) : held[a].index = k
  BY <1>1, <1>3 DEF Delivers
<1>6. \/ rest = <<>> /\ after = applied + 1 /\ Len(held) = 1
      \/ rest # <<>> /\ after = next + 1 /\ Len(held) >= 2
  <2>1. CASE rest = <<>>
    BY <1>2, <2>1 DEF NextIndex
  <2>2. CASE rest # <<>>
    <3>1. Len(held) # 1
      <4>1. Len(rest) \in Nat \ {0} /\ DOMAIN rest = 1 .. Len(rest)
        BY <1>2, <2>2, EmptySeq, LenProperties
      <4>2. 1 \in DOMAIN rest
        <5> HIDE DEF rest
        <5> QED
          BY <4>1
      <4> HIDE DEF rest
      <4> QED
        BY <1>1, <1>2, <4>2
    <3>2. 1 \in DOMAIN rest /\ 2 \in 1 .. Len(held)
      BY <1>1, <1>2, <3>1
    <3>3. after = rest[1].index /\ rest[1] = held[2]
      <4>1. rest[1] = held[1 + 1]
        BY <1>2, <3>2
      <4> QED
        BY <2>2, <4>1 DEF NextIndex
    <3>4. held[2].index = next + 2 - 1
      BY <1>4, <3>2
    <3> QED
      BY <1>1, <1>4, <2>2, <3>1, <3>3, <3>4
  <2> QED
    BY <2>1, <2>2
<1> HIDE DEF next, after, n
<1>7. InOrder(new)
  <2>1. chan \in Seq(ApplyMsg) /\ InOrder(chan)
    BY DEF Delivers
  <2> QED
    BY <1>1, <1>3, <1>4, <1>5, <2>1, PushInOrder
<1> HIDE DEF new, rest
<1>8. Collected(rest, applied)
  <2>1. ASSUME NEW a \in DOMAIN rest
        PROVE  ~rest[a].snapshotValid /\ rest[a].index = after + a - 1 /\ rest[a].index <= applied
    <3>1. a \in Int /\ a + 1 \in 1 .. Len(held) /\ rest[a] = held[a + 1]
      BY <1>1, <1>2
    <3>2. Len(held) # 1
      BY <1>1, <3>1
    <3>3. after = next + 1
      BY <1>6, <3>2
    <3> QED
      BY <1>4, <3>1, <3>3
  <2> QED
    BY <2>1 DEF Collected, after
<1>9. \A p \in DOMAIN new : ~new[p].snapshotValid => new[p].index < after
  <2>1. next < after
    BY <1>4, <1>6
  <2>2. ASSUME NEW p \in 1 .. n, ~chan[p].snapshotValid PROVE chan[p].index < after
    <3>1. chan[p] \in ApplyMsg
      BY <1>3, ElementOfSeq DEF n
    <3>2. chan[p].index \in Nat /\ chan[p].index < next
      BY <1>5, <2>2, <3>1 DEF ApplyMsg
    <3> QED
      BY <1>4, <1>6, <2>1, <3>2
  <2>3. \A p \in DOMAIN new : p \in 1 .. n \/ p = n + 1
    BY <1>3
  <2> QED
    BY <1>3, <1>4, <2>1, <2>2, <2>3
<1>10. \A k \in 1 .. applied : \/ \E p \in DOMAIN new : Covers(new[p], k)
                               \/ \E a \in DOMAIN rest : rest[a].index = k
  <2>1. ASSUME NEW k \in 1 .. applied
        PROVE  \/ \E p \in DOMAIN new : Covers(new[p], k)
               \/ \E a \in DOMAIN rest : rest[a].index = k
    <3>1. CASE \E p \in 1 .. n : Covers(chan[p], k)
      BY <1>3, <3>1
    <3>2. ASSUME NEW a \in 1 .. Len(held), held[a].index = k
          PROVE  \/ \E p \in DOMAIN new : Covers(new[p], k)
                 \/ \E b \in DOMAIN rest : rest[b].index = k
      <4>1. CASE a = 1
        <5>1. n + 1 \in DOMAIN new /\ Covers(new[n + 1], k)
          BY <1>3, <3>2, <4>1 DEF Covers
        <5> QED
          BY <5>1
      <4>2. CASE a # 1
        <5>1. a - 1 \in DOMAIN rest /\ (a - 1) + 1 = a
          BY <1>1, <1>2, <4>2
        <5> QED
          BY <1>2, <3>2, <5>1
      <4> QED
        BY <4>1, <4>2
    <3> QED
      BY <1>5, <3>1, <3>2
  <2> QED
    BY <2>1
<1>11. \A k \in 1 .. after - 1 : \E p \in DOMAIN new : Covers(new[p], k)
  <2>1. CASE rest = <<>> /\ after = applied + 1
    <3>1. DOMAIN rest = {}
      BY <1>1, <1>2, <1>6, <2>1
    <3> QED
      BY <1>4, <1>10, <2>1, <3>1
  <2>2. CASE after = next + 1
    <3>1. \A k \in 1 .. after - 1 : k \in 1 .. next - 1 \/ k = next
      BY <1>4, <2>2
    <3>2. n + 1 \in DOMAIN new /\ Covers(new[n + 1], next)
      BY <1>3, <1>4 DEF Covers
    <3>3. \A k \in 1 .. next - 1 : \E p \in DOMAIN new : Covers(new[p], k)
      BY <1>3, <1>5
    <3> QED
      BY <3>1, <3>2, <3>3
  <2> QED
    BY <1>6, <2>1, <2>2
<1> QED
  BY <1>7, <1>8, <1>9, <1>10, <1>11 DEF Delivers, new, rest, after

\* Pushing a snapshot, when lastApplied is not raised or is raised to its index.
LEMMA PushSnapshot ==
  ASSUME NEW chan \in Seq(ApplyMsg), NEW held \in Seq(ApplyMsg), NEW applied \in Nat,
         NEW msg \in ApplyMsg, msg.snapshotValid, Delivers(chan, held, applied),
         NEW now \in {applied, Larger(applied, msg.index)}
  PROVE  Delivers(Append(chan, msg), held, now)
<1> DEFINE new == Append(chan, msg)
           next == NextIndex(held, applied)
           after == NextIndex(held, now)
           n == Len(chan)
<1>1. /\ n \in Nat /\ DOMAIN chan = 1 .. n /\ DOMAIN new = 1 .. n + 1
      /\ \A p \in 1 .. n : new[p] = chan[p]
      /\ new[n + 1] = msg
  BY PushFacts
<1>2. msg.index \in Nat
  BY DEF ApplyMsg
<1>3. now \in Nat /\ now >= applied /\ (now # applied => now = msg.index)
  BY <1>2 DEF Larger
<1>4. /\ InOrder(chan) /\ Collected(held, applied)
      /\ \A p \in 1 .. n : ~chan[p].snapshotValid => chan[p].index < next
      /\ \A k \in 1 .. next - 1 : \E p \in 1 .. n : Covers(chan[p], k)
      /\ \A k \in 1 .. applied : \/ \E p \in 1 .. n : Covers(chan[p], k)
                                 \/ \E a \in DOMAIN held : held[a].index = k
  BY <1>1 DEF Delivers
<1>5. \/ held = <<>> /\ next = applied + 1 /\ after = now + 1
      \/ held # <<>> /\ after = next
  BY DEF NextIndex
<1>6. next \in Nat
  BY <1>4, NextIndexFacts
<1>7. InOrder(new)
  BY <1>4, PushInOrder
<1> HIDE DEF new, next, after, n
<1>8. Collected(held, now)
  <2>1. ASSUME NEW a \in DOMAIN held
        PROVE  ~held[a].snapshotValid /\ held[a].index = after + a - 1 /\ held[a].index <= now
    <3>1. held # <<>>
      <4>1. a \in 1 .. Len(held) /\ Len(held) \in Nat
        BY LenProperties
      <4> QED
        BY <4>1, EmptySeq
    <3>2. held[a] \in ApplyMsg
      BY LenProperties, ElementOfSeq
    <3>3. /\ ~held[a].snapshotValid /\ held[a].index = next + a - 1 /\ held[a].index <= applied
          /\ held[a].index \in Nat
      BY <1>4, <3>2 DEF Collected, ApplyMsg, next
    <3> QED
      BY <1>3, <1>5, <3>1, <3>3
  <2> QED
    BY <2>1 DEF Collected, after
<1>9. \A p \in DOMAIN new : ~new[p].snapshotValid => new[p].index < after
  <2>1. ASSUME NEW p \in 1 .. n, ~chan[p].snapshotValid PROVE chan[p].index < after
    <3>1. chan[p] \in ApplyMsg
      BY <1>1, ElementOfSeq DEF n
    <3>2. chan[p].index \in Nat /\ chan[p].index < next
      BY <1>4, <2>1, <3>1 DEF ApplyMsg
    <3> QED
      BY <1>3, <1>5, <3>2
  <2>2. \A p \in DOMAIN new : p \in 1 .. n \/ p = n + 1
    BY <1>1
  <2> QED
    BY <1>1, <2>1, <2>2
<1>10. \A k \in 1 .. now : \/ \E p \in DOMAIN new : Covers(new[p], k)
                           \/ \E a \in DOMAIN held : held[a].index = k
  <2>1. ASSUME NEW k \in 1 .. now
        PROVE  \/ \E p \in DOMAIN new : Covers(new[p], k)
               \/ \E a \in DOMAIN held : held[a].index = k
    <3>1. CASE k \in 1 .. applied
      <4>1. \/ \E p \in 1 .. n : Covers(chan[p], k)
            \/ \E a \in DOMAIN held : held[a].index = k
        BY <1>4, <3>1
      <4>2. \A p \in 1 .. n : p \in DOMAIN new /\ new[p] = chan[p]
        BY <1>1
      <4> QED
        BY <4>1, <4>2
    <3>2. CASE k \notin 1 .. applied
      <4>1. msg.index >= k
        BY <1>3, <3>2
      <4>2. n + 1 \in DOMAIN new /\ Covers(new[n + 1], k)
        BY <1>1, <4>1 DEF Covers
      <4> QED
        BY <4>2
    <3> QED
      BY <3>1, <3>2
  <2> QED
    BY <2>1
<1>11. \A k \in 1 .. after - 1 : \E p \in DOMAIN new : Covers(new[p], k)
  <2>1. CASE held = <<>> /\ after = now + 1
    <3>1. DOMAIN held = {}
      BY <2>1
    <3>2. \A k \in 1 .. now : \E p \in DOMAIN new : Covers(new[p], k)
      BY <1>10, <3>1
    <3>3. after - 1 = now
      BY <1>3, <2>1
    <3> QED
      BY <3>2, <3>3
  <2>2. CASE after = next
    BY <1>1, <1>4, <2>2
  <2> QED
    BY <1>5, <2>1, <2>2
<1> QED
  BY <1>7, <1>8, <1>9, <1>10, <1>11 DEF Delivers, new, after

\* Collecting the commands that follow lastApplied.
LEMMA CollectNext ==
  ASSUME NEW chan \in Seq(ApplyMsg), NEW applied \in Nat, NEW commit \in Nat, applied < commit,
         NEW held \in Seq(ApplyMsg), Len(held) = commit - applied,
         \A a \in 1 .. commit - applied : /\ ~held[a].snapshotValid
                                          /\ held[a].index = applied + a,
         Delivers(chan, <<>>, applied)
  PROVE  Delivers(chan, held, commit)
<1>1. DOMAIN held = 1 .. commit - applied
  BY LenProperties
<1>2. 1 \in DOMAIN held /\ held # <<>>
  BY <1>1
<1>3. NextIndex(<<>>, applied) = applied + 1
  BY DEF NextIndex
<1>4. NextIndex(held, commit) = applied + 1
  BY <1>1, <1>2 DEF NextIndex
<1>5. Collected(held, commit)
  <2>1. ASSUME NEW a \in DOMAIN held
        PROVE  /\ ~held[a].snapshotValid
               /\ held[a].index = (applied + 1) + a - 1
               /\ held[a].index <= commit
    <3>1. /\ a \in Int /\ a >= 1 /\ a <= commit - applied
          /\ held[a].index = applied + a /\ ~held[a].snapshotValid
      BY <1>1
    <3>2. (applied + 1) + a - 1 = applied + a
      BY <3>1
    <3>3. applied + a <= commit
      BY <3>1
    <3> QED
      BY <3>1, <3>2, <3>3
  <2> QED
    BY <1>4, <2>1 DEF Collected
<1>6. ASSUME NEW k \in 1 .. commit
      PROVE  \/ \E p \in DOMAIN chan : Covers(chan[p], k)
             \/ \E a \in DOMAIN held : held[a].index = k
  <2>1. CASE k <= applied
    <3>1. DOMAIN <<>> = {}
      OBVIOUS
    <3>2. k \in 1 .. applied
      BY <2>1
    <3>3. \/ \E p \in DOMAIN chan : Covers(chan[p], k)
          \/ \E a \in DOMAIN <<>> : <<>>[a].index = k
      BY <3>2 DEF Delivers
    <3> QED
      BY <3>1, <3>3
  <2>2. CASE ~(k <= applied)
    <3>1. k - applied \in DOMAIN held /\ held[k - applied].index = applied + (k - applied)
      BY <1>1, <2>2
    <3>2. applied + (k - applied) = k
      OBVIOUS
    <3> QED
      BY <3>1, <3>2
  <2> QED
    BY <2>1, <2>2
<1> QED
  BY <1>3, <1>4, <1>5, <1>6 DEF Delivers

-----------------------------------------------------------------------------
(* The steps *)

\* What getApplyLogs hands out: the commands from lastApplied + 1 to commitIndex.
LEMMA GetApplyLogsFacts ==
  ASSUME IInv, NEW i \in Server, lastApplied[i] < commitIndex[i]
  PROVE  /\ GetApplyLogs(i) \in Seq(ApplyMsg)
         /\ Len(GetApplyLogs(i)) = commitIndex[i] - lastApplied[i]
         /\ \A a \in 1 .. commitIndex[i] - lastApplied[i] :
              /\ ~GetApplyLogs(i)[a].snapshotValid
              /\ GetApplyLogs(i)[a].index = lastApplied[i] + a
<1> DEFINE n == commitIndex[i] - lastApplied[i]
           from == Slice(i, lastApplied[i])
           msgs == GetApplyLogs(i)
<1>1. /\ lastApplied[i] \in Nat /\ commitIndex[i] \in Nat /\ lastSnapshot[i].index \in Nat
      /\ logs[i] \in Seq(Entry)
  BY DEF IInv, TypeOK, Snapshot
<1>2. /\ LastLogIndex(i) = lastSnapshot[i].index + Len(logs[i])
      /\ Len(logs[i]) \in Nat /\ DOMAIN logs[i] = 1 .. Len(logs[i])
  BY <1>1, LastLogIndexIs, LenProperties DEF IInv
<1>3. lastSnapshot[i].index <= lastApplied[i] /\ commitIndex[i] <= LastLogIndex(i)
  BY DEF IInv, IndexBounds, CommitWithinLog
<1>4. /\ n \in Nat /\ from \in Nat /\ from + n <= Len(logs[i])
      /\ lastSnapshot[i].index + from = lastApplied[i]
  <2>1. from = lastApplied[i] - lastSnapshot[i].index
    BY DEF Slice
  <2>2. lastApplied[i] <= commitIndex[i]
    BY DEF IInv, CommitWithinLog
  <2>3. commitIndex[i] <= lastSnapshot[i].index + Len(logs[i])
    BY <1>2, <1>3
  <2> HIDE DEF from
  <2>4. from \in Nat /\ lastSnapshot[i].index + from = lastApplied[i] /\ n \in Nat
    BY <1>1, <1>3, <2>1, <2>2
  <2>5. from + n = commitIndex[i] - lastSnapshot[i].index
    BY <1>1, <2>4
  <2> HIDE DEF n
  <2> QED
    BY <1>1, <1>2, <2>3, <2>4, <2>5
<1>5. msgs \in Seq(ApplyMsg)
  BY GetApplyLogsType
<1>6. DOMAIN msgs = 1 .. n /\ \A a \in 1 .. n : msgs[a] = CommandMsg(logs[i][from + a])
  BY DEF GetApplyLogs
<1>7. Len(msgs) = n
  <2>1. Len(msgs) \in Nat /\ DOMAIN msgs = 1 .. Len(msgs)
    BY <1>5, LenProperties
  <2> HIDE DEF msgs, n
  <2> QED
    BY <1>4, <1>6, <2>1
<1>8. ASSUME NEW a \in 1 .. n
      PROVE  ~msgs[a].snapshotValid /\ msgs[a].index = lastApplied[i] + a
  <2>1. from + a \in DOMAIN logs[i]
    <3> HIDE DEF n, from
    <3> QED
      BY <1>2, <1>4
  <2>2. logs[i][from + a].index = lastSnapshot[i].index + (from + a)
    BY <2>1 DEF IInv, Contiguous
  <2>3. msgs[a].index = lastSnapshot[i].index + (from + a) /\ ~msgs[a].snapshotValid
    BY <1>6, <2>2 DEF CommandMsg
  <2> HIDE DEF n, from, msgs
  <2> QED
    BY <1>1, <1>4, <2>3
<1> QED
  BY <1>5, <1>7, <1>8

\* The steps that push, collect or raise lastApplied.
DeliveryAction ==
  \/ \E i \in Server : CollectApplyMsgs(i)
  \/ \E i \in Server : PushApplyMsg(i)
  \/ \E i \in Server : SnapshotDelivered(i)
  \/ \E m \in snapshotRequests : InstallSnapshot(m)
  \/ \E p \in latePushes : PushMsgToKvServer(p)

\* Every other step leaves the queues as they are.
LEMMA DeliveryElsewhere ==
  ASSUME Next, ~DeliveryAction
  PROVE  UNCHANGED applyVars
<1>1. CASE ElectionNext
  BY <1>1 DEF ElectionNext, DoElection, RequestVote, SendRequestVote
<1>2. CASE AppendNext
  BY <1>2 DEF AppendNext, DoHeartBeat, StartSome, Start, AppendEntries1, SendAppendEntries,
              LoseAppendCall
<1>3. CASE ApplyNext
  BY <1>3, SubsetsAssumption DEF ApplyNext, DeliveryAction
<1>4. CASE SnapshotNext
  BY <1>4 DEF SnapshotNext, DeliveryAction, LeaderSendSnapShot, SnapshotToClosedPeer,
              SnapshotAnswered, LoseSnapshotCall
<1> QED
  BY <1>1, <1>2, <1>3, <1>4 DEF Next

\* A step that changes the queue of one node.
LEMMA OneQueue ==
  ASSUME TypeOK, DeliveryInv, NEW n \in Server, NEW chan, NEW held, NEW applied,
         applyChan' = [applyChan EXCEPT ![n] = chan],
         applying' = [applying EXCEPT ![n] = held],
         lastApplied' = [lastApplied EXCEPT ![n] = applied],
         Delivers(chan, held, applied)
  PROVE  \A i \in Server : Delivers(applyChan'[i], applying'[i], lastApplied'[i])
<1>1. ASSUME NEW i \in Server
      PROVE  Delivers(applyChan'[i], applying'[i], lastApplied'[i])
  <2>1. CASE i = n
    <3>1. applyChan'[i] = chan /\ applying'[i] = held /\ lastApplied'[i] = applied
      BY <2>1 DEF TypeOK
    <3> QED
      BY <3>1
  <2>2. CASE i # n
    <3>1. /\ applyChan'[i] = applyChan[i] /\ applying'[i] = applying[i]
          /\ lastApplied'[i] = lastApplied[i]
      BY <2>2 DEF TypeOK
    <3> QED
      BY <3>1 DEF DeliveryInv
  <2> QED
    BY <2>1, <2>2
<1> QED
  BY <1>1

\* Every step keeps the queues in order.
LEMMA DeliveryStep ==
  ASSUME IInv, DeliveryInv, Next
  PROVE  DeliveryInv'
<1> DEFINE Kept == \A i \in Server : Delivers(applyChan'[i], applying'[i], lastApplied'[i])
           Late == \A p \in latePushes' : p[2].snapshotValid
<1>1. TypeOK
  BY DEF IInv
<1>2. \A i \in Server : /\ applyChan[i] \in Seq(ApplyMsg) /\ applying[i] \in Seq(ApplyMsg)
                        /\ lastApplied[i] \in Nat /\ commitIndex[i] \in Nat
                        /\ Delivers(applyChan[i], applying[i], lastApplied[i])
  BY DEF IInv, TypeOK, DeliveryInv
<1>3. /\ applyChan = [i \in Server |-> applyChan[i]]
      /\ applying = [i \in Server |-> applying[i]]
      /\ lastApplied = [i \in Server |-> lastApplied[i]]
  BY <1>1 DEF TypeOK
<1>5. ASSUME NEW n \in Server, CollectApplyMsgs(n)
      PROVE  Kept /\ Late
  <2>1. /\ applyChan' = applyChan /\ latePushes' = latePushes
        /\ applying[n] = <<>> /\ lastApplied[n] < commitIndex[n]
        /\ applying' = [applying EXCEPT ![n] = GetApplyLogs(n)]
        /\ lastApplied' = [lastApplied EXCEPT ![n] = commitIndex[n]]
    BY <1>5 DEF CollectApplyMsgs
  <2>2. Delivers(applyChan[n], GetApplyLogs(n), commitIndex[n])
    <3>1. Delivers(applyChan[n], <<>>, lastApplied[n])
      BY <1>2, <2>1
    <3>2. /\ GetApplyLogs(n) \in Seq(ApplyMsg)
          /\ Len(GetApplyLogs(n)) = commitIndex[n] - lastApplied[n]
          /\ \A a \in 1 .. commitIndex[n] - lastApplied[n] :
               /\ ~GetApplyLogs(n)[a].snapshotValid
               /\ GetApplyLogs(n)[a].index = lastApplied[n] + a
      BY <2>1, GetApplyLogsFacts
    <3> QED
      BY <1>2, <2>1, <3>1, <3>2, CollectNext
  <2>3. applyChan' = [applyChan EXCEPT ![n] = applyChan[n]]
    BY <1>3, <2>1
  <2> QED
    BY <1>1, <2>1, <2>2, <2>3, OneQueue DEF DeliveryInv
<1>6. ASSUME NEW n \in Server, PushApplyMsg(n)
      PROVE  Kept /\ Late
  <2>1. /\ applying[n] # <<>> /\ latePushes' = latePushes /\ lastApplied' = lastApplied
        /\ applyChan' = [applyChan EXCEPT ![n] = Append(applyChan[n], Head(applying[n]))]
        /\ applying' = [applying EXCEPT ![n] = Tail(applying[n])]
    BY <1>6 DEF PushApplyMsg
  <2>2. Delivers(Append(applyChan[n], Head(applying[n])), Tail(applying[n]), lastApplied[n])
    BY <1>2, <2>1, PushHeld
  <2>3. lastApplied' = [lastApplied EXCEPT ![n] = lastApplied[n]]
    BY <1>3, <2>1
  <2> QED
    BY <1>1, <2>1, <2>2, <2>3, OneQueue DEF DeliveryInv
<1>7. ASSUME NEW n \in Server, SnapshotDelivered(n)
      PROVE  Kept /\ Late
  <2>1. PICK index \in SnapshotIndexes : Delivered(n, index) /\ MakeSnapshot(n, index)
    BY <1>7 DEF SnapshotDelivered
  <2>2. /\ applyChan' = applyChan /\ applying' = applying /\ latePushes' = latePushes
        /\ lastApplied' = [lastApplied EXCEPT ![n] = Larger(lastApplied[n], index)]
    BY <2>1 DEF MakeSnapshot
  <2>3. index \in Nat /\ index <= lastApplied[n]
    <3>1. PICK k \in DOMAIN applyChan[n] : /\ ~applyChan[n][k].snapshotValid
                                           /\ applyChan[n][k].index = index
      BY <2>1 DEF Delivered
    <3>2. applyChan[n][k] \in ApplyMsg
      BY <1>2, <3>1, LenProperties, ElementOfSeq
    <3>3. index \in Nat
      BY <3>1, <3>2 DEF ApplyMsg
    <3>4. index < NextIndex(applying[n], lastApplied[n])
      BY <1>2, <3>1 DEF Delivers
    <3>5. /\ NextIndex(applying[n], lastApplied[n]) \in Nat
          /\ NextIndex(applying[n], lastApplied[n]) <= lastApplied[n] + 1
      BY <1>2, NextIndexFacts DEF Delivers
    <3> QED
      BY <1>2, <3>3, <3>4, <3>5
  <2>4. Larger(lastApplied[n], index) = lastApplied[n]
    BY <1>2, <2>3 DEF Larger
  <2>5. lastApplied' = lastApplied
    BY <1>3, <2>2, <2>4
  <2> QED
    BY <1>2, <2>2, <2>5 DEF DeliveryInv
<1>8. ASSUME NEW m \in snapshotRequests, InstallSnapshot(m)
      PROVE  Kept /\ Late
  <2> DEFINE n == m.follower
             msg == SnapshotMsg(m.snapshot.index)
  <2>1. n \in Server /\ m.snapshot.index \in Nat
    BY <1>1 DEF TypeOK, SnapshotRequest, Snapshot
  <2>2. msg \in ApplyMsg /\ msg.snapshotValid /\ msg.index = m.snapshot.index
    BY <2>1 DEF SnapshotMsg, ApplyMsg
  <2>3. CASE UNCHANGED applyVars
    BY <1>2, <2>3 DEF applyVars, DeliveryInv
  <2>4. CASE Install(n, m.snapshot) /\ UNCHANGED applying
    <3>1. /\ applyChan' = [applyChan EXCEPT ![n] = Append(applyChan[n], msg)]
          /\ lastApplied' = [lastApplied EXCEPT ![n] = Larger(lastApplied[n], msg.index)]
          /\ latePushes' = latePushes \cup {<<n, msg>>}
      BY <2>2, <2>4 DEF Install, PushedByInstall
    <3> HIDE DEF msg
    <3>2. Delivers(Append(applyChan[n], msg), applying[n], Larger(lastApplied[n], msg.index))
      BY <1>2, <2>1, <2>2, PushSnapshot
    <3>3. applying' = [applying EXCEPT ![n] = applying[n]]
      BY <1>3, <2>4
    <3>4. Kept
      BY <1>1, <2>1, <3>1, <3>2, <3>3, OneQueue
    <3>5. Late
      BY <2>2, <3>1 DEF DeliveryInv
    <3> QED
      BY <3>4, <3>5
  <2> QED
    BY <1>8, <2>3, <2>4 DEF InstallSnapshot
<1>9. ASSUME NEW p \in latePushes, PushMsgToKvServer(p)
      PROVE  Kept /\ Late
  <2> DEFINE n == p[1]
             msg == p[2]
  <2>1. n \in Server /\ msg \in ApplyMsg /\ msg.snapshotValid
    BY <1>1 DEF TypeOK, DeliveryInv
  <2>2. applyChan' = [applyChan EXCEPT ![n] = Append(applyChan[n], msg)]
    BY <1>9 DEF PushMsgToKvServer
  <2> HIDE DEF n, msg
  <2>3. Delivers(Append(applyChan[n], msg), applying[n], lastApplied[n])
    BY <1>2, <2>1, PushSnapshot
  <2>4. /\ applying' = [applying EXCEPT ![n] = applying[n]]
        /\ lastApplied' = [lastApplied EXCEPT ![n] = lastApplied[n]]
    BY <1>3, <1>9 DEF PushMsgToKvServer
  <2>5. Kept
    BY <1>1, <2>1, <2>2, <2>3, <2>4, OneQueue
  <2>6. Late
    BY <1>9 DEF PushMsgToKvServer, DeliveryInv
  <2> QED
    BY <2>5, <2>6
<1>10. CASE ~DeliveryAction
  BY <1>2, <1>10, DeliveryElsewhere DEF applyVars, DeliveryInv
<1> QED
  BY <1>5, <1>6, <1>7, <1>8, <1>9, <1>10 DEF DeliveryAction, DeliveryInv

-----------------------------------------------------------------------------
(* The theorems *)

\* The queues of every reachable state satisfy the invariant.
THEOREM DeliveryInvariance == Spec => []DeliveryInv
<1>1. Init => DeliveryInv
  <2>1. ASSUME Init, NEW i \in Server
        PROVE  Delivers(applyChan[i], applying[i], lastApplied[i])
    <3>1. applyChan[i] = <<>> /\ applying[i] = <<>> /\ lastApplied[i] = 0
      BY <2>1 DEF Init
    <3>2. DOMAIN <<>> = {} /\ 1 .. 0 = {}
      OBVIOUS
    <3>3. NextIndex(<<>>, 0) - 1 = 0
      BY DEF NextIndex
    <3> QED
      BY <3>1, <3>2, <3>3 DEF Delivers, InOrder, Collected
  <2> QED
    BY <2>1 DEF Init, DeliveryInv
<1>2. IInv /\ DeliveryInv /\ [Next]_vars => DeliveryInv'
  <2>1. CASE Next
    BY <2>1, DeliveryStep
  <2>2. CASE UNCHANGED vars
    BY <2>2 DEF vars, applyVars, DeliveryInv
  <2> QED
    BY <2>1, <2>2
<1> QED
  BY <1>1, <1>2, Invariance, PTL DEF Spec

\* Commands reach the service once, in the order of the log and without a gap,
\* whenever snapshots are installed and pushed.
THEOREM AlwaysDeliveredInOrder == Spec => []DeliveredInOrder
<1>1. DeliveryInv => DeliveredInOrder
  <2>1. ASSUME DeliveryInv, NEW i \in Server, NEW p \in DOMAIN applyChan[i],
               ~applyChan[i][p].snapshotValid
        PROVE  LET before == {applyChan[i][q] : q \in 1 .. p - 1} IN
               /\ \A old \in before : ~old.snapshotValid => old.index < applyChan[i][p].index
               /\ \A k \in 1 .. applyChan[i][p].index - 1 :
                    \E old \in before : old.index = k \/ (old.snapshotValid /\ old.index >= k)
    <3>1. /\ \A q \in 1 .. p - 1 :
               ~applyChan[i][q].snapshotValid => applyChan[i][q].index < applyChan[i][p].index
          /\ \A k \in 1 .. applyChan[i][p].index - 1 :
               \E q \in 1 .. p - 1 : Covers(applyChan[i][q], k)
      BY <2>1 DEF DeliveryInv, Delivers, InOrder
    <3> QED
      BY <3>1 DEF Covers
  <2> QED
    BY <2>1 DEF DeliveredInOrder
<1> QED
  BY <1>1, DeliveryInvariance, PTL

\* No index that counts as applied is missing from what the service has received
\* or the ticker is about to push.
THEOREM NeverSkipped == Spec => []NothingSkipped
<1>1. DeliveryInv => NothingSkipped
  <2>1. ASSUME DeliveryInv, NEW i \in Server, NEW k \in 1 .. lastApplied[i]
        PROVE  \E msg \in Range(applyChan[i]) \cup Range(applying[i]) :
                 msg.index = k \/ (msg.snapshotValid /\ msg.index >= k)
    <3>1. \/ \E p \in DOMAIN applyChan[i] : Covers(applyChan[i][p], k)
          \/ \E a \in DOMAIN applying[i] : applying[i][a].index = k
      BY <2>1 DEF DeliveryInv, Delivers
    <3> QED
      BY <3>1 DEF Covers, Range
  <2> QED
    BY <2>1 DEF NothingSkipped
<1> QED
  BY <1>1, DeliveryInvariance, PTL

=============================================================================
