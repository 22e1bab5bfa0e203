-------------------------------- MODULE Raft --------------------------------
(***************************************************************************)
(* The consensus module of the key-value store: class Raft of raft.cpp.    *)
(*                                                                         *)
(* Every operation of the class that runs under m_mtx is one action: the   *)
(* RPC handlers, the code that sends an RPC, the code that uses its answer *)
(* after the lock is taken again, the bodies of the three tickers, and the *)
(* calls of the service above (Start, Snapshot).  An RPC is a detached     *)
(* thread: a call is a record in a set of requests until the peer's        *)
(* handler runs, then one in a set of replies until the sending thread     *)
(* gets the lock.  Threads are not ordered, so neither are the sets.       *)
(*                                                                         *)
(* Here each reply reaches the thread that made the call.  Timers are left *)
(* out: an election or a heartbeat may start whenever its handler would    *)
(* not return at once.                                                     *)
(***************************************************************************)
EXTENDS Integers, Sequences, FiniteSets, Functions

CONSTANTS
  Server,           \* the nodes of the configuration file, m_peers
  Command,          \* the commands clients propose
  Nil,              \* no server: -1 in m_votedFor
  Rounds,           \* bound: heartbeat rounds of one node with calls in flight
  Elections,        \* bound: the pairs <<server, term>> that may stand
  Proposals,        \* bound: the pairs <<term, index>> at which Start may append
  SnapshotIndexes,  \* bound: the indexes at which the service makes a snapshot
  Appliers,         \* bound: the nodes whose applierTicker runs
  Lossy             \* bound: the peers to which a call may fail

ASSUME ServerAssumption == IsFiniteSet(Server) /\ Server # {}
ASSUME NilAssumption    == Nil \notin Server \cup Command
ASSUME RoundsAssumption == Rounds \subseteq Nat
ASSUME SubsetsAssumption == Appliers \subseteq Server /\ Lossy \subseteq Server

VARIABLES
  up,               \* FALSE once an assertion has ended the process (or it crashed)
  status,           \* m_status
  currentTerm,      \* m_currentTerm
  votedFor,         \* m_votedFor
  persisted,        \* what the node last handed to its persister
  logs,             \* m_logs, the entries after the snapshot
  lastSnapshot,     \* m_lastSnapshotIncludeIndex and m_lastSnapshotIncludeTerm
  commitIndex,      \* m_commitIndex
  lastApplied,      \* m_lastApplied
  applying,         \* messages applierTicker has collected and not yet pushed
  applyChan,        \* every message pushed to the service, in order
  latePushes,       \* pushMsgToKvServer threads that have not run
  nextIndex,        \* m_nextIndex
  matchIndex,       \* m_matchIndex
  appendNums,       \* per round: the servers *appendNums counts, {} after its reset
  votedNum,         \* the servers *votedNum counts, {} after its reset
  voteRequests, voteReplies,            \* sendRequestVote threads
  appendRequests, appendReplies,        \* sendAppendEntries threads
  snapshotThreads, snapshotRequests, snapshotReplies,  \* leaderSendSnapShot threads
  votes             \* history: every vote cast, as <<voter, term, candidate>>

durableVars  == <<currentTerm, votedFor, logs, lastSnapshot>>
electionVars == <<votedNum, voteRequests, voteReplies, votes>>
leaderVars   == <<nextIndex, matchIndex, appendNums>>
appendCalls  == <<appendRequests, appendReplies>>
snapCalls    == <<snapshotThreads, snapshotRequests, snapshotReplies>>
applyVars    == <<lastApplied, applying, applyChan, latePushes>>

vars == <<up, status, durableVars, persisted, commitIndex, applyVars, leaderVars,
          electionVars, appendCalls, snapCalls>>

-----------------------------------------------------------------------------
(* Values *)

Follower  == "Follower"
Candidate == "Candidate"
Leader    == "Leader"

Entry    == [index : Nat, term : Nat, command : Command]
Snapshot == [index : Nat, term : Nat]
Saved    == [currentTerm : Nat, votedFor : Server \cup {Nil},
             logs : Seq(Entry), lastSnapshot : Snapshot]
ApplyMsg == [snapshotValid : BOOLEAN, index : Nat, command : Command \cup {Nil}]

NoHint == -100      \* m_updatenextindex of a reply that carries no hint

VoteRequest  == [candidate : Server, voter : Server, term : Nat,
                 lastLogIndex : Nat, lastLogTerm : Nat]
VoteReply    == [candidate : Server, voter : Server, term : Nat, voteGranted : BOOLEAN]
AppendRequest == [leader : Server, follower : Server, round : Rounds, term : Nat,
                  prevLogIndex : Nat, prevLogTerm : Nat, entries : Seq(Entry),
                  leaderCommit : Nat]
\* upTo and tailTerm are what the thread still has of its args when the answer
\* comes: the last index the call covered, and the term of the last entry it
\* carried (0 when it carried none).
AppendReply  == [leader : Server, follower : Server, round : Rounds, term : Nat,
                 success : BOOLEAN, updateNextIndex : Nat \cup {NoHint},
                 upTo : Nat, tailTerm : Nat]
SnapshotThread  == [leader : Server, follower : Server, round : Rounds]
SnapshotRequest == [leader : Server, follower : Server, round : Rounds, term : Nat,
                    snapshot : Snapshot]
SnapshotReply   == [leader : Server, follower : Server, round : Rounds, term : Nat,
                    replyTerm : Nat, index : Nat]

Larger(m, n)  == IF m >= n THEN m ELSE n
Smaller(m, n) == IF m <= n THEN m ELSE n

-----------------------------------------------------------------------------
(* The log *)

LastLogIndex(i) ==
  IF logs[i] = <<>> THEN lastSnapshot[i].index ELSE logs[i][Len(logs[i])].index

LastLogTerm(i) ==
  IF logs[i] = <<>> THEN lastSnapshot[i].term ELSE logs[i][Len(logs[i])].term

\* getSlicesIndexFromLogIndex, counting from 1
Slice(i, index) == index - lastSnapshot[i].index

InLog(i, index) == index >= lastSnapshot[i].index /\ index <= LastLogIndex(i)

\* getLogTermFromLogIndex.  Outside the log its assertions end the process
\* before the value is used: every caller states InLog in Asserts.
LogTermAt(i, index) ==
  IF index = lastSnapshot[i].index THEN lastSnapshot[i].term
  ELSE IF Slice(i, index) \in DOMAIN logs[i] THEN logs[i][Slice(i, index)].term
  ELSE 0

UpToDate(i, index, term) ==
  \/ term > LastLogTerm(i)
  \/ term = LastLogTerm(i) /\ index >= LastLogIndex(i)

\* The number of servers *votedNum and *appendNums must reach.
Majority == Cardinality(Server) \div 2 + 1

\* myAssert: a condition that fails ends the process.
Asserts(i, condition) == up' = [up EXCEPT ![i] = condition]

\* Mutant of Persist: called on entry, before the changes.
PersistFirst(i) ==
  persisted' = [persisted EXCEPT ![i] =
    [currentTerm |-> currentTerm[i], votedFor |-> votedFor[i],
     logs |-> logs[i], lastSnapshot |-> lastSnapshot[i]]]

\* persist(): what the step has made of the durable state is handed over.
Persist(i) ==
  persisted' = [persisted EXCEPT ![i] =
    [currentTerm |-> currentTerm'[i], votedFor |-> votedFor'[i],
     logs |-> logs'[i], lastSnapshot |-> lastSnapshot'[i]]]

\* Mutant of StepDown: m_status is forgotten.
StepDownKeepsStatus(i, term) ==
  /\ currentTerm' = [currentTerm EXCEPT ![i] = term]
  /\ votedFor' = [votedFor EXCEPT ![i] = Nil]
  /\ UNCHANGED status

\* The three changes made wherever a larger term is seen.
StepDown(i, term) ==
  /\ status' = [status EXCEPT ![i] = Follower]
  /\ currentTerm' = [currentTerm EXCEPT ![i] = term]
  /\ votedFor' = [votedFor EXCEPT ![i] = Nil]

\* What AppendEntries1, RequestVote and InstallSnapshot do with a term that is
\* not smaller than their own.
AdoptTerm(i, term) ==
  currentTerm' = [currentTerm EXCEPT ![i] = Larger(currentTerm[i], term)]

\* Mutant of StatusAfterCall: a candidate follows, a leader goes on leading.
StatusAfterCandidacy(i) == IF status[i] = Candidate THEN Follower ELSE status[i]

\* Who sends entries or a snapshot leads the term: whoever takes them follows.
StatusAfterCall(i) == Follower

\* Mutant of VoteAfter: the vote is forgotten at the same term too.
VoteAfterSameTerm(i, term) == IF term >= currentTerm[i] THEN Nil ELSE votedFor[i]

VoteAfter(i, term) == IF term > currentTerm[i] THEN Nil ELSE votedFor[i]

-----------------------------------------------------------------------------
(* Elections *)

\* electionTimeOutTicker has found the timer expired.
DoElection(i) ==
  /\ up[i] /\ status[i] # Leader
  /\ <<i, currentTerm[i] + 1>> \in Elections
  /\ status' = [status EXCEPT ![i] = Candidate]
  /\ currentTerm' = [currentTerm EXCEPT ![i] = @ + 1]
  /\ votedFor' = [votedFor EXCEPT ![i] = i]
  /\ votes' = votes \cup {<<i, currentTerm[i] + 1, i>>}
  /\ votedNum' = [votedNum EXCEPT ![i] = {i}]
  /\ voteRequests' = voteRequests \cup
       {[candidate |-> i, voter |-> j, term |-> currentTerm[i] + 1,
         lastLogIndex |-> LastLogIndex(i), lastLogTerm |-> LastLogTerm(i)] :
           j \in Server \ {i}}
  /\ UNCHANGED <<logs, lastSnapshot>>
  /\ Persist(i)
  /\ UNCHANGED <<up, commitIndex, voteReplies, applyVars, leaderVars, appendCalls, snapCalls>>

\* Mutant of MayVoteFor: m_votedFor is not looked at.
MayVoteAgain(i, candidate, term) == TRUE

MayVoteFor(i, candidate, term) == VoteAfter(i, term) \in {Nil, candidate}

AnswerVote(m, term, granted) ==
  /\ voteRequests' = voteRequests \ {m}
  /\ voteReplies' = voteReplies \cup
       {[candidate |-> m.candidate, voter |-> m.voter, term |-> term, voteGranted |-> granted]}

\* The handler persists on every path, the early returns included.
RequestVote(m) ==
  LET i == m.voter IN
  /\ up[i]
  /\ \/ /\ m.term < currentTerm[i]
        /\ AnswerVote(m, currentTerm[i], FALSE)
        /\ UNCHANGED <<status, currentTerm, votedFor, votes>>
     \/ /\ m.term >= currentTerm[i]
        /\ AdoptTerm(i, m.term)
        /\ status' = [status EXCEPT ![i] = IF m.term > currentTerm[i] THEN Follower ELSE @]
        /\ \/ /\ UpToDate(i, m.lastLogIndex, m.lastLogTerm)
              /\ MayVoteFor(i, m.candidate, m.term)
              /\ votedFor' = [votedFor EXCEPT ![i] = m.candidate]
              /\ votes' = votes \cup {<<i, m.term, m.candidate>>}
              /\ AnswerVote(m, m.term, TRUE)
           \/ /\ \/ ~UpToDate(i, m.lastLogIndex, m.lastLogTerm)
                 \/ ~MayVoteFor(i, m.candidate, m.term)
              /\ votedFor' = [votedFor EXCEPT ![i] = VoteAfter(i, m.term)]
              /\ AnswerVote(m, m.term, FALSE)
              /\ UNCHANGED votes
  /\ UNCHANGED <<logs, lastSnapshot>>
  /\ Persist(i)
  /\ UNCHANGED <<up, commitIndex, votedNum, applyVars, leaderVars, appendCalls, snapCalls>>

\* Mutant of BecomeLeader: *votedNum is not reset.
BecomeLeaderAgain(i) ==
  /\ Asserts(i, status[i] # Leader)
  /\ status' = [status EXCEPT ![i] = Leader]
  /\ nextIndex' = [nextIndex EXCEPT ![i] = [j \in Server |-> LastLogIndex(i) + 1]]
  /\ matchIndex' = [matchIndex EXCEPT ![i] = [j \in Server |-> 0]]
  /\ UNCHANGED <<durableVars, votedNum>>
  /\ Persist(i)

\* The code does not ask whether the node is still a candidate.
BecomeLeader(i) ==
  /\ Asserts(i, status[i] # Leader)
  /\ status' = [status EXCEPT ![i] = Leader]
  /\ votedNum' = [votedNum EXCEPT ![i] = {}]
  /\ nextIndex' = [nextIndex EXCEPT ![i] = [j \in Server |-> LastLogIndex(i) + 1]]
  /\ matchIndex' = [matchIndex EXCEPT ![i] = [j \in Server |-> 0]]
  /\ UNCHANGED durableVars
  /\ Persist(i)

\* The rest of sendRequestVote, once the call has returned.
SendRequestVote(m) ==
  LET i == m.candidate
      counted == votedNum[i] \cup {m.voter}
  IN
  /\ up[i]
  /\ voteReplies' = voteReplies \ {m}
  /\ \/ /\ m.term > currentTerm[i]
        /\ StepDown(i, m.term)
        /\ UNCHANGED <<logs, lastSnapshot>>
        /\ Persist(i)
        /\ UNCHANGED <<up, votedNum, nextIndex, matchIndex>>
     \/ /\ m.term < currentTerm[i] \/ (m.term = currentTerm[i] /\ ~m.voteGranted)
        /\ UNCHANGED <<up, status, durableVars, persisted, votedNum, nextIndex, matchIndex>>
     \/ /\ m.term = currentTerm[i] /\ m.voteGranted
        /\ Cardinality(counted) < Majority
        /\ votedNum' = [votedNum EXCEPT ![i] = counted]
        /\ UNCHANGED <<up, status, durableVars, persisted, nextIndex, matchIndex>>
     \/ /\ m.term = currentTerm[i] /\ m.voteGranted
        /\ Cardinality(counted) >= Majority
        /\ BecomeLeader(i)
  /\ UNCHANGED <<commitIndex, voteRequests, votes, appendNums, applyVars, appendCalls, snapCalls>>

-----------------------------------------------------------------------------
(* Replication *)

Calls == appendRequests \cup appendReplies \cup
         snapshotThreads \cup snapshotRequests \cup snapshotReplies

RoundOpen(calls, i, r) == \E m \in calls : m.leader = i /\ m.round = r

\* *appendNums of m's round once m is done: the counter is freed with the last
\* thread that shares it.
Tally(m, counted) ==
  [appendNums EXCEPT ![m.leader][m.round] =
     IF RoundOpen(Calls \ {m}, m.leader, m.round) THEN counted ELSE {}]

\* Mutant of PrevLogIndex: one too low.
PrevLogIndexLow(i, j) == nextIndex[i][j] - 2

PrevLogIndex(i, j) == nextIndex[i][j] - 1

BehindSnapshot(i, j) == nextIndex[i][j] <= lastSnapshot[i].index

AppendCall(i, j, r) ==
  [leader |-> i, follower |-> j, round |-> r, term |-> currentTerm[i],
   prevLogIndex |-> PrevLogIndex(i, j), prevLogTerm |-> LogTermAt(i, PrevLogIndex(i, j)),
   entries |-> SubSeq(logs[i], Slice(i, nextIndex[i][j]), Len(logs[i])),
   leaderCommit |-> commitIndex[i]]

\* One call to every peer, by leaderHearBeatTicker or by the thread a new leader
\* starts.
DoHeartBeat(i) ==
  LET peers   == Server \ {i}
      behind  == {j \in peers : BehindSnapshot(i, j)}
      current == {j \in peers : ~BehindSnapshot(i, j)}
  IN
  /\ up[i] /\ status[i] = Leader
  /\ \E r \in Rounds :
       /\ ~RoundOpen(Calls, i, r)
       /\ \A s \in Rounds : s < r => RoundOpen(Calls, i, s)
       /\ appendRequests' = appendRequests \cup {AppendCall(i, j, r) : j \in current}
       /\ snapshotThreads' = snapshotThreads \cup
            {[leader |-> i, follower |-> j, round |-> r] : j \in behind}
       /\ appendNums' = [appendNums EXCEPT ![i][r] = {i}]
  /\ Asserts(i, /\ \A j \in peers : nextIndex[i][j] >= 1
                /\ \A j \in current : InLog(i, PrevLogIndex(i, j)))
  /\ UNCHANGED <<status, durableVars, persisted, commitIndex, applyVars, nextIndex, matchIndex,
                 electionVars, appendReplies, snapshotRequests, snapshotReplies>>

AnswerAppend(m, term, success, hint) ==
  /\ appendRequests' = appendRequests \ {m}
  /\ appendReplies' = appendReplies \cup
       {[leader |-> m.leader, follower |-> m.follower, round |-> m.round, term |-> term,
         success |-> success, updateNextIndex |-> hint,
         upTo |-> m.prevLogIndex + Len(m.entries),
         tailTerm |-> IF m.entries = <<>> THEN 0 ELSE m.entries[Len(m.entries)].term]}

Matches(i, m) == LogTermAt(i, m.prevLogIndex) = m.prevLogTerm

\* The hint of a mismatch: just above the nearest entry of another term.
ConflictIndex(i, prev) ==
  LET other == {k \in lastSnapshot[i].index .. prev : LogTermAt(i, k) # LogTermAt(i, prev)}
  IN  IF other = {} THEN prev
      ELSE (CHOOSE k \in other : \A l \in other : l <= k) + 1

\* Mutants of MergeEntries: entries are always added at the end; entries are never
\* replaced; the log is cut behind the previous entry, which the comment at
\* raft.cpp:56 warns of.
MergeByAppend(i, prev, entries) == logs[i] \o entries

MergeKeepOld(i, prev, entries) ==
  logs[i] \o SubSeq(entries, Len(logs[i]) - Slice(i, prev) + 1, Len(entries))

MergeTruncate(i, prev, entries) == SubSeq(logs[i], 1, Slice(i, prev)) \o entries

\* The loop over args->entries: an entry past the end is appended, one that
\* differs in its term replaces the local one, and what follows is kept.
MergeEntries(i, prev, entries) ==
  LET at(p)  == p - Slice(i, prev)
      len    == Larger(Len(logs[i]), Slice(i, prev) + Len(entries))
      sent(p) == at(p) \in DOMAIN entries
  IN  [p \in 1 .. len |->
        IF sent(p) /\ (p > Len(logs[i]) \/ logs[i][p].term # entries[at(p)].term)
        THEN entries[at(p)] ELSE logs[i][p]]

\* The assertion of the loop: an entry of the same index and term is the same.
SameCommands(i, prev, entries) ==
  \A k \in DOMAIN entries :
    LET p == Slice(i, prev) + k IN
    p \in DOMAIN logs[i] /\ logs[i][p].term = entries[k].term
      => logs[i][p].command = entries[k].command

\* Mutant of FollowerCommit: an entry is committed when the next one has come.
FollowerCommitLate(i, leaderCommit, last) ==
  IF leaderCommit > commitIndex[i] THEN Smaller(leaderCommit, last - 1) ELSE commitIndex[i]

FollowerCommit(i, leaderCommit, last) ==
  IF leaderCommit > commitIndex[i] THEN Smaller(leaderCommit, last) ELSE commitIndex[i]

\* The branch taken when the previous entry matches.
AcceptEntries(i, m) ==
  /\ m.prevLogIndex >= lastSnapshot[i].index /\ m.prevLogIndex <= LastLogIndex(i)
  /\ Matches(i, m)
  /\ logs' = [logs EXCEPT ![i] = MergeEntries(i, m.prevLogIndex, m.entries)]
  /\ commitIndex' = [commitIndex EXCEPT ![i] = FollowerCommit(i, m.leaderCommit, LastLogIndex(i)')]
  /\ Asserts(i, /\ SameCommands(i, m.prevLogIndex, m.entries)
                /\ LastLogIndex(i)' >= m.prevLogIndex + Len(m.entries)
                /\ LastLogIndex(i)' >= commitIndex'[i])
  /\ AnswerAppend(m, m.term, TRUE, NoHint)

RejectEntries(i, m) ==
  /\ \/ /\ m.prevLogIndex > LastLogIndex(i)
        /\ AnswerAppend(m, m.term, FALSE, LastLogIndex(i) + 1)
     \/ /\ m.prevLogIndex >= lastSnapshot[i].index /\ m.prevLogIndex <= LastLogIndex(i)
        /\ ~Matches(i, m)
        /\ AnswerAppend(m, m.term, FALSE, ConflictIndex(i, m.prevLogIndex))
  /\ UNCHANGED <<up, logs, commitIndex>>

\* A previous entry inside the snapshot: the reply is filled in, but nothing
\* returns and matchLog's assertion ends the process (the defer does not run).
PrevInsideSnapshot(i, m) ==
  /\ m.prevLogIndex < lastSnapshot[i].index
  /\ Asserts(i, FALSE)
  /\ appendRequests' = appendRequests \ {m}
  /\ UNCHANGED <<logs, commitIndex, appendReplies>>

AppendEntries1(m) ==
  LET i == m.follower IN
  /\ up[i]
  /\ \/ /\ m.term < currentTerm[i]
        /\ AnswerAppend(m, currentTerm[i], FALSE, NoHint)
        /\ UNCHANGED <<up, status, durableVars, persisted, commitIndex>>
     \/ /\ m.term >= currentTerm[i]
        /\ AdoptTerm(i, m.term)
        /\ votedFor' = [votedFor EXCEPT ![i] = VoteAfter(i, m.term)]
        /\ status' = [status EXCEPT ![i] = StatusAfterCall(i)]
        /\ UNCHANGED lastSnapshot
        /\ \/ AcceptEntries(i, m) \/ RejectEntries(i, m) \/ PrevInsideSnapshot(i, m)
        /\ IF m.prevLogIndex < lastSnapshot[i].index THEN UNCHANGED persisted ELSE Persist(i)
  /\ UNCHANGED <<applyVars, leaderVars, electionVars, snapCalls>>

\* Mutants of MatchAfter: matchIndex grows with each answer, which the comment at
\* raft.cpp:786 warns of; the peer is taken to have the log as it is now.
MatchGrows(i, m) == matchIndex[i][m.follower] + (IF m.tailTerm = 0 THEN 0 ELSE 1)

MatchToEnd(i, m) == LastLogIndex(i)

MatchAfter(i, m) == Larger(matchIndex[i][m.follower], m.upTo)

\* Mutants of CommitAfter: the log as it is now is committed; nextIndex is.
CommitWholeLog(i, m, counted) ==
  IF Cardinality(counted) >= Majority /\ m.tailTerm = currentTerm[i]
  THEN LastLogIndex(i) ELSE commitIndex[i]

CommitNextIndex(i, m, counted) ==
  IF Cardinality(counted) >= Majority /\ m.tailTerm = currentTerm[i]
  THEN Larger(commitIndex[i], m.upTo + 1) ELSE commitIndex[i]

\* Success: the call that makes *appendNums a majority commits what it carried,
\* if it carried an entry of this term.
CommitAfter(i, m, counted) ==
  IF Cardinality(counted) >= Majority /\ m.tailTerm = currentTerm[i]
  THEN Larger(commitIndex[i], m.upTo) ELSE commitIndex[i]

Acknowledged(i, m) ==
  LET j       == m.follower
      match   == MatchAfter(i, m)
      counted == appendNums[i][m.round] \cup {j}
  IN
  /\ m.success
  /\ matchIndex' = [matchIndex EXCEPT ![i][j] = match]
  /\ nextIndex' = [nextIndex EXCEPT ![i][j] = match + 1]
  /\ commitIndex' = [commitIndex EXCEPT ![i] = CommitAfter(i, m, counted)]
  /\ appendNums' = Tally(m, IF Cardinality(counted) >= Majority THEN {} ELSE counted)
  /\ Asserts(i, match <= LastLogIndex(i) /\ commitIndex'[i] <= LastLogIndex(i))

\* The rest of sendAppendEntries.  A larger term is adopted without persist().
SendAppendEntries(m) ==
  LET i == m.leader IN
  /\ up[i]
  /\ appendReplies' = appendReplies \ {m}
  /\ \/ /\ m.term > currentTerm[i]
        /\ StepDown(i, m.term)
        /\ appendNums' = Tally(m, appendNums[i][m.round])
        /\ UNCHANGED <<up, commitIndex, nextIndex, matchIndex>>
     \/ /\ m.term <= currentTerm[i]
        /\ UNCHANGED <<status, currentTerm, votedFor>>
        /\ \/ /\ m.term = currentTerm[i] /\ status[i] = Leader
              /\ Acknowledged(i, m)
           \/ /\ m.term = currentTerm[i] /\ status[i] = Leader
              /\ ~m.success /\ m.updateNextIndex # NoHint
              /\ nextIndex' = [nextIndex EXCEPT ![i][m.follower] = m.updateNextIndex]
              /\ appendNums' = Tally(m, appendNums[i][m.round])
              /\ UNCHANGED <<up, commitIndex, matchIndex>>
           \/ /\ \/ m.term < currentTerm[i] \/ status[i] # Leader
                 \/ ~m.success /\ m.updateNextIndex = NoHint
              /\ appendNums' = Tally(m, appendNums[i][m.round])
              /\ UNCHANGED <<up, commitIndex, nextIndex, matchIndex>>
  /\ UNCHANGED <<logs, lastSnapshot, persisted, applyVars, electionVars, appendRequests, snapCalls>>

\* The call fails: the thread ends without taking the lock.
LoseAppendCall(m) ==
  /\ m.follower \in Lossy
  /\ appendRequests' = appendRequests \ {m}
  /\ appendReplies' = appendReplies \ {m}
  /\ appendNums' = Tally(m, appendNums[m.leader][m.round])
  /\ UNCHANGED <<up, status, durableVars, persisted, commitIndex, applyVars,
                 nextIndex, matchIndex, electionVars, snapCalls>>

Start(i, command) ==
  /\ up[i] /\ status[i] = Leader
  /\ <<currentTerm[i], LastLogIndex(i) + 1>> \in Proposals
  /\ logs' = [logs EXCEPT ![i] = Append(@,
       [index |-> LastLogIndex(i) + 1, term |-> currentTerm[i], command |-> command])]
  /\ UNCHANGED <<currentTerm, votedFor, lastSnapshot>>
  /\ Persist(i)
  /\ UNCHANGED <<up, status, commitIndex, applyVars, leaderVars, electionVars,
                 appendCalls, snapCalls>>

-----------------------------------------------------------------------------
(* Applying *)

CommandMsg(entry) ==
  [snapshotValid |-> FALSE, index |-> entry.index, command |-> entry.command]

SnapshotMsg(index) == [snapshotValid |-> TRUE, index |-> index, command |-> Nil]

\* The positions in m_logs that getApplyLogs hands out.
ToApply(i) == Slice(i, lastApplied[i]) + 1 .. Slice(i, commitIndex[i])

\* Mutant of GetApplyLogs: from the start of the log.
GetAllLogs(i) == [k \in 1 .. Slice(i, commitIndex[i]) |-> CommandMsg(logs[i][k])]

GetApplyLogs(i) ==
  [k \in 1 .. commitIndex[i] - lastApplied[i] |->
     CommandMsg(logs[i][Slice(i, lastApplied[i]) + k])]

\* applierTicker under the lock: everything committed is collected at once.
CollectApplyMsgs(i) ==
  /\ up[i] /\ applying[i] = <<>>
  /\ lastApplied[i] < commitIndex[i]
  /\ Asserts(i, /\ commitIndex[i] <= LastLogIndex(i)
                /\ \A p \in ToApply(i) : logs[i][p].index = lastSnapshot[i].index + p)
  /\ applying' = [applying EXCEPT ![i] = GetApplyLogs(i)]
  /\ lastApplied' = [lastApplied EXCEPT ![i] = commitIndex[i]]
  /\ UNCHANGED <<status, durableVars, persisted, commitIndex, applyChan, latePushes,
                 leaderVars, electionVars, appendCalls, snapCalls>>

\* applierTicker without the lock: one push at a time.
PushApplyMsg(i) ==
  /\ up[i] /\ applying[i] # <<>>
  /\ applyChan' = [applyChan EXCEPT ![i] = Append(@, Head(applying[i]))]
  /\ applying' = [applying EXCEPT ![i] = Tail(@)]
  /\ UNCHANGED <<up, status, durableVars, persisted, commitIndex, lastApplied, latePushes,
                 leaderVars, electionVars, appendCalls, snapCalls>>

-----------------------------------------------------------------------------
(* Snapshots *)

LogAfterSnapshot(i, index) == SubSeq(logs[i], Slice(i, index) + 1, Len(logs[i]))

\* The service has a snapshot of everything up to index: the log before it goes.
MakeSnapshot(i, index) ==
  /\ up[i]
  /\ lastSnapshot[i].index < index /\ index <= commitIndex[i]
  /\ Asserts(i, InLog(i, index) /\ Len(LogAfterSnapshot(i, index)) + index = LastLogIndex(i))
  /\ lastSnapshot' = [lastSnapshot EXCEPT ![i] = [index |-> index, term |-> LogTermAt(i, index)]]
  /\ logs' = [logs EXCEPT ![i] = LogAfterSnapshot(i, index)]
  /\ lastApplied' = [lastApplied EXCEPT ![i] = Larger(@, index)]
  /\ UNCHANGED <<currentTerm, votedFor>>
  /\ Persist(i)
  /\ UNCHANGED <<status, commitIndex, applying, applyChan, latePushes, leaderVars,
                 electionVars, appendCalls, snapCalls>>

\* The first half of leaderSendSnapShot.  The thread does not ask whether the
\* node is still the leader, or of which term.
LeaderSendSnapShot(t) ==
  LET i == t.leader IN
  /\ up[i]
  /\ snapshotThreads' = snapshotThreads \ {t}
  /\ snapshotRequests' = snapshotRequests \cup
       {[leader |-> i, follower |-> t.follower, round |-> t.round,
         term |-> currentTerm[i], snapshot |-> lastSnapshot[i]]}
  /\ UNCHANGED <<up, status, durableVars, persisted, commitIndex, applyVars, leaderVars,
                 electionVars, appendCalls, snapshotReplies>>

\* term is what the thread sent, replyTerm what comes back: 0 from a connection
\* that was closed.
AnswerSnapshot(m, replyTerm) ==
  /\ snapshotRequests' = snapshotRequests \ {m}
  /\ snapshotReplies' = snapshotReplies \cup
       {[leader |-> m.leader, follower |-> m.follower, round |-> m.round, term |-> m.term,
         replyTerm |-> replyTerm, index |-> m.snapshot.index]}

\* A handler that leaves its reply empty: an empty reply is no byte on the wire
\* (Rpc), and the thread waits for ever.
LeaveUnanswered(m) ==
  /\ snapshotRequests' = snapshotRequests \ {m}
  /\ UNCHANGED snapshotReplies

\* Mutants of the three definitions below: the log is cleared; m_commitIndex is
\* not raised; only the detached thread pushes.
EmptyLog(i, index)      == <<>>
CommitAsBefore(i, index) == commitIndex[i]
NothingPushed(i, index) == applyChan[i]

LogAfterInstall(i, index) ==
  IF LastLogIndex(i) > index THEN LogAfterSnapshot(i, index) ELSE <<>>

CommitAfterInstall(i, index) == Larger(commitIndex[i], index)

PushedByInstall(i, index) == Append(applyChan[i], SnapshotMsg(index))

\* What a snapshot newer than the node's own does.  It is pushed twice: here,
\* and by a detached pushMsgToKvServer thread.
Install(i, snapshot) ==
  /\ logs' = [logs EXCEPT ![i] = LogAfterInstall(i, snapshot.index)]
  /\ commitIndex' = [commitIndex EXCEPT ![i] = CommitAfterInstall(i, snapshot.index)]
  /\ lastApplied' = [lastApplied EXCEPT ![i] = Larger(@, snapshot.index)]
  /\ lastSnapshot' = [lastSnapshot EXCEPT ![i] = snapshot]
  /\ applyChan' = [applyChan EXCEPT ![i] = PushedByInstall(i, snapshot.index)]
  /\ latePushes' = latePushes \cup {<<i, SnapshotMsg(snapshot.index)>>}
  /\ Persist(i)

InstallSnapshot(m) ==
  LET i == m.follower IN
  /\ up[i]
  /\ \/ /\ m.term < currentTerm[i]
        /\ AnswerSnapshot(m, currentTerm[i])
        /\ UNCHANGED <<status, durableVars, persisted, commitIndex, applyVars>>
     \/ /\ m.term >= currentTerm[i]
        /\ AdoptTerm(i, m.term)
        /\ votedFor' = [votedFor EXCEPT ![i] = VoteAfter(i, m.term)]
        /\ status' = [status EXCEPT ![i] = StatusAfterCall(i)]
        /\ \/ /\ m.snapshot.index <= lastSnapshot[i].index
              /\ LeaveUnanswered(m)
              /\ UNCHANGED <<logs, lastSnapshot, commitIndex, applyVars>>
              /\ IF m.term > currentTerm[i] THEN Persist(i) ELSE UNCHANGED persisted
           \/ /\ m.snapshot.index > lastSnapshot[i].index
              /\ AnswerSnapshot(m, m.term)
              /\ UNCHANGED applying
              /\ Install(i, m.snapshot)
  /\ UNCHANGED <<up, leaderVars, electionVars, appendCalls, snapshotThreads>>

\* The peer's process has ended: the call comes back with an empty reply.
SnapshotToClosedPeer(m) ==
  /\ ~up[m.follower]
  /\ AnswerSnapshot(m, 0)
  /\ UNCHANGED <<up, status, durableVars, persisted, commitIndex, applyVars, leaderVars,
                 electionVars, appendCalls, snapshotThreads>>

\* The second half of leaderSendSnapShot.
SnapshotAnswered(m) ==
  LET i == m.leader IN
  /\ up[i]
  /\ snapshotReplies' = snapshotReplies \ {m}
  /\ \/ /\ status[i] # Leader \/ currentTerm[i] # m.term
        /\ UNCHANGED <<status, durableVars, persisted, nextIndex, matchIndex>>
     \/ /\ status[i] = Leader /\ currentTerm[i] = m.term /\ m.replyTerm > currentTerm[i]
        /\ StepDown(i, m.replyTerm)
        /\ UNCHANGED <<logs, lastSnapshot>>
        /\ Persist(i)
        /\ UNCHANGED <<nextIndex, matchIndex>>
     \/ /\ status[i] = Leader /\ currentTerm[i] = m.term /\ m.replyTerm <= currentTerm[i]
        /\ matchIndex' = [matchIndex EXCEPT ![i][m.follower] = m.index]
        /\ nextIndex' = [nextIndex EXCEPT ![i][m.follower] = m.index + 1]
        /\ UNCHANGED <<status, durableVars, persisted>>
  /\ UNCHANGED <<up, commitIndex, appendNums, applyVars, electionVars, appendCalls,
                 snapshotThreads, snapshotRequests>>

LoseSnapshotCall(m) ==
  /\ m.follower \in Lossy
  /\ snapshotRequests' = snapshotRequests \ {m}
  /\ snapshotReplies' = snapshotReplies \ {m}
  /\ UNCHANGED <<up, status, durableVars, persisted, commitIndex, applyVars, leaderVars,
                 electionVars, appendCalls, snapshotThreads>>

PushMsgToKvServer(p) ==
  /\ up[p[1]]
  /\ applyChan' = [applyChan EXCEPT ![p[1]] = Append(@, p[2])]
  /\ latePushes' = latePushes \ {p}
  /\ UNCHANGED <<up, status, durableVars, persisted, commitIndex, lastApplied, applying,
                 leaderVars, electionVars, appendCalls, snapCalls>>

-----------------------------------------------------------------------------
(* The specification *)

InitialSave == [currentTerm |-> 0, votedFor |-> Nil, logs |-> <<>>,
                lastSnapshot |-> [index |-> 0, term |-> 0]]

Init ==
  /\ up = [i \in Server |-> TRUE]
  /\ status = [i \in Server |-> Follower]
  /\ currentTerm = [i \in Server |-> 0]
  /\ votedFor = [i \in Server |-> Nil]
  /\ persisted = [i \in Server |-> InitialSave]
  /\ logs = [i \in Server |-> <<>>]
  /\ lastSnapshot = [i \in Server |-> [index |-> 0, term |-> 0]]
  /\ commitIndex = [i \in Server |-> 0]
  /\ lastApplied = [i \in Server |-> 0]
  /\ applying = [i \in Server |-> <<>>]
  /\ applyChan = [i \in Server |-> <<>>]
  /\ latePushes = {}
  /\ nextIndex = [i \in Server |-> [j \in Server |-> 0]]
  /\ matchIndex = [i \in Server |-> [j \in Server |-> 0]]
  /\ appendNums = [i \in Server |-> [r \in Rounds |-> {}]]
  /\ votedNum = [i \in Server |-> {}]
  /\ voteRequests = {} /\ voteReplies = {} /\ votes = {}
  /\ appendRequests = {} /\ appendReplies = {}
  /\ snapshotThreads = {} /\ snapshotRequests = {} /\ snapshotReplies = {}

\* The service asks for a snapshot at a command it has received.
Delivered(i, index) ==
  \E k \in DOMAIN applyChan[i] : ~applyChan[i][k].snapshotValid /\ applyChan[i][k].index = index

SnapshotDelivered(i) ==
  \E index \in SnapshotIndexes : Delivered(i, index) /\ MakeSnapshot(i, index)

StartSome(i) == \E command \in Command : Start(i, command)

ElectionNext ==
  \/ \E i \in Server : DoElection(i)
  \/ \E m \in voteRequests : RequestVote(m)
  \/ \E m \in voteReplies : SendRequestVote(m)

AppendNext ==
  \/ \E i \in Server : DoHeartBeat(i)
  \/ \E i \in Server : StartSome(i)
  \/ \E m \in appendRequests : AppendEntries1(m)
  \/ \E m \in appendReplies : SendAppendEntries(m)
  \/ \E m \in appendRequests \cup appendReplies : LoseAppendCall(m)

ApplyNext ==
  \/ \E i \in Appliers : CollectApplyMsgs(i)
  \/ \E i \in Appliers : PushApplyMsg(i)

SnapshotNext ==
  \/ \E i \in Server : SnapshotDelivered(i)
  \/ \E t \in snapshotThreads : LeaderSendSnapShot(t)
  \/ \E m \in snapshotRequests : InstallSnapshot(m)
  \/ \E m \in snapshotRequests : SnapshotToClosedPeer(m)
  \/ \E m \in snapshotReplies : SnapshotAnswered(m)
  \/ \E m \in snapshotRequests \cup snapshotReplies : LoseSnapshotCall(m)
  \/ \E p \in latePushes : PushMsgToKvServer(p)

Next == ElectionNext \/ AppendNext \/ ApplyNext \/ SnapshotNext

Spec == Init /\ [][Next]_vars

-----------------------------------------------------------------------------
(* Properties *)

\* The type of every variable.
TypeOK ==
  /\ up \in [Server -> BOOLEAN]
  /\ status \in [Server -> {Follower, Candidate, Leader}]
  /\ currentTerm \in [Server -> Nat]
  /\ votedFor \in [Server -> Server \cup {Nil}]
  /\ persisted \in [Server -> Saved]
  /\ logs \in [Server -> Seq(Entry)]
  /\ lastSnapshot \in [Server -> Snapshot]
  /\ commitIndex \in [Server -> Nat]
  /\ lastApplied \in [Server -> Nat]
  /\ applying \in [Server -> Seq(ApplyMsg)]
  /\ applyChan \in [Server -> Seq(ApplyMsg)]
  /\ latePushes \subseteq Server \X ApplyMsg
  /\ nextIndex \in [Server -> [Server -> Nat]]
  /\ matchIndex \in [Server -> [Server -> Nat]]
  /\ appendNums \in [Server -> [Rounds -> SUBSET Server]]
  /\ votedNum \in [Server -> SUBSET Server]
  /\ voteRequests \subseteq VoteRequest
  /\ voteReplies \subseteq VoteReply
  /\ appendRequests \subseteq AppendRequest
  /\ appendReplies \subseteq AppendReply
  /\ snapshotThreads \subseteq SnapshotThread
  /\ snapshotRequests \subseteq SnapshotRequest
  /\ snapshotReplies \subseteq SnapshotReply
  /\ votes \subseteq Server \X Nat \X Server

\* Two nodes never lead in the same term.  A vote is counted when the reply is
\* processed, without asking whether the node is still a candidate.
ElectionSafety ==
  \A i, j \in Server :
    status[i] = Leader /\ status[j] = Leader /\ currentTerm[i] = currentTerm[j] => i = j

\* An index and a term name one command, in every log and in every call that is
\* still in flight: what the assertion in AppendEntries1's loop counts on.
EntryUniqueness ==
  LET entries == UNION ({Range(logs[i]) : i \in Server} \cup
                        {Range(m.entries) : m \in appendRequests})
  IN  \A e, f \in entries : e.index = f.index /\ e.term = f.term => e.command = f.command

\* No assertion of the class ever ends a process: the node leads once per term,
\* nextIndex and commitIndex stay inside the log, no entry is received with
\* another command.
NoAssertionFails == \A i \in Server : up[i]

\* The position of an entry in m_logs tells its index, in the logs and in the
\* calls: getSlicesIndexFromLogIndex computes it from the snapshot's index.
Contiguous ==
  /\ \A i \in Server : \A p \in DOMAIN logs[i] : logs[i][p].index = lastSnapshot[i].index + p
  /\ \A m \in appendRequests : \A k \in DOMAIN m.entries :
       m.entries[k].index = m.prevLogIndex + k

\* commitIndex is what has been replicated, lastApplied what may be executed:
\* neither runs ahead of the log, whatever calls are reordered or late.
CommitWithinLog ==
  \A i \in Server : lastApplied[i] <= commitIndex[i] /\ commitIndex[i] <= LastLogIndex(i)

\* What a leader believes a peer stores, the peer stores, as long as the peer
\* has not moved to another term: late and reordered replies never make
\* matchIndex point at an entry the peer does not have.
MatchIndexSound ==
  \A i, j \in Server :
    up[i] /\ up[j] /\ status[i] = Leader /\ i # j /\ currentTerm[j] = currentTerm[i] =>
      LET k == matchIndex[i][j] IN
      k > lastSnapshot[i].index /\ k > lastSnapshot[j].index =>
        k <= LastLogIndex(j) /\ LogTermAt(j, k) = LogTermAt(i, k)

\* A leader commits an entry of its term only when matchIndex agrees that a
\* majority has it: the counter that sendAppendEntries threads share is the
\* tally of one round, and rounds overlap.
CommitBacked ==
  \A i \in Server :
    status[i] = Leader /\ commitIndex[i] > lastSnapshot[i].index
      /\ LogTermAt(i, commitIndex[i]) = currentTerm[i] =>
        Cardinality({i} \cup {j \in Server : matchIndex[i][j] >= commitIndex[i]}) >= Majority

\* What a node promised is in what it handed to its persister: every vote, and
\* every log entry.
PromisesPersisted ==
  /\ \A v \in votes :
       LET saved == persisted[v[1]] IN
       saved.currentTerm >= v[2] /\ (saved.currentTerm = v[2] => saved.votedFor = v[3])
  /\ \A i \in Server : up[i] =>
       persisted[i].logs = logs[i] /\ persisted[i].lastSnapshot = lastSnapshot[i]

\* The service receives commands once, in the order of the log and without a
\* gap: when a command arrives, everything before it has arrived, as a command or
\* inside a snapshot.  The ticker collects under the lock but pushes without it,
\* so an installed snapshot may come in between.
DeliveredInOrder ==
  \A i \in Server : \A p \in DOMAIN applyChan[i] :
    LET msg == applyChan[i][p]
        before == {applyChan[i][q] : q \in 1 .. p - 1}
    IN  ~msg.snapshotValid =>
          /\ \A old \in before : ~old.snapshotValid => old.index < msg.index
          /\ \A k \in 1 .. msg.index - 1 :
               \E old \in before : old.index = k \/ (old.snapshotValid /\ old.index >= k)

\* What counts as applied is in the service's queue or in the ticker's hands: an
\* installed snapshot raises lastApplied past commands never delivered.
NothingSkipped ==
  \A i \in Server : \A k \in 1 .. lastApplied[i] :
    \E msg \in Range(applyChan[i]) \cup Range(applying[i]) :
      msg.index = k \/ (msg.snapshotValid /\ msg.index >= k)

\* A node votes for one candidate in a term, however the requests are ordered.
OneVotePerTerm ==
  \A v, w \in votes : v[1] = w[1] /\ v[2] = w[2] => v[3] = w[3]

\* What a leader has committed stays with every later leader (the rule the
\* comment at raft.cpp:799 relies on).
LeaderCompleteness ==
  \A i, j \in Server :
    status[i] = Leader /\ currentTerm[i] >= currentTerm[j] =>
      \A k \in 1 .. commitIndex[j] :
        k > lastSnapshot[i].index /\ k > lastSnapshot[j].index =>
          k <= LastLogIndex(i) /\ LogTermAt(i, k) = LogTermAt(j, k)

\* While a node leads a term it only adds to its log: a call that replaces an
\* entry, sent by a leader of another term or late, ends the leadership it meets.
LeaderAppendOnly ==
  [][\A i \in Server :
       status[i] = Leader /\ status'[i] = Leader /\ currentTerm'[i] = currentTerm[i] =>
         \A p \in 1 .. LastLogIndex(i) :
           LET old == p - lastSnapshot[i].index
               new == p - lastSnapshot'[i].index
           IN  old > 0 /\ new > 0 => logs'[i][new] = logs[i][old]]_vars

\* No late or reordered call makes a log shorter: a follower that acknowledged
\* an index keeps an entry there.
LastLogIndexNeverFalls ==
  [][\A i \in Server : LastLogIndex(i)' >= LastLogIndex(i)]_vars

-----------------------------------------------------------------------------
(* Progress *)

AppendEntriesAt(j) == \E m \in appendRequests : m.follower = j /\ AppendEntries1(m)
AnswerFrom(j)      == \E m \in appendReplies : m.follower = j /\ SendAppendEntries(m)

\* The tickers never stop; a peer that is called again and again answers some of
\* the calls (threads are scheduled and connections are made again).
Fairness ==
  /\ \A i \in Server : WF_vars(DoHeartBeat(i)) /\ SF_vars(AppendEntriesAt(i)) /\ SF_vars(AnswerFrom(i))
  /\ \A i \in Appliers : WF_vars(CollectApplyMsgs(i)) /\ WF_vars(PushApplyMsg(i))

FairSpec == Spec /\ Fairness

\* An entry of its own term that a leader has in its log reaches the service of
\* every node whose applier runs, unless the leader loses its place: rounds that
\* lose calls are made up for by later rounds.
StartedEntryApplied ==
  \A i \in Server : \A p \in Proposals :
    (status[i] = Leader /\ currentTerm[i] = p[1] /\ LastLogIndex(i) >= p[2])
      ~> (status[i] # Leader \/ \A j \in Appliers : Delivered(j, p[2]))

=============================================================================
