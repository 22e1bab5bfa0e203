------------------------- MODULE RaftElectionProofs -------------------------
(***************************************************************************)
(* Election safety of Raft, for every finite set of servers: a node votes  *)
(* once per term, so two candidates cannot both count a majority.  The     *)
(* history variable votes remembers what votedFor forgets.  Then, what a   *)
(* node persists of it, and the entries that belong to who was elected.    *)
(***************************************************************************)
EXTENDS RaftProofs

\* A vote is for a term the voter has reached, and stands in votedFor while the
\* voter stays in that term.
VotesRemembered ==
  \A v \in votes : /\ v[2] <= currentTerm[v[1]]
                   /\ v[2] = currentTerm[v[1]] => votedFor[v[1]] = v[3]

\* Who asks for votes has voted for itself, and a grant under way has been cast.
VoteCallsBacked ==
  /\ \A m \in voteRequests : /\ m.voter # m.candidate
                             /\ <<m.candidate, m.term, m.candidate>> \in votes
  /\ \A m \in voteReplies : m.voteGranted => /\ <<m.voter, m.term, m.candidate>> \in votes
                                             /\ <<m.candidate, m.term, m.candidate>> \in votes

\* The tally of a node that has voted for itself holds votes of its term.  After
\* a change of term it may be stale, which is why votedFor is asked.
TallyBacked ==
  \A i \in Server : votedFor[i] = i =>
    \A v \in votedNum[i] : <<v, currentTerm[i], i>> \in votes

\* A leader has the votes of a majority in its term.
LeaderBacked ==
  \A i \in Server : status[i] = Leader =>
    \E Q \in SUBSET Server : /\ Cardinality(Q) >= Majority
                             /\ \A v \in Q : <<v, currentTerm[i], i>> \in votes

\* The inductive invariant of elections.
VoteInv == VotesRemembered /\ OneVotePerTerm /\ VoteCallsBacked /\ TallyBacked /\ LeaderBacked

\* m is granted.
Granted(m) ==
  /\ RequestVote(m)
  /\ m.term >= currentTerm[m.voter]
  /\ MayVoteFor(m.voter, m.candidate, m.term)
  /\ currentTerm' = [currentTerm EXCEPT ![m.voter] = m.term]
  /\ votedFor' = [votedFor EXCEPT ![m.voter] = m.candidate]
  /\ votes' = votes \cup {<<m.voter, m.term, m.candidate>>}
  /\ AnswerVote(m, m.term, TRUE)

\* The tally of m's candidate takes the vote that m brings.
Counted(m) ==
  /\ SendRequestVote(m)
  /\ m.term = currentTerm[m.candidate] /\ m.voteGranted

\* Two majorities share a server.
LEMMA MajoritiesMeet ==
  ASSUME NEW P \in SUBSET Server, NEW Q \in SUBSET Server,
         Cardinality(P) >= Majority, Cardinality(Q) >= Majority
  PROVE  P \cap Q # {}
<1>1. Cardinality(Server) \in Nat
  BY ServerAssumption, FS_CardinalityType
<1>2. Cardinality(P) \in Nat /\ Cardinality(Q) \in Nat
  BY ServerAssumption, FS_Subset, FS_CardinalityType
<1>3. Cardinality(P) + Cardinality(Q) > Cardinality(Server)
  BY <1>1, <1>2 DEF Majority
<1> QED
  BY <1>3, ServerAssumption, FS_MajoritiesIntersect

\* What a step does to the term and the vote of a node, when it casts none: the
\* vote is forgotten only with a larger term, and the node follows then.
LEMMA TermStep ==
  ASSUME TypeOK, Next, NEW i \in Server,
         ~DoElection(i), ~(\E m \in voteRequests : m.voter = i /\ Granted(m))
  PROVE  \/ currentTerm'[i] = currentTerm[i] /\ votedFor'[i] = votedFor[i]
         \/ currentTerm'[i] > currentTerm[i] /\ votedFor'[i] = Nil /\ status'[i] = Follower
<1> DEFINE Kept == currentTerm'[i] = currentTerm[i] /\ votedFor'[i] = votedFor[i]
           Raised == currentTerm'[i] > currentTerm[i] /\ votedFor'[i] = Nil /\ status'[i] = Follower
<1>1. CASE UNCHANGED <<currentTerm, votedFor>>
  BY <1>1
<1>2. ASSUME NEW n \in Server, NEW term \in Nat, term > currentTerm[n], StepDown(n, term)
      PROVE  Kept \/ Raised
  BY <1>2 DEF StepDown, TypeOK
<1>3. ASSUME NEW n \in Server, NEW term \in Nat, term >= currentTerm[n],
             currentTerm' = [currentTerm EXCEPT ![n] = Larger(currentTerm[n], term)],
             votedFor' = [votedFor EXCEPT ![n] = VoteAfter(n, term)],
             term > currentTerm[n] => status' = [status EXCEPT ![n] = Follower]
      PROVE  Kept \/ Raised
  <2>1. CASE i # n
    BY <1>3, <2>1 DEF TypeOK
  <2>2. CASE i = n
    <3>1. currentTerm[i] \in Nat
      BY DEF TypeOK
    <3>2. currentTerm'[i] = Larger(currentTerm[i], term) /\ votedFor'[i] = VoteAfter(i, term)
      BY <1>3, <2>2 DEF TypeOK
    <3>3. term > currentTerm[i] => status'[i] = Follower
      BY <1>3, <2>2 DEF TypeOK
    <3> QED
      BY <1>3, <2>2, <3>1, <3>2, <3>3 DEF Larger, VoteAfter
  <2> QED
    BY <2>1, <2>2
<1>4. CASE ElectionNext
  <2>1. ASSUME NEW n \in Server, DoElection(n)
        PROVE  Kept
    <3>1. n # i
      BY <2>1
    <3> QED
      BY <2>1, <3>1 DEF DoElection, TypeOK
  <2>2. ASSUME NEW m \in voteRequests, RequestVote(m)
        PROVE  Kept \/ Raised
    <3>1. m.voter \in Server /\ m.term \in Nat /\ m.candidate \in Server
      BY DEF TypeOK, VoteRequest
    <3>2. CASE UNCHANGED <<currentTerm, votedFor>>
      BY <1>1, <3>2
    <3>3. CASE /\ m.term >= currentTerm[m.voter]
               /\ AdoptTerm(m.voter, m.term)
               /\ status' = [status EXCEPT ![m.voter] =
                               IF m.term > currentTerm[m.voter] THEN Follower ELSE status[m.voter]]
               /\ votedFor' = [votedFor EXCEPT ![m.voter] = VoteAfter(m.voter, m.term)]
      BY <1>3, <3>1, <3>3 DEF AdoptTerm
    <3>4. CASE /\ m.term >= currentTerm[m.voter]
               /\ AdoptTerm(m.voter, m.term)
               /\ MayVoteFor(m.voter, m.candidate, m.term)
               /\ votedFor' = [votedFor EXCEPT ![m.voter] = m.candidate]
               /\ votes' = votes \cup {<<m.voter, m.term, m.candidate>>}
               /\ AnswerVote(m, m.term, TRUE)
      <4>1. Larger(currentTerm[m.voter], m.term) = m.term
        <5>1. currentTerm[m.voter] \in Nat
          BY <3>1 DEF TypeOK
        <5> QED
          BY <3>1, <3>4, <5>1 DEF Larger
      <4>2. Granted(m)
        BY <2>2, <3>4, <4>1 DEF Granted, AdoptTerm
      <4>3. m.voter # i
        BY <4>2
      <4> QED
        BY <3>1, <3>4, <4>3 DEF AdoptTerm, TypeOK
    <3> QED
      BY <2>2, <3>2, <3>3, <3>4 DEF RequestVote
  <2>3. ASSUME NEW m \in voteReplies, SendRequestVote(m)
        PROVE  Kept \/ Raised
    <3>1. m.candidate \in Server /\ m.term \in Nat
      BY DEF TypeOK, VoteReply
    <3> QED
      BY <1>1, <1>2, <2>3, <3>1 DEF SendRequestVote, BecomeLeader, durableVars
  <2> QED
    BY <1>4, <2>1, <2>2, <2>3 DEF ElectionNext
<1>5. CASE AppendNext
  <2>1. ASSUME NEW m \in appendRequests, AppendEntries1(m)
        PROVE  Kept \/ Raised
    <3>1. m.follower \in Server /\ m.term \in Nat
      BY DEF TypeOK, AppendRequest
    <3> QED
      BY <1>1, <1>3, <2>1, <3>1 DEF AppendEntries1, StatusAfterCall, AdoptTerm, durableVars
  <2>2. ASSUME NEW m \in appendReplies, SendAppendEntries(m)
        PROVE  Kept \/ Raised
    <3>1. m.leader \in Server /\ m.term \in Nat
      BY DEF TypeOK, AppendReply
    <3> QED
      BY <1>1, <1>2, <2>2, <3>1 DEF SendAppendEntries
  <2> QED
    BY <1>1, <1>5, <2>1, <2>2
    DEF AppendNext, DoHeartBeat, StartSome, Start, LoseAppendCall, durableVars
<1>6. CASE ApplyNext
  BY <1>1, <1>6 DEF ApplyNext, CollectApplyMsgs, PushApplyMsg, durableVars
<1>7. CASE SnapshotNext
  <2>1. ASSUME NEW m \in snapshotRequests, InstallSnapshot(m)
        PROVE  Kept \/ Raised
    <3>1. m.follower \in Server /\ m.term \in Nat
      BY DEF TypeOK, SnapshotRequest
    <3> QED
      BY <1>1, <1>3, <2>1, <3>1 DEF InstallSnapshot, StatusAfterCall, AdoptTerm, durableVars
  <2>2. ASSUME NEW m \in snapshotReplies, SnapshotAnswered(m)
        PROVE  Kept \/ Raised
    <3>1. m.leader \in Server /\ m.replyTerm \in Nat
      BY DEF TypeOK, SnapshotReply
    <3> QED
      BY <1>1, <1>2, <2>2, <3>1 DEF SnapshotAnswered, durableVars
  <2> QED
    BY <1>1, <1>7, <2>1, <2>2
    DEF SnapshotNext, SnapshotDelivered, MakeSnapshot, LeaderSendSnapShot, SnapshotToClosedPeer,
        LoseSnapshotCall, PushMsgToKvServer, durableVars
<1> QED
  BY <1>4, <1>5, <1>6, <1>7 DEF Next

\* The votes after a step: those before it, and the one it casts.
LEMMA VotesStep ==
  ASSUME TypeOK, Next
  PROVE  \/ votes' = votes
         \/ \E i \in Server : DoElection(i)
         \/ \E m \in voteRequests : Granted(m)
<1>1. CASE ElectionNext
  <2>1. ASSUME NEW m \in voteRequests, RequestVote(m)
        PROVE  votes' = votes \/ Granted(m)
    <3>1. m.voter \in Server /\ m.term \in Nat /\ currentTerm[m.voter] \in Nat
      BY DEF TypeOK, VoteRequest
    <3>2. m.term >= currentTerm[m.voter] => Larger(currentTerm[m.voter], m.term) = m.term
      BY <3>1 DEF Larger
    <3> QED
      BY <2>1, <3>2 DEF RequestVote, AdoptTerm, Granted
  <2> QED
    BY <1>1, <2>1 DEF ElectionNext, SendRequestVote
<1>2. CASE AppendNext
  BY <1>2 DEF AppendNext, DoHeartBeat, StartSome, Start, AppendEntries1, SendAppendEntries,
              LoseAppendCall, electionVars
<1>3. CASE ApplyNext
  BY <1>3 DEF ApplyNext, CollectApplyMsgs, PushApplyMsg, electionVars
<1>4. CASE SnapshotNext
  BY <1>4 DEF SnapshotNext, SnapshotDelivered, MakeSnapshot, LeaderSendSnapShot, InstallSnapshot,
              SnapshotToClosedPeer, SnapshotAnswered, LoseSnapshotCall, PushMsgToKvServer,
              electionVars
<1> QED
  BY <1>1, <1>2, <1>3, <1>4 DEF Next

\* No vote is ever taken back.
LEMMA VotesStay ==
  ASSUME TypeOK, Next
  PROVE  votes \subseteq votes'
BY VotesStep DEF DoElection, Granted


\* Requests and answers under way after a step.
LEMMA VoteCallOrigin ==
  ASSUME TypeOK, Next
  PROVE  /\ \A m \in voteRequests' :
              \/ m \in voteRequests
              \/ \E i \in Server : /\ DoElection(i)
                                   /\ m.candidate = i /\ m.voter # i /\ m.term = currentTerm[i] + 1
         /\ \A m \in voteReplies' : m.voteGranted =>
              \/ m \in voteReplies
              \/ \E q \in voteRequests : /\ Granted(q)
                                         /\ m.voter = q.voter /\ m.candidate = q.candidate
                                         /\ m.term = q.term
<1>1. CASE \E i \in Server : DoElection(i)
  <2>1. PICK i \in Server : DoElection(i)
    BY <1>1
  <2>2. /\ voteReplies' = voteReplies
        /\ voteRequests' = voteRequests \cup
             {[candidate |-> i, voter |-> j, term |-> currentTerm[i] + 1,
               lastLogIndex |-> LastLogIndex(i), lastLogTerm |-> LastLogTerm(i)] :
                 j \in Server \ {i}}
    BY <2>1 DEF DoElection
  <2>3. ASSUME NEW m \in voteRequests', m \notin voteRequests
        PROVE  m.candidate = i /\ m.voter # i /\ m.term = currentTerm[i] + 1
    BY <2>2, <2>3
  <2> QED
    BY <2>1, <2>2, <2>3
<1>2. CASE \E q \in voteRequests : RequestVote(q)
  <2>1. PICK q \in voteRequests : RequestVote(q)
    BY <1>2
  <2>2. q.voter \in Server /\ q.term \in Nat /\ currentTerm[q.voter] \in Nat
    BY DEF TypeOK, VoteRequest
  <2>3. q.term >= currentTerm[q.voter] => Larger(currentTerm[q.voter], q.term) = q.term
    BY <2>2 DEF Larger
  <2>4. \/ \E term : AnswerVote(q, term, FALSE)
        \/ Granted(q)
    BY <2>1, <2>3 DEF RequestVote, AdoptTerm, Granted
  <2> QED
    BY <2>4 DEF AnswerVote, Granted
<1>3. CASE \E m \in voteReplies : SendRequestVote(m)
  BY <1>3 DEF SendRequestVote
<1>4. CASE UNCHANGED <<voteRequests, voteReplies>>
  BY <1>4
<1>5. CASE AppendNext
  BY <1>4, <1>5 DEF AppendNext, DoHeartBeat, StartSome, Start, AppendEntries1, SendAppendEntries,
              LoseAppendCall, electionVars
<1>6. CASE ApplyNext
  BY <1>4, <1>6 DEF ApplyNext, CollectApplyMsgs, PushApplyMsg, electionVars
<1>7. CASE SnapshotNext
  BY <1>4, <1>7 DEF SnapshotNext, SnapshotDelivered, MakeSnapshot, LeaderSendSnapShot,
              InstallSnapshot, SnapshotToClosedPeer, SnapshotAnswered, LoseSnapshotCall,
              PushMsgToKvServer, electionVars
<1> QED
  BY <1>1, <1>2, <1>3, <1>5, <1>6, <1>7 DEF Next, ElectionNext

\* The tally after a step that does not start it again.
LEMMA TallyStep ==
  ASSUME TypeOK, Next, NEW i \in Server, ~DoElection(i)
  PROVE  \/ votedNum'[i] = votedNum[i]
         \/ votedNum'[i] = {}
         \/ \E m \in voteReplies : /\ Counted(m) /\ m.candidate = i
                                   /\ votedNum'[i] = votedNum[i] \cup {m.voter}
<1>1. CASE UNCHANGED votedNum
  BY <1>1
<1>2. ASSUME NEW n \in Server, DoElection(n)
      PROVE  votedNum'[i] = votedNum[i]
  <2>1. n # i
    BY <1>2
  <2> QED
    BY <1>2, <2>1 DEF DoElection, TypeOK
<1>3. ASSUME NEW m \in voteReplies, SendRequestVote(m)
      PROVE  \/ votedNum'[i] = votedNum[i]
             \/ votedNum'[i] = {}
             \/ /\ Counted(m) /\ m.candidate = i
                /\ votedNum'[i] = votedNum[i] \cup {m.voter}
  <2>1. \/ UNCHANGED votedNum
        \/ votedNum' = [votedNum EXCEPT ![m.candidate] = {}]
        \/ /\ Counted(m)
           /\ votedNum' = [votedNum EXCEPT ![m.candidate] = votedNum[m.candidate] \cup {m.voter}]
    BY <1>3 DEF SendRequestVote, BecomeLeader, Counted
  <2> QED
    BY <2>1 DEF TypeOK
<1>4. CASE ElectionNext
  BY <1>1, <1>2, <1>3, <1>4 DEF ElectionNext, RequestVote
<1>5. CASE AppendNext
  BY <1>1, <1>5 DEF AppendNext, DoHeartBeat, StartSome, Start, AppendEntries1, SendAppendEntries,
              LoseAppendCall, electionVars
<1>6. CASE ApplyNext
  BY <1>1, <1>6 DEF ApplyNext, CollectApplyMsgs, PushApplyMsg, electionVars
<1>7. CASE SnapshotNext
  BY <1>1, <1>7 DEF SnapshotNext, SnapshotDelivered, MakeSnapshot, LeaderSendSnapShot,
              InstallSnapshot, SnapshotToClosedPeer, SnapshotAnswered, LoseSnapshotCall,
              PushMsgToKvServer, electionVars
<1> QED
  BY <1>4, <1>5, <1>6, <1>7 DEF Next

\* A node leads after a step if it led before, or has just counted a majority.
LEMMA LeaderStep ==
  ASSUME TypeOK, Next, NEW i \in Server, status'[i] = Leader
  PROVE  \/ status[i] = Leader
         \/ \E m \in voteReplies : /\ Counted(m) /\ m.candidate = i
                                   /\ Cardinality(votedNum[i] \cup {m.voter}) >= Majority
                                   /\ UNCHANGED currentTerm
<1> USE DEF Follower, Candidate, Leader
<1>1. CASE UNCHANGED status
  BY <1>1
<1>2. ASSUME NEW n \in Server, NEW s, s # Leader, status' = [status EXCEPT ![n] = s]
      PROVE  status[i] = Leader
  BY <1>2 DEF TypeOK
<1>3. CASE ElectionNext
  <2>1. ASSUME NEW n \in Server, DoElection(n)
        PROVE  status[i] = Leader
    BY <1>2, <2>1 DEF DoElection
  <2>2. ASSUME NEW m \in voteRequests, RequestVote(m)
        PROVE  status[i] = Leader
    <3>1. m.voter \in Server
      BY DEF TypeOK, VoteRequest
    <3>2. \/ UNCHANGED status
          \/ status' = [status EXCEPT ![m.voter] = Follower]
          \/ status' = [status EXCEPT ![m.voter] = status[m.voter]]
      BY <2>2 DEF RequestVote
    <3> QED
      BY <3>1, <3>2 DEF TypeOK
  <2>3. ASSUME NEW m \in voteReplies, SendRequestVote(m)
        PROVE  \/ status[i] = Leader
               \/ /\ Counted(m) /\ m.candidate = i
                  /\ Cardinality(votedNum[i] \cup {m.voter}) >= Majority
                  /\ UNCHANGED currentTerm
    <3>1. m.candidate \in Server
      BY DEF TypeOK, VoteReply
    <3>2. CASE UNCHANGED status \/ status' = [status EXCEPT ![m.candidate] = Follower]
      BY <1>2, <3>1, <3>2
    <3>3. CASE /\ Counted(m)
               /\ Cardinality(votedNum[m.candidate] \cup {m.voter}) >= Majority
               /\ BecomeLeader(m.candidate)
      <4>1. CASE m.candidate = i
        BY <3>3, <4>1 DEF BecomeLeader, durableVars
      <4>2. CASE m.candidate # i
        BY <3>1, <3>3, <4>2 DEF BecomeLeader, TypeOK
      <4> QED
        BY <4>1, <4>2
    <3> QED
      BY <2>3, <3>2, <3>3 DEF SendRequestVote, StepDown, Counted
  <2> QED
    BY <1>3, <2>1, <2>2, <2>3 DEF ElectionNext
<1>4. CASE AppendNext
  <2>1. ASSUME NEW m \in appendRequests, AppendEntries1(m)
        PROVE  status[i] = Leader
    <3>1. m.follower \in Server
      BY DEF TypeOK, AppendRequest
    <3> QED
      BY <1>2, <2>1, <3>1 DEF AppendEntries1, StatusAfterCall
  <2>2. ASSUME NEW m \in appendReplies, SendAppendEntries(m)
        PROVE  status[i] = Leader
    <3>1. m.leader \in Server
      BY DEF TypeOK, AppendReply
    <3> QED
      BY <1>2, <2>2, <3>1 DEF SendAppendEntries, StepDown
  <2> QED
    BY <1>1, <1>4, <2>1, <2>2 DEF AppendNext, DoHeartBeat, StartSome, Start, LoseAppendCall
<1>5. CASE ApplyNext
  BY <1>1, <1>5 DEF ApplyNext, CollectApplyMsgs, PushApplyMsg
<1>6. CASE SnapshotNext
  <2>1. ASSUME NEW m \in snapshotRequests, InstallSnapshot(m)
        PROVE  status[i] = Leader
    <3>1. m.follower \in Server
      BY DEF TypeOK, SnapshotRequest
    <3> QED
      BY <1>2, <2>1, <3>1 DEF InstallSnapshot, StatusAfterCall
  <2>2. ASSUME NEW m \in snapshotReplies, SnapshotAnswered(m)
        PROVE  status[i] = Leader
    <3>1. m.leader \in Server
      BY DEF TypeOK, SnapshotReply
    <3> QED
      BY <1>2, <2>2, <3>1 DEF SnapshotAnswered, StepDown
  <2> QED
    BY <1>1, <1>6, <2>1, <2>2
    DEF SnapshotNext, SnapshotDelivered, MakeSnapshot, LeaderSendSnapShot, SnapshotToClosedPeer,
        LoseSnapshotCall, PushMsgToKvServer
<1> QED
  BY <1>3, <1>4, <1>5, <1>6 DEF Next

\* Terms do not fall.
LEMMA TermsGrow ==
  ASSUME TypeOK, TypeOK', Next, NEW i \in Server
  PROVE  currentTerm[i] \in Nat /\ currentTerm'[i] \in Nat /\ currentTerm'[i] >= currentTerm[i]
<1>1. currentTerm[i] \in Nat /\ currentTerm'[i] \in Nat
  BY DEF TypeOK
<1>2. CASE DoElection(i)
  <2>1. currentTerm'[i] = currentTerm[i] + 1
    BY <1>2 DEF DoElection, TypeOK
  <2> QED
    BY <1>1, <2>1
<1>3. ASSUME NEW m \in voteRequests, m.voter = i, Granted(m)
      PROVE  currentTerm'[i] >= currentTerm[i]
  BY <1>3 DEF Granted, TypeOK
<1>4. CASE ~DoElection(i) /\ ~(\E m \in voteRequests : m.voter = i /\ Granted(m))
  BY <1>1, <1>4, TermStep
<1> QED
  BY <1>1, <1>2, <1>3, <1>4

\* A node that keeps leading keeps its term.
LEMMA LeaderTermStays ==
  ASSUME TypeOK, Next, NEW i \in Server, status[i] = Leader, status'[i] = Leader
  PROVE  currentTerm'[i] = currentTerm[i]
<1>1. ~DoElection(i)
  BY DEF DoElection
<1>2. ASSUME NEW m \in voteRequests, m.voter = i, Granted(m)
      PROVE  currentTerm'[i] = currentTerm[i]
  <2>1. currentTerm'[i] = m.term /\ m.term \in Nat /\ currentTerm[i] \in Nat
    BY <1>2 DEF Granted, TypeOK, VoteRequest
  <2>2. m.term >= currentTerm[i]
    BY <1>2 DEF Granted
  <2>3. m.term > currentTerm[i] => status'[i] = Follower
    <3>1. \/ m.term < currentTerm[m.voter]
          \/ status' = [status EXCEPT ![m.voter] =
                          IF m.term > currentTerm[m.voter] THEN Follower ELSE @]
      BY <1>2 DEF Granted, RequestVote
    <3>2. ~(m.term < currentTerm[m.voter])
      BY <1>2, <2>1, <2>2
    <3> QED
      BY <1>2, <3>1, <3>2 DEF TypeOK
  <2> QED
    BY <2>1, <2>2, <2>3 DEF Follower, Leader
<1> QED
  BY <1>1, <1>2, TermStep DEF Follower, Leader

\* A grant agrees with what the voter remembers of that term.
LEMMA GrantAgrees ==
  ASSUME TypeOK, VotesRemembered, NEW m \in voteRequests, Granted(m),
         NEW v \in votes, v[1] = m.voter
  PROVE  v[2] <= m.term /\ (v[2] = m.term => v[3] = m.candidate)
<1>1. /\ v[2] \in Nat /\ v[3] \in Server /\ m.voter \in Server /\ m.term \in Nat
      /\ currentTerm[m.voter] \in Nat
  BY DEF TypeOK, VoteRequest
<1>2. /\ v[2] <= currentTerm[m.voter]
      /\ v[2] = currentTerm[m.voter] => votedFor[m.voter] = v[3]
  BY DEF VotesRemembered
<1>3. m.term >= currentTerm[m.voter] /\ VoteAfter(m.voter, m.term) \in {Nil, m.candidate}
  BY DEF Granted, MayVoteFor
<1>4. v[3] # Nil
  BY <1>1, NilAssumption
<1> QED
  BY <1>1, <1>2, <1>3, <1>4 DEF VoteAfter

\* Votes are remembered after every step.
LEMMA VotesRememberedStep ==
  ASSUME TypeOK, TypeOK', VotesRemembered, Next
  PROVE  VotesRemembered'
<1> SUFFICES ASSUME NEW v \in votes'
             PROVE  /\ v[2] <= currentTerm'[v[1]]
                    /\ v[2] = currentTerm'[v[1]] => votedFor'[v[1]] = v[3]
  BY DEF VotesRemembered
<1>1. \A w \in votes : /\ w[1] \in Server /\ w[2] \in Nat /\ w[3] \in Server
                       /\ w[2] <= currentTerm[w[1]]
                       /\ w[2] = currentTerm[w[1]] => votedFor[w[1]] = w[3]
  BY DEF TypeOK, VotesRemembered
<1>2. \A i \in Server : currentTerm[i] \in Nat
  BY DEF TypeOK
<1>3. ASSUME NEW n \in Server, DoElection(n)
      PROVE  /\ v[2] <= currentTerm'[v[1]]
             /\ v[2] = currentTerm'[v[1]] => votedFor'[v[1]] = v[3]
  <2>1. /\ currentTerm' = [currentTerm EXCEPT ![n] = currentTerm[n] + 1]
        /\ votedFor' = [votedFor EXCEPT ![n] = n]
        /\ votes' = votes \cup {<<n, currentTerm[n] + 1, n>>}
    BY <1>3 DEF DoElection
  <2>2. currentTerm'[n] = currentTerm[n] + 1 /\ votedFor'[n] = n
    BY <2>1 DEF TypeOK
  <2>3. CASE v = <<n, currentTerm[n] + 1, n>>
    BY <1>2, <2>2, <2>3
  <2>4. CASE v \in votes /\ v[1] = n
    BY <1>1, <1>2, <2>2, <2>4
  <2>5. CASE v \in votes /\ v[1] # n
    <3>1. currentTerm'[v[1]] = currentTerm[v[1]] /\ votedFor'[v[1]] = votedFor[v[1]]
      BY <1>1, <2>1, <2>5 DEF TypeOK
    <3> QED
      BY <1>1, <2>5, <3>1
  <2> QED
    BY <2>1, <2>3, <2>4, <2>5
<1>4. ASSUME NEW m \in voteRequests, Granted(m)
      PROVE  /\ v[2] <= currentTerm'[v[1]]
             /\ v[2] = currentTerm'[v[1]] => votedFor'[v[1]] = v[3]
  <2>1. m.voter \in Server /\ m.term \in Nat /\ m.candidate \in Server
    BY DEF TypeOK, VoteRequest
  <2>2. /\ currentTerm' = [currentTerm EXCEPT ![m.voter] = m.term]
        /\ votedFor' = [votedFor EXCEPT ![m.voter] = m.candidate]
        /\ votes' = votes \cup {<<m.voter, m.term, m.candidate>>}
    BY <1>4 DEF Granted
  <2>3. currentTerm'[m.voter] = m.term /\ votedFor'[m.voter] = m.candidate
    BY <2>1, <2>2 DEF TypeOK
  <2>4. CASE v = <<m.voter, m.term, m.candidate>>
    BY <2>1, <2>3, <2>4
  <2>5. CASE v \in votes /\ v[1] = m.voter
    BY <1>4, <2>3, <2>5, GrantAgrees
  <2>6. CASE v \in votes /\ v[1] # m.voter
    <3>1. currentTerm'[v[1]] = currentTerm[v[1]] /\ votedFor'[v[1]] = votedFor[v[1]]
      BY <1>1, <2>2, <2>6 DEF TypeOK
    <3> QED
      BY <1>1, <2>6, <3>1
  <2> QED
    BY <2>2, <2>4, <2>5, <2>6
<1>5. CASE /\ ~(\E i \in Server : DoElection(i))
           /\ ~(\E m \in voteRequests : Granted(m))
  <2>1. v \in votes /\ v[1] \in Server
    BY <1>1, <1>5, VotesStep
  <2>2. \/ currentTerm'[v[1]] = currentTerm[v[1]] /\ votedFor'[v[1]] = votedFor[v[1]]
        \/ currentTerm'[v[1]] > currentTerm[v[1]] /\ currentTerm'[v[1]] \in Nat
    <3>1. currentTerm'[v[1]] \in Nat
      BY <2>1 DEF TypeOK
    <3> QED
      BY <1>5, <2>1, TermStep, <3>1
  <2> QED
    BY <1>1, <1>2, <2>1, <2>2
<1> QED
  BY <1>3, <1>4, <1>5

\* No step makes a node vote for two candidates of a term.
LEMMA OneVoteStep ==
  ASSUME TypeOK, VotesRemembered, OneVotePerTerm, Next
  PROVE  OneVotePerTerm'
<1>1. \A v \in votes : v[1] \in Server /\ v[2] \in Nat /\ v[2] <= currentTerm[v[1]]
  BY DEF TypeOK, VotesRemembered
<1>2. ASSUME NEW n \in Server, DoElection(n)
      PROVE  OneVotePerTerm'
  <2>1. currentTerm[n] \in Nat /\ votes' = votes \cup {<<n, currentTerm[n] + 1, n>>}
    BY <1>2 DEF DoElection, TypeOK
  <2>2. \A v \in votes : ~(v[1] = n /\ v[2] = currentTerm[n] + 1)
    BY <1>1, <2>1
  <2>3. \A v \in votes' : v \in votes \/ (v[1] = n /\ v[2] = currentTerm[n] + 1 /\ v[3] = n)
    BY <2>1
  <2> QED
    BY <2>2, <2>3 DEF OneVotePerTerm
<1>3. ASSUME NEW m \in voteRequests, Granted(m)
      PROVE  OneVotePerTerm'
  <2>1. votes' = votes \cup {<<m.voter, m.term, m.candidate>>}
    BY <1>3 DEF Granted
  <2>2. \A v \in votes : v[1] = m.voter /\ v[2] = m.term => v[3] = m.candidate
    BY <1>3, GrantAgrees
  <2>3. \A v \in votes' : v \in votes \/ (v[1] = m.voter /\ v[2] = m.term /\ v[3] = m.candidate)
    BY <2>1
  <2> QED
    BY <2>2, <2>3 DEF OneVotePerTerm
<1>4. CASE votes' = votes
  BY <1>4 DEF OneVotePerTerm
<1> QED
  BY <1>2, <1>3, <1>4, VotesStep

\* Vote calls stay backed by votes.
LEMMA VoteCallsStep ==
  ASSUME TypeOK, VoteCallsBacked, Next
  PROVE  VoteCallsBacked'
<1>1. votes \subseteq votes'
  BY VotesStay
<1>2. ASSUME NEW m \in voteRequests'
      PROVE  m.voter # m.candidate /\ <<m.candidate, m.term, m.candidate>> \in votes'
  <2>1. CASE m \in voteRequests
    BY <1>1, <2>1 DEF VoteCallsBacked
  <2>2. CASE \E i \in Server : /\ DoElection(i)
                               /\ m.candidate = i /\ m.voter # i /\ m.term = currentTerm[i] + 1
    BY <2>2 DEF DoElection
  <2> QED
    BY <2>1, <2>2, VoteCallOrigin
<1>3. ASSUME NEW m \in voteReplies', m.voteGranted
      PROVE  /\ <<m.voter, m.term, m.candidate>> \in votes'
             /\ <<m.candidate, m.term, m.candidate>> \in votes'
  <2>1. CASE m \in voteReplies
    BY <1>1, <1>3, <2>1 DEF VoteCallsBacked
  <2>2. CASE \E q \in voteRequests : /\ Granted(q)
                                     /\ m.voter = q.voter /\ m.candidate = q.candidate
                                     /\ m.term = q.term
    BY <1>1, <2>2 DEF Granted, VoteCallsBacked
  <2> QED
    BY <1>3, <2>1, <2>2, VoteCallOrigin
<1> QED
  BY <1>2, <1>3 DEF VoteCallsBacked

\* Tallies stay backed by votes.
LEMMA TallyBackedStep ==
  ASSUME TypeOK, VoteCallsBacked, TallyBacked, Next
  PROVE  TallyBacked'
<1> SUFFICES ASSUME NEW i \in Server, votedFor'[i] = i, NEW v \in votedNum'[i]
             PROVE  <<v, currentTerm'[i], i>> \in votes'
  BY DEF TallyBacked
<1>1. votes \subseteq votes'
  BY VotesStay
<1>2. CASE DoElection(i)
  <2>1. votedNum'[i] = {i} /\ currentTerm'[i] = currentTerm[i] + 1
    BY <1>2 DEF DoElection, TypeOK
  <2> QED
    BY <1>2, <2>1 DEF DoElection
<1>3. ASSUME NEW m \in voteRequests, m.voter = i, Granted(m)
      PROVE  FALSE
  <2>1. votedFor'[i] = m.candidate
    BY <1>3 DEF Granted, TypeOK
  <2> QED
    BY <1>3, <2>1 DEF VoteCallsBacked
<1>4. CASE ~DoElection(i) /\ ~(\E m \in voteRequests : m.voter = i /\ Granted(m))
  <2>1. currentTerm'[i] = currentTerm[i] /\ votedFor[i] = i
    <3>1. i # Nil
      BY NilAssumption
    <3> QED
      BY <1>4, <3>1, TermStep
  <2>2. \A w \in votedNum[i] : <<w, currentTerm[i], i>> \in votes
    BY <2>1 DEF TallyBacked
  <2>3. ASSUME NEW m \in voteReplies, Counted(m), m.candidate = i
        PROVE  <<m.voter, currentTerm[i], i>> \in votes
    BY <2>3 DEF Counted, VoteCallsBacked
  <2>4. v \in votedNum[i] \/ \E m \in voteReplies : Counted(m) /\ m.candidate = i /\ v = m.voter
    BY <1>4, TallyStep
  <2> QED
    BY <1>1, <2>1, <2>2, <2>3, <2>4
<1> QED
  BY <1>2, <1>3, <1>4

\* A leader keeps its term and its majority, a new one has just counted its own.
LEMMA LeaderBackedStep ==
  ASSUME TypeOK, VotesRemembered, VoteCallsBacked, TallyBacked, LeaderBacked, Next
  PROVE  LeaderBacked'
<1> SUFFICES ASSUME NEW i \in Server, status'[i] = Leader
             PROVE  \E Q \in SUBSET Server :
                      /\ Cardinality(Q) >= Majority
                      /\ \A v \in Q : <<v, currentTerm'[i], i>> \in votes'
  BY DEF LeaderBacked, Majority
<1>1. votes \subseteq votes'
  BY VotesStay
<1>2. CASE status[i] = Leader
  <2>1. currentTerm'[i] = currentTerm[i]
    BY <1>2, LeaderTermStays
  <2> QED
    BY <1>1, <1>2, <2>1 DEF LeaderBacked
<1>3. ASSUME NEW m \in voteReplies, Counted(m), m.candidate = i,
             Cardinality(votedNum[i] \cup {m.voter}) >= Majority, UNCHANGED currentTerm
      PROVE  \E Q \in SUBSET Server :
               /\ Cardinality(Q) >= Majority
               /\ \A v \in Q : <<v, currentTerm'[i], i>> \in votes'
  <2>1. /\ <<m.voter, currentTerm[i], i>> \in votes
        /\ <<i, currentTerm[i], i>> \in votes
    BY <1>3 DEF Counted, VoteCallsBacked
  <2>2. votedFor[i] = i
    BY <2>1 DEF VotesRemembered
  <2>3. \A v \in votedNum[i] : <<v, currentTerm[i], i>> \in votes
    BY <2>2 DEF TallyBacked
  <2>4. votedNum[i] \cup {m.voter} \in SUBSET Server
    BY DEF TypeOK, VoteReply
  <2> QED
    BY <1>1, <1>3, <2>1, <2>3, <2>4
<1> QED
  BY <1>2, <1>3, LeaderStep

\* The invariant of elections is inductive.
LEMMA VoteInvStep ==
  ASSUME TypeOK, TypeOK', VoteInv, [Next]_vars
  PROVE  VoteInv'
<1>1. CASE Next
  BY <1>1, VotesRememberedStep, OneVoteStep, VoteCallsStep, TallyBackedStep, LeaderBackedStep
  DEF VoteInv
<1>2. CASE UNCHANGED vars
  BY <1>2 DEF VoteInv, VotesRemembered, OneVotePerTerm, VoteCallsBacked, TallyBacked, LeaderBacked,
              Majority, vars, durableVars, electionVars
<1> QED
  BY <1>1, <1>2

\* Every reachable state satisfies the invariant of elections.
THEOREM VoteInvariance == Spec => []VoteInv
<1>1. Init => VoteInv
  BY DEF Init, VoteInv, VotesRemembered, OneVotePerTerm, VoteCallsBacked, TallyBacked, LeaderBacked,
         Follower, Leader
<1>2. TypeOK /\ TypeOK' /\ VoteInv /\ [Next]_vars => VoteInv'
  BY VoteInvStep
<1> QED
  BY <1>1, <1>2, TypeCorrect, PTL DEF Spec

\* A node votes for one candidate in a term, however requests are ordered and
\* however often it is a candidate itself.
THEOREM VotesOnce == Spec => []OneVotePerTerm
<1>1. VoteInv => OneVotePerTerm
  BY DEF VoteInv
<1> QED
  BY <1>1, VoteInvariance, PTL

\* No two nodes lead in one term: their majorities share a voter, who voted once.
THEOREM ElectionSafe == Spec => []ElectionSafety
<1>1. ASSUME VoteInv
      PROVE  ElectionSafety
  <2> SUFFICES ASSUME NEW i \in Server, NEW j \in Server, status[i] = Leader, status[j] = Leader,
                      currentTerm[i] = currentTerm[j]
               PROVE  i = j
    BY DEF ElectionSafety
  <2>1. PICK P \in SUBSET Server : /\ Cardinality(P) >= Majority
                                   /\ \A v \in P : <<v, currentTerm[i], i>> \in votes
    BY <1>1 DEF VoteInv, LeaderBacked
  <2>2. PICK Q \in SUBSET Server : /\ Cardinality(Q) >= Majority
                                   /\ \A v \in Q : <<v, currentTerm[j], j>> \in votes
    BY <1>1 DEF VoteInv, LeaderBacked
  <2>3. PICK v \in P : v \in Q
    BY <2>1, <2>2, MajoritiesMeet
  <2>4. <<v, currentTerm[i], i>> \in votes /\ <<v, currentTerm[i], j>> \in votes
    BY <2>1, <2>2, <2>3
  <2> QED
    BY <1>1, <2>4 DEF VoteInv, OneVotePerTerm
<1> QED
  BY <1>1, VoteInvariance, PTL

-----------------------------------------------------------------------------
(* What a node hands to its persister covers what it has promised.  A term  *)
(* that sendAppendEntries adopts is not persisted, so the saved term and     *)
(* vote may be old: but no vote has been cast in the newer term, and whoever *)
(* casts one persists.                                                       *)

\* The step hands the durable state of i over as it leaves it.
HandedOver(i) ==
  persisted'[i] = [currentTerm |-> currentTerm'[i], votedFor |-> votedFor'[i],
                   logs |-> logs'[i], lastSnapshot |-> lastSnapshot'[i]]

\* The step changes nothing of i that has to be persisted, or i ends with it.
NothingToPersist(i) ==
  /\ persisted'[i] = persisted[i]
  /\ up'[i] => up[i] /\ logs'[i] = logs[i] /\ lastSnapshot'[i] = lastSnapshot[i]
  /\ \A v \in votes' : v[1] = i => v \in votes

\* Persist(n) hands the state of n over.
LEMMA PersistHands ==
  ASSUME TypeOK, NEW n \in Server, Persist(n)
  PROVE  HandedOver(n)
<1>1. persisted'[n] = [currentTerm |-> currentTerm'[n], votedFor |-> votedFor'[n],
                       logs |-> logs'[n], lastSnapshot |-> lastSnapshot'[n]]
  BY DEF TypeOK, Persist
<1> QED
  BY <1>1 DEF HandedOver

\* A step that persists the state of n and leaves the others alone.
LEMMA PersistOne ==
  ASSUME TypeOK, NEW n \in Server, NEW i \in Server, Persist(n),
         UNCHANGED up \/ \E b : up' = [up EXCEPT ![n] = b],
         UNCHANGED logs \/ \E l : logs' = [logs EXCEPT ![n] = l],
         UNCHANGED lastSnapshot \/ \E s : lastSnapshot' = [lastSnapshot EXCEPT ![n] = s],
         \A v \in votes' : v \in votes \/ v[1] = n
  PROVE  HandedOver(i) \/ NothingToPersist(i)
<1>1. CASE i = n
  BY <1>1, PersistHands
<1>2. CASE i # n
  <2>1. up'[i] = up[i] /\ logs'[i] = logs[i] /\ lastSnapshot'[i] = lastSnapshot[i]
    <3>1. up'[i] = up[i]
      BY <1>2 DEF TypeOK
    <3>2. logs'[i] = logs[i]
      BY <1>2 DEF TypeOK
    <3>3. lastSnapshot'[i] = lastSnapshot[i]
      BY <1>2 DEF TypeOK
    <3> QED
      BY <3>1, <3>2, <3>3
  <2>2. persisted'[i] = persisted[i]
    BY <1>2 DEF TypeOK, Persist
  <2> QED
    BY <1>2, <2>1, <2>2 DEF NothingToPersist
<1> QED
  BY <1>1, <1>2

\* A step that persists nothing, and nothing that would have to be.
LEMMA PersistNone ==
  ASSUME TypeOK, NEW i \in Server, UNCHANGED <<persisted, logs, lastSnapshot, votes>>,
         UNCHANGED up \/ \E n \in Server : \E b : up[n] /\ up' = [up EXCEPT ![n] = b]
  PROVE  NothingToPersist(i)
<1>1. up'[i] => up[i]
  BY DEF TypeOK
<1> QED
  BY <1>1 DEF NothingToPersist

\* Every step hands the state of a node over or has no need to.
LEMMA PersistStep ==
  ASSUME TypeOK, Next, NEW i \in Server
  PROVE  HandedOver(i) \/ NothingToPersist(i)
<1>1. CASE ElectionNext
  <2>1. ASSUME NEW n \in Server, DoElection(n)
        PROVE  HandedOver(i) \/ NothingToPersist(i)
    <3>1. Persist(n) /\ UNCHANGED up /\ UNCHANGED logs /\ UNCHANGED lastSnapshot
      BY <2>1 DEF DoElection
    <3>2. \A v \in votes' : v \in votes \/ v[1] = n
      <4>1. votes' = votes \cup {<<n, currentTerm[n] + 1, n>>}
        BY <2>1 DEF DoElection
      <4> QED
        BY <4>1
    <3> QED
      BY <3>1, <3>2, PersistOne
  <2>2. ASSUME NEW m \in voteRequests, RequestVote(m)
        PROVE  HandedOver(i) \/ NothingToPersist(i)
    <3>1. m.voter \in Server
      BY DEF TypeOK, VoteRequest
    <3>2. Persist(m.voter) /\ UNCHANGED up /\ UNCHANGED logs /\ UNCHANGED lastSnapshot
      BY <2>2 DEF RequestVote
    <3>3. \A v \in votes' : v \in votes \/ v[1] = m.voter
      <4>1. votes' = votes \/ votes' = votes \cup {<<m.voter, m.term, m.candidate>>}
        BY <2>2 DEF RequestVote
      <4> QED
        BY <4>1
    <3> QED
      BY <3>1, <3>2, <3>3, PersistOne
  <2>3. ASSUME NEW m \in voteReplies, SendRequestVote(m)
        PROVE  HandedOver(i) \/ NothingToPersist(i)
    <3>1. m.candidate \in Server
      BY DEF TypeOK, VoteReply
    <3>2. UNCHANGED <<logs, lastSnapshot, votes>>
      BY <2>3 DEF SendRequestVote, BecomeLeader, durableVars
    <3>3. \/ Persist(m.candidate)
          \/ UNCHANGED persisted
      BY <2>3 DEF SendRequestVote, BecomeLeader
    <3>4. UNCHANGED up \/ \E b : up[m.candidate] /\ up' = [up EXCEPT ![m.candidate] = b]
      BY <2>3 DEF SendRequestVote, BecomeLeader, Asserts
    <3> QED
      BY <3>1, <3>2, <3>3, <3>4, PersistOne, PersistNone
  <2> QED
    BY <1>1, <2>1, <2>2, <2>3 DEF ElectionNext
<1>2. CASE AppendNext
  <2>1. ASSUME NEW n \in Server, DoHeartBeat(n)
        PROVE  NothingToPersist(i)
    BY <2>1, PersistNone DEF DoHeartBeat, Asserts, durableVars, electionVars
  <2>2. ASSUME NEW n \in Server, StartSome(n)
        PROVE  HandedOver(i) \/ NothingToPersist(i)
    <3>1. PICK command \in Command : Start(n, command)
      BY <2>2 DEF StartSome
    <3>2. Persist(n) /\ UNCHANGED <<up, lastSnapshot, votes>> /\ \E l : logs' = [logs EXCEPT ![n] = l]
      BY <3>1 DEF Start, electionVars
    <3> QED
      BY <3>2, PersistOne
  <2>3. ASSUME NEW m \in appendRequests, AppendEntries1(m)
        PROVE  HandedOver(i) \/ NothingToPersist(i)
    <3> DEFINE n == m.follower
    <3>1. n \in Server
      BY DEF TypeOK, AppendRequest
    <3>2. UNCHANGED votes /\ UNCHANGED lastSnapshot
      BY <2>3 DEF AppendEntries1, durableVars, electionVars
    <3>3. CASE UNCHANGED <<up, durableVars, persisted>>
      BY <3>1, <3>2, <3>3, PersistNone DEF durableVars
    <3>4. CASE PrevInsideSnapshot(n, m) /\ UNCHANGED persisted
      <4>1. logs' = logs /\ up' = [up EXCEPT ![n] = FALSE]
        BY <3>4 DEF PrevInsideSnapshot, Asserts
      <4>2. up'[i] => up[i]
        BY <3>1, <4>1 DEF TypeOK
      <4> QED
        BY <3>2, <3>4, <4>1, <4>2 DEF NothingToPersist
    <3>5. CASE Persist(n) /\ (AcceptEntries(n, m) \/ RejectEntries(n, m))
      <4>1. UNCHANGED logs \/ \E l : logs' = [logs EXCEPT ![n] = l]
        BY <3>5 DEF AcceptEntries, RejectEntries
      <4>2. UNCHANGED up \/ \E b : up' = [up EXCEPT ![n] = b]
        BY <3>5 DEF AcceptEntries, RejectEntries, Asserts
      <4> QED
        BY <3>1, <3>2, <3>5, <4>1, <4>2, PersistOne
    <3>6. /\ m.prevLogIndex \in Nat /\ lastSnapshot[n].index \in Nat
      BY <3>1 DEF TypeOK, AppendRequest, Snapshot
    <3>7. AcceptEntries(n, m) => m.prevLogIndex >= lastSnapshot[n].index
      BY DEF AcceptEntries
    <3>8. CASE m.prevLogIndex < lastSnapshot[n].index /\ UNCHANGED persisted /\ RejectEntries(n, m)
      <4>1. logs' = logs /\ up' = up
        BY <3>8 DEF RejectEntries
      <4> QED
        BY <3>1, <3>2, <3>8, <4>1, PersistNone
    <3>9. ~(m.prevLogIndex < lastSnapshot[n].index /\ AcceptEntries(n, m))
      <4> HIDE DEF n
      <4> QED
        BY <3>6, <3>7
    <3>10. ~(~(m.prevLogIndex < lastSnapshot[n].index) /\ PrevInsideSnapshot(n, m))
      BY DEF PrevInsideSnapshot
    <3> QED
      BY <2>3, <3>3, <3>4, <3>5, <3>8, <3>9, <3>10 DEF AppendEntries1
  <2>4. ASSUME NEW m \in appendReplies, SendAppendEntries(m)
        PROVE  NothingToPersist(i)
    <3>1. m.leader \in Server
      BY DEF TypeOK, AppendReply
    <3>2. UNCHANGED <<persisted, logs, lastSnapshot, votes>>
      BY <2>4 DEF SendAppendEntries, electionVars
    <3>3. UNCHANGED up \/ \E b : up[m.leader] /\ up' = [up EXCEPT ![m.leader] = b]
      BY <2>4 DEF SendAppendEntries, Acknowledged, Asserts
    <3> QED
      BY <3>1, <3>2, <3>3, PersistNone
  <2>5. ASSUME NEW m \in appendRequests \cup appendReplies, LoseAppendCall(m)
        PROVE  NothingToPersist(i)
    BY <2>5, PersistNone DEF LoseAppendCall, durableVars, electionVars
  <2> QED
    BY <1>2, <2>1, <2>2, <2>3, <2>4, <2>5 DEF AppendNext
<1>3. CASE ApplyNext
  <2>1. ASSUME NEW n \in Appliers, CollectApplyMsgs(n)
        PROVE  NothingToPersist(i)
    BY <2>1, PersistNone, SubsetsAssumption DEF CollectApplyMsgs, Asserts, durableVars, electionVars
  <2>2. ASSUME NEW n \in Appliers, PushApplyMsg(n)
        PROVE  NothingToPersist(i)
    BY <2>2, PersistNone DEF PushApplyMsg, durableVars, electionVars
  <2> QED
    BY <1>3, <2>1, <2>2 DEF ApplyNext
<1>4. CASE SnapshotNext
  <2>1. ASSUME NEW n \in Server, SnapshotDelivered(n)
        PROVE  HandedOver(i) \/ NothingToPersist(i)
    <3>1. PICK index \in SnapshotIndexes : MakeSnapshot(n, index)
      BY <2>1 DEF SnapshotDelivered
    <3>2. /\ Persist(n) /\ UNCHANGED votes
          /\ \E l : logs' = [logs EXCEPT ![n] = l]
          /\ \E s : lastSnapshot' = [lastSnapshot EXCEPT ![n] = s]
          /\ \E b : up' = [up EXCEPT ![n] = b]
      BY <3>1 DEF MakeSnapshot, Asserts, electionVars
    <3> QED
      BY <3>2, PersistOne
  <2>2. ASSUME NEW m \in snapshotRequests, InstallSnapshot(m)
        PROVE  HandedOver(i) \/ NothingToPersist(i)
    <3>1. m.follower \in Server
      BY DEF TypeOK, SnapshotRequest
    <3>2. UNCHANGED up /\ UNCHANGED votes
      BY <2>2 DEF InstallSnapshot, electionVars
    <3>3. CASE UNCHANGED <<persisted, logs, lastSnapshot>>
      BY <3>1, <3>2, <3>3, PersistNone
    <3>4. CASE Persist(m.follower) /\ UNCHANGED <<logs, lastSnapshot>>
      BY <3>1, <3>2, <3>4, PersistOne
    <3>5. CASE Install(m.follower, m.snapshot)
      <4>1. /\ Persist(m.follower)
            /\ \E l : logs' = [logs EXCEPT ![m.follower] = l]
            /\ \E s : lastSnapshot' = [lastSnapshot EXCEPT ![m.follower] = s]
        BY <3>5 DEF Install
      <4> QED
        BY <3>1, <3>2, <4>1, PersistOne
    <3> QED
      BY <2>2, <3>3, <3>4, <3>5 DEF InstallSnapshot, durableVars
  <2>3. ASSUME NEW m \in snapshotReplies, SnapshotAnswered(m)
        PROVE  HandedOver(i) \/ NothingToPersist(i)
    <3>1. m.leader \in Server
      BY DEF TypeOK, SnapshotReply
    <3>2. UNCHANGED <<up, logs, lastSnapshot, votes>>
      BY <2>3 DEF SnapshotAnswered, durableVars, electionVars
    <3>3. UNCHANGED persisted \/ Persist(m.leader)
      BY <2>3 DEF SnapshotAnswered
    <3> QED
      BY <3>1, <3>2, <3>3, PersistOne, PersistNone
  <2>4. CASE \/ \E t \in snapshotThreads : LeaderSendSnapShot(t)
             \/ \E m \in snapshotRequests : SnapshotToClosedPeer(m)
             \/ \E m \in snapshotRequests \cup snapshotReplies : LoseSnapshotCall(m)
             \/ \E p \in latePushes : PushMsgToKvServer(p)
    <3>1. UNCHANGED <<up, persisted, logs, lastSnapshot, votes>>
      BY <2>4 DEF LeaderSendSnapShot, SnapshotToClosedPeer, LoseSnapshotCall, PushMsgToKvServer,
                  durableVars, electionVars
    <3> QED
      BY <3>1, PersistNone
  <2> QED
    BY <1>4, <2>1, <2>2, <2>3, <2>4 DEF SnapshotNext
<1> QED
  BY <1>1, <1>2, <1>3, <1>4 DEF Next

\* What has been promised stays persisted.
LEMMA PromisesStep ==
  ASSUME TypeOK, TypeOK', VotesRemembered', PromisesPersisted, [Next]_vars
  PROVE  PromisesPersisted'
<1>1. CASE UNCHANGED vars
  BY <1>1 DEF PromisesPersisted, vars, durableVars, electionVars
<1>2. CASE Next
  <2>1. ASSUME NEW v \in votes'
        PROVE  /\ persisted'[v[1]].currentTerm >= v[2]
               /\ persisted'[v[1]].currentTerm = v[2] => persisted'[v[1]].votedFor = v[3]
    <3>1. v[1] \in Server /\ v[2] \in Nat /\ currentTerm'[v[1]] \in Nat
      BY DEF TypeOK
    <3>2. CASE HandedOver(v[1])
      <4>1. /\ v[2] <= currentTerm'[v[1]]
            /\ v[2] = currentTerm'[v[1]] => votedFor'[v[1]] = v[3]
        BY DEF VotesRemembered
      <4> QED
        BY <3>1, <3>2, <4>1 DEF HandedOver
    <3>3. CASE NothingToPersist(v[1])
      <4>1. v \in votes /\ persisted'[v[1]] = persisted[v[1]]
        BY <3>3 DEF NothingToPersist
      <4> QED
        BY <4>1 DEF PromisesPersisted
    <3> QED
      BY <1>2, <3>1, <3>2, <3>3, PersistStep
  <2>2. ASSUME NEW i \in Server, up'[i]
        PROVE  persisted'[i].logs = logs'[i] /\ persisted'[i].lastSnapshot = lastSnapshot'[i]
    <3>1. CASE HandedOver(i)
      BY <3>1 DEF HandedOver
    <3>2. CASE NothingToPersist(i)
      BY <2>2, <3>2 DEF NothingToPersist, PromisesPersisted
    <3> QED
      BY <1>2, <3>1, <3>2, PersistStep
  <2> QED
    BY <2>1, <2>2 DEF PromisesPersisted
<1> QED
  BY <1>1, <1>2

\* Every vote, and the whole log of a running node, is in what it last handed to
\* its persister: no return path of a handler leaves a promise in memory only.
THEOREM PromisesAlwaysPersisted == Spec => []PromisesPersisted
<1>1. Init => PromisesPersisted
  BY DEF Init, PromisesPersisted, InitialSave
<1>2. TypeOK /\ TypeOK' /\ VoteInv' /\ PromisesPersisted /\ [Next]_vars => PromisesPersisted'
  BY PromisesStep DEF VoteInv
<1> QED
  BY <1>1, <1>2, TypeCorrect, VoteInvariance, PTL DEF Spec

-----------------------------------------------------------------------------
(* An index and a term name one command.  An entry is created by the one     *)
(* leader of its term, at the index after its last, and that leader's log    *)
(* never ends before it again: so the leader cannot create a second entry    *)
(* there, and nobody else can.                                               *)

\* e is in a log or in a call under way.
Stored(e) ==
  \/ \E i \in Server : \E p \in DOMAIN logs[i] : logs[i][p] = e
  \/ \E m \in appendRequests : \E k \in DOMAIN m.entries : m.entries[k] = e

\* A majority has voted for i in term.
Won(i, term) ==
  \E Q \in SUBSET Server : /\ Cardinality(Q) >= Majority
                           /\ \A v \in Q : <<v, term, i>> \in votes

\* The term of an entry has been won by a server whose log reaches the entry.
EntriesOwned ==
  \A e \in Entry : Stored(e) => \E i \in Server : Won(i, e.term) /\ e.index <= LastLogIndex(i)

\* The inductive invariant of entries.
EntryInv == EntriesOwned /\ EntryUniqueness

\* Start at i makes e.
Started(i, e) ==
  /\ status[i] = Leader
  /\ e.index = LastLogIndex(i) + 1 /\ e.term = currentTerm[i]
  /\ \E command \in Command :
       /\ Start(i, command)
       /\ e = [index |-> LastLogIndex(i) + 1, term |-> currentTerm[i], command |-> command]

\* EntryUniqueness, said of what is stored.
StoredUnique ==
  \A e, f \in Entry :
    Stored(e) /\ Stored(f) /\ e.index = f.index /\ e.term = f.term => e.command = f.command

LEMMA UniquenessOfStored == TypeOK => (EntryUniqueness <=> StoredUnique)
<1> SUFFICES ASSUME TypeOK
             PROVE  EntryUniqueness <=> StoredUnique
  OBVIOUS
<1> DEFINE entries == UNION ({Range(logs[i]) : i \in Server} \cup
                             {Range(m.entries) : m \in appendRequests})
<1>1. ASSUME NEW e, Stored(e)
      PROVE  e \in Entry
  <2>1. CASE \E i \in Server : \E p \in DOMAIN logs[i] : logs[i][p] = e
    <3>1. PICK i \in Server : \E p \in DOMAIN logs[i] : logs[i][p] = e
      BY <2>1
    <3>2. logs[i] \in Seq(Entry)
      BY DEF TypeOK
    <3> QED
      BY <3>1, <3>2, LenProperties, ElementOfSeq
  <2>2. CASE \E m \in appendRequests : \E k \in DOMAIN m.entries : m.entries[k] = e
    <3>1. PICK m \in appendRequests : \E k \in DOMAIN m.entries : m.entries[k] = e
      BY <2>2
    <3>2. m.entries \in Seq(Entry)
      BY DEF TypeOK, AppendRequest
    <3> QED
      BY <3>1, <3>2, LenProperties, ElementOfSeq
  <2> QED
    BY <1>1, <2>1, <2>2 DEF Stored
<1>2. \A e : e \in entries <=> Stored(e)
  <2> TAKE e
  <2>1. ASSUME e \in entries PROVE Stored(e)
    <3>1. PICK S \in {Range(logs[i]) : i \in Server} \cup {Range(m.entries) : m \in appendRequests} :
            e \in S
      BY <2>1
    <3>2. CASE \E i \in Server : S = Range(logs[i])
      BY <3>1, <3>2 DEF Stored, Range
    <3>3. CASE \E m \in appendRequests : S = Range(m.entries)
      BY <3>1, <3>3 DEF Stored, Range
    <3> QED
      BY <3>2, <3>3
  <2>2. ASSUME Stored(e) PROVE e \in entries
    <3>1. CASE \E i \in Server : e \in Range(logs[i])
      BY <3>1
    <3>2. CASE \E m \in appendRequests : e \in Range(m.entries)
      BY <3>2
    <3> QED
      BY <2>2, <3>1, <3>2 DEF Stored, Range
  <2> QED
    BY <2>1, <2>2
<1>3. EntryUniqueness <=>
        \A e, f \in entries : e.index = f.index /\ e.term = f.term => e.command = f.command
  BY DEF EntryUniqueness
<1> HIDE DEF entries
<1> QED
  BY <1>1, <1>2, <1>3 DEF StoredUnique

LEMMA UniquenessAfter == TypeOK' => (EntryUniqueness' <=> StoredUnique')
BY UniquenessOfStored, PTL

\* A term has one winner.
LEMMA OneWinner ==
  ASSUME OneVotePerTerm, NEW term \in Nat, NEW i \in Server, NEW j \in Server,
         Won(i, term), Won(j, term)
  PROVE  i = j
<1>1. PICK P \in SUBSET Server : /\ Cardinality(P) >= Majority
                                 /\ \A v \in P : <<v, term, i>> \in votes
  BY DEF Won
<1>2. PICK Q \in SUBSET Server : /\ Cardinality(Q) >= Majority
                                 /\ \A v \in Q : <<v, term, j>> \in votes
  BY DEF Won
<1>3. PICK v \in P : v \in Q
  BY <1>1, <1>2, MajoritiesMeet
<1>4. <<v, term, i>> \in votes /\ <<v, term, j>> \in votes
  BY <1>1, <1>2, <1>3
<1> QED
  BY <1>4 DEF OneVotePerTerm

\* A term stays won, and the winner's log does not end earlier.
LEMMA WonStays ==
  ASSUME IInv, Next, NEW i \in Server, NEW term, Won(i, term)
  PROVE  Won(i, term)'
<1>1. votes \subseteq votes'
  BY VotesStay DEF IInv
<1> QED
  BY <1>1 DEF Won, Majority

\* What a step puts into a log was stored before, or Start has just made it.
LEMMA LogOrigin ==
  ASSUME IInv, Next, NEW i \in Server, NEW p \in DOMAIN logs'[i]
  PROVE  Stored(logs'[i][p]) \/ \E n \in Server : Started(n, logs'[i][p])
<1> DEFINE e == logs'[i][p]
           Origin == Stored(e) \/ \E n \in Server : Started(n, e)
<1>0. IInv => TypeOK /\ Contiguous /\ CommitWithinLog
  BY DEF IInv
<1>1. CASE logs'[i] = logs[i]
  BY <1>1 DEF Stored
<1>2. ASSUME NEW m \in appendRequests, AppendEntries1(m)
      PROVE  Origin
  <2>1. CASE UNCHANGED logs
    BY <1>1, <2>1
  <2>2. CASE AcceptEntries(m.follower, m)
    <3>1. m.follower \in Server /\ m.prevLogIndex \in Nat /\ m.entries \in Seq(Entry)
      BY <1>0 DEF TypeOK, AppendRequest
    <3>2. logs' = [logs EXCEPT ![m.follower] = MergeEntries(m.follower, m.prevLogIndex, m.entries)]
      BY <2>2 DEF AcceptEntries
    <3>3. CASE i = m.follower
      <4> DEFINE merged == MergeEntries(i, m.prevLogIndex, m.entries)
      <4>1. logs'[i] = merged
        BY <1>0, <3>2, <3>3 DEF TypeOK
      <4>2. \A k \in DOMAIN m.entries : m.entries[k].index = m.prevLogIndex + k
        BY <1>0 DEF Contiguous
      <4>3. lastSnapshot[i].index <= m.prevLogIndex /\ m.prevLogIndex <= LastLogIndex(i)
        BY <2>2, <3>3 DEF AcceptEntries
      <4>4. \A q \in DOMAIN merged : \/ \E k \in DOMAIN m.entries : merged[q] = m.entries[k]
                                     \/ q \in DOMAIN logs[i] /\ merged[q] = logs[i][q]
        BY <1>0, <3>1, <4>2, <4>3, MergeFacts
      <4> HIDE DEF merged
      <4> QED
        BY <4>1, <4>4 DEF Stored
    <3>4. CASE i # m.follower
      BY <1>0, <1>1, <3>2, <3>4 DEF TypeOK
    <3> QED
      BY <3>3, <3>4
  <2> QED
    BY <1>2, <2>1, <2>2 DEF AppendEntries1, durableVars, RejectEntries, PrevInsideSnapshot
<1>3. ASSUME NEW n \in Server, StartSome(n)
      PROVE  Origin
  <2>1. PICK command \in Command : Start(n, command)
    BY <1>3 DEF StartSome
  <2> DEFINE entry == [index |-> LastLogIndex(n) + 1, term |-> currentTerm[n], command |-> command]
  <2>2. logs' = [logs EXCEPT ![n] = Append(logs[n], entry)] /\ status[n] = Leader
    BY <2>1 DEF Start
  <2>3. CASE i = n
    <3>1. logs'[n] = Append(logs[n], entry) /\ logs[n] \in Seq(Entry) /\ entry \in Entry
      <4>1. LastLogIndex(n) \in Nat /\ currentTerm[n] \in Nat
        BY <1>0, LastLogIndexIs DEF TypeOK
      <4>2. entry \in Entry
        BY <4>1 DEF Entry
      <4> HIDE DEF entry
      <4> QED
        BY <1>0, <2>2, <4>2 DEF TypeOK
    <3>2. e = entry \/ \E q \in DOMAIN logs[n] : e = logs[n][q]
      <4> HIDE DEF entry
      <4> QED
        BY <2>3, <3>1, AppendProperties, LenProperties
    <3> QED
      BY <2>1, <2>2, <3>2 DEF Stored, Started
  <2>4. CASE i # n
    BY <1>0, <1>1, <2>2, <2>4 DEF TypeOK
  <2> QED
    BY <2>3, <2>4
<1>4. ASSUME NEW n \in Server, NEW index \in Nat, lastSnapshot[n].index < index,
             index <= LastLogIndex(n), logs' = [logs EXCEPT ![n] = LogAfterSnapshot(n, index)]
      PROVE  Origin
  <2>1. CASE i = n
    <3>1. logs'[i] = LogAfterSnapshot(i, index)
      BY <1>0, <1>4, <2>1 DEF TypeOK
    <3>2. \A q \in DOMAIN LogAfterSnapshot(i, index) :
            \E s \in DOMAIN logs[i] : LogAfterSnapshot(i, index)[q] = logs[i][s]
      BY <1>0, <1>4, <2>1, AfterSnapshotFacts
    <3> QED
      BY <3>1, <3>2 DEF Stored
  <2>2. CASE i # n
    BY <1>0, <1>1, <1>4, <2>2 DEF TypeOK
  <2> QED
    BY <2>1, <2>2
<1>5. ASSUME NEW n \in Server, SnapshotDelivered(n)
      PROVE  Origin
  <2>1. PICK index \in SnapshotIndexes : Delivered(n, index) /\ MakeSnapshot(n, index)
    BY <1>5 DEF SnapshotDelivered
  <2>2. index \in Nat
    <3>1. PICK k \in DOMAIN applyChan[n] : applyChan[n][k].index = index
      BY <2>1 DEF Delivered
    <3>2. applyChan[n][k] \in ApplyMsg
      BY <1>0, <3>1, LenProperties, ElementOfSeq DEF TypeOK
    <3> QED
      BY <3>1, <3>2 DEF ApplyMsg
  <2>3. /\ lastSnapshot[n].index < index /\ index <= commitIndex[n]
        /\ logs' = [logs EXCEPT ![n] = LogAfterSnapshot(n, index)]
    BY <2>1 DEF MakeSnapshot
  <2>4. index <= LastLogIndex(n)
    <3>1. commitIndex[n] \in Nat /\ LastLogIndex(n) \in Nat /\ commitIndex[n] <= LastLogIndex(n)
      BY <1>0, LastLogIndexIs DEF TypeOK, CommitWithinLog
    <3> QED
      BY <2>2, <2>3, <3>1
  <2> QED
    BY <1>4, <2>2, <2>3, <2>4
<1>6. ASSUME NEW m \in snapshotRequests, InstallSnapshot(m)
      PROVE  Origin
  <2> DEFINE n == m.follower
             index == m.snapshot.index
  <2>1. n \in Server /\ index \in Nat
    BY <1>0 DEF TypeOK, SnapshotRequest, Snapshot
  <2>2. CASE UNCHANGED logs
    BY <1>1, <2>2
  <2>3. CASE /\ index > lastSnapshot[n].index
             /\ logs' = [logs EXCEPT ![n] = LogAfterInstall(n, index)]
    <3>1. LastLogIndex(n) \in Nat /\ lastSnapshot[n].index \in Nat
      BY <1>0, <2>1, LastLogIndexIs DEF TypeOK, Snapshot
    <3>2. CASE LastLogIndex(n) > index
      <4>1. logs' = [logs EXCEPT ![n] = LogAfterSnapshot(n, index)]
        BY <2>3, <3>2 DEF LogAfterInstall
      <4>2. lastSnapshot[n].index < index /\ index <= LastLogIndex(n)
        BY <2>1, <2>3, <3>1, <3>2
      <4> HIDE DEF n, index, Origin
      <4> QED
        BY <1>4, <2>1, <4>1, <4>2
    <3>3. CASE ~(LastLogIndex(n) > index)
      <4>1. logs' = [logs EXCEPT ![n] = <<>>]
        BY <2>3, <3>3 DEF LogAfterInstall
      <4>2. CASE i = n
        BY <1>0, <2>1, <4>1, <4>2 DEF TypeOK
      <4>3. CASE i # n
        BY <1>0, <1>1, <4>1, <4>3 DEF TypeOK
      <4> QED
        BY <4>2, <4>3
    <3> QED
      BY <3>2, <3>3
  <2> QED
    BY <1>6, <2>2, <2>3 DEF InstallSnapshot, Install, durableVars
<1>7. CASE ~LogAction
  BY <1>1, <1>7, LogsElsewhere
<1> QED
  BY <1>2, <1>3, <1>5, <1>6, <1>7 DEF LogAction

\* The same for calls: doHeartBeat copies them from the leader's log.
LEMMA StoredOrigin ==
  ASSUME IInv, Next, NEW e, Stored(e)'
  PROVE  Stored(e) \/ \E n \in Server : Started(n, e)
<1>1. CASE \E i \in Server : \E p \in DOMAIN logs'[i] : logs'[i][p] = e
  BY <1>1, LogOrigin
<1>2. CASE \E m \in appendRequests' : \E k \in DOMAIN m.entries : m.entries[k] = e
  <2>1. PICK m \in appendRequests' : \E k \in DOMAIN m.entries : m.entries[k] = e
    BY <1>2
  <2>2. CASE m \in appendRequests
    BY <2>1, <2>2 DEF Stored
  <2>3. CASE \E i \in Server, j \in Server, r \in Rounds :
               ~BehindSnapshot(i, j) /\ m = AppendCall(i, j, r)
    <3>1. PICK i \in Server, j \in Server, r \in Rounds :
            ~BehindSnapshot(i, j) /\ m = AppendCall(i, j, r)
      BY <2>3
    <3>2. \A k \in DOMAIN m.entries : \E p \in DOMAIN logs[i] : m.entries[k] = logs[i][p]
      BY <3>1, AppendCallFacts
    <3> QED
      BY <2>1, <3>2 DEF Stored
  <2> QED
    BY <2>2, <2>3, AppendRequestOrigin
<1> QED
  BY <1>1, <1>2 DEF Stored

\* The entry that Start makes is the first of its index and term: its term
\* belongs to the node that makes it, and whatever that term holds is below it.
LEMMA StartedIsNew ==
  ASSUME IInv, VoteInv, EntriesOwned, NEW n \in Server, NEW e \in Entry, Started(n, e)
  PROVE  /\ Won(n, e.term)
         /\ \A f \in Entry : Stored(f) /\ f.term = e.term => f.index < e.index
<1>1. e.term \in Nat /\ e.index = LastLogIndex(n) + 1 /\ LastLogIndex(n) \in Nat
  BY LastLogIndexIs DEF IInv, Entry, Started
<1>2. Won(n, e.term)
  BY DEF Started, VoteInv, LeaderBacked, Won
<1>3. ASSUME NEW f \in Entry, Stored(f), f.term = e.term
      PROVE  f.index < e.index
  <2>1. PICK i \in Server : Won(i, f.term) /\ f.index <= LastLogIndex(i)
    BY <1>3 DEF EntriesOwned
  <2>2. i = n
    BY <1>1, <1>2, <1>3, <2>1, OneWinner DEF VoteInv
  <2>3. f.index \in Nat
    BY DEF Entry
  <2> QED
    BY <1>1, <2>1, <2>2, <2>3
<1> QED
  BY <1>2, <1>3

\* Entries stay owned.
LEMMA OwnedStep ==
  ASSUME IInv, IInv', VoteInv, EntriesOwned, Next
  PROVE  EntriesOwned'
<1> SUFFICES ASSUME NEW e \in Entry, Stored(e)'
             PROVE  \E i \in Server : Won(i, e.term)' /\ e.index <= LastLogIndex(i)'
  BY DEF EntriesOwned
<1>1. \A i \in Server : /\ LastLogIndex(i) \in Nat /\ LastLogIndex(i)' \in Nat
                        /\ LastLogIndex(i)' >= LastLogIndex(i)
  <2>1. \A i \in Server : LastLogIndex(i) \in Nat
    BY LastLogIndexIs DEF IInv
  <2>2. \A i \in Server : LastLogIndex(i)' = lastSnapshot'[i].index + Len(logs'[i])
    BY LogStep
  <2>3. \A i \in Server : lastSnapshot'[i].index \in Nat /\ Len(logs'[i]) \in Nat
    BY LenProperties DEF IInv, TypeOK, Snapshot
  <2> QED
    BY <2>1, <2>2, <2>3, LogStep
<1>2. e.index \in Nat
  BY DEF Entry
<1>3. CASE Stored(e)
  <2>1. PICK i \in Server : Won(i, e.term) /\ e.index <= LastLogIndex(i)
    BY <1>3 DEF EntriesOwned
  <2> QED
    BY <1>1, <1>2, <2>1, WonStays
<1>4. ASSUME NEW n \in Server, Started(n, e)
      PROVE  \E i \in Server : Won(i, e.term)' /\ e.index <= LastLogIndex(i)'
  <2>1. Won(n, e.term)'
    BY <1>4, StartedIsNew, WonStays
  <2>2. PICK command \in Command : Start(n, command)
    BY <1>4 DEF Started
  <2> DEFINE entry == [index |-> LastLogIndex(n) + 1, term |-> currentTerm[n], command |-> command]
  <2>3. logs'[n] = Append(logs[n], entry) /\ lastSnapshot'[n] = lastSnapshot[n]
    BY <2>2 DEF Start, IInv, TypeOK
  <2>4. logs[n] \in Seq(Entry) /\ entry \in Entry /\ lastSnapshot[n].index \in Nat
    <3>1. currentTerm[n] \in Nat /\ logs[n] \in Seq(Entry) /\ lastSnapshot[n] \in Snapshot
      BY DEF IInv, TypeOK
    <3> QED
      BY <1>1, <3>1 DEF Snapshot, Entry
  <2>5. Len(logs'[n]) = Len(logs[n]) + 1 /\ Len(logs[n]) \in Nat
    <3> HIDE DEF entry
    <3> QED
      BY <2>3, <2>4, AppendProperties, LenProperties
  <2>6. LastLogIndex(n)' = LastLogIndex(n) + 1
    <3>1. /\ LastLogIndex(n) = lastSnapshot[n].index + Len(logs[n])
          /\ LastLogIndex(n)' = lastSnapshot'[n].index + Len(logs'[n])
      BY LastLogIndexIs, LogStep DEF IInv
    <3>2. lastSnapshot'[n] = lastSnapshot[n]
      BY <2>3
    <3> HIDE DEF entry
    <3> QED
      BY <2>4, <2>5, <3>1, <3>2
  <2>7. e.index = LastLogIndex(n) + 1
    BY <1>4 DEF Started
  <2> QED
    BY <1>1, <1>2, <2>1, <2>6, <2>7
<1> QED
  BY <1>3, <1>4, StoredOrigin

\* A new entry differs from every stored one in its index or its term, and only
\* one is made at a time.
LEMMA UniquenessStep ==
  ASSUME IInv, IInv', VoteInv, EntriesOwned, EntryUniqueness, Next
  PROVE  EntryUniqueness'
<1> SUFFICES ASSUME NEW e \in Entry, NEW f \in Entry, Stored(e)', Stored(f)',
                    e.index = f.index, e.term = f.term
             PROVE  e.command = f.command
  BY UniquenessAfter DEF IInv, StoredUnique
<1>1. e.index \in Nat /\ f.index \in Nat
  BY DEF Entry
<1>2. CASE Stored(e) /\ Stored(f)
  BY <1>2, UniquenessOfStored DEF IInv, StoredUnique
<1>3. ASSUME NEW n \in Server, Started(n, e), Stored(f)
      PROVE  FALSE
  BY <1>1, <1>3, StartedIsNew
<1>4. ASSUME NEW n \in Server, Started(n, f), Stored(e)
      PROVE  FALSE
  BY <1>1, <1>4, StartedIsNew
<1>5. ASSUME NEW n \in Server, Started(n, e), ~Stored(e), NEW q \in Server, Started(q, f), ~Stored(f)
      PROVE  e.command = f.command
  <2>1. n = q
    BY <1>5, StartedIsNew, OneWinner DEF VoteInv, Entry
  <2>2. PICK c \in Command :
          /\ Start(n, c)
          /\ e = [index |-> LastLogIndex(n) + 1, term |-> currentTerm[n], command |-> c]
    BY <1>5 DEF Started
  <2>3. PICK d \in Command :
          /\ Start(n, d)
          /\ f = [index |-> LastLogIndex(n) + 1, term |-> currentTerm[n], command |-> d]
    BY <1>5, <2>1 DEF Started
  <2>4. logs'[n] = Append(logs[n], e) /\ logs'[n] = Append(logs[n], f) /\ logs[n] \in Seq(Entry)
    BY <2>2, <2>3 DEF Start, IInv, TypeOK
  <2>5. \A x \in Entry : Append(logs[n], x)[Len(logs[n]) + 1] = x
    BY <2>4, AppendProperties
  <2> QED
    BY <2>4, <2>5
<1> QED
  BY <1>2, <1>3, <1>4, <1>5, StoredOrigin

\* The invariant of entries is inductive.
LEMMA EntryInvStep ==
  ASSUME IInv, IInv', VoteInv, EntryInv, [Next]_vars
  PROVE  EntryInv'
<1>1. CASE Next
  BY <1>1, OwnedStep, UniquenessStep DEF EntryInv
<1>2. CASE UNCHANGED vars
  BY <1>2 DEF EntryInv, EntriesOwned, EntryUniqueness, Stored, Won, Majority, LastLogIndex, vars,
              durableVars, electionVars, appendCalls
<1> QED
  BY <1>1, <1>2

\* Every reachable state satisfies the invariant of entries.
THEOREM EntryInvariance == Spec => []EntryInv
<1>1. Init => EntryInv
  <2>1. ASSUME Init PROVE \A e : ~Stored(e)
    BY <2>1 DEF Init, Stored
  <2>2. ASSUME Init PROVE TypeOK
    BY <2>2, InitIInv DEF IInv
  <2> QED
    BY <2>1, <2>2, UniquenessOfStored DEF EntryInv, EntriesOwned, StoredUnique
<1>2. IInv /\ IInv' /\ VoteInv /\ EntryInv /\ [Next]_vars => EntryInv'
  BY EntryInvStep
<1> QED
  BY <1>1, <1>2, Invariance, VoteInvariance, PTL DEF Spec

\* An index and a term name one command, in every log and every call under way:
\* the assertion in AppendEntries1's loop can count on it.
THEOREM EntriesUnique == Spec => []EntryUniqueness
<1>1. EntryInv => EntryUniqueness
  BY DEF EntryInv
<1> QED
  BY <1>1, EntryInvariance, PTL

=============================================================================
