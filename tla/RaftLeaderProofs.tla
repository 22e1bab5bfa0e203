-------------------------- MODULE RaftLeaderProofs --------------------------
(***************************************************************************)
(* What a node does while it leads.  It wins a term once, so that the      *)
(* tables a leader keeps are never started again; and without snapshots,   *)
(* which this program never makes, no assertion of the class fails and     *)
(* what a leader commits is on a majority.                                 *)
(***************************************************************************)
EXTENDS RaftReplicationProofs

-----------------------------------------------------------------------------
(* A term is won once *)

SameBallot(m, q) == m.candidate = q.candidate /\ m.voter = q.voter /\ m.term = q.term

\* A voter whose answer to i in its present term has not been counted, and may be.
Pending(i, j) ==
  \/ \E m \in voteRequests : m.candidate = i /\ m.voter = j /\ m.term = currentTerm[i]
  \/ \E m \in voteReplies :
       m.voteGranted /\ m.candidate = i /\ m.voter = j /\ m.term = currentTerm[i]

Outstanding(i) == {j \in Server : Pending(i, j)}

\* A ballot is under way once, as a request or as a grant.
BallotsOnce ==
  /\ \A m, q \in voteRequests : SameBallot(m, q) => m = q
  /\ \A m \in voteRequests, q \in voteReplies : q.voteGranted => ~SameBallot(m, q)

\* No ballot is counted twice.
CountedOnce == \A i \in Server : \A j \in Outstanding(i) : j \notin votedNum[i]

\* The ballots that still come in cannot elect a leader again: *votedNum starts
\* from nothing after its reset.
NoSecondMajority ==
  \A i \in Server :
    status[i] = Leader => Cardinality(Outstanding(i) \cup votedNum[i]) < Majority

\* The inductive invariant of ballots.
BallotInv == BallotsOnce /\ CountedOnce /\ NoSecondMajority

\* What a step does to the ballots under way.
LEMMA BallotStep ==
  ASSUME TypeOK, Next
  PROVE  \/ UNCHANGED <<voteRequests, voteReplies>>
         \/ \E i \in Server :
              /\ DoElection(i) /\ voteReplies' = voteReplies
              /\ voteRequests' = voteRequests \cup
                   {[candidate |-> i, voter |-> j, term |-> currentTerm[i] + 1,
                     lastLogIndex |-> LastLogIndex(i), lastLogTerm |-> LastLogTerm(i)] :
                       j \in Server \ {i}}
         \/ \E q \in voteRequests, r \in VoteReply :
              /\ RequestVote(q)
              /\ voteRequests' = voteRequests \ {q} /\ voteReplies' = voteReplies \cup {r}
              /\ r.voteGranted => SameBallot(q, r)
         \/ \E m \in voteReplies :
              /\ SendRequestVote(m)
              /\ voteRequests' = voteRequests /\ voteReplies' = voteReplies \ {m}
<1>1. ASSUME NEW i \in Server, DoElection(i)
      PROVE  /\ voteReplies' = voteReplies
             /\ voteRequests' = voteRequests \cup
                  {[candidate |-> i, voter |-> j, term |-> currentTerm[i] + 1,
                    lastLogIndex |-> LastLogIndex(i), lastLogTerm |-> LastLogTerm(i)] :
                      j \in Server \ {i}}
  BY <1>1 DEF DoElection
<1>2. ASSUME NEW q \in voteRequests, RequestVote(q)
      PROVE  \E r \in VoteReply :
               /\ voteRequests' = voteRequests \ {q} /\ voteReplies' = voteReplies \cup {r}
               /\ r.voteGranted => SameBallot(q, r)
  <2>1. q \in VoteRequest /\ q.term \in Nat /\ currentTerm[q.voter] \in Nat
    BY DEF TypeOK, VoteRequest
  <2>2. \/ \E term \in Nat : AnswerVote(q, term, FALSE)
        \/ AnswerVote(q, q.term, TRUE)
    BY <1>2, <2>1 DEF RequestVote
  <2>3. ASSUME NEW term \in Nat, NEW granted \in BOOLEAN, AnswerVote(q, term, granted),
               granted => term = q.term
        PROVE  \E r \in VoteReply :
                 /\ voteRequests' = voteRequests \ {q} /\ voteReplies' = voteReplies \cup {r}
                 /\ r.voteGranted => SameBallot(q, r)
    <3> DEFINE r == [candidate |-> q.candidate, voter |-> q.voter, term |-> term,
                     voteGranted |-> granted]
    <3>1. r \in VoteReply
      BY <2>1 DEF VoteReply, VoteRequest
    <3>2. r.voteGranted => SameBallot(q, r)
      BY <2>3 DEF SameBallot
    <3>3. voteRequests' = voteRequests \ {q} /\ voteReplies' = voteReplies \cup {r}
      BY <2>3 DEF AnswerVote
    <3> QED
      BY <3>1, <3>2, <3>3
  <2> QED
    BY <2>1, <2>2, <2>3
<1>3. ASSUME NEW m \in voteReplies, SendRequestVote(m)
      PROVE  voteRequests' = voteRequests /\ voteReplies' = voteReplies \ {m}
  BY <1>3 DEF SendRequestVote
<1>4. CASE AppendNext
  BY <1>4 DEF AppendNext, DoHeartBeat, StartSome, Start, AppendEntries1, SendAppendEntries,
              LoseAppendCall, electionVars
<1>5. CASE ApplyNext
  BY <1>5 DEF ApplyNext, CollectApplyMsgs, PushApplyMsg, electionVars
<1>6. CASE SnapshotNext
  BY <1>6 DEF SnapshotNext, SnapshotDelivered, MakeSnapshot, LeaderSendSnapShot,
              InstallSnapshot, SnapshotToClosedPeer, SnapshotAnswered, LoseSnapshotCall,
              PushMsgToKvServer, electionVars
<1>7. CASE \E i \in Server : DoElection(i)
  BY <1>1, <1>7
<1>8. CASE \E q \in voteRequests : RequestVote(q)
  BY <1>2, <1>8
<1>9. CASE \E m \in voteReplies : SendRequestVote(m)
  BY <1>3, <1>9
<1> QED
  BY <1>4, <1>5, <1>6, <1>7, <1>8, <1>9 DEF Next, ElectionNext

\* Ballots are for a term that their candidate has reached.
LEMMA BallotTerms ==
  ASSUME TypeOK, VoteInv
  PROVE  /\ \A m \in voteRequests : /\ m.candidate \in Server /\ m.voter \in Server
                                    /\ m.term \in Nat /\ m.term <= currentTerm[m.candidate]
                                    /\ m.voter # m.candidate
         /\ \A m \in voteReplies : m.voteGranted =>
              /\ m.candidate \in Server /\ m.voter \in Server
              /\ m.term \in Nat /\ m.term <= currentTerm[m.candidate]
<1>1. ASSUME NEW c \in Server, NEW term \in Nat, <<c, term, c>> \in votes
      PROVE  term <= currentTerm[c]
  BY <1>1 DEF VoteInv, VotesRemembered
<1> QED
  BY <1>1 DEF TypeOK, VoteRequest, VoteReply, VoteInv, VoteCallsBacked

\* Ballots stay under way once.
LEMMA BallotsOnceStep ==
  ASSUME TypeOK, VoteInv, BallotsOnce, Next
  PROVE  BallotsOnce'
<1>1. CASE UNCHANGED <<voteRequests, voteReplies>>
  BY <1>1 DEF BallotsOnce
<1>2. ASSUME NEW i \in Server, voteReplies' = voteReplies,
             voteRequests' = voteRequests \cup
               {[candidate |-> i, voter |-> j, term |-> currentTerm[i] + 1,
                 lastLogIndex |-> LastLogIndex(i), lastLogTerm |-> LastLogTerm(i)] :
                   j \in Server \ {i}}
      PROVE  BallotsOnce'
  <2> DEFINE Ballot(j) == [candidate |-> i, voter |-> j, term |-> currentTerm[i] + 1,
                           lastLogIndex |-> LastLogIndex(i), lastLogTerm |-> LastLogTerm(i)]
  <2>1. \A m \in voteRequests' : m \in voteRequests \/ \E j \in Server : m = Ballot(j)
    BY <1>2
  <2>2. currentTerm[i] \in Nat
    BY DEF TypeOK
  <2>3. ASSUME NEW j \in Server
        PROVE  /\ Ballot(j).candidate = i /\ Ballot(j).term = currentTerm[i] + 1
               /\ Ballot(j).voter = j
    OBVIOUS
  <2>4. ASSUME NEW j \in Server, NEW m,
               m \in voteRequests \/ (m \in voteReplies /\ m.voteGranted)
        PROVE  ~SameBallot(Ballot(j), m) /\ ~SameBallot(m, Ballot(j))
    <3>1. m.candidate = i => m.term \in Nat /\ m.term <= currentTerm[i]
      BY <2>4, BallotTerms
    <3> HIDE DEF Ballot
    <3> QED
      BY <2>2, <2>3, <3>1 DEF SameBallot
  <2>5. ASSUME NEW j \in Server, NEW k \in Server, SameBallot(Ballot(j), Ballot(k))
        PROVE  Ballot(j) = Ballot(k)
    BY <2>5 DEF SameBallot
  <2> HIDE DEF Ballot
  <2>6. ASSUME NEW m \in voteRequests', NEW q \in voteRequests', SameBallot(m, q)
        PROVE  m = q
    <3>1. CASE m \in voteRequests /\ q \in voteRequests
      BY <2>6, <3>1 DEF BallotsOnce
    <3>2. CASE m \in voteRequests /\ \E j \in Server : q = Ballot(j)
      BY <2>4, <2>6, <3>2
    <3>3. CASE q \in voteRequests /\ \E j \in Server : m = Ballot(j)
      BY <2>4, <2>6, <3>3
    <3>4. CASE (\E j \in Server : m = Ballot(j)) /\ (\E k \in Server : q = Ballot(k))
      BY <2>5, <2>6, <3>4
    <3> QED
      BY <2>1, <3>1, <3>2, <3>3, <3>4
  <2>7. \A m \in voteRequests', q \in voteReplies' : q.voteGranted => ~SameBallot(m, q)
    BY <1>2, <2>1, <2>4 DEF BallotsOnce
  <2> QED
    BY <2>6, <2>7 DEF BallotsOnce, SameBallot
<1>3. ASSUME NEW q \in voteRequests, NEW r \in VoteReply,
             voteRequests' = voteRequests \ {q}, voteReplies' = voteReplies \cup {r},
             r.voteGranted => SameBallot(q, r)
      PROVE  BallotsOnce'
  BY <1>3 DEF BallotsOnce, SameBallot
<1>4. ASSUME NEW m \in voteReplies, voteRequests' = voteRequests, voteReplies' = voteReplies \ {m}
      PROVE  BallotsOnce'
  BY <1>4 DEF BallotsOnce, SameBallot
<1> QED
  BY <1>1, <1>2, <1>3, <1>4, BallotStep

\* Unless i stands, no ballot of its present term is added; one that is counted
\* is gone, and a larger term begins without any.
LEMMA OutstandingStep ==
  ASSUME TypeOK, TypeOK', VoteInv, BallotsOnce, Next, NEW i \in Server, ~DoElection(i)
  PROVE  /\ currentTerm'[i] # currentTerm[i] => Outstanding(i)' = {}
         /\ currentTerm'[i] = currentTerm[i] => Outstanding(i)' \subseteq Outstanding(i)
         /\ \A m \in voteReplies : Counted(m) /\ m.candidate = i =>
              m.voter \in Outstanding(i) /\ m.voter \notin Outstanding(i)'
<1>1. /\ currentTerm[i] \in Nat /\ currentTerm'[i] \in Nat /\ currentTerm'[i] >= currentTerm[i]
  BY TermsGrow
<1>2. ASSUME NEW j \in Server, Pending(i, j)'
      PROVE  currentTerm'[i] = currentTerm[i] /\ Pending(i, j)
  <2>1. CASE \E m \in voteRequests' : m.candidate = i /\ m.voter = j /\ m.term = currentTerm'[i]
    <3>1. PICK m \in voteRequests' : m.candidate = i /\ m.voter = j /\ m.term = currentTerm'[i]
      BY <2>1
    <3>2. m \in voteRequests
      BY <3>1, VoteCallOrigin
    <3>3. m.term <= currentTerm[i]
      BY <3>1, <3>2, BallotTerms
    <3> QED
      BY <1>1, <3>1, <3>2, <3>3 DEF Pending
  <2>2. CASE \E m \in voteReplies' :
               m.voteGranted /\ m.candidate = i /\ m.voter = j /\ m.term = currentTerm'[i]
    <3>1. PICK m \in voteReplies' :
            m.voteGranted /\ m.candidate = i /\ m.voter = j /\ m.term = currentTerm'[i]
      BY <2>2
    <3>2. \/ m \in voteReplies
          \/ \E q \in voteRequests : q.candidate = i /\ q.voter = j /\ q.term = m.term
      BY <3>1, VoteCallOrigin
    <3>3. m.term <= currentTerm[i]
      BY <3>1, <3>2, BallotTerms
    <3> QED
      BY <1>1, <3>1, <3>2, <3>3 DEF Pending
  <2> QED
    BY <1>2, <2>1, <2>2 DEF Pending
<1>3. ASSUME NEW m \in voteReplies, Counted(m), m.candidate = i
      PROVE  m.voter \in Outstanding(i) /\ m.voter \notin Outstanding(i)'
  <2>1. /\ m.voteGranted /\ m.term = currentTerm[i] /\ m.voter \in Server
        /\ voteRequests' = voteRequests /\ voteReplies' = voteReplies \ {m}
    BY <1>3 DEF Counted, SendRequestVote, TypeOK, VoteReply
  <2>2. m.voter \in Outstanding(i)
    BY <1>3, <2>1 DEF Outstanding, Pending
  <2>3. ASSUME Pending(i, m.voter)'
        PROVE  FALSE
    <3>1. currentTerm'[i] = currentTerm[i]
      BY <1>2, <2>1, <2>3
    <3>2. ASSUME NEW q \in voteRequests, q.candidate = i, q.voter = m.voter,
                 q.term = currentTerm[i]
          PROVE  FALSE
      BY <1>3, <2>1, <3>2 DEF BallotsOnce, SameBallot
    <3>3. ASSUME NEW q \in voteReplies, q # m, q.voteGranted, q.candidate = i,
                 q.voter = m.voter, q.term = currentTerm[i]
          PROVE  FALSE
      <4>1. q \in VoteReply /\ m \in VoteReply
        BY DEF TypeOK
      <4>2. q = m
        BY <1>3, <2>1, <3>3, <4>1 DEF VoteReply
      <4> QED
        BY <3>3, <4>2
    <3> QED
      BY <2>1, <2>3, <3>1, <3>2, <3>3 DEF Pending
  <2> QED
    BY <2>2, <2>3 DEF Outstanding
<1> QED
  BY <1>2, <1>3 DEF Outstanding

\* No step counts a ballot twice.
LEMMA CountedOnceStep ==
  ASSUME TypeOK, TypeOK', VoteInv, BallotsOnce, CountedOnce, Next
  PROVE  CountedOnce'
<1> SUFFICES ASSUME NEW i \in Server, NEW j \in Outstanding(i)'
             PROVE  j \notin votedNum'[i]
  BY DEF CountedOnce
<1>1. CASE DoElection(i)
  <2>1. votedNum'[i] = {i} /\ currentTerm'[i] = currentTerm[i] + 1 /\ voteReplies' = voteReplies
    BY <1>1 DEF DoElection, TypeOK
  <2>2. currentTerm[i] \in Nat
    BY DEF TypeOK
  <2>3. \A m \in voteReplies' : m.voteGranted /\ m.candidate = i => m.term # currentTerm'[i]
    BY <2>1, <2>2, BallotTerms
  <2>4. \A m \in voteRequests' : m.voter # m.candidate
    BY BallotTerms, VoteCallOrigin
  <2> QED
    BY <2>1, <2>3, <2>4 DEF Outstanding, Pending
<1>2. CASE ~DoElection(i)
  <2>1. j \in Outstanding(i)
    BY <1>2, OutstandingStep
  <2>2. ASSUME NEW m \in voteReplies, Counted(m), m.candidate = i
        PROVE  j # m.voter
    BY <1>2, <2>2, OutstandingStep
  <2> QED
    BY <1>2, <2>1, <2>2, TallyStep DEF CountedOnce
<1> QED
  BY <1>1, <1>2

\* A majority that has just been counted leaves less than a majority to count.
LEMMA NoSecondMajorityStep ==
  ASSUME TypeOK, TypeOK', VoteInv, BallotInv, Next
  PROVE  NoSecondMajority'
<1> SUFFICES ASSUME NEW i \in Server, status'[i] = Leader
             PROVE  Cardinality((Outstanding(i) \cup votedNum[i])') < Majority
  BY DEF NoSecondMajority
<1>1. ~DoElection(i)
  BY DEF DoElection, TypeOK, Candidate, Leader
<1>2. votedNum[i] \in SUBSET Server /\ votedNum'[i] \in SUBSET Server
  BY DEF TypeOK
<1>3. Outstanding(i) \in SUBSET Server /\ Outstanding(i)' \in SUBSET Server
  BY DEF Outstanding
<1>4. \A S \in SUBSET Server : IsFiniteSet(S) /\ Cardinality(S) \in Nat
  BY ServerAssumption, FS_Subset, FS_CardinalityType
<1>5. Majority \in Int
  BY <1>4 DEF Majority
<1>6. CASE status[i] = Leader
  <2>1. currentTerm'[i] = currentTerm[i]
    BY <1>6, LeaderTermStays
  <2>2. Outstanding(i)' \subseteq Outstanding(i)
    BY <1>1, <2>1, OutstandingStep DEF BallotInv
  <2>3. votedNum'[i] \subseteq Outstanding(i) \cup votedNum[i]
    BY <1>1, TallyStep, OutstandingStep DEF BallotInv
  <2>4. (Outstanding(i) \cup votedNum[i])' \subseteq Outstanding(i) \cup votedNum[i]
    BY <2>2, <2>3
  <2>5. Cardinality((Outstanding(i) \cup votedNum[i])') <= Cardinality(Outstanding(i) \cup votedNum[i])
    BY <1>2, <1>3, <1>4, <2>4, FS_Subset
  <2>6. Cardinality(Outstanding(i) \cup votedNum[i]) < Majority
    BY <1>6 DEF BallotInv, NoSecondMajority
  <2>7. /\ Cardinality(Outstanding(i) \cup votedNum[i]) \in Nat
        /\ Cardinality((Outstanding(i) \cup votedNum[i])') \in Nat
    BY <1>2, <1>3, <1>4
  <2> DEFINE then == Cardinality((Outstanding(i) \cup votedNum[i])')
             now == Cardinality(Outstanding(i) \cup votedNum[i])
  <2> HIDE DEF then, now
  <2>8. then < Majority
    BY <1>5, <2>5, <2>6, <2>7 DEF then, now
  <2> QED
    BY <2>8 DEF then, Majority
<1>7. CASE status[i] # Leader
  <2>1. PICK m \in voteReplies : /\ Counted(m) /\ m.candidate = i
                                 /\ Cardinality(votedNum[i] \cup {m.voter}) >= Majority
                                 /\ UNCHANGED currentTerm
    BY <1>7, LeaderStep
  <2> DEFINE counted == votedNum[i] \cup {m.voter}
  <2>2. m.voter \in Server /\ counted \in SUBSET Server
    <3>1. m \in VoteReply
      BY DEF TypeOK
    <3> QED
      BY <1>2, <3>1 DEF VoteReply
  <2>3. ~(Cardinality(counted) < Majority)
    BY <1>4, <1>5, <2>1, <2>2
  <2>4. BecomeLeader(i)
    <3>1. /\ SendRequestVote(m) /\ m.candidate = i
          /\ ~(m.term > currentTerm[i]) /\ ~(m.term < currentTerm[i]) /\ m.voteGranted
      BY <2>1 DEF Counted, TypeOK
    <3> QED
      BY <2>3, <3>1 DEF SendRequestVote
  <2>5. votedNum'[i] = {}
    BY <2>4 DEF BecomeLeader, TypeOK
  <2>6. Outstanding(i)' \cap counted = {}
    <3>1. Outstanding(i)' \subseteq Outstanding(i) /\ m.voter \notin Outstanding(i)'
      BY <1>1, <2>1, OutstandingStep DEF BallotInv
    <3> QED
      BY <3>1 DEF BallotInv, CountedOnce
  <2>7. ~(Cardinality(Outstanding(i)') >= Majority)
    BY <1>3, <2>1, <2>2, <2>6, MajoritiesMeet
  <2>8. (Outstanding(i) \cup votedNum[i])' = Outstanding(i)'
    BY <2>5
  <2> QED
    BY <1>3, <1>4, <1>5, <2>7, <2>8
<1> QED
  BY <1>6, <1>7

\* The invariant of ballots holds of every reachable state.
THEOREM BallotInvariance == Spec => []BallotInv
<1>1. Init => BallotInv
  <2>1. Init => status \in [Server -> {Follower}] /\ Follower # Leader
    BY DEF Init, Follower, Leader
  <2> QED
    BY <2>1 DEF Init, BallotInv, BallotsOnce, CountedOnce, NoSecondMajority, Outstanding, Pending
<1>2. TypeOK /\ TypeOK' /\ VoteInv /\ BallotInv /\ [Next]_vars => BallotInv'
  <2>1. CASE Next
    BY <2>1, BallotsOnceStep, CountedOnceStep, NoSecondMajorityStep DEF BallotInv
  <2>2. CASE UNCHANGED vars
    BY <2>2 DEF vars, durableVars, electionVars, BallotInv, BallotsOnce, CountedOnce,
                NoSecondMajority, Outstanding, Pending, SameBallot
  <2> QED
    BY <2>1, <2>2
<1> QED
  BY <1>1, <1>2, TypeCorrect, VoteInvariance, PTL DEF Spec

\* Whoever leads does not become leader again.
LEMMA WinsOnce ==
  ASSUME TypeOK, VoteInv, BallotInv, NEW m \in voteReplies, SendRequestVote(m),
         status[m.candidate] = Leader
  PROVE  UNCHANGED <<up, nextIndex, matchIndex>>
<1> DEFINE i == m.candidate
           counted == votedNum[i] \cup {m.voter}
<1>1. i \in Server /\ m.voter \in Server /\ m.term \in Nat /\ currentTerm[i] \in Nat
  BY DEF TypeOK, VoteReply
<1>2. ASSUME m.voteGranted, m.term = currentTerm[i]
      PROVE  ~(Cardinality(counted) >= Majority)
  <2>1. m.voter \in Outstanding(i)
    BY <1>1, <1>2 DEF Outstanding, Pending
  <2>2. counted \subseteq Outstanding(i) \cup votedNum[i]
    BY <2>1
  <2>3. Outstanding(i) \cup votedNum[i] \in SUBSET Server /\ counted \in SUBSET Server
    BY <1>1 DEF Outstanding, TypeOK
  <2>4. /\ IsFiniteSet(Outstanding(i) \cup votedNum[i])
        /\ Cardinality(Outstanding(i) \cup votedNum[i]) \in Nat
        /\ Cardinality(counted) \in Nat /\ Cardinality(Server) \in Nat
    BY <2>3, ServerAssumption, FS_Subset, FS_CardinalityType
  <2>5. Cardinality(counted) <= Cardinality(Outstanding(i) \cup votedNum[i])
    BY <2>2, <2>4, FS_Subset
  <2>6. Cardinality(Outstanding(i) \cup votedNum[i]) < Majority
    BY <1>1 DEF BallotInv, NoSecondMajority
  <2>7. Majority \in Int
    BY <2>4 DEF Majority
  <2> HIDE DEF counted
  <2> QED
    BY <2>4, <2>5, <2>6, <2>7
<1> QED
  BY <1>2 DEF SendRequestVote

\* No answer to a vote ends a process: the assertion of sendRequestVote, that the
\* node does not lead yet, never fails.
THEOREM LeadsOnce == Spec => [][\A m \in voteReplies : SendRequestVote(m) => UNCHANGED up]_vars
<1>1. ASSUME TypeOK, VoteInv, BallotInv, NEW m \in voteReplies, SendRequestVote(m)
      PROVE  up' = up
  <2>1. CASE status[m.candidate] = Leader
    BY <1>1, <2>1, WinsOnce
  <2>2. CASE status[m.candidate] # Leader /\ BecomeLeader(m.candidate)
    <3>1. m.candidate \in Server /\ up[m.candidate]
      BY <1>1 DEF TypeOK, VoteReply, SendRequestVote
    <3>2. up' = [up EXCEPT ![m.candidate] = TRUE]
      BY <2>2 DEF BecomeLeader, Asserts
    <3> QED
      BY <1>1, <3>1, <3>2 DEF TypeOK
  <2> QED
    BY <1>1, <2>1, <2>2 DEF SendRequestVote
<1>2. TypeOK /\ VoteInv /\ BallotInv /\ [Next]_vars
        => [\A m \in voteReplies : SendRequestVote(m) => UNCHANGED up]_vars
  BY <1>1
<1> QED
  BY <1>2, TypeCorrect, VoteInvariance, BallotInvariance, PTL DEF Spec

-----------------------------------------------------------------------------
(* Without snapshots *)

\* No snapshot was made, sent or installed.
NoSnapshots ==
  /\ \A i \in Server : lastSnapshot[i] = [index |-> 0, term |-> 0]
  /\ snapshotThreads = {} /\ snapshotRequests = {} /\ snapshotReplies = {}

\* Leaders send from the first entry on, and no hint asks for less.
FirstIndexes ==
  /\ \A i \in Server : status[i] = Leader => \A j \in Server : nextIndex[i][j] >= 1
  /\ \A m \in appendRequests : m.prevLogIndex = 0 => m.prevLogTerm = 0
  /\ \A m \in appendReplies : m.updateNextIndex # NoHint => m.updateNextIndex >= 1

\* The inductive invariant of assertions.
AssertInv == NoSnapshots /\ FirstIndexes /\ NoAssertionFails

\* Without snapshots no node is behind one.
LEMMA NoneBehind ==
  ASSUME TypeOK, NoSnapshots, FirstIndexes, NEW i \in Server, status[i] = Leader, NEW j \in Server
  PROVE  ~BehindSnapshot(i, j)
<1>1. lastSnapshot[i].index = 0 /\ nextIndex[i][j] \in Nat /\ nextIndex[i][j] >= 1
  BY DEF TypeOK, NoSnapshots, FirstIndexes
<1> QED
  BY <1>1 DEF BehindSnapshot

\* No step makes a snapshot, or starts to send one.
LEMMA NoSnapshotsStep ==
  ASSUME SnapshotIndexes = {}, TypeOK, NoSnapshots, FirstIndexes, Next
  PROVE  NoSnapshots'
<1> USE DEF NoSnapshots
<1>1. ASSUME NEW i \in Server, DoHeartBeat(i)
      PROVE  NoSnapshots'
  <2>1. {j \in Server \ {i} : BehindSnapshot(i, j)} = {}
    BY <1>1, NoneBehind DEF DoHeartBeat
  <2>2. snapshotThreads' = snapshotThreads
    <3>1. \E r \in Rounds : snapshotThreads' = snapshotThreads \cup
            {[leader |-> i, follower |-> j, round |-> r] :
               j \in {j \in Server \ {i} : BehindSnapshot(i, j)}}
      BY <1>1 DEF DoHeartBeat
    <3> QED
      BY <2>1, <3>1
  <2> QED
    BY <1>1, <2>2 DEF DoHeartBeat, durableVars
<1>2. CASE ElectionNext
  BY <1>2 DEF ElectionNext, DoElection, RequestVote, SendRequestVote, BecomeLeader, snapCalls,
              durableVars
<1>3. CASE AppendNext
  BY <1>1, <1>3 DEF AppendNext, StartSome, Start, AppendEntries1, SendAppendEntries,
              LoseAppendCall, snapCalls, durableVars
<1>4. CASE ApplyNext
  BY <1>4 DEF ApplyNext, CollectApplyMsgs, PushApplyMsg, snapCalls, durableVars
<1>5. CASE SnapshotNext
  BY <1>5 DEF SnapshotNext, SnapshotDelivered, PushMsgToKvServer, snapCalls, durableVars
<1> QED
  BY <1>2, <1>3, <1>4, <1>5 DEF Next

\* Where the nextIndex of a leader comes from.
LEMMA NextOrigin ==
  ASSUME TypeOK, Next, NEW i \in Server, NEW j \in Server, status'[i] = Leader,
         snapshotReplies = {}
  PROVE  \/ nextIndex'[i][j] = LastLogIndex(i) + 1
         \/ status[i] = Leader /\ nextIndex'[i][j] = nextIndex[i][j]
         \/ \E m \in appendReplies :
              /\ m.leader = i /\ m.follower = j
              /\ \/ nextIndex'[i][j] = MatchAfter(i, m) + 1
                 \/ m.updateNextIndex # NoHint /\ nextIndex'[i][j] = m.updateNextIndex
<1>1. nextIndex \in [Server -> [Server -> Nat]]
  BY DEF TypeOK
<1>2. CASE status[i] # Leader
  <2>1. PICK m \in voteReplies : BecomeLeader(i)
    BY <1>2, NewLeader
  <2> QED
    BY <1>1, <2>1 DEF BecomeLeader
<1> DEFINE Origin == \/ nextIndex'[i][j] = LastLogIndex(i) + 1
                     \/ nextIndex'[i][j] = nextIndex[i][j]
                     \/ \E m \in appendReplies :
                          /\ m.leader = i /\ m.follower = j
                          /\ \/ nextIndex'[i][j] = MatchAfter(i, m) + 1
                             \/ m.updateNextIndex # NoHint /\ nextIndex'[i][j] = m.updateNextIndex
<1>3. ASSUME UNCHANGED nextIndex
      PROVE  Origin
  BY <1>3
<1>4. ASSUME NEW m \in voteReplies, SendRequestVote(m)
      PROVE  Origin
  <2>1. \/ UNCHANGED nextIndex
        \/ nextIndex' = [nextIndex EXCEPT ![m.candidate] =
                           [n \in Server |-> LastLogIndex(m.candidate) + 1]]
    BY <1>4 DEF SendRequestVote, BecomeLeader
  <2> QED
    BY <1>1, <2>1
<1>5. ASSUME NEW m \in appendReplies, SendAppendEntries(m)
      PROVE  Origin
  <2>1. m.leader \in Server /\ m.follower \in Server
    BY DEF TypeOK, AppendReply
  <2>2. \/ UNCHANGED nextIndex
        \/ nextIndex' = [nextIndex EXCEPT ![m.leader][m.follower] = MatchAfter(m.leader, m) + 1]
        \/ /\ m.updateNextIndex # NoHint
           /\ nextIndex' = [nextIndex EXCEPT ![m.leader][m.follower] = m.updateNextIndex]
    BY <1>5 DEF SendAppendEntries, Acknowledged
  <2>3. CASE m.leader = i /\ m.follower = j
    BY <1>1, <2>2, <2>3
  <2>4. CASE ~(m.leader = i /\ m.follower = j)
    <3>1. nextIndex'[i][j] = nextIndex[i][j]
      BY <1>1, <2>1, <2>2, <2>4
    <3> QED
      BY <3>1
  <2> QED
    BY <2>3, <2>4
<1>6. CASE ElectionNext
  BY <1>2, <1>3, <1>4, <1>6 DEF ElectionNext, DoElection, RequestVote, leaderVars
<1>7. CASE AppendNext
  BY <1>2, <1>3, <1>5, <1>7 DEF AppendNext, DoHeartBeat, StartSome, Start, AppendEntries1,
                          LoseAppendCall, leaderVars
<1>8. CASE ApplyNext
  BY <1>2, <1>3, <1>8 DEF ApplyNext, CollectApplyMsgs, PushApplyMsg, leaderVars
<1>9. CASE SnapshotNext
  BY <1>2, <1>3, <1>9 DEF SnapshotNext, SnapshotDelivered, MakeSnapshot, LeaderSendSnapShot,
              InstallSnapshot, SnapshotToClosedPeer, LoseSnapshotCall, PushMsgToKvServer,
              leaderVars
<1> QED
  BY <1>6, <1>7, <1>8, <1>9 DEF Next

\* A node that refuses a previous entry does not ask for what is before the first:
\* index 0 has the same term everywhere.
LEMMA HintsPositive ==
  ASSUME IInv, NoSnapshots, FirstIndexes, Next, NEW m \in appendReplies',
         m.updateNextIndex # NoHint
  PROVE  m.updateNextIndex >= 1
<1>1. CASE m \in appendReplies
  BY <1>1 DEF FirstIndexes
<1>2. ASSUME NEW q \in appendRequests, AppendEntries1(q), m \notin appendReplies
      PROVE  m.updateNextIndex >= 1
  <2> DEFINE i == q.follower
             prev == q.prevLogIndex
  <2>1. i \in Server /\ prev \in Nat
    BY DEF IInv, TypeOK, AppendRequest
  <2>2. \/ m.updateNextIndex = NoHint
        \/ m.updateNextIndex = LastLogIndex(i) + 1
        \/ ~Matches(i, q) /\ m.updateNextIndex = ConflictIndex(i, prev)
    <3>1. ASSUME NEW term, NEW success, NEW hint, AnswerAppend(q, term, success, hint)
          PROVE  m.updateNextIndex = hint
      BY <1>2, <3>1 DEF AnswerAppend
    <3>2. \/ \E term, success : AnswerAppend(q, term, success, NoHint)
          \/ AnswerAppend(q, q.term, FALSE, LastLogIndex(i) + 1)
          \/ ~Matches(i, q) /\ AnswerAppend(q, q.term, FALSE, ConflictIndex(i, prev))
      BY <1>2 DEF AppendEntries1, AcceptEntries, RejectEntries, PrevInsideSnapshot
    <3> QED
      BY <3>1, <3>2
  <2>3. LastLogIndex(i) \in Nat
    BY <2>1, LastLogIndexIs DEF IInv
  <2>4. lastSnapshot[i].index = 0 /\ lastSnapshot[i].term = 0
    BY <2>1 DEF NoSnapshots
  <2>5. ASSUME ~Matches(i, q)
        PROVE  ConflictIndex(i, prev) >= 1
    <3>1. prev >= 1
      <4>1. prev = 0 => q.prevLogTerm = 0
        BY DEF FirstIndexes
      <4>2. prev = 0 => LogTermAt(i, prev) = 0
        BY <2>4 DEF LogTermAt
      <4> QED
        BY <2>1, <2>5, <4>1, <4>2 DEF Matches
    <3> DEFINE other == {k \in lastSnapshot[i].index .. prev : LogTermAt(i, k) # LogTermAt(i, prev)}
               top == CHOOSE k \in other : \A l \in other : l <= k
    <3>2. CASE other = {}
      BY <3>1, <3>2 DEF ConflictIndex
    <3>3. CASE other # {}
      <4>1. \A k \in other : k \in Nat /\ k <= prev
        BY <2>1, <2>4
      <4>2. \E k \in other : \A l \in other : l <= k
        <5>1. other \subseteq Nat /\ \A k \in other : k <= prev
          BY <4>1
        <5> HIDE DEF other
        <5> QED
          BY <2>1, <3>3, <5>1, LargestOf
      <4>3. top \in other
        BY <4>2
      <4>4. ConflictIndex(i, prev) = top + 1
        BY <3>3 DEF ConflictIndex
      <4> QED
        BY <4>1, <4>3, <4>4
    <3> QED
      BY <3>2, <3>3
  <2> QED
    BY <1>2, <2>2, <2>3, <2>5
<1>3. CASE appendReplies' \subseteq appendReplies
  BY <1>1, <1>3
<1>4. CASE ElectionNext
  BY <1>3, <1>4 DEF ElectionNext, DoElection, RequestVote, SendRequestVote, appendCalls
<1>5. CASE AppendNext
  BY <1>1, <1>2, <1>3, <1>5 DEF AppendNext, DoHeartBeat, StartSome, Start, SendAppendEntries,
              LoseAppendCall, appendCalls
<1>6. CASE ApplyNext
  BY <1>3, <1>6 DEF ApplyNext, CollectApplyMsgs, PushApplyMsg, appendCalls
<1>7. CASE SnapshotNext
  BY <1>3, <1>7 DEF SnapshotNext, SnapshotDelivered, MakeSnapshot, LeaderSendSnapShot,
              InstallSnapshot, SnapshotToClosedPeer, SnapshotAnswered, LoseSnapshotCall,
              PushMsgToKvServer, appendCalls
<1> QED
  BY <1>4, <1>5, <1>6, <1>7 DEF Next

\* Leaders go on sending from the first entry on.
LEMMA FirstIndexesStep ==
  ASSUME IInv, NoSnapshots, FirstIndexes, Next
  PROVE  FirstIndexes'
<1>1. ASSUME NEW i \in Server, status'[i] = Leader, NEW j \in Server
      PROVE  nextIndex'[i][j] >= 1
  <2>1. LastLogIndex(i) \in Nat
    BY LastLogIndexIs DEF IInv
  <2>2. status[i] = Leader => nextIndex[i][j] >= 1
    BY DEF FirstIndexes
  <2>3. ASSUME NEW m \in appendReplies, m.leader = i, m.follower = j
        PROVE  MatchAfter(i, m) + 1 >= 1 /\ (m.updateNextIndex # NoHint => m.updateNextIndex >= 1)
    <3>1. m.upTo \in Nat /\ matchIndex[i][m.follower] \in Nat
      BY <2>3 DEF IInv, TypeOK, AppendReply
    <3>2. MatchAfter(i, m) \in Nat
      BY <3>1 DEF MatchAfter, Larger
    <3> QED
      BY <3>2 DEF FirstIndexes
  <2>4. TypeOK /\ snapshotReplies = {}
    BY DEF IInv, NoSnapshots
  <2> QED
    BY <1>1, <2>1, <2>2, <2>3, <2>4, NextOrigin
<1>2. ASSUME NEW m \in appendRequests', m.prevLogIndex = 0
      PROVE  m.prevLogTerm = 0
  <2>1. CASE m \in appendRequests
    BY <1>2, <2>1 DEF FirstIndexes
  <2>2. ASSUME NEW i \in Server, NEW j \in Server, NEW r \in Rounds, m = AppendCall(i, j, r)
        PROVE  m.prevLogTerm = 0
    <3>1. m.prevLogTerm = LogTermAt(i, m.prevLogIndex)
      BY <2>2 DEF AppendCall
    <3>2. lastSnapshot[i].index = 0 /\ lastSnapshot[i].term = 0
      BY DEF NoSnapshots
    <3> QED
      BY <1>2, <3>1, <3>2 DEF LogTermAt
  <2> QED
    BY <2>1, <2>2, AppendRequestOrigin
<1>3. \A m \in appendReplies' : m.updateNextIndex # NoHint => m.updateNextIndex >= 1
  BY HintsPositive
<1> QED
  BY <1>1, <1>2, <1>3 DEF FirstIndexes

\* The assertion of the merge loop holds.
LEMMA SameCommandsHold ==
  ASSUME IInv, EntryUniqueness, NEW m \in appendRequests, NEW i \in Server
  PROVE  SameCommands(i, m.prevLogIndex, m.entries)
<1>1. /\ m \in AppendRequest /\ m.prevLogIndex \in Nat /\ m.entries \in Seq(Entry)
      /\ logs[i] \in Seq(Entry) /\ lastSnapshot[i].index \in Nat
  BY DEF IInv, TypeOK, AppendRequest, Snapshot
<1>2. /\ DOMAIN m.entries = 1 .. Len(m.entries) /\ \A k \in DOMAIN m.entries : m.entries[k] \in Entry
      /\ DOMAIN logs[i] = 1 .. Len(logs[i]) /\ \A p \in DOMAIN logs[i] : logs[i][p] \in Entry
  BY <1>1, LenProperties, ElementOfSeq
<1>3. StoredUnique
  BY UniquenessOfStored DEF IInv
<1>4. ASSUME NEW k \in DOMAIN m.entries,
             Slice(i, m.prevLogIndex) + k \in DOMAIN logs[i],
             logs[i][Slice(i, m.prevLogIndex) + k].term = m.entries[k].term
      PROVE  logs[i][Slice(i, m.prevLogIndex) + k].command = m.entries[k].command
  <2> DEFINE p == Slice(i, m.prevLogIndex) + k
  <2>1. k \in Int /\ p \in Int /\ lastSnapshot[i].index + p = m.prevLogIndex + k
    BY <1>1, <1>2 DEF Slice
  <2>2. logs[i][p].index = lastSnapshot[i].index + p /\ m.entries[k].index = m.prevLogIndex + k
    BY <1>4 DEF IInv, Contiguous
  <2>3. Stored(logs[i][p]) /\ Stored(m.entries[k])
    BY <1>4 DEF Stored
  <2> HIDE DEF p
  <2>4. logs[i][p].index = m.entries[k].index
    BY <2>1, <2>2
  <2> QED
    BY <1>2, <1>3, <1>4, <2>3, <2>4 DEF StoredUnique, p
<1> QED
  BY <1>4 DEF SameCommands

\* An assertion that holds ends nothing.
LEMMA Survives ==
  ASSUME TypeOK, NoAssertionFails, NEW i \in Server, NEW c, c, Asserts(i, c)
  PROVE  NoAssertionFails'
<1>1. \A j \in Server : up'[j] = up[j] \/ up'[j] = c
  BY DEF Asserts, TypeOK
<1> QED
  BY <1>1 DEF NoAssertionFails

\* doHeartBeat: nextIndex has an entry before it, inside the log.
LEMMA HeartBeatSurvives ==
  ASSUME IInv, NoSnapshots, FirstIndexes, NoAssertionFails, NEW i \in Server, DoHeartBeat(i)
  PROVE  NoAssertionFails'
<1> DEFINE peers == Server \ {i}
           current == {j \in peers : ~BehindSnapshot(i, j)}
           fine == /\ \A j \in peers : nextIndex[i][j] >= 1
                   /\ \A j \in current : InLog(i, PrevLogIndex(i, j))
<1>1. status[i] = Leader /\ Asserts(i, fine)
  BY DEF DoHeartBeat
<1>2. ASSUME NEW j \in Server
      PROVE  nextIndex[i][j] >= 1 /\ InLog(i, PrevLogIndex(i, j))
  <2>1. /\ nextIndex[i][j] \in Nat /\ nextIndex[i][j] >= 1
        /\ nextIndex[i][j] <= LastLogIndex(i) + 1 /\ LastLogIndex(i) \in Nat
        /\ lastSnapshot[i].index = 0
    <3>1. lastSnapshot[i].index = 0
      BY DEF NoSnapshots
    <3>2. nextIndex[i][j] \in Nat /\ LastLogIndex(i) \in Nat
      BY LastLogIndexIs DEF IInv, TypeOK
    <3> QED
      BY <1>1, <3>1, <3>2 DEF IInv, IndexBounds, FirstIndexes
  <2> QED
    BY <2>1 DEF InLog, PrevLogIndex
<1>3. fine
  BY <1>2
<1> HIDE DEF fine
<1> QED
  BY <1>1, <1>3, Survives DEF IInv

\* AppendEntries1: entries of the same index and term are the same, and the log
\* reaches what was sent and what is committed.
LEMMA AppendSurvives ==
  ASSUME IInv, EntryUniqueness, NoSnapshots, NoAssertionFails, Next,
         NEW m \in appendRequests, AppendEntries1(m)
  PROVE  NoAssertionFails'
<1> DEFINE i == m.follower
<1>1. i \in Server /\ m.prevLogIndex \in Nat /\ lastSnapshot[i].index = 0
  <2>1. i \in Server /\ m.prevLogIndex \in Nat
    BY DEF IInv, TypeOK, AppendRequest
  <2>2. lastSnapshot[i].index = 0
    BY <2>1 DEF NoSnapshots
  <2> QED
    BY <2>1, <2>2
<1>2. ~PrevInsideSnapshot(i, m)
  <2>1. ~(m.prevLogIndex < lastSnapshot[i].index)
    BY <1>1
  <2> QED
    BY <2>1 DEF PrevInsideSnapshot
<1>3. CASE UNCHANGED up
  BY <1>3 DEF NoAssertionFails
<1>4. CASE AcceptEntries(i, m) /\ m.term >= currentTerm[i]
  <2> DEFINE fine == /\ SameCommands(i, m.prevLogIndex, m.entries)
                     /\ LastLogIndex(i)' >= m.prevLogIndex + Len(m.entries)
                     /\ LastLogIndex(i)' >= commitIndex'[i]
  <2>1. Asserts(i, fine)
    BY <1>4 DEF AcceptEntries
  <2>2. SameCommands(i, m.prevLogIndex, m.entries)
    BY <1>1, SameCommandsHold
  <2>3. LastLogIndex(i)' >= m.prevLogIndex + Len(m.entries)
    BY <1>1, <1>4, LogMerged DEF Takes
  <2>4. LastLogIndex(i)' >= commitIndex'[i]
    <3>1. commitIndex'[i] <= LastLogIndex(i)'
      BY <1>1, AppliedStep
    <3> QED
      BY <3>1
  <2>5. fine
    BY <2>2, <2>3, <2>4
  <2> HIDE DEF fine
  <2> QED
    BY <1>1, <2>1, <2>5, Survives DEF IInv
<1> QED
  BY <1>2, <1>3, <1>4 DEF AppendEntries1, RejectEntries

\* sendAppendEntries: what was acknowledged, and is committed, is in the log.
LEMMA AnswerSurvives ==
  ASSUME IInv, NoAssertionFails, Next, NEW m \in appendReplies, SendAppendEntries(m)
  PROVE  NoAssertionFails'
<1> DEFINE i == m.leader
           match == MatchAfter(i, m)
           fine == match <= LastLogIndex(i) /\ commitIndex'[i] <= LastLogIndex(i)
<1>1. i \in Server /\ m.follower \in Server
  BY DEF IInv, TypeOK, AppendReply
<1>2. CASE UNCHANGED up
  BY <1>2 DEF NoAssertionFails
<1>3. CASE Acknowledged(i, m)
  <2>1. Asserts(i, fine) /\ matchIndex' = [matchIndex EXCEPT ![i][m.follower] = match]
    BY <1>3 DEF Acknowledged
  <2>2. match <= LastLogIndex(i)
    <3>1. matchIndex'[i][m.follower] = match
      BY <1>1, <2>1 DEF IInv, TypeOK
    <3> QED
      BY <1>1, <3>1, IndexTableOrigin
  <2>3. commitIndex'[i] <= LastLogIndex(i)
    <3>1. UNCHANGED <<logs, lastSnapshot>>
      BY DEF SendAppendEntries
    <3>2. LastLogIndex(i)' = LastLogIndex(i)
      BY <3>1 DEF LastLogIndex
    <3> QED
      BY <1>1, <3>2, AppliedStep
  <2>4. fine
    BY <2>2, <2>3
  <2> HIDE DEF fine
  <2> QED
    BY <1>1, <2>1, <2>4, Survives DEF IInv
<1> QED
  BY <1>2, <1>3 DEF SendAppendEntries

\* getApplyLogs: what is committed is in the log, at its place.
LEMMA CollectSurvives ==
  ASSUME IInv, NoAssertionFails, NEW i \in Server, CollectApplyMsgs(i)
  PROVE  NoAssertionFails'
<1> DEFINE fine == /\ commitIndex[i] <= LastLogIndex(i)
                   /\ \A p \in ToApply(i) : logs[i][p].index = lastSnapshot[i].index + p
<1>1. Asserts(i, fine)
  BY DEF CollectApplyMsgs
<1>2. /\ lastApplied[i] \in Nat /\ commitIndex[i] \in Nat /\ lastSnapshot[i].index \in Nat
      /\ lastSnapshot[i].index <= lastApplied[i] /\ commitIndex[i] <= LastLogIndex(i)
      /\ LastLogIndex(i) = lastSnapshot[i].index + Len(logs[i]) /\ Len(logs[i]) \in Nat
      /\ DOMAIN logs[i] = 1 .. Len(logs[i])
  BY LastLogIndexIs, LenProperties DEF IInv, TypeOK, Snapshot, IndexBounds, CommitWithinLog
<1>3. ASSUME NEW p \in ToApply(i)
      PROVE  logs[i][p].index = lastSnapshot[i].index + p
  <2>1. p \in DOMAIN logs[i]
    BY <1>2 DEF ToApply, Slice
  <2> QED
    BY <2>1 DEF IInv, Contiguous
<1>4. fine
  BY <1>2, <1>3
<1> HIDE DEF fine
<1> QED
  BY <1>1, <1>4, Survives DEF IInv

\* No step ends a process.
LEMMA SurvivesStep ==
  ASSUME SnapshotIndexes = {}, IInv, VoteInv, BallotInv, EntryUniqueness,
         NoSnapshots, FirstIndexes, NoAssertionFails, Next
  PROVE  NoAssertionFails'
<1>1. CASE UNCHANGED up
  BY <1>1 DEF NoAssertionFails
<1>2. ASSUME NEW m \in voteReplies, SendRequestVote(m)
      PROVE  NoAssertionFails'
  <2>1. CASE status[m.candidate] = Leader
    BY <1>1, <1>2, <2>1, WinsOnce DEF IInv
  <2>2. CASE status[m.candidate] # Leader /\ BecomeLeader(m.candidate)
    <3>1. m.candidate \in Server /\ Asserts(m.candidate, status[m.candidate] # Leader)
      BY <2>2 DEF IInv, TypeOK, VoteReply, BecomeLeader
    <3> DEFINE fine == status[m.candidate] # Leader
    <3>2. fine /\ Asserts(m.candidate, fine)
      BY <2>2, <3>1
    <3> HIDE DEF fine
    <3> QED
      BY <3>1, <3>2, Survives DEF IInv
  <2> QED
    BY <1>1, <1>2, <2>1, <2>2 DEF SendRequestVote
<1>3. CASE ElectionNext
  BY <1>1, <1>2, <1>3 DEF ElectionNext, DoElection, RequestVote
<1>4. CASE AppendNext
  BY <1>1, <1>4, HeartBeatSurvives, AppendSurvives, AnswerSurvives
  DEF AppendNext, StartSome, Start, LoseAppendCall
<1>5. CASE ApplyNext
  BY <1>1, <1>5, CollectSurvives, SubsetsAssumption DEF ApplyNext, PushApplyMsg
<1>6. CASE SnapshotNext
  BY <1>1, <1>6 DEF NoSnapshots, SnapshotNext, SnapshotDelivered, PushMsgToKvServer
<1> QED
  BY <1>3, <1>4, <1>5, <1>6 DEF Next

\* The invariant of assertions holds of every reachable state, if the service
\* never asks for a snapshot.
THEOREM AssertInvariance ==
  ASSUME SnapshotIndexes = {}
  PROVE  Spec => []AssertInv
<1>1. Init => AssertInv
  <2>1. Init => status \in [Server -> {Follower}] /\ Follower # Leader
    BY DEF Init, Follower, Leader
  <2> QED
    BY <2>1 DEF Init, AssertInv, NoSnapshots, FirstIndexes, NoAssertionFails
<1>2. IInv /\ VoteInv /\ BallotInv /\ EntryInv /\ AssertInv /\ [Next]_vars => AssertInv'
  <2>1. CASE Next
    BY <2>1, NoSnapshotsStep, FirstIndexesStep, SurvivesStep DEF AssertInv, EntryInv, IInv
  <2>2. CASE UNCHANGED vars
    BY <2>2 DEF vars, durableVars, leaderVars, appendCalls, snapCalls, AssertInv, NoSnapshots,
                FirstIndexes, NoAssertionFails
  <2> QED
    BY <2>1, <2>2
<1> QED
  BY <1>1, <1>2, Invariance, VoteInvariance, BallotInvariance, EntryInvariance, PTL DEF Spec

\* No assertion of the class ever ends a process, if the service never asks for a
\* snapshot, as in this program it does not (m_raftStateSize stays 0).
THEOREM NoAssertionEverFails ==
  ASSUME SnapshotIndexes = {}
  PROVE  Spec => []NoAssertionFails
<1>1. AssertInv => NoAssertionFails
  BY DEF AssertInv
<1> QED
  BY <1>1, AssertInvariance, PTL

-----------------------------------------------------------------------------
(* What a leader commits *)

\* A call of i's round r is under way that may be acknowledged: it was made in
\* term and covers the log up to upTo.
InRound(i, r, term, upTo) ==
  \/ \E m \in appendRequests : /\ m.leader = i /\ m.round = r /\ m.term = term
                               /\ m.prevLogIndex + Len(m.entries) = upTo
  \/ \E m \in appendReplies : /\ m.success /\ m.leader = i /\ m.round = r
                              /\ m.term = term /\ m.upTo = upTo

\* The calls of a round that share *appendNums cover the same part of the log.
RoundsAgree ==
  \A i \in Server, r \in Rounds, s, t, u, v \in Nat :
    InRound(i, r, s, u) /\ InRound(i, r, t, v) => s = t /\ u = v

\* Calls of its present term mean that the caller still leads.
CallsOfLeader ==
  \A i \in Server, r \in Rounds, term, u \in Nat :
    InRound(i, r, term, u) /\ term = currentTerm[i] => status[i] = Leader

\* Whom *appendNums counts, matchIndex knows of.
CountedMatch ==
  \A i \in Server, r \in Rounds, term, u \in Nat :
    InRound(i, r, term, u) /\ term = currentTerm[i] =>
      \A j \in appendNums[i][r] : j = i \/ matchIndex[i][j] >= u

\* Entries of a term mean that its winner has led, and leads until it moves on.
EntriesOfLeader ==
  \A e \in Entry, i \in Server : Stored(e) /\ Won(i, e.term) =>
    e.term <= currentTerm[i] /\ (e.term = currentTerm[i] => status[i] = Leader)

\* The inductive invariant of commits.
CommitInv == RoundsAgree /\ CallsOfLeader /\ CountedMatch /\ EntriesOfLeader /\ CommitBacked

\* doHeartBeat of i begins round r.
Begins(i, r, term, upTo) ==
  /\ DoHeartBeat(i) /\ status[i] = Leader
  /\ term = currentTerm[i] /\ upTo = LastLogIndex(i)
  /\ ~RoundOpen(Calls, i, r)
  /\ appendNums' = [appendNums EXCEPT ![i][r] = {i}]

\* A call covers the log of its leader to the end.
LEMMA CallCoversLog ==
  ASSUME IInv, NEW i \in Server, NEW j \in Server, NEW r \in Rounds, ~BehindSnapshot(i, j)
  PROVE  LET call == AppendCall(i, j, r) IN call.prevLogIndex + Len(call.entries) = LastLogIndex(i)
<1> DEFINE next == nextIndex[i][j]
           base == lastSnapshot[i].index
           from == next - base
           len == Len(logs[i])
           sent == SubSeq(logs[i], from, len)
<1>1. /\ next \in Nat /\ base \in Nat /\ logs[i] \in Seq(Entry)
      /\ LastLogIndex(i) = base + len /\ len \in Nat /\ DOMAIN logs[i] = 1 .. len
  BY LastLogIndexIs, LenProperties DEF IInv, TypeOK, Snapshot
<1>2. next > base /\ next <= LastLogIndex(i) + 1
  BY <1>1 DEF BehindSnapshot, IInv, IndexBounds
<1>3. from \in Nat /\ from >= 1 /\ from <= len + 1
  <2> HIDE DEF next, base, len
  <2> QED
    BY <1>1, <1>2
<1>4. \A k \in from .. len : logs[i][k] \in Entry
  <2>1. \A k \in 1 .. len : logs[i][k] \in Entry
    BY <1>1, ElementOfSeq
  <2>2. \A k \in from .. len : k \in 1 .. len
    <3> HIDE DEF from, len
    <3> QED
      BY <1>1, <1>3
  <2> QED
    BY <2>1, <2>2
<1>5. Len(sent) = IF from <= len THEN len - from + 1 ELSE 0
  <2> HIDE DEF from, len
  <2> QED
    BY <1>1, <1>3, <1>4, SubSeqProperties
<1>6. next - 1 + Len(sent) = LastLogIndex(i)
  <2>1. Len(sent) = len - from + 1
    <3> HIDE DEF len, from, sent
    <3> QED
      BY <1>1, <1>3, <1>5
  <2> HIDE DEF len, sent, next, base
  <2> QED
    BY <1>1, <2>1
<1> QED
  BY <1>6 DEF AppendCall, PrevLogIndex, Slice

\* New calls are those of the round that begins.
LEMMA RequestOfRound ==
  ASSUME IInv, Next, NEW m \in appendRequests', m \notin appendRequests
  PROVE  /\ Begins(m.leader, m.round, m.term, m.prevLogIndex + Len(m.entries))
         /\ m.leader \in Server
<1>1. PICK i \in Server : DoHeartBeat(i)
  <2>1. CASE ElectionNext
    BY <2>1 DEF ElectionNext, DoElection, RequestVote, SendRequestVote, appendCalls
  <2>2. CASE AppendNext
    BY <2>2 DEF AppendNext, StartSome, Start, AppendEntries1, AcceptEntries, RejectEntries,
                PrevInsideSnapshot, AnswerAppend, SendAppendEntries, LoseAppendCall, appendCalls
  <2>3. CASE ApplyNext
    BY <2>3 DEF ApplyNext, CollectApplyMsgs, PushApplyMsg, appendCalls
  <2>4. CASE SnapshotNext
    BY <2>4 DEF SnapshotNext, SnapshotDelivered, MakeSnapshot, LeaderSendSnapShot,
                InstallSnapshot, SnapshotToClosedPeer, SnapshotAnswered, LoseSnapshotCall,
                PushMsgToKvServer, appendCalls
  <2> QED
    BY <2>1, <2>2, <2>3, <2>4 DEF Next
<1>2. PICK r \in Rounds :
        /\ ~RoundOpen(Calls, i, r)
        /\ appendNums' = [appendNums EXCEPT ![i][r] = {i}]
        /\ appendRequests' = appendRequests \cup
             {AppendCall(i, j, r) : j \in {j \in Server \ {i} : ~BehindSnapshot(i, j)}}
  BY <1>1 DEF DoHeartBeat
<1>3. PICK j \in Server : ~BehindSnapshot(i, j) /\ m = AppendCall(i, j, r)
  BY <1>2
<1>4. m.leader = i /\ m.round = r /\ m.term = currentTerm[i]
  BY <1>3 DEF AppendCall
<1>5. m.prevLogIndex + Len(m.entries) = LastLogIndex(i)
  BY <1>3, CallCoversLog
<1>6. status[i] = Leader
  BY <1>1 DEF DoHeartBeat
<1>7. Begins(i, r, currentTerm[i], LastLogIndex(i))
  BY <1>1, <1>2, <1>6 DEF Begins
<1> QED
  BY <1>4, <1>5, <1>7

\* The calls of a round after a step were under way before it, or the round begins.
LEMMA RoundOrigin ==
  ASSUME IInv, Next, NEW i \in Server, NEW r \in Rounds, NEW term, NEW upTo,
         InRound(i, r, term, upTo)'
  PROVE  InRound(i, r, term, upTo) \/ Begins(i, r, term, upTo)
<1>1. ASSUME NEW m \in appendRequests', m.leader = i, m.round = r, m.term = term,
             m.prevLogIndex + Len(m.entries) = upTo
      PROVE  InRound(i, r, term, upTo) \/ Begins(i, r, term, upTo)
  BY <1>1, RequestOfRound DEF InRound
<1>2. ASSUME NEW m \in appendReplies', m.success, m.leader = i, m.round = r,
             m.term = term, m.upTo = upTo
      PROVE  InRound(i, r, term, upTo)
  BY <1>2, AckOrigin DEF InRound
<1> QED
  BY <1>1, <1>2 DEF InRound

\* A round with such a call is open.
LEMMA RoundIsOpen ==
  ASSUME NEW i, NEW r, NEW term, NEW upTo, InRound(i, r, term, upTo)
  PROVE  RoundOpen(Calls, i, r)
BY DEF InRound, RoundOpen, Calls

\* Such a call is one of the winner, and not of a term to come.
LEMMA RoundWon ==
  ASSUME CallsWon, NEW i, NEW r, NEW term, NEW upTo, InRound(i, r, term, upTo)
  PROVE  Won(i, term) /\ term <= currentTerm[i]
BY DEF InRound, CallsWon

\* Rounds go on to agree.
LEMMA RoundsAgreeStep ==
  ASSUME IInv, RoundsAgree, Next
  PROVE  RoundsAgree'
<1>1. ASSUME NEW i \in Server, NEW r \in Rounds, NEW s \in Nat, NEW t \in Nat,
             NEW u \in Nat, NEW v \in Nat, InRound(i, r, s, u)', InRound(i, r, t, v)'
      PROVE  s = t /\ u = v
  <2>1. CASE InRound(i, r, s, u) /\ InRound(i, r, t, v)
    BY <2>1 DEF RoundsAgree
  <2>2. CASE Begins(i, r, s, u) /\ Begins(i, r, t, v)
    BY <2>2 DEF Begins
  <2>3. CASE Begins(i, r, s, u) /\ InRound(i, r, t, v)
    BY <2>3, RoundIsOpen DEF Begins
  <2>4. CASE InRound(i, r, s, u) /\ Begins(i, r, t, v)
    BY <2>4, RoundIsOpen DEF Begins
  <2> QED
    BY <1>1, <2>1, <2>2, <2>3, <2>4, RoundOrigin
<1> QED
  BY <1>1 DEF RoundsAgree

\* A leader leads until its term changes: no other node calls it in its term.
LEMMA LeaderStays ==
  ASSUME IInv, VoteInv, CallsWon, NoSnapshots, Next, NEW i \in Server, status[i] = Leader,
         currentTerm'[i] = currentTerm[i]
  PROVE  status'[i] = Leader
<1>1. status \in [Server -> {Follower, Candidate, Leader}] /\ currentTerm \in [Server -> Nat]
  BY DEF IInv, TypeOK
<1>2. CASE UNCHANGED status
  BY <1>2
<1>3. ASSUME NEW n \in Server, NEW term \in Nat, term > currentTerm[n], StepDown(n, term)
      PROVE  status'[i] = Leader
  <2>1. n # i
    BY <1>1, <1>3 DEF StepDown
  <2> QED
    BY <1>1, <1>3, <2>1 DEF StepDown
<1>4. ASSUME NEW n \in Server, DoElection(n)
      PROVE  status'[i] = Leader
  BY <1>1, <1>4 DEF DoElection
<1>5. ASSUME NEW m \in voteRequests, RequestVote(m)
      PROVE  status'[i] = Leader
  <2> DEFINE n == m.voter
  <2>1. n \in Server /\ m.term \in Nat
    BY DEF IInv, TypeOK, VoteRequest
  <2>2. CASE n = i /\ m.term > currentTerm[i]
    <3>1. currentTerm' = [currentTerm EXCEPT ![n] = Larger(currentTerm[n], m.term)]
      <4>1. ~(m.term < currentTerm[n])
        BY <1>1, <2>1, <2>2
      <4> QED
        BY <1>5, <4>1 DEF RequestVote, AdoptTerm
    <3>2. currentTerm'[i] = Larger(currentTerm[i], m.term)
      BY <1>1, <2>1, <2>2, <3>1
    <3> QED
      BY <1>1, <2>1, <2>2, <3>2 DEF Larger
  <2>3. CASE ~(n = i /\ m.term > currentTerm[i])
    <3>1. \/ UNCHANGED status
          \/ status' = [status EXCEPT ![n] = IF m.term > currentTerm[n] THEN Follower ELSE status[n]]
      BY <1>5 DEF RequestVote
    <3> QED
      BY <1>1, <2>1, <2>3, <3>1
  <2> QED
    BY <2>2, <2>3
<1>6. ASSUME NEW m \in voteReplies, SendRequestVote(m)
      PROVE  status'[i] = Leader
  <2>1. m.candidate \in Server /\ m.term \in Nat
    BY DEF IInv, TypeOK, VoteReply
  <2>2. CASE BecomeLeader(m.candidate)
    BY <1>1, <2>1, <2>2 DEF BecomeLeader
  <2>3. CASE m.term > currentTerm[m.candidate] /\ StepDown(m.candidate, m.term)
    BY <1>3, <2>1, <2>3
  <2> QED
    BY <1>2, <1>6, <2>2, <2>3 DEF SendRequestVote
<1>7. ASSUME NEW m \in appendRequests, AppendEntries1(m)
      PROVE  status'[i] = Leader
  <2>1. m.follower \in Server /\ m.leader \in Server /\ m.term \in Nat
    BY DEF IInv, TypeOK, AppendRequest
  <2>2. CASE m.follower = i /\ m.term >= currentTerm[i]
    <3>1. currentTerm'[i] = Larger(currentTerm[i], m.term)
      <4>1. ~(m.term < currentTerm[i])
        BY <1>1, <2>1, <2>2
      <4> QED
        BY <1>1, <1>7, <2>2, <4>1 DEF AppendEntries1, AdoptTerm
    <3>2. m.term = currentTerm[i]
      BY <1>1, <2>1, <2>2, <3>1 DEF Larger
    <3>3. Won(i, currentTerm[i])
      BY DEF VoteInv, LeaderBacked, Won
    <3>4. m.leader # i /\ Won(m.leader, currentTerm[i])
      BY <2>2, <3>2 DEF CallsWon
    <3> QED
      BY <1>1, <2>1, <3>3, <3>4, OneWinner DEF VoteInv
  <2>3. CASE ~(m.follower = i /\ m.term >= currentTerm[i])
    <3>1. UNCHANGED status \/ (/\ m.term >= currentTerm[m.follower]
                               /\ status' = [status EXCEPT ![m.follower] = Follower])
      BY <1>7 DEF AppendEntries1, StatusAfterCall
    <3> QED
      BY <1>1, <2>1, <2>3, <3>1
  <2> QED
    BY <2>2, <2>3
<1>8. ASSUME NEW m \in appendReplies, SendAppendEntries(m)
      PROVE  status'[i] = Leader
  <2>1. m.leader \in Server /\ m.term \in Nat
    BY DEF IInv, TypeOK, AppendReply
  <2> QED
    BY <1>2, <1>3, <1>8, <2>1 DEF SendAppendEntries
<1>9. CASE ElectionNext
  BY <1>4, <1>5, <1>6, <1>9 DEF ElectionNext
<1>10. CASE AppendNext
  BY <1>2, <1>7, <1>8, <1>10 DEF AppendNext, DoHeartBeat, StartSome, Start, LoseAppendCall
<1>11. CASE ApplyNext
  BY <1>2, <1>11 DEF ApplyNext, CollectApplyMsgs, PushApplyMsg
<1>12. CASE SnapshotNext
  BY <1>2, <1>12 DEF NoSnapshots, SnapshotNext, SnapshotDelivered, MakeSnapshot, PushMsgToKvServer
<1> QED
  BY <1>9, <1>10, <1>11, <1>12 DEF Next

\* Calls of its present term go on to mean that the caller leads.
LEMMA CallsOfLeaderStep ==
  ASSUME IInv, IInv', VoteInv, CallsWon, NoSnapshots, CallsOfLeader, Next
  PROVE  CallsOfLeader'
<1>1. ASSUME NEW i \in Server, NEW r \in Rounds, NEW term \in Nat, NEW u \in Nat,
             InRound(i, r, term, u)', term = currentTerm'[i]
      PROVE  status'[i] = Leader
  <2>1. /\ currentTerm[i] \in Nat /\ currentTerm'[i] \in Nat /\ currentTerm'[i] >= currentTerm[i]
    BY TermsGrow DEF IInv
  <2>2. CASE Begins(i, r, term, u)
    BY <2>2 DEF Begins, DoHeartBeat
  <2>3. CASE InRound(i, r, term, u)
    <3>1. term = currentTerm[i]
      BY <1>1, <2>1, <2>3, RoundWon
    <3>2. status[i] = Leader
      BY <2>3, <3>1 DEF CallsOfLeader
    <3> QED
      BY <1>1, <3>1, <3>2, LeaderStays
  <2> QED
    BY <1>1, <2>2, <2>3, RoundOrigin
<1> QED
  BY <1>1 DEF CallsOfLeader

\* A leader's matchIndex never falls.
LEMMA MatchKept ==
  ASSUME IInv, VoteInv, BallotInv, NoSnapshots, Next, NEW i \in Server, status[i] = Leader,
         NEW k \in Server
  PROVE  matchIndex[i][k] \in Nat /\ matchIndex'[i][k] \in Nat
         /\ matchIndex'[i][k] >= matchIndex[i][k]
<1>1. matchIndex \in [Server -> [Server -> Nat]] /\ matchIndex[i][k] \in Nat
  BY DEF IInv, TypeOK
<1>2. CASE UNCHANGED matchIndex
  BY <1>1, <1>2
<1>3. ASSUME NEW m \in voteReplies, SendRequestVote(m)
      PROVE  matchIndex'[i][k] \in Nat /\ matchIndex'[i][k] >= matchIndex[i][k]
  <2>1. CASE m.candidate = i
    BY <1>2, <1>3, <2>1, WinsOnce DEF IInv
  <2>2. CASE m.candidate # i /\ BecomeLeader(m.candidate)
    <3>1. matchIndex'[i] = matchIndex[i]
      BY <1>1, <2>2 DEF BecomeLeader
    <3> QED
      BY <1>1, <3>1
  <2> QED
    BY <1>2, <1>3, <2>1, <2>2 DEF SendRequestVote
<1>4. ASSUME NEW m \in appendReplies, SendAppendEntries(m)
      PROVE  matchIndex'[i][k] \in Nat /\ matchIndex'[i][k] >= matchIndex[i][k]
  <2>1. m.leader \in Server /\ m.follower \in Server /\ m.upTo \in Nat
    BY DEF IInv, TypeOK, AppendReply
  <2>2. CASE Acknowledged(m.leader, m)
    <3> DEFINE match == MatchAfter(m.leader, m)
    <3>1. matchIndex' = [matchIndex EXCEPT ![m.leader][m.follower] = match]
      BY <2>2 DEF Acknowledged
    <3>2. match \in Nat /\ match >= matchIndex[m.leader][m.follower]
      <4>1. matchIndex[m.leader][m.follower] \in Nat
        BY <1>1, <2>1
      <4> QED
        BY <2>1, <4>1 DEF MatchAfter, Larger
    <3> HIDE DEF match
    <3>3. CASE m.leader = i /\ m.follower = k
      <4>1. matchIndex'[i][k] = match
        BY <1>1, <3>1, <3>3
      <4> QED
        BY <3>2, <3>3, <4>1
    <3>4. CASE ~(m.leader = i /\ m.follower = k)
      <4>1. matchIndex'[i][k] = matchIndex[i][k]
        BY <1>1, <2>1, <3>1, <3>4
      <4> QED
        BY <1>1, <4>1
    <3> QED
      BY <3>3, <3>4
  <2> QED
    BY <1>2, <1>4, <2>2 DEF SendAppendEntries
<1>5. CASE ElectionNext
  BY <1>1, <1>2, <1>3, <1>5 DEF ElectionNext, DoElection, RequestVote, leaderVars
<1>6. CASE AppendNext
  BY <1>1, <1>2, <1>4, <1>6
  DEF AppendNext, DoHeartBeat, StartSome, Start, AppendEntries1, LoseAppendCall, leaderVars
<1>7. CASE ApplyNext
  BY <1>1, <1>2, <1>7 DEF ApplyNext, CollectApplyMsgs, PushApplyMsg, leaderVars
<1>8. CASE SnapshotNext
  BY <1>1, <1>2, <1>8
  DEF NoSnapshots, SnapshotNext, SnapshotDelivered, MakeSnapshot, PushMsgToKvServer, leaderVars
<1> QED
  BY <1>1, <1>5, <1>6, <1>7, <1>8 DEF Next

\* A leader's answer that counts j in round r.
CountsAnswer(i, r, j, m) ==
  /\ SendAppendEntries(m) /\ Acknowledged(i, m)
  /\ m.leader = i /\ m.round = r /\ m.follower = j /\ m.term = currentTerm[i]

\* *appendNums counts the leader itself and those whose acknowledgement came.
LEMMA TallyOrigin ==
  ASSUME IInv, Next, NEW i \in Server, NEW r \in Rounds, NEW j \in appendNums'[i][r]
  PROVE  \/ j \in appendNums[i][r]
         \/ j = i
         \/ \E m \in appendReplies : CountsAnswer(i, r, j, m)
<1> DEFINE Origin == \/ j \in appendNums[i][r]
                     \/ j = i
                     \/ \E m \in appendReplies : CountsAnswer(i, r, j, m)
<1>1. appendNums \in [Server -> [Rounds -> SUBSET Server]]
  BY DEF IInv, TypeOK
<1>2. CASE UNCHANGED appendNums
  BY <1>2
<1>3. ASSUME NEW n \in Server, DoHeartBeat(n)
      PROVE  Origin
  <2>1. PICK s \in Rounds : appendNums' = [appendNums EXCEPT ![n][s] = {n}]
    BY <1>3 DEF DoHeartBeat
  <2>2. CASE n = i /\ s = r
    BY <1>1, <2>1, <2>2
  <2>3. CASE ~(n = i /\ s = r)
    BY <1>1, <2>1, <2>3
  <2> QED
    BY <2>2, <2>3
<1>4. ASSUME NEW m, m.leader \in Server, m.round \in Rounds, NEW counted,
             appendNums' = Tally(m, counted)
      PROVE  j \in appendNums[i][r] \/ (m.leader = i /\ m.round = r /\ j \in counted)
  <2> DEFINE left == IF RoundOpen(Calls \ {m}, m.leader, m.round) THEN counted ELSE {}
  <2>1. appendNums' = [appendNums EXCEPT ![m.leader][m.round] = left]
    BY <1>4 DEF Tally
  <2>2. left \subseteq counted
    OBVIOUS
  <2> HIDE DEF left
  <2>3. CASE m.leader = i /\ m.round = r
    <3>1. appendNums'[i][r] = left
      BY <1>1, <2>1, <2>3
    <3> QED
      BY <2>2, <2>3, <3>1
  <2>4. CASE ~(m.leader = i /\ m.round = r)
    <3>1. appendNums'[i][r] = appendNums[i][r]
      BY <1>1, <1>4, <2>1, <2>4
    <3> QED
      BY <3>1
  <2> QED
    BY <2>3, <2>4
<1>5. ASSUME NEW m \in appendReplies, SendAppendEntries(m)
      PROVE  Origin
  <2>1. m.leader \in Server /\ m.round \in Rounds
    BY DEF IInv, TypeOK, AppendReply
  <2>2. CASE appendNums' = Tally(m, appendNums[m.leader][m.round])
    BY <1>4, <2>1, <2>2
  <2>3. CASE m.term = currentTerm[m.leader] /\ Acknowledged(m.leader, m)
    <3> DEFINE counted == appendNums[m.leader][m.round] \cup {m.follower}
               counts == IF Cardinality(counted) >= Majority THEN {} ELSE counted
    <3>1. appendNums' = Tally(m, counts) /\ counts \subseteq counted
      BY <2>3 DEF Acknowledged
    <3> HIDE DEF counts
    <3>2. j \in appendNums[i][r] \/ (m.leader = i /\ m.round = r /\ j \in counted)
      BY <1>4, <2>1, <3>1
    <3> QED
      BY <1>5, <2>3, <3>2 DEF CountsAnswer
  <2> QED
    BY <1>5, <2>2, <2>3 DEF SendAppendEntries
<1>6. ASSUME NEW m \in appendRequests \cup appendReplies, LoseAppendCall(m)
      PROVE  Origin
  <2>1. m.leader \in Server /\ m.round \in Rounds
    BY DEF IInv, TypeOK, AppendReply, AppendRequest
  <2> QED
    BY <1>4, <1>6, <2>1 DEF LoseAppendCall
<1>7. CASE ElectionNext
  BY <1>2, <1>7 DEF ElectionNext, DoElection, RequestVote, SendRequestVote, leaderVars
<1>8. CASE AppendNext
  BY <1>2, <1>3, <1>5, <1>6, <1>8 DEF AppendNext, StartSome, Start, AppendEntries1, leaderVars
<1>9. CASE ApplyNext
  BY <1>2, <1>9 DEF ApplyNext, CollectApplyMsgs, PushApplyMsg, leaderVars
<1>10. CASE SnapshotNext
  BY <1>2, <1>10 DEF SnapshotNext, SnapshotDelivered, MakeSnapshot, LeaderSendSnapShot,
    InstallSnapshot, SnapshotToClosedPeer, SnapshotAnswered, LoseSnapshotCall, PushMsgToKvServer,
    leaderVars
<1> QED
  BY <1>7, <1>8, <1>9, <1>10 DEF Next

\* What a counting leader records of the peer.
LEMMA CountRecorded ==
  ASSUME IInv, NEW i \in Server, NEW r, NEW j, NEW m \in appendReplies, CountsAnswer(i, r, j, m)
  PROVE  j \in Server /\ m.upTo \in Nat /\ matchIndex'[i][j] >= m.upTo
<1>1. j \in Server /\ m.upTo \in Nat
  BY DEF CountsAnswer, IInv, TypeOK, AppendReply
<1>2. matchIndex' = [matchIndex EXCEPT ![i][j] = MatchAfter(i, m)]
  BY DEF CountsAnswer, Acknowledged
<1>3. matchIndex'[i][j] = MatchAfter(i, m)
  BY <1>1, <1>2 DEF IInv, TypeOK
<1>4. matchIndex[i][m.follower] \in Nat
  BY <1>1 DEF IInv, TypeOK, CountsAnswer
<1> QED
  BY <1>1, <1>3, <1>4 DEF MatchAfter, Larger

\* Whom *appendNums counts, matchIndex goes on to know of.
LEMMA CountedMatchStep ==
  ASSUME IInv, IInv', VoteInv, BallotInv, CallsWon, NoSnapshots,
         RoundsAgree, CallsOfLeader, CountedMatch, Next
  PROVE  CountedMatch'
<1>1. ASSUME NEW i \in Server, NEW r \in Rounds, NEW term \in Nat, NEW u \in Nat,
             InRound(i, r, term, u)', term = currentTerm'[i],
             NEW j \in appendNums'[i][r], j # i
      PROVE  matchIndex'[i][j] >= u
  <2>1. /\ currentTerm[i] \in Nat /\ currentTerm'[i] \in Nat /\ currentTerm'[i] >= currentTerm[i]
    BY TermsGrow DEF IInv
  <2>2. appendNums \in [Server -> [Rounds -> SUBSET Server]]
        /\ appendNums' \in [Server -> [Rounds -> SUBSET Server]]
    BY DEF IInv, TypeOK
  <2>3. ~Begins(i, r, term, u)
    BY <1>1, <2>2 DEF Begins
  <2>4. InRound(i, r, term, u)
    BY <1>1, <2>3, RoundOrigin
  <2>5. term = currentTerm[i]
    BY <1>1, <2>1, <2>4, RoundWon
  <2>6. status[i] = Leader
    BY <2>4, <2>5 DEF CallsOfLeader
  <2>7. CASE j \in appendNums[i][r]
    <3>1. j \in Server
      BY <2>2, <2>7
    <3>2. matchIndex[i][j] >= u
      BY <1>1, <2>4, <2>5, <2>7 DEF CountedMatch
    <3> QED
      BY <2>6, <3>1, <3>2, MatchKept
  <2>8. ASSUME NEW m \in appendReplies, CountsAnswer(i, r, j, m)
        PROVE  matchIndex'[i][j] >= u
    <3>1. m.upTo \in Nat /\ matchIndex'[i][j] >= m.upTo
      BY <2>8, CountRecorded
    <3>2. InRound(i, r, m.term, m.upTo) /\ m.term \in Nat
      BY <2>1, <2>8 DEF CountsAnswer, Acknowledged, InRound
    <3>3. m.upTo = u
      BY <2>4, <3>1, <3>2 DEF RoundsAgree
    <3> QED
      BY <3>1, <3>3
  <2> QED
    BY <1>1, <2>7, <2>8, TallyOrigin
<1> QED
  BY <1>1 DEF CountedMatch

\* A term has one winner.
WinnersUnique ==
  \A term \in Nat, i, j \in Server : Won(i, term) /\ Won(j, term) => i = j

LEMMA WinnerUnique == VoteInv => WinnersUnique
BY OneWinner DEF VoteInv, WinnersUnique

LEMMA WinnerUniqueAfter == VoteInv' => WinnersUnique'
BY WinnerUnique, PTL

\* The winner of a stored entry's term has reached the term, and led it.
LEMMA WinnerHasLed ==
  ASSUME IInv, IInv', VoteInv, VoteInv', EntriesOwned, EntriesOfLeader, Next,
         NEW e \in Entry, Stored(e)', NEW i \in Server, Won(i, e.term)'
  PROVE  /\ e.term <= currentTerm[i]
         /\ e.term = currentTerm'[i] => status[i] = Leader /\ currentTerm'[i] = currentTerm[i]
<1>1. /\ currentTerm[i] \in Nat /\ currentTerm'[i] \in Nat /\ currentTerm'[i] >= currentTerm[i]
  BY TermsGrow DEF IInv
<1>2. e.term \in Nat
  BY DEF Entry
<1>3. CASE Stored(e)
  <2>1. PICK w \in Server : Won(w, e.term)
    BY <1>3 DEF EntriesOwned
  <2>2. Won(w, e.term)'
    BY <2>1, WonStays
  <2>3. w = i
    BY <1>2, <2>2, WinnerUniqueAfter DEF WinnersUnique
  <2>4. e.term <= currentTerm[i] /\ (e.term = currentTerm[i] => status[i] = Leader)
    BY <1>3, <2>1, <2>3 DEF EntriesOfLeader
  <2> QED
    BY <1>1, <1>2, <2>4
<1>4. ASSUME NEW n \in Server, Started(n, e)
      PROVE  /\ e.term <= currentTerm[i]
             /\ e.term = currentTerm'[i] => status[i] = Leader /\ currentTerm'[i] = currentTerm[i]
  <2>1. Won(n, e.term)'
    BY <1>4, StartedIsNew, WonStays
  <2>2. n = i
    BY <1>2, <2>1, WinnerUniqueAfter DEF WinnersUnique
  <2>3. status[i] = Leader /\ e.term = currentTerm[i]
    BY <1>4, <2>2 DEF Started
  <2> QED
    BY <1>1, <2>3
<1> QED
  BY <1>3, <1>4, StoredOrigin

\* Entries of a term go on to mean that its winner has led.
LEMMA EntriesOfLeaderStep ==
  ASSUME IInv, IInv', VoteInv, VoteInv', CallsWon, NoSnapshots, EntriesOwned, EntriesOfLeader, Next
  PROVE  EntriesOfLeader'
<1>1. ASSUME NEW e \in Entry, NEW i \in Server, Stored(e)', Won(i, e.term)'
      PROVE  e.term <= currentTerm'[i] /\ (e.term = currentTerm'[i] => status'[i] = Leader)
  <2>1. /\ currentTerm[i] \in Nat /\ currentTerm'[i] \in Nat /\ currentTerm'[i] >= currentTerm[i]
    BY TermsGrow DEF IInv
  <2>2. e.term \in Nat
    BY DEF Entry
  <2>3. /\ e.term <= currentTerm[i]
        /\ e.term = currentTerm'[i] => status[i] = Leader /\ currentTerm'[i] = currentTerm[i]
    BY <1>1, WinnerHasLed
  <2> QED
    BY <2>1, <2>2, <2>3, LeaderStays
<1> QED
  BY <1>1 DEF EntriesOfLeader

\* A leader commits what a majority has acknowledged.
Commits(i, m) ==
  LET counted == appendNums[i][m.round] \cup {m.follower} IN
  /\ CountsAnswer(i, m.round, m.follower, m)
  /\ Cardinality(counted) >= Majority /\ commitIndex'[i] = m.upTo

LEMMA CommitOrigin ==
  ASSUME IInv, NoSnapshots, Next, NEW i \in Server, status'[i] = Leader,
         commitIndex'[i] # commitIndex[i]
  PROVE  \E m \in appendReplies : Commits(i, m)
<1>1. /\ commitIndex \in [Server -> Nat] /\ appendNums \in [Server -> [Rounds -> SUBSET Server]]
      /\ status \in [Server -> {Follower, Candidate, Leader}] /\ Follower # Leader
  BY DEF IInv, TypeOK, Follower, Leader
<1>2. ~UNCHANGED commitIndex
  OBVIOUS
<1>3. ASSUME NEW m \in appendRequests, AppendEntries1(m)
      PROVE  FALSE
  <2>1. m.follower \in Server
    BY DEF IInv, TypeOK, AppendRequest
  <2>2. CASE m.follower = i
    BY <1>1, <1>2, <1>3, <2>2 DEF AppendEntries1, StatusAfterCall
  <2>3. CASE m.follower # i
    BY <1>1, <1>3, <2>1, <2>3 DEF AppendEntries1, AcceptEntries, RejectEntries, PrevInsideSnapshot
  <2> QED
    BY <2>2, <2>3
<1>4. ASSUME NEW m \in appendReplies, SendAppendEntries(m)
      PROVE  Commits(i, m)
  <2>1. m.leader \in Server /\ m.upTo \in Nat
    BY DEF IInv, TypeOK, AppendReply
  <2>2. m.term = currentTerm[m.leader] /\ Acknowledged(m.leader, m)
    BY <1>2, <1>4 DEF SendAppendEntries
  <2> DEFINE counted == appendNums[m.leader][m.round] \cup {m.follower}
             commit == CommitAfter(m.leader, m, counted)
  <2>3. commitIndex' = [commitIndex EXCEPT ![m.leader] = commit]
    BY <2>2 DEF Acknowledged
  <2>4. m.leader = i
    <3> HIDE DEF commit
    <3> QED
      BY <1>1, <2>1, <2>3
  <2>5. commitIndex'[i] = commit
    <3> HIDE DEF commit
    <3> QED
      BY <1>1, <2>3, <2>4
  <2>6. Cardinality(counted) >= Majority /\ commit = Larger(commitIndex[i], m.upTo)
    <3> HIDE DEF counted
    <3> QED
      BY <2>4, <2>5 DEF CommitAfter
  <2>7. commit = m.upTo
    <3> HIDE DEF commit
    <3> QED
      BY <2>5, <2>6 DEF Larger
  <2> QED
    BY <1>4, <2>2, <2>4, <2>5, <2>6, <2>7 DEF Commits, CountsAnswer
<1>5. CASE ElectionNext
  BY <1>2, <1>5 DEF ElectionNext, DoElection, RequestVote, SendRequestVote
<1>6. CASE AppendNext
  BY <1>2, <1>3, <1>4, <1>6 DEF AppendNext, DoHeartBeat, StartSome, Start, LoseAppendCall
<1>7. CASE ApplyNext
  BY <1>2, <1>7 DEF ApplyNext, CollectApplyMsgs, PushApplyMsg
<1>8. CASE SnapshotNext
  BY <1>2, <1>8
  DEF NoSnapshots, SnapshotNext, SnapshotDelivered, MakeSnapshot, PushMsgToKvServer
<1> QED
  BY <1>5, <1>6, <1>7, <1>8 DEF Next

\* Whoever leads with an entry of its term in its log has led before the step.
LEMMA OwnEntryMeansLed ==
  ASSUME IInv, IInv', VoteInv, VoteInv', EntriesOwned, EntriesOfLeader, Next,
         NEW i \in Server, status'[i] = Leader,
         NEW k \in Nat, Held(i, k)', LogTermAt(i, k)' = currentTerm'[i]
  PROVE  status[i] = Leader /\ currentTerm'[i] = currentTerm[i]
<1>1. PICK e \in Entry : (\E p \in DOMAIN logs'[i] : logs'[i][p] = e) /\ e.term = LogTermAt(i, k)'
  BY HeldEntryAfter DEF TermsHeld, EntryAt
<1>2. Stored(e)'
  BY <1>1 DEF Stored
<1>3. e.term = currentTerm'[i]
  BY <1>1
<1>4. Won(i, e.term)'
  BY <1>3 DEF VoteInv, LeaderBacked, Won, Majority
<1> QED
  BY <1>2, <1>3, <1>4, WinnerHasLed

\* What a leader commits goes on to be backed.
LEMMA CommitBackedStep ==
  ASSUME IInv, IInv', VoteInv, VoteInv', BallotInv, EntriesOwned, CallsWon,
         NoSnapshots, NoSnapshots', CountedMatch, EntriesOfLeader, CommitBacked, Next
  PROVE  CommitBacked'
<1> SUFFICES ASSUME NEW i \in Server, status'[i] = Leader, NEW commit, commit = commitIndex'[i],
                    commit > lastSnapshot'[i].index, LogTermAt(i, commit)' = currentTerm'[i]
             PROVE  Cardinality({i} \cup {j \in Server : matchIndex'[i][j] >= commit}) >= Majority
  <2>1. \A i, commit : commit = commitIndex'[i] =>
          LogTermAt(i, commit)' = LogTermAt(i, commitIndex[i])'
    BY DEF LogTermAt, Slice
  <2> QED
    BY <2>1 DEF CommitBacked, Majority
<1> DEFINE backers == {i} \cup {j \in Server : matchIndex'[i][j] >= commit}
<1>1. /\ commit \in Nat /\ commitIndex[i] \in Nat
      /\ lastSnapshot[i].index = 0 /\ lastSnapshot'[i].index = 0
  <2>1. commit \in Nat /\ commitIndex[i] \in Nat
    BY DEF IInv, TypeOK
  <2>2. lastSnapshot[i].index = 0 /\ lastSnapshot'[i].index = 0
    BY DEF NoSnapshots
  <2> QED
    BY <2>1, <2>2
<1>2. commit <= LastLogIndex(i)'
  BY DEF IInv, CommitWithinLog
<1>3. Held(i, commit)'
  BY <1>1, <1>2 DEF Held
<1>4. status[i] = Leader /\ currentTerm'[i] = currentTerm[i]
  BY <1>1, <1>3, OwnEntryMeansLed
<1>5. ASSUME NEW Q \in SUBSET Server, Cardinality(Q) >= Majority, Q \subseteq backers
      PROVE  Cardinality(backers) >= Majority
  <2>1. backers \in SUBSET Server
    OBVIOUS
  <2>2. IsFiniteSet(backers) /\ Cardinality(backers) \in Nat /\ Cardinality(Server) \in Nat
    BY <2>1, ServerAssumption, FS_Subset, FS_CardinalityType
  <2>3. IsFiniteSet(Q) /\ Cardinality(Q) \in Nat /\ Cardinality(Q) <= Cardinality(backers)
    BY <1>5, <2>2, FS_Subset, FS_CardinalityType
  <2>4. Majority \in Int
    BY <2>2 DEF Majority
  <2> HIDE DEF backers
  <2> QED
    BY <1>5, <2>2, <2>3, <2>4
<1>6. CASE commitIndex'[i] = commitIndex[i]
  <2> DEFINE old == {i} \cup {j \in Server : matchIndex[i][j] >= commitIndex[i]}
  <2>1. Won(i, currentTerm[i])
    BY <1>4 DEF VoteInv, LeaderBacked, Won
  <2>2. ~TakesEntries(i)
    BY <1>4, <2>1, WinnerTakesNothing
  <2>3. commitIndex[i] <= LastLogIndex(i) /\ commitIndex[i] > 0
    BY <1>1, <1>6 DEF IInv, CommitWithinLog
  <2>4. LogTermAt(i, commit) = currentTerm[i]
    <3>1. commit > lastSnapshot'[i].index /\ commit <= LastLogIndex(i)
      BY <1>1, <1>6, <2>3
    <3>2. LogTermAt(i, commit)' = LogTermAt(i, commit)
      BY <1>1, <2>2, <3>1, TermsKept
    <3> QED
      BY <1>4, <3>2
  <2>5. Cardinality(old) >= Majority
    BY <1>1, <1>4, <1>6, <2>3, <2>4 DEF CommitBacked
  <2>6. ASSUME NEW j \in Server, matchIndex[i][j] >= commitIndex[i]
        PROVE  matchIndex'[i][j] >= commit
    <3>1. /\ matchIndex[i][j] \in Nat /\ matchIndex'[i][j] \in Nat
          /\ matchIndex'[i][j] >= matchIndex[i][j]
      BY <1>4, MatchKept
    <3> QED
      BY <1>1, <1>6, <2>6, <3>1
  <2>7. old \subseteq backers
    BY <2>6
  <2>8. old \in SUBSET Server
    OBVIOUS
  <2> HIDE DEF old, backers
  <2>9. Cardinality(backers) >= Majority
    BY <1>5, <2>5, <2>7, <2>8
  <2> QED
    BY <2>9 DEF backers
<1>7. ASSUME NEW m \in appendReplies, Commits(i, m)
      PROVE  Cardinality(backers) >= Majority
  <2> DEFINE counted == appendNums[i][m.round] \cup {m.follower}
  <2>1. /\ m.follower \in Server /\ m.round \in Rounds /\ m.upTo \in Nat /\ m.term \in Nat
        /\ counted \in SUBSET Server
    <3>1. /\ m \in AppendReply
          /\ appendNums \in [Server -> [Rounds -> SUBSET Server]]
      BY DEF IInv, TypeOK
    <3>2. m.round \in Rounds /\ m.follower \in Server
      BY <3>1 DEF AppendReply
    <3>3. currentTerm[i] \in Nat /\ m.term = currentTerm[i] /\ m.upTo \in Nat
      BY <1>7, <3>1 DEF IInv, TypeOK, Commits, CountsAnswer, AppendReply
    <3>4. appendNums[i][m.round] \in SUBSET Server
      BY <3>1, <3>2
    <3> QED
      BY <3>2, <3>3, <3>4
  <2>2. /\ CountsAnswer(i, m.round, m.follower, m) /\ Cardinality(counted) >= Majority
        /\ commit = m.upTo
    BY <1>7 DEF Commits
  <2>3. InRound(i, m.round, m.term, m.upTo) /\ m.term = currentTerm[i]
    BY <2>2 DEF CountsAnswer, Acknowledged, InRound
  <2>4. ASSUME NEW j \in appendNums[i][m.round], j # i
        PROVE  j \in Server /\ matchIndex'[i][j] >= commit
    <3>1. j \in Server /\ matchIndex[i][j] >= m.upTo
      BY <2>1, <2>3, <2>4 DEF CountedMatch
    <3>2. /\ matchIndex[i][j] \in Nat /\ matchIndex'[i][j] \in Nat
          /\ matchIndex'[i][j] >= matchIndex[i][j]
      BY <1>4, <3>1, MatchKept
    <3> QED
      BY <2>1, <2>2, <3>1, <3>2
  <2>5. matchIndex'[i][m.follower] >= commit
    <3>1. matchIndex'[i][m.follower] >= m.upTo
      BY <2>1, <2>2, CountRecorded
    <3> QED
      BY <2>2, <3>1
  <2>6. counted \subseteq backers
    BY <2>1, <2>4, <2>5
  <2> HIDE DEF counted, backers
  <2> QED
    BY <1>5, <2>1, <2>2, <2>6
<1>8. CASE commitIndex'[i] # commitIndex[i]
  <2>1. PICK m \in appendReplies : Commits(i, m)
    BY <1>8, CommitOrigin
  <2>2. Cardinality(backers) >= Majority
    BY <1>7, <2>1
  <2> QED
    BY <2>2
<1> QED
  BY <1>6, <1>8

\* The invariant of commits holds of every reachable state, if the service never
\* asks for a snapshot.
THEOREM CommitInvariance ==
  ASSUME SnapshotIndexes = {}
  PROVE  Spec => []CommitInv
<1>1. Init => CommitInv
  <2>1. ASSUME Init PROVE /\ \A i, r, term, u : ~InRound(i, r, term, u)
                          /\ \A e : ~Stored(e)
    BY <2>1 DEF Init, InRound, Stored
  <2>2. ASSUME Init PROVE \A i \in Server : status[i] # Leader
    BY <2>2 DEF Init, Follower, Leader
  <2> QED
    BY <2>1, <2>2 DEF CommitInv, RoundsAgree, CallsOfLeader, CountedMatch, EntriesOfLeader,
                      CommitBacked
<1>2. ASSUME IInv, IInv', VoteInv, VoteInv', BallotInv, EntryInv, MatchInv,
             AssertInv, AssertInv', CommitInv, [Next]_vars
      PROVE  CommitInv'
  <2>1. CASE Next
    BY <1>2, <2>1, RoundsAgreeStep, CallsOfLeaderStep, CountedMatchStep, EntriesOfLeaderStep,
       CommitBackedStep
    DEF CommitInv, EntryInv, MatchInv, AssertInv
  <2>2. CASE UNCHANGED vars
    BY <1>2, <2>2
    DEF vars, durableVars, leaderVars, electionVars, appendCalls, CommitInv, RoundsAgree,
        CallsOfLeader, CountedMatch, EntriesOfLeader, CommitBacked, InRound, Stored, Won, Majority,
        LogTermAt, Slice
  <2> QED
    BY <1>2, <2>1, <2>2
<1> QED
  BY <1>1, <1>2, Invariance, VoteInvariance, BallotInvariance, EntryInvariance, MatchInvariance,
     AssertInvariance, PTL DEF Spec

\* A leader commits an entry of its term only when its own matchIndex says that a
\* majority has it, however the rounds that count acknowledgements overlap.
THEOREM CommitAlwaysBacked ==
  ASSUME SnapshotIndexes = {}
  PROVE  Spec => []CommitBacked
<1>1. CommitInv => CommitBacked
  BY DEF CommitInv
<1> QED
  BY <1>1, CommitInvariance, PTL

=============================================================================
