-------------------------------- MODULE MCRpc --------------------------------
(* Instances of Rpc for TLC. *)
EXTENDS Rpc, TLC

CONSTANTS t1, t2, t3

\* A call of a Raft node: it waits for no other.
Raft(method, args, replies) ==
  [method |-> method, args |-> args, replies |-> replies, after |-> {}]

\* The answers of a follower of term 1: yes, and no to an old term.
VoteReplies   == {[Term |-> 1, VoteGranted |-> TRUE, VoteState |-> 2],
                  [Term |-> 2, VoteGranted |-> FALSE, VoteState |-> 1]}
AppendReplies == {[Term |-> 1, Success |-> TRUE, UpdateNextIndex |-> 0, AppState |-> 1],
                  [Term |-> 2, Success |-> FALSE, UpdateNextIndex |-> -100, AppState |-> 1]}

Vote == Raft("RequestVote",
             [Term |-> 1, CandidateId |-> 0, LastLogIndex |-> 200, LastLogTerm |-> 0], VoteReplies)

Entry(i) == [Command |-> <<"c", "d">>, LogTerm |-> 1, LogIndex |-> i]

\* A round's call with two entries, one of them of defaults only.
Append2 == Raft("AppendEntries",
                [Term |-> 1, LeaderId |-> 0, PrevLogIndex |-> 0, PrevLogTerm |-> -1,
                 Entries |-> <<Entry(1), Cleared(LogEntryFields)>>, LeaderCommit |-> 0],
                AppendReplies)

\* The answer of InstallSnapshot's early return is the second.
Install == Raft("InstallSnapshot",
                [LeaderId |-> 0, Term |-> 1, LastSnapShotIncludeIndex |-> 1,
                 LastSnapShotIncludeTerm |-> 1, Data |-> <<"s">>],
                {[Term |-> 1], [Term |-> 0]})

\* The calls of a clerk follow one another.  A value may be longer than RecvSize.
Value(n) == [i \in 1..n |-> "v"]
Reply(n) == [Err |-> <<"O", "K">>, Value |-> Value(n)]
GetOne(after) ==
  [method |-> "Get", args |-> [Key |-> <<"k">>, ClientId |-> <<"i">>, RequestId |-> 0],
   replies |-> {Reply(1), Reply(RecvSize)}, after |-> after]
PutOne(after) ==
  [method |-> "PutAppend",
   args |-> [Key |-> <<"k">>, Value |-> <<"v">>, Op |-> <<"P">>, ClientId |-> <<"i">>, RequestId |-> 1],
   replies |-> {[Err |-> <<"O", "K">>]}, after |-> after]

RaftCalls  == t1 :> Vote @@ t2 :> Append2 @@ t3 :> [Install EXCEPT !.after = {t1, t2}]
ClerkCalls == t1 :> GetOne({}) @@ t2 :> PutOne({t1}) @@ t3 :> GetOne({t2})

RaftAndClerk == {RaftCalls, ClerkCalls}

\* A late voter: the vote is under way when the new leader sends its entries.
LateVote == {t1 :> Vote @@ t2 :> Append2}

=============================================================================
