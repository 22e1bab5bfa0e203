----------------------------- MODULE RaftRestart -----------------------------
(***************************************************************************)
(* Raft with nodes that crash and start again.  A node that starts again    *)
(* makes a new Persister, whose constructor truncates both files, and a new *)
(* Raft, whose init() reads the state back from it: it reads nothing.       *)
(* start-up takes seconds, so no call of the dead process is left by then.  *)
(***************************************************************************)
EXTENDS Raft

Crash(i) ==
  /\ up[i]
  /\ up' = [up EXCEPT ![i] = FALSE]
  /\ UNCHANGED <<status, durableVars, persisted, commitIndex, applyVars, leaderVars,
                 electionVars, appendCalls, snapCalls>>

\* Persister::Persister: both files are opened with ios::trunc.
OpenPersister(i) == InitialSave

\* Raft::init on what the persister reads back.
InitFrom(i, saved) ==
  /\ currentTerm' = [currentTerm EXCEPT ![i] = saved.currentTerm]
  /\ votedFor' = [votedFor EXCEPT ![i] = saved.votedFor]
  /\ logs' = [logs EXCEPT ![i] = saved.logs]
  /\ lastSnapshot' = [lastSnapshot EXCEPT ![i] = saved.lastSnapshot]
  /\ persisted' = [persisted EXCEPT ![i] = saved]
  /\ status' = [status EXCEPT ![i] = Follower]
  /\ commitIndex' = [commitIndex EXCEPT ![i] = 0]
  /\ lastApplied' = [lastApplied EXCEPT ![i] = saved.lastSnapshot.index]
  /\ applying' = [applying EXCEPT ![i] = <<>>]
  /\ applyChan' = [applyChan EXCEPT ![i] = <<>>]
  /\ latePushes' = {p \in latePushes : p[1] # i}
  /\ nextIndex' = [nextIndex EXCEPT ![i] = [j \in Server |-> 0]]
  /\ matchIndex' = [matchIndex EXCEPT ![i] = [j \in Server |-> 0]]
  /\ appendNums' = [appendNums EXCEPT ![i] = [r \in Rounds |-> {}]]
  /\ votedNum' = [votedNum EXCEPT ![i] = {}]

\* The threads of the dead process, and the calls it had under way, are gone.
Restart(i) ==
  /\ ~up[i]
  /\ up' = [up EXCEPT ![i] = TRUE]
  /\ InitFrom(i, OpenPersister(i))
  /\ voteRequests' = {m \in voteRequests : m.candidate # i}
  /\ voteReplies' = {m \in voteReplies : m.candidate # i}
  /\ appendRequests' = {m \in appendRequests : m.leader # i}
  /\ appendReplies' = {m \in appendReplies : m.leader # i}
  /\ snapshotThreads' = {m \in snapshotThreads : m.leader # i}
  /\ snapshotRequests' = {m \in snapshotRequests : m.leader # i}
  /\ snapshotReplies' = {m \in snapshotReplies : m.leader # i}
  /\ UNCHANGED votes

RestartNext ==
  \/ Next
  \/ \E i \in Server : Crash(i)
  \/ \E i \in Server : Restart(i)

RestartSpec == Init /\ [][RestartNext]_vars

=============================================================================
