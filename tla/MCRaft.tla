------------------------------- MODULE MCRaft -------------------------------
(* Instances of Raft for TLC. *)
EXTENDS Raft, TLC

CONSTANTS s1, s2, s3, s4, c1, c2

Nodes     == {s1, s2, s3}
FourNodes == {s1, s2, s3, s4}
Symmetry  == Permutations({c1, c2})

\* Two candidates in term 1, a third in term 2.
Rivals == {<<s1, 1>>, <<s2, 1>>, <<s3, 2>>}
\* s2 takes over from s1.
Takeover == {<<s1, 1>>, <<s2, 2>>}
OneLeader == {<<s1, 1>>}
FourTerms == {<<s1, 1>>, <<s2, 2>>, <<s3, 3>>, <<s2, 4>>}

NoProposals == {}
OneEntry    == {<<1, 1>>}
TwoEntries  == {<<1, 1>>, <<1, 2>>}
\* The first entry of two leaders: one replaces the other's.
SameIndex   == {<<1, 1>>, <<2, 1>>}
Truncation  == {<<1, 1>>, <<1, 2>>, <<1, 3>>, <<2, 1>>, <<3, 2>>}

\* The search is led along one history: s1 appends three entries alone in term
\* 1, s2 one in term 2 that reaches s3, s3 one in term 3 that reaches s1 and is
\* committed, and s1 votes for s2 in term 4.
Scenario ==
  LET Stood(term) == \E v \in votes : v[2] = term IN
  /\ votes \subseteq {<<s1, 1, s1>>, <<s2, 1, s1>>, <<s2, 2, s2>>, <<s3, 2, s2>>,
                      <<s3, 3, s3>>, <<s2, 3, s3>>, <<s2, 4, s2>>, <<s1, 4, s2>>}
  /\ \A m \in appendRequests : m.entries # <<>>
  /\ \A m \in appendReplies : <<m.term, m.follower>> \in {<<2, s3>>, <<3, s1>>}
  /\ Stood(2) => Len(logs[s1]) = 3 /\ {m \in appendRequests : m.term = 1} = {}
  /\ Stood(3) => Len(logs[s3]) > 0
  /\ Stood(4) => commitIndex[s3] = 2

=============================================================================
