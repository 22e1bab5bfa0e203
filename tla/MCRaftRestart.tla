--------------------------- MODULE MCRaftRestart ---------------------------
(* The instance of RaftRestart for TLC: two rivals in term 1, no commands. *)
EXTENDS RaftRestart

CONSTANTS s1, s2, s3

Nodes  == {s1, s2, s3}
Rivals == {<<s1, 1>>, <<s2, 1>>}

=============================================================================
