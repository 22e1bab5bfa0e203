-------------------------------- MODULE MCKv ---------------------------------
(* Instances of Kv for TLC. *)
EXTENDS Kv, TLC

CONSTANTS c1, c2, k, a, b

Do(op, value) == [op |-> op, key |-> k, value |-> value]
Append1 == Do("Append", <<a>>)
Put2 == Do("Put", <<b>>)
Get == Do("Get", <<>>)

Workload(p1, p2, leader, maxCalls, maxElections, maxFailures) ==
  [program |-> c1 :> p1 @@ c2 :> p2, leader |-> leader, calls |-> maxCalls,
   elections |-> maxElections, failures |-> maxFailures]

\* A client updates twice; updates and reads back, from a clerk that does not
\* know the leader; updates while another reads; reads before it updates; or reads
\* between two updates, as callerMain does.
Services ==
  {Workload(<<Append1, Put2>>, <<>>, 0, 3, 1, 1),
   Workload(<<Append1, Get>>, <<>>, 1, 3, 1, 1),
   Workload(<<Append1>>, <<Get>>, 1, 3, 1, 0),
   Workload(<<Get, Append1>>, <<>>, 0, 3, 1, 1),
   Workload(<<Append1, Get, Put2>>, <<>>, 0, 4, 0, 1)}

\* A client reads, then updates.
ReadThenUpdate == {Workload(<<Get, Append1>>, <<>>, 0, 6, 0, 2)}

=============================================================================
