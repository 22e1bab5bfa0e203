------------------------------ MODULE KvService ------------------------------
(***************************************************************************)
(* What the key-value store promises its clerks: one map, on which every   *)
(* Put and Append takes effect once, between its call and its return, and  *)
(* every Get returns what the map held at some moment of its call.         *)
(*                                                                         *)
(* The map is kept as the sequence of the updates that took effect.        *)
(***************************************************************************)
EXTENDS Integers, Sequences, SequencesExt

CONSTANTS
  Client,
  Key,
  Requests     \* what a clerk may ask: [op, key, value, client, id]

VARIABLES
  effects,     \* the updates that took effect, in order
  call,        \* per client: the request under way and how many effects preceded it
  returned     \* per client: what its last call returned; an update returns nothing

vars == <<effects, call, returned>>

Idle == [request |-> [op |-> "none"], since |-> 0]
IsUpdate(r) == r.op \in {"Put", "Append"}

\* The map after a sequence of updates; a key it does not hold has no value.
Update(db, u) ==
  CASE u.op = "Put"    -> [db EXCEPT ![u.key] = u.value]
    [] u.op = "Append" -> [db EXCEPT ![u.key] = @ \o u.value]

Replay(updates) == FoldLeft(Update, [k \in Key |-> <<>>], updates)

\* The values a Get may return.
Readable(c) ==
  {Replay(SubSeq(effects, 1, n))[call[c].request.key] : n \in call[c].since..Len(effects)}

Init ==
  /\ effects = <<>>
  /\ call = [c \in Client |-> Idle]
  /\ returned = [c \in Client |-> <<>>]

Invoke(c) ==
  /\ call[c] = Idle
  /\ \E r \in {q \in Requests : q.client = c /\ q \notin ToSet(effects)} :
       call' = [call EXCEPT ![c] = [request |-> r, since |-> Len(effects)]]
  /\ UNCHANGED <<effects, returned>>

TakeEffect(c) ==
  /\ IsUpdate(call[c].request)
  /\ call[c].request \notin ToSet(effects)
  /\ effects' = Append(effects, call[c].request)
  /\ UNCHANGED <<call, returned>>

ReturnUpdate(c) ==
  /\ IsUpdate(call[c].request)
  /\ call[c].request \in ToSet(effects)
  /\ call' = [call EXCEPT ![c] = Idle]
  /\ returned' = [returned EXCEPT ![c] = <<>>]
  /\ UNCHANGED effects

ReturnGet(c) ==
  /\ call[c].request.op = "Get"
  /\ \E value \in Readable(c) : returned' = [returned EXCEPT ![c] = value]
  /\ call' = [call EXCEPT ![c] = Idle]
  /\ UNCHANGED effects

Next == \E c \in Client : Invoke(c) \/ TakeEffect(c) \/ ReturnUpdate(c) \/ ReturnGet(c)

Spec == Init /\ [][Next]_vars

=============================================================================
