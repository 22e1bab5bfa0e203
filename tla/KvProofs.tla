------------------------------ MODULE KvProofs ------------------------------
(***************************************************************************)
(* What holds of Kv for any number of servers and clients, and any         *)
(* workload: types, and that no two handlers of a server share a queue.    *)
(* And for any workload whose clients make their updates before they read: *)
(* every replica is the replay of its log, and the servers together are    *)
(* the one map of KvService.                                               *)
(***************************************************************************)
EXTENDS Kv, TLAPS, SequenceTheorems, WellFoundedInduction

\* Whose handler runs has called.
HasCalled == \A h \in handlers : clerk[h.client].requestId > 0

IInv == TypeOK /\ QueueOwned /\ HasCalled

-----------------------------------------------------------------------------
(* The operators of the model *)

\* What a client asks is a command.
LEMMA RequestType ==
  ASSUME workload \in Workloads, NEW c \in Client, NEW id \in 1..Len(workload.program[c])
  PROVE  Request(c, id) \in Command
<1>1. workload.program[c] \in Seq(Operation)
  BY WorkloadsAssumption
<1>2. workload.program[c][id] \in Operation
  BY <1>1, ElementOfSeq
<1>3. id \in Nat
  BY <1>1, LenProperties
<1> QED
  BY <1>2, <1>3, EmptySeq DEF Request, RequestOf, Operation, Command

\* Taking the leader's first entries never shortens a follower's log.
LEMMA LogWithType ==
  ASSUME RaftType, NEW t \in Server, NEW n \in 0..Len(logs[latest])
  PROVE  /\ LogWith(t, n) \in Seq(Command)
         /\ Len(LogWith(t, n)) >= Len(logs[t])
<1> DEFINE front == SubSeq(logs[latest], 1, n)
           tail == SubSeq(logs[t], n + 1, Len(logs[t]))
<1>1. logs[latest] \in Seq(Command) /\ logs[t] \in Seq(Command)
  BY DEF RaftType
<1>2. Len(logs[latest]) \in Nat /\ Len(logs[t]) \in Nat
  BY <1>1, LenProperties
<1>3. front \in Seq(Command) /\ Len(front) = n
  <2>1. \A i \in 1..n : logs[latest][i] \in Command
    BY <1>1, <1>2, ElementOfSeq
  <2> QED
    BY <1>1, <1>2, <2>1, SubSeqProperties
<1>4. tail \in Seq(Command) /\ Len(tail) = IF n + 1 <= Len(logs[t]) THEN Len(logs[t]) - n ELSE 0
  <2>1. \A i \in n + 1..Len(logs[t]) : logs[t][i] \in Command
    BY <1>1, <1>2, ElementOfSeq
  <2> QED
    BY <1>1, <1>2, <2>1, SubSeqProperties
<1>5. front \o tail \in Seq(Command) /\ Len(front \o tail) = Len(front) + Len(tail)
  BY <1>3, <1>4, ConcatProperties
<1>6. LogWith(t, n) = front \o tail
  BY DEF LogWith
<1> HIDE DEF front, tail
<1>7. Len(front) + Len(tail) >= Len(logs[t])
  BY <1>2, <1>3, <1>4
<1> QED
  BY <1>5, <1>6, <1>7

\* A committed command is a command.
LEMMA ChosenType ==
  ASSUME RaftType, NEW i \in Nat, i > 0, i <= Len(chosen)
  PROVE  chosen[i] \in Command
BY ElementOfSeq, LenProperties DEF RaftType

\* What is executed leaves a map.
LEMMA StoreAfter ==
  ASSUME NEW db \in [Key -> Seq(Value)], NEW op \in Command
  PROVE  /\ ExecutePutOpOnKVDB(db, op) \in [Key -> Seq(Value)]
         /\ ExecuteAppendOpOnKVDB(db, op) \in [Key -> Seq(Value)]
<1>1. op.key \in Key /\ op.value \in Seq(Value)
  BY DEF Command
<1>2. db[op.key] \o op.value \in Seq(Value)
  BY <1>1, ConcatProperties
<1> QED
  BY <1>1, <1>2 DEF ExecutePutOpOnKVDB, ExecuteAppendOpOnKVDB

\* Steps that make no handler take an index keep queues owned.
LEMMA NoNewIndex ==
  ASSUME QueueOwned, \A f \in handlers' : f \in handlers \/ f.at \notin HasIndex
  PROVE  QueueOwned'
BY DEF QueueOwned, HasIndex, HasQueue

\* So do the steps of a handler from one state with an index to the next.
LEMMA SameIndex ==
  ASSUME QueueOwned, NEW h \in handlers, NEW g, Becomes(h, g),
         h.at \in HasIndex, g.server = h.server, g.raftIndex = h.raftIndex
  PROVE  QueueOwned'
BY DEF QueueOwned, Becomes, HasIndex, HasQueue

\* The first state of a handler.
LEMMA HandlerIsState ==
  ASSUME NEW c \in Client, NEW call \in Nat, NEW server \in Server, NEW op \in Command
  PROVE  /\ Handler(c, call, server, op) \in HandlerState
         /\ Handler(c, call, server, op).at = "start"
         /\ Handler(c, call, server, op).client = c
<1>1. NoReply \in Reply
  BY EmptySeq DEF NoReply, Reply
<1> QED
  BY <1>1 DEF Handler, HandlerState

-----------------------------------------------------------------------------
(* Steps of Raft *)

LEMMA InitHolds == Init => IInv
<1> SUFFICES ASSUME Init PROVE IInv
  OBVIOUS
<1>1. /\ workload \in [program : [Client -> Seq(Operation)], leader : Server,
                       calls : Nat, elections : Nat, failures : Nat]
      /\ 0 \in Server
  BY WorkloadsAssumption, ServersAssumption DEF Init, Server
<1>2. RaftType
  BY <1>1, EmptySeq DEF Init, RaftType
<1>3. StoreType
  BY EmptySeq, <1>2 DEF Init, StoreType
<1>4. ClientType
  <2>1. \A c \in Client : Len(workload.program[c]) \in Nat
    BY <1>1, LenProperties
  <2> QED
    BY <1>1, <2>1, EmptySeq DEF Init, ClientType, ClerkState
<1>5. HandlerType
  BY DEF Init, HandlerType
<1> QED
  BY <1>2, <1>3, <1>4, <1>5 DEF Init, IInv, TypeOK, QueueOwned, HasCalled

\* Steps of Raft, which only add to the logs and to what is chosen.
LEMMA RaftStep ==
  ASSUME IInv, RaftType', workload' = workload, elections' \in Nat,
         \A s \in Server : Len(logs'[s]) >= Len(logs[s]),
         Len(chosen') >= Len(chosen),
         UNCHANGED <<storeVars, waitApplyCh, applying, handlers, clientVars>>
  PROVE  IInv'
<1>1. /\ \A s \in Server : Len(logs[s]) \in Nat /\ Len(logs'[s]) \in Nat
      /\ Len(chosen) \in Nat /\ Len(chosen') \in Nat
  BY LenProperties DEF IInv, TypeOK, RaftType
<1>2. StoreType'
  BY <1>1 DEF IInv, TypeOK, StoreType, storeVars
<1>3. ClientType'
  BY DEF IInv, TypeOK, ClientType, clientVars
<1>4. HandlerType'
  <2>1. \A h \in handlers : h.server \in Server
    BY DEF IInv, TypeOK, HandlerType, HandlerState
  <2> QED
    BY <1>1, <2>1 DEF IInv, TypeOK, HandlerType
<1> QED
  BY <1>2, <1>3, <1>4 DEF IInv, TypeOK, QueueOwned, HasCalled, clientVars

LEMMA ChooseKeeps == ASSUME IInv, Choose PROVE IInv'
<1>1. logs[latest] \in Seq(Command) /\ chosen \in Seq(Command)
  BY DEF IInv, TypeOK, RaftType
<1>2. Len(chosen) \in Nat /\ Len(logs[latest]) \in Nat
  BY <1>1, LenProperties
<1>3. logs[latest][Len(chosen) + 1] \in Command
  BY <1>1, <1>2, ElementOfSeq DEF Choose
<1>4. chosen' \in Seq(Command) /\ Len(chosen') = Len(chosen) + 1
  BY <1>1, <1>3, AppendProperties DEF Choose
<1>5. RaftType'
  BY <1>4 DEF IInv, TypeOK, RaftType, Choose
<1>6. \A s \in Server : Len(logs'[s]) >= Len(logs[s])
  BY LenProperties DEF IInv, TypeOK, RaftType, Choose
<1> QED
  BY <1>2, <1>4, <1>5, <1>6, RaftStep DEF Choose, IInv, TypeOK, ClientType

LEMMA ElectKeeps == ASSUME IInv, NEW t \in Server, Elect(t) PROVE IInv'
<1>1. PICK n \in 0..Len(logs[latest]) : logs' = [logs EXCEPT ![t] = LogWith(t, n)]
  BY DEF Elect
<1>2. LogWith(t, n) \in Seq(Command) /\ Len(LogWith(t, n)) >= Len(logs[t])
  BY LogWithType DEF IInv, TypeOK
<1>3. RaftType'
  BY <1>1, <1>2 DEF IInv, TypeOK, RaftType, Elect
<1>4. \A s \in Server : Len(logs'[s]) >= Len(logs[s])
  BY <1>1, <1>2, LenProperties DEF IInv, TypeOK, RaftType
<1>5. Len(chosen') >= Len(chosen) /\ elections' \in Nat
  BY LenProperties DEF IInv, TypeOK, RaftType, ClientType, Elect
<1> QED
  BY <1>3, <1>4, <1>5, RaftStep DEF Elect

LEMMA StepDownKeeps == ASSUME IInv, NEW s \in Server, StepDown(s) PROVE IInv'
<1>1. RaftType'
  BY DEF IInv, TypeOK, RaftType, StepDown
<1>2. /\ \A i \in Server : Len(logs'[i]) >= Len(logs[i])
      /\ Len(chosen') >= Len(chosen)
  BY LenProperties DEF IInv, TypeOK, RaftType, StepDown
<1> QED
  BY <1>1, <1>2, RaftStep DEF StepDown, IInv, TypeOK, ClientType

-----------------------------------------------------------------------------
(* Steps of the apply loop *)

\* What the apply loop does not touch.
LEMMA StoreStep ==
  ASSUME IInv, StoreType', UNCHANGED <<raftVars, waitApplyCh, handlers, clientVars>>
  PROVE  IInv'
BY DEF IInv, TypeOK, RaftType, ClientType, HandlerType, QueueOwned, HasCalled, raftVars, clientVars

LEMMA GetCommandKeeps == ASSUME IInv, NEW s \in Server, GetCommandFromRaft(s) PROVE IInv'
<1>1. Len(chosen) \in Nat /\ applied[s] \in Nat
  BY LenProperties DEF IInv, TypeOK, RaftType, StoreType
<1>2. CASE applying' = [applying EXCEPT ![s] = "execute"] /\ UNCHANGED applied
  <2>1. StoreType'
    BY <1>1, <1>2 DEF IInv, TypeOK, StoreType, GetCommandFromRaft, raftVars
  <2> QED
    BY <2>1, StoreStep DEF GetCommandFromRaft
<1>3. CASE /\ applying' = [applying EXCEPT ![s] = "send"]
           /\ applied' = [applied EXCEPT ![s] = @ + 1]
  <2>1. StoreType'
    BY <1>1, <1>3 DEF IInv, TypeOK, StoreType, GetCommandFromRaft, raftVars
  <2> QED
    BY <2>1, StoreStep DEF GetCommandFromRaft
<1> QED
  BY <1>2, <1>3 DEF GetCommandFromRaft

LEMMA ExecuteKeeps == ASSUME IInv, NEW s \in Server, Execute(s) PROVE IInv'
<1> DEFINE op == chosen[applied[s] + 1]
<1>1. Len(chosen) \in Nat /\ applied[s] \in Nat /\ applied[s] < Len(chosen)
  BY LenProperties DEF IInv, TypeOK, RaftType, StoreType, Execute
<1>2. op \in Command
  BY <1>1, ChosenType DEF IInv, TypeOK
<1>3. kvDB[s] \in [Key -> Seq(Value)]
  BY DEF IInv, TypeOK, StoreType
<1>4. /\ ExecutePutOpOnKVDB(kvDB[s], op) \in [Key -> Seq(Value)]
      /\ ExecuteAppendOpOnKVDB(kvDB[s], op) \in [Key -> Seq(Value)]
  BY <1>2, <1>3, StoreAfter
<1>5. kvDB' \in [Server -> [Key -> Seq(Value)]]
  BY <1>4 DEF IInv, TypeOK, StoreType, Execute
<1>6. lastRequestId' \in [Server -> [Client -> Nat]]
  BY <1>2 DEF IInv, TypeOK, StoreType, Execute, Command
<1>7. StoreType'
  BY <1>1, <1>5, <1>6 DEF IInv, TypeOK, StoreType, Execute, raftVars
<1> QED
  BY <1>7, StoreStep DEF Execute

LEMMA SendKeeps == ASSUME IInv, NEW s \in Server, SendMessageToWaitChan(s) PROVE IInv'
<1>1. /\ RaftType' /\ ClientType' /\ QueueOwned' /\ HasCalled'
  BY DEF IInv, TypeOK, RaftType, ClientType, QueueOwned, HasCalled, SendMessageToWaitChan,
         raftVars, clientVars
<1>2. StoreType'
  BY DEF IInv, TypeOK, StoreType, SendMessageToWaitChan, storeVars, raftVars
<1>3. chosen[applied[s]] \in Command
  BY ChosenType DEF IInv, TypeOK, StoreType, SendMessageToWaitChan
<1>4. HandlerType'
  <2>1. CASE applied[s] \in DOMAIN waitApplyCh[s]
    <3> DEFINE queue == Append(waitApplyCh[s][applied[s]], chosen[applied[s]])
    <3>1. queue \in Seq(Command)
      BY <1>3, <2>1, AppendProperties DEF IInv, TypeOK, HandlerType
    <3>2. waitApplyCh' = [waitApplyCh EXCEPT ![s] = [@ EXCEPT ![applied[s]] = queue]]
      BY <2>1 DEF SendMessageToWaitChan
    <3> HIDE DEF queue
    <3> QED
      BY <2>1, <3>1, <3>2 DEF IInv, TypeOK, HandlerType, SendMessageToWaitChan, raftVars
  <2>2. CASE applied[s] \notin DOMAIN waitApplyCh[s]
    BY <2>2 DEF IInv, TypeOK, HandlerType, SendMessageToWaitChan, raftVars
  <2> QED
    BY <2>1, <2>2
<1> QED
  BY <1>1, <1>2, <1>4 DEF IInv, TypeOK

-----------------------------------------------------------------------------
(* Steps of a handler *)

\* What an answer leaves: the other handlers, and perhaps this one without its index.
LEMMA AnswerLeaves ==
  ASSUME IInv, NEW h \in handlers, NEW reply \in Reply, Answer(h, reply)
  PROVE  /\ handlers' \subseteq HandlerState
         /\ \A f \in handlers' : f \in handlers \ {h} \/ f.at = "answered"
         /\ \A f \in handlers' : f \in handlers \/ f.client = h.client
<1>1. handlers \subseteq HandlerState /\ h \in HandlerState
  BY DEF IInv, TypeOK, HandlerType
<1>2. [h EXCEPT !.at = "answered", !.reply = reply] \in HandlerState
  BY <1>1 DEF HandlerState
<1>3. /\ [h EXCEPT !.at = "answered", !.reply = reply].at = "answered"
      /\ [h EXCEPT !.at = "answered", !.reply = reply].client = h.client
  BY <1>1 DEF HandlerState
<1> QED
  BY <1>1, <1>2, <1>3 DEF Answer, Becomes

\* A handler goes on, with its index, and nothing else changes but queues and ids.
LEMMA HandlerGoesOn ==
  ASSUME IInv, NEW h \in handlers, NEW g \in HandlerState, Becomes(h, g),
         h.at \in HasIndex, g.at \in HasQueue,
         g.server = h.server, g.raftIndex = h.raftIndex, g.client = h.client,
         g.raftIndex \in DOMAIN waitApplyCh'[g.server],
         DOMAIN waitApplyCh' = Server,
         \A s \in Server : /\ DOMAIN waitApplyCh[s] \subseteq DOMAIN waitApplyCh'[s]
                           /\ \A i \in DOMAIN waitApplyCh'[s] : waitApplyCh'[s][i] \in Seq(Command),
         StoreType', UNCHANGED <<raftVars, clientVars>>
  PROVE  IInv'
<1>1. RaftType' /\ ClientType'
  BY DEF IInv, TypeOK, RaftType, ClientType, raftVars, clientVars
<1>2. QueueOwned'
  BY SameIndex DEF IInv
<1>3. handlers' \subseteq HandlerState /\ \A f \in handlers' : f \in handlers \/ f = g
  BY DEF IInv, TypeOK, HandlerType, Becomes
<1>4. HasCalled'
  BY <1>3 DEF IInv, HasCalled, clientVars
<1>5. HandlerType'
  <2>1. /\ h.raftIndex \in 1..Len(logs[h.server])
        /\ \A f \in handlers : f.server \in Server
    BY DEF IInv, TypeOK, HandlerType, HandlerState
  <2>2. \A f \in handlers' : f.at \in HasIndex => f.raftIndex \in 1..Len(logs'[f.server])
    BY <1>3, <2>1 DEF IInv, TypeOK, HandlerType, raftVars
  <2>3. \A f \in handlers' : f.at \in HasQueue => f.raftIndex \in DOMAIN waitApplyCh'[f.server]
    BY <1>3, <2>1 DEF IInv, TypeOK, HandlerType
  <2> QED
    BY <1>3, <2>2, <2>3 DEF HandlerType
<1> QED
  BY <1>1, <1>2, <1>4, <1>5 DEF IInv, TypeOK

\* The same without a change of any queue.
LEMMA HandlerThinks ==
  ASSUME IInv, NEW h \in handlers, NEW g \in HandlerState, Becomes(h, g),
         h.at \in HasQueue, g.at \in HasQueue,
         g.server = h.server, g.raftIndex = h.raftIndex, g.client = h.client,
         StoreType', UNCHANGED <<raftVars, waitApplyCh, clientVars>>
  PROVE  IInv'
<1>1. h.at \in HasIndex
  BY DEF HasIndex
<1>2. /\ g.raftIndex \in DOMAIN waitApplyCh'[g.server]
      /\ DOMAIN waitApplyCh' = Server
      /\ \A s \in Server : /\ DOMAIN waitApplyCh[s] \subseteq DOMAIN waitApplyCh'[s]
                           /\ \A i \in DOMAIN waitApplyCh'[s] : waitApplyCh'[s][i] \in Seq(Command)
  BY DEF IInv, TypeOK, HandlerType
<1> QED
  BY <1>1, <1>2, HandlerGoesOn

\* What stays of the store.
LEMMA StoreSame == ASSUME IInv, UNCHANGED <<raftVars, storeVars, applying>> PROVE StoreType'
BY DEF IInv, TypeOK, StoreType, raftVars, storeVars

\* A leader's new index is behind every index in use at its server.
LEMMA StartKeeps == ASSUME IInv, NEW h \in handlers, Start(h) PROVE IInv'
<1>1. h \in HandlerState
  BY DEF IInv, TypeOK, HandlerType
<1>2. ClientType' /\ StoreType'
  BY DEF IInv, TypeOK, ClientType, StoreType, Start, storeVars, clientVars
<1>3. CASE ~leading[h.server]
  <2>1. ErrWrongLeader \in Reply
    BY EmptySeq DEF ErrWrongLeader, Reply
  <2>2. /\ handlers' \subseteq HandlerState
        /\ \A f \in handlers' : f \in handlers \ {h} \/ f.at = "answered"
        /\ \A f \in handlers' : f \in handlers \/ f.client = h.client
    BY <1>3, <2>1, AnswerLeaves DEF Start
  <2>3. RaftType'
    BY <1>3 DEF IInv, TypeOK, RaftType, Start
  <2>4. QueueOwned'
    <3>1. \A f \in handlers' : f \in handlers \/ f.at \notin HasIndex
      BY <2>2 DEF HasIndex, HasQueue
    <3> QED
      BY <3>1, NoNewIndex DEF IInv
  <2>5. HasCalled'
    BY <2>2 DEF IInv, HasCalled, Start, clientVars
  <2>6. HandlerType'
    <3>1. logs' = logs /\ waitApplyCh' = waitApplyCh
      BY <1>3 DEF Start
    <3>2. \A f \in handlers' : f \in handlers \/ f.at \notin HasIndex \cup HasQueue
      BY <2>2 DEF HasIndex, HasQueue
    <3> QED
      BY <2>2, <3>1, <3>2 DEF IInv, TypeOK, HandlerType
  <2> QED
    BY <1>2, <2>3, <2>4, <2>5, <2>6 DEF IInv, TypeOK
<1>4. CASE leading[h.server]
  <2> DEFINE g == [h EXCEPT !.at = "register", !.raftIndex = NewCommandIndex(h.server)]
             n == Len(logs[h.server])
  <2>1. /\ h.server \in Server /\ h.op \in Command /\ logs[h.server] \in Seq(Command)
        /\ n \in Nat
    BY <1>1, LenProperties DEF HandlerState, IInv, TypeOK, RaftType
  <2>2. Append(logs[h.server], h.op) \in Seq(Command) /\ Len(Append(logs[h.server], h.op)) = n + 1
    BY <2>1, AppendProperties
  <2>3. /\ logs' = [logs EXCEPT ![h.server] = Append(logs[h.server], h.op)]
        /\ logs \in [Server -> Seq(Command)]
    BY <1>4 DEF IInv, TypeOK, RaftType, Start
  <2>4. RaftType'
    BY <2>1, <2>2, <2>3 DEF IInv, TypeOK, RaftType, Start
  <2>5. /\ \A s \in Server : Len(logs[s]) \in Nat /\ Len(logs'[s]) >= Len(logs[s])
        /\ Len(logs'[h.server]) = n + 1
    <3>1. \A s \in Server : Len(logs[s]) \in Nat
      BY <2>3, LenProperties
    <3>2. /\ logs'[h.server] = Append(logs[h.server], h.op)
          /\ \A s \in Server \ {h.server} : logs'[s] = logs[s]
      BY <2>1, <2>3
    <3>3. Len(logs'[h.server]) = n + 1
      BY <2>2, <3>2
    <3>4. ASSUME NEW s \in Server PROVE Len(logs'[s]) >= Len(logs[s])
      <4>1. CASE s = h.server
        BY <2>1, <3>3, <4>1
      <4>2. CASE s # h.server
        BY <3>1, <3>2, <4>2
      <4> QED
        BY <4>1, <4>2
    <3> QED
      BY <3>1, <3>3, <3>4
  <2>6. /\ g \in HandlerState /\ g.at = "register" /\ g.raftIndex = n + 1
        /\ g.server = h.server /\ g.client = h.client
    <3>1. NewCommandIndex(h.server) = n + 1 /\ n + 1 \in Nat
      BY <2>1 DEF NewCommandIndex
    <3> DEFINE i == NewCommandIndex(h.server)
    <3>2. i \in Nat
      BY <3>1
    <3> HIDE DEF n, i
    <3>3. /\ [h EXCEPT !.at = "register", !.raftIndex = i] \in HandlerState
          /\ [h EXCEPT !.at = "register", !.raftIndex = i].at = "register"
          /\ [h EXCEPT !.at = "register", !.raftIndex = i].raftIndex = i
          /\ [h EXCEPT !.at = "register", !.raftIndex = i].server = h.server
          /\ [h EXCEPT !.at = "register", !.raftIndex = i].client = h.client
      BY <1>1, <3>2 DEF HandlerState, HasIndex
    <3> QED
      BY <3>1, <3>3 DEF i
  <2> HIDE DEF g
  <2>7. handlers' = (handlers \ {h}) \cup {g}
    BY <1>4 DEF Start, Becomes, g
  <2>8. \A f \in handlers : /\ f.server \in Server
                            /\ f.at \in HasIndex => f.raftIndex \in 1..Len(logs[f.server])
    BY DEF IInv, TypeOK, HandlerType, HandlerState
  <2>9. QueueOwned'
    <3>1. \A f \in handlers : f.at \in HasIndex /\ f.server = g.server => f.raftIndex # g.raftIndex
      BY <2>1, <2>6, <2>8
    <3> QED
      BY <2>7, <3>1 DEF IInv, QueueOwned, HasIndex, HasQueue
  <2>10. HasCalled'
    BY <2>6, <2>7 DEF IInv, HasCalled, Start, clientVars
  <2>11. HandlerType'
    <3>1. \A f \in handlers' : f.at \in HasIndex => f.raftIndex \in 1..Len(logs'[f.server])
      BY <2>1, <2>5, <2>6, <2>7, <2>8
    <3>2. \A f \in handlers' : f.at \in HasQueue => f.raftIndex \in DOMAIN waitApplyCh[f.server]
      BY <2>6, <2>7 DEF IInv, TypeOK, HandlerType, HasQueue
    <3> QED
      BY <2>6, <2>7, <3>1, <3>2 DEF IInv, TypeOK, HandlerType, Start
  <2> QED
    BY <1>2, <2>4, <2>9, <2>10, <2>11 DEF IInv, TypeOK
<1> QED
  BY <1>3, <1>4

LEMMA RegisterKeeps == ASSUME IInv, NEW h \in handlers, Register(h) PROVE IInv'
<1> DEFINE g == [h EXCEPT !.at = "wait"]
           queues == [i \in DOMAIN waitApplyCh[h.server] \cup {h.raftIndex} |->
                        IF i \in DOMAIN waitApplyCh[h.server] THEN waitApplyCh[h.server][i] ELSE <<>>]
<1>1. h \in HandlerState /\ h.server \in Server /\ h.at \in HasIndex /\ DOMAIN waitApplyCh = Server
  BY DEF IInv, TypeOK, HandlerType, HandlerState, HasIndex, Register
<1>2. /\ g \in HandlerState /\ g.at \in HasQueue
      /\ g.server = h.server /\ g.raftIndex = h.raftIndex /\ g.client = h.client
  BY <1>1 DEF HandlerState, HasIndex, HasQueue
<1>3. waitApplyCh' = [waitApplyCh EXCEPT ![h.server] = queues]
  BY DEF Register
<1>4. /\ DOMAIN queues = DOMAIN waitApplyCh[h.server] \cup {h.raftIndex}
      /\ \A i \in DOMAIN queues : queues[i] \in Seq(Command)
  BY <1>1, EmptySeq DEF IInv, TypeOK, HandlerType
<1>5. Becomes(h, g)
  BY DEF Register
<1> HIDE DEF queues, g
<1>6. /\ DOMAIN waitApplyCh' = Server
      /\ g.raftIndex \in DOMAIN waitApplyCh'[g.server]
      /\ \A s \in Server : /\ DOMAIN waitApplyCh[s] \subseteq DOMAIN waitApplyCh'[s]
                           /\ \A i \in DOMAIN waitApplyCh'[s] : waitApplyCh'[s][i] \in Seq(Command)
  BY <1>1, <1>2, <1>3, <1>4 DEF IInv, TypeOK, HandlerType
<1>7. StoreType'
  BY StoreSame DEF Register
<1> QED
  BY <1>1, <1>2, <1>5, <1>6, <1>7, HandlerGoesOn DEF Register

LEMMA PopKeeps == ASSUME IInv, NEW h \in handlers, Pop(h) PROVE IInv'
<1> DEFINE queue == waitApplyCh[h.server][h.raftIndex]
           mine == IsCommandOf(h, Head(queue))
           g == IF mine /\ h.op.op = "Get" THEN [h EXCEPT !.at = "get"]
                ELSE [h EXCEPT !.at = "erase", !.reply = IF mine THEN OK ELSE ErrWrongLeader]
<1>1. /\ h \in HandlerState /\ h.server \in Server /\ h.at \in HasIndex /\ h.at \in HasQueue
      /\ h.raftIndex \in DOMAIN waitApplyCh[h.server]
      /\ DOMAIN waitApplyCh = Server
  BY DEF IInv, TypeOK, HandlerType, HandlerState, HasIndex, HasQueue, Pop
<1>2. OK \in Reply /\ ErrWrongLeader \in Reply
  BY EmptySeq DEF OK, ErrWrongLeader, Reply
<1>3. /\ g \in HandlerState /\ g.at \in HasQueue
      /\ g.server = h.server /\ g.raftIndex = h.raftIndex /\ g.client = h.client
  BY <1>1, <1>2 DEF HandlerState, HasIndex, HasQueue
<1>4. Tail(queue) \in Seq(Command)
  BY <1>1, HeadTailProperties DEF IInv, TypeOK, HandlerType, Pop
<1>5. Becomes(h, g) /\ waitApplyCh' = [waitApplyCh EXCEPT ![h.server] = [@ EXCEPT ![h.raftIndex] = Tail(queue)]]
  BY DEF Pop
<1> HIDE DEF g, queue
<1>6. /\ DOMAIN waitApplyCh' = Server
      /\ \A s \in Server : /\ DOMAIN waitApplyCh[s] = DOMAIN waitApplyCh'[s]
                           /\ \A i \in DOMAIN waitApplyCh'[s] : waitApplyCh'[s][i] \in Seq(Command)
  BY <1>1, <1>4, <1>5 DEF IInv, TypeOK, HandlerType
<1>7. g.raftIndex \in DOMAIN waitApplyCh'[g.server]
  BY <1>1, <1>3, <1>6
<1>8. StoreType'
  BY StoreSame DEF Pop
<1> QED
  BY <1>1, <1>3, <1>5, <1>6, <1>7, <1>8, HandlerGoesOn DEF Pop

LEMMA TimeOutKeeps == ASSUME IInv, NEW h \in handlers, TimeOut(h) PROVE IInv'
<1> DEFINE g == IF h.op.op = "Get" THEN [h EXCEPT !.at = "getState"] ELSE [h EXCEPT !.at = "duplicate"]
<1>1. h \in HandlerState /\ h.at \in HasQueue
  BY DEF IInv, TypeOK, HandlerType, HasQueue, TimeOut
<1>2. /\ g \in HandlerState /\ g.at \in HasQueue
      /\ g.server = h.server /\ g.raftIndex = h.raftIndex /\ g.client = h.client
  BY <1>1 DEF HandlerState, HasIndex, HasQueue
<1>3. Becomes(h, g) /\ StoreType'
  BY StoreSame DEF TimeOut
<1> HIDE DEF g
<1> QED
  BY <1>1, <1>2, <1>3, HandlerThinks DEF TimeOut

LEMMA GetStateKeeps == ASSUME IInv, NEW h \in handlers, GetState(h) PROVE IInv'
<1> DEFINE g == [h EXCEPT !.at = "duplicate", !.isLeader = leading[h.server]]
<1>1. h \in HandlerState /\ h.at \in HasQueue
  BY DEF IInv, TypeOK, HandlerType, HasQueue, GetState
<1>2. leading[h.server] \in BOOLEAN
  BY <1>1 DEF HandlerState, IInv, TypeOK, RaftType
<1>3. /\ g \in HandlerState /\ g.at \in HasQueue
      /\ g.server = h.server /\ g.raftIndex = h.raftIndex /\ g.client = h.client
  BY <1>1, <1>2 DEF HandlerState, HasIndex, HasQueue
<1>4. Becomes(h, g) /\ StoreType'
  BY StoreSame DEF GetState
<1> HIDE DEF g
<1> QED
  BY <1>1, <1>3, <1>4, HandlerThinks DEF GetState

LEMMA TimedOutKeeps == ASSUME IInv, NEW h \in handlers, TimedOut(h) PROVE IInv'
<1> DEFINE duplicate == ifRequestDuplicate(h.server, h.op)
           g == IF h.op.op = "Get" /\ duplicate /\ h.isLeader THEN [h EXCEPT !.at = "get"]
                ELSE [h EXCEPT !.at = "erase",
                        !.reply = IF IsUpdate(h.op) /\ duplicate THEN OK ELSE ErrWrongLeader]
<1>1. h \in HandlerState /\ h.at \in HasQueue
  BY DEF IInv, TypeOK, HandlerType, HasQueue, TimedOut
<1>2. OK \in Reply /\ ErrWrongLeader \in Reply
  BY EmptySeq DEF OK, ErrWrongLeader, Reply
<1>3. /\ g \in HandlerState /\ g.at \in HasQueue
      /\ g.server = h.server /\ g.raftIndex = h.raftIndex /\ g.client = h.client
  BY <1>1, <1>2 DEF HandlerState, HasIndex, HasQueue
<1>4. Becomes(h, g) /\ StoreType'
  BY StoreSame DEF TimedOut
<1> HIDE DEF g
<1> QED
  BY <1>1, <1>3, <1>4, HandlerThinks DEF TimedOut

LEMMA ExecuteGetKeeps == ASSUME IInv, NEW h \in handlers, ExecuteGetOpOnKVDB(h) PROVE IInv'
<1> DEFINE value == kvDB[h.server][h.op.key]
           reply == [err |-> IF value = <<>> THEN "ErrNoKey" ELSE "OK", value |-> value]
           g == [h EXCEPT !.at = "erase", !.reply = reply]
<1>1. /\ h \in HandlerState /\ h.at \in HasQueue
      /\ h.server \in Server /\ h.client \in Client /\ h.op \in Command
  BY DEF IInv, TypeOK, HandlerType, HandlerState, HasQueue, ExecuteGetOpOnKVDB
<1>2. h.op.key \in Key /\ h.op.id \in Nat
  BY <1>1 DEF Command
<1>3. value \in Seq(Value)
  BY <1>1, <1>2 DEF IInv, TypeOK, StoreType
<1>4. reply \in Reply
  BY <1>3 DEF Reply
<1>5. Becomes(h, g)
  BY DEF ExecuteGetOpOnKVDB
<1> HIDE DEF reply
<1>6. /\ g \in HandlerState /\ g.at \in HasQueue
      /\ g.server = h.server /\ g.raftIndex = h.raftIndex /\ g.client = h.client
  BY <1>1, <1>4 DEF HandlerState, HasIndex, HasQueue
<1>7. StoreType'
  BY <1>1, <1>2 DEF IInv, TypeOK, StoreType, ExecuteGetOpOnKVDB, raftVars
<1> HIDE DEF g
<1> QED
  BY <1>1, <1>5, <1>6, <1>7, HandlerThinks DEF ExecuteGetOpOnKVDB

\* Only the handler's own queue goes, because nobody else waits at its index.
LEMMA EraseKeeps == ASSUME IInv, NEW h \in handlers, Erase(h) PROVE IInv'
<1>1. /\ h \in HandlerState /\ h.at \in HasIndex /\ h.server \in Server /\ h.reply \in Reply
      /\ DOMAIN waitApplyCh = Server
  BY DEF IInv, TypeOK, HandlerType, HandlerState, HasIndex, HasQueue, Erase
<1>2. /\ handlers' \subseteq HandlerState
      /\ \A f \in handlers' : f \in handlers \ {h} \/ f.at = "answered"
      /\ \A f \in handlers' : f \in handlers \/ f.client = h.client
  BY <1>1, AnswerLeaves DEF Erase
<1>3. RaftType' /\ StoreType' /\ ClientType'
  BY DEF IInv, TypeOK, RaftType, StoreType, ClientType, Erase, raftVars, storeVars, clientVars
<1>4. QueueOwned'
  <2>1. \A f \in handlers' : f \in handlers \/ f.at \notin HasIndex
    BY <1>2 DEF HasIndex, HasQueue
  <2> QED
    BY <2>1, NoNewIndex DEF IInv
<1>5. HasCalled'
  BY <1>2 DEF IInv, HasCalled, Erase, clientVars
<1>6. HandlerType'
  <2> DEFINE queues == [i \in DOMAIN waitApplyCh[h.server] \ {h.raftIndex} |-> waitApplyCh[h.server][i]]
  <2>1. waitApplyCh' = [waitApplyCh EXCEPT ![h.server] = queues]
    BY DEF Erase
  <2>2. /\ DOMAIN queues = DOMAIN waitApplyCh[h.server] \ {h.raftIndex}
        /\ \A i \in DOMAIN queues : queues[i] \in Seq(Command)
    BY <1>1 DEF IInv, TypeOK, HandlerType
  <2> HIDE DEF queues
  <2>3. /\ DOMAIN waitApplyCh' = Server
        /\ \A s \in Server : \A i \in DOMAIN waitApplyCh'[s] : waitApplyCh'[s][i] \in Seq(Command)
    BY <1>1, <2>1, <2>2 DEF IInv, TypeOK, HandlerType
  <2>4. \A f \in handlers \ {h} :
          f.at \in HasQueue /\ f.server = h.server => f.raftIndex # h.raftIndex
    BY <1>1 DEF IInv, QueueOwned, HasIndex
  <2>5. \A f \in handlers \ {h} : f.at \in HasQueue => f.raftIndex \in DOMAIN waitApplyCh'[f.server]
    <3>1. \A f \in handlers : f.server \in Server
      BY DEF IInv, TypeOK, HandlerType, HandlerState
    <3> QED
      BY <1>1, <2>1, <2>2, <2>4, <3>1 DEF IInv, TypeOK, HandlerType
  <2>6. \A f \in handlers' : f \in handlers \ {h} \/ f.at \notin HasIndex \cup HasQueue
    BY <1>2 DEF HasIndex, HasQueue
  <2> QED
    BY <1>2, <2>3, <2>5, <2>6 DEF IInv, TypeOK, HandlerType, Erase, raftVars
<1> QED
  BY <1>3, <1>4, <1>5, <1>6 DEF IInv, TypeOK

-----------------------------------------------------------------------------
(* Steps of a clerk *)

\* A call of an operation of the client's program, with some of the handlers gone.
LEMMA CallKeeps ==
  ASSUME IInv, NEW c \in Client, NEW id \in 1..Len(workload.program[c]), NEW server \in Server,
         NEW rest, rest \subseteq handlers, Call(c, id, server, rest),
         UNCHANGED <<raftVars, storeVars, waitApplyCh, applying, returned>>, failures' \in Nat
  PROVE  IInv'
<1> DEFINE h == Handler(c, calls + 1, server, Request(c, id))
<1>1. RaftType' /\ StoreType'
  BY DEF IInv, TypeOK, RaftType, StoreType, raftVars, storeVars
<1>2. workload.program[c] \in Seq(Operation) /\ Len(workload.program[c]) \in Nat
  BY WorkloadsAssumption, LenProperties DEF IInv, TypeOK, RaftType
<1>3. calls + 1 \in Nat /\ id \in Nat /\ id > 0
  BY <1>2 DEF IInv, TypeOK, ClientType
<1>4. h \in HandlerState /\ h.at = "start" /\ h.client = c
  BY <1>3, RequestType, HandlerIsState DEF IInv, TypeOK, RaftType
<1>5. /\ handlers' = rest \cup {h}
      /\ clerk' = [clerk EXCEPT ![c] = [@ EXCEPT !.requestId = id, !.server = server,
                                                 !.call = calls + 1, !.busy = TRUE]]
  BY DEF Call
<1> HIDE DEF h
<1>6. /\ clerk' \in [Client -> ClerkState]
      /\ clerk'[c].requestId = id
      /\ \A d \in Client \ {c} : clerk'[d] = clerk[d]
  BY <1>3, <1>5 DEF IInv, TypeOK, ClientType, ClerkState
<1>7. ClientType'
  <2>1. calls' \in Nat
    BY <1>3 DEF Call
  <2>2. \A d \in Client : /\ clerk'[d].requestId <= Len(workload.program[d])
                          /\ clerk'[d].busy => clerk'[d].requestId > 0
    <3> TAKE d \in Client
    <3>1. CASE d = c
      BY <1>2, <1>3, <1>6, <3>1
    <3>2. CASE d # c
      BY <1>6, <3>2 DEF IInv, TypeOK, ClientType
    <3> QED
      BY <3>1, <3>2
  <2> QED
    BY <1>6, <2>1, <2>2 DEF IInv, TypeOK, ClientType, raftVars
<1>8. QueueOwned'
  <2>1. \A f \in handlers' : f \in handlers \/ f.at \notin HasIndex
    BY <1>4, <1>5 DEF HasIndex, HasQueue
  <2> QED
    BY <2>1, NoNewIndex DEF IInv
<1>9. HasCalled'
  <2>1. \A f \in handlers : f.client \in Client
    BY DEF IInv, TypeOK, HandlerType, HandlerState
  <2> QED
    BY <1>3, <1>4, <1>5, <1>6, <2>1 DEF IInv, HasCalled
<1>10. HandlerType'
  <2>1. h.at \notin HasIndex \cup HasQueue
    BY <1>4 DEF HasIndex, HasQueue
  <2> QED
    BY <1>4, <1>5, <2>1 DEF IInv, TypeOK, HandlerType, raftVars
<1> QED
  BY <1>1, <1>7, <1>8, <1>9, <1>10 DEF IInv, TypeOK

LEMMA NextServerType == ASSUME IInv, NEW c \in Client PROVE NextServer(c) \in Server
BY ServersAssumption DEF IInv, TypeOK, ClientType, ClerkState, NextServer, Server

LEMMA InvokeKeeps == ASSUME IInv, NEW c \in Client, Invoke(c) PROVE IInv'
<1>1. Len(workload.program[c]) \in Nat /\ clerk[c].requestId \in Nat
  BY WorkloadsAssumption, LenProperties DEF IInv, TypeOK, RaftType, ClientType, ClerkState
<1>2. clerk[c].requestId + 1 \in 1..Len(workload.program[c]) /\ clerk[c].recentLeaderId \in Server
  BY <1>1 DEF Invoke, IInv, TypeOK, ClientType, ClerkState
<1>3. failures' \in Nat
  BY DEF Invoke, IInv, TypeOK, ClientType
<1> QED
  BY <1>2, <1>3, CallKeeps DEF Invoke

LEMMA FailKeeps == ASSUME IInv, NEW c \in Client, Fail(c) PROVE IInv'
<1>1. Len(workload.program[c]) \in Nat /\ clerk[c].requestId \in Nat
  BY WorkloadsAssumption, LenProperties DEF IInv, TypeOK, RaftType, ClientType, ClerkState
<1>2. clerk[c].requestId \in 1..Len(workload.program[c])
  BY <1>1 DEF Fail, IInv, TypeOK, ClientType
<1>3. failures' \in Nat
  BY DEF Fail, IInv, TypeOK, ClientType
<1> QED
  BY <1>2, <1>3, CallKeeps, NextServerType DEF Fail

LEMMA ReceiveKeeps == ASSUME IInv, NEW c \in Client, Receive(c) PROVE IInv'
<1>1. PICK h \in handlers :
        /\ h.client = c /\ h.call = clerk[c].call /\ h.at = "answered"
        /\ IF h.reply.err = "ErrWrongLeader"
             THEN /\ Call(c, clerk[c].requestId, NextServer(c), handlers \ {h})
                  /\ UNCHANGED returned
             ELSE /\ clerk' = [clerk EXCEPT ![c].busy = FALSE,
                                 ![c].recentLeaderId = IF h.reply.err = "OK" THEN h.server ELSE @]
                  /\ returned' = [returned EXCEPT ![c] = h.reply.value]
                  /\ handlers' = handlers \ {h}
                  /\ UNCHANGED calls
        /\ UNCHANGED <<raftVars, storeVars, waitApplyCh, applying, since, failures>>
  BY DEF Receive
<1>2. CASE h.reply.err = "ErrWrongLeader"
  <2>1. Len(workload.program[c]) \in Nat /\ clerk[c].requestId \in Nat
    BY WorkloadsAssumption, LenProperties DEF IInv, TypeOK, RaftType, ClientType, ClerkState
  <2>2. clerk[c].requestId \in 1..Len(workload.program[c])
    BY <1>1, <2>1 DEF IInv, TypeOK, ClientType, HasCalled
  <2>3. failures' \in Nat
    BY <1>1 DEF IInv, TypeOK, ClientType
  <2> QED
    BY <1>1, <1>2, <2>2, <2>3, CallKeeps, NextServerType
<1>3. CASE h.reply.err # "ErrWrongLeader"
  <2>1. h \in HandlerState /\ h.server \in Server /\ h.reply.value \in Seq(Value)
    BY DEF IInv, TypeOK, HandlerType, HandlerState, Reply
  <2>2. /\ clerk' \in [Client -> ClerkState]
        /\ \A d \in Client : /\ clerk'[d].requestId = clerk[d].requestId
                             /\ clerk'[d].busy => clerk[d].busy
    <3> DEFINE leader == IF h.reply.err = "OK" THEN h.server ELSE clerk[c].recentLeaderId
               known == [clerk[c] EXCEPT !.busy = FALSE, !.recentLeaderId = leader]
    <3>1. clerk \in [Client -> ClerkState] /\ leader \in Server
      BY <2>1 DEF IInv, TypeOK, ClientType, ClerkState
    <3>2. clerk' = [clerk EXCEPT ![c] = known]
      BY <1>1, <1>3, <3>1
    <3> HIDE DEF leader
    <3>3. known \in ClerkState /\ known.requestId = clerk[c].requestId /\ ~known.busy
      BY <3>1 DEF ClerkState
    <3> HIDE DEF known
    <3> QED
      BY <3>1, <3>2, <3>3
  <2>3. RaftType' /\ StoreType'
    BY <1>1 DEF IInv, TypeOK, RaftType, StoreType, raftVars, storeVars
  <2>4. ClientType'
    BY <1>1, <1>3, <2>1, <2>2 DEF IInv, TypeOK, ClientType, raftVars
  <2>5. HandlerType' /\ QueueOwned'
    BY <1>1, <1>3 DEF IInv, TypeOK, HandlerType, QueueOwned, raftVars
  <2>6. HasCalled'
    BY <1>1, <1>3, <2>2 DEF IInv, HasCalled, TypeOK, HandlerType, HandlerState
  <2> QED
    BY <2>3, <2>4, <2>5, <2>6 DEF IInv, TypeOK
<1> QED
  BY <1>2, <1>3

-----------------------------------------------------------------------------
(* The theorems *)

\* Every step of Raft, of an apply loop, of a handler or of a clerk keeps IInv.
LEMMA NextKeeps == IInv /\ [Next]_vars => IInv'
<1> SUFFICES ASSUME IInv, [Next]_vars PROVE IInv'
  OBVIOUS
<1>1. CASE Choose
  BY <1>1, ChooseKeeps
<1>2. ASSUME NEW s \in Server, Elect(s) \/ StepDown(s) \/ ReadRaftApplyCommandLoop(s) PROVE IInv'
  BY <1>2, ElectKeeps, StepDownKeeps, GetCommandKeeps, ExecuteKeeps, SendKeeps
     DEF ReadRaftApplyCommandLoop
<1>3. ASSUME NEW h \in handlers, Handle(h) PROVE IInv'
  BY <1>3, StartKeeps, RegisterKeeps, PopKeeps, TimeOutKeeps, GetStateKeeps, TimedOutKeeps,
     ExecuteGetKeeps, EraseKeeps DEF Handle
<1>4. ASSUME NEW c \in Client, Invoke(c) \/ Receive(c) \/ Fail(c) PROVE IInv'
  BY <1>4, InvokeKeeps, ReceiveKeeps, FailKeeps
<1>5. CASE UNCHANGED vars
  BY <1>5 DEF vars, raftVars, storeVars, clientVars, IInv, TypeOK, RaftType, StoreType,
              ClientType, HandlerType, QueueOwned, HasCalled
<1> QED
  BY <1>1, <1>2, <1>3, <1>4, <1>5 DEF Next

\* The inductive invariant: what the handlers, the apply loops and the clerks
\* keep, whatever the workload.
THEOREM IInvAlways == Spec => []IInv
<1> QED
  BY InitHolds, NextKeeps, PTL DEF Spec

\* Every reachable state has the declared types: the apply loop stays inside the
\* committed commands, and a handler that waits has a queue.
THEOREM TypeCorrect == Spec => []TypeOK
<1>1. IInv => TypeOK
  BY DEF IInv
<1> QED
  BY <1>1, IInvAlways, PTL

\* No two handlers of a server wait at one index, across any changes of leader:
\* the delete at the end of Get and PutAppend takes the handler's own queue.
THEOREM QueuesOwned == Spec => []QueueOwned
<1>1. IInv => QueueOwned
  BY DEF IInv
<1> QED
  BY <1>1, IInvAlways, PTL

-----------------------------------------------------------------------------
(* The folds of the service, over the commands of a log *)

\* Induction, for a set in place of a predicate.
LEMMA NatSet ==
  ASSUME NEW S, 0 \in S, \A n \in Nat : n \in S => n + 1 \in S
  PROVE  \A n \in Nat : n \in S
<1> DEFINE out  == {n \in Nat : n \notin S}
           less == OpToRel(<, Nat)
<1>1. SUFFICES out = {}
  OBVIOUS
<1>2. SUFFICES ASSUME out # {} PROVE FALSE
  OBVIOUS
<1>3. \E x \in out : \A y \in out : ~ (<<y, x>> \in less)
  <2>1. out \subseteq Nat
    OBVIOUS
  <2> HIDE DEF out
  <2> QED
    BY <1>2, <2>1, WFMin, NatLessThanWellFounded
<1>4. PICK x \in out : \A y \in out : ~ (<<y, x>> \in less)
  BY <1>3
<1>5. \A y \in out : ~ (y < x)
  BY <1>4 DEF OpToRel
<1>6. x # 0
  BY DEF out
<1>7. x - 1 \in Nat /\ x - 1 < x
  BY <1>6
<1>8. x - 1 \in S
  BY <1>5, <1>7
<1>9. x \in S
  <2>1. (x - 1) + 1 = x
    OBVIOUS
  <2> QED
    BY <1>7, <1>8, <2>1
<1> QED
  BY <1>9

\* What the folds do with one more command.  They choose a function on sets of
\* positions; they are proved about together, by their names.
FoldStep(fold, v, e) ==
  CASE fold = "Replay"       -> Service!Update(v, e)
    [] fold = "FirstUpdates" -> FirstUpdate(v, e)

FoldsTo(f, fold, base, s, n) ==
  f = [p \in SUBSET (1..n) |->
         IF p = {} THEN base ELSE FoldStep(fold, f[p \ {Max(p)}], s[Max(p)])]

\* The value of a fold after i elements.
Steps(v, fold, base, s, n) ==
  v[0] = base /\ \A i \in 1..n : v[i] = FoldStep(fold, v[i - 1], s[i])

LEMMA MaxOf ==
  ASSUME NEW n \in Nat, NEW p \in SUBSET (1..(n + 1)), n + 1 \in p
  PROVE  Max(p) = n + 1
<1>1. \A x \in p : (\A y \in p : x >= y) <=> x = n + 1
  OBVIOUS
<1>2. (CHOOSE x \in p : \A y \in p : x >= y) = n + 1
  BY <1>1
<1> QED
  BY <1>2 DEF Max

LEMMA FoldExists ==
  ASSUME NEW fold, NEW base, NEW s
  PROVE  \A n \in Nat : \E f : FoldsTo(f, fold, base, s, n)
<1> DEFINE Read(v, i) == FoldStep(fold, v, s[i])
           done == {n \in Nat : \E f : FoldsTo(f, fold, base, s, n)}
<1> HIDE DEF Read
<1>1. \A f, n : FoldsTo(f, fold, base, s, n) <=>
        f = [p \in SUBSET (1..n) |-> IF p = {} THEN base ELSE Read(f[p \ {Max(p)}], Max(p))]
  BY DEF FoldsTo, Read
<1>2. 0 \in done
  <2> DEFINE f == [p \in SUBSET (1..0) |-> base]
             g == [p \in SUBSET (1..0) |->
                     IF p = {} THEN base ELSE Read(f[p \ {Max(p)}], Max(p))]
  <2>1. \A p \in SUBSET (1..0) : p = {}
    OBVIOUS
  <2>2. f = g
    BY <2>1
  <2>3. FoldsTo(f, fold, base, s, 0)
    BY <1>1, <2>2
  <2> QED
    BY <2>3
<1>3. ASSUME NEW n \in Nat, n \in done PROVE n + 1 \in done
  <2>1. PICK f : FoldsTo(f, fold, base, s, n)
    BY <1>3
  <2>2. \A p \in SUBSET (1..n) : f[p] = IF p = {} THEN base ELSE Read(f[p \ {Max(p)}], Max(p))
    BY <1>1, <2>1
  <2> DEFINE g == [p \in SUBSET (1..(n + 1)) |->
                     IF n + 1 \in p THEN Read(f[p \ {n + 1}], n + 1) ELSE f[p]]
             h == [p \in SUBSET (1..(n + 1)) |->
                     IF p = {} THEN base ELSE Read(g[p \ {Max(p)}], Max(p))]
  <2>3. ASSUME NEW p \in SUBSET (1..(n + 1))
        PROVE  g[p] = IF p = {} THEN base ELSE Read(g[p \ {Max(p)}], Max(p))
    <3>1. CASE n + 1 \in p
      <4>1. Max(p) = n + 1
        BY <3>1, MaxOf
      <4>2. p \ {n + 1} \in SUBSET (1..(n + 1)) /\ n + 1 \notin p \ {n + 1}
        OBVIOUS
      <4>3. g[p \ {n + 1}] = f[p \ {n + 1}]
        BY <4>2
      <4> QED
        BY <3>1, <4>1, <4>3
    <3>2. CASE n + 1 \notin p
      <4>1. p \in SUBSET (1..n)
        BY <3>2
      <4>2. \A y : p \ {y} \in SUBSET (1..(n + 1)) /\ n + 1 \notin p \ {y}
        BY <3>2
      <4>3. \A y : g[p \ {y}] = f[p \ {y}]
        BY <4>2
      <4> QED
        BY <2>2, <3>2, <4>1, <4>3
    <3> QED
      BY <3>1, <3>2
  <2>4. g = h
    BY <2>3
  <2>5. FoldsTo(g, fold, base, s, n + 1)
    <3> HIDE DEF g
    <3> QED
      BY <1>1, <2>4
  <2> HIDE DEF g
  <2> QED
    BY <2>5
<1> HIDE DEF done
<1>4. \A n \in Nat : n \in done
  BY <1>2, <1>3, NatSet
<1> QED
  BY <1>4 DEF done

\* The value of a fold, as FoldLeft chooses it.
FoldOf(fold, base, s) ==
  (CHOOSE f : f = [p \in SUBSET (DOMAIN s) |->
     IF p = {} THEN base ELSE FoldStep(fold, f[p \ {Max(p)}], s[Max(p)])])[DOMAIN s]

LEMMA FoldUnfold ==
  ASSUME NEW fold, NEW base, NEW s, NEW n \in Nat, DOMAIN s = 1..n
  PROVE  \E v : Steps(v, fold, base, s, n) /\ FoldOf(fold, base, s) = v[n]
<1> DEFINE f == CHOOSE g : FoldsTo(g, fold, base, s, n)
           v == [i \in 0..n |-> f[1..i]]
<1>1. FoldsTo(f, fold, base, s, n)
  BY FoldExists
<1>2. FoldOf(fold, base, s) = f[1..n]
  BY DEF FoldOf, FoldsTo
<1> HIDE DEF f
<1>3. ASSUME NEW i \in 1..n
      PROVE  f[1..i] = FoldStep(fold, f[1..(i - 1)], s[i])
  <2>1. 1..i \in SUBSET (1..n) /\ 1..i # {}
    <3>1. 1 \in 1..i /\ \A j \in 1..i : j \in 1..n
      OBVIOUS
    <3> QED
      BY <3>1
  <2>2. Max(1..i) = i
    <3> DEFINE k == i - 1
    <3>1. k \in Nat /\ k + 1 = i
      OBVIOUS
    <3> HIDE DEF k
    <3>2. 1..i \in SUBSET (1..(k + 1)) /\ k + 1 \in 1..i
      BY <3>1
    <3>3. Max(1..i) = k + 1
      BY <3>1, <3>2, MaxOf
    <3> QED
      BY <3>1, <3>3
  <2>3. (1..i) \ {i} = 1..(i - 1)
    OBVIOUS
  <2>4. f[1..i] = FoldStep(fold, f[(1..i) \ {Max(1..i)}], s[Max(1..i)])
    BY <1>1, <2>1 DEF FoldsTo
  <2> QED
    BY <2>2, <2>3, <2>4
<1>4. f[1..0] = base
  <2>1. 1..0 = {} /\ {} \in SUBSET (1..n)
    OBVIOUS
  <2> QED
    BY <1>1, <2>1 DEF FoldsTo
<1>5. Steps(v, fold, base, s, n)
  <2>1. v[0] = base
    BY <1>4
  <2>2. ASSUME NEW i \in 1..n PROVE v[i] = FoldStep(fold, v[i - 1], s[i])
    <3>1. i \in 0..n /\ i - 1 \in 0..n
      OBVIOUS
    <3>2. v[i] = f[1..i] /\ v[i - 1] = f[1..(i - 1)]
      BY <3>1
    <3> HIDE DEF v
    <3> QED
      BY <1>3, <3>2
  <2> HIDE DEF v
  <2> QED
    BY <2>1, <2>2 DEF Steps
<1>6. FoldOf(fold, base, s) = v[n]
  BY <1>2
<1> HIDE DEF v
<1> QED
  BY <1>5, <1>6

\* Folds that do the same steps give the same.
LEMMA StepsUnique ==
  ASSUME NEW fold, NEW base, NEW s, NEW t, NEW n \in Nat, NEW v, NEW w,
         Steps(v, fold, base, s, n), Steps(w, fold, base, t, n),
         \A i \in 1..n : \A u : FoldStep(fold, u, s[i]) = FoldStep(fold, u, t[i])
  PROVE  v[n] = w[n]
<1> DEFINE same == {k \in Nat : k <= n => v[k] = w[k]}
<1>1. 0 \in same
  BY DEF Steps
<1>2. ASSUME NEW k \in Nat, k \in same PROVE k + 1 \in same
  <2>1. SUFFICES ASSUME k + 1 <= n PROVE v[k + 1] = w[k + 1]
    OBVIOUS
  <2>2. v[k] = w[k]
    BY <1>2, <2>1
  <2> DEFINE i == k + 1
  <2>3. i \in 1..n /\ i - 1 = k
    BY <2>1
  <2> HIDE DEF i
  <2>4. v[i] = w[i]
    BY <2>2, <2>3 DEF Steps
  <2> QED
    BY <2>4 DEF i
<1> HIDE DEF same
<1>3. \A k \in Nat : k \in same
  BY <1>1, <1>2, NatSet
<1> QED
  BY <1>3 DEF same

\* One element more is one step more.
LEMMA FoldOneMore ==
  ASSUME NEW fold, NEW base, NEW s, NEW t, NEW n \in Nat,
         DOMAIN s = 1..n, DOMAIN t = 1..(n + 1),
         \A i \in 1..n : \A u : FoldStep(fold, u, s[i]) = FoldStep(fold, u, t[i])
  PROVE  FoldOf(fold, base, t) = FoldStep(fold, FoldOf(fold, base, s), t[n + 1])
<1>1. PICK v : Steps(v, fold, base, s, n) /\ FoldOf(fold, base, s) = v[n]
  BY FoldUnfold
<1> DEFINE m == n + 1
<1>2. m \in Nat /\ DOMAIN t = 1..m
  OBVIOUS
<1> HIDE DEF m
<1>3. PICK w : Steps(w, fold, base, t, m) /\ FoldOf(fold, base, t) = w[m]
  BY <1>2, FoldUnfold
<1>4. Steps(w, fold, base, t, n)
  BY <1>3 DEF Steps, m
<1>5. v[n] = w[n]
  BY <1>1, <1>4, StepsUnique
<1>6. w[m] = FoldStep(fold, w[n], t[m])
  <2>1. m \in 1..m /\ m - 1 = n
    BY DEF m
  <2> QED
    BY <1>3, <2>1 DEF Steps
<1> QED
  BY <1>1, <1>3, <1>5, <1>6 DEF m

LEMMA FoldNone ==
  ASSUME NEW fold, NEW base
  PROVE  FoldOf(fold, base, <<>>) = base
<1>1. DOMAIN <<>> = 1..0
  OBVIOUS
<1>2. PICK v : Steps(v, fold, base, <<>>, 0) /\ FoldOf(fold, base, <<>>) = v[0]
  BY <1>1, FoldUnfold
<1> QED
  BY <1>2 DEF Steps

LEMMA KvFolds ==
  /\ \A s : FirstUpdates(s) = FoldOf("FirstUpdates", <<>>, s)
  /\ \A s : Service!Replay(s) = FoldOf("Replay", [k \in Key |-> <<>>], s)
<1>1. ASSUME NEW s PROVE FirstUpdates(s) = FoldOf("FirstUpdates", <<>>, s)
  BY DEF FirstUpdates, FoldLeft, MapThenFoldSet, FoldOf, FoldStep
<1>2. ASSUME NEW s PROVE Service!Replay(s) = FoldOf("Replay", [k \in Key |-> <<>>], s)
  BY DEF Service!Replay, Service!FoldLeft, Service!MapThenFoldSet, Service!Max, Max, FoldOf, FoldStep
<1> QED
  BY <1>1, <1>2

-----------------------------------------------------------------------------
(* Logs and the updates in them *)

LEMMA PrefixNext ==
  ASSUME NEW S, NEW s \in Seq(S), NEW n \in Nat, n < Len(s)
  PROVE  /\ SubSeq(s, 1, n) \in Seq(S) /\ s[n + 1] \in S
         /\ SubSeq(s, 1, n + 1) = Append(SubSeq(s, 1, n), s[n + 1])
<1>1. Len(s) \in Nat /\ \A i \in 1..n : s[i] \in S
  BY ElementOfSeq, LenProperties
<1>2. SubSeq(s, 1, n) \in Seq(S)
  BY <1>1, SubSeqProperties
<1> DEFINE m == n + 1
<1>3. m \in 1..Len(s) /\ 1 \in 1..m /\ m - 1 = n /\ 1 \in 1..Len(s) /\ m \in 1..Len(s)
  BY <1>1
<1> HIDE DEF m
<1>4. s[m] \in S
  BY <1>3, ElementOfSeq
<1>5. SubSeq(s, 1, m) = SubSeq(s, 1, m - 1) \o <<s[m]>>
  BY <1>3, SubSeqRecursiveSecond
<1>6. Append(SubSeq(s, 1, n), s[m]) = SubSeq(s, 1, n) \o <<s[m]>>
  BY <1>2, <1>4, AppendIsConcat
<1> QED
  BY <1>2, <1>3, <1>4, <1>5, <1>6 DEF m

LEMMA PrefixFacts ==
  ASSUME NEW S, NEW s \in Seq(S), NEW n \in 0..Len(s)
  PROVE  /\ SubSeq(s, 1, n) \in Seq(S) /\ Len(SubSeq(s, 1, n)) = n
         /\ DOMAIN SubSeq(s, 1, n) = 1..n
         /\ \A i \in 1..n : SubSeq(s, 1, n)[i] = s[i]
<1>1. Len(s) \in Nat /\ n \in Nat /\ \A i \in 1..n : s[i] \in S
  BY ElementOfSeq, LenProperties
<1>2. SubSeq(s, 1, n) \in Seq(S) /\ Len(SubSeq(s, 1, n)) = n
  BY <1>1, SubSeqProperties
<1>3. \A i \in 1..n : SubSeq(s, 1, n)[i] = s[i]
  BY <1>1, SubSeqProperties
<1> QED
  BY <1>2, <1>3, LenProperties

LEMMA PrefixOfAppend ==
  ASSUME NEW S, NEW s \in Seq(S), NEW e \in S, NEW n \in 0..Len(s)
  PROVE  SubSeq(Append(s, e), 1, n) = SubSeq(s, 1, n)
<1>1. /\ Append(s, e) \in Seq(S) /\ n \in 0..Len(Append(s, e))
      /\ \A i \in 1..n : Append(s, e)[i] = s[i]
  BY AppendProperties, LenProperties
<1>2. /\ SubSeq(Append(s, e), 1, n) \in Seq(S) /\ Len(SubSeq(Append(s, e), 1, n)) = n
      /\ \A i \in 1..n : SubSeq(Append(s, e), 1, n)[i] = s[i]
  BY <1>1, PrefixFacts
<1>3. /\ SubSeq(s, 1, n) \in Seq(S) /\ Len(SubSeq(s, 1, n)) = n
      /\ \A i \in 1..n : SubSeq(s, 1, n)[i] = s[i]
  BY PrefixFacts
<1> QED
  BY <1>2, <1>3, SeqEqual

LEMMA PrefixOfPrefix ==
  ASSUME NEW S, NEW s \in Seq(S), NEW n \in 0..Len(s), NEW m \in 0..n
  PROVE  SubSeq(SubSeq(s, 1, n), 1, m) = SubSeq(s, 1, m)
<1> DEFINE t == SubSeq(s, 1, n)
<1>1. t \in Seq(S) /\ Len(t) = n /\ \A i \in 1..n : t[i] = s[i]
  BY PrefixFacts
<1>2. m \in 0..Len(s) /\ m \in 0..Len(t) /\ \A i \in 1..m : i \in 1..n
  BY <1>1, LenProperties
<1>3. /\ SubSeq(s, 1, m) \in Seq(S) /\ Len(SubSeq(s, 1, m)) = m
      /\ \A i \in 1..m : SubSeq(s, 1, m)[i] = s[i]
  BY <1>2, PrefixFacts
<1> HIDE DEF t
<1>4. /\ SubSeq(t, 1, m) \in Seq(S) /\ Len(SubSeq(t, 1, m)) = m
      /\ \A i \in 1..m : SubSeq(t, 1, m)[i] = t[i]
  BY <1>1, <1>2, PrefixFacts
<1>5. SubSeq(t, 1, m) = SubSeq(s, 1, m)
  BY <1>1, <1>2, <1>3, <1>4, SeqEqual
<1> QED
  BY <1>5 DEF t

\* Induction over sequences, for a set of sequences in place of a predicate.
LEMMA SeqSet ==
  ASSUME NEW S, NEW P, <<>> \in P, \A s \in Seq(S), e \in S : s \in P => Append(s, e) \in P
  PROVE  \A s \in Seq(S) : s \in P
<1> DEFINE done == {n \in Nat : \A s \in Seq(S) : Len(s) = n => s \in P}
<1>1. 0 \in done
  BY EmptySeq
<1>2. ASSUME NEW n \in Nat, n \in done PROVE n + 1 \in done
  <2>1. SUFFICES ASSUME NEW s \in Seq(S), Len(s) = n + 1 PROVE s \in P
    OBVIOUS
  <2>2. s # <<>>
    BY <2>1, EmptySeq
  <2>3. PICK t \in Seq(S), e \in S : s = Append(t, e)
    BY <2>2, SequenceEmptyOrAppend
  <2>4. Len(s) = Len(t) + 1 /\ Len(t) \in Nat
    BY <2>3, AppendProperties, LenProperties
  <2>5. t \in P
    BY <1>2, <2>1, <2>4
  <2> QED
    BY <2>3, <2>5
<1> HIDE DEF done
<1>3. \A n \in Nat : n \in done
  BY <1>1, <1>2, NatSet
<1> QED
  BY <1>3, LenProperties DEF done

\* One command more is one step of the fold more.
LEMMA FoldsAppend ==
  ASSUME NEW S, NEW s \in Seq(S), NEW e \in S
  PROVE  /\ FirstUpdates(Append(s, e)) = FirstUpdate(FirstUpdates(s), e)
         /\ Service!Replay(Append(s, e)) = Service!Update(Service!Replay(s), e)
<1> DEFINE n == Len(s)
           t == Append(s, e)
<1>1. /\ n \in Nat /\ DOMAIN s = 1..n /\ DOMAIN t = 1..(n + 1)
      /\ t[n + 1] = e /\ \A i \in 1..n : t[i] = s[i]
  BY AppendProperties, LenProperties
<1> HIDE DEF n, t
<1>2. ASSUME NEW fold, NEW base
      PROVE  FoldOf(fold, base, t) = FoldStep(fold, FoldOf(fold, base, s), t[n + 1])
  <2>1. \A i \in 1..n : \A u : FoldStep(fold, u, s[i]) = FoldStep(fold, u, t[i])
    BY <1>1
  <2> QED
    BY <1>1, <2>1, FoldOneMore
<1>3. FirstUpdates(t) = FirstUpdate(FirstUpdates(s), e)
  BY <1>1, <1>2, KvFolds DEF FoldStep
<1>4. Service!Replay(t) = Service!Update(Service!Replay(s), e)
  BY <1>1, <1>2, KvFolds DEF FoldStep
<1> QED
  BY <1>3, <1>4 DEF t

LEMMA FoldsNone == FirstUpdates(<<>>) = <<>> /\ Service!Replay(<<>>) = [k \in Key |-> <<>>]
BY KvFolds, FoldNone

LEMMA ToSetAppend ==
  ASSUME NEW S, NEW s \in Seq(S), NEW e \in S
  PROVE  ToSet(Append(s, e)) = ToSet(s) \cup {e}
<1> DEFINE n == Len(s)
           t == Append(s, e)
<1>1. /\ n \in Nat /\ DOMAIN s = 1..n /\ DOMAIN t = 1..(n + 1)
      /\ t[n + 1] = e /\ \A i \in 1..n : t[i] = s[i]
  BY AppendProperties, LenProperties
<1> HIDE DEF n, t
<1>2. 1..(n + 1) = (1..n) \cup {n + 1}
  BY <1>1
<1>3. ToSet(t) = ToSet(s) \cup {e}
  BY <1>1, <1>2 DEF ToSet
<1> QED
  BY <1>3 DEF t

\* The first updates of a log are its updates.
LEMMA FirstUpdatesFacts ==
  \A log \in Seq(Command) :
    /\ FirstUpdates(log) \in Seq(Command)
    /\ ToSet(FirstUpdates(log)) = {op \in ToSet(log) : IsUpdate(op)}
<1> DEFINE P == {log \in Seq(Command) :
                   /\ FirstUpdates(log) \in Seq(Command)
                   /\ ToSet(FirstUpdates(log)) = {op \in ToSet(log) : IsUpdate(op)}}
<1>1. <<>> \in P
  <2>1. ToSet(<<>>) = {}
    <3>1. DOMAIN <<>> = {}
      OBVIOUS
    <3> QED
      BY <3>1 DEF ToSet
  <2>2. <<>> \in Seq(Command)
    BY EmptySeq
  <2>3. FirstUpdates(<<>>) = <<>>
    BY FoldsNone
  <2> QED
    BY <2>1, <2>2, <2>3
<1>2. ASSUME NEW log \in Seq(Command), NEW e \in Command, log \in P PROVE Append(log, e) \in P
  <2> DEFINE u == FirstUpdates(log)
             v == FirstUpdates(Append(log, e))
  <2>1. Append(log, e) \in Seq(Command) /\ ToSet(Append(log, e)) = ToSet(log) \cup {e}
    BY AppendProperties, ToSetAppend
  <2>2. v = FirstUpdate(u, e)
    BY FoldsAppend
  <2>3. u \in Seq(Command) /\ ToSet(u) = {op \in ToSet(log) : IsUpdate(op)}
    BY <1>2
  <2> HIDE DEF u, v
  <2>4. CASE IsUpdate(e) /\ e \notin ToSet(u)
    <3>1. v = Append(u, e)
      BY <2>2, <2>4 DEF FirstUpdate
    <3>2. v \in Seq(Command) /\ ToSet(v) = ToSet(u) \cup {e}
      BY <2>3, <3>1, AppendProperties, ToSetAppend
    <3>3. ToSet(v) = {op \in ToSet(Append(log, e)) : IsUpdate(op)}
      BY <2>1, <2>3, <2>4, <3>2
    <3> QED
      BY <2>1, <3>2, <3>3 DEF v
  <2>5. CASE ~(IsUpdate(e) /\ e \notin ToSet(u))
    <3>1. v = u
      BY <2>2, <2>5 DEF FirstUpdate
    <3>2. ToSet(v) = {op \in ToSet(Append(log, e)) : IsUpdate(op)}
      BY <2>1, <2>3, <2>5, <3>1
    <3> QED
      BY <2>1, <2>3, <3>1, <3>2 DEF v
  <2> QED
    BY <2>4, <2>5
<1> HIDE DEF P
<1>3. \A log \in Seq(Command) : log \in P
  BY <1>1, <1>2, SeqSet
<1> QED
  BY <1>3 DEF P

\* What a part of a log has effected is the first of what the log has.
LEMMA FirstUpdatesOfPrefix ==
  \A log \in Seq(Command) : \A n \in 0..Len(log) :
    LET u == FirstUpdates(SubSeq(log, 1, n))
        v == FirstUpdates(log)
    IN  Len(u) \in 0..Len(v) /\ u = SubSeq(v, 1, Len(u))
<1> DEFINE E(log, n) == FirstUpdates(SubSeq(log, 1, n))
           Q(log, n) == /\ Len(E(log, n)) \in 0..Len(FirstUpdates(log))
                        /\ E(log, n) = SubSeq(FirstUpdates(log), 1, Len(E(log, n)))
           P == {log \in Seq(Command) : \A n \in 0..Len(log) : Q(log, n)}
<1>1. ASSUME NEW log \in Seq(Command) PROVE Q(log, Len(log))
  <2>1. SubSeq(log, 1, Len(log)) = log
    BY SubSeqFull
  <2>2. FirstUpdates(log) \in Seq(Command)
    BY FirstUpdatesFacts
  <2>3. /\ SubSeq(FirstUpdates(log), 1, Len(FirstUpdates(log))) = FirstUpdates(log)
        /\ Len(FirstUpdates(log)) \in Nat
    BY <2>2, SubSeqFull, LenProperties
  <2>4. E(log, Len(log)) = FirstUpdates(log)
    BY <2>1
  <2> HIDE DEF E
  <2> QED
    BY <2>3, <2>4
<1>2. <<>> \in P
  <2>1. <<>> \in Seq(Command) /\ Len(<<>>) = 0
    BY EmptySeq
  <2>2. Q(<<>>, 0)
    BY <1>1, <2>1
  <2> HIDE DEF Q
  <2>3. \A n \in 0..Len(<<>>) : n = 0
    BY <2>1
  <2> QED
    BY <2>1, <2>2, <2>3
<1>3. ASSUME NEW log \in Seq(Command), NEW e \in Command, log \in P PROVE Append(log, e) \in P
  <2> DEFINE t == Append(log, e)
  <2>1. t \in Seq(Command) /\ Len(t) = Len(log) + 1 /\ Len(log) \in Nat
    BY AppendProperties, LenProperties
  <2>2. Q(t, Len(t))
    BY <1>1, <2>1
  <2>3. ASSUME NEW n \in 0..Len(log) PROVE Q(t, n)
    <3> DEFINE u == FirstUpdates(log)
               v == FirstUpdates(t)
               k == Len(E(log, n))
    <3>1. E(t, n) = E(log, n)
      BY PrefixOfAppend
    <3>2. k \in 0..Len(u) /\ E(log, n) = SubSeq(u, 1, k)
      BY <1>3
    <3>3. u \in Seq(Command) /\ v = FirstUpdate(u, e)
      BY FirstUpdatesFacts, FoldsAppend
    <3> HIDE DEF t, u, v, k
    <3>4. CASE IsUpdate(e) /\ e \notin ToSet(u)
      <4>1. v = Append(u, e)
        BY <3>3, <3>4 DEF FirstUpdate
      <4>2. Len(v) = Len(u) + 1 /\ Len(u) \in Nat
        BY <3>3, <4>1, AppendProperties, LenProperties
      <4>3. SubSeq(v, 1, k) = SubSeq(u, 1, k)
        BY <3>2, <3>3, <4>1, PrefixOfAppend
      <4> QED
        BY <3>1, <3>2, <4>2, <4>3 DEF k, v
    <3>5. CASE ~(IsUpdate(e) /\ e \notin ToSet(u))
      <4>1. v = u
        BY <3>3, <3>5 DEF FirstUpdate
      <4> QED
        BY <3>1, <3>2, <4>1 DEF k, v
    <3> QED
      BY <3>4, <3>5
  <2> HIDE DEF t, Q
  <2>4. \A n \in 0..Len(t) : n = Len(t) \/ n \in 0..Len(log)
    BY <2>1
  <2>5. \A n \in 0..Len(t) : Q(t, n)
    BY <2>2, <2>3, <2>4
  <2> QED
    BY <2>1, <2>5 DEF t
<1> HIDE DEF P
<1>4. \A log \in Seq(Command) : log \in P
  BY <1>2, <1>3, SeqSet
<1> QED
  BY <1>4 DEF P

-----------------------------------------------------------------------------
(* The parts of the invariant, when no connection is lost in a Get before an update *)

\* The handler of a Get that was given up is of a client that makes no update
\* after it: what ReadsKept is for.
GivenUpReadsLast ==
  \A h \in handlers :
    h.op.op = "Get" => h.call = clerk[h.client].call \/ ~UpdatesAfter(h.client, h.op.id)

\* A command among the first that are committed.
Chosen(op, n) == \E i \in 1..n : chosen[i] = op

\* The updates of a client that come before its operation id are among them.
UpdatesBefore(c, id, n) ==
  \A d \in 1..(id - 1) : IsUpdate(Request(c, d)) => Chosen(Request(c, d), n)

\* A request that its client has come to.
AskedFor(op) ==
  op.id \in 1..clerk[op.client].requestId /\ op = Request(op.client, op.id)

\* Logs and handlers hold requests of clients only.
CommandsAskedFor ==
  /\ \A s \in Server : \A i \in 1..Len(logs[s]) : AskedFor(logs[s][i])
  /\ \A i \in 1..Len(chosen) : AskedFor(chosen[i])
  /\ \A h \in handlers : AskedFor(h.op) /\ h.op.client = h.client

\* A call has one handler at most, and the call a clerk waits for is for its
\* operation under way: what is called late was given up.
CallsOnce ==
  /\ \A h \in handlers :
       /\ h.call \in 1..calls
       /\ h.call = clerk[h.client].call => clerk[h.client].busy /\ h.op.id = clerk[h.client].requestId
       /\ \A g \in handlers : g.call = h.call => g = h
  /\ \A c \in Client : clerk[c].call <= calls

\* A clerk goes on to an operation when the updates before it are committed, and
\* so every log has them before it.
OneAfterTheOther ==
  /\ \A c \in Client :
       UpdatesBefore(c, IF clerk[c].busy THEN clerk[c].requestId ELSE clerk[c].requestId + 1, Len(chosen))
  /\ \A j \in 1..Len(chosen) : UpdatesBefore(chosen[j].client, chosen[j].id, j - 1)

\* A server's queues hold what it has applied.
QueuesApplied ==
  \A s \in Server : \A i \in DOMAIN waitApplyCh[s] : \A j \in 1..Len(waitApplyCh[s][i]) :
    Chosen(waitApplyCh[s][i][j], applied[s])

\* An update is answered OK when it is committed, and with no value.
UpdatesAnswered ==
  \A h \in handlers :
    h.at \in {"erase", "answered"} /\ IsUpdate(h.op) =>
      /\ h.reply.err # "ErrWrongLeader" => Chosen(h.op, Len(chosen))
      /\ h.reply.value = <<>>

\* A handler reads the map when its server has applied the updates before.
GetsAfter ==
  \A h \in handlers :
    /\ h.at \in {"getState", "get"} => h.op.op = "Get"
    /\ h.at = "get" => UpdatesBefore(h.client, h.op.id, applied[h.server])

\* The duplicate test: the last id of a client at a server is not below an update
\* that the server has applied, and every update up to it is applied; an update
\* that passed the test was not applied before.
LastRequests ==
  \A s \in Server :
    /\ \A i \in 1..applied[s] : IsUpdate(chosen[i]) => chosen[i].id <= lastRequestId[s][chosen[i].client]
    /\ \A c \in Client : lastRequestId[s][c] <= clerk[c].requestId /\ UpdatesBefore(c, lastRequestId[s][c] + 1, applied[s])
    /\ applying[s] = "execute" =>
         LET op == chosen[applied[s] + 1] IN IsUpdate(op) /\ ~Chosen(op, applied[s])

\* The updates that the first commands make.
Effects(n) == FirstUpdates(SubSeq(chosen, 1, n))

\* The last operation of a client is a read.
Asks(c) == clerk[c].requestId > 0 /\ Request(c, clerk[c].requestId).op = "Get"

\* A read is behind all updates that took effect before its call: where it is
\* committed, at a server that has executed it, and in a handler about to.
ReadsRecent ==
  /\ \A c \in Client : since[c] \in 0..Len(FirstUpdates(chosen))
  /\ \A c \in Client : Asks(c) =>
       /\ \A j \in 1..Len(chosen) :
            chosen[j] = Request(c, clerk[c].requestId) => since[c] <= Len(Effects(j))
       /\ \A s \in Server : lastRequestId[s][c] = clerk[c].requestId => since[c] <= Len(Effects(applied[s]))
  /\ \A h \in handlers :
       h.at = "get" /\ h.op.id = clerk[h.client].requestId =>
         since[h.client] <= Len(Effects(applied[h.server]))

\* A read that is answered has a value the map had since its call.
GetsAnswered ==
  \A h \in handlers :
    h.at \in {"erase", "answered"} /\ h.op.op = "Get" /\ h.op.id = clerk[h.client].requestId
      /\ h.reply.err # "ErrWrongLeader" =>
      \E n \in since[h.client]..Len(FirstUpdates(chosen)) :
        h.reply.value = Service!Replay(SubSeq(FirstUpdates(chosen), 1, n))[h.op.key]

\* What replicas are correct by.
RInv ==
  /\ CommandsAskedFor /\ CallsOnce /\ OneAfterTheOther
  /\ QueuesApplied /\ UpdatesAnswered /\ GetsAfter /\ LastRequests

-----------------------------------------------------------------------------
(* What steps leave *)

LEMMA HandlerFacts ==
  ASSUME IInv, NEW h \in handlers
  PROVE  /\ h \in HandlerState /\ h.client \in Client /\ h.server \in Server /\ h.call \in Nat
         /\ h.op \in Command /\ h.op.client \in Client /\ h.op.id \in Nat /\ h.op.key \in Key
         /\ h.op.op \in {"Get", "Put", "Append"}
BY DEF IInv, TypeOK, HandlerType, HandlerState, Command

LEMMA ClerkFacts ==
  ASSUME IInv, NEW c \in Client
  PROVE  /\ clerk[c].requestId \in Nat /\ clerk[c].call \in Nat /\ clerk[c].busy \in BOOLEAN
         /\ workload.program[c] \in Seq(Operation) /\ Len(workload.program[c]) \in Nat
         /\ clerk[c].requestId <= Len(workload.program[c])
         /\ calls \in Nat
<1>1. workload.program[c] \in Seq(Operation)
  BY WorkloadsAssumption DEF IInv, TypeOK, RaftType
<1> QED
  BY <1>1, LenProperties DEF IInv, TypeOK, ClientType, ClerkState

LEMMA ChosenFacts ==
  ASSUME IInv
  PROVE  /\ chosen \in Seq(Command) /\ Len(chosen) \in Nat /\ DOMAIN chosen = 1..Len(chosen)
         /\ \A i \in 1..Len(chosen) : /\ chosen[i] \in Command /\ chosen[i].client \in Client
                                      /\ chosen[i].id \in Nat
         /\ \A s \in Server : /\ applied[s] \in 0..Len(chosen)
                              /\ logs[s] \in Seq(Command) /\ Len(logs[s]) \in Nat
                              /\ \A i \in 1..Len(logs[s]) : /\ logs[s][i] \in Command
                                                            /\ logs[s][i].client \in Client
<1>1. chosen \in Seq(Command) /\ \A s \in Server : logs[s] \in Seq(Command)
  BY DEF IInv, TypeOK, RaftType
<1>2. \A op \in Command : op.client \in Client /\ op.id \in Nat
  BY DEF Command
<1>3. \A i \in 1..Len(chosen) : chosen[i] \in Command
  BY <1>1, ElementOfSeq
<1>4. \A s \in Server : \A i \in 1..Len(logs[s]) : logs[s][i] \in Command
  BY <1>1, ElementOfSeq
<1>5. Len(chosen) \in Nat /\ DOMAIN chosen = 1..Len(chosen)
  BY <1>1, LenProperties
<1>6. \A s \in Server : applied[s] \in 0..Len(chosen)
  BY <1>5 DEF IInv, TypeOK, StoreType
<1>7. \A s \in Server : Len(logs[s]) \in Nat
  BY <1>1, LenProperties
<1> QED
  BY <1>1, <1>2, <1>3, <1>4, <1>5, <1>6, <1>7

LEMMA RequestFacts ==
  ASSUME NEW c, NEW id
  PROVE  Request(c, id).client = c /\ Request(c, id).id = id
BY DEF Request, RequestOf

LEMMA HandlerFrame ==
  ASSUME NEW h \in handlers, Handle(h)
  PROVE  /\ UNCHANGED <<workload, chosen, kvDB, applied, applying, clientVars>>
         /\ ~ExecuteGetOpOnKVDB(h) => UNCHANGED lastRequestId
BY DEF Handle, Start, Register, Pop, TimeOut, GetState, TimedOut, ExecuteGetOpOnKVDB, Erase,
       raftVars, storeVars

LEMMA ClientFrame ==
  ASSUME NEW c \in Client, Invoke(c) \/ Receive(c) \/ Fail(c)
  PROVE  UNCHANGED <<raftVars, storeVars, waitApplyCh, applying>>
BY DEF Invoke, Receive, Fail

LEMMA LoopFrame ==
  ASSUME NEW s \in Server, ReadRaftApplyCommandLoop(s)
  PROVE  UNCHANGED <<raftVars, handlers, clientVars>>
BY DEF ReadRaftApplyCommandLoop, GetCommandFromRaft, Execute, SendMessageToWaitChan, storeVars

LEMMA RaftFrame ==
  ASSUME NEW s \in Server, Elect(s) \/ StepDown(s)
  PROVE  UNCHANGED <<workload, chosen, storeVars, waitApplyCh, applying, handlers, clientVars>>
BY DEF Elect, StepDown

\* A handler whose command has been executed at its server, as it finds out.
\* A handler finds its command in its queue; it finds its command executed.
Popped(h) ==
  /\ h.at = "wait" /\ waitApplyCh[h.server][h.raftIndex] # <<>>
  /\ IsCommandOf(h, Head(waitApplyCh[h.server][h.raftIndex]))
Duplicate(h) == h.at = "duplicate" /\ ifRequestDuplicate(h.server, h.op)

\* The same handler at two moments.
SameCall(g, h) == g.client = h.client /\ g.call = h.call /\ g.server = h.server /\ g.op = h.op

\* How a handler goes on as g, and with which answer.
GoesOn(h, g) ==
  /\ SameCall(g, h)
  /\ g.at = "getState" => h.op.op = "Get"
  /\ g.at = "get" => h.op.op = "Get" /\ (Popped(h) \/ Duplicate(h))
  /\ g.at \in {"erase", "answered"} =>
       \/ g.reply = ErrWrongLeader
       \/ g.reply = OK /\ IsUpdate(h.op) /\ (Popped(h) \/ Duplicate(h))
       \/ ExecuteGetOpOnKVDB(h) /\ g.reply.value = kvDB[h.server][h.op.key]
       \/ h.at = "erase" /\ g.reply = h.reply

LEMMA HandlerSteps ==
  ASSUME IInv, NEW h \in handlers, Handle(h)
  PROVE  \E g : handlers' \subseteq (handlers \ {h}) \cup {g} /\ GoesOn(h, g)
<1>1. h \in HandlerState /\ h.op.op \in {"Get", "Put", "Append"}
  BY HandlerFacts
<1> DEFINE Goes == \E g : handlers' \subseteq (handlers \ {h}) \cup {g} /\ GoesOn(h, g)
<1> SUFFICES Goes
  OBVIOUS
<1> HIDE DEF Goes
<1>0. ASSUME NEW g, handlers' \subseteq (handlers \ {h}) \cup {g}, GoesOn(h, g) PROVE Goes
  BY <1>0 DEF Goes
<1> USE DEF GoesOn
<1>2. ASSUME NEW reply, Answer(h, reply), reply = ErrWrongLeader \/ (h.at = "erase" /\ reply = h.reply)
      PROVE  Goes
  <2> DEFINE g == [h EXCEPT !.at = "answered", !.reply = reply]
  <2>1. handlers' \subseteq (handlers \ {h}) \cup {g}
    BY <1>2 DEF Answer, Becomes
  <2>2. SameCall(g, h) /\ g.at = "answered" /\ g.reply = reply
    BY <1>1 DEF HandlerState, SameCall
  <2> HIDE DEF g
  <2> QED
    BY <1>0, <1>2, <2>1, <2>2
<1>3. CASE Start(h)
  <2>1. CASE leading[h.server]
    <3> DEFINE g == [h EXCEPT !.at = "register", !.raftIndex = NewCommandIndex(h.server)]
    <3>1. handlers' \subseteq (handlers \ {h}) \cup {g}
      BY <1>3, <2>1 DEF Start, Becomes
    <3>2. SameCall(g, h) /\ g.at = "register"
      BY <1>1 DEF HandlerState, SameCall
    <3> HIDE DEF g
    <3> QED
      BY <1>0, <3>1, <3>2
  <2>2. CASE ~leading[h.server]
    <3>1. Answer(h, ErrWrongLeader)
      BY <1>3, <2>2 DEF Start
    <3> QED
      BY <1>2, <3>1
  <2> QED
    BY <2>1, <2>2
<1>4. CASE Register(h)
  <2> DEFINE g == [h EXCEPT !.at = "wait"]
  <2>1. handlers' \subseteq (handlers \ {h}) \cup {g}
    BY <1>4 DEF Register, Becomes
  <2>2. SameCall(g, h) /\ g.at = "wait"
    BY <1>1 DEF HandlerState, SameCall
  <2> HIDE DEF g
  <2> QED
    BY <1>0, <2>1, <2>2
<1>5. CASE Pop(h)
  <2> DEFINE mine == IsCommandOf(h, Head(waitApplyCh[h.server][h.raftIndex]))
  <2>1. CASE mine /\ h.op.op = "Get"
    <3> DEFINE g == [h EXCEPT !.at = "get"]
    <3>1. handlers' \subseteq (handlers \ {h}) \cup {g}
      BY <1>5, <2>1 DEF Pop, Becomes
    <3>2. SameCall(g, h) /\ g.at = "get"
      BY <1>1 DEF HandlerState, SameCall
    <3> HIDE DEF g
    <3> QED
      BY <1>0, <1>5, <2>1, <3>1, <3>2 DEF Popped, Pop
  <2>2. CASE ~(mine /\ h.op.op = "Get")
    <3> DEFINE reply == IF mine THEN OK ELSE ErrWrongLeader
               g == [h EXCEPT !.at = "erase", !.reply = reply]
    <3>1. handlers' \subseteq (handlers \ {h}) \cup {g}
      BY <1>5, <2>2 DEF Pop, Becomes
    <3>2. SameCall(g, h) /\ g.at = "erase" /\ g.reply = reply
      BY <1>1 DEF HandlerState, SameCall
    <3>3. mine => Popped(h) /\ IsUpdate(h.op)
      BY <1>1, <1>5, <2>2 DEF Pop, Popped, IsUpdate
    <3> HIDE DEF g, mine
    <3> QED
      BY <1>0, <3>1, <3>2, <3>3
  <2> QED
    BY <2>1, <2>2
<1>6. CASE TimeOut(h)
  <2> DEFINE g == IF h.op.op = "Get" THEN [h EXCEPT !.at = "getState"] ELSE [h EXCEPT !.at = "duplicate"]
  <2>1. handlers' \subseteq (handlers \ {h}) \cup {g}
    BY <1>6 DEF TimeOut, Becomes
  <2>2. SameCall(g, h) /\ g.at \in {"getState", "duplicate"} /\ (g.at = "getState" => h.op.op = "Get")
    BY <1>1 DEF HandlerState, SameCall
  <2> HIDE DEF g
  <2> QED
    BY <1>0, <2>1, <2>2
<1>7. CASE GetState(h)
  <2> DEFINE g == [h EXCEPT !.at = "duplicate", !.isLeader = leading[h.server]]
  <2>1. handlers' \subseteq (handlers \ {h}) \cup {g}
    BY <1>7 DEF GetState, Becomes
  <2>2. SameCall(g, h) /\ g.at = "duplicate"
    BY <1>1 DEF HandlerState, SameCall
  <2> HIDE DEF g
  <2> QED
    BY <1>0, <2>1, <2>2
<1>8. CASE TimedOut(h)
  <2> DEFINE duplicate == ifRequestDuplicate(h.server, h.op)
  <2>0. duplicate => Duplicate(h)
    BY <1>8 DEF TimedOut, Duplicate
  <2>1. CASE h.op.op = "Get" /\ duplicate /\ h.isLeader
    <3> DEFINE g == [h EXCEPT !.at = "get"]
    <3>1. handlers' \subseteq (handlers \ {h}) \cup {g}
      BY <1>8, <2>1 DEF TimedOut, Becomes
    <3>2. SameCall(g, h) /\ g.at = "get"
      BY <1>1 DEF HandlerState, SameCall
    <3> HIDE DEF g
    <3> QED
      BY <1>0, <2>0, <2>1, <3>1, <3>2
  <2>2. CASE ~(h.op.op = "Get" /\ duplicate /\ h.isLeader)
    <3> DEFINE reply == IF IsUpdate(h.op) /\ duplicate THEN OK ELSE ErrWrongLeader
               g == [h EXCEPT !.at = "erase", !.reply = reply]
    <3>1. handlers' \subseteq (handlers \ {h}) \cup {g}
      BY <1>8, <2>2 DEF TimedOut, Becomes
    <3>2. SameCall(g, h) /\ g.at = "erase" /\ g.reply = reply
      BY <1>1 DEF HandlerState, SameCall
    <3> HIDE DEF g
    <3> QED
      BY <1>0, <2>0, <3>1, <3>2
  <2> QED
    BY <2>1, <2>2
<1>9. CASE ExecuteGetOpOnKVDB(h)
  <2> DEFINE value == kvDB[h.server][h.op.key]
             reply == [err |-> IF value = <<>> THEN "ErrNoKey" ELSE "OK", value |-> value]
             g == [h EXCEPT !.at = "erase", !.reply = reply]
  <2>1. handlers' \subseteq (handlers \ {h}) \cup {g}
    BY <1>9 DEF ExecuteGetOpOnKVDB, Becomes
  <2>2. SameCall(g, h) /\ g.at = "erase" /\ g.reply = reply
    BY <1>1 DEF HandlerState, SameCall
  <2>3. reply.value = value
    OBVIOUS
  <2> HIDE DEF g, reply
  <2> QED
    BY <1>0, <1>9, <2>1, <2>2, <2>3
<1>10. CASE Erase(h)
  BY <1>2, <1>10 DEF Erase
<1> QED
  BY <1>3, <1>4, <1>5, <1>6, <1>7, <1>8, <1>9, <1>10 DEF Handle, Goes

\* A call: the clerk is at its operation id, and a handler has appeared for it.
Calls(c, id) ==
  /\ clerk'[c].requestId = id /\ clerk'[c].busy /\ clerk'[c].call = calls + 1
  /\ \A d \in Client \ {c} : clerk'[d] = clerk[d]
  /\ calls' = calls + 1
  /\ \A g \in handlers' :
       \/ g \in handlers
       \/ g.client = c /\ g.call = calls + 1 /\ g.op = Request(c, id) /\ g.at = "start"
  /\ \A g, h \in handlers' : g \in handlers \/ h \in handlers \/ g = h

LEMMA CallEffect ==
  ASSUME IInv, NEW c \in Client, NEW id, NEW server, NEW rest, rest \subseteq handlers,
         Call(c, id, server, rest)
  PROVE  Calls(c, id)
<1> DEFINE h == Handler(c, calls + 1, server, Request(c, id))
<1>1. h.client = c /\ h.call = calls + 1 /\ h.op = Request(c, id) /\ h.at = "start"
  BY DEF Handler
<1>2. /\ handlers' = rest \cup {h} /\ calls' = calls + 1
      /\ clerk' = [clerk EXCEPT ![c] = [@ EXCEPT !.requestId = id, !.server = server,
                                                 !.call = calls + 1, !.busy = TRUE]]
  BY DEF Call
<1> HIDE DEF h
<1>3. /\ clerk'[c].requestId = id /\ clerk'[c].busy /\ clerk'[c].call = calls + 1
      /\ \A d \in Client \ {c} : clerk'[d] = clerk[d]
  BY <1>2 DEF IInv, TypeOK, ClientType, ClerkState
<1> QED
  BY <1>1, <1>2, <1>3 DEF Calls

\* A return: the operation of c is over, with the answer of handler h.
Returns(c, h) ==
  /\ clerk[c].busy /\ ~clerk'[c].busy
  /\ clerk'[c].requestId = clerk[c].requestId /\ clerk'[c].call = clerk[c].call
  /\ \A d \in Client \ {c} : clerk'[d] = clerk[d]
  /\ h \in handlers /\ h.client = c /\ h.call = clerk[c].call
  /\ h.op.id = clerk[c].requestId /\ h.at = "answered"
  /\ h.reply.err # "ErrWrongLeader" /\ returned' = [returned EXCEPT ![c] = h.reply.value]
  /\ handlers' = handlers \ {h} /\ calls' = calls /\ since' = since

LEMMA ClientSteps ==
  ASSUME IInv, CallsOnce, NEW c \in Client, Invoke(c) \/ Receive(c) \/ Fail(c)
  PROVE  \/ /\ ~clerk[c].busy /\ Calls(c, clerk[c].requestId + 1)
            /\ clerk[c].requestId < Len(workload.program[c])
            /\ since' = [since EXCEPT ![c] = Len(FirstUpdates(chosen))] /\ returned' = returned
         \/ clerk[c].busy /\ Calls(c, clerk[c].requestId) /\ since' = since /\ returned' = returned
         \/ \E h : Returns(c, h)
<1>1. CASE Invoke(c)
  BY <1>1, CallEffect DEF Invoke
<1>2. CASE Fail(c)
  <2>1. {h \in handlers : ~(h.client = c /\ h.at = "answered")} \subseteq handlers
    OBVIOUS
  <2> QED
    BY <1>2, <2>1, CallEffect DEF Fail
<1>3. CASE Receive(c)
  <2>1. PICK h \in handlers :
          /\ h.client = c /\ h.call = clerk[c].call /\ h.at = "answered"
          /\ IF h.reply.err = "ErrWrongLeader"
               THEN /\ Call(c, clerk[c].requestId, NextServer(c), handlers \ {h})
                    /\ UNCHANGED returned
               ELSE /\ clerk' = [clerk EXCEPT ![c].busy = FALSE,
                                   ![c].recentLeaderId = IF h.reply.err = "OK" THEN h.server ELSE @]
                    /\ returned' = [returned EXCEPT ![c] = h.reply.value]
                    /\ handlers' = handlers \ {h}
                    /\ UNCHANGED calls
          /\ UNCHANGED <<raftVars, storeVars, waitApplyCh, applying, since, failures>>
    BY <1>3 DEF Receive
  <2>2. clerk[c].busy /\ h.op.id = clerk[c].requestId
    BY <2>1 DEF CallsOnce
  <2>3. CASE h.reply.err = "ErrWrongLeader"
    <3>1. handlers \ {h} \subseteq handlers
      OBVIOUS
    <3> QED
      BY <2>1, <2>2, <2>3, <3>1, CallEffect
  <2>4. CASE h.reply.err # "ErrWrongLeader"
    <3> DEFINE leader == IF h.reply.err = "OK" THEN h.server ELSE clerk[c].recentLeaderId
    <3>1. clerk \in [Client -> ClerkState]
      BY DEF IInv, TypeOK, ClientType
    <3>2. clerk' = [clerk EXCEPT ![c] = [clerk[c] EXCEPT !.busy = FALSE, !.recentLeaderId = leader]]
      BY <2>1, <2>4, <3>1
    <3> HIDE DEF leader
    <3>3. /\ ~clerk'[c].busy /\ clerk'[c].requestId = clerk[c].requestId
          /\ clerk'[c].call = clerk[c].call
          /\ \A d \in Client \ {c} : clerk'[d] = clerk[d]
      BY <3>1, <3>2 DEF ClerkState
    <3>4. Returns(c, h)
      BY <2>1, <2>2, <2>4, <3>3 DEF Returns
    <3> QED
      BY <3>4
  <2> QED
    BY <2>3, <2>4
<1> QED
  BY <1>1, <1>2, <1>3

-----------------------------------------------------------------------------
(* Commands are requests of clients *)

\* What clients have asked for, after a step.
AskedLater(op) ==
  op.id \in 1..clerk'[op.client].requestId /\ op = Request(op.client, op.id)

LEMMA ClerksLater ==
  ASSUME IInv, CallsOnce, [Next]_vars
  PROVE  /\ workload' = workload
         /\ \A c \in Client : clerk'[c].requestId \in Nat /\ clerk'[c].requestId >= clerk[c].requestId
<1> SUFFICES /\ workload' = workload
             /\ clerk' = clerk \/ \A c \in Client : clerk'[c].requestId \in {clerk[c].requestId, clerk[c].requestId + 1}
  BY ClerkFacts
<1>1. CASE Choose
  BY <1>1 DEF Choose, clientVars
<1>2. ASSUME NEW s \in Server, Elect(s) \/ StepDown(s) PROVE workload' = workload /\ clerk' = clerk
  BY <1>2, RaftFrame DEF clientVars
<1>3. ASSUME NEW s \in Server, ReadRaftApplyCommandLoop(s) PROVE workload' = workload /\ clerk' = clerk
  BY <1>3, LoopFrame DEF raftVars, clientVars
<1>4. ASSUME NEW h \in handlers, Handle(h) PROVE workload' = workload /\ clerk' = clerk
  BY <1>4, HandlerFrame DEF clientVars
<1>5. ASSUME NEW c \in Client, Invoke(c) \/ Receive(c) \/ Fail(c)
      PROVE  /\ workload' = workload
             /\ \A d \in Client : clerk'[d].requestId \in {clerk[d].requestId, clerk[d].requestId + 1}
  <2>1. workload' = workload
    BY <1>5, ClientFrame DEF raftVars
  <2>2. clerk'[c].requestId \in {clerk[c].requestId, clerk[c].requestId + 1}
    BY <1>5, ClientSteps DEF Calls, Returns
  <2>3. \A d \in Client \ {c} : clerk'[d] = clerk[d]
    BY <1>5, ClientSteps DEF Calls, Returns
  <2> QED
    BY <2>1, <2>2, <2>3
<1>6. CASE UNCHANGED vars
  BY <1>6 DEF vars, raftVars, clientVars
<1> QED
  BY <1>1, <1>2, <1>3, <1>4, <1>5, <1>6 DEF Next

LEMMA AskedStays ==
  ASSUME IInv, CallsOnce, [Next]_vars, NEW op, op.client \in Client, AskedFor(op)
  PROVE  AskedLater(op)
<1>1. clerk'[op.client].requestId \in Nat /\ clerk'[op.client].requestId >= clerk[op.client].requestId
  BY ClerksLater
<1>2. clerk[op.client].requestId \in Nat
  BY ClerkFacts
<1> QED
  BY <1>1, <1>2 DEF AskedFor, AskedLater

LEMMA AskedFrame ==
  ASSUME IInv, CallsOnce, [Next]_vars,
         \A s \in Server : \A i \in 1..Len(logs'[s]) : AskedLater(logs'[s][i]),
         \A i \in 1..Len(chosen') : AskedLater(chosen'[i]),
         \A h \in handlers' : AskedLater(h.op) /\ h.op.client = h.client
  PROVE  CommandsAskedFor'
BY ClerksLater DEF CommandsAskedFor, AskedFor, AskedLater, Request

LEMMA AskedNow ==
  ASSUME IInv, CommandsAskedFor, CallsOnce, [Next]_vars
  PROVE  /\ \A s \in Server : \A i \in 1..Len(logs[s]) : AskedLater(logs[s][i])
         /\ \A i \in 1..Len(chosen) : AskedLater(chosen[i])
         /\ \A h \in handlers : AskedLater(h.op) /\ h.op.client = h.client
<1>1. \A op : op.client \in Client /\ AskedFor(op) => AskedLater(op)
  BY AskedStays
<1> QED
  BY <1>1, ChosenFacts, HandlerFacts DEF CommandsAskedFor

LEMMA LogWithElements ==
  ASSUME IInv, NEW t \in Server, NEW n \in 0..Len(logs[latest]), NEW i \in 1..Len(LogWith(t, n))
  PROVE  \E s \in Server : \E j \in 1..Len(logs[s]) : LogWith(t, n)[i] = logs[s][j]
<1> DEFINE a == logs[latest]
           b == logs[t]
           front == SubSeq(a, 1, n)
           tail == SubSeq(b, n + 1, Len(b))
<1>1. latest \in Server /\ a \in Seq(Command) /\ b \in Seq(Command) /\ Len(a) \in Nat /\ Len(b) \in Nat
  BY LenProperties DEF IInv, TypeOK, RaftType
<1> HIDE DEF a, b
<1>2. front \in Seq(Command) /\ Len(front) = n /\ \A j \in 1..n : front[j] = a[j]
  BY <1>1, PrefixFacts DEF a
<1>3. /\ tail \in Seq(Command)
      /\ Len(tail) = IF n + 1 <= Len(b) THEN Len(b) - n ELSE 0
      /\ \A j \in 1..(Len(b) - n) : tail[j] = b[n + j]
  <2>1. \A j \in n + 1..Len(b) : b[j] \in Command
    BY <1>1, ElementOfSeq
  <2>2. n + 1 \in Int /\ Len(b) \in Int /\ Len(b) - (n + 1) + 1 = Len(b) - n
    BY <1>1
  <2>3. /\ tail \in Seq(Command)
        /\ Len(tail) = IF n + 1 <= Len(b) THEN Len(b) - (n + 1) + 1 ELSE 0
        /\ \A j \in 1..(Len(b) - (n + 1) + 1) : tail[j] = b[n + 1 + j - 1]
    BY <2>1, <2>2, SubSeqProperties
  <2> HIDE DEF tail
  <2>4. ASSUME NEW j \in 1..(Len(b) - n) PROVE tail[j] = b[n + j]
    <3>1. n + 1 + j - 1 = n + j /\ j \in 1..(Len(b) - (n + 1) + 1)
      BY <2>2
    <3> QED
      BY <2>3, <3>1
  <2>5. Len(tail) = IF n + 1 <= Len(b) THEN Len(b) - n ELSE 0
    BY <2>2, <2>3
  <2> QED
    BY <2>3, <2>4, <2>5
<1>4. LogWith(t, n) = front \o tail
  BY DEF LogWith, a, b
<1> HIDE DEF front, tail
<1>5. /\ Len(front \o tail) = n + Len(tail)
      /\ \A j \in 1..(n + Len(tail)) : (front \o tail)[j] = IF j <= n THEN front[j] ELSE tail[j - n]
  <2>1. front \in Seq(Command) /\ tail \in Seq(Command) /\ Len(front) = n
    BY <1>2, <1>3
  <2>2. /\ Len(front \o tail) = Len(front) + Len(tail)
        /\ \A j \in 1..(Len(front) + Len(tail)) :
             (front \o tail)[j] = IF j <= Len(front) THEN front[j] ELSE tail[j - Len(front)]
    BY <2>1, ConcatProperties
  <2> QED
    BY <2>1, <2>2
<1>6. i \in 1..(n + Len(tail)) /\ Len(tail) \in Nat
  BY <1>1, <1>3, <1>4, <1>5
<1>7. CASE i <= n
  <2>1. i \in 1..Len(a)
    BY <1>1, <1>6, <1>7 DEF a
  <2>2. LogWith(t, n)[i] = a[i]
    BY <1>2, <1>4, <1>5, <1>6, <1>7
  <2> QED
    BY <1>1, <2>1, <2>2 DEF a
<1>8. CASE i > n
  <2> DEFINE j == i - n
  <2>1. j \in 1..(Len(b) - n) /\ n + j = i /\ i \in 1..Len(b)
    BY <1>1, <1>3, <1>6, <1>8
  <2>2. LogWith(t, n)[i] = tail[j]
    BY <1>4, <1>5, <1>6, <1>8
  <2> HIDE DEF j
  <2>3. LogWith(t, n)[i] = b[i]
    BY <1>3, <2>1, <2>2
  <2> QED
    BY <2>1, <2>3 DEF b
<1> QED
  BY <1>6, <1>7, <1>8

\* Where a step finds its commands.
LEMMA CommandsAskedForKeeps ==
  ASSUME IInv, CommandsAskedFor, CallsOnce, [Next]_vars
  PROVE  CommandsAskedFor'
<1>0. /\ \A s \in Server : \A i \in 1..Len(logs[s]) : AskedLater(logs[s][i])
      /\ \A i \in 1..Len(chosen) : AskedLater(chosen[i])
      /\ \A h \in handlers : AskedLater(h.op) /\ h.op.client = h.client
  BY AskedNow
<1>1. CASE Choose
  <2>1. /\ latest \in Server /\ Len(chosen) + 1 \in 1..Len(logs[latest])
        /\ chosen' = Append(chosen, logs[latest][Len(chosen) + 1])
        /\ logs' = logs /\ handlers' = handlers
    BY <1>1, ChosenFacts DEF Choose, IInv, TypeOK, RaftType
  <2> DEFINE e == logs[latest][Len(chosen) + 1]
  <2>2. e \in Command /\ AskedLater(e)
    BY <1>0, <2>1, ChosenFacts
  <2>3. /\ Len(chosen') = Len(chosen) + 1 /\ chosen'[Len(chosen) + 1] = e
        /\ \A i \in 1..Len(chosen) : chosen'[i] = chosen[i]
    BY <2>1, <2>2, ChosenFacts, AppendProperties
  <2> HIDE DEF e
  <2>4. \A i \in 1..Len(chosen') : i = Len(chosen) + 1 \/ i \in 1..Len(chosen)
    BY <2>3, ChosenFacts
  <2>5. \A i \in 1..Len(chosen') : AskedLater(chosen'[i])
    BY <1>0, <2>2, <2>3, <2>4
  <2> QED
    BY <1>0, <2>1, <2>5, AskedFrame
<1>2. ASSUME NEW s \in Server, Elect(s) PROVE CommandsAskedFor'
  <2>1. PICK n \in 0..Len(logs[latest]) : logs' = [logs EXCEPT ![s] = LogWith(s, n)]
    BY <1>2 DEF Elect
  <2>2. chosen' = chosen /\ handlers' = handlers
    BY <1>2 DEF Elect
  <2>3. \A i \in 1..Len(LogWith(s, n)) : AskedLater(LogWith(s, n)[i])
    BY <1>0, LogWithElements
  <2>4. \A t \in Server : \A i \in 1..Len(logs'[t]) : AskedLater(logs'[t][i])
    BY <1>0, <2>1, <2>3 DEF IInv, TypeOK, RaftType
  <2> QED
    BY <1>0, <2>2, <2>4, AskedFrame
<1>3. ASSUME NEW s \in Server, StepDown(s) \/ ReadRaftApplyCommandLoop(s) PROVE CommandsAskedFor'
  <2>1. logs' = logs /\ chosen' = chosen /\ handlers' = handlers
    BY <1>3, LoopFrame DEF StepDown, raftVars
  <2> QED
    BY <1>0, <2>1, AskedFrame
<1>4. ASSUME NEW h \in handlers, Handle(h) PROVE CommandsAskedFor'
  <2>1. chosen' = chosen
    BY <1>4, HandlerFrame
  <2>2. \A f \in handlers' : AskedLater(f.op) /\ f.op.client = f.client
    BY <1>0, <1>4, HandlerSteps DEF GoesOn, SameCall
  <2>3. \A t \in Server : \A i \in 1..Len(logs'[t]) : AskedLater(logs'[t][i])
    <3>1. CASE logs' = logs
      BY <1>0, <3>1
    <3>2. CASE logs' # logs
      <4>1. logs' = [logs EXCEPT ![h.server] = Append(@, h.op)]
        BY <1>4, <3>2 DEF Handle, Start, Register, Pop, TimeOut, GetState, TimedOut,
                          ExecuteGetOpOnKVDB, Erase, raftVars
      <4> DEFINE log == Append(logs[h.server], h.op)
      <4>2. h.server \in Server /\ h.op \in Command /\ logs[h.server] \in Seq(Command)
        BY HandlerFacts, ChosenFacts
      <4>3. /\ Len(log) = Len(logs[h.server]) + 1 /\ log[Len(logs[h.server]) + 1] = h.op
            /\ \A i \in 1..Len(logs[h.server]) : log[i] = logs[h.server][i]
            /\ Len(logs[h.server]) \in Nat
        BY <4>2, AppendProperties, LenProperties
      <4>4. logs'[h.server] = log /\ \A t \in Server \ {h.server} : logs'[t] = logs[t]
        BY <4>1, <4>2 DEF IInv, TypeOK, RaftType
      <4> HIDE DEF log
      <4>5. \A i \in 1..Len(log) : i = Len(logs[h.server]) + 1 \/ i \in 1..Len(logs[h.server])
        BY <4>3
      <4>6. \A i \in 1..Len(log) : AskedLater(log[i])
        BY <1>0, <4>2, <4>3, <4>5
      <4> QED
        BY <1>0, <4>4, <4>6
    <3> QED
      BY <3>1, <3>2
  <2> QED
    BY <1>0, <2>1, <2>2, <2>3, AskedFrame
<1>5. ASSUME NEW c \in Client, Invoke(c) \/ Receive(c) \/ Fail(c) PROVE CommandsAskedFor'
  <2>1. logs' = logs /\ chosen' = chosen
    BY <1>5, ClientFrame DEF raftVars
  <2>2. ASSUME NEW id \in {clerk[c].requestId, clerk[c].requestId + 1}, id > 0, Calls(c, id)
        PROVE  \A f \in handlers' : AskedLater(f.op) /\ f.op.client = f.client
    <3>1. AskedLater(Request(c, id)) /\ Request(c, id).client = c
      BY <2>2, ClerkFacts, RequestFacts DEF AskedLater, Calls
    <3> QED
      BY <1>0, <2>2, <3>1 DEF Calls
  <2>3. \A f \in handlers' : AskedLater(f.op) /\ f.op.client = f.client
    <3>1. clerk[c].busy => clerk[c].requestId > 0
      BY DEF IInv, TypeOK, ClientType
    <3>2. clerk[c].requestId + 1 > 0
      BY ClerkFacts
    <3> QED
      BY <1>0, <1>5, <2>2, <3>1, <3>2, ClientSteps DEF Returns
  <2> QED
    BY <1>0, <2>1, <2>3, AskedFrame
<1>6. CASE UNCHANGED vars
  <2>1. logs' = logs /\ chosen' = chosen /\ handlers' = handlers
    BY <1>6 DEF vars, raftVars
  <2> QED
    BY <1>0, <2>1, AskedFrame
<1> QED
  BY <1>1, <1>2, <1>3, <1>4, <1>5, <1>6 DEF Next

\* A call has one handler, and the call under way is for the operation under way.
LEMMA CallsOnceKeeps ==
  ASSUME IInv, CommandsAskedFor, CallsOnce, [Next]_vars
  PROVE  CallsOnce'
<1>1. ASSUME UNCHANGED <<handlers, clientVars>> PROVE CallsOnce'
  BY <1>1 DEF CallsOnce, clientVars
<1>2. ASSUME NEW h \in handlers, Handle(h) PROVE CallsOnce'
  <2>1. PICK g : handlers' \subseteq (handlers \ {h}) \cup {g} /\ SameCall(g, h)
    BY <1>2, HandlerSteps DEF GoesOn
  <2>2. clerk' = clerk /\ calls' = calls
    BY <1>2, HandlerFrame DEF clientVars
  <2> QED
    BY <2>1, <2>2 DEF CallsOnce, SameCall
<1>3. ASSUME NEW c \in Client, Invoke(c) \/ Receive(c) \/ Fail(c) PROVE CallsOnce'
  <2>1. ASSUME NEW id, Calls(c, id) PROVE CallsOnce'
    <3>1. /\ calls \in Nat /\ \A d \in Client : clerk[d].call \in Nat /\ clerk[d].call <= calls
          /\ \A f \in handlers : f.call \in Nat /\ f.client \in Client
      BY ClerkFacts, HandlerFacts DEF CallsOnce
    <3>2. \A d \in Client : clerk'[d].call <= calls'
      BY <2>1, <3>1 DEF Calls
    <3>3. \A f \in handlers' : f \in handlers \/ (f.call = calls + 1 /\ f.client = c /\ f.op.id = id)
      <4>1. Request(c, id).id = id
        BY RequestFacts
      <4> QED
        BY <2>1, <4>1 DEF Calls
    <3>4. \A f \in handlers : f.call \in 1..calls
      BY DEF CallsOnce
    <3>5. \A f \in handlers' : f.call \in 1..calls'
      BY <2>1, <3>1, <3>3, <3>4 DEF Calls
    <3>6. ASSUME NEW f \in handlers', f.call = clerk'[f.client].call
          PROVE  clerk'[f.client].busy /\ f.op.id = clerk'[f.client].requestId
      <4>1. CASE f \in handlers
        <5>1. f.client # c
          BY <2>1, <3>1, <3>4, <3>6, <4>1 DEF Calls
        <5>2. clerk'[f.client] = clerk[f.client]
          BY <2>1, <3>1, <4>1, <5>1 DEF Calls
        <5> QED
          BY <3>6, <4>1, <5>2 DEF CallsOnce
      <4>2. CASE f \notin handlers
        BY <2>1, <3>3, <4>2 DEF Calls
      <4> QED
        BY <4>1, <4>2
    <3>7. ASSUME NEW f \in handlers', NEW g \in handlers', g.call = f.call PROVE g = f
      <4>1. CASE f \in handlers /\ g \in handlers
        BY <3>7, <4>1 DEF CallsOnce
      <4>2. CASE f \notin handlers /\ g \notin handlers
        BY <2>1, <4>2 DEF Calls
      <4>3. CASE f \in handlers /\ g \notin handlers
        BY <3>1, <3>3, <3>4, <3>7, <4>3
      <4>4. CASE f \notin handlers /\ g \in handlers
        BY <3>1, <3>3, <3>4, <3>7, <4>4
      <4> QED
        BY <4>1, <4>2, <4>3, <4>4
    <3> QED
      BY <3>2, <3>5, <3>6, <3>7 DEF CallsOnce
  <2>2. ASSUME NEW h, Returns(c, h) PROVE CallsOnce'
    <3>1. /\ \A d \in Client : clerk'[d].call = clerk[d].call /\ clerk'[d].requestId = clerk[d].requestId
          /\ \A d \in Client \ {c} : clerk'[d] = clerk[d]
          /\ calls' = calls /\ handlers' = handlers \ {h}
      BY <2>2 DEF Returns
    <3>2. \A f \in handlers : f.client \in Client
      BY HandlerFacts
    <3>3. h.client = c /\ h \in handlers
      BY <2>2 DEF Returns
    <3>4. ASSUME NEW f \in handlers', f.call = clerk'[f.client].call
          PROVE  clerk'[f.client].busy /\ f.op.id = clerk'[f.client].requestId
      <4>1. f \in handlers /\ f # h /\ f.call = clerk[f.client].call
        BY <3>1, <3>2, <3>4
      <4>2. clerk[f.client].busy /\ f.op.id = clerk[f.client].requestId
        BY <4>1 DEF CallsOnce
      <4>3. f.client # c
        BY <1>3, <3>3, <4>1, <4>2, <2>2 DEF CallsOnce, Returns
      <4> QED
        BY <3>1, <3>2, <4>1, <4>2, <4>3
    <3> QED
      BY <3>1, <3>4 DEF CallsOnce
  <2> QED
    BY <1>3, <2>1, <2>2, ClientSteps
<1>4. CASE Choose
  BY <1>1, <1>4 DEF Choose
<1>5. ASSUME NEW s \in Server, Elect(s) \/ StepDown(s) \/ ReadRaftApplyCommandLoop(s) PROVE CallsOnce'
  BY <1>1, <1>5, RaftFrame, LoopFrame
<1>6. CASE UNCHANGED vars
  BY <1>1, <1>6 DEF vars
<1> QED
  BY <1>2, <1>3, <1>4, <1>5, <1>6 DEF Next

-----------------------------------------------------------------------------
(* One operation of a client after the other *)

\* The committed commands after a step.
ChosenLater(op, n) == \E i \in 1..n : chosen'[i] = op
UpdatesLater(c, id, n) ==
  \A d \in 1..(id - 1) : IsUpdate(Request(c, d)) => ChosenLater(Request(c, d), n)

LEMMA ChosenGrows ==
  ASSUME IInv, [Next]_vars
  PROVE  /\ workload' = workload /\ chosen' \in Seq(Command)
         /\ Len(chosen') \in Nat /\ Len(chosen') >= Len(chosen)
         /\ \A i \in 1..Len(chosen) : chosen'[i] = chosen[i]
         /\ \A n \in 0..Len(chosen) : SubSeq(chosen', 1, n) = SubSeq(chosen, 1, n)
         /\ chosen' = chosen \/ Choose
<1>1. CASE Choose
  <2>1. /\ latest \in Server /\ Len(chosen) + 1 \in 1..Len(logs[latest])
        /\ chosen' = Append(chosen, logs[latest][Len(chosen) + 1])
        /\ workload' = workload
    BY <1>1, ChosenFacts DEF Choose, IInv, TypeOK, RaftType
  <2> DEFINE e == logs[latest][Len(chosen) + 1]
  <2>2. e \in Command
    BY <2>1, ChosenFacts
  <2>3. chosen' = Append(chosen, e) /\ chosen \in Seq(Command) /\ Len(chosen) \in Nat
    BY <2>1, ChosenFacts
  <2> HIDE DEF e
  <2>4. /\ chosen' \in Seq(Command) /\ Len(chosen') = Len(chosen) + 1
        /\ \A i \in 1..Len(chosen) : chosen'[i] = chosen[i]
    BY <2>2, <2>3, AppendProperties
  <2>5. \A n \in 0..Len(chosen) : SubSeq(chosen', 1, n) = SubSeq(chosen, 1, n)
    BY <2>2, <2>3, PrefixOfAppend
  <2> QED
    BY <1>1, <2>1, <2>3, <2>4, <2>5
<1>2. CASE ~Choose
  <2>1. workload' = workload /\ chosen' = chosen
    BY <1>2, RaftFrame, LoopFrame, HandlerFrame, ClientFrame DEF Next, vars, raftVars
  <2> QED
    BY <2>1, ChosenFacts
<1> QED
  BY <1>1, <1>2

LEMMA ChosenStays ==
  ASSUME IInv, [Next]_vars, NEW n \in 0..Len(chosen), NEW op
  PROVE  Chosen(op, n) <=> ChosenLater(op, n)
<1>1. \A i \in 1..n : i \in 1..Len(chosen)
  BY ChosenFacts
<1> QED
  BY <1>1, ChosenGrows DEF Chosen, ChosenLater

LEMMA LaterGrows ==
  ASSUME NEW n \in Nat, NEW m \in Nat, n <= m, NEW op, ChosenLater(op, n)
  PROVE  ChosenLater(op, m)
BY DEF ChosenLater

LEMMA NowGrows ==
  ASSUME NEW n \in Nat, NEW m \in Nat, n <= m, NEW op, Chosen(op, n)
  PROVE  Chosen(op, m)
BY DEF Chosen

\* What was committed before stays committed before.
LEMMA UpdatesStay ==
  ASSUME IInv, [Next]_vars, NEW n \in 0..Len(chosen), NEW m \in Nat, n <= m, NEW c, NEW id,
         UpdatesBefore(c, id, n)
  PROVE  UpdatesLater(c, id, m)
<1>1. \A op : Chosen(op, n) => ChosenLater(op, n)
  BY ChosenStays
<1>2. \A op : ChosenLater(op, n) => ChosenLater(op, m)
  BY LaterGrows, ChosenFacts
<1> QED
  BY <1>1, <1>2 DEF UpdatesBefore, UpdatesLater

LEMMA UpdatesMore ==
  ASSUME NEW n \in Nat, NEW m \in Nat, n <= m, NEW c, NEW id, UpdatesBefore(c, id, n)
  PROVE  UpdatesBefore(c, id, m)
BY NowGrows DEF UpdatesBefore

\* Whatever clients have asked for, their updates before it are committed.
LEMMA Sequential ==
  ASSUME IInv, OneAfterTheOther, NEW op, op.client \in Client, AskedFor(op)
  PROVE  UpdatesBefore(op.client, op.id, Len(chosen))
<1> DEFINE c == op.client
           id == IF clerk[c].busy THEN clerk[c].requestId ELSE clerk[c].requestId + 1
<1>1. UpdatesBefore(c, id, Len(chosen))
  BY DEF OneAfterTheOther
<1>2. op.id \in Nat /\ id \in Nat /\ op.id <= id
  BY ClerkFacts DEF AskedFor
<1> HIDE DEF id
<1>3. \A d \in 1..(op.id - 1) : d \in 1..(id - 1)
  BY <1>2
<1> QED
  BY <1>1, <1>3 DEF UpdatesBefore

LEMMA OneAfterTheOtherKeeps ==
  ASSUME IInv, RInv, [Next]_vars
  PROVE  OneAfterTheOther'
<1>0. /\ workload' = workload /\ Len(chosen) \in Nat /\ Len(chosen') \in Nat
      /\ Len(chosen') >= Len(chosen)
      /\ \A i \in 1..Len(chosen) : chosen'[i] = chosen[i]
  BY ChosenGrows, ChosenFacts
<1>1. SUFFICES
        /\ \A c \in Client :
             UpdatesLater(c, IF clerk'[c].busy THEN clerk'[c].requestId ELSE clerk'[c].requestId + 1,
                          Len(chosen'))
        /\ \A j \in 1..Len(chosen') : UpdatesLater(chosen'[j].client, chosen'[j].id, j - 1)
  BY <1>0 DEF OneAfterTheOther, UpdatesBefore, Chosen, UpdatesLater, ChosenLater, Request
<1>2. ASSUME NEW j \in 1..Len(chosen)
      PROVE  UpdatesLater(chosen'[j].client, chosen'[j].id, j - 1)
  <2>1. j - 1 \in 0..Len(chosen) /\ j - 1 \in Nat
    BY <1>0
  <2>2. UpdatesBefore(chosen[j].client, chosen[j].id, j - 1)
    BY DEF RInv, OneAfterTheOther
  <2>3. UpdatesLater(chosen[j].client, chosen[j].id, j - 1)
    BY <2>1, <2>2, UpdatesStay
  <2> QED
    BY <1>0, <2>3
<1>3. \A j \in 1..Len(chosen') : UpdatesLater(chosen'[j].client, chosen'[j].id, j - 1)
  <2>1. CASE chosen' = chosen
    BY <1>2, <2>1
  <2>2. CASE Choose
    <3> DEFINE e == logs[latest][Len(chosen) + 1]
               k == Len(chosen) + 1
    <3>1. /\ latest \in Server /\ Len(chosen) + 1 \in 1..Len(logs[latest])
          /\ chosen' = Append(chosen, e)
      BY <2>2, ChosenFacts DEF Choose, IInv, TypeOK, RaftType
    <3>2. e \in Command /\ e.client \in Client /\ AskedFor(e)
      BY <3>1, ChosenFacts DEF RInv, CommandsAskedFor
    <3> HIDE DEF e
    <3>3. Len(chosen') = k /\ chosen'[k] = e
      BY <3>1, <3>2, ChosenFacts, AppendProperties
    <3>4. UpdatesBefore(e.client, e.id, Len(chosen))
      BY <3>2, Sequential DEF RInv
    <3>5. Len(chosen) \in 0..Len(chosen)
      BY <1>0
    <3>6. UpdatesLater(e.client, e.id, Len(chosen))
      BY <1>0, <3>4, <3>5, UpdatesStay
    <3>7. k - 1 = Len(chosen) /\ \A j \in 1..Len(chosen') : j = k \/ j \in 1..Len(chosen)
      BY <1>0, <3>3
    <3> HIDE DEF k
    <3> QED
      BY <1>2, <3>3, <3>6, <3>7
  <2> QED
    BY <2>1, <2>2, ChosenGrows
<1>4. ASSUME NEW c \in Client,
             NEW id, UpdatesBefore(c, id, Len(chosen)),
             id = IF clerk'[c].busy THEN clerk'[c].requestId ELSE clerk'[c].requestId + 1
      PROVE  UpdatesLater(c, IF clerk'[c].busy THEN clerk'[c].requestId ELSE clerk'[c].requestId + 1,
                          Len(chosen'))
  <2>1. Len(chosen) \in 0..Len(chosen)
    BY <1>0
  <2> QED
    BY <1>0, <1>4, <2>1, UpdatesStay
<1> DEFINE Before(c) == IF clerk[c].busy THEN clerk[c].requestId ELSE clerk[c].requestId + 1
           After(c) == IF clerk'[c].busy THEN clerk'[c].requestId ELSE clerk'[c].requestId + 1
<1>5. \A c \in Client : UpdatesBefore(c, Before(c), Len(chosen))
  BY DEF RInv, OneAfterTheOther
<1>6. SUFFICES \A c \in Client : UpdatesBefore(c, After(c), Len(chosen))
  BY <1>3, <1>4
<1>7. CASE clerk' = clerk
  BY <1>5, <1>7
<1>8. ASSUME NEW c \in Client, Invoke(c) \/ Receive(c) \/ Fail(c)
      PROVE  \A d \in Client : UpdatesBefore(d, After(d), Len(chosen))
  <2>1. SUFFICES UpdatesBefore(c, After(c), Len(chosen)) /\ \A d \in Client \ {c} : clerk'[d] = clerk[d]
    BY <1>5
  <2>2. CASE ~clerk[c].busy /\ Calls(c, clerk[c].requestId + 1)
    BY <1>5, <2>2 DEF Calls
  <2>3. CASE clerk[c].busy /\ Calls(c, clerk[c].requestId)
    BY <1>5, <2>3 DEF Calls
  <2>4. ASSUME NEW h, Returns(c, h)
        PROVE  UpdatesBefore(c, After(c), Len(chosen)) /\ \A d \in Client \ {c} : clerk'[d] = clerk[d]
    <3> DEFINE id == clerk[c].requestId
    <3>1. Before(c) = id /\ After(c) = id + 1 /\ id \in Nat
      BY <2>4, ClerkFacts DEF Returns
    <3>2. /\ h \in handlers /\ h.op.id = id /\ h.client = c
          /\ h.at = "answered" /\ h.reply.err # "ErrWrongLeader"
      BY <2>4 DEF Returns
    <3>3. h.op = Request(c, id)
      BY <3>2 DEF RInv, CommandsAskedFor, AskedFor
    <3>4. IsUpdate(Request(c, id)) => Chosen(Request(c, id), Len(chosen))
      BY <3>2, <3>3 DEF RInv, UpdatesAnswered
    <3>5. UpdatesBefore(c, id, Len(chosen))
      BY <1>5, <3>1
    <3> HIDE DEF id
    <3> DEFINE next == id + 1
    <3>6. \A d \in 1..(next - 1) : d = id \/ d \in 1..(id - 1)
      BY <3>1
    <3> HIDE DEF next
    <3>7. UpdatesBefore(c, next, Len(chosen))
      <4> SUFFICES ASSUME NEW d \in 1..(next - 1), IsUpdate(Request(c, d))
                   PROVE  Chosen(Request(c, d), Len(chosen))
        BY DEF UpdatesBefore
      <4>1. CASE d = id
        BY <3>4, <4>1
      <4>2. CASE d \in 1..(id - 1)
        BY <3>5, <4>2 DEF UpdatesBefore
      <4> QED
        BY <3>6, <4>1, <4>2
    <3> QED
      BY <2>4, <3>1, <3>7 DEF Returns, next
  <2> QED
    BY <1>8, <2>2, <2>3, <2>4, ClientSteps DEF RInv, Calls
<1>9. clerk' = clerk \/ \E c \in Client : Invoke(c) \/ Receive(c) \/ Fail(c)
  BY RaftFrame, LoopFrame, HandlerFrame DEF Next, Choose, vars, clientVars
<1> QED
  BY <1>7, <1>8, <1>9

-----------------------------------------------------------------------------
(* What the apply loops have gone through *)

LEMMA AppliedGrows ==
  ASSUME IInv, [Next]_vars, NEW s \in Server
  PROVE  /\ applied[s] \in 0..Len(chosen) /\ applied'[s] \in Nat
         /\ applied[s] <= applied'[s] /\ applied'[s] <= Len(chosen) /\ applied'[s] <= Len(chosen')
<1>1. /\ Len(chosen) \in Nat /\ applied[s] \in 0..Len(chosen)
      /\ Len(chosen') \in Nat /\ Len(chosen') >= Len(chosen)
  BY ChosenFacts, ChosenGrows
<1>2. CASE applied' = applied
  BY <1>1, <1>2
<1>3. CASE applied' # applied
  <2>1. PICK t \in Server : ReadRaftApplyCommandLoop(t)
    BY <1>3, RaftFrame, HandlerFrame, ClientFrame DEF Next, Choose, vars, storeVars
  <2>2. applied' = [applied EXCEPT ![t] = @ + 1] /\ applied[t] < Len(chosen)
    BY <1>3, <2>1 DEF ReadRaftApplyCommandLoop, GetCommandFromRaft, Execute, SendMessageToWaitChan,
                      storeVars, IInv, TypeOK, StoreType
  <2> QED
    BY <1>1, <2>2 DEF IInv, TypeOK, StoreType
<1> QED
  BY <1>2, <1>3

\* A handler that finds its command executed: so are the updates before it.
LEMMA DoneHere ==
  ASSUME IInv, RInv, NEW h \in handlers, Popped(h) \/ Duplicate(h)
  PROVE  /\ UpdatesBefore(h.client, h.op.id, applied[h.server])
         /\ Popped(h) \/ IsUpdate(h.op) => Chosen(h.op, applied[h.server])
<1>1. /\ h \in HandlerState /\ h.server \in Server /\ h.op \in Command /\ h.op.id \in Nat
      /\ AskedFor(h.op) /\ h.op.client = h.client /\ h.client \in Client
      /\ applied[h.server] \in 0..Len(chosen) /\ Len(chosen) \in Nat
  BY HandlerFacts, ChosenFacts DEF RInv, CommandsAskedFor
<1>2. CASE Popped(h)
  <2> DEFINE queue == waitApplyCh[h.server][h.raftIndex]
  <2>1. h.raftIndex \in DOMAIN waitApplyCh[h.server] /\ queue \in Seq(Command) /\ queue # <<>>
    BY <1>1, <1>2 DEF Popped, IInv, TypeOK, HandlerType, HasQueue
  <2>2. Len(queue) \in Nat \ {0} /\ Head(queue) = queue[1]
    BY <2>1, EmptySeq
  <2>3. 1 \in 1..Len(queue)
    BY <2>2
  <2>4. Chosen(queue[1], applied[h.server])
    BY <1>1, <2>1, <2>3 DEF RInv, QueuesApplied
  <2>5. PICK i \in 1..applied[h.server] : chosen[i] = queue[1]
    BY <2>4 DEF Chosen
  <2>6. i \in 1..Len(chosen) /\ i - 1 \in Nat /\ applied[h.server] \in Nat /\ i - 1 <= applied[h.server]
    BY <1>1
  <2>7. chosen[i].client = h.op.client /\ chosen[i].id = h.op.id
    BY <1>2, <2>2, <2>5 DEF Popped, IsCommandOf
  <2>8. chosen[i] = h.op
    BY <1>1, <2>6, <2>7 DEF RInv, CommandsAskedFor, AskedFor
  <2>9. UpdatesBefore(h.client, h.op.id, i - 1)
    BY <1>1, <2>6, <2>7 DEF RInv, OneAfterTheOther
  <2>10. UpdatesBefore(h.client, h.op.id, applied[h.server])
    BY <2>6, <2>9, UpdatesMore
  <2> QED
    BY <2>8, <2>10 DEF Chosen
<1>3. CASE Duplicate(h)
  <2> DEFINE l == lastRequestId[h.server][h.client]
  <2>1. l \in Nat /\ h.op.id <= l
    BY <1>1, <1>3 DEF Duplicate, ifRequestDuplicate, IInv, TypeOK, StoreType
  <2>2. UpdatesBefore(h.client, l + 1, applied[h.server])
    BY <1>1 DEF RInv, LastRequests
  <2>3. h.op.id \in 1..clerk[h.client].requestId /\ h.op = Request(h.client, h.op.id)
    BY <1>1 DEF AskedFor
  <2> HIDE DEF l
  <2> DEFINE next == l + 1
  <2>4. h.op.id \in 1..(next - 1) /\ \A d \in 1..(h.op.id - 1) : d \in 1..(next - 1)
    BY <1>1, <2>1, <2>3
  <2>5. UpdatesBefore(h.client, next, applied[h.server])
    BY <2>2
  <2> HIDE DEF next
  <2>6. \A d \in 1..(next - 1) :
          IsUpdate(Request(h.client, d)) => Chosen(Request(h.client, d), applied[h.server])
    BY <2>5 DEF UpdatesBefore
  <2>7. UpdatesBefore(h.client, h.op.id, applied[h.server])
    BY <2>4, <2>6 DEF UpdatesBefore
  <2>8. IsUpdate(h.op) => Chosen(h.op, applied[h.server])
    BY <2>3, <2>4, <2>6
  <2> QED
    BY <1>3, <2>7, <2>8 DEF Popped, Duplicate
<1> QED
  BY <1>2, <1>3

-----------------------------------------------------------------------------
(* Queues, handlers and the duplicate test *)

LEMMA QueuesAppliedKeeps ==
  ASSUME IInv, RInv, [Next]_vars
  PROVE  QueuesApplied'
<1>1. ASSUME NEW op, NEW s \in Server, Chosen(op, applied[s])
      PROVE  ChosenLater(op, applied'[s])
  <2>1. applied[s] \in 0..Len(chosen) /\ applied[s] \in Nat /\ applied'[s] \in Nat /\ applied[s] <= applied'[s]
    BY AppliedGrows, ChosenFacts
  <2>2. ChosenLater(op, applied[s])
    BY <1>1, <2>1, ChosenStays
  <2> QED
    BY <2>1, <2>2, LaterGrows
<1> DEFINE Holds(queue, s) == \A j \in 1..Len(queue) : ChosenLater(queue[j], applied'[s])
<1>2. \A s \in Server : \A i \in DOMAIN waitApplyCh[s] : Holds(waitApplyCh[s][i], s)
  BY <1>1 DEF RInv, QueuesApplied
<1>3. SUFFICES \A s \in Server : \A i \in DOMAIN waitApplyCh'[s] : Holds(waitApplyCh'[s][i], s)
  BY DEF QueuesApplied, Chosen, ChosenLater
<1> HIDE DEF Holds
<1>4. DOMAIN waitApplyCh = Server /\ \A s \in Server : \A i \in DOMAIN waitApplyCh[s] : waitApplyCh[s][i] \in Seq(Command)
  BY DEF IInv, TypeOK, HandlerType
<1>5. CASE waitApplyCh' = waitApplyCh
  BY <1>2, <1>5
<1>6. ASSUME NEW s \in Server, SendMessageToWaitChan(s), waitApplyCh' # waitApplyCh
      PROVE  \A t \in Server : \A i \in DOMAIN waitApplyCh'[t] : Holds(waitApplyCh'[t][i], t)
  <2> DEFINE n == applied[s]
             old == waitApplyCh[s][n]
             new == Append(old, chosen[n])
  <2>1. /\ n \in DOMAIN waitApplyCh[s] /\ n \in 1..Len(chosen) /\ n \in Nat
        /\ waitApplyCh' = [waitApplyCh EXCEPT ![s] = [@ EXCEPT ![n] = new]]
    BY <1>6, ChosenFacts DEF SendMessageToWaitChan, IInv, TypeOK, StoreType
  <2>2. old \in Seq(Command) /\ chosen[n] \in Command
    BY <1>4, <2>1, ChosenFacts
  <2>3. Chosen(chosen[n], n)
    BY <2>1 DEF Chosen
  <2>4. ChosenLater(chosen[n], applied'[s])
    BY <1>1, <2>3
  <2>5. /\ Len(new) = Len(old) + 1 /\ Len(old) \in Nat /\ new[Len(old) + 1] = chosen[n]
        /\ \A j \in 1..Len(old) : new[j] = old[j]
    BY <2>2, AppendProperties, LenProperties
  <2>6. Holds(old, s)
    BY <1>2, <2>1
  <2> HIDE DEF n, old, new
  <2>7. \A j \in 1..Len(new) : j = Len(old) + 1 \/ j \in 1..Len(old)
    BY <2>5
  <2>8. Holds(new, s)
    BY <2>4, <2>5, <2>6, <2>7 DEF Holds
  <2> QED
    BY <1>2, <1>4, <2>1, <2>8
<1>7. ASSUME NEW h \in handlers, Register(h)
      PROVE  \A t \in Server : \A i \in DOMAIN waitApplyCh'[t] : Holds(waitApplyCh'[t][i], t)
  <2> DEFINE queues == [i \in DOMAIN waitApplyCh[h.server] \cup {h.raftIndex} |->
                          IF i \in DOMAIN waitApplyCh[h.server] THEN waitApplyCh[h.server][i] ELSE <<>>]
  <2>1. waitApplyCh' = [waitApplyCh EXCEPT ![h.server] = queues] /\ h.server \in Server
    BY <1>7, HandlerFacts DEF Register
  <2>2. Holds(<<>>, h.server)
    <3>1. 1..Len(<<>>) = {}
      BY EmptySeq
    <3> QED
      BY <3>1 DEF Holds
  <2>3. \A i \in DOMAIN queues : queues[i] = <<>> \/ (i \in DOMAIN waitApplyCh[h.server] /\ queues[i] = waitApplyCh[h.server][i])
    OBVIOUS
  <2>4. \A i \in DOMAIN queues : Holds(queues[i], h.server)
    BY <1>2, <2>1, <2>2, <2>3
  <2> HIDE DEF queues
  <2> QED
    BY <1>2, <1>4, <2>1, <2>4
<1>8. ASSUME NEW h \in handlers, Pop(h)
      PROVE  \A t \in Server : \A i \in DOMAIN waitApplyCh'[t] : Holds(waitApplyCh'[t][i], t)
  <2> DEFINE old == waitApplyCh[h.server][h.raftIndex]
             new == Tail(old)
  <2>1. /\ waitApplyCh' = [waitApplyCh EXCEPT ![h.server] = [@ EXCEPT ![h.raftIndex] = new]]
        /\ h.server \in Server /\ old # <<>> /\ h.raftIndex \in DOMAIN waitApplyCh[h.server]
    BY <1>8, HandlerFacts DEF Pop, IInv, TypeOK, HandlerType, HasQueue
  <2>2. old \in Seq(Command)
    BY <1>4, <2>1
  <2>3. /\ Len(new) = Len(old) - 1 /\ Len(old) \in Nat
        /\ \A j \in 1..Len(new) : new[j] = old[j + 1]
    BY <2>1, <2>2, HeadTailProperties, LenProperties
  <2>4. Holds(old, h.server)
    BY <1>2, <2>1
  <2> HIDE DEF old, new
  <2>5. \A j \in 1..Len(new) : j + 1 \in 1..Len(old)
    BY <2>3
  <2>6. Holds(new, h.server)
    BY <2>3, <2>4, <2>5 DEF Holds
  <2> QED
    BY <1>2, <1>4, <2>1, <2>6
<1>9. ASSUME NEW h \in handlers, Erase(h)
      PROVE  \A t \in Server : \A i \in DOMAIN waitApplyCh'[t] : Holds(waitApplyCh'[t][i], t)
  <2> DEFINE queues == [i \in DOMAIN waitApplyCh[h.server] \ {h.raftIndex} |-> waitApplyCh[h.server][i]]
  <2>1. waitApplyCh' = [waitApplyCh EXCEPT ![h.server] = queues] /\ h.server \in Server
    BY <1>9, HandlerFacts DEF Erase
  <2>2. \A i \in DOMAIN queues : Holds(queues[i], h.server)
    BY <1>2, <2>1
  <2> HIDE DEF queues
  <2> QED
    BY <1>2, <1>4, <2>1, <2>2
<1>10. \/ waitApplyCh' = waitApplyCh
       \/ \E s \in Server : SendMessageToWaitChan(s)
       \/ \E h \in handlers : Register(h) \/ Pop(h) \/ Erase(h)
  <2>1. ASSUME NEW h \in handlers, Handle(h)
        PROVE  Register(h) \/ Pop(h) \/ Erase(h) \/ waitApplyCh' = waitApplyCh
    BY <2>1 DEF Handle, Start, TimeOut, GetState, TimedOut, ExecuteGetOpOnKVDB
  <2>2. ASSUME NEW s \in Server, ReadRaftApplyCommandLoop(s)
        PROVE  SendMessageToWaitChan(s) \/ waitApplyCh' = waitApplyCh
    BY <2>2 DEF ReadRaftApplyCommandLoop, GetCommandFromRaft, Execute
  <2> QED
    BY <2>1, <2>2, RaftFrame, ClientFrame DEF Next, Choose, vars
<1> QED
  BY <1>5, <1>6, <1>7, <1>8, <1>9, <1>10

\* What handlers do from here on is done at their server.
LEMMA HandlersLater ==
  ASSUME IInv, RInv, [Next]_vars, NEW g \in handlers'
  PROVE  \/ g \in handlers
         \/ g.at = "start"
         \/ \E h \in handlers : Handle(h) /\ GoesOn(h, g)
<1>1. ASSUME NEW c \in Client, Invoke(c) \/ Receive(c) \/ Fail(c) PROVE g \in handlers \/ g.at = "start"
  BY <1>1, ClientSteps DEF RInv, Calls, Returns
<1>2. ASSUME NEW h \in handlers, Handle(h) PROVE g \in handlers \/ GoesOn(h, g)
  BY <1>2, HandlerSteps
<1>3. \/ handlers' = handlers
      \/ \E c \in Client : Invoke(c) \/ Receive(c) \/ Fail(c)
      \/ \E h \in handlers : Handle(h)
  BY RaftFrame, LoopFrame DEF Next, Choose, vars
<1> QED
  BY <1>1, <1>2, <1>3

LEMMA UpdatesAnsweredKeeps ==
  ASSUME IInv, RInv, [Next]_vars
  PROVE  UpdatesAnswered'
<1>1. SUFFICES ASSUME NEW g \in handlers', g.at \in {"erase", "answered"}, IsUpdate(g.op)
               PROVE  /\ g.reply.err # "ErrWrongLeader" => ChosenLater(g.op, Len(chosen'))
                      /\ g.reply.value = <<>>
  BY DEF UpdatesAnswered, ChosenLater, Chosen
<1>2. /\ Len(chosen) \in 0..Len(chosen) /\ Len(chosen) \in Nat /\ Len(chosen') \in Nat
      /\ Len(chosen) <= Len(chosen')
  BY ChosenFacts, ChosenGrows
<1>3. ASSUME Chosen(g.op, Len(chosen)) PROVE ChosenLater(g.op, Len(chosen'))
  BY <1>2, <1>3, ChosenStays, LaterGrows
<1>4. CASE g \in handlers
  BY <1>1, <1>3, <1>4 DEF RInv, UpdatesAnswered
<1>5. ASSUME NEW h \in handlers, Handle(h), GoesOn(h, g)
      PROVE  /\ g.reply.err # "ErrWrongLeader" => ChosenLater(g.op, Len(chosen'))
             /\ g.reply.value = <<>>
  <2>1. g.op = h.op
    BY <1>5 DEF GoesOn, SameCall
  <2>2. CASE g.reply = ErrWrongLeader
    BY <2>2 DEF ErrWrongLeader
  <2>3. CASE g.reply = OK /\ (Popped(h) \/ Duplicate(h))
    <3>1. Chosen(h.op, applied[h.server]) /\ applied[h.server] \in 0..Len(chosen)
      BY <1>1, <2>1, <2>3, DoneHere, HandlerFacts, ChosenFacts
    <3>2. Chosen(h.op, Len(chosen))
      BY <1>2, <3>1, NowGrows
    <3> QED
      BY <1>3, <2>1, <2>3, <3>2 DEF OK
  <2>4. ~ExecuteGetOpOnKVDB(h)
    BY <1>1, <2>1 DEF RInv, GetsAfter, ExecuteGetOpOnKVDB, IsUpdate
  <2>5. CASE h.at = "erase" /\ g.reply = h.reply
    BY <1>1, <1>3, <2>1, <2>5 DEF RInv, UpdatesAnswered
  <2> QED
    BY <1>1, <1>5, <2>2, <2>3, <2>4, <2>5 DEF GoesOn
<1> QED
  BY <1>1, <1>4, <1>5, HandlersLater

LEMMA GetsAfterKeeps ==
  ASSUME IInv, RInv, [Next]_vars
  PROVE  GetsAfter'
<1>0. workload' = workload
  BY ChosenGrows
<1>1. SUFFICES ASSUME NEW g \in handlers'
               PROVE  /\ g.at \in {"getState", "get"} => g.op.op = "Get"
                      /\ g.at = "get" => UpdatesLater(g.client, g.op.id, applied'[g.server])
  BY <1>0 DEF GetsAfter, UpdatesBefore, UpdatesLater, ChosenLater, Chosen, Request
<1>2. ASSUME NEW s \in Server, NEW c, NEW id, UpdatesBefore(c, id, applied[s])
      PROVE  UpdatesLater(c, id, applied'[s])
  <2>1. applied[s] \in 0..Len(chosen) /\ applied'[s] \in Nat /\ applied[s] <= applied'[s]
    BY AppliedGrows
  <2> QED
    BY <1>2, <2>1, UpdatesStay
<1>3. CASE g \in handlers
  BY <1>2, <1>3, HandlerFacts DEF RInv, GetsAfter
<1>4. CASE g.at = "start"
  BY <1>4
<1>5. ASSUME NEW h \in handlers, Handle(h), GoesOn(h, g)
      PROVE  /\ g.at \in {"getState", "get"} => g.op.op = "Get"
             /\ g.at = "get" => UpdatesLater(g.client, g.op.id, applied'[g.server])
  <2>1. SameCall(g, h) /\ (g.at \in {"getState", "get"} => h.op.op = "Get")
    BY <1>5 DEF GoesOn
  <2>2. ASSUME g.at = "get" PROVE UpdatesLater(g.client, g.op.id, applied'[g.server])
    <3>1. Popped(h) \/ Duplicate(h)
      BY <1>5, <2>2 DEF GoesOn
    <3>2. UpdatesBefore(h.client, h.op.id, applied[h.server])
      BY <3>1, DoneHere
    <3> QED
      BY <1>2, <2>1, <3>2, HandlerFacts DEF SameCall
  <2> QED
    BY <2>1, <2>2 DEF SameCall
<1> QED
  BY <1>3, <1>4, <1>5, HandlersLater

\* LastRequests of one server, after a step.
LastLater(s) ==
  /\ \A i \in 1..applied'[s] :
       IsUpdate(chosen'[i]) => chosen'[i].id <= lastRequestId'[s][chosen'[i].client]
  /\ \A c \in Client : /\ lastRequestId'[s][c] <= clerk'[c].requestId
                       /\ UpdatesLater(c, lastRequestId'[s][c] + 1, applied'[s])
  /\ applying'[s] = "execute" =>
       LET op == chosen'[applied'[s] + 1] IN IsUpdate(op) /\ ~ChosenLater(op, applied'[s])

LEMMA LastStays ==
  ASSUME IInv, RInv, [Next]_vars, NEW s \in Server,
         applied'[s] = applied[s], lastRequestId'[s] = lastRequestId[s],
         applying'[s] = "execute" => applying[s] = "execute"
  PROVE  LastLater(s)
<1>1. /\ applied[s] \in 0..Len(chosen) /\ Len(chosen) \in Nat
      /\ \A i \in 1..Len(chosen) : chosen'[i] = chosen[i]
  BY ChosenFacts, ChosenGrows
<1>2. \A i \in 1..applied'[s] :
        IsUpdate(chosen'[i]) => chosen'[i].id <= lastRequestId'[s][chosen'[i].client]
  BY <1>1 DEF RInv, LastRequests
<1>3. ASSUME NEW c \in Client
      PROVE  /\ lastRequestId'[s][c] <= clerk'[c].requestId
             /\ UpdatesLater(c, lastRequestId'[s][c] + 1, applied'[s])
  <2>1. lastRequestId[s][c] <= clerk[c].requestId /\ UpdatesBefore(c, lastRequestId[s][c] + 1, applied[s])
    BY DEF RInv, LastRequests
  <2>2. lastRequestId[s][c] \in Nat /\ clerk[c].requestId \in Nat
    BY ClerkFacts DEF IInv, TypeOK, StoreType
  <2>3. clerk'[c].requestId \in Nat /\ clerk[c].requestId <= clerk'[c].requestId
    BY ClerksLater DEF RInv
  <2>4. applied[s] \in Nat /\ applied[s] <= applied[s]
    BY <1>1
  <2>5. UpdatesLater(c, lastRequestId[s][c] + 1, applied[s])
    BY <1>1, <2>1, <2>4, UpdatesStay
  <2> QED
    BY <2>1, <2>2, <2>3, <2>5
<1>4. ASSUME applying'[s] = "execute"
      PROVE  LET op == chosen'[applied'[s] + 1] IN IsUpdate(op) /\ ~ChosenLater(op, applied'[s])
  <2> DEFINE n == applied[s]
             op == chosen[n + 1]
  <2>1. n < Len(chosen)
    BY <1>4 DEF IInv, TypeOK, StoreType
  <2>2. n + 1 \in 1..Len(chosen)
    BY <1>1, <2>1
  <2>3. IsUpdate(op) /\ ~Chosen(op, n)
    BY <1>4 DEF RInv, LastRequests
  <2> HIDE DEF op
  <2>4. ~ChosenLater(op, n)
    BY <1>1, <2>3, ChosenStays
  <2> QED
    BY <1>1, <2>2, <2>3, <2>4 DEF op
<1> QED
  BY <1>2, <1>3, <1>4 DEF LastLater

\* A command that is no update, or a duplicate, is passed over.
LEMMA LastAfterGetCommand ==
  ASSUME IInv, RInv, [Next]_vars, NEW s \in Server, GetCommandFromRaft(s)
  PROVE  LastLater(s)
<1> DEFINE n == applied[s]
           m == n + 1
           op == chosen[m]
<1>1. /\ n \in 0..Len(chosen) /\ n \in Nat /\ m \in Nat /\ m \in 1..Len(chosen) /\ Len(chosen) \in Nat
      /\ chosen' = chosen /\ lastRequestId' = lastRequestId /\ clerk' = clerk /\ workload' = workload
  BY ChosenFacts DEF GetCommandFromRaft, raftVars, clientVars
<1>2. op \in Command /\ op.client \in Client /\ op.id \in Nat /\ AskedFor(op)
  BY <1>1, ChosenFacts DEF RInv, CommandsAskedFor
<1>3. lastRequestId[s][op.client] \in Nat
  BY <1>2 DEF IInv, TypeOK, StoreType
<1>4. \A i \in 1..n : IsUpdate(chosen[i]) => chosen[i].id <= lastRequestId[s][chosen[i].client]
  BY DEF RInv, LastRequests
<1>5. CASE IsUpdate(op) /\ ~ifRequestDuplicate(s, op)
  <2>1. applied' = applied
    BY <1>5 DEF GetCommandFromRaft
  <2>2. ~Chosen(op, n)
    <3>1. SUFFICES ASSUME NEW i \in 1..n, chosen[i] = op PROVE FALSE
      BY DEF Chosen
    <3>2. op.id <= lastRequestId[s][op.client]
      BY <1>4, <1>5, <3>1
    <3> QED
      BY <1>5, <3>2 DEF ifRequestDuplicate
  <2> HIDE DEF op
  <2>3. ~ChosenLater(op, n)
    BY <1>1, <2>2, ChosenStays
  <2>4. \A c \in Client : /\ lastRequestId[s][c] <= clerk[c].requestId
                          /\ UpdatesBefore(c, lastRequestId[s][c] + 1, n)
    BY DEF RInv, LastRequests
  <2>5. \A c \in Client : UpdatesLater(c, lastRequestId[s][c] + 1, n)
    <3> TAKE c \in Client
    <3>1. n <= n
      BY <1>1
    <3> QED
      BY <1>1, <2>4, <3>1, UpdatesStay
  <2> QED
    BY <1>1, <1>4, <1>5, <2>1, <2>3, <2>4, <2>5 DEF LastLater, op
<1>6. CASE ~(IsUpdate(op) /\ ~ifRequestDuplicate(s, op))
  <2>1. applied'[s] = m /\ applying'[s] = "send"
    BY <1>6 DEF GetCommandFromRaft, IInv, TypeOK, StoreType
  <2>2. IsUpdate(op) => op.id <= lastRequestId[s][op.client]
    BY <1>6 DEF ifRequestDuplicate
  <2>3. \A i \in 1..m : i \in 1..n \/ i = m
    BY <1>1
  <2>4. \A i \in 1..m : IsUpdate(chosen[i]) => chosen[i].id <= lastRequestId[s][chosen[i].client]
    BY <1>4, <2>2, <2>3
  <2>5. \A c \in Client : /\ lastRequestId[s][c] <= clerk[c].requestId
                          /\ UpdatesBefore(c, lastRequestId[s][c] + 1, n)
    BY DEF RInv, LastRequests
  <2>6. \A c \in Client : UpdatesLater(c, lastRequestId[s][c] + 1, m)
    <3> TAKE c \in Client
    <3>1. n <= m
      BY <1>1
    <3> QED
      BY <1>1, <2>5, <3>1, UpdatesStay
  <2> HIDE DEF m, op
  <2> QED
    BY <1>1, <2>1, <2>4, <2>5, <2>6 DEF LastLater
<1> QED
  BY <1>5, <1>6

\* The update that is executed is the next of its client.
LEMMA LastAfterExecute ==
  ASSUME IInv, RInv, [Next]_vars, NEW s \in Server, Execute(s)
  PROVE  LastLater(s)
<1> DEFINE n == applied[s]
           m == n + 1
           op == chosen[m]
<1>1. /\ n \in 0..Len(chosen) /\ n \in Nat /\ m \in Nat /\ m \in 1..Len(chosen) /\ Len(chosen) \in Nat
      /\ chosen' = chosen /\ clerk' = clerk /\ workload' = workload
      /\ lastRequestId' = [lastRequestId EXCEPT ![s][op.client] = op.id]
      /\ applied'[s] = m /\ applying'[s] = "send"
  BY ChosenFacts DEF Execute, raftVars, clientVars, IInv, TypeOK, StoreType
<1>2. op \in Command /\ op.client \in Client /\ op.id \in Nat /\ AskedFor(op)
  BY <1>1, ChosenFacts DEF RInv, CommandsAskedFor
<1>3. IsUpdate(op) /\ ~Chosen(op, n)
  BY DEF RInv, LastRequests, Execute
<1>4. UpdatesBefore(op.client, op.id, n)
  <2>1. m - 1 = n
    BY <1>1
  <2>2. UpdatesBefore(chosen[m].client, chosen[m].id, m - 1)
    BY <1>1 DEF RInv, OneAfterTheOther
  <2> QED
    BY <2>1, <2>2
<1>5. /\ lastRequestId'[s][op.client] = op.id
      /\ \A c \in Client \ {op.client} : lastRequestId'[s][c] = lastRequestId[s][c]
  BY <1>1, <1>2 DEF IInv, TypeOK, StoreType
<1>6. \A c \in Client : /\ lastRequestId[s][c] <= clerk[c].requestId
                        /\ UpdatesBefore(c, lastRequestId[s][c] + 1, n)
  BY DEF RInv, LastRequests
<1>7. ASSUME NEW i \in 1..m, IsUpdate(chosen[i])
      PROVE  chosen[i].id <= lastRequestId'[s][chosen[i].client]
  <2>1. i \in 1..Len(chosen)
    BY <1>1
  <2>2. chosen[i].client \in Client /\ chosen[i].id \in Nat /\ AskedFor(chosen[i])
    BY <2>1, ChosenFacts DEF RInv, CommandsAskedFor
  <2>3. CASE i = m
    BY <1>2, <1>5, <2>3
  <2>4. CASE i # m /\ chosen[i].client # op.client
    <3>1. i \in 1..n
      BY <1>1, <2>4
    <3> QED
      BY <1>5, <1>7, <2>2, <2>4, <3>1 DEF RInv, LastRequests
  <2>5. CASE i # m /\ chosen[i].client = op.client
    <3>1. i \in 1..n /\ i - 1 \in Nat /\ i - 1 <= n
      BY <1>1, <2>5
    <3>2. SUFFICES ASSUME chosen[i].id > op.id PROVE FALSE
      BY <1>2, <1>5, <2>2, <2>5
    <3>3. UpdatesBefore(op.client, chosen[i].id, i - 1)
      BY <2>1, <2>5 DEF RInv, OneAfterTheOther
    <3>4. op.id \in 1..(chosen[i].id - 1) /\ op = Request(op.client, op.id)
      BY <1>2, <2>2, <3>2 DEF AskedFor
    <3>5. Chosen(op, i - 1)
      BY <1>3, <3>3, <3>4 DEF UpdatesBefore
    <3> QED
      BY <1>1, <1>3, <3>1, <3>5, NowGrows
  <2> QED
    BY <2>3, <2>4, <2>5
<1>8. ASSUME NEW c \in Client
      PROVE  /\ lastRequestId'[s][c] <= clerk'[c].requestId
             /\ UpdatesLater(c, lastRequestId'[s][c] + 1, m)
  <2>1. CASE c # op.client
    <3>1. n <= m
      BY <1>1
    <3>2. UpdatesLater(c, lastRequestId[s][c] + 1, m)
      BY <1>1, <1>6, <3>1, UpdatesStay
    <3> QED
      BY <1>1, <1>5, <1>6, <2>1, <3>2
  <2>2. CASE c = op.client
    <3> DEFINE next == op.id + 1
    <3>1. next - 1 = op.id /\ \A d \in 1..(next - 1) : d = op.id \/ d \in 1..(op.id - 1)
      BY <1>2
    <3>2. op.id <= clerk[c].requestId /\ op = Request(c, op.id)
      BY <1>2, <2>2, ClerkFacts DEF AskedFor
    <3> HIDE DEF next
    <3>3. Chosen(op, m)
      BY <1>1 DEF Chosen
    <3>4. n <= m
      BY <1>1
    <3> HIDE DEF op
    <3>5. UpdatesBefore(c, op.id, m)
      BY <1>1, <1>4, <2>2, <3>4, UpdatesMore
    <3>6. UpdatesBefore(c, next, m)
      <4> SUFFICES ASSUME NEW d \in 1..(next - 1), IsUpdate(Request(c, d))
                   PROVE  Chosen(Request(c, d), m)
        BY DEF UpdatesBefore
      <4>1. CASE d = op.id
        BY <3>2, <3>3, <4>1
      <4>2. CASE d \in 1..(op.id - 1)
        BY <3>5, <4>2 DEF UpdatesBefore
      <4> QED
        BY <3>1, <4>1, <4>2
    <3>7. m \in 0..Len(chosen) /\ m <= m
      BY <1>1
    <3>8. UpdatesLater(c, next, m)
      BY <1>1, <3>6, <3>7, UpdatesStay
    <3> QED
      BY <1>1, <1>5, <2>2, <3>2, <3>8 DEF next
  <2> QED
    BY <2>1, <2>2
<1> HIDE DEF m, op
<1> QED
  BY <1>1, <1>7, <1>8 DEF LastLater

\* A Get does not move the id below an update that is applied: either it is its
\* client's operation under way, or its client makes no update after it.
LEMMA LastAfterGet ==
  ASSUME GivenUpReadsLast, IInv, RInv, [Next]_vars, NEW h \in handlers, ExecuteGetOpOnKVDB(h)
  PROVE  LastLater(h.server)
<1> DEFINE s == h.server
           n == applied[s]
           c == h.client
<1>1. /\ n \in 0..Len(chosen) /\ n \in Nat /\ Len(chosen) \in Nat
      /\ s \in Server /\ c \in Client /\ h.op.id \in Nat /\ AskedFor(h.op) /\ h.op.client = c
  BY HandlerFacts, ChosenFacts DEF RInv, CommandsAskedFor
<1>2. /\ chosen' = chosen /\ clerk' = clerk /\ workload' = workload
      /\ applied' = applied /\ applying' = applying
      /\ lastRequestId'[s][c] = h.op.id
      /\ \A d \in Client \ {c} : lastRequestId'[s][d] = lastRequestId[s][d]
  BY <1>1 DEF ExecuteGetOpOnKVDB, raftVars, clientVars, IInv, TypeOK, StoreType
<1>3. h.op.op = "Get" /\ UpdatesBefore(c, h.op.id, n)
  BY DEF RInv, GetsAfter, ExecuteGetOpOnKVDB
<1>4. h.op.id \in 1..clerk[c].requestId /\ h.op = Request(c, h.op.id)
  BY <1>1 DEF AskedFor
<1>5. /\ clerk[c].requestId \in Nat /\ workload \in Workloads
      /\ workload.program[c] \in Seq(Operation) /\ Len(workload.program[c]) \in Nat
      /\ clerk[c].requestId <= Len(workload.program[c])
      /\ DOMAIN workload.program[c] = 1..Len(workload.program[c])
  BY <1>1, ClerkFacts, LenProperties DEF IInv, TypeOK, RaftType
<1>6. h.op.id = clerk[c].requestId \/ ~UpdatesAfter(c, h.op.id)
  BY <1>1, <1>3 DEF GivenUpReadsLast, RInv, CallsOnce
<1>7. ASSUME NEW i \in 1..n, IsUpdate(chosen[i])
      PROVE  chosen[i].id <= lastRequestId'[s][chosen[i].client]
  <2>1. i \in 1..Len(chosen)
    BY <1>1
  <2>2. chosen[i].client \in Client /\ chosen[i].id \in Nat /\ AskedFor(chosen[i])
    BY <2>1, ChosenFacts DEF RInv, CommandsAskedFor
  <2>3. CASE chosen[i].client # c
    BY <1>1, <1>2, <1>7, <2>2, <2>3 DEF RInv, LastRequests
  <2>4. CASE chosen[i].client = c
    <3>1. SUFFICES ASSUME h.op.id < chosen[i].id PROVE FALSE
      BY <1>1, <1>2, <2>2, <2>4
    <3>2. /\ chosen[i].id \in 1..clerk[c].requestId /\ chosen[i] = Request(c, chosen[i].id)
          /\ chosen[i].id \in DOMAIN workload.program[c]
      BY <1>1, <1>5, <2>2, <2>4 DEF AskedFor
    <3>3. UpdatesAfter(c, h.op.id)
      BY <1>1, <1>7, <3>1, <3>2 DEF UpdatesAfter
    <3> QED
      BY <1>1, <1>5, <1>6, <3>1, <3>2, <3>3
  <2> QED
    BY <2>3, <2>4
<1>8. ASSUME NEW d \in Client
      PROVE  /\ lastRequestId'[s][d] <= clerk'[d].requestId
             /\ UpdatesLater(d, lastRequestId'[s][d] + 1, n)
  <2>0. n <= n
    BY <1>1
  <2>1. CASE d # c
    <3>1. lastRequestId[s][d] <= clerk[d].requestId /\ UpdatesBefore(d, lastRequestId[s][d] + 1, n)
      BY <1>1 DEF RInv, LastRequests
    <3>2. UpdatesLater(d, lastRequestId[s][d] + 1, n)
      BY <1>1, <2>0, <3>1, UpdatesStay
    <3> QED
      BY <1>2, <2>1, <3>1, <3>2
  <2>2. CASE d = c
    <3> DEFINE next == h.op.id + 1
    <3>1. next - 1 = h.op.id /\ \A k \in 1..(next - 1) : k = h.op.id \/ k \in 1..(h.op.id - 1)
      BY <1>1
    <3> HIDE DEF next
    <3>2. UpdatesBefore(c, next, n)
      <4> SUFFICES ASSUME NEW k \in 1..(next - 1), IsUpdate(Request(c, k))
                   PROVE  Chosen(Request(c, k), n)
        BY DEF UpdatesBefore
      <4>1. k # h.op.id
        BY <1>3, <1>4 DEF IsUpdate
      <4> QED
        BY <1>3, <3>1, <4>1 DEF UpdatesBefore
    <3>3. UpdatesLater(c, next, n)
      BY <1>1, <2>0, <3>2, UpdatesStay
    <3>4. h.op.id <= clerk[c].requestId
      BY <1>4, <1>5
    <3> QED
      BY <1>2, <2>2, <3>3, <3>4 DEF next
  <2> QED
    BY <2>1, <2>2
<1>9. ASSUME applying[s] = "execute"
      PROVE  LET op == chosen[n + 1] IN IsUpdate(op) /\ ~ChosenLater(op, n)
  <2>1. \A op : Chosen(op, n) <=> ChosenLater(op, n)
    BY <1>1, ChosenStays
  <2>2. LET op == chosen[n + 1] IN IsUpdate(op) /\ ~Chosen(op, n)
    BY <1>1, <1>9 DEF RInv, LastRequests
  <2> QED
    BY <2>1, <2>2
<1> QED
  BY <1>2, <1>7, <1>8, <1>9 DEF LastLater

LEMMA LastRequestsKeeps ==
  ASSUME GivenUpReadsLast, IInv, RInv, [Next]_vars
  PROVE  LastRequests'
<1>1. workload' = workload
  BY ChosenGrows
<1>2. SUFFICES \A s \in Server : LastLater(s)
  BY <1>1 DEF LastRequests, LastLater, UpdatesBefore, UpdatesLater, Chosen, ChosenLater, Request
<1>3. CASE UNCHANGED <<applied, applying, lastRequestId>>
  BY <1>3, LastStays
<1>4. ASSUME NEW s \in Server, ReadRaftApplyCommandLoop(s) PROVE \A t \in Server : LastLater(t)
  <2>1. ASSUME NEW t \in Server \ {s} PROVE LastLater(t)
    <3>1. applied'[t] = applied[t] /\ applying'[t] = applying[t] /\ lastRequestId'[t] = lastRequestId[t]
      BY <1>4, <2>1 DEF ReadRaftApplyCommandLoop, GetCommandFromRaft, Execute, SendMessageToWaitChan,
                        storeVars, IInv, TypeOK, StoreType
    <3> QED
      BY <3>1, LastStays
  <2>2. CASE SendMessageToWaitChan(s)
    <3>1. applied' = applied /\ applying'[s] = "pop" /\ lastRequestId' = lastRequestId
      BY <2>2 DEF SendMessageToWaitChan, storeVars, IInv, TypeOK, StoreType
    <3> QED
      BY <2>1, <3>1, LastStays
  <2> QED
    BY <1>4, <2>1, <2>2, LastAfterGetCommand, LastAfterExecute DEF ReadRaftApplyCommandLoop
<1>5. ASSUME NEW h \in handlers, ExecuteGetOpOnKVDB(h) PROVE \A t \in Server : LastLater(t)
  <2>1. ASSUME NEW t \in Server \ {h.server} PROVE LastLater(t)
    <3>1. applied'[t] = applied[t] /\ applying'[t] = applying[t] /\ lastRequestId'[t] = lastRequestId[t]
      BY <1>5, <2>1 DEF ExecuteGetOpOnKVDB, IInv, TypeOK, StoreType
    <3> QED
      BY <3>1, LastStays
  <2> QED
    BY <1>5, <2>1, LastAfterGet
<1>6. \/ UNCHANGED <<applied, applying, lastRequestId>>
      \/ \E s \in Server : ReadRaftApplyCommandLoop(s)
      \/ \E h \in handlers : ExecuteGetOpOnKVDB(h)
  BY RaftFrame, HandlerFrame, ClientFrame DEF Next, Choose, vars, storeVars
<1> QED
  BY <1>3, <1>4, <1>5, <1>6

-----------------------------------------------------------------------------

LEMMA RInvInit == Init => RInv
<1> SUFFICES ASSUME Init PROVE RInv
  OBVIOUS
<1>1. /\ \A s \in Server : logs[s] = <<>> /\ applied[s] = 0 /\ waitApplyCh[s] = <<>> /\ applying[s] = "pop"
      /\ chosen = <<>> /\ handlers = {} /\ calls = 0
      /\ \A c \in Client : /\ clerk[c].requestId = 0 /\ clerk[c].call = 0 /\ ~clerk[c].busy
                           /\ \A s \in Server : lastRequestId[s][c] = 0
  BY DEF Init
<1>2. Len(<<>>) = 0 /\ DOMAIN <<>> = {}
  BY EmptySeq
<1>3. \A c \in Client : \A n : UpdatesBefore(c, 0 + 1, n)
  BY DEF UpdatesBefore
<1>4. OneAfterTheOther
  BY <1>1, <1>2, <1>3 DEF OneAfterTheOther
<1>5. LastRequests
  BY <1>1, <1>3 DEF LastRequests
<1>6. QueuesApplied
  BY <1>1, <1>2 DEF QueuesApplied
<1> QED
  BY <1>1, <1>2, <1>4, <1>5, <1>6
     DEF RInv, CommandsAskedFor, CallsOnce, UpdatesAnswered, GetsAfter

LEMMA RInvKeeps ==
  ASSUME GivenUpReadsLast, IInv, RInv, [Next]_vars
  PROVE  RInv'
<1>1. CommandsAskedFor' /\ CallsOnce'
  BY CommandsAskedForKeeps, CallsOnceKeeps DEF RInv
<1> QED
  BY <1>1, OneAfterTheOtherKeeps, QueuesAppliedKeeps, UpdatesAnsweredKeeps, GetsAfterKeeps,
     LastRequestsKeeps DEF RInv

-----------------------------------------------------------------------------
(* The map of a server is the replay of its log *)

LEMMA EffectsFacts ==
  ASSUME IInv, NEW n \in 0..Len(chosen)
  PROVE  /\ Effects(n) \in Seq(Command) /\ Len(Effects(n)) \in Nat
         /\ \A op : op \in ToSet(Effects(n)) <=> IsUpdate(op) /\ Chosen(op, n)
<1>1. chosen \in Seq(Command)
  BY ChosenFacts
<1>2. /\ SubSeq(chosen, 1, n) \in Seq(Command) /\ DOMAIN SubSeq(chosen, 1, n) = 1..n
      /\ \A i \in 1..n : SubSeq(chosen, 1, n)[i] = chosen[i]
  BY <1>1, PrefixFacts
<1>3. ToSet(SubSeq(chosen, 1, n)) = {chosen[i] : i \in 1..n}
  BY <1>2 DEF ToSet
<1>4. /\ Effects(n) \in Seq(Command)
      /\ ToSet(Effects(n)) = {op \in ToSet(SubSeq(chosen, 1, n)) : IsUpdate(op)}
  BY <1>2, FirstUpdatesFacts DEF Effects
<1> QED
  BY <1>3, <1>4, LenProperties DEF Chosen

LEMMA EffectsNext ==
  ASSUME IInv, NEW n \in Nat, n < Len(chosen)
  PROVE  Effects(n + 1) = FirstUpdate(Effects(n), chosen[n + 1])
<1>1. chosen \in Seq(Command)
  BY ChosenFacts
<1>2. /\ SubSeq(chosen, 1, n) \in Seq(Command) /\ chosen[n + 1] \in Command
      /\ SubSeq(chosen, 1, n + 1) = Append(SubSeq(chosen, 1, n), chosen[n + 1])
  BY <1>1, PrefixNext
<1> QED
  BY <1>2, FoldsAppend DEF Effects

LEMMA EffectsMonotone ==
  ASSUME IInv, NEW n \in 0..Len(chosen), NEW m \in 0..n
  PROVE  Len(Effects(m)) <= Len(Effects(n))
<1>1. chosen \in Seq(Command)
  BY ChosenFacts
<1> DEFINE log == SubSeq(chosen, 1, n)
<1>2. log \in Seq(Command) /\ Len(log) = n
  BY <1>1, PrefixFacts
<1>3. SubSeq(log, 1, m) = SubSeq(chosen, 1, m)
  BY <1>1, PrefixOfPrefix
<1> HIDE DEF log
<1>4. Len(FirstUpdates(SubSeq(log, 1, m))) \in 0..Len(FirstUpdates(log))
  BY <1>2, FirstUpdatesOfPrefix
<1>5. Len(Effects(n)) \in Nat
  BY EffectsFacts
<1>6. Effects(m) = FirstUpdates(SubSeq(log, 1, m))
  BY <1>3 DEF Effects
<1>7. Effects(n) = FirstUpdates(log)
  BY DEF Effects, log
<1> QED
  BY <1>4, <1>5, <1>6, <1>7

LEMMA EffectsOfAll ==
  ASSUME IInv
  PROVE  /\ Effects(Len(chosen)) = FirstUpdates(chosen) /\ FirstUpdates(chosen) \in Seq(Command)
         /\ Len(FirstUpdates(chosen)) \in Nat
         /\ \A n \in 0..Len(chosen) : /\ Len(Effects(n)) \in 0..Len(FirstUpdates(chosen))
                                      /\ Effects(n) = SubSeq(FirstUpdates(chosen), 1, Len(Effects(n)))
<1>1. chosen \in Seq(Command)
  BY ChosenFacts
<1>2. FirstUpdates(chosen) \in Seq(Command) /\ SubSeq(chosen, 1, Len(chosen)) = chosen
  BY <1>1, FirstUpdatesFacts, SubSeqFull
<1> QED
  BY <1>1, <1>2, FirstUpdatesOfPrefix, LenProperties DEF Effects

\* What a step leaves of the effects.
LEMMA EffectsStay ==
  ASSUME IInv, [Next]_vars
  PROVE  /\ \A n \in 0..Len(chosen) : FirstUpdates(SubSeq(chosen', 1, n)) = Effects(n)
         /\ FirstUpdates(chosen') \in Seq(Command)
         /\ Len(FirstUpdates(chosen')) \in Nat
         /\ Len(FirstUpdates(chosen)) <= Len(FirstUpdates(chosen'))
         /\ \A n \in 0..Len(FirstUpdates(chosen)) :
              SubSeq(FirstUpdates(chosen'), 1, n) = SubSeq(FirstUpdates(chosen), 1, n)
<1> DEFINE u == FirstUpdates(chosen)
           v == FirstUpdates(chosen')
<1>1. \A n \in 0..Len(chosen) : FirstUpdates(SubSeq(chosen', 1, n)) = Effects(n)
  BY ChosenGrows DEF Effects
<1>2. v \in Seq(Command) /\ Len(v) \in Nat
  BY ChosenGrows, FirstUpdatesFacts, LenProperties
<1>3. Len(chosen) \in 0..Len(chosen') /\ Len(chosen) \in 0..Len(chosen)
  BY ChosenGrows, ChosenFacts
<1>4. FirstUpdates(SubSeq(chosen', 1, Len(chosen))) = u /\ u \in Seq(Command) /\ Len(u) \in Nat
  BY <1>1, <1>3, EffectsOfAll
<1>5. Len(u) \in 0..Len(v) /\ u = SubSeq(v, 1, Len(u))
  BY <1>3, <1>4, ChosenGrows, FirstUpdatesOfPrefix
<1> HIDE DEF u, v
<1>6. \A n \in 0..Len(u) : SubSeq(v, 1, n) = SubSeq(u, 1, n)
  BY <1>2, <1>5, PrefixOfPrefix
<1> QED
  BY <1>1, <1>2, <1>4, <1>5, <1>6 DEF u, v

LEMMA ReplicaKeeps ==
  ASSUME IInv, RInv, ReplicaMatchesLog, [Next]_vars
  PROVE  ReplicaMatchesLog'
<1>1. SUFFICES \A s \in Server : kvDB'[s] = Service!Replay(Effects(applied'[s]))
  <2>1. \A s \in Server : applied'[s] \in 0..Len(chosen)
    BY AppliedGrows, ChosenFacts
  <2> QED
    BY <1>1, <2>1, EffectsStay DEF ReplicaMatchesLog
<1>2. \A s \in Server : kvDB[s] = Service!Replay(Effects(applied[s]))
  BY DEF ReplicaMatchesLog, Effects
<1>3. CASE UNCHANGED <<kvDB, applied>>
  BY <1>2, <1>3
<1>4. ASSUME NEW s \in Server, GetCommandFromRaft(s) \/ Execute(s)
      PROVE  \A t \in Server : kvDB'[t] = Service!Replay(Effects(applied'[t]))
  <2> DEFINE n == applied[s]
             m == n + 1
             op == chosen[m]
  <2>1. n \in 0..Len(chosen) /\ n \in Nat /\ n < Len(chosen) /\ m \in 1..Len(chosen)
    BY <1>4, ChosenFacts DEF GetCommandFromRaft, Execute, IInv, TypeOK, StoreType
  <2>2. op \in Command /\ op.client \in Client /\ op.id \in Nat /\ AskedFor(op)
    BY <2>1, ChosenFacts DEF RInv, CommandsAskedFor
  <2>3. Effects(m) = FirstUpdate(Effects(n), op)
    BY <2>1, EffectsNext
  <2>4. op \in ToSet(Effects(n)) <=> IsUpdate(op) /\ Chosen(op, n)
    BY <2>1, EffectsFacts
  <2>5. Effects(n) \in Seq(Command)
    BY <2>1, EffectsFacts
  <2>6. \A t \in Server \ {s} : kvDB'[t] = kvDB[t] /\ applied'[t] = applied[t]
    BY <1>4 DEF GetCommandFromRaft, Execute, IInv, TypeOK, StoreType
  <2>7. CASE GetCommandFromRaft(s) /\ IsUpdate(op) /\ ~ifRequestDuplicate(s, op)
    BY <1>2, <2>7 DEF GetCommandFromRaft
  <2>8. CASE GetCommandFromRaft(s) /\ ~(IsUpdate(op) /\ ~ifRequestDuplicate(s, op))
    <3>1. kvDB' = kvDB /\ applied'[s] = m
      BY <2>8 DEF GetCommandFromRaft, IInv, TypeOK, StoreType
    <3>2. IsUpdate(op) => Chosen(op, n)
      <4> DEFINE l == lastRequestId[s][op.client]
                 next == l + 1
      <4>1. SUFFICES ASSUME IsUpdate(op) PROVE Chosen(op, n)
        OBVIOUS
      <4>2. l \in Nat /\ op.id <= l
        BY <2>2, <2>8, <4>1 DEF ifRequestDuplicate, IInv, TypeOK, StoreType
      <4>3. UpdatesBefore(op.client, next, n)
        BY <2>2 DEF RInv, LastRequests
      <4>4. op.id \in 1..(next - 1) /\ op = Request(op.client, op.id)
        BY <2>2, <4>2 DEF AskedFor
      <4> HIDE DEF next, op
      <4> QED
        BY <4>1, <4>3, <4>4 DEF UpdatesBefore
    <3>3. Effects(m) = Effects(n)
      BY <2>3, <2>4, <3>2 DEF FirstUpdate
    <3> QED
      BY <1>2, <2>6, <3>1, <3>3
  <2>9. CASE Execute(s)
    <3>1. IsUpdate(op) /\ ~Chosen(op, n)
      BY <2>9 DEF Execute, RInv, LastRequests
    <3>2. /\ applied'[s] = m
          /\ kvDB'[s] = IF op.op = "Put" THEN ExecutePutOpOnKVDB(kvDB[s], op)
                        ELSE ExecuteAppendOpOnKVDB(kvDB[s], op)
      BY <2>9 DEF Execute, IInv, TypeOK, StoreType
    <3>3. kvDB'[s] = Service!Update(kvDB[s], op)
      BY <3>1, <3>2 DEF IsUpdate, Service!Update, ExecutePutOpOnKVDB, ExecuteAppendOpOnKVDB
    <3>4. Effects(m) = Append(Effects(n), op)
      BY <2>3, <2>4, <3>1 DEF FirstUpdate
    <3>5. Service!Replay(Effects(m)) = Service!Update(Service!Replay(Effects(n)), op)
      BY <2>2, <2>5, <3>4, FoldsAppend
    <3>6. kvDB'[s] = Service!Replay(Effects(applied'[s]))
      BY <1>2, <3>2, <3>3, <3>5
    <3> QED
      BY <1>2, <2>6, <3>6
  <2> QED
    BY <1>4, <2>7, <2>8, <2>9
<1>5. UNCHANGED <<kvDB, applied>> \/ \E s \in Server : GetCommandFromRaft(s) \/ Execute(s)
  BY RaftFrame, HandlerFrame, ClientFrame
     DEF Next, Choose, ReadRaftApplyCommandLoop, SendMessageToWaitChan, vars, storeVars
<1> QED
  BY <1>3, <1>4, <1>5

LEMMA ReplicaInit == Init => ReplicaMatchesLog
<1> SUFFICES ASSUME Init, NEW s \in Server
             PROVE  kvDB[s] = Service!Replay(FirstUpdates(SubSeq(chosen, 1, applied[s])))
  BY DEF ReplicaMatchesLog
<1>1. chosen = <<>> /\ applied[s] = 0 /\ kvDB[s] = [k \in Key |-> <<>>]
  BY DEF Init
<1>2. SubSeq(<<>>, 1, 0) = <<>>
  BY SubSeqEmpty
<1> QED
  BY <1>1, <1>2, FoldsNone

-----------------------------------------------------------------------------
(* What a Get returns is of the time of its call *)

\* since is a function of the clients.
SinceType == since \in [Client -> Nat]

LEMMA SinceTypeKeeps == ASSUME IInv, SinceType, [Next]_vars PROVE SinceType'
<1>1. Len(FirstUpdates(chosen)) \in Nat
  BY EffectsOfAll
<1>2. since' = since \/ \E c \in Client : since' = [since EXCEPT ![c] = Len(FirstUpdates(chosen))]
  BY RaftFrame, LoopFrame, HandlerFrame
     DEF Next, Choose, vars, clientVars, Invoke, Receive, Fail
<1> QED
  BY <1>1, <1>2 DEF SinceType

\* The operation a clerk is at after a step is the one before, or it begins.
Continues(c) == clerk'[c].requestId = clerk[c].requestId /\ since'[c] = since[c]
Begins(c) ==
  /\ clerk'[c].requestId = clerk[c].requestId + 1 /\ since'[c] = Len(FirstUpdates(chosen))
  /\ UNCHANGED <<raftVars, storeVars, waitApplyCh, applying>>

LEMMA SinceSteps ==
  ASSUME IInv, RInv, SinceType, [Next]_vars, NEW c \in Client
  PROVE  Continues(c) \/ Begins(c)
<1>1. CASE UNCHANGED <<clerk, since>>
  BY <1>1 DEF Continues
<1>2. ASSUME NEW d \in Client, Invoke(d) \/ Receive(d) \/ Fail(d)
      PROVE  Continues(c) \/ Begins(c)
  <2>1. UNCHANGED <<raftVars, storeVars, waitApplyCh, applying>>
    BY <1>2, ClientFrame
  <2>2. CASE /\ ~clerk[d].busy /\ Calls(d, clerk[d].requestId + 1)
             /\ since' = [since EXCEPT ![d] = Len(FirstUpdates(chosen))]
    <3>1. d = c => Begins(c)
      BY <2>1, <2>2 DEF Calls, Begins, SinceType
    <3>2. d # c => Continues(c)
      BY <2>2 DEF Calls, Continues, SinceType
    <3> QED
      BY <3>1, <3>2
  <2>3. CASE clerk[d].busy /\ Calls(d, clerk[d].requestId) /\ since' = since
    BY <2>3 DEF Calls, Continues
  <2>4. ASSUME NEW h, Returns(d, h) PROVE Continues(c)
    BY <2>4 DEF Returns, Continues
  <2> QED
    BY <1>2, <2>2, <2>3, <2>4, ClientSteps DEF RInv
<1>3. UNCHANGED <<clerk, since>> \/ \E d \in Client : Invoke(d) \/ Receive(d) \/ Fail(d)
  BY RaftFrame, LoopFrame, HandlerFrame DEF Next, Choose, vars, clientVars
<1> QED
  BY <1>1, <1>2, <1>3

\* ReadsRecent of one client, after a step.
EffectsLater(n) == FirstUpdates(SubSeq(chosen', 1, n))
ReadsLater(c) ==
  LET id == clerk'[c].requestId IN
  /\ since'[c] \in 0..Len(FirstUpdates(chosen'))
  /\ id > 0 /\ Request(c, id).op = "Get" =>
       /\ \A j \in 1..Len(chosen') : chosen'[j] = Request(c, id) => since'[c] <= Len(EffectsLater(j))
       /\ \A s \in Server : lastRequestId'[s][c] = id => since'[c] <= Len(EffectsLater(applied'[s]))
  /\ \A h \in handlers' :
       h.client = c /\ h.at = "get" /\ h.op.id = id => since'[c] <= Len(EffectsLater(applied'[h.server]))

LEMMA ReadsAfter ==
  ASSUME IInv, RInv', [Next]_vars, \A h \in handlers' : h.client \in Client,
         \A c \in Client : ReadsLater(c)
  PROVE  ReadsRecent'
BY ChosenGrows DEF ReadsRecent, ReadsLater, EffectsLater, Effects, Asks, Request

\* A Get that has begun with this step is nowhere yet.
LEMMA ReadsBegin ==
  ASSUME IInv, RInv, [Next]_vars, NEW c \in Client, Begins(c)
  PROVE  ReadsLater(c)
<1> DEFINE new == clerk'[c].requestId
<1>1. /\ new \in Nat /\ clerk[c].requestId < new
      /\ since'[c] = Len(FirstUpdates(chosen)) /\ Len(FirstUpdates(chosen)) \in Nat
      /\ chosen' = chosen /\ lastRequestId' = lastRequestId
  BY ClerkFacts, EffectsOfAll DEF Begins, raftVars, storeVars
<1>2. clerk[c].requestId \in Nat
  BY ClerkFacts
<1> HIDE DEF new
<1>3. \A j \in 1..Len(chosen') : chosen'[j] # Request(c, new)
  <2>1. \A j \in 1..Len(chosen) : chosen[j].id \in 1..clerk[chosen[j].client].requestId
    BY DEF RInv, CommandsAskedFor, AskedFor
  <2>2. Request(c, new).client = c /\ Request(c, new).id = new
    BY RequestFacts
  <2> QED
    BY <1>1, <1>2, <2>1, <2>2
<1>4. \A s \in Server : lastRequestId'[s][c] # new
  <2>1. \A s \in Server : lastRequestId[s][c] \in Nat /\ lastRequestId[s][c] <= clerk[c].requestId
    BY DEF RInv, LastRequests, IInv, TypeOK, StoreType
  <2> QED
    BY <1>1, <1>2, <2>1
<1>5. ASSUME NEW g \in handlers', g.client = c, g.at = "get" PROVE g.op.id # new
  <2>1. \A h \in handlers : h.op.client = h.client /\ h.op.id \in 1..clerk[h.op.client].requestId
    BY DEF RInv, CommandsAskedFor, AskedFor
  <2>2. \A h \in handlers : h.client = c => h.op.id # new
    BY <1>1, <1>2, <2>1
  <2> QED
    BY <1>5, <2>2, HandlersLater DEF GoesOn, SameCall
<1>6. since'[c] \in 0..Len(FirstUpdates(chosen'))
  BY <1>1
<1> QED
  BY <1>3, <1>4, <1>5, <1>6 DEF ReadsLater, new

\* A Get that goes on: where it has been executed, its server is past its start.
LEMMA ReadsGoOn ==
  ASSUME IInv, RInv, ReadsRecent, [Next]_vars, NEW c \in Client, Continues(c)
  PROVE  ReadsLater(c)
<1> DEFINE id == clerk[c].requestId
<1>1. /\ clerk'[c].requestId = id /\ since'[c] = since[c] /\ id \in Nat
      /\ since[c] \in 0..Len(FirstUpdates(chosen))
      /\ Len(FirstUpdates(chosen)) \in Nat /\ Len(FirstUpdates(chosen')) \in Nat
      /\ Len(FirstUpdates(chosen)) <= Len(FirstUpdates(chosen'))
  BY ClerkFacts, EffectsOfAll, EffectsStay DEF Continues, ReadsRecent
<1>2. since'[c] \in 0..Len(FirstUpdates(chosen'))
  BY <1>1
<1>3. \A n \in 0..Len(chosen) : EffectsLater(n) = Effects(n)
  BY EffectsStay DEF EffectsLater
<1>4. ASSUME NEW s \in Server
      PROVE  /\ Len(Effects(applied[s])) <= Len(EffectsLater(applied'[s]))
             /\ Len(Effects(applied[s])) \in Nat /\ Len(EffectsLater(applied'[s])) \in Nat
             /\ \A n \in 0..applied[s] : Len(Effects(n)) \in Nat /\ Len(Effects(n)) <= Len(Effects(applied[s]))
  <2>1. /\ applied[s] \in 0..Len(chosen) /\ applied'[s] \in 0..Len(chosen)
        /\ applied[s] \in 0..applied'[s]
    BY AppliedGrows, ChosenFacts
  <2>2. \A n \in 0..applied[s] : n \in 0..Len(chosen)
    BY <2>1, ChosenFacts
  <2> QED
    BY <1>3, <2>1, <2>2, EffectsFacts, EffectsMonotone
<1> HIDE DEF id
<1>5. ASSUME id > 0, Request(c, id).op = "Get", NEW j \in 1..Len(chosen'), chosen'[j] = Request(c, id)
      PROVE  since[c] <= Len(EffectsLater(j))
  <2>1. CASE j \in 1..Len(chosen)
    <3>1. chosen[j] = Request(c, id)
      BY <1>5, <2>1, ChosenGrows
    <3>2. since[c] <= Len(Effects(j))
      BY <1>5, <2>1, <3>1 DEF ReadsRecent, Asks, id
    <3>3. j \in 0..Len(chosen)
      BY <2>1
    <3> QED
      BY <1>3, <3>2, <3>3
  <2>2. CASE j \notin 1..Len(chosen)
    <3>1. chosen' # chosen
      BY <2>2
    <3>2. Choose
      BY <3>1, ChosenGrows
    <3>3. Len(chosen') = Len(chosen) + 1
      <4>1. latest \in Server /\ Len(chosen) + 1 \in 1..Len(logs[latest])
        BY <3>2, ChosenFacts DEF Choose, IInv, TypeOK, RaftType
      <4>2. logs[latest][Len(chosen) + 1] \in Command
        BY <4>1, ChosenFacts
      <4> QED
        BY <3>2, <4>2, ChosenFacts, AppendProperties DEF Choose
    <3>4. j = Len(chosen')
      BY <2>2, <3>3, ChosenFacts
    <3>5. EffectsLater(j) = FirstUpdates(chosen')
      BY <3>4, ChosenGrows, SubSeqFull DEF EffectsLater
    <3> QED
      BY <1>1, <3>5
  <2> QED
    BY <2>1, <2>2
<1>6. ASSUME id > 0, Request(c, id).op = "Get", NEW s \in Server, lastRequestId[s][c] = id
      PROVE  since[c] <= Len(EffectsLater(applied'[s]))
  <2>1. since[c] <= Len(Effects(applied[s]))
    BY <1>6 DEF ReadsRecent, Asks, id
  <2> QED
    BY <1>1, <1>4, <2>1
<1>7. ASSUME NEW h \in handlers, h.client = c, h.at = "get", h.op.id = id
      PROVE  since[c] <= Len(EffectsLater(applied'[h.server]))
  <2>1. since[c] <= Len(Effects(applied[h.server]))
    BY <1>7 DEF ReadsRecent, id
  <2> QED
    BY <1>1, <1>4, <2>1, HandlerFacts
<1>8. ASSUME id > 0, Request(c, id).op = "Get", NEW s \in Server, lastRequestId'[s][c] = id
      PROVE  since[c] <= Len(EffectsLater(applied'[s]))
  <2>1. CASE lastRequestId'[s][c] = lastRequestId[s][c]
    BY <1>6, <1>8, <2>1
  <2>2. ASSUME NEW h \in handlers, ExecuteGetOpOnKVDB(h), lastRequestId'[s][c] # lastRequestId[s][c]
        PROVE  since[c] <= Len(EffectsLater(applied'[s]))
    <3>1. s = h.server /\ c = h.client /\ h.op.id = id /\ h.at = "get"
      BY <1>8, <2>2, HandlerFacts DEF ExecuteGetOpOnKVDB, IInv, TypeOK, StoreType
    <3> QED
      BY <1>7, <3>1
  <2>3. ASSUME NEW t \in Server, Execute(t) PROVE lastRequestId'[s][c] = lastRequestId[s][c]
    <3> DEFINE op == chosen[applied[t] + 1]
    <3>1. /\ applied[t] + 1 \in 1..Len(chosen)
          /\ lastRequestId' = [lastRequestId EXCEPT ![t][op.client] = op.id]
      BY <2>3, ChosenFacts DEF Execute, IInv, TypeOK, StoreType
    <3>2. op.client \in Client /\ AskedFor(op) /\ IsUpdate(op)
      BY <2>3, <3>1, ChosenFacts DEF RInv, CommandsAskedFor, LastRequests, Execute
    <3> HIDE DEF op
    <3>3. CASE s = t /\ c = op.client
      <4>1. lastRequestId'[s][c] = op.id
        BY <3>1, <3>2, <3>3 DEF IInv, TypeOK, StoreType
      <4>2. op = Request(c, id)
        BY <1>8, <3>2, <3>3, <4>1 DEF AskedFor
      <4> QED
        BY <1>8, <3>2, <4>2 DEF IsUpdate
    <3>4. CASE ~(s = t /\ c = op.client)
      BY <3>1, <3>2, <3>4 DEF IInv, TypeOK, StoreType
    <3> QED
      BY <3>3, <3>4
  <2>4. \/ lastRequestId' = lastRequestId
        \/ \E h \in handlers : ExecuteGetOpOnKVDB(h)
        \/ \E t \in Server : Execute(t)
    BY RaftFrame, HandlerFrame, ClientFrame
       DEF Next, Choose, ReadRaftApplyCommandLoop, GetCommandFromRaft, SendMessageToWaitChan, vars, storeVars
  <2> QED
    BY <2>1, <2>2, <2>3, <2>4
<1>9. ASSUME NEW g \in handlers', g.client = c, g.at = "get", g.op.id = id
      PROVE  since[c] <= Len(EffectsLater(applied'[g.server]))
  <2>1. CASE g \in handlers
    BY <1>7, <1>9, <2>1
  <2>2. ASSUME NEW h \in handlers, Handle(h), GoesOn(h, g)
        PROVE  since[c] <= Len(EffectsLater(applied'[g.server]))
    <3> DEFINE s == h.server
    <3>1. /\ g.server = s /\ h.client = c /\ h.op.id = id /\ h.op.op = "Get"
          /\ (Popped(h) \/ Duplicate(h)) /\ s \in Server /\ h.op.id \in Nat
      BY <1>9, <2>2, HandlerFacts DEF GoesOn, SameCall
    <3>2. h.op = Request(c, id) /\ id > 0 /\ AskedFor(h.op)
      BY <3>1 DEF RInv, CommandsAskedFor, AskedFor
    <3>3. CASE Popped(h)
      <4>1. PICK i \in 1..applied[s] : chosen[i] = h.op
        BY <3>3, DoneHere DEF Chosen
      <4>2. i \in 1..Len(chosen) /\ i \in 0..applied[s]
        BY <3>1, <4>1, ChosenFacts
      <4>3. since[c] <= Len(Effects(i))
        BY <3>1, <3>2, <4>1, <4>2 DEF ReadsRecent, Asks, id
      <4> QED
        BY <1>1, <1>4, <3>1, <4>2, <4>3
    <3>4. CASE Duplicate(h)
      <4>1. id <= lastRequestId[s][c] /\ lastRequestId[s][c] \in Nat
        BY <3>1, <3>2, <3>4, HandlerFacts
           DEF Duplicate, ifRequestDuplicate, IInv, TypeOK, StoreType, RInv, CommandsAskedFor
      <4>2. lastRequestId[s][c] <= id
        BY <3>1 DEF RInv, LastRequests, id
      <4>3. lastRequestId[s][c] = id
        BY <1>1, <4>1, <4>2
      <4> QED
        BY <1>6, <3>1, <3>2, <4>3
    <3> QED
      BY <3>1, <3>3, <3>4
  <2> QED
    BY <1>9, <2>1, <2>2, HandlersLater
<1> QED
  BY <1>1, <1>2, <1>5, <1>8, <1>9 DEF ReadsLater

LEMMA ReadsRecentKeeps ==
  ASSUME GivenUpReadsLast, IInv, RInv, SinceType, ReadsRecent, [Next]_vars
  PROVE  ReadsRecent'
<1>1. RInv' /\ IInv'
  BY RInvKeeps, NextKeeps
<1>2. \A h \in handlers' : h.client \in Client
  BY <1>1 DEF IInv, TypeOK, HandlerType, HandlerState
<1>3. \A c \in Client : ReadsLater(c)
  BY SinceSteps, ReadsBegin, ReadsGoOn
<1> QED
  BY <1>1, <1>2, <1>3, ReadsAfter

LEMMA GetsAnsweredKeeps ==
  ASSUME IInv, RInv, SinceType, ReplicaMatchesLog, ReadsRecent, GetsAnswered, [Next]_vars
  PROVE  GetsAnswered'
<1> DEFINE u == FirstUpdates(chosen)
           v == FirstUpdates(chosen')
<1>1. /\ Len(u) \in Nat /\ Len(v) \in Nat /\ Len(u) <= Len(v)
      /\ \A n \in 0..Len(u) : SubSeq(v, 1, n) = SubSeq(u, 1, n)
  BY EffectsOfAll, EffectsStay
<1>2. SUFFICES ASSUME NEW g \in handlers', g.at \in {"erase", "answered"}, g.op.op = "Get",
                      g.op.id = clerk'[g.client].requestId, g.reply.err # "ErrWrongLeader"
               PROVE  \E n \in since'[g.client]..Len(v) :
                        g.reply.value = Service!Replay(SubSeq(v, 1, n))[g.op.key]
  BY DEF GetsAnswered
<1> DEFINE c == g.client
<1>3. /\ \A h \in handlers : h.op.client = h.client /\ h.op.id \in 1..clerk[h.op.client].requestId
      /\ \A h \in handlers : h.client \in Client
  BY HandlerFacts DEF RInv, CommandsAskedFor, AskedFor
<1>4. c \in Client /\ g.op.id <= clerk[c].requestId /\ clerk[c].requestId \in Nat
  <2>1. \A h \in handlers : h.client \in Client /\ h.op.id \in Nat /\ h.op.id <= clerk[h.client].requestId
    BY <1>3, ClerkFacts
  <2> QED
    BY <1>2, <2>1, HandlersLater, ClerkFacts DEF GoesOn, SameCall
<1>5. clerk'[c].requestId = clerk[c].requestId /\ since'[c] = since[c] /\ since[c] \in 0..Len(u)
  BY <1>2, <1>4, SinceSteps DEF Continues, Begins, ReadsRecent
<1> HIDE DEF u, v
<1>6. ASSUME NEW n \in since[c]..Len(u), g.reply.value = Service!Replay(SubSeq(u, 1, n))[g.op.key]
      PROVE  \E k \in since'[c]..Len(v) : g.reply.value = Service!Replay(SubSeq(v, 1, k))[g.op.key]
  <2>1. n \in 0..Len(u) /\ n \in since'[c]..Len(v)
    BY <1>1, <1>5
  <2>2. SubSeq(v, 1, n) = SubSeq(u, 1, n)
    BY <1>1, <2>1
  <2> QED
    BY <1>6, <2>1, <2>2
<1>7. ASSUME NEW h \in handlers, h.client = c, h.op = g.op, h.reply = g.reply, h.at \in {"erase", "answered"}
      PROVE  \E n \in since'[c]..Len(v) : g.reply.value = Service!Replay(SubSeq(v, 1, n))[g.op.key]
  <2>1. \E n \in since[c]..Len(u) : h.reply.value = Service!Replay(SubSeq(u, 1, n))[h.op.key]
    BY <1>2, <1>5, <1>7 DEF GetsAnswered, u
  <2> QED
    BY <1>6, <1>7, <2>1
<1>8. ASSUME NEW h \in handlers, Handle(h), GoesOn(h, g)
      PROVE  \E n \in since'[c]..Len(v) : g.reply.value = Service!Replay(SubSeq(v, 1, n))[g.op.key]
  <2>1. h.client = c /\ h.op = g.op
    BY <1>8 DEF GoesOn, SameCall
  <2>2. g.reply # ErrWrongLeader /\ ~IsUpdate(h.op)
    BY <1>2, <2>1 DEF ErrWrongLeader, IsUpdate
  <2>3. CASE h.at = "erase" /\ g.reply = h.reply
    BY <1>7, <2>1, <2>3
  <2>4. CASE ExecuteGetOpOnKVDB(h) /\ g.reply.value = kvDB[h.server][h.op.key]
    <3> DEFINE s == h.server
               n == Len(Effects(applied[s]))
    <3>1. s \in Server /\ applied[s] \in 0..Len(chosen)
      BY HandlerFacts, ChosenFacts
    <3>2. n \in 0..Len(u) /\ Effects(applied[s]) = SubSeq(u, 1, n)
      BY <3>1, EffectsOfAll DEF u
    <3>3. kvDB[s] = Service!Replay(Effects(applied[s]))
      BY <3>1 DEF ReplicaMatchesLog, Effects
    <3>4. since[c] <= n
      BY <1>2, <1>5, <2>1, <2>4 DEF ReadsRecent, ExecuteGetOpOnKVDB
    <3> HIDE DEF n
    <3>5. n \in since[c]..Len(u)
      BY <1>1, <1>5, <3>2, <3>4
    <3>6. g.reply.value = Service!Replay(SubSeq(u, 1, n))[g.op.key]
      BY <2>1, <2>4, <3>2, <3>3
    <3> QED
      BY <1>6, <3>5, <3>6
  <2> QED
    BY <1>2, <1>8, <2>2, <2>3, <2>4 DEF GoesOn
<1> QED
  BY <1>2, <1>7, <1>8, HandlersLater

\* The invariant of the service.
SInv == RInv /\ SinceType /\ ReplicaMatchesLog /\ ReadsRecent /\ GetsAnswered

LEMMA SInvInit == Init => SInv
<1> SUFFICES ASSUME Init PROVE SInv
  OBVIOUS
<1>1. RInv /\ ReplicaMatchesLog /\ SinceType
  BY RInvInit, ReplicaInit DEF Init, SinceType
<1>2. GetsAnswered
  BY DEF Init, GetsAnswered
<1>3. ReadsRecent
  <2>1. FirstUpdates(chosen) = <<>> /\ Len(FirstUpdates(chosen)) = 0
    BY FoldsNone, EmptySeq DEF Init
  <2>2. \A c \in Client : since[c] = 0 /\ ~Asks(c)
    BY DEF Init, Asks
  <2> QED
    BY <2>1, <2>2 DEF Init, ReadsRecent
<1> QED
  BY <1>1, <1>2, <1>3 DEF SInv

\* A handler begins at its client's call under way; what makes that call an old
\* one is its answer, which ends the handler, or a connection that is lost.
LEMMA GivenUpReadsLastKeeps ==
  ASSUME IInv, RInv, GivenUpReadsLast, [Next]_vars, [Next /\ ReadsKept]_vars
  PROVE  GivenUpReadsLast'
<1>1. workload' = workload
  BY ChosenGrows
<1>2. ASSUME NEW c \in Client, NEW id PROVE UpdatesAfter(c, id)' <=> UpdatesAfter(c, id)
  BY <1>1 DEF UpdatesAfter, Request
<1>3. ASSUME NEW g \in handlers' PROVE g.client \in Client
  BY NextKeeps, <1>3 DEF IInv, TypeOK, HandlerType, HandlerState
<1>4. ASSUME UNCHANGED <<handlers, clientVars>> PROVE GivenUpReadsLast'
  BY <1>2, <1>3, <1>4 DEF GivenUpReadsLast, clientVars
<1>5. ASSUME NEW h \in handlers, Handle(h) PROVE GivenUpReadsLast'
  <2>1. PICK g : handlers' \subseteq (handlers \ {h}) \cup {g} /\ SameCall(g, h)
    BY <1>5, HandlerSteps DEF GoesOn
  <2>2. clerk' = clerk
    BY <1>5, HandlerFrame DEF clientVars
  <2> QED
    BY <1>2, <1>3, <2>1, <2>2 DEF GivenUpReadsLast, SameCall
<1>6. ASSUME NEW c \in Client, Invoke(c) \/ Receive(c) \/ Fail(c) PROVE GivenUpReadsLast'
  <2>1. SUFFICES ASSUME NEW g \in handlers', g.op.op = "Get", g.call # clerk'[g.client].call
                 PROVE  ~UpdatesAfter(g.client, g.op.id)
    BY <1>2, <1>3 DEF GivenUpReadsLast
  <2>2. g \in handlers /\ g.client \in Client
    BY <1>3, <1>6, <2>1, ClientSteps DEF RInv, Calls, Returns
  <2>3. CASE g.call # clerk[g.client].call
    BY <2>1, <2>2, <2>3 DEF GivenUpReadsLast
  <2>4. CASE g.call = clerk[g.client].call
    <3>1. /\ clerk[g.client].busy /\ g.op.id = clerk[g.client].requestId
          /\ g.op = Request(g.client, g.op.id)
      BY <2>2, <2>4 DEF RInv, CallsOnce, CommandsAskedFor, AskedFor
    <3>2. g.client = c
      BY <1>6, <2>1, <2>2, <2>4, ClientSteps DEF RInv, Calls, Returns
    <3>3. CASE Fail(c)
      <4>1. IsUpdate(g.op) \/ ~UpdatesAfter(c, g.op.id)
        <5>1. failures' = failures + 1 /\ failures \in Nat
          BY <3>3 DEF Fail, IInv, TypeOK, ClientType
        <5>2. vars' # vars
          BY <5>1 DEF vars, clientVars
        <5> QED
          BY <3>1, <3>2, <3>3, <5>2 DEF ReadsKept
      <4> QED
        BY <2>1, <3>2, <4>1 DEF IsUpdate
    <3>4. CASE Invoke(c)
      BY <3>1, <3>2, <3>4 DEF Invoke
    <3>5. CASE Receive(c)
      <4>1. PICK h \in handlers :
              /\ h.client = c /\ h.call = clerk[c].call
              /\ \/ Call(c, clerk[c].requestId, NextServer(c), handlers \ {h})
                 \/ handlers' = handlers \ {h}
        BY <3>5 DEF Receive
      <4>2. g = h
        BY <2>2, <2>4, <3>2, <4>1 DEF RInv, CallsOnce
      <4>3. g = Handler(c, calls + 1, NextServer(c), Request(c, clerk[c].requestId))
        BY <2>1, <4>1, <4>2 DEF Call
      <4>4. g.call = calls + 1 /\ g.call \in 1..calls /\ calls \in Nat
        BY <2>2, <4>3, ClerkFacts DEF Handler, RInv, CallsOnce
      <4> QED
        BY <4>4
    <3> QED
      BY <1>6, <3>3, <3>4, <3>5
  <2> QED
    BY <2>3, <2>4
<1>7. CASE Choose
  BY <1>4, <1>7 DEF Choose
<1>8. ASSUME NEW s \in Server, Elect(s) \/ StepDown(s) \/ ReadRaftApplyCommandLoop(s)
      PROVE  GivenUpReadsLast'
  BY <1>4, <1>8, RaftFrame, LoopFrame
<1>9. CASE UNCHANGED vars
  BY <1>4, <1>9 DEF vars
<1> QED
  BY <1>5, <1>6, <1>7, <1>8, <1>9 DEF Next

LEMMA SInvKeeps ==
  ASSUME GivenUpReadsLast, IInv, SInv, [Next]_vars
  PROVE  SInv'
<1>1. RInv'
  BY RInvKeeps DEF SInv
<1>2. ReplicaMatchesLog'
  BY ReplicaKeeps DEF SInv
<1>3. SinceType' /\ ReadsRecent' /\ GetsAnswered'
  BY SinceTypeKeeps, ReadsRecentKeeps, GetsAnsweredKeeps DEF SInv
<1> QED
  BY <1>1, <1>2, <1>3 DEF SInv

\* The invariant behind the two theorems that follow: it relates what clerks have
\* asked, what is committed, what each server has applied and remembered, and
\* what handlers of given-up calls still hold.
THEOREM SInvAlways == KeptSpec => [](IInv /\ SInv)
<1>1. Init => IInv /\ SInv /\ GivenUpReadsLast
  BY InitHolds, SInvInit DEF Init, GivenUpReadsLast
<1>2. IInv /\ SInv /\ GivenUpReadsLast /\ [Next /\ ReadsKept]_vars
        => (IInv /\ SInv /\ GivenUpReadsLast)'
  <2>1. [Next /\ ReadsKept]_vars => [Next]_vars
    OBVIOUS
  <2> QED
    BY <2>1, NextKeeps, SInvKeeps, GivenUpReadsLastKeeps DEF SInv
<1> QED
  BY <1>1, <1>2, PTL DEF KeptSpec

\* Every server's map is the service's after the updates of what it has applied:
\* GetCommandFromRaft's duplicate test lets every Put and Append through once,
\* however often clerks repeat it and whichever leaders append it.
THEOREM ReplicasMatchLog == KeptSpec => []ReplicaMatchesLog
<1>1. IInv /\ SInv => ReplicaMatchesLog
  BY DEF SInv
<1> QED
  BY <1>1, SInvAlways, PTL

-----------------------------------------------------------------------------
(* Every step is one of the service *)

LEMMA ServiceInit == Init => Service!Init
<1> SUFFICES ASSUME Init PROVE Service!Init
  OBVIOUS
<1>1. FirstUpdates(chosen) = <<>>
  BY FoldsNone DEF Init
<1>2. \A c \in Client : ~clerk[c].busy
  BY DEF Init
<1> QED
  BY <1>1, <1>2 DEF Init, Service!Init, Service!Idle, Calling

\* A committed command takes effect if it is an update and new.
LEMMA ServiceChoose == ASSUME IInv, SInv, Choose PROVE [Service!Next]_(Service!vars)
<1> DEFINE e == logs[latest][Len(chosen) + 1]
           u == FirstUpdates(chosen)
           v == FirstUpdates(chosen')
           c == e.client
<1>1. /\ latest \in Server /\ Len(chosen) + 1 \in 1..Len(logs[latest])
      /\ chosen' = Append(chosen, e) /\ chosen \in Seq(Command)
      /\ clerk' = clerk /\ since' = since /\ returned' = returned /\ workload' = workload
  BY ChosenFacts DEF Choose, IInv, TypeOK, RaftType, clientVars
<1>2. e \in Command /\ c \in Client /\ AskedFor(e)
  BY <1>1, ChosenFacts DEF SInv, RInv, CommandsAskedFor
<1>3. v = FirstUpdate(u, e)
  BY <1>1, <1>2, FoldsAppend
<1>4. Len(chosen) \in 0..Len(chosen) /\ Effects(Len(chosen)) = u
  BY ChosenFacts, EffectsOfAll
<1>5. e \in ToSet(u) <=> IsUpdate(e) /\ Chosen(e, Len(chosen))
  BY <1>4, EffectsFacts
<1> HIDE DEF e
<1>6. [d \in Client |-> Calling(d)]' = [d \in Client |-> Calling(d)]
  BY <1>1 DEF Calling, Request
<1>7. CASE IsUpdate(e) /\ e \notin ToSet(u)
  <2>1. ~Chosen(e, Len(chosen))
    BY <1>5, <1>7
  <2>2. clerk[c].busy /\ e = Request(c, clerk[c].requestId)
    <3> DEFINE id == IF clerk[c].busy THEN clerk[c].requestId ELSE clerk[c].requestId + 1
    <3>1. e.id \in 1..clerk[c].requestId /\ e = Request(c, e.id) /\ clerk[c].requestId \in Nat
      BY <1>2, ClerkFacts DEF AskedFor
    <3>2. UpdatesBefore(c, id, Len(chosen))
      BY <1>2 DEF SInv, RInv, OneAfterTheOther
    <3>3. e.id \notin 1..(id - 1)
      <4> HIDE DEF c, id
      <4> QED
        BY <1>7, <2>1, <3>1, <3>2 DEF UpdatesBefore
    <3> QED
      BY <3>1, <3>3
  <2>3. v = Append(u, e)
    BY <1>3, <1>7 DEF FirstUpdate
  <2>4. Calling(c).request = e
    BY <2>2 DEF Calling
  <2>5. [d \in Client |-> Calling(d)][c].request = e
    BY <1>2, <2>4
  <2> HIDE DEF c
  <2>6. Service!TakeEffect(c)
    BY <1>1, <1>6, <1>7, <2>3, <2>5 DEF Service!TakeEffect, Service!IsUpdate, IsUpdate, Service!ToSet, ToSet, Calling
  <2> QED
    BY <1>2, <2>6 DEF Service!Next, c
<1>8. CASE ~(IsUpdate(e) /\ e \notin ToSet(u))
  <2>1. v = u
    BY <1>3, <1>8 DEF FirstUpdate
  <2> QED
    BY <1>1, <1>6, <2>1 DEF Service!vars, Calling
<1> QED
  BY <1>7, <1>8

LEMMA ServiceClient ==
  ASSUME IInv, SInv, NEW c \in Client, Invoke(c) \/ Receive(c) \/ Fail(c)
  PROVE  [Service!Next]_(Service!vars)
<1> DEFINE u == FirstUpdates(chosen)
           id == clerk[c].requestId
           call == [d \in Client |-> Calling(d)]
<1>1. chosen' = chosen /\ workload' = workload
  BY ClientFrame DEF raftVars
<1>2. /\ id \in Nat /\ clerk[c].busy \in BOOLEAN /\ workload \in Workloads
      /\ workload.program[c] \in Seq(Operation) /\ Len(workload.program[c]) \in Nat
      /\ DOMAIN workload.program[c] = 1..Len(workload.program[c])
      /\ id <= Len(workload.program[c])
  BY ClerkFacts, LenProperties DEF IInv, TypeOK, RaftType
<1>3. \A op : op \in ToSet(u) <=> IsUpdate(op) /\ Chosen(op, Len(chosen))
  <2>1. Len(chosen) \in 0..Len(chosen) /\ Effects(Len(chosen)) = u
    BY ChosenFacts, EffectsOfAll
  <2> QED
    BY <2>1, EffectsFacts
<1>4. ASSUME NEW r, \A d \in Client \ {c} : clerk'[d] = clerk[d] /\ since'[d] = since[d], Calling(c)' = r
      PROVE  call' = [call EXCEPT ![c] = r]
  <2>1. \A d \in Client \ {c} : Calling(d)' = Calling(d)
    BY <1>1, <1>4 DEF Calling, Request
  <2> QED
    BY <1>4, <2>1
<1>5. CASE /\ ~clerk[c].busy /\ Calls(c, id + 1) /\ id < Len(workload.program[c])
           /\ since' = [since EXCEPT ![c] = Len(u)] /\ returned' = returned
  <2> DEFINE r == Request(c, id + 1)
             q == [request |-> r, since |-> Len(u)]
  <2>1. Calling(c)' = q /\ \A d \in Client \ {c} : clerk'[d] = clerk[d] /\ since'[d] = since[d]
    BY <1>1, <1>5 DEF Calls, Calling, Request, SInv, SinceType
  <2>2. call' = [call EXCEPT ![c] = q]
    BY <1>4, <2>1
  <2>3. call[c] = [request |-> [op |-> "none"], since |-> 0]
    BY <1>5 DEF Calling
  <2>4. r \in Asked /\ r.client = c
    <3>1. id + 1 \in DOMAIN workload.program[c]
      BY <1>2, <1>5
    <3>2. ASSUME NEW k \in DOMAIN workload.program[c]
          PROVE  RequestOf(workload.program, c, k) \in Asked
      <4>1. RequestOf(workload.program, c, k) \in AskedIn(workload, c)
        BY <3>2 DEF AskedIn
      <4>2. AskedIn(workload, c) \in {AskedIn(w, d) : w \in Workloads, d \in Client}
        BY <1>2
      <4> QED
        BY <4>1, <4>2 DEF Asked
    <3>3. r \in Asked
      BY <3>1, <3>2 DEF Request
    <3> QED
      BY <3>3, RequestFacts
  <2>5. r \notin ToSet(u)
    <3>1. SUFFICES ASSUME NEW i \in 1..Len(chosen), chosen[i] = r PROVE FALSE
      BY <1>3 DEF Chosen
    <3>2. r.client = c /\ r.id = id + 1
      BY RequestFacts
    <3>3. r.id \in 1..id
      BY <3>1, <3>2 DEF SInv, RInv, CommandsAskedFor, AskedFor
    <3> HIDE DEF r
    <3> QED
      BY <1>2, <3>2, <3>3
  <2> HIDE DEF r
  <2>6. r \in {p \in Asked : p.client = c /\ p \notin ToSet(u)}
    BY <2>4, <2>5
  <2> HIDE DEF u, call
  <2>7. \E p \in {o \in Asked : o.client = c /\ o \notin Service!ToSet(u)} :
          call' = [call EXCEPT ![c] = [request |-> p, since |-> Len(u)]]
    BY <2>2, <2>6 DEF Service!ToSet, ToSet
  <2>8. call[c] = Service!Idle /\ UNCHANGED <<u, returned>>
    BY <1>1, <1>5, <2>3 DEF Service!Idle, u
  <2>9. Service!Invoke(c)
    BY <2>7, <2>8 DEF Service!Invoke, u, call
  <2> QED
    BY <2>9 DEF Service!Next
<1>6. CASE clerk[c].busy /\ Calls(c, id) /\ since' = since /\ returned' = returned
  <2>1. \A d \in Client : Calling(d)' = Calling(d)
    BY <1>1, <1>6 DEF Calls, Calling, Request
  <2> QED
    BY <1>1, <1>6, <2>1 DEF Service!vars, Calling
<1>7. ASSUME NEW h, Returns(c, h) PROVE [Service!Next]_(Service!vars)
  <2> DEFINE idle == [request |-> [op |-> "none"], since |-> 0]
  <2>1. Calling(c)' = idle /\ \A d \in Client \ {c} : clerk'[d] = clerk[d] /\ since'[d] = since[d]
    BY <1>7 DEF Returns, Calling
  <2>2. call' = [call EXCEPT ![c] = idle]
    BY <1>4, <2>1
  <2>3. /\ h \in handlers /\ h.client = c /\ h.op = Request(c, id) /\ h.at = "answered"
        /\ h.op.id = id /\ h.reply.err # "ErrWrongLeader"
        /\ returned' = [returned EXCEPT ![c] = h.reply.value] /\ clerk[c].busy
    BY <1>7 DEF Returns, SInv, RInv, CommandsAskedFor, AskedFor
  <2>4. call[c].request = h.op /\ call[c].since = since[c]
    BY <2>3 DEF Calling
  <2>5. CASE IsUpdate(h.op)
    <3>1. h.reply.value = <<>> /\ h.op \in ToSet(u)
      BY <1>3, <2>3, <2>5 DEF SInv, RInv, UpdatesAnswered
    <3>2. Service!ReturnUpdate(c)
      BY <1>1, <2>2, <2>3, <2>4, <2>5, <3>1
         DEF Service!ReturnUpdate, Service!IsUpdate, IsUpdate, Service!Idle, Service!ToSet, ToSet, Calling
    <3> QED
      BY <3>2 DEF Service!Next
  <2>6. CASE ~IsUpdate(h.op)
    <3>1. h.op.op = "Get"
      BY <2>3, <2>6, HandlerFacts DEF IsUpdate
    <3>2. PICK n \in since[c]..Len(u) :
            h.reply.value = Service!Replay(SubSeq(u, 1, n))[h.op.key]
      BY <2>3, <3>1 DEF SInv, GetsAnswered
    <3>3. h.reply.value \in Service!Readable(c)
      BY <2>4, <3>2 DEF Service!Readable, Calling
    <3>4. Service!ReturnGet(c)
      BY <1>1, <2>2, <2>3, <2>4, <3>1, <3>3 DEF Service!ReturnGet, Service!Idle, Calling
    <3> QED
      BY <3>4 DEF Service!Next
  <2> QED
    BY <2>5, <2>6
<1> QED
  BY <1>5, <1>6, <1>7, ClientSteps DEF SInv, RInv

LEMMA ServiceNext == ASSUME IInv, SInv, [Next]_vars PROVE [Service!Next]_(Service!vars)
<1>1. CASE UNCHANGED <<chosen, workload, clerk, since, returned>>
  BY <1>1 DEF Service!vars, Request, Calling
<1>2. \/ UNCHANGED <<chosen, workload, clerk, since, returned>>
      \/ Choose
      \/ \E c \in Client : Invoke(c) \/ Receive(c) \/ Fail(c)
  BY RaftFrame, LoopFrame, HandlerFrame DEF Next, vars, raftVars, clientVars
<1> QED
  BY <1>1, <1>2, ServiceChoose, ServiceClient

\* The servers are one map to their clients: every step of clerks, handlers,
\* leaders and apply loops is a step of KvService or none.  A Put or Append takes
\* effect once, in its call; a Get returns a value of the time of its call.
THEOREM ServiceImplemented == KeptSpec => ImplementsService
<1>1. Init => Service!Init
  BY ServiceInit
<1>2. IInv /\ SInv /\ [Next /\ ReadsKept]_vars => [Service!Next]_(Service!vars)
  BY ServiceNext
<1> QED
  BY <1>1, <1>2, SInvAlways, PTL DEF KeptSpec, ImplementsService, Service!Spec

=============================================================================
