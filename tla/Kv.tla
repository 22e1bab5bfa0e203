---------------------------------- MODULE Kv ----------------------------------
(***************************************************************************)
(* The key-value service: class KvServer of every server, and class Clerk  *)
(* of every client.                                                        *)
(*                                                                         *)
(* A handler of Get or PutAppend hands its command to Raft, waits at the   *)
(* queue of the index Raft gave it, and answers; one thread of the server  *)
(* applies what Raft has committed and pushes it to the queue of its       *)
(* index.  Between two sections that hold a lock any other thread may run. *)
(*                                                                         *)
(* Raft is what these classes see of it.  Committed entries are one        *)
(* sequence, chosen, and a new leader has all of them: that is assumed     *)
(* here, and Raft.tla shows what it takes and where it fails.  Servers do  *)
(* not end.                                                                *)
(***************************************************************************)
EXTENDS Integers, Sequences, FiniteSets, SequencesExt

CONSTANTS
  N,           \* servers
  Client,
  Key,
  Value,       \* what values are sequences of
  Workloads    \* bound: what happens is one of these: program, the operations each client
               \* calls one after the other; leader, the first one; and how often, at
               \* most: calls, repeated ones included; elections; failures of connections

Server == 0..(N - 1)

\* Values that are put or appended are not empty.
Operation ==
  [op : {"Get"}, key : Key, value : {<<>>}] \cup
  [op : {"Put", "Append"}, key : Key, value : Seq(Value) \ {<<>>}]

ASSUME ServersAssumption == N \in Nat \ {0}

ASSUME WorkloadsAssumption ==
  Workloads \subseteq
    [program : [Client -> Seq(Operation)], leader : Server,
     calls : Nat, elections : Nat, failures : Nat]

VARIABLES
  workload,        \* the element of Workloads that happens
  logs,            \* per server: the commands in its Raft log
  leading,         \* per server: m_status = Leader
  latest,          \* the leader of the largest term
  chosen,          \* the committed commands
  elections, calls, failures,
  kvDB,            \* per server: m_kvDB; <<>> for a key it does not hold
  lastRequestId,   \* per server and client: m_lastRequestId; 0 for a client it does not hold
  waitApplyCh,     \* per server: index -> queue of commands
  applied,         \* per server: commands the apply loop has gone through
  applying,        \* per server: the apply loop's next section
  handlers,        \* handlers that run, and answers on their way
  clerk,           \* per client
  returned,        \* per client: what its last operation returned
  since            \* history: per client, the updates chosen when its operation began

raftVars   == <<workload, logs, leading, latest, chosen, elections>>
storeVars  == <<kvDB, lastRequestId, applied>>
clientVars == <<clerk, returned, since, calls, failures>>
vars == <<raftVars, storeVars, waitApplyCh, applying, handlers, clientVars>>

NoReply == [err |-> "none", value |-> <<>>]
OK == [err |-> "OK", value |-> <<>>]
ErrWrongLeader == [err |-> "ErrWrongLeader", value |-> <<>>]

\* Request ids start at 1; a client has an id of its own.
RequestOf(program, c, id) ==
  [op |-> program[c][id].op, key |-> program[c][id].key, value |-> program[c][id].value,
   client |-> c, id |-> id]
Request(c, id) == RequestOf(workload.program, c, id)
IsUpdate(op) == op.op \in {"Put", "Append"}

\* The updates of a log, each where it appears first.
FirstUpdate(updates, op) ==
  IF IsUpdate(op) /\ op \notin ToSet(updates) THEN Append(updates, op) ELSE updates
FirstUpdates(log) == FoldLeft(FirstUpdate, <<>>, log)

Init ==
  /\ workload \in Workloads
  /\ logs = [s \in Server |-> <<>>] /\ chosen = <<>>
  /\ latest = workload.leader /\ leading = [s \in Server |-> s = latest]
  /\ elections = 0 /\ calls = 0 /\ failures = 0
  /\ kvDB = [s \in Server |-> [k \in Key |-> <<>>]]
  /\ lastRequestId = [s \in Server |-> [c \in Client |-> 0]]
  /\ waitApplyCh = [s \in Server |-> <<>>]
  /\ applied = [s \in Server |-> 0] /\ applying = [s \in Server |-> "pop"]
  /\ handlers = {}
  /\ clerk = [c \in Client |-> [requestId |-> 0, recentLeaderId |-> 0, server |-> 0,
                                call |-> 0, busy |-> FALSE]]
  /\ returned = [c \in Client |-> <<>>] /\ since = [c \in Client |-> 0]

-----------------------------------------------------------------------------
(* Raft *)

\* The leader of the largest term commits the next entry of its log.
Choose ==
  /\ leading[latest]
  /\ Len(chosen) < Len(logs[latest])
  /\ chosen' = Append(chosen, logs[latest][Len(chosen) + 1])
  /\ UNCHANGED <<workload, logs, leading, latest, elections, storeVars, waitApplyCh, applying,
                 handlers, clientVars>>

\* Mutant of LogWith: what the follower has behind them is cut off.
LogCut(t, n) == SubSeq(logs[latest], 1, n)

\* A follower with the first n entries of the leader's log: they replace its own
\* at the same places, and what it has behind them stays.
LogWith(t, n) ==
  SubSeq(logs[latest], 1, n) \o SubSeq(logs[t], n + 1, Len(logs[t]))

Elect(t) ==
  /\ elections < workload.elections
  /\ ~leading[t]
  /\ \E n \in 0..Len(logs[latest]) : logs' = [logs EXCEPT ![t] = LogWith(t, n)]
  /\ IsPrefix(chosen, logs'[t])
  /\ latest' = t
  /\ leading' = [leading EXCEPT ![t] = TRUE]
  /\ elections' = elections + 1
  /\ UNCHANGED <<workload, chosen, storeVars, waitApplyCh, applying, handlers, clientVars>>

\* A leader learns of a larger term.
StepDown(s) ==
  /\ leading[s]
  /\ leading' = [leading EXCEPT ![s] = FALSE]
  /\ UNCHANGED <<workload, logs, latest, chosen, elections, storeVars, waitApplyCh, applying,
                 handlers, clientVars>>

-----------------------------------------------------------------------------
(* The apply loop of a server *)

\* Mutant of ifRequestDuplicate: the last request itself is not one.
ifRequestOlder(s, op) == op.id < lastRequestId[s][op.client]

ifRequestDuplicate(s, op) == op.id <= lastRequestId[s][op.client]

GetCommandFromRaft(s) ==
  /\ applying[s] = "pop"
  /\ applied[s] < Len(chosen)
  /\ LET op == chosen[applied[s] + 1] IN
       IF IsUpdate(op) /\ ~ifRequestDuplicate(s, op)
         THEN /\ applying' = [applying EXCEPT ![s] = "execute"]
              /\ UNCHANGED applied
         ELSE /\ applying' = [applying EXCEPT ![s] = "send"]
              /\ applied' = [applied EXCEPT ![s] = @ + 1]
  /\ UNCHANGED <<raftVars, kvDB, lastRequestId, waitApplyCh, handlers, clientVars>>

ExecutePutOpOnKVDB(db, op)    == [db EXCEPT ![op.key] = op.value]
ExecuteAppendOpOnKVDB(db, op) == [db EXCEPT ![op.key] = @ \o op.value]

Execute(s) ==
  /\ applying[s] = "execute"
  /\ LET op == chosen[applied[s] + 1] IN
       /\ kvDB' = [kvDB EXCEPT ![s] = IF op.op = "Put" THEN ExecutePutOpOnKVDB(@, op)
                                      ELSE ExecuteAppendOpOnKVDB(@, op)]
       /\ lastRequestId' = [lastRequestId EXCEPT ![s][op.client] = op.id]
  /\ applied' = [applied EXCEPT ![s] = @ + 1]
  /\ applying' = [applying EXCEPT ![s] = "send"]
  /\ UNCHANGED <<raftVars, waitApplyCh, handlers, clientVars>>

\* A command nobody waits for yet is not kept.
SendMessageToWaitChan(s) ==
  /\ applying[s] = "send"
  /\ waitApplyCh' =
       IF applied[s] \in DOMAIN waitApplyCh[s]
         THEN [waitApplyCh EXCEPT ![s][applied[s]] = Append(@, chosen[applied[s]])]
         ELSE waitApplyCh
  /\ applying' = [applying EXCEPT ![s] = "pop"]
  /\ UNCHANGED <<raftVars, storeVars, handlers, clientVars>>

-----------------------------------------------------------------------------
(* The handlers Get and PutAppend, from one lock to the next *)

Becomes(h, g) == handlers' = (handlers \ {h}) \cup {g}

\* A handler ends; its answer has somewhere to go while its client waits for it.
Answer(h, reply) ==
  IF clerk[h.client].call = h.call
    THEN Becomes(h, [h EXCEPT !.at = "answered", !.reply = reply])
    ELSE handlers' = handlers \ {h}

\* Mutant of NewCommandIndex: one too many.
NewCommandIndexNext(s) == Len(logs[s]) + 2

NewCommandIndex(s) == Len(logs[s]) + 1

Start(h) ==
  /\ h.at = "start"
  /\ IF leading[h.server]
       THEN /\ logs' = [logs EXCEPT ![h.server] = Append(@, h.op)]
            /\ Becomes(h, [h EXCEPT !.at = "register", !.raftIndex = NewCommandIndex(h.server)])
       ELSE Answer(h, ErrWrongLeader) /\ UNCHANGED logs
  /\ UNCHANGED <<workload, leading, latest, chosen, elections, storeVars, waitApplyCh, applying, clientVars>>

Register(h) ==
  /\ h.at = "register"
  /\ waitApplyCh' =
       [waitApplyCh EXCEPT ![h.server] =
          [i \in DOMAIN @ \cup {h.raftIndex} |-> IF i \in DOMAIN @ THEN @[i] ELSE <<>>]]
  /\ Becomes(h, [h EXCEPT !.at = "wait"])
  /\ UNCHANGED <<raftVars, storeVars, applying, clientVars>>

\* Mutant of IsCommandOf: no check that the command is the handler's.
IsAnyCommand(h, op) == TRUE

IsCommandOf(h, op) == op.client = h.op.client /\ op.id = h.op.id

\* timeOutPop finds a command in the queue: it is the handler's own, or Raft has
\* put another at its index.
Pop(h) ==
  /\ h.at = "wait"
  /\ waitApplyCh[h.server][h.raftIndex] # <<>>
  /\ LET mine == IsCommandOf(h, Head(waitApplyCh[h.server][h.raftIndex])) IN
     Becomes(h, IF mine /\ h.op.op = "Get" THEN [h EXCEPT !.at = "get"]
                ELSE [h EXCEPT !.at = "erase", !.reply = IF mine THEN OK ELSE ErrWrongLeader])
  /\ waitApplyCh' = [waitApplyCh EXCEPT ![h.server][h.raftIndex] = Tail(@)]
  /\ UNCHANGED <<raftVars, storeVars, applying, clientVars>>

\* timeOutPop gives up, also with a command that was pushed at the last moment.
\* Get asks Raft next whether it still leads.
TimeOut(h) ==
  /\ h.at = "wait"
  /\ Becomes(h, IF h.op.op = "Get" THEN [h EXCEPT !.at = "getState"]
                ELSE [h EXCEPT !.at = "duplicate"])
  /\ UNCHANGED <<raftVars, storeVars, waitApplyCh, applying, clientVars>>

GetState(h) ==
  /\ h.at = "getState"
  /\ Becomes(h, [h EXCEPT !.at = "duplicate", !.isLeader = leading[h.server]])
  /\ UNCHANGED <<raftVars, storeVars, waitApplyCh, applying, clientVars>>

TimedOut(h) ==
  /\ h.at = "duplicate"
  /\ LET duplicate == ifRequestDuplicate(h.server, h.op) IN
     Becomes(h, IF h.op.op = "Get" /\ duplicate /\ h.isLeader THEN [h EXCEPT !.at = "get"]
                ELSE [h EXCEPT !.at = "erase",
                        !.reply = IF IsUpdate(h.op) /\ duplicate THEN OK ELSE ErrWrongLeader])
  /\ UNCHANGED <<raftVars, storeVars, waitApplyCh, applying, clientVars>>

ExecuteGetOpOnKVDB(h) ==
  /\ h.at = "get"
  /\ LET value == kvDB[h.server][h.op.key]
         err   == IF value = <<>> THEN "ErrNoKey" ELSE "OK"
     IN  Becomes(h, [h EXCEPT !.at = "erase", !.reply = [err |-> err, value |-> value]])
  /\ lastRequestId' = [lastRequestId EXCEPT ![h.server][h.client] = h.op.id]
  /\ UNCHANGED <<raftVars, kvDB, applied, waitApplyCh, applying, clientVars>>

Erase(h) ==
  /\ h.at = "erase"
  /\ waitApplyCh' = [waitApplyCh EXCEPT ![h.server] =
                       [i \in DOMAIN @ \ {h.raftIndex} |-> @[i]]]
  /\ Answer(h, h.reply)
  /\ UNCHANGED <<raftVars, storeVars, applying, clientVars>>

-----------------------------------------------------------------------------
(* The clerks *)

Handler(c, call, server, op) ==
  [client |-> c, call |-> call, server |-> server, op |-> op, at |-> "start",
   raftIndex |-> 0, isLeader |-> FALSE, reply |-> NoReply]

\* One call at a server, a handler of which may start at any time from now on.
Call(c, id, server, rest) ==
  /\ calls < workload.calls
  /\ calls' = calls + 1
  /\ clerk' = [clerk EXCEPT ![c] = [@ EXCEPT !.requestId = id, !.server = server,
                                             !.call = calls + 1, !.busy = TRUE]]
  /\ handlers' = rest \cup {Handler(c, calls + 1, server, Request(c, id))}

\* Get, Put or Append is called.
Invoke(c) ==
  /\ ~clerk[c].busy
  /\ clerk[c].requestId < Len(workload.program[c])
  /\ Call(c, clerk[c].requestId + 1, clerk[c].recentLeaderId, handlers)
  /\ since' = [since EXCEPT ![c] = Len(FirstUpdates(chosen))]
  /\ UNCHANGED <<raftVars, storeVars, waitApplyCh, applying, returned, failures>>

NextServer(c) == (clerk[c].server + 1) % N

\* The answer of the call under way; only an OK moves m_recentLeaderId.
Receive(c) ==
  \E h \in handlers :
    /\ h.client = c /\ h.call = clerk[c].call /\ h.at = "answered"
    /\ IF h.reply.err = "ErrWrongLeader"
         THEN /\ Call(c, clerk[c].requestId, NextServer(c), handlers \ {h})
              /\ UNCHANGED returned
         ELSE /\ clerk' = [clerk EXCEPT ![c].busy = FALSE,
                             ![c].recentLeaderId = IF h.reply.err = "OK" THEN h.server ELSE @]
              /\ returned' = [returned EXCEPT ![c] = h.reply.value]
              /\ handlers' = handlers \ {h}
              /\ UNCHANGED calls
    /\ UNCHANGED <<raftVars, storeVars, waitApplyCh, applying, since, failures>>

\* The connection is lost: the clerk asks the next server, and what the call had
\* started at this one goes on.
Fail(c) ==
  /\ clerk[c].busy
  /\ failures < workload.failures
  /\ failures' = failures + 1
  /\ Call(c, clerk[c].requestId, NextServer(c),
          {h \in handlers : ~(h.client = c /\ h.at = "answered")})
  /\ UNCHANGED <<raftVars, storeVars, waitApplyCh, applying, returned, since>>

-----------------------------------------------------------------------------
Handle(h) ==
  \/ Start(h) \/ Register(h) \/ Pop(h) \/ TimeOut(h) \/ GetState(h)
  \/ TimedOut(h) \/ ExecuteGetOpOnKVDB(h) \/ Erase(h)

ReadRaftApplyCommandLoop(s) ==
  GetCommandFromRaft(s) \/ Execute(s) \/ SendMessageToWaitChan(s)

Next ==
  \/ Choose
  \/ \E s \in Server : Elect(s) \/ StepDown(s) \/ ReadRaftApplyCommandLoop(s)
  \/ \E h \in handlers : Handle(h)
  \/ \E c \in Client : Invoke(c) \/ Receive(c) \/ Fail(c)

Spec == Init /\ [][Next]_vars

\* No connection is lost in a Get whose client makes an update after it.  The
\* handler of a Get that was given up sets m_lastRequestId back to its own id
\* whenever it ends (ExecuteGetOpOnKVDB), and an update made since could then pass
\* the duplicate test again.
UpdatesAfter(c, id) ==
  \E d \in DOMAIN workload.program[c] : d > id /\ IsUpdate(Request(c, d))
ReadsKept ==
  \A c \in Client : Fail(c) =>
    \/ IsUpdate(Request(c, clerk[c].requestId))
    \/ ~UpdatesAfter(c, clerk[c].requestId)

KeptSpec == Init /\ [][Next /\ ReadsKept]_vars

-----------------------------------------------------------------------------
(* Properties *)

Command == [op : {"Get", "Put", "Append"}, key : Key, value : Seq(Value),
            client : Client, id : Nat]
Reply   == [err : {"none", "OK", "ErrNoKey", "ErrWrongLeader"}, value : Seq(Value)]

\* Where a handler has its index, and where it has its queue.
HasQueue == {"wait", "getState", "duplicate", "get", "erase"}
HasIndex == {"register"} \cup HasQueue
HandlerState ==
  [client : Client, call : Nat, server : Server, op : Command,
   at : {"start", "answered"} \cup HasIndex, raftIndex : Nat, isLeader : BOOLEAN, reply : Reply]
ClerkState ==
  [requestId : Nat, recentLeaderId : Server, server : Server, call : Nat, busy : BOOLEAN]

RaftType ==
  /\ workload \in Workloads /\ latest \in Server
  /\ logs \in [Server -> Seq(Command)] /\ chosen \in Seq(Command)
  /\ leading \in [Server -> BOOLEAN]

\* The apply loop is inside the committed commands, at any of its sections.
StoreType ==
  /\ kvDB \in [Server -> [Key -> Seq(Value)]]
  /\ lastRequestId \in [Server -> [Client -> Nat]]
  /\ applied \in [Server -> Nat]
  /\ applying \in [Server -> {"pop", "execute", "send"}]
  /\ \A s \in Server :
       /\ applied[s] <= Len(chosen)
       /\ applying[s] = "execute" => applied[s] < Len(chosen)
       /\ applying[s] = "send" => applied[s] > 0

ClientType ==
  /\ calls \in Nat /\ failures \in Nat /\ elections \in Nat
  /\ clerk \in [Client -> ClerkState]
  /\ \A c \in Client :
       /\ clerk[c].requestId <= Len(workload.program[c])
       /\ clerk[c].busy => clerk[c].requestId > 0
  /\ returned \in [Client -> Seq(Value)]

\* A handler that waits has a queue, whoever has erased another since.
HandlerType ==
  /\ handlers \subseteq HandlerState
  /\ DOMAIN waitApplyCh = Server
  /\ \A s \in Server : \A i \in DOMAIN waitApplyCh[s] : waitApplyCh[s][i] \in Seq(Command)
  /\ \A h \in handlers :
       /\ h.at \in HasIndex => h.raftIndex \in 1..Len(logs[h.server])
       /\ h.at \in HasQueue => h.raftIndex \in DOMAIN waitApplyCh[h.server]

\* Type invariant.
TypeOK == RaftType /\ StoreType /\ ClientType /\ HandlerType

\* Two handlers of a server never wait at one index: the first to end deletes
\* the queue of its index, whoever else uses it.
QueueOwned ==
  \A h, g \in handlers :
    h.at \in HasIndex /\ g.at \in HasIndex
      /\ h.server = g.server /\ h.raftIndex = g.raftIndex => h = g

\* What a client may ask, in any of the workloads.
AskedIn(w, c) == {RequestOf(w.program, c, id) : id \in DOMAIN w.program[c]}
Asked == UNION {AskedIn(w, c) : w \in Workloads, c \in Client}

\* A client's call, and how many updates had taken effect when it began.
Calling(c) ==
  IF clerk[c].busy THEN [request |-> Request(c, clerk[c].requestId), since |-> since[c]]
  ELSE [request |-> [op |-> "none"], since |-> 0]

\* The service implements KvService: a clerk's updates take effect once, within
\* their calls, and a Get returns a value of the time of its call, whatever
\* servers, handlers and repeated calls it took.
Service == INSTANCE KvService WITH
  Requests <- Asked,
  effects  <- FirstUpdates(chosen),
  call     <- [c \in Client |-> Calling(c)]

ImplementsService == Service!Spec

\* Every server's map is the service's after the updates of what it has applied,
\* each once, however often clerks have repeated it and wherever Raft has put it:
\* what GetCommandFromRaft's duplicate test is for.
ReplicaMatchesLog ==
  \A s \in Server :
    kvDB[s] = Service!Replay(FirstUpdates(SubSeq(chosen, 1, applied[s])))

\* What a comment in Clerk::Get says of repeated calls: the server makes sure
\* that no request is executed twice.
ExecutedOnce ==
  \A s \in Server, k \in Key : IsInjective(kvDB[s][k])

=============================================================================
