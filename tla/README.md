# Verification of the skip-list key-value store on Raft

This directory holds TLA+ modules that model the key-value store of this
repository, TLC configurations that check them on small instances, and proofs,
checked by TLAPS, of the theorems that carry the rest.  Every definition is
translated from the code; `PROJECT.json` gives, for each one, the lines it
stands for.

    cd tla
    tlc -config RaftElection.cfg MCRaft.tla       # one run
    tlapm RaftProofs.tla                          # one module of proofs

## 1. The system

A deployment is a set of processes (`example/raftKvDb.cpp` forks one per node).
Each one has a `KvServer`, a `Raft`, a `Persister`, and an `RpcProvider` that
serves both classes over TCP.  A `Clerk` in another process sends `Get`, `Put`
and `Append` to the servers.

| Part | State | Operations | What makes it correct |
|---|---|---|---|
| `Raft` (`raft.cpp`, `raft.h`) | role, term, vote, log, snapshot index and term, `m_commitIndex`, `m_lastApplied`, `m_nextIndex`, `m_matchIndex`; a counter per election (`*votedNum`) and per heartbeat round (`*appendNums`) | `doElection`, `RequestVote`, `sendRequestVote`, `doHeartBeat`, `AppendEntries1`, `sendAppendEntries`, `leaderSendSnapShot`, `InstallSnapshot`, `Start`, `Snapshot`, `applierTicker`, `persist`, `init` | one leader per term; one vote per term; an index and a term name one command; committed entries stay; commands delivered once and in order; promises saved before they are answered; no assertion ends a process |
| `Persister` | two files, opened once, kept open; a size counter | `Save`, `SaveRaftState`, `ReadRaftState`, `ReadSnapshot`, `RaftStateSize` | a restart reads back what was saved last |
| `KvServer` | `m_kvDB`, `m_lastRequestId`, `waitApplyCh` (a queue per raft index), `m_lastSnapShotRaftLogIndex` | `Get` and `PutAppend` handlers, `ReadRaftApplyCommandLoop`, `MakeSnapShot`, `GetSnapShotFromRaft` | a request executes once; servers that applied the same prefix hold the same data; an `OK` is about an executed request |
| `Clerk` | client id, request number, the last leader | `Get`, `Put`, `Append`, retrying around the servers | a request is answered once a server has executed it |
| `LockQueue` (`util.h`) | a queue under a mutex with a condition variable | `Push`, `Pop`, `timeOutPop` | what is pushed is popped once, in order |
| `MprpcChannel`, `RpcProvider` | one socket per stub (`m_clientFd`); a buffer per connection | `CallMethod`, `newConnect`, `OnMessage`, `SendRpcResponse` | a request is handled once and as sent; an answer reaches the call it answers; a call returns |
| Generated classes (`*.pb.cc`, `*.pb.h`) | the fields of a message | `Clear`, `_InternalSerialize`, `ByteSizeLong`, `_InternalParse`, `MergeFrom`; `CallMethod` of a service | what is written is read back, in as many bytes as announced |
| Start-up | the configuration file that nodes append to | `raftKvDb` `main`, the `KvServer` constructor | all nodes see the same peers |

### How the parts interact

* A handler of `KvServer` calls `Raft::Start`, which appends to the leader's log
  and returns the index; the handler waits on the queue of that index.
* `leaderHearBeatTicker` runs `doHeartBeat`, which starts a detached thread per
  peer: `sendAppendEntries`, or `leaderSendSnapShot` to a peer whose next entry
  is inside the snapshot.  The thread makes the call without the lock, takes
  the lock when it has returned, and uses the answer on whatever the state is by
  then.  The threads of one round share `*appendNums`; rounds overlap.
* `electionTimeOutTicker` runs `doElection`, which starts `sendRequestVote`
  threads that share `*votedNum`.
* `applierTicker` collects committed entries under the lock and pushes them to
  `applyChan` without it; `InstallSnapshot` pushes its snapshot under the lock,
  and once more from a detached thread.
* A stub's call goes through `MprpcChannel::CallMethod`, which has no lock: the
  threads of a node that call one peer share the socket.  `RpcProvider` handles
  a connection's bytes in one of its I/O threads and runs the handler there.
* A clerk makes one call at a time, at the server it takes for the leader, and
  goes round the servers until one answers `OK` (or `ErrNoKey`).
* The apply loop of `KvServer` pops `applyChan`, executes what is not a
  duplicate, may call back `Raft::Snapshot`, and wakes the handler.

### What is hard

Detached threads retake the lock in any order, with answers to questions of an
earlier term or round.  Calls are lost when a connection breaks, and a clerk repeats
what may still be executing.  A handler's index is taken before its queue is
there, and may come to hold another leader's command.  An answer says neither
which call it belongs to nor where it ends.  Two rounds
count acknowledgements of different ranges of one log.  The service receives
messages from three threads.  A failed `myAssert` ends a process in the middle
of everybody else's calls.  A node that starts again reads files that its own
constructor has just truncated.  All of these are listed with their lines under
`hazards` in `PROJECT.json`, with the properties that look at them.

## 2. Modules

    Raft            the consensus module, its properties, the mutants of its definitions
      MCRaft        instances for TLC
      RaftRestart   Raft with crashes and restarts
        MCRaftRestart
      RaftProofs            types, log positions, commit and apply indexes
        RaftDeliveryProofs  what reaches the service
        RaftElectionProofs  one vote and one leader per term; what a node has promised
                            is persisted; one command per index and term
          RaftReplicationProofs  leaders' logs, calls, matchIndex
            RaftLeaderProofs     one victory per term, assertions, what is committed
    KvService       what the service promises its clerks
    Kv              KvServer and Clerk, with what they see of Raft; implements KvService
      MCKv          instances for TLC
      KvProofs      types, one queue per handler, replicas, and the refinement
    Wire            the generated message classes: fields, serializing, parsing
      WireProofs    what a class writes it reads back, also cut, merged or joined
      Rpc           MprpcChannel, RpcProvider and the connections between them
        MCRpc       instances for TLC
        RpcProofs   handled once and as sent, own answers, no call stuck, types
                    (extends WireProofs too)

The three groups meet at assumptions, each named in the module that makes it.
`Raft` takes an answer to reach its own call; `Rpc` shows when that holds
(`OwnAnswer`) and that it fails for threads that share a channel (finding 4).
`Kv` takes committed entries to be one sequence that every new leader has;
`Raft` shows what of that holds (`EntryUniqueness`, `DeliveredInOrder`) and
where it fails (finding 1).  So what `Kv` shows is what the service would do over
a Raft and a network that keep their word, and what it finds is its own fault.

### Raft

One action stands for one critical section of `m_mtx`, from the lock to the
unlock, with every call it makes: `RequestVote`, for example, contains the
deferred `persist()` on each of its paths.  The variables keep the names of the
members without the `m_`.  The other variables are:

* `up` is FALSE once an assertion has failed.  `myAssert` prints and exits, so
  `Asserts(i, condition)` sets `up[i]`, and every action of a node needs it.
* `persisted` is what the node last gave to its persister.
* `voteRequests`, `appendRequests`, `snapshotRequests` hold calls that a handler
  has not taken, `voteReplies`, ... the answers that the calling thread has not
  used, `snapshotThreads` the `leaderSendSnapShot` threads that have not made
  their call.  They are sets: threads are not ordered.
* `votedNum` and `appendNums` are the counters, as the set of servers counted.
  A counter is reset to the empty set, as the code resets it to 0, and freed
  with the last thread of its round.
* `applying` is the local `applyMsgs` of `applierTicker`, `latePushes` the
  `pushMsgToKvServer` threads, `applyChan` all that was pushed.
* `votes` is a history variable: every vote cast, as
  `<<voter, term, candidate>>`.  No action reads it.

`AppendEntries1` is split, inside one action, into the paths of the code:
`AcceptEntries`, `RejectEntries`, and `PrevInsideSnapshot`, where the handler
fills in a refusal, does not return, and ends in an assertion of `matchLog`.
`MergeEntries` is the loop over the entries: it appends or replaces, and never
cuts.  A replica that asks an index outside its log ends by assertion, so
`LogTermAt` is total and its callers state `InLog` under `Asserts`.

A follower's process that has ended may answer a call with an empty reply
(`SnapshotToClosedPeer`): the stubs report failures, and all callers look, but a
connection closed in order makes `recv` return 0, and an empty array parses
without failure.  `leaderSendSnapShot` takes such a reply for a success; to the
other two callers it is an answer of an old term, the same as a lost call.

Left out of Raft: the timers and sleeps (a ticker may run whenever its handler
would not return at once), `GetState` and `leaderUpdateCommitIndex` (the
first changes nothing, the second is never called), the bytes of a snapshot,
and calls whose answer goes to another call (`Rpc` has those).

### RaftRestart

Adds `Crash` and `Restart`.  A restart makes a new `Persister`, whose
constructor opens both files with `ios::trunc`, and then runs `Raft::init` on
what can be read: nothing.  The calls of the dead process are gone with its
threads.

A started process serves calls some seconds before `Raft::init` runs.  One
that arrives then finds no persister and ends the process in the deferred
`persist()`; that is a crash before the `Restart`, which stands for a start that
no call comes into.

### Kv and KvService

`KvService` is the promise, with three variables: `effects`, the updates that took
effect, in order; `call`, what each clerk has asked and how many effects
preceded it; `returned`.  An update takes effect once, between its call and its
return; a Get returns what the map, `Replay` of the effects, held at some moment
of its call.

In `Kv` a handler of `Get` or `PutAppend` is a record that goes through the
sections of the code that hold a lock:

| `at` | next step | code |
|---|---|---|
| `start` | `Start`: the leader appends and gives the index, another server answers `ErrWrongLeader` | `Raft::Start` |
| `register` | `Register`: the queue of the index, unless it is there | `kvServer.cpp` 95-103, 230-237 |
| `wait` | `Pop`, or `TimeOut`, at any moment | `LockQueue::timeOutPop` |
| `getState` | `GetState` (only Get) | `Raft::GetState` |
| `duplicate` | `TimedOut`: what to answer after a timeout | 117, 246 |
| `get` | `ExecuteGetOpOnKVDB`: reads the map, writes `m_lastRequestId` | 40-59 |
| `erase` | `Erase`: deletes the queue, answers | 154-158, 263-268 |

The apply loop has three sections, `pop` (with the duplicate test), `execute` and
`send`.  A handler whose clerk has given up goes on to its end: its answer has
nowhere to go.  A handler may start long after its call was made, because the
provider's I/O threads wait inside handlers.  `Fail` is a lost connection: the
clerk goes to the next server with the same request id.

What `Kv` keeps of Raft is a log per server, who takes itself for a leader, the
leader of the largest term, and the committed sequence `chosen`.  `Choose`
commits the next entry of that leader.  `Elect` makes a server the leader: its
log is what the last leader's calls have made of it, a prefix of that leader's
log over its own (`LogWith`, after `MergeEntries`, which never cuts), and has
everything chosen.  With two servers, as in the runs, those are all the logs a
follower can have.  An old leader goes on until `StepDown`.

The mapping: `effects` are the updates of `chosen` where each appears first;
`call` is the request of a busy clerk; `returned` is itself.  An update takes
effect when Raft commits it for the first time, not when a server executes it.

Left out: snapshots of the service (`m_raftStateSize` stays 0, so
`IfNeedToSendSnapShotCommand` never asks for one), the end of a server's
process, equal client ids, empty values (the model's `<<>>` is a key the map
does not hold).

### Wire and Rpc

`Wire` gives each message class its fields, by number, name and type, and one
operator for each function that the compiler generates with the same text for
every class.  Bytes are cells of a kind, a value and a size, fine enough for what
the framework does to them: to be counted, cut at a byte, and put after one
another.  Negative `int32`s take ten bytes, defaults none; an entry of a
repeated field is written also when it is empty.  A parse sets the last of
several occurrences and skips a field the class has not got.

`Rpc` is one channel: the threads of a process that call one peer.  A call is the
steps of `CallMethod` between two uses of `m_clientFd`, which no lock guards, so
between any two another thread may run:

| step | code (`mprpcchannel.cc`) |
|---|---|
| `Start` | reads `m_clientFd`, 23 |
| `Connect`, `Connected` | `newConnect` up to `connect()`, 133-156; its write of `m_clientFd`, 157 |
| `Send`, `SendFails` | `send` on what `m_clientFd` is, 87 |
| `Close`, `Clear` | `close(m_clientFd)` and `m_clientFd = -1` after a failed send, 92 |
| `BeginRecv` | `recv` is called, 107 |
| `Receive`, `RecvEof`, `RecvError` | `recv` returns, 107-125 |
| `Close`, `Fail` | `close(m_clientFd)`, `m_clientFd = -1` and the return after a failed recv, 109; `Fail` alone after a failed `newConnect`, 138, 153 |

`Close` closes what `m_clientFd` is by then, which may be another thread's new
connection; `Connected` and `Clear` write over it.  The descriptor keeps the number
of a closed connection (`ClosedFd`) until somebody writes -1; that the kernel may
give this number to a new connection is left out.  A connection is `open`, or ended
by the provider in order (`eof`) or not (`reset`); a send after an `eof` succeeds,
and the reset that answers it comes then or only after the next `recv`.  A provider
that ends may have handled a request and not sent the answer (`Ends`).
`OnMessage` takes any number of requests that have arrived, as one; `Dispatch`
says what the code makes of these bytes: a request, nothing, or the end of the
process, where `substr` starts behind the end.  `OnPartOfMessage` is a request
that arrives in two pieces.  Two history variables serve the properties:
`handled`, what reached a handler, and `disturbed`, the calls that did not have
their connection to themselves: they met another call, its request or its answer on
it (`Sharing`), or another thread closed it or wrote over it when they were about to
send (`Deprived`).

## 3. Properties

| `Raft` | Says |
|---|---|
| `TypeOK` | the types of all variables |
| `ElectionSafety` | two nodes never lead in one term |
| `OneVotePerTerm` | a node never votes for two candidates in one term |
| `EntryUniqueness` | an index and a term name one command, in logs and in calls under way |
| `Contiguous` | the position of an entry tells its index |
| `CommitWithinLog` | `lastApplied <= commitIndex <=` last index |
| `MatchIndexSound` | what a leader believes a peer of its term stores, the peer stores |
| `CommitBacked` | a leader commits an entry of its term only when `matchIndex` shows a majority |
| `PromisesPersisted` | votes and logs are in what was saved |
| `NoAssertionFails` | no assertion ends a process |
| `DeliveredInOrder` | the service gets commands once, in order, without a gap |
| `NothingSkipped` | what counts as applied was delivered, as a command or in a snapshot |
| `LeaderAppendOnly` | while a node leads a term, no step, of its own or of a call, changes an entry of its log (action property) |
| `LastLogIndexNeverFalls` | no step makes a log end earlier (action property) |
| `StartedEntryApplied` | an entry of a leader that stays reaches the services (liveness) |
| `LeaderCompleteness` | a later leader has what earlier ones committed |

| `Kv` | Says |
|---|---|
| `TypeOK` | types; the apply loop is inside the committed commands; who waits has a queue |
| `ReplicaMatchesLog` | every map is the replay of what its server applied, each update once, however often it is in the log |
| `QueueOwned` | two handlers of a server never have one index |
| `ImplementsService` | refinement of `KvService` |
| `ExecutedOnce` | no value is appended twice (does not hold) |

| `Rpc` | Says |
|---|---|
| `TypeOK` | types; also, messages have the fields and types of the class they were read as |
| `WireSound` | what a class writes it reads back, in as many bytes as announced; two messages read as one are merged |
| `HandledOnce` | a request reaches a handler at most once |
| `HandledAsSent` | what reaches a handler are the arguments that were sent |
| `OwnAnswer` | a call that had its connection to itself returns its own answer, or a message of defaults when the provider ended |
| `NoCallStuck` | a call that had its connection to itself and waits for its answer can go on, or the provider has its request to read |
| `ResendsOnlyAfterEnd` | a call whose connection nobody takes away sends again only after the provider has ended one |
| `CallReturns` | a call that had its connection to itself returns (liveness) |
| `AnsweredBeforeReturn` | a call that returns has been handled (does not hold) |

`OwnAnswer`, `NoCallStuck`, `ResendsOnlyAfterEnd` and `CallReturns` except the calls in
`disturbed`: what happens to those that share a connection is finding 4.  What happens
to those that are deprived of one is that they connect again, and two threads whose
sends failed can do so for ever: each closes the connection that the other has just
made, and neither returns (the hazard at `mprpcchannel.cc:92`).
`ResendsOnlyAfterEnd` says that it takes the other thread.  `NoCallStuck` and `CallReturns` also except answers
of defaults only, which have no bytes, so that nothing is sent: `InstallSnapshot`'s
early return gives one when the term is 0 as well.  `NoCallStuck` is the half of
`CallReturns` that needs no fairness, and is proved.

## 4. Runs

The runs named `Raft...` are of `MCRaft`, `RaftRestart` of `MCRaftRestart`, `Rpc...`
of `MCRpc`, `Kv...` of `MCKv`.

| Run | States | Instance | Shows |
|---|---|---|---|
| `RaftElection` | 232 000 | 3 nodes, rivals in term 1, a third in term 2, heartbeats | election safety, votes, no second leadership of a term |
| `RaftTakeover` | 570 000 | a second leader replaces an entry of the first; calls of both under way; a lossy peer | logs, calls, `matchIndex` and saved state agree; a leader's entries stay |
| `RaftReplication` | 475 000 | one leader, two rounds at once, two entries, a lossy peer | counters of overlapping rounds, commit rule, assertions |
| `RaftApply` | 10 000 | one leader, two entries, an applier, a lossy peer, fairness | delivery in order, and that it happens |
| `RaftSnapshot` | 283 000 | snapshots at 1 and 2 by leader and follower, a lossy follower, two appliers | delivery around snapshots, logs after snapshots |
| `Rpc` | 347 000 | three calls on a channel, of a Raft node or of a clerk; one fault; five connections; fairness | requests and answers across crashes, reconnections, pieces and cut answers |
| `Kv` | 827 000 | 2 servers, five workloads of one or two clients, three or four calls, one election, one lost connection | the service is one map |
| `RaftCompleteness` | violation | four terms along one history | finding 1 |
| `RaftRestart` | violation | two rivals, crashes, restarts | finding 2 |
| `RaftStall` | violation | 4 nodes, one entry, two lossy peers, fairness | finding 3 |
| `RpcAnswer` | violation | a vote request and an entries call at once | finding 4 |
| `KvOnce` | violation | a client reads, then appends; two lost connections | finding 5 |

### Bounds

The bounds are constants; each one is a guard of the one action it limits.  In
`Raft`:

* `Elections` lists the `<<server, term>>` that may stand.  Rivalry needs two
  candidates of one term and one of a later term; a takeover needs a leader in
  each of two terms.  The sets are in `MCRaft`.
* `Rounds` limits the heartbeat rounds of a node with calls under way, not
  rounds in all: a round's number is free again when its calls are done.  Two
  rounds are enough for a counter to be overtaken by a newer one.
* `Proposals` lists the `<<term, index>>` at which `Start` may append.  Two
  entries of one leader make rounds with different ranges; one index in two
  terms makes a conflict.
* `SnapshotIndexes`: two indexes let a snapshot be behind, at, or ahead of what
  a peer has.
* `Appliers`: the nodes whose `applierTicker` runs; the others behave as if it
  never got the lock.
* `Lossy`: the peers to which calls may fail.
* Two commands are enough for `EntryUniqueness` and `SameCommands`, which
  compare two; they are interchangeable, so the safety runs use symmetry on
  them.  Liveness runs do not use symmetry.
* `RaftCompleteness` alone uses a constraint, `Scenario`, which leads the
  search along one history of four terms.  It only finds a behaviour; nothing is
  concluded from what it leaves out.

In `Rpc`:

* `Workloads` gives the calls: a Raft node's `RequestVote`, `AppendEntries` (with
  two entries, one of defaults) and `InstallSnapshot`, whose threads run at
  once, or a clerk's three, one after the other.  Two calls make an answer go
  astray; the third meets what the first two left.
* `RecvSize` is 64 in `Rpc`, and the 1024 of the code in `RpcAnswer`,
  where nothing is cut.  A clerk's value is of one byte, or as long as the buffer,
  so that the answer does not fit: the cut falls in the value at any size.
* `MaxConn`, five, lets three threads each replace the first connection and one of
  them a second time.  Where it is reached, `connect` fails, as it may anyway.  That
  would also end two threads that close each other's connections for ever, so
  `CallReturns` excepts them rather than show by the bound that they return.  `Faults`, one, is a crash, or a request
  in two pieces.  The first fault leads to every state of a connection.

In `Kv`:

* `Workloads` bounds everything: the operations of each client, the first leader,
  calls (repeated ones included), elections and lost connections.  The five
  workloads of the run are two updates of one client; an update and a Get of it
  with a clerk that starts at the wrong server; a client that updates while
  another reads; a client that reads and then updates; and one that updates, reads
  and updates, as `callerMain` does, without elections.  Three calls let a request be
  in the log twice or at two servers.  One election deposes a leader with handlers at every stage, and
  gives their indexes to another.
* The run is of `KeptSpec`: no connection is lost in a Get that an update of the same
  client follows (`ReadsKept`).  Where one is, the Get's handler may run late and the
  duplicate test fails (finding 5); `KvOnce` is of `Spec`, which has that too.
  Connections may be lost in every other call, and a Get may be repeated because its
  server did not lead or did not commit it.

Deadlock is not checked: under these bounds the system stops when elections
and proposals are used up and the leader is down.

### Fairness

`FairSpec` of `Rpc` is weak fairness of `CallMethod(t)` for every call, and of
`OnMessage` on some connection (of whichever has something to read): threads are scheduled, and what was written
arrives while the provider runs.  It is written as "infinitely often disabled
or infinitely often taken", with the enabling condition spelled out
(`CanStep`, `CanHandle`), which is the same formula and cheaper for TLC than
`ENABLED`.  Nothing is assumed of crashes and restarts.  `Kv` has no liveness
property: a clerk may retry for ever, and the bound on calls would decide.

`FairSpec` of `Raft` is used by `RaftApply` and `RaftStall`.

* Weak fairness of `DoHeartBeat`, `CollectApplyMsgs` and `PushApplyMsg`: the
  tickers are endless loops, and nothing in them waits for a peer.
* Strong fairness, per peer, of the handler `AppendEntries1` and of the thread
  that uses an answer: the leader calls the peer again with every round, and a
  broken connection is made again by the next call (`mprpcchannel.cc`), so a
  peer that is called for ever answers some of the calls.  A particular call
  may still be lost.
* Nothing is assumed of elections: `StartedEntryApplied` is about a leader that
  stays.

## 5. Findings

1. **Committed entries can be lost** (`RaftCompleteness`).  The comments at
   `raft.cpp:53` and `raft.cpp:799` say that a conflict cuts the log and that
   the commit rule gives leader completeness.  The loop at `raft.cpp:78`
   replaces the entry and keeps what follows.  A log can then end with an
   entry older than the ones before it, and `UpToDate` compares last entries:
   the node votes for a candidate that lacks a committed entry.
2. **A restarted node forgets its vote** (`RaftRestart`).  The comment at
   `raft.cpp:905` says the state from before a crash is restored; the
   `Persister` constructor truncates the files first (`Persister.cpp:60`).
3. **An entry that all nodes store may never commit** (`RaftStall`).  A round
   commits at the answer that completes the majority, if that call carried
   entries (`raft.cpp:804`).  With four nodes, one follower may take the entry
   in one round and the other two in the next; the empty answer of the
   first completes the majority of the second round and commits nothing.  All
   later rounds are empty.  With three nodes this cannot happen, as `RaftApply`
   shows: one answer completes the majority.

4. **A call may return another call's answer** (`RpcAnswer`).  The threads of a
   Raft node share one socket per peer.  The comment in `CallMethod`
   (`mprpcchannel.cc:101`) says that when the code behind the send returns, the
   provider has answered; the run has a new leader's `AppendEntries` take the
   answer to its own late vote request.  It parses, with `Success` where it said
   `VoteGranted`, and `sendAppendEntries` counts an entry as stored that the peer
   has not seen.
5. **An Append may be executed twice** (`KvOnce`).  `clerk.cpp:22` says that the
   server keeps repeated requests from being executed again.  A handler of Get
   writes the client's last request id without comparing (`kvServer.cpp:48`).
   A Get that was given up on after a lost connection, and whose handler is
   late, sets it back after the client's next Append; if that Append's answer is
   lost as well, its repetition is executed again.

## 6. Proofs

For `Raft`, `ServerAssumption` (a finite, non-empty set of servers),
`NilAssumption`, `RoundsAssumption` and `SubsetsAssumption` are all that is
assumed; for `Kv`, `ServersAssumption` (at least one server) and
`WorkloadsAssumption` (workloads are workloads); for `Rpc`, `BoundsAssumption`,
`WorkloadsAssumption` (arguments and replies are messages of their method's
classes) and `NamesAssumption` (the names of services and methods are strings:
they are literals, but the provers have no rule for that; TLC evaluates it).  Nothing depends on how many servers, terms, entries, rounds, commands,
clients, operations, calls, connections or faults there are, or on the size of a
message or of the receive buffer.

| Theorem | Module | Statement |
|---|---|---|
| `TypeCorrect` | `RaftProofs` | `Spec => []TypeOK` |
| `ContiguousAlways` | `RaftProofs` | `Spec => []Contiguous` |
| `CommitWithinLogAlways` | `RaftProofs` | `Spec => []CommitWithinLog` |
| `LastLogIndexStays` | `RaftProofs` | `Spec => LastLogIndexNeverFalls` |
| `VotesOnce` | `RaftElectionProofs` | `Spec => []OneVotePerTerm` |
| `ElectionSafe` | `RaftElectionProofs` | `Spec => []ElectionSafety` |
| `EntriesUnique` | `RaftElectionProofs` | `Spec => []EntryUniqueness` |
| `PromisesAlwaysPersisted` | `RaftElectionProofs` | `Spec => []PromisesPersisted` |
| `LeaderOnlyAppends` | `RaftReplicationProofs` | `Spec => LeaderAppendOnly` |
| `MatchInvariance` | `RaftReplicationProofs` | `Spec => []MatchInv` |
| `MatchIndexAlwaysSound` | `RaftReplicationProofs` | `Spec => []MatchIndexSound` |
| `AlwaysDeliveredInOrder` | `RaftDeliveryProofs` | `Spec => []DeliveredInOrder` |
| `NeverSkipped` | `RaftDeliveryProofs` | `Spec => []NothingSkipped` |
| `LeadsOnce` | `RaftLeaderProofs` | `Spec => [][no answer to a vote request ends a process]_vars` |
| `NoAssertionEverFails` | `RaftLeaderProofs` | `SnapshotIndexes = {}` implies `Spec => []NoAssertionFails` |
| `CommitAlwaysBacked` | `RaftLeaderProofs` | `SnapshotIndexes = {}` implies `Spec => []CommitBacked` |
| `TypeCorrect` | `KvProofs` | `Spec => []TypeOK` |
| `QueuesOwned` | `KvProofs` | `Spec => []QueueOwned` |
| `SInvAlways` | `KvProofs` | `KeptSpec => [](IInv /\ SInv)` |
| `ReplicasMatchLog` | `KvProofs` | `KeptSpec => []ReplicaMatchesLog` |
| `ServiceImplemented` | `KvProofs` | `KeptSpec => ImplementsService` |
| `AnswersReadBack` | `WireProofs` | every answer of every method: `Parse` of its `Serialize` is the answer |
| `RequestsReadBack` | `WireProofs` | every request of every method: `Parse` of its `Serialize` is the request |
| `ChannelInvariance` | `RpcProofs` | `Spec => [](OnceInv /\ ConnectionInv)` |
| `AlwaysHandledOnce` | `RpcProofs` | `Spec => []HandledOnce` |
| `AlwaysOwnAnswer` | `RpcProofs` | `Spec => []OwnAnswer` |
| `AlwaysWireSound` | `RpcProofs` | `Spec => []WireSound` |
| `ReadInvariance` | `RpcProofs` | `Spec => []ReadInv` |
| `AlwaysHandledAsSent` | `RpcProofs` | `Spec => []HandledAsSent` |
| `ChannelTypeOK` | `RpcProofs` | `Spec => []TypeOK` |
| `AlwaysResendsOnlyAfterEnd` | `RpcProofs` | `Spec => []ResendsOnlyAfterEnd` |
| `DueInvariance` | `RpcProofs` | `Spec => []DueInv` |
| `AlwaysNoCallStuck` | `RpcProofs` | `Spec => []NoCallStuck` |

**The invariant of logs** is
`IInv == TypeOK /\ Contiguous /\ CommitWithinLog /\ IndexBounds`.  `TypeOK` is
not inductive: `getApplyLogs` copies entries from `lastApplied` to
`commitIndex`, and they are entries only if `commitIndex` is inside the log.  It
is, because a leader commits at most what an acknowledged call covered, and
`IndexBounds` says that every call, reply and index table names positions that
the node that made the call has.  That stays true of late calls because no step
makes a log end earlier, and that is where `Contiguous` is needed: `MergeFacts`,
`AfterSnapshotFacts` and `LogStep` show what merges and snapshots make of a log
whose positions tell its indexes.

**The invariant of elections** is `VoteInv`: a vote is remembered in `votedFor`
while the voter stays in the term; a granted answer is a vote; the counter of a
node that voted for itself holds votes of its term; a leader has a majority of
votes.  The condition on `votedFor` is the point: `sendRequestVote` counts
without asking whether the node is still a candidate, and the counter may be
stale after a change of term, but no answer of the new term can come before the
node has voted for itself, which replaces the counter.  Two majorities share a
server (`MajoritiesMeet`).

**The invariant of entries** is `EntryInv`: the term of a stored entry was won
by a server whose log reaches the entry's index.  An entry is stored only if it
was before or `Start` makes it (`StoredOrigin`).  `Start` makes it above the end
of the leader's log; the leader won the term, nobody else did (`OneWinner`), and
its log has never been shorter (`LastLogIndexStays`), so whatever that term
already holds is below it (`StartedIsNew`).

**What is persisted** needs no new invariant but `VoteInv`: each action either ends
with `Persist` of its node or leaves the node's votes, log and snapshot alone
(`HandedOver`, `NothingToPersist`).  The one handler that changes durable state and
does not persist, `sendAppendEntries` on a larger term, only makes the term
larger; the promise of the old term stays behind it.

**The invariant of replication** is `MatchInv`.  A call is made by the winner of
its term (`CallsWon`); while the winner stays in the term, its log has what the
call carries (`CallsCopy`), since nobody else may write to it: a winner that
took entries in its own term would take them from a second winner
(`WinnerTakesNothing`).  A peer that acknowledges has merged the call into its
log (`LogMerged`), so peer and leader agree at the last index covered as long as
both stay in the term (`AcksSound`), and `matchIndex` is the largest such index
(`MatchesSound`), or a snapshot's, which the leader has cut its log at
(`SnapshotCallsOld`).  `AppendEntries1` of a later call in the term cannot undo it,
because that call is a copy of the same log.

**The invariant of delivery** is `DeliveryInv`, of one node at a time.  The ticker holds
consecutive commands, none past `lastApplied`.  The commands that were pushed are
below the first one it holds (or, when it holds none, not past `lastApplied`),
and everything below that was pushed, as a command or inside a snapshot.
Everything up to `lastApplied` was pushed or is held.  The detached second push of
a snapshot brings no command (the second conjunct), so it may come at any time.

**The invariant of ballots** is `BallotInv`.  `sendRequestVote` resets the counter when
it reaches a majority and asserts that the node does not lead; the answers still
to come go on counting from nothing.  They cannot reach a majority a second
time: a voter's answer is under way once (`BallotsOnce`) and not counted yet
(`CountedOnce`), so the voters that are outstanding and those counted since the
reset are the rest of the servers, which is less than a majority
(`NoSecondMajority`).

**The invariant of assertions** is `AssertInv`, for `SnapshotIndexes = {}`.  The program
never makes a snapshot (`Persister.cpp:58`: the size that asks for one is always
0), and without that hypothesis the theorem would be false: an entry before a
follower's snapshot ends the follower (`PrevInsideSnapshot`).  Then no snapshot
exists (`NoSnapshots`), calls start at the first entry (`FirstIndexes`: no hint is
below 1), and each assertion follows from an invariant above: the commands of an
index and term from `EntryInv`, the bounds from `IndexBounds`, the single victory
from `BallotInv`.

**The invariant of commits** is `CommitInv`, under the same hypothesis; with
snapshots a late answer of `leaderSendSnapShot` sets `matchIndex` back, and
`CommitBacked` with it.  `*appendNums` is shared by the calls of a round, all of
which cover the same range in one term (`RoundsAgree`); while such a call is
under way in its caller's present term, the caller leads (`CallsOfLeader`), so
`matchIndex` has not been restarted (`LeadsOnce`) and whom the counter counts it
knows of (`CountedMatch`).  That is the step from the counter to a majority.  A
node that has just won has no entry of its term (`EntriesOfLeader`), so what it
has committed before is not of its term.

**The invariant of `Kv`** is `TypeOK /\ QueueOwned /\ HasCalled`.  The two properties
need each other.  `TypeOK` says that a handler that waits has a queue; `Erase`
deletes the queue of the handler's index, and leaves every other handler its
own only if no two share an index, which is `QueueOwned`.  `Start` gives the index behind
the end of the server's log, and `TypeOK` says that all indexes in use are inside
it; neither `Elect` nor anything else makes a log shorter (`LogWithType`,
`RaftStep`), so an index is never given twice.  This is where `MergeEntries` not
cutting, the cause of finding 1, keeps a handler from reading a deleted queue:
the mutant `LogCut` shows it.  `HasCalled` is small: the clerk of a running
handler has called, so a repeated call is of an operation of its program.

**The invariant of the service** is `SInv`, of `KeptSpec`: clients may read and update
in any order, as `callerMain` does, and connections may be lost, but none in a Get that
an update of its client follows (`ReadsKept`).  For the workloads in which no
connection is lost at all, or in which no client updates after it has read,
`KeptSpec` is `Spec`.  Without the restriction `ReplicaMatchesLog` does not hold: the handler of
a `Get` that was given up runs late and sets `m_lastRequestId` back, a repeated
update then passes the duplicate test (finding 5, run `KvOnce`, whose client reads and
then appends), and later reads would return what no `KvService` holds.  Its parts:

* What is in a log is a request its client has come to (`CommandsAskedFor`), and
  only the last call of a clerk is for the operation under way (`CallsOnce`), so
  handlers of calls that were given up are known for what they are.
* A clerk goes on when its update is committed, so in every log the updates of a
  client before an operation are in front of it (`OneAfterTheOther`).  The clerk
  learns it from an answer `OK`, and a handler gives one for what it finds in its queue
  or what counts as a duplicate; both have been applied (`QueuesApplied`,
  `UpdatesAnswered`).
* The duplicate test compares ids only.  That this is the same as asking whether
  the update was applied is `LastRequests`: the last id of a client is not below an
  applied update of it, and every update up to it is applied.  A `Get` moves the id
  to its own, past updates the server has applied (`GetsAfter`) and to none before
  it.  Here `ReadsKept` is used (`LastAfterGet`): the handler of a Get is of its client's
  operation under way, or no update of its client comes after it
  (`GivenUpReadsLast`).  It is kept because a call that is answered ends its handler and a
  call that is given up has lost its connection.
* `Execute` therefore runs exactly the updates that are new in the log, and the map
  is their replay (`ReplicaKeeps`).  `FirstUpdates` and `Replay` are folds, which choose a
  recursive function: that it exists, is unique, and what one element more does
  to it is proved once for both (`FoldExists`, `FoldOf`, `FoldOneMore`), from
  `NatSet` below.
* A read is behind the updates that had taken effect when it was called, at any server
  that answers it (`ReadsRecent`), and its answer is the map of a moment since
  (`GetsAnswered`): reads only ever see prefixes of what took effect
  (`FirstUpdatesOfPrefix`).

The refinement maps what took effect to `FirstUpdates(chosen)` and a call to the
clerk's operation under way.  `Choose` is `TakeEffect` when it commits a new update (the
only one that can be new is its client's call under way) and nothing otherwise; the
first call of an operation is `Invoke`, the answer a clerk accepts is `ReturnUpdate` or
`ReturnGet`, and every other step of clerks, handlers, leaders and apply loops is
a stutter (`ServiceNext`).

**What is read back** (`WireProofs`) is proved of any class, which is a sequence of
fields of different names, and of any message of it (`AllWritten`, `ReadsBack`,
`ReadsMerged`).  `FlattenSeq` and `FoldLeft` choose a recursive function; that it
exists, and what it computes, is shown by induction, and since the library's
induction theorems take an operator, which no prover here instantiates, `NatSet`
derives induction for a set of numbers in place of a predicate from the
well-foundedness of `<`.

* A stream of a class is pairs of a tag and a value that any message of the class can
  take (`Goods`).  Streams one behind the other are one, their bytes add up
  (`TotalConcat`), and reading it is reading the second into what the first gave
  (`ReadConcat`).  So a field can be proved at a time: `FieldWritten` says of one field
  that its cells have the bytes announced and merge its value into any message;
  `FieldsWritten` puts the fields of a message together.
* A repeated field is written an element at a time, and an element is a message of its
  own inside a value: `EntryFacts` is the theorem for that class, `EntriesWritten` the
  induction over the elements.  An entry of defaults has no cells, and still is a tag and a
  length, which keeps it from being lost; the mutant `EntriesCellsNoEmpty` shows it.
* A cut takes the cells that fit and tears the next one (`CutFacts`).  Of two streams
  one behind the other, a cut is one of the first (`CutBefore`) or all of the first and
  one of the second (`CutPast`), and what holds a torn cell is not whole fields
  (`TornNotWhole`).

**The invariant of requests** is `OnceInv`.  Until its `Send` a call has no request under
way and was not handled; its request waits on one connection at one place
(`WaitsOnce`), and while it waits it has not been handled (`WaitsUnhandled`).  A
handler runs only on bytes that begin with a size (`DispatchKinds`), and bytes
begin with one only if the first request of the queue was taken from its start
(`BytesBegin`): the rest of a request that arrived in pieces is never taken for a
request.  A failed send is repeated only because what failed has put nothing on
the way.

**The invariant of own answers** is `OwnInv`, with `ConnectionInv`: connections are used in
order, so that a new one is not met by anybody's old bytes (`FreshUnused`).  A call
that waits and is not disturbed is alone (`WaitsAlone`): no other call waits on its
connection, all requests there are its own, and the stream back holds nothing or
the bytes of its own answer, once.  Then one read that is not cut gives exactly
these bytes (`ReceivedWhole`, from `CutAll`), and they parse to the answer
(`AnswersReadBack`).  A send or a receive on a connection where this would fail puts
the call among the disturbed ones in the same step (`NotDisturbed`).  The
alternative of `OwnAnswer`, defaults from a connection that has ended, stays true
because an ended connection is not opened again (`EndedStays`).

**The invariant of what is read** is `ReadInv`.  `HandledAsSent` and the types are about
bytes: `OnMessage` takes a size, that many bytes of header, and the size the header names
of arguments, from whatever its buffer holds.  A queue holds requests as they were
written, or the rest of one (`OwnBytes`), so what is read begins with a size cell,
and each cut falls between the parts because the class announced what it wrote
(`RequestParts`, `AlwaysWireSound`); the requests behind it in the buffer change nothing
(`DispatchWhole`).  That is `HandledAsSent`.

Of a request that arrived in part, the arguments may be cut.  Then `ParseFromString`
fails, unless the cut was between two fields, and the fields before it are still
a message of the class (`DispatchPart`); that is why `HandledAsSent` excepts
`pieces` and `TypeOK` does not.  A caller may read worse: the rest of an answer of
another method, or several answers as one.  But what is on a connection is always
cells of answers in which every tag has its value behind it (`Answers`, `Stream`): it may
begin inside a field, and a read that ends inside one leaves a torn cell.
`Stream` names no class; a tag of the wrong type or of a number the class does not
have is skipped, so a stream of any answers that is read whole gives a message of
the reader's class (`StreamParses`), which would be false of a class with a repeated
field.  No answer has one (`MethodClasses`).

**The invariant of what is due** is `DueInv`.  `NoCallStuck` says of a call that waits
alone that somebody has a step to take for it.  On a connection that has ended the
caller has (`recv` returns), so the question is what an open one holds: the request,
or an answer, unless the answer has no bytes (`NothingLost`).  Four facts keep that true.
An open connection means a provider that runs, because ending closes them all
(`OpenWhileUp`).  A send on an open connection leaves the request there whole
(`SendAppends`).  What is read from its first byte is handled, whatever came with it: the
announced sizes fit, so `OnMessage` neither drops it nor throws (`DispatchWhole`,
`OnMessageTakes`).  And what is on a queue and is no request belongs to a call that
counts as disturbed (`RestDisturbs`), so a call that is alone never waits behind it.
Which step follows, and that it does, is the liveness half, `CallReturns`.

**The invariant of resending** is `ResendInv`.  A call that is about to send and is not
disturbed finds an open connection at `m_clientFd`, its own or another, as long as the one
it found or made is open (`LiveToSend`): whoever closes what is there or writes over it
deprives the call in the same step (`Deprived`).  So its send is refused only when the
provider has ended the connection it had.

All safety properties that passing runs check are proved, of `Raft`, of `Kv` and of
`Rpc`: `NoAssertionFails` and `CommitBacked` without snapshots, as their runs check
them (with snapshots neither need hold), and `ReplicaMatchesLog` and the refinement of
`KeptSpec`.  Only model-checked are the two liveness properties,
`StartedEntryApplied` and `CallReturns`: the prover handles neither fairness nor
`ENABLED`.
`RaftRestart` has no proofs; what it checks does not hold.

## 7. What is not modelled, and the plan

`LeaderCompleteness`, `ExecutedOnce` and `AnsweredBeforeReturn` do not hold and
have no theorem.

Not modelled:

* **Snapshots of the service** (`MakeSnapShot`, `GetSnapShotFromRaft`,
  `ReadSnapShotToInstall`).  The size that would ask for one is set to 0 and never
  changed (`Persister.cpp:58`), so the program makes none.  `Raft` has snapshots
  all the same, at any index the service has received.
* **Discovery of peers.**  Nodes append their address to a file and read it
  after a fixed sleep, and start a second apart; what can go wrong depends on
  seconds.  So does a process that is called before `Raft::init` (section 2).
* **Client ids.**  `Uuid` draws from an unseeded generator, so all clerks have the
  same id.  `Kv` gives each its own; with equal ids every clerk but one would have
  its requests taken for duplicates.
* **Time.**  Timers, sleeps and the pace of the I/O threads: a ticker may run, a
  wait may time out, and a handler may start, at any moment.
* **The streams of `Persister`.**  What several saves leave in the files is
  never read: the constructor truncates them before anything reads.
* **Of the generated code:** copying, swapping, arenas, reflection and unknown
  fields, which nothing here uses.  The functions in `Wire` are not written once
  per class: a class is its list of fields, and the map names the lines of each.
* The programs in `test/`, which try out library features.
