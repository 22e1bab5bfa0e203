--------------------------------- MODULE Rpc ---------------------------------
(***************************************************************************)
(* One channel of the RPC framework: class MprpcChannel of the caller,     *)
(* class RpcProvider of the peer, and the connections between them.        *)
(*                                                                         *)
(* The threads of a process that call the same peer share one channel and  *)
(* its socket, m_clientFd, and nothing orders what they do to it: a call   *)
(* is the steps of CallMethod between which another may run.  The provider *)
(* serves a connection in one thread, so a request is read, handled and    *)
(* answered in one step.  A stream keeps what was written and loses where  *)
(* one message ended: a read takes whatever has arrived.                   *)
(***************************************************************************)
EXTENDS Wire

CONSTANTS
  Call,        \* the calls made on the channel
  Workloads,   \* bound: what they are, one of these: a method, its arguments, the
               \* answers a handler may give, and the calls to return before it starts
  RecvSize,    \* the bytes one recv takes at most: 1024 in CallMethod
  MaxConn,     \* bound: connections ever made
  Faults       \* bound: crashes of the provider, and requests that arrive in pieces

ASSUME BoundsAssumption == {RecvSize, MaxConn} \subseteq Nat \ {0} /\ Faults \in Nat

ASSUME WorkloadsAssumption ==
  \A w \in Workloads : \A t \in Call :
    /\ w[t].method \in RaftMethods \cup KvMethods
    /\ IsRequest(w[t].method, w[t].args)
    /\ \A r \in w[t].replies : IsResponse(w[t].method, r)

VARIABLES
  workload,    \* the element of Workloads that is run
  pc,          \* where each call is in CallMethod
  response,    \* the message of a call that has returned without failure
  clientFd,    \* m_clientFd: a connection, ClosedFd, or NoFd
  fd,          \* the descriptor a call last found, made, or gave to send or recv
  up,          \* the provider's process runs
  link,        \* per connection: unused, open, or ended by the provider (eof, reset)
  toServer,    \* per connection: requests written and not yet read
  toClient,    \* per connection: answers written and not yet read
  crashes,     \* crashes so far
  pieces,      \* the calls whose request arrived in two pieces
  handled,     \* history: per call, what reached a handler and what it answered
  disturbed    \* history: calls that had not a connection to themselves (Sharing, Deprived)

callerVars == <<pc, response, clientFd, fd>>
serverVars == <<up, crashes, pieces, handled>>
vars == <<workload, callerVars, serverVars, link, toServer, toClient, disturbed>>

NoFd == -1
ClosedFd == 0   \* the number of a connection that has been closed
Conn == 1..MaxConn
Live(n) == IF n \in Conn THEN link[n] = "open" ELSE FALSE
Fresh == 1 + Cardinality({c \in Conn : link[c] # "unused"})
Returned(t) == pc[t] \in {"ok", "failed"}

\* The channels between Raft nodes connect at construction and try four times,
\* a clerk's connects with its first call.
ConnectsNow == \A t \in Call : workload[t].method \in RaftMethods

Init ==
  /\ workload \in Workloads
  /\ up \in BOOLEAN
  /\ clientFd = IF up /\ ConnectsNow THEN 1 ELSE NoFd
  /\ link = [c \in Conn |-> IF c = clientFd THEN "open" ELSE "unused"]
  /\ pc = [t \in Call |-> "idle"]
  /\ response = [t \in Call |-> <<>>]
  /\ fd = [t \in Call |-> NoFd]
  /\ toServer = [c \in Conn |-> <<>>] /\ toClient = [c \in Conn |-> <<>>]
  /\ crashes = 0 /\ pieces = {}
  /\ handled = [t \in Call |-> <<>>]
  /\ disturbed = {}

-----------------------------------------------------------------------------
(* The caller *)

\* Mutant of RpcHeaderOf: the size is counted in fields.
RpcHeaderOfFields(call, args) ==
  [service_name |-> ServiceOf(call.method), method_name |-> <<call.method>>,
   args_size |-> Len(args)]

RpcHeaderOf(call, args) ==
  [service_name |-> ServiceOf(call.method), method_name |-> <<call.method>>,
   args_size |-> TotalSize(args)]

\* The bytes of a request: the size of the header, the header, the arguments.
RequestBytes(call) ==
  LET args   == Serialize(RequestFields(call.method), call.args)
      header == Serialize(RpcHeaderFields, RpcHeaderOf(call, args))
  IN  <<Cell("size", TotalSize(header), 4)>> \o header \o args

SendRpcStr == [w \in Workloads |-> [t \in Call |-> RequestBytes(w[t])]]

\* History: the calls that t meets on connection c, itself included; an answer
\* an earlier call has left there, or is still to get, counts as one.
Sharing(t, c) ==
  LET others == {u \in Call \ {t} : pc[u] \in {"sent", "receiving"} /\ fd[u] = c}
  IN  IF others # {} \/ toServer[c] # <<>> \/ toClient[c] # <<>> THEN others \cup {t} ELSE {}

Return(t, outcome, m) ==
  pc' = [pc EXCEPT ![t] = outcome] /\ response' = [response EXCEPT ![t] = m]

\* History: the calls that t takes a live connection from when it writes n over
\* m_clientFd, or closes it: they are about to send on it.
Deprived(t, n) ==
  IF Live(clientFd) /\ ~Live(n) THEN {u \in Call \ {t} : pc[u] = "sending"} ELSE {}

SetClientFd(t, n) == clientFd' = n /\ disturbed' = disturbed \cup Deprived(t, n)

Start(t) ==
  /\ pc[t] = "idle"
  /\ \A u \in workload[t].after : Returned(u)
  /\ pc' = [pc EXCEPT ![t] = IF clientFd = NoFd THEN "connecting" ELSE "sending"]
  /\ fd' = [fd EXCEPT ![t] = clientFd]
  /\ UNCHANGED <<workload, response, clientFd, serverVars, link, toServer, toClient, disturbed>>

\* Mutant of Connect: what connect() returns is not looked at.
ConnectUnchecked(t) ==
  /\ pc[t] = "connecting"
  /\ Fresh \in Conn
  /\ link' = [link EXCEPT ![Fresh] = IF up THEN "open" ELSE @]
  /\ fd' = [fd EXCEPT ![t] = Fresh]
  /\ pc' = [pc EXCEPT ![t] = "connected"]
  /\ UNCHANGED <<workload, response, clientFd, serverVars, toServer, toClient, disturbed>>

\* newConnect up to connect(), which fails when no process listens; it may fail
\* for other reasons, and does where MaxConn is reached.
Connect(t) ==
  /\ pc[t] = "connecting"
  /\ IF up /\ Fresh \in Conn
       THEN /\ link' = [link EXCEPT ![Fresh] = "open"]
            /\ fd' = [fd EXCEPT ![t] = Fresh]
            /\ pc' = [pc EXCEPT ![t] = "connected"]
       ELSE /\ pc' = [pc EXCEPT ![t] = "failing"]
            /\ UNCHANGED <<fd, link>>
  /\ UNCHANGED <<workload, response, clientFd, serverVars, toServer, toClient, disturbed>>

\* Mutant of Connected: the new descriptor is not stored.
ConnectedUnstored(t) ==
  /\ pc[t] = "connected"
  /\ SetClientFd(t, NoFd)
  /\ pc' = [pc EXCEPT ![t] = "sending"]
  /\ UNCHANGED <<workload, response, fd, serverVars, link, toServer, toClient>>

\* The end of newConnect: it writes m_clientFd whatever another thread has put
\* there since.
Connected(t) ==
  /\ pc[t] = "connected"
  /\ SetClientFd(t, fd[t])
  /\ pc' = [pc EXCEPT ![t] = "sending"]
  /\ UNCHANGED <<workload, response, fd, serverVars, link, toServer, toClient>>

\* A send on a connection the provider has closed succeeds; the bytes are gone,
\* and the answer to it is a reset, which may come later than the next recv.
Send(t) ==
  /\ pc[t] = "sending"
  /\ IF clientFd \in Conn THEN link[clientFd] # "reset" ELSE FALSE
  /\ fd' = [fd EXCEPT ![t] = clientFd]
  /\ pc' = [pc EXCEPT ![t] = "sent"]
  /\ disturbed' = disturbed \cup Sharing(t, clientFd)
  /\ IF Live(clientFd)
       THEN /\ toServer' = [toServer EXCEPT ![clientFd] =
                              Append(@, [call |-> t, cells |-> SendRpcStr[workload][t]])]
            /\ UNCHANGED link
       ELSE /\ \E how \in {"eof", "reset"} : link' = [link EXCEPT ![clientFd] = how]
            /\ UNCHANGED toServer
  /\ UNCHANGED <<workload, response, clientFd, serverVars, toClient>>

\* send returns -1.
SendFails(t) ==
  /\ pc[t] = "sending"
  /\ IF clientFd \in Conn THEN link[clientFd] = "reset" ELSE TRUE
  /\ pc' = [pc EXCEPT ![t] = "sendFailed"]
  /\ UNCHANGED <<workload, response, clientFd, fd, serverVars, link, toServer, toClient, disturbed>>

\* close(m_clientFd), after a send or a recv has failed.  It closes what is there
\* now, which may be a connection another thread has just made.
Close(t) ==
  /\ pc[t] \in {"sendFailed", "recvFailed"}
  /\ SetClientFd(t, IF clientFd = NoFd THEN NoFd ELSE ClosedFd)
  /\ pc' = [pc EXCEPT ![t] = IF @ = "sendFailed" THEN "clearing" ELSE "failing"]
  /\ UNCHANGED <<workload, response, fd, serverVars, link, toServer, toClient>>

\* m_clientFd = -1; a call whose send had failed connects and sends again.
Clear(t) ==
  /\ pc[t] = "clearing"
  /\ SetClientFd(t, NoFd)
  /\ pc' = [pc EXCEPT ![t] = "connecting"]
  /\ UNCHANGED <<workload, response, fd, serverVars, link, toServer, toClient>>

\* m_clientFd = -1 and return: newConnect or recv has failed.
Fail(t) ==
  /\ pc[t] = "failing"
  /\ SetClientFd(t, NoFd)
  /\ Return(t, "failed", <<>>)
  /\ UNCHANGED <<workload, fd, serverVars, link, toServer, toClient>>

\* recv is called with what m_clientFd is then, which another thread may have
\* replaced or closed since the send.
BeginRecv(t) ==
  /\ pc[t] = "sent"
  /\ IF clientFd \in Conn
       THEN /\ pc' = [pc EXCEPT ![t] = "receiving"]
            /\ fd' = [fd EXCEPT ![t] = clientFd]
            /\ disturbed' = disturbed \cup (IF fd[t] = clientFd THEN {}
                                            ELSE {t} \cup Sharing(t, clientFd))
       ELSE /\ pc' = [pc EXCEPT ![t] = "recvFailed"]
            /\ disturbed' = disturbed \cup {t}
            /\ UNCHANGED fd
  /\ UNCHANGED <<workload, response, clientFd, serverVars, link, toServer, toClient>>

\* What one recv gives when the first k answers on the stream have arrived, and
\* what stays on the stream.
Received(c, k) ==
  LET cut == Cut(FlattenSeq(SubSeq(toClient[c], 1, k)), RecvSize)
  IN  [cells |-> cut.head, cut |-> cut.tail # <<>>,
       left  |-> (IF cut.tail = <<>> THEN <<>> ELSE <<cut.tail>>)
                   \o SubSeq(toClient[c], k + 1, Len(toClient[c]))]

\* How ParseFromArray can end.  Bytes that start inside a field read as anything.
Outcomes(t, cells) ==
  LET fields == ResponseFields(workload[t].method)
      Ok(m)  == [outcome |-> "ok", response |-> m]
      fails  == [outcome |-> "failed", response |-> <<>>]
  IN  IF Whole(cells) THEN {Ok(Parse(fields, cells))}
      ELSE IF cells[1].part = "tag" THEN {fails}
      ELSE {fails} \cup {Ok(m) : m \in workload[t].replies \cup {Cleared(fields)}}

\* recv returns what has arrived: one answer, several, or the part that fits.
\* A failure to parse keeps the connection.
Receive(t) ==
  /\ pc[t] = "receiving"
  /\ \E got \in {Received(fd[t], k) : k \in 1..Len(toClient[fd[t]])} :
       /\ \E o \in Outcomes(t, got.cells) : Return(t, o.outcome, o.response)
       /\ toClient' = [toClient EXCEPT ![fd[t]] = got.left]
       /\ disturbed' = IF got.cut THEN disturbed \cup {t} ELSE disturbed
  /\ UNCHANGED <<workload, clientFd, fd, serverVars, link, toServer>>

\* The provider has closed the connection: recv returns 0, which is no error,
\* and an empty array parses as a message of defaults.
RecvEof(t) ==
  /\ pc[t] = "receiving"
  /\ toClient[fd[t]] = <<>> /\ link[fd[t]] = "eof"
  /\ Return(t, "ok", Cleared(ResponseFields(workload[t].method)))
  /\ UNCHANGED <<workload, clientFd, fd, serverVars, link, toServer, toClient, disturbed>>

\* recv returns -1.
RecvError(t) ==
  /\ pc[t] = "receiving"
  /\ toClient[fd[t]] = <<>> /\ link[fd[t]] = "reset"
  /\ pc' = [pc EXCEPT ![t] = "recvFailed"]
  /\ UNCHANGED <<workload, response, clientFd, fd, serverVars, link, toServer, toClient, disturbed>>

-----------------------------------------------------------------------------
(* The provider *)

\* What OnMessage makes of the bytes it takes: a request for a handler, or
\* nothing at all, or the end of the process where substr starts behind the end.
\* Bytes behind the arguments are not looked at.
Throws  == [is |-> "throws"]
Dropped == [is |-> "dropped"]

DispatchArgs(method, args) ==
  IF Whole(args)
    THEN [is |-> "request", args |-> Parse(RequestFields(method), args)]
    ELSE Dropped

\* Mutant of DispatchHeader: the arguments are the last bytes of the buffer.
DispatchHeaderAtEnd(size, header) ==
  IF ~Whole(header.head) THEN {Dropped}
  ELSE IF TotalSize(header.head) < size THEN {Throws}
  ELSE {LET skipped == TotalSize(header.tail) - h.args_size
        IN  IF skipped < 0 THEN Throws
            ELSE DispatchArgs(h.method_name[1], Cut(header.tail, skipped).tail) :
          h \in {Parse(RpcHeaderFields, header.head)}}

DispatchHeader(size, header) ==
  IF ~Whole(header.head) THEN {Dropped}
  ELSE IF TotalSize(header.head) < size THEN {Throws}
  ELSE UNION {{DispatchArgs(h.method_name[1], args) : args \in {Cut(header.tail, h.args_size).head}} :
                h \in {Parse(RpcHeaderFields, header.head)}}

Dispatch(bytes) ==
  CASE bytes[1].part = "size" ->
         UNION {DispatchHeader(bytes[1].value, header) :
                  header \in {Cut(Tail(bytes), bytes[1].value)}}
    [] bytes[1].part = "rest" -> {Throws, Dropped}
    [] OTHER -> {Throws}

\* Mutant of Ends: nobody closes the connections.
EndsSilently ==
  /\ up' = FALSE
  /\ toServer' = [c \in Conn |-> <<>>]
  /\ UNCHANGED <<link, toClient>>

\* The process ends: its connections end, some with what they had not read.  Of
\* the answers the last of a connection may not have been sent: the handler has
\* run, and SendRpcResponse has not.
Ends ==
  /\ up' = FALSE
  /\ \E how \in {"eof", "reset"} :
       link' = [c \in Conn |-> IF link[c] = "open" THEN how ELSE link[c]]
  /\ toServer' = [c \in Conn |-> <<>>]
  /\ \E unsent \in SUBSET {c \in Conn : link[c] = "open" /\ toClient[c] # <<>>} :
       toClient' = [c \in Conn |-> IF c \in unsent THEN Front(toClient[c]) ELSE toClient[c]]

\* The handler runs and its answer is sent; an answer of defaults has no bytes.
SendRpcResponse(c, t, r) ==
  LET cells == Serialize(ResponseFields(workload[t].method), r) IN
  toClient' = [toClient EXCEPT ![c] = IF cells = <<>> THEN @ ELSE Append(@, cells)]

Handle(c, t, bytes, left) ==
  \E d \in Dispatch(bytes) :
    CASE d.is = "request" ->
           /\ \E r \in workload[t].replies :
                /\ handled' = [handled EXCEPT ![t] = Append(@, [args |-> d.args, reply |-> r])]
                /\ SendRpcResponse(c, t, r)
           /\ toServer' = [toServer EXCEPT ![c] = left]
           /\ UNCHANGED <<up, crashes, link>>
      [] d.is = "dropped" ->
           /\ toServer' = [toServer EXCEPT ![c] = left]
           /\ UNCHANGED <<up, crashes, link, handled, toClient>>
      [] d.is = "throws" ->
           /\ Ends
           /\ UNCHANGED <<crashes, handled>>

\* Mutant of Unread: the buffer is read and not emptied.
UnreadAll(c, k) == toServer[c]

\* OnMessage takes everything that has arrived, k requests here, as one.
Unread(c, k) == SubSeq(toServer[c], k + 1, Len(toServer[c]))

OnMessage(c) ==
  /\ up
  /\ \E k \in 1..Len(toServer[c]) :
       \E bytes \in {FlattenSeq([i \in 1..k |-> toServer[c][i].cells])} :
         Handle(c, toServer[c][1].call, bytes, Unread(c, k))
  /\ UNCHANGED <<workload, callerVars, pieces, disturbed>>

\* Only the first n bytes of a request have arrived; what comes later is taken
\* for a request of its own.
OnPartOfMessage(c) ==
  /\ up
  /\ crashes + Cardinality(pieces) < Faults
  /\ toServer[c] # <<>>
  /\ LET t     == toServer[c][1].call
         cells == toServer[c][1].cells
     IN  /\ cells[1].part = "size"
         /\ \E bytes \in {Cut(cells, n).head : n \in 1..(TotalSize(cells) - 1)} :
              Handle(c, t, bytes,
                     <<[call |-> t, cells |-> <<Cell("rest", <<>>, 1)>>]>> \o Unread(c, 1))
         /\ pieces' = pieces \cup {t}
         /\ disturbed' = disturbed \cup {t}
  /\ UNCHANGED <<workload, callerVars>>

Crash ==
  /\ up
  /\ crashes + Cardinality(pieces) < Faults
  /\ crashes' = crashes + 1
  /\ Ends
  /\ UNCHANGED <<workload, callerVars, pieces, handled, disturbed>>

Restart ==
  /\ ~up
  /\ up' = TRUE
  /\ UNCHANGED <<workload, callerVars, crashes, pieces, handled, link, toServer, toClient, disturbed>>

-----------------------------------------------------------------------------
CallMethod(t) ==
  \/ Start(t) \/ Connect(t) \/ Connected(t) \/ Send(t) \/ SendFails(t)
  \/ BeginRecv(t) \/ Receive(t) \/ RecvEof(t) \/ RecvError(t)
  \/ Close(t) \/ Clear(t) \/ Fail(t)

Next ==
  \/ \E t \in Call : CallMethod(t)
  \/ \E c \in Conn : OnMessage(c) \/ OnPartOfMessage(c)
  \/ Crash
  \/ Restart

Spec == Init /\ [][Next]_vars

\* When CallMethod(t) and OnMessage(c) are enabled.
CanStep(t) ==
  CASE pc[t] = "idle"      -> \A u \in workload[t].after : Returned(u)
    [] pc[t] = "receiving" -> toClient[fd[t]] # <<>> \/ link[fd[t]] # "open"
    [] OTHER               -> ~Returned(t)

CanHandle(c) == up /\ toServer[c] # <<>>

\* Threads are scheduled, and what was written on a connection arrives: weak
\* fairness of CallMethod(t), and of OnMessage on some connection, with ENABLED
\* written out.
FairSpec ==
  /\ Spec
  /\ \A t \in Call : []<>(~CanStep(t)) \/ []<><<CallMethod(t)>>_vars
  /\ []<>(\A c \in Conn : ~CanHandle(c)) \/ []<><<\E c \in Conn : OnMessage(c)>>_vars

-----------------------------------------------------------------------------
(* Properties *)

\* Type invariant.  A message a handler or a caller gets has the fields and types
\* of the class it asked for, also when the bytes were written from another class.
TypeOK ==
  /\ pc \in [Call -> {"idle", "connecting", "connected", "sending", "sent", "receiving",
                      "sendFailed", "recvFailed", "clearing", "failing", "ok", "failed"}]
  /\ \A t \in Call : IF pc[t] = "ok" THEN IsResponse(workload[t].method, response[t])
                     ELSE response[t] = <<>>
  /\ \A t \in Call : \A i \in DOMAIN handled[t] : IsRequest(workload[t].method, handled[t][i].args)
  /\ clientFd \in Conn \cup {ClosedFd, NoFd}
  /\ fd \in [Call -> Conn \cup {ClosedFd, NoFd}]
  /\ link \in [Conn -> {"unused", "open", "eof", "reset"}]
  /\ clientFd \in Conn => link[clientFd] # "unused"
  /\ up \in BOOLEAN /\ pieces \subseteq Call /\ crashes + Cardinality(pieces) \in 0..Faults
  /\ disturbed \subseteq Call

\* What the generated classes write, they read back as it was, and as many bytes
\* as they announced; and two messages of a class read as one are the second
\* merged into the first, which is what a call gets that reads two answers.  The
\* messages stay what they are, so it is asked where no call has begun.
WireSound ==
  (\A t \in Call : pc[t] = "idle") => \A t \in Call :
    LET method == workload[t].method
        args   == workload[t].args
        header == RpcHeaderOf(workload[t], Serialize(RequestFields(method), args))
        Sound(fields, m) ==
          LET cells == Serialize(fields, m) IN
          /\ Whole(cells) /\ Parse(fields, cells) = m
          /\ TotalSize(cells) = ByteSizeLong(fields, m)
        Merges(fields, m, n) ==
          Parse(fields, Serialize(fields, m) \o Serialize(fields, n)) = MergeFrom(fields, m, n)
    IN  /\ header \in RpcHeader /\ Sound(RpcHeaderFields, header)
        /\ Sound(RequestFields(method), args)
        /\ \A r \in workload[t].replies : Sound(ResponseFields(method), r)
        /\ \A r1, r2 \in workload[t].replies : Merges(ResponseFields(method), r1, r2)
        /\ Merges(RequestFields(method), args, args)

\* A request is handed to a handler at most once, however often the caller had to
\* connect and send, in however many pieces it arrived, and whatever came with it.
HandledOnce == \A t \in Call : Len(handled[t]) <= 1

\* What a handler gets are the arguments that were sent, also when the request
\* arrived together with another; only one that arrived in pieces is not covered.
HandledAsSent ==
  \A t \in Call \ pieces :
    \A i \in DOMAIN handled[t] : handled[t][i].args = workload[t].args

\* A call that had its connection to itself returns its own answer, if it
\* returns without failure: no timing of crashes, reconnections and reads gives
\* it another's or a part of one.  What it may get instead, when the provider
\* ended, is a message of defaults.
OwnAnswer ==
  \A t \in Call :
    pc[t] = "ok" /\ t \notin disturbed =>
      \/ handled[t] # <<>> /\ handled[t][1].reply = response[t]
      \/ link[fd[t]] # "open" /\ response[t] = Cleared(ResponseFields(workload[t].method))

\* The handler answered with a message of defaults, which has no bytes.
AnswerIsEmpty(t) ==
  /\ handled[t] # <<>>
  /\ Serialize(ResponseFields(workload[t].method), handled[t][1].reply) = <<>>

\* A call that had its connection to itself never waits for what nobody will do:
\* its recv can return, or the provider has something to read from it, unless the
\* answer has no bytes.  No request is lost by how it was announced, cut or taken
\* with others, and no end of the provider leaves a connection open.
NoCallStuck ==
  \A t \in Call \ disturbed :
    pc[t] = "receiving" => CanStep(t) \/ CanHandle(fd[t]) \/ AnswerIsEmpty(t)

\* A call whose connection nobody takes away sends again only after the provider
\* has ended the connection it had found or made: the loop around send goes on no
\* longer than the provider keeps ending.  (Two calls whose sends have failed may
\* close each other's new connections without end; that is what Deprived records.)
ResendsOnlyAfterEnd ==
  \A t \in Call \ disturbed : pc[t] = "sendFailed" => ~Live(fd[t])

\* A call that had its connection to itself returns, unless the answer is a
\* message of defaults, which is never sent: no crash, no reset and no failed
\* connection leaves it waiting.
CallReturns ==
  \A t \in Call : pc[t] # "idle" ~> Returned(t) \/ t \in disturbed \/ AnswerIsEmpty(t)

\* What the comment in CallMethod says of the recv: when it returns, the provider
\* has handled the request and returned its answer.
AnsweredBeforeReturn ==
  \A t \in Call : pc[t] = "ok" => handled[t] # <<>>

=============================================================================
