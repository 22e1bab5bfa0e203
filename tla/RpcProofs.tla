------------------------------ MODULE RpcProofs ------------------------------
(***************************************************************************)
(* One channel, for any calls, connections and faults: a request reaches a *)
(* handler at most once and with the arguments that were sent, a call that *)
(* had its connection to itself gets its own answer and never waits for    *)
(* what nobody will do, and whatever a stream is cut into, handlers and    *)
(* callers get messages of their class.                                    *)
(***************************************************************************)
EXTENDS Rpc, WireProofs

-----------------------------------------------------------------------------
(* Requests *)

\* A request is written as its size and more.
LEMMA RequestBegins ==
  ASSUME NEW w \in Workloads, NEW t \in Call
  PROVE  /\ IsSeq(RequestBytes(w[t])) /\ Len(RequestBytes(w[t])) >= 1
         /\ RequestBytes(w[t])[1].part = "size"
<1> DEFINE args   == Serialize(RequestFields(w[t].method), w[t].args)
           header == Serialize(RpcHeaderFields, RpcHeaderOf(w[t], args))
           first  == <<Cell("size", TotalSize(header), 4)>>
<1>1. IsSeq(args)
  BY WorkloadsAssumption, RequestsReadBack
<1>2. IsSeq(header)
  <2>1. IsSeq(RpcHeaderFields)
    BY TupleIsSeq, Zenon DEF RpcHeaderFields
  <2>2. \A i \in DOMAIN RpcHeaderFields : RpcHeaderFields[i].kind # "entries"
    BY DEF RpcHeaderFields, Int32, Bytes
  <2> QED
    BY <2>1, <2>2, SerializeSeq
<1>3. RequestBytes(w[t]) = first \o header \o args
  BY DEF RequestBytes
<1>4. IsSeq(first) /\ Len(first) = 1 /\ first[1].part = "size"
  BY TupleIsSeq DEF Cell
<1> HIDE DEF args, header, first
<1>5. IsSeq(first \o header) /\ Len(first \o header) >= 1 /\ (first \o header)[1] = first[1]
  BY <1>2, <1>4, ConcatSeq
<1>6. /\ IsSeq((first \o header) \o args) /\ Len((first \o header) \o args) >= 1
      /\ ((first \o header) \o args)[1] = (first \o header)[1]
  BY <1>1, <1>5, ConcatSeq
<1> QED
  BY <1>3, <1>4, <1>5, <1>6

-----------------------------------------------------------------------------
(* Requests that wait, and requests that were handled *)

\* What stays of a request that is read in pieces; see Rpc's OnPartOfMessage.
RestCells == <<Cell("rest", <<>>, 1)>>

\* What is on the way to the provider.
Written == [call : Call, cells : {RequestBytes(workload[t]) : t \in Call} \cup {RestCells}]

\* Where a call is.
States == {"idle", "connecting", "connected", "sending", "sent", "receiving",
           "sendFailed", "recvFailed", "clearing", "failing", "ok", "failed"}

\* The types the proofs of requests need.
ChannelTypes ==
  /\ workload \in Workloads
  /\ pc \in [Call -> States]
  /\ toServer \in [Conn -> Seq(Written)]
  /\ handled = [t \in Call |-> handled[t]]

\* The i-th element of a queue is the request of t, from its first byte.
Waits(q, t, i) == i \in DOMAIN q /\ q[i].call = t /\ q[i].cells[1].part = "size"

\* A call that has written nothing yet.
Unwritten(t) ==
  pc[t] \in {"idle", "connecting", "connected", "sending", "sendFailed", "clearing"}

\* A call that has not sent has no request under way.
UnwrittenWaitsNowhere ==
  \A t \in Call : Unwritten(t) => /\ handled[t] = <<>>
                                  /\ \A c \in Conn : \A i : ~ Waits(toServer[c], t, i)

\* The request of a call is under way once,
WaitsOnce ==
  \A t \in Call : \A c, d \in Conn : \A i, j :
    Waits(toServer[c], t, i) /\ Waits(toServer[d], t, j) => c = d /\ i = j

\* and has not been handled,
WaitsUnhandled ==
  \A t \in Call : \A c \in Conn : \A i : Waits(toServer[c], t, i) => handled[t] = <<>>

\* which it is once.
NoneOrOne == \A t \in Call : handled[t] = <<>> \/ \E h : handled[t] = <<h>>

\* The inductive invariant of requests.
OnceInv ==
  ChannelTypes /\ UnwrittenWaitsNowhere /\ WaitsOnce /\ WaitsUnhandled /\ NoneOrOne

\* The steps of a caller that neither send nor take an answer.
Aside(t) ==
  \/ Start(t) \/ Connect(t) \/ Connected(t) \/ SendFails(t)
  \/ RecvError(t) \/ Close(t) \/ Clear(t) \/ Fail(t)

\* Where a call is after one of them.
AsideStates ==
  {"connecting", "connected", "sending", "sendFailed", "recvFailed", "clearing", "failing", "failed"}

\* What such a step leaves alone, and what it changes of its own call only.
LEMMA AsideFacts ==
  ASSUME ChannelTypes, NEW t \in Call, Aside(t)
  PROVE  /\ UNCHANGED <<workload, serverVars, toServer, toClient>>
         /\ \E s \in AsideStates : pc' = [pc EXCEPT ![t] = s]
         /\ Unwritten(t)' => Unwritten(t)
         /\ fd' = fd \/ (Unwritten(t) /\ \E n \in Conn \cup {clientFd} : fd' = [fd EXCEPT ![t] = n])
         /\ response' = response \/ response' = [response EXCEPT ![t] = <<>>]
         /\ disturbed \subseteq disturbed' /\ disturbed' \subseteq disturbed \cup Call
         /\ link' = link \/ (Connect(t) /\ up /\ Fresh \in Conn /\ link' = [link EXCEPT ![Fresh] = "open"])
<1> USE DEF ChannelTypes
<1>1. CASE Start(t)
  BY <1>1 DEF Start, AsideStates, Unwritten
<1>2. CASE Connect(t)
  BY <1>2 DEF Connect, AsideStates, Unwritten
<1>3. CASE Connected(t)
  BY <1>3 DEF Connected, SetClientFd, Deprived, AsideStates, Unwritten
<1>4. CASE SendFails(t)
  BY <1>4 DEF SendFails, AsideStates, Unwritten
<1>5. CASE RecvError(t)
  BY <1>5 DEF RecvError, AsideStates, Unwritten
<1>6. CASE Close(t)
  <2>1. \/ pc[t] = "sendFailed" /\ pc' = [pc EXCEPT ![t] = "clearing"]
        \/ pc[t] = "recvFailed" /\ pc' = [pc EXCEPT ![t] = "failing"]
    BY <1>6 DEF Close
  <2>2. /\ UNCHANGED <<workload, response, fd, serverVars, link, toServer, toClient>>
        /\ disturbed' = disturbed \cup Deprived(t, clientFd')
    BY <1>6 DEF Close, SetClientFd
  <2>3. Deprived(t, clientFd') \subseteq Call
    BY DEF Deprived
  <2> QED
    BY <2>1, <2>2, <2>3 DEF AsideStates, Unwritten
<1>7. CASE Clear(t)
  BY <1>7 DEF Clear, SetClientFd, Deprived, AsideStates, Unwritten
<1>8. CASE Fail(t)
  BY <1>8 DEF Fail, Return, SetClientFd, Deprived, AsideStates, Unwritten
<1> QED
  BY <1>1, <1>2, <1>3, <1>4, <1>5, <1>6, <1>7, <1>8 DEF Aside

\* What OnMessage makes of bytes is a request only if they begin with a size.
LEMMA DispatchKinds ==
  ASSUME NEW bytes, NEW d \in Dispatch(bytes)
  PROVE  /\ d.is \in {"request", "dropped", "throws"}
         /\ d.is = "request" => bytes[1].part = "size"
<1>1. ASSUME NEW method, NEW args
      PROVE  DispatchArgs(method, args).is \in {"request", "dropped"}
  BY DEF DispatchArgs, Dropped
<1>2. ASSUME NEW size, NEW header, NEW e \in DispatchHeader(size, header)
      PROVE  e.is \in {"request", "dropped", "throws"}
  <2>1. CASE e \in {Dropped, Throws}
    BY <2>1 DEF Dropped, Throws
  <2>2. CASE e \notin {Dropped, Throws}
    <3>1. \E method, args : e = DispatchArgs(method, args)
      BY <1>2, <2>2 DEF DispatchHeader
    <3> QED
      BY <1>1, <3>1
  <2> QED
    BY <2>1, <2>2
<1>3. CASE bytes[1].part = "size"
  <2>1. \E size, header : d \in DispatchHeader(size, header)
    BY <1>3 DEF Dispatch
  <2> QED
    BY <1>2, <1>3, <2>1
<1>4. CASE bytes[1].part # "size"
  <2>1. d \in {Throws, Dropped}
    BY <1>4 DEF Dispatch
  <2> QED
    BY <2>1 DEF Throws, Dropped
<1> QED
  BY <1>3, <1>4

\* Bytes of several requests begin with the first.
LEMMA BytesBegin ==
  ASSUME ChannelTypes, NEW c \in Conn, NEW k \in 1..Len(toServer[c])
  PROVE  FlattenSeq([i \in 1..k |-> toServer[c][i].cells])[1] = toServer[c][1].cells[1]
<1> DEFINE s == [i \in 1..k |-> toServer[c][i].cells]
<1>1. toServer[c] \in Seq(Written) /\ Len(toServer[c]) \in Nat
  BY LenProperties DEF ChannelTypes
<1>2. k \in Nat /\ 1 <= k /\ k <= Len(toServer[c])
  BY <1>1
<1>3. ASSUME NEW e \in Written PROVE IsSeq(e.cells) /\ Len(e.cells) >= 1
  <2>1. CASE e.cells = RestCells
    BY <2>1, TupleIsSeq DEF RestCells
  <2>2. CASE \E t \in Call : e.cells = RequestBytes(workload[t])
    BY <2>2, RequestBegins DEF ChannelTypes
  <2> QED
    BY <2>1, <2>2 DEF Written
<1>4. \A i \in 1..k : toServer[c][i] \in Written
  BY <1>1, <1>2, ElementOfSeq
<1>5. \A i \in DOMAIN s : IsSeq(s[i]) /\ Len(s[i]) >= 1
  BY <1>3, <1>4
<1>6. IsSeq(s) /\ Len(s) = k
  BY <1>2, SeqOfFunction
<1>7. 1 \in DOMAIN s /\ s[1] = toServer[c][1].cells
  BY <1>2
<1>8. s # <<>> /\ Len(s[1]) \in Nat
  <2> HIDE DEF s
  <2>1. s # <<>>
    BY <1>7
  <2>2. IsSeq(s[1])
    BY <1>5, <1>7
  <2> QED
    BY <2>1, <2>2, LenProperties DEF IsSeq
<1>9. 1 \in 1..Len(s[1])
  BY <1>5, <1>7, <1>8
<1>10. FlattenSeq(s)[1] = s[1][1]
  <2> HIDE DEF s
  <2> QED
    BY <1>5, <1>6, <1>8, <1>9, FlattenFacts
<1> QED
  BY <1>7, <1>10

\* The first request is taken from a queue, handled or not, and nothing is added
\* to it that begins a request.
LEMMA QueueTaken ==
  ASSUME OnceInv, NEW c \in Conn, NEW m \in Nat, NEW left, left \in Seq(Written),
         \A t \in Call : \A i : Waits(left, t, i) =>
           i \in Nat /\ i + m > 1 /\ Waits(toServer[c], t, i + m),
         toServer' = [toServer EXCEPT ![c] = left],
         UNCHANGED <<workload, pc>>,
         \/ handled' = handled
         \/ \E t \in Call : \E h : /\ Waits(toServer[c], t, 1)
                                   /\ handled' = [handled EXCEPT ![t] = Append(@, h)]
  PROVE  OnceInv'
<1>1. toServer'[c] = left /\ \A d \in Conn \ {c} : toServer'[d] = toServer[d]
  BY DEF OnceInv, ChannelTypes
<1>2. ASSUME NEW t \in Call, NEW d \in Conn, NEW i, Waits(toServer'[d], t, i)
      PROVE  \E j : Waits(toServer[d], t, j) /\ (d = c => j # 1)
  BY <1>1, <1>2
<1>3. ASSUME NEW t \in Call PROVE handled'[t] = handled[t] \/
        (Waits(toServer[c], t, 1) /\ \E h : handled'[t] = <<h>>)
  <2>1. CASE handled' = handled
    BY <2>1
  <2>2. ASSUME NEW u \in Call, NEW h, Waits(toServer[c], u, 1),
               handled' = [handled EXCEPT ![u] = Append(@, h)]
        PROVE  handled'[t] = handled[t] \/ (Waits(toServer[c], t, 1) /\ \E g : handled'[t] = <<g>>)
    <3>1. handled[u] = <<>>
      BY <2>2 DEF OnceInv, WaitsUnhandled
    <3>2. handled'[u] = <<h>>
      BY <2>2, <3>1 DEF OnceInv, ChannelTypes
    <3>3. t # u => handled'[t] = handled[t]
      BY <2>2 DEF OnceInv, ChannelTypes
    <3> QED
      BY <2>2, <3>2, <3>3
  <2> QED
    BY <2>1, <2>2
<1>4. ChannelTypes'
  <2>1. Written' = Written
    BY DEF Written
  <2>2. handled' = [t \in Call |-> handled'[t]]
    BY DEF OnceInv, ChannelTypes
  <2> QED
    BY <2>1, <2>2 DEF OnceInv, ChannelTypes
<1>5. UnwrittenWaitsNowhere'
  <2> SUFFICES ASSUME NEW t \in Call, Unwritten(t)
               PROVE  handled'[t] = <<>> /\ \A d \in Conn : \A i : ~ Waits(toServer'[d], t, i)
    BY DEF UnwrittenWaitsNowhere, Unwritten
  <2>1. handled[t] = <<>> /\ \A d \in Conn : \A i : ~ Waits(toServer[d], t, i)
    BY DEF OnceInv, UnwrittenWaitsNowhere
  <2> QED
    BY <1>2, <1>3, <2>1
<1>6. WaitsOnce'
  <2> SUFFICES ASSUME NEW t \in Call, NEW d \in Conn, NEW e \in Conn, NEW i, NEW j,
                      Waits(toServer'[d], t, i), Waits(toServer'[e], t, j)
               PROVE  d = e /\ i = j
    BY DEF WaitsOnce
  <2>1. d = e
    <3>1. (\E k : Waits(toServer[d], t, k)) /\ \E k : Waits(toServer[e], t, k)
      BY <1>2
    <3>2. PICK k, l : Waits(toServer[d], t, k) /\ Waits(toServer[e], t, l)
      BY <3>1
    <3>3. WaitsOnce
      BY DEF OnceInv
    <3> QED
      BY <3>2, <3>3, Zenon DEF WaitsOnce
  <2>2. CASE d = c
    <3>1. i \in Nat /\ j \in Nat /\ Waits(toServer[c], t, i + m) /\ Waits(toServer[c], t, j + m)
      BY <1>1, <2>1, <2>2
    <3>2. i + m = j + m
      <4> DEFINE a == i + m
                 b == j + m
      <4>1. Waits(toServer[c], t, a) /\ Waits(toServer[c], t, b)
        BY <3>1
      <4> HIDE DEF a, b
      <4>2. a = b
        BY <4>1, Zenon DEF OnceInv, WaitsOnce
      <4> QED
        BY <4>2 DEF a, b
    <3> QED
      BY <2>1, <3>1, <3>2
  <2>3. CASE d # c
    <3>1. Waits(toServer[d], t, i) /\ Waits(toServer[d], t, j)
      BY <1>1, <2>1, <2>3
    <3>2. WaitsOnce
      BY DEF OnceInv
    <3> QED
      BY <2>1, <3>1, <3>2, Zenon DEF WaitsOnce
  <2> QED
    BY <2>2, <2>3
<1>7. WaitsUnhandled'
  <2> SUFFICES ASSUME NEW t \in Call, NEW d \in Conn, NEW i, Waits(toServer'[d], t, i)
               PROVE  handled'[t] = <<>>
    BY DEF WaitsUnhandled
  <2>1. PICK j : Waits(toServer[d], t, j) /\ (d = c => j # 1)
    BY <1>2
  <2>2. ~ Waits(toServer[c], t, 1)
    BY <2>1 DEF OnceInv, WaitsOnce
  <2> QED
    BY <1>3, <2>1, <2>2 DEF OnceInv, WaitsUnhandled
<1>8. NoneOrOne'
  BY <1>3 DEF OnceInv, NoneOrOne
<1> QED
  BY <1>4, <1>5, <1>6, <1>7, <1>8 DEF OnceInv

\* Nothing is written, nothing is handled, and no call begins again.
LEMMA QueuesKept ==
  ASSUME OnceInv, UNCHANGED <<workload, handled>>,
         toServer' = toServer \/ toServer' = [c \in Conn |-> <<>>],
         pc' \in [Call -> States],
         \A t \in Call : Unwritten(t)' => Unwritten(t)
  PROVE  OnceInv'
<1>1. \A c \in Conn : \A t, i : Waits(toServer'[c], t, i) => Waits(toServer[c], t, i)
  <2>1. \A t, i : ~ Waits(<<>>, t, i)
    BY DEF Waits
  <2> QED
    BY <2>1
<1>2. ChannelTypes'
  <2>1. Written' = Written
    BY DEF Written
  <2>2. toServer' \in [Conn -> Seq(Written)]
    BY EmptySeq DEF OnceInv, ChannelTypes
  <2> QED
    BY <2>1, <2>2 DEF OnceInv, ChannelTypes
<1>3. UnwrittenWaitsNowhere'
  BY <1>1 DEF OnceInv, UnwrittenWaitsNowhere
<1>4. WaitsOnce'
  BY <1>1 DEF OnceInv, WaitsOnce
<1>5. WaitsUnhandled'
  BY <1>1 DEF OnceInv, WaitsUnhandled
<1>6. NoneOrOne'
  BY DEF OnceInv, NoneOrOne
<1> QED
  BY <1>2, <1>3, <1>4, <1>5, <1>6 DEF OnceInv

\* Send writes the one request of a call that has not sent.
LEMMA SendOnce ==
  ASSUME OnceInv, NEW t \in Call, Send(t)
  PROVE  OnceInv'
<1> DEFINE c == clientFd
           e == [call |-> t, cells |-> RequestBytes(workload[t])]
<1>1. c \in Conn /\ pc[t] = "sending" /\ pc' = [pc EXCEPT ![t] = "sent"]
  BY DEF Send
<1>2. pc' \in [Call -> States] /\ \A u \in Call : Unwritten(u)' => Unwritten(u) /\ u # t
  BY <1>1 DEF OnceInv, ChannelTypes, Unwritten, States
<1>3. CASE link[c] = "open"
  <2>1. toServer' = [toServer EXCEPT ![c] = Append(@, e)] /\ UNCHANGED <<workload, handled>>
    BY <1>1, <1>3 DEF Send, Live, serverVars, SendRpcStr, OnceInv, ChannelTypes
  <2>2. e \in Written /\ Written' = Written
    BY <2>1 DEF Written
  <2>3. toServer[c] \in Seq(Written)
    BY <1>1 DEF OnceInv, ChannelTypes
  <2>4. ASSUME NEW d \in Conn, NEW u \in Call, NEW i, Waits(toServer'[d], u, i)
        PROVE  Waits(toServer[d], u, i) \/ (u = t /\ d = c /\ i = Len(toServer[c]) + 1)
    <3>1. CASE d # c
      BY <2>1, <2>4, <3>1 DEF OnceInv, ChannelTypes
    <3>2. CASE d = c
      <4>1. toServer'[c] = Append(toServer[c], e)
        BY <1>1, <2>1 DEF OnceInv, ChannelTypes
      <4> HIDE DEF e
      <4>2. /\ DOMAIN toServer'[c] = 1..(Len(toServer[c]) + 1)
            /\ \A j \in 1..Len(toServer[c]) : toServer'[c][j] = toServer[c][j]
            /\ toServer'[c][Len(toServer[c]) + 1] = e
            /\ Len(toServer[c]) \in Nat /\ DOMAIN toServer[c] = 1..Len(toServer[c])
        <5>1. /\ Append(toServer[c], e) \in Seq(Written)
              /\ Len(Append(toServer[c], e)) = Len(toServer[c]) + 1
              /\ \A j \in 1..Len(toServer[c]) : Append(toServer[c], e)[j] = toServer[c][j]
              /\ Append(toServer[c], e)[Len(toServer[c]) + 1] = e
          BY <2>2, <2>3, AppendProperties
        <5> QED
          BY <2>3, <4>1, <5>1, LenProperties
      <4>3. CASE i = Len(toServer[c]) + 1
        <5>1. e.call = u
          BY <2>4, <3>2, <4>2, <4>3 DEF Waits
        <5> QED
          BY <3>2, <4>3, <5>1 DEF e
      <4>4. CASE i # Len(toServer[c]) + 1
        <5>1. i \in 1..Len(toServer[c])
          BY <2>4, <3>2, <4>2, <4>4 DEF Waits
        <5> QED
          BY <2>4, <3>2, <4>2, <5>1 DEF Waits
      <4> QED
        BY <4>3, <4>4
    <3> QED
      BY <3>1, <3>2
  <2>5. handled[t] = <<>> /\ \A d \in Conn : \A i : ~ Waits(toServer[d], t, i)
    BY <1>1 DEF OnceInv, UnwrittenWaitsNowhere, Unwritten
  <2>6. ChannelTypes'
    <3>1. toServer' \in [Conn -> Seq(Written)]
      <4>1. Append(toServer[c], e) \in Seq(Written)
        BY <2>2, <2>3, AppendProperties
      <4> HIDE DEF e
      <4> QED
        BY <1>1, <2>1, <4>1 DEF OnceInv, ChannelTypes
    <3> QED
      BY <1>2, <2>1, <2>2, <3>1 DEF OnceInv, ChannelTypes
  <2>7. UnwrittenWaitsNowhere'
    <3> SUFFICES ASSUME NEW u \in Call, Unwritten(u)'
                 PROVE  handled'[u] = <<>> /\ \A d \in Conn : \A i : ~ Waits(toServer'[d], u, i)
      BY DEF UnwrittenWaitsNowhere
    <3>1. Unwritten(u) /\ u # t
      BY <1>2
    <3>2. handled[u] = <<>> /\ \A d \in Conn : \A i : ~ Waits(toServer[d], u, i)
      BY <3>1 DEF OnceInv, UnwrittenWaitsNowhere
    <3>3. handled'[u] = <<>>
      BY <2>1, <3>2
    <3>4. ASSUME NEW d \in Conn, NEW i, Waits(toServer'[d], u, i) PROVE FALSE
      <4> HIDE DEF e, c
      <4> QED
        BY <2>4, <3>1, <3>2, <3>4
    <3> QED
      BY <3>3, <3>4
  <2>8. WaitsOnce'
    <3> SUFFICES ASSUME NEW u \in Call, NEW d1 \in Conn, NEW d2 \in Conn, NEW i, NEW j,
                        Waits(toServer'[d1], u, i), Waits(toServer'[d2], u, j)
                 PROVE  d1 = d2 /\ i = j
      BY DEF WaitsOnce
    <3> HIDE DEF e, c
    <3>1. CASE u = t
      <4>1. ~ Waits(toServer[d1], u, i) /\ ~ Waits(toServer[d2], u, j)
        BY <2>5, <3>1
      <4>2. d1 = c /\ i = Len(toServer[c]) + 1
        BY <2>4, <4>1
      <4>3. d2 = c /\ j = Len(toServer[c]) + 1
        BY <2>4, <4>1
      <4> QED
        BY <4>2, <4>3
    <3>2. CASE u # t
      <4>1. Waits(toServer[d1], u, i) /\ Waits(toServer[d2], u, j)
        BY <2>4, <3>2
      <4> QED
        BY <4>1, Zenon DEF OnceInv, WaitsOnce
    <3> QED
      BY <3>1, <3>2
  <2>9. WaitsUnhandled'
    <3> SUFFICES ASSUME NEW u \in Call, NEW d \in Conn, NEW i, Waits(toServer'[d], u, i)
                 PROVE  handled'[u] = <<>>
      BY DEF WaitsUnhandled
    <3>1. Waits(toServer[d], u, i) \/ u = t
      <4> HIDE DEF e, c
      <4> QED
        BY <2>4
    <3> QED
      BY <2>1, <2>5, <3>1 DEF OnceInv, WaitsUnhandled
  <2>10. NoneOrOne'
    BY <2>1 DEF OnceInv, NoneOrOne
  <2> QED
    BY <2>6, <2>7, <2>8, <2>9, <2>10 DEF OnceInv
<1>4. CASE link[c] # "open"
  BY <1>1, <1>2, <1>4, QueuesKept DEF Send, Live, serverVars
<1> QED
  BY <1>3, <1>4

\* A request or a piece of one reaches the provider.
LEMMA HandleOnce ==
  ASSUME OnceInv, NEW c \in Conn, toServer[c] # <<>>, NEW bytes, NEW m \in Nat, NEW left,
         bytes[1].part = "size" => toServer[c][1].cells[1].part = "size",
         left \in Seq(Written),
         \A t \in Call : \A i : Waits(left, t, i) =>
           i \in Nat /\ i + m > 1 /\ Waits(toServer[c], t, i + m),
         Handle(c, toServer[c][1].call, bytes, left),
         UNCHANGED <<workload, pc>>
  PROVE  OnceInv'
<1> DEFINE t == toServer[c][1].call
<1>1. toServer[c] \in Seq(Written) /\ 1 \in DOMAIN toServer[c]
  <2>1. toServer[c] \in Seq(Written)
    BY DEF OnceInv, ChannelTypes
  <2> QED
    BY <2>1, EmptySeq, LenProperties
<1>2. toServer[c][1] \in Written
  BY <1>1, ElementOfSeq, LenProperties
<1>3. t \in Call
  BY <1>2 DEF Written
<1>4. PICK d \in Dispatch(bytes) :
        CASE d.is = "request" ->
               /\ \E r \in workload[t].replies :
                    /\ handled' = [handled EXCEPT ![t] = Append(@, [args |-> d.args, reply |-> r])]
                    /\ SendRpcResponse(c, t, r)
               /\ toServer' = [toServer EXCEPT ![c] = left]
               /\ UNCHANGED <<up, crashes, link>>
          [] d.is = "dropped" ->
               /\ toServer' = [toServer EXCEPT ![c] = left]
               /\ UNCHANGED <<up, crashes, link, handled, toClient>>
          [] d.is = "throws" ->
               /\ Ends
               /\ UNCHANGED <<crashes, handled>>
  BY DEF Handle
<1>5. CASE d.is = "request"
  <2>1. Waits(toServer[c], t, 1)
    BY <1>1, <1>5, DispatchKinds DEF Waits
  <2>2. /\ \E h : handled' = [handled EXCEPT ![t] = Append(@, h)]
        /\ toServer' = [toServer EXCEPT ![c] = left]
    BY <1>4, <1>5
  <2> HIDE DEF t
  <2> QED
    BY <1>3, <2>1, <2>2, QueueTaken
<1>6. CASE d.is = "dropped"
  <2>1. UNCHANGED handled /\ toServer' = [toServer EXCEPT ![c] = left]
    BY <1>4, <1>6
  <2> QED
    BY <2>1, QueueTaken
<1>7. CASE d.is = "throws"
  <2>1. UNCHANGED handled /\ toServer' = [b \in Conn |-> <<>>]
    BY <1>4, <1>7 DEF Ends
  <2>2. pc' \in [Call -> States] /\ \A u \in Call : Unwritten(u)' => Unwritten(u)
    BY DEF OnceInv, ChannelTypes, Unwritten
  <2> QED
    BY <2>1, <2>2, QueuesKept
<1> QED
  BY <1>5, <1>6, <1>7, DispatchKinds

\* What OnMessage leaves on a queue.
LEMMA UnreadFacts ==
  ASSUME NEW c, toServer[c] \in Seq(Written), NEW k \in Nat, 1 <= k, k <= Len(toServer[c])
  PROVE  /\ Unread(c, k) \in Seq(Written)
         /\ DOMAIN Unread(c, k) = 1..(Len(toServer[c]) - k)
         /\ \A i \in 1..(Len(toServer[c]) - k) : Unread(c, k)[i] = toServer[c][i + k]
<1> DEFINE left == Unread(c, k)
<1>1. Len(toServer[c]) \in Nat /\ DOMAIN toServer[c] = 1..Len(toServer[c])
  BY LenProperties
<1>2. /\ left \in Seq(Written)
      /\ Len(left) = Len(toServer[c]) - k
      /\ \A i \in 1..(Len(toServer[c]) - k) : left[i] = toServer[c][(k + 1) + i - 1]
  <2>1. k + 1 \in 1..Len(toServer[c]) + 1 /\ Len(toServer[c]) \in k..Len(toServer[c])
    BY <1>1
  <2> QED
    BY <1>1, <2>1, SubSeqProperties DEF Unread
<1>3. \A i \in 1..(Len(toServer[c]) - k) : (k + 1) + i - 1 = i + k /\ i + k \in 1..Len(toServer[c])
  BY <1>1
<1>4. DOMAIN left = 1..(Len(toServer[c]) - k)
  BY <1>2, LenProperties
<1> HIDE DEF left
<1>5. \A i \in 1..(Len(toServer[c]) - k) : left[i] = toServer[c][i + k]
  BY <1>2, <1>3
<1> QED
  BY <1>2, <1>4, <1>5 DEF left

\* OnMessage takes the first k requests.
LEMMA OnMessageOnce ==
  ASSUME OnceInv, NEW c \in Conn, OnMessage(c)
  PROVE  OnceInv'
<1>1. PICK k \in 1..Len(toServer[c]) :
        Handle(c, toServer[c][1].call, FlattenSeq([i \in 1..k |-> toServer[c][i].cells]), Unread(c, k))
  BY DEF OnMessage
<1> DEFINE bytes == FlattenSeq([i \in 1..k |-> toServer[c][i].cells])
           left  == Unread(c, k)
<1>2. toServer[c] \in Seq(Written) /\ Len(toServer[c]) \in Nat
  BY LenProperties DEF OnceInv, ChannelTypes
<1>3. k \in Nat /\ 1 <= k /\ k <= Len(toServer[c])
  BY <1>2
<1>4. toServer[c] # <<>>
  BY <1>2, <1>3
<1>5. bytes[1] = toServer[c][1].cells[1]
  BY BytesBegin DEF OnceInv
<1>6. /\ left \in Seq(Written) /\ DOMAIN left = 1..(Len(toServer[c]) - k)
      /\ \A i \in 1..(Len(toServer[c]) - k) : left[i] = toServer[c][i + k]
  BY <1>2, <1>3, UnreadFacts
<1>7. ASSUME NEW t \in Call, NEW i, Waits(left, t, i)
      PROVE  i \in Nat /\ i + k > 1 /\ Waits(toServer[c], t, i + k)
  <2> HIDE DEF left
  <2>1. i \in 1..(Len(toServer[c]) - k) /\ left[i] = toServer[c][i + k]
    BY <1>6, <1>7 DEF Waits
  <2>2. i \in Nat /\ i + k > 1 /\ i + k \in DOMAIN toServer[c]
    BY <1>2, <1>3, <2>1, LenProperties
  <2> QED
    BY <1>7, <2>1, <2>2 DEF Waits
<1>8. Handle(c, toServer[c][1].call, bytes, left) /\ UNCHANGED <<workload, pc>>
  BY <1>1 DEF OnMessage, callerVars
<1> HIDE DEF bytes, left
<1> QED
  BY <1>3, <1>4, <1>5, <1>6, <1>7, <1>8, HandleOnce

\* What is left of a request that arrived in part.
LEMMA PartLeft ==
  ASSUME OnceInv, NEW c \in Conn, toServer[c] # <<>>
  PROVE  LET rest == [call |-> toServer[c][1].call, cells |-> RestCells]
             left == <<rest>> \o Unread(c, 1)
         IN  /\ left \in Seq(Written) /\ DOMAIN left = 1..Len(toServer[c])
             /\ DOMAIN toServer[c] = 1..Len(toServer[c]) /\ Len(toServer[c]) \in Nat
             /\ left[1] = rest
             /\ \A i \in 2..Len(toServer[c]) : left[i] = toServer[c][i]
<1> DEFINE rest == [call |-> toServer[c][1].call, cells |-> RestCells]
           left == <<rest>> \o Unread(c, 1)
<1>3. /\ toServer[c] \in Seq(Written) /\ Len(toServer[c]) \in Nat \ {0}
      /\ DOMAIN toServer[c] = 1..Len(toServer[c])
  <2>1. toServer[c] \in Seq(Written)
    BY DEF OnceInv, ChannelTypes
  <2> QED
    BY <2>1, EmptySeq, LenProperties
<1>4. rest \in Written
  <2>1. toServer[c][1] \in Written
    BY <1>3, ElementOfSeq
  <2> QED
    BY <2>1 DEF Written
<1>5. /\ Unread(c, 1) \in Seq(Written) /\ Len(Unread(c, 1)) = Len(toServer[c]) - 1
      /\ \A i \in 1..(Len(toServer[c]) - 1) : Unread(c, 1)[i] = toServer[c][2 + i - 1]
  <2>1. 2 \in 1..Len(toServer[c]) + 1 /\ Len(toServer[c]) \in 1..Len(toServer[c])
    BY <1>3
  <2> QED
    BY <1>3, <2>1, SubSeqProperties DEF Unread
<1> HIDE DEF rest
<1>6. <<rest>> \in Seq(Written) /\ Len(<<rest>>) = 1 /\ <<rest>>[1] = rest
  BY <1>4
<1>7. /\ left \in Seq(Written)
      /\ Len(left) = 1 + Len(Unread(c, 1))
      /\ \A i \in 1..(1 + Len(Unread(c, 1))) :
           left[i] = IF i <= 1 THEN <<rest>>[i] ELSE Unread(c, 1)[i - 1]
  BY <1>5, <1>6, ConcatProperties
<1>8. DOMAIN left = 1..Len(toServer[c])
  BY <1>3, <1>5, <1>7, LenProperties
<1>9. left[1] = rest
  BY <1>3, <1>5, <1>6, <1>7
<1>10. ASSUME NEW i \in 2..Len(toServer[c]) PROVE left[i] = toServer[c][i]
  <2>1. i \in 1..(1 + Len(Unread(c, 1))) /\ ~ (i <= 1)
    BY <1>3, <1>5
  <2>2. i - 1 \in 1..(Len(toServer[c]) - 1) /\ 2 + (i - 1) - 1 = i
    BY <1>3
  <2> HIDE DEF left
  <2> QED
    BY <1>5, <1>7, <2>1, <2>2
<1> QED
  BY <1>3, <1>7, <1>8, <1>9, <1>10 DEF rest

\* OnPartOfMessage takes the first request and leaves what is no request.
LEMMA OnPartOnce ==
  ASSUME OnceInv, NEW c \in Conn, OnPartOfMessage(c)
  PROVE  OnceInv'
<1> DEFINE t    == toServer[c][1].call
           rest == [call |-> t, cells |-> RestCells]
           left == <<rest>> \o Unread(c, 1)
<1>1. toServer[c] # <<>> /\ toServer[c][1].cells[1].part = "size" /\ UNCHANGED <<workload, pc>>
  BY DEF OnPartOfMessage, callerVars
<1>2. PICK bytes : Handle(c, t, bytes, left)
  BY DEF OnPartOfMessage, RestCells
<1>3. Len(toServer[c]) \in Nat \ {0}
  <2>1. toServer[c] \in Seq(Written)
    BY DEF OnceInv, ChannelTypes
  <2> QED
    BY <1>1, <2>1, EmptySeq, LenProperties
<1>6. /\ left \in Seq(Written) /\ DOMAIN left = 1..Len(toServer[c])
      /\ DOMAIN toServer[c] = 1..Len(toServer[c])
      /\ left[1] = rest
      /\ \A i \in 2..Len(toServer[c]) : left[i] = toServer[c][i]
  BY <1>1, PartLeft
<1>7. ASSUME NEW u \in Call, NEW i, Waits(left, u, i)
      PROVE  i \in Nat /\ i + 0 > 1 /\ Waits(toServer[c], u, i + 0)
  <2>1. rest.cells[1].part # "size"
    BY DEF RestCells, Cell
  <2> HIDE DEF left, rest
  <2>2. i \in 1..Len(toServer[c])
    BY <1>6, <1>7 DEF Waits
  <2>3. i # 1
    BY <1>6, <1>7, <2>1 DEF Waits
  <2>4. i \in 2..Len(toServer[c]) /\ i \in Nat /\ i + 0 = i
    BY <1>3, <2>2, <2>3
  <2> QED
    BY <1>3, <1>6, <1>7, <2>2, <2>4 DEF Waits
<1> HIDE DEF left
<1> QED
  BY <1>1, <1>2, <1>6, <1>7, HandleOnce

-----------------------------------------------------------------------------
(* Connections *)

\* Connections are opened in order,
OpenedInOrder ==
  \E n \in 0..MaxConn : \A c \in Conn : link[c] # "unused" <=> c <= n

\* and only those are used.
ConnectionInv ==
  /\ clientFd \in Conn \cup {ClosedFd, NoFd}
  /\ fd \in [Call -> Conn \cup {ClosedFd, NoFd}]
  /\ link \in [Conn -> {"unused", "open", "eof", "reset"}]
  /\ OpenedInOrder
  /\ clientFd \in Conn => link[clientFd] # "unused"
  /\ \A t \in Call : fd[t] \in Conn => link[fd[t]] # "unused"
  /\ \A t \in Call : pc[t] \in {"connected", "sent", "receiving"} => fd[t] \in Conn

\* A new connection has not been used before.
LEMMA FreshUnused ==
  ASSUME ConnectionInv
  PROVE  /\ Fresh \in Nat \ {0}
         /\ \A c \in Conn : link[c] # "unused" <=> c < Fresh
<1>1. PICK n \in 0..MaxConn : \A c \in Conn : link[c] # "unused" <=> c <= n
  BY DEF ConnectionInv, OpenedInOrder
<1>2. MaxConn \in Nat /\ n \in Nat /\ n <= MaxConn
  BY BoundsAssumption
<1>3. {c \in Conn : link[c] # "unused"} = 1..n
  BY <1>1, <1>2 DEF Conn
<1>4. Cardinality(1..n) = n
  BY <1>2, FS_Interval
<1>5. Fresh = n + 1
  <2>1. Cardinality({c \in Conn : link[c] # "unused"}) = n
    BY <1>3, <1>4
  <2>2. Fresh = 1 + n
    BY <2>1 DEF Fresh
  <2> QED
    BY <1>2, <2>2
<1>6. ASSUME NEW c \in Conn PROVE c <= n <=> c < n + 1
  BY <1>2 DEF Conn
<1> QED
  BY <1>1, <1>2, <1>5, <1>6

\* A connection that is open may end; none is closed into not being used.
LEMMA LinkChanges ==
  ASSUME ConnectionInv, link' \in [Conn -> {"unused", "open", "eof", "reset"}],
         \/ \A c \in Conn : link'[c] # "unused" <=> link[c] # "unused"
         \/ /\ Fresh \in Conn
            /\ \A c \in Conn : link'[c] # "unused" <=> link[c] # "unused" \/ c = Fresh
  PROVE  OpenedInOrder' /\ \A c \in Conn : link[c] # "unused" => link'[c] # "unused"
<1>1. CASE \A c \in Conn : link'[c] # "unused" <=> link[c] # "unused"
  BY <1>1 DEF ConnectionInv, OpenedInOrder
<1>2. CASE /\ Fresh \in Conn
           /\ \A c \in Conn : link'[c] # "unused" <=> link[c] # "unused" \/ c = Fresh
  <2> DEFINE n == Fresh
  <2>1. n \in 0..MaxConn /\ n \in Nat
    BY <1>2, BoundsAssumption DEF Conn
  <2>2. \A c \in Conn : link'[c] # "unused" <=> c < n \/ c = n
    BY <1>2, FreshUnused
  <2>3. ASSUME NEW c \in Conn PROVE c <= n <=> c < n \/ c = n
    BY <2>1, BoundsAssumption DEF Conn
  <2>4. \A c \in Conn : link'[c] # "unused" <=> c <= n
    BY <2>2, <2>3
  <2> HIDE DEF n
  <2>5. OpenedInOrder'
    BY <2>1, <2>4 DEF OpenedInOrder
  <2> QED
    BY <1>2, <2>5
<1> QED
  BY <1>1, <1>2

\* Every step leaves the connections in order.
LEMMA ConnectionStep ==
  ASSUME ChannelTypes, ConnectionInv, [Next]_vars
  PROVE  ConnectionInv'
<1> USE DEF ChannelTypes
<1>1. ASSUME NEW t \in Call, Aside(t) PROVE ConnectionInv'
  <2>1. /\ link' \in [Conn -> {"unused", "open", "eof", "reset"}]
        /\ \/ link' = link
           \/ Fresh \in Conn /\ \A c \in Conn : link'[c] # "unused" <=> link[c] # "unused" \/ c = Fresh
    <3>1. link' = link \/ (Fresh \in Conn /\ link' = [link EXCEPT ![Fresh] = "open"])
      BY <1>1, AsideFacts
    <3>2. ASSUME Fresh \in Conn, link' = [link EXCEPT ![Fresh] = "open"]
          PROVE  /\ link' \in [Conn -> {"unused", "open", "eof", "reset"}]
                 /\ \A c \in Conn : link'[c] # "unused" <=> link[c] # "unused" \/ c = Fresh
      <4> DEFINE n == Fresh
      <4>1. n \in Conn /\ link' = [link EXCEPT ![n] = "open"]
        BY <3>2
      <4> HIDE DEF n
      <4>2. /\ link' \in [Conn -> {"unused", "open", "eof", "reset"}]
            /\ \A c \in Conn : link'[c] # "unused" <=> link[c] # "unused" \/ c = n
        BY <4>1 DEF ConnectionInv
      <4> QED
        BY <4>2 DEF n
    <3> QED
      BY <3>1, <3>2 DEF ConnectionInv
  <2>2. OpenedInOrder' /\ \A c \in Conn : link[c] # "unused" => link'[c] # "unused"
    BY <2>1, LinkChanges
  <2>3. ASSUME Connect(t) PROVE ConnectionInv'
    <3>1. UNCHANGED clientFd /\ \A u \in Call \ {t} : pc'[u] = pc[u]
      BY <2>3 DEF Connect
    <3>2. CASE up /\ Fresh \in Conn
      <4> DEFINE n == Fresh
      <4>1. n \in Conn /\ fd' = [fd EXCEPT ![t] = n] /\ link' = [link EXCEPT ![n] = "open"]
        BY <2>3, <3>2 DEF Connect
      <4> HIDE DEF n
      <4>2. /\ fd' \in [Call -> Conn \cup {ClosedFd, NoFd}]
            /\ fd'[t] = n /\ link'[n] # "unused"
            /\ \A u \in Call \ {t} : fd'[u] = fd[u]
        BY <4>1 DEF ConnectionInv
      <4> QED
        BY <2>1, <2>2, <3>1, <4>1, <4>2 DEF ConnectionInv
    <3>3. CASE ~(up /\ Fresh \in Conn)
      <4>1. UNCHANGED <<fd, link>> /\ pc' = [pc EXCEPT ![t] = "failing"]
        BY <2>3, <3>3 DEF Connect
      <4> QED
        BY <2>1, <2>2, <3>1, <4>1 DEF ConnectionInv
    <3> QED
      BY <3>2, <3>3
  <2>4. ASSUME Start(t) PROVE ConnectionInv'
    <3>1. /\ UNCHANGED <<clientFd, link>> /\ fd' = [fd EXCEPT ![t] = clientFd]
          /\ \A u \in Call \ {t} : pc'[u] = pc[u]
          /\ pc'[t] \in {"connecting", "sending"}
      BY <2>4 DEF Start
    <3>2. /\ fd' \in [Call -> Conn \cup {ClosedFd, NoFd}]
          /\ fd'[t] = clientFd /\ \A u \in Call \ {t} : fd'[u] = fd[u]
      BY <3>1 DEF ConnectionInv
    <3> QED
      BY <2>1, <2>2, <3>1, <3>2 DEF ConnectionInv
  <2>5. ASSUME ~Connect(t), ~Start(t) PROVE ConnectionInv'
    <3>1. UNCHANGED <<fd, link>>
      BY <1>1, <2>5 DEF Aside, Connected, SendFails, RecvError, Close, Clear, Fail
    <3>2. /\ clientFd' \in Conn \cup {ClosedFd, NoFd}
          /\ clientFd' \in Conn => clientFd' = clientFd \/ clientFd' = fd[t]
      <4>1. CASE Connected(t)
        BY <4>1 DEF Connected, SetClientFd, ConnectionInv
      <4>2. CASE SendFails(t) \/ RecvError(t)
        BY <4>2 DEF SendFails, RecvError, ConnectionInv
      <4>3. CASE Close(t) \/ Clear(t) \/ Fail(t)
        <5>1. clientFd' \in {ClosedFd, NoFd}
          BY <4>3 DEF Close, Clear, Fail, SetClientFd
        <5>2. ClosedFd \notin Conn /\ NoFd \notin Conn
          BY BoundsAssumption DEF ClosedFd, NoFd, Conn
        <5> QED
          BY <5>1, <5>2
      <4> QED
        BY <1>1, <2>5, <4>1, <4>2, <4>3 DEF Aside
    <3>3. \A u \in Call : pc'[u] \in {"connected", "sent", "receiving"} => pc'[u] = pc[u]
      BY <1>1, <2>5 DEF Aside, Connected, SendFails, RecvError, Close, Clear, Fail, Return
    <3> QED
      BY <2>1, <2>2, <3>1, <3>2, <3>3 DEF ConnectionInv
  <2> QED
    BY <2>3, <2>4, <2>5
<1>3. ASSUME NEW t \in Call, Send(t) PROVE ConnectionInv'
  <2>1. /\ UNCHANGED clientFd /\ clientFd \in Conn
        /\ fd' = [fd EXCEPT ![t] = clientFd]
        /\ pc' = [pc EXCEPT ![t] = "sent"]
    BY <1>3 DEF Send, ConnectionInv
  <2>2. link' = link \/ \E how \in {"eof", "reset"} : link' = [link EXCEPT ![clientFd] = how]
    BY <1>3 DEF Send
  <2>3. /\ link' \in [Conn -> {"unused", "open", "eof", "reset"}]
        /\ \A c \in Conn : link'[c] # "unused" <=> link[c] # "unused"
    <3>1. link[clientFd] # "unused"
      BY <2>1 DEF ConnectionInv
    <3>2. CASE link' = link
      BY <3>2 DEF ConnectionInv
    <3>3. CASE \E how \in {"eof", "reset"} : link' = [link EXCEPT ![clientFd] = how]
      BY <2>1, <3>1, <3>3 DEF ConnectionInv
    <3> QED
      BY <2>2, <3>2, <3>3
  <2>4. OpenedInOrder' /\ \A c \in Conn : link[c] # "unused" => link'[c] # "unused"
    BY <2>3, LinkChanges
  <2>5. fd' \in [Call -> Conn \cup {ClosedFd, NoFd}]
        /\ \A u \in Call : fd'[u] \in Conn => link'[fd'[u]] # "unused"
    BY <2>1, <2>4 DEF ConnectionInv
  <2>6. \A u \in Call : pc'[u] \in {"connected", "sent", "receiving"} => fd'[u] \in Conn
    BY <2>1 DEF ConnectionInv
  <2> QED
    BY <2>1, <2>3, <2>4, <2>5, <2>6 DEF ConnectionInv
<1>5. ASSUME NEW t \in Call, BeginRecv(t) PROVE ConnectionInv'
  <2>1. UNCHANGED <<clientFd, link>>
    BY <1>5 DEF BeginRecv
  <2>2. CASE clientFd \notin Conn
    <3>1. UNCHANGED fd /\ pc' = [pc EXCEPT ![t] = "recvFailed"]
      BY <1>5, <2>2 DEF BeginRecv
    <3> QED
      BY <2>1, <3>1 DEF ConnectionInv, OpenedInOrder
  <2>3. CASE clientFd \in Conn
    <3>1. fd' = [fd EXCEPT ![t] = clientFd] /\ \A u \in Call \ {t} : pc'[u] = pc[u]
      BY <1>5, <2>3 DEF BeginRecv
    <3>2. fd' \in [Call -> Conn \cup {ClosedFd, NoFd}]
          /\ \A u \in Call : fd'[u] \in Conn => link'[fd'[u]] # "unused"
      BY <2>1, <2>3, <3>1 DEF ConnectionInv
    <3>3. \A u \in Call : pc'[u] \in {"connected", "sent", "receiving"} => fd'[u] \in Conn
      BY <2>3, <3>1 DEF ConnectionInv
    <3> QED
      BY <2>1, <3>2, <3>3 DEF ConnectionInv, OpenedInOrder
  <2> QED
    BY <2>2, <2>3
<1>6. ASSUME NEW t \in Call, Receive(t) \/ RecvEof(t) PROVE ConnectionInv'
  <2>1. UNCHANGED <<clientFd, fd, link>>
    BY <1>6 DEF Receive, RecvEof
  <2>2. \E outcome \in {"ok", "failed"} : pc' = [pc EXCEPT ![t] = outcome]
    <3>1. CASE Receive(t)
      <4>1. PICK cells : \E o \in Outcomes(t, cells) : Return(t, o.outcome, o.response)
        BY <3>1 DEF Receive
      <4>2. \A o \in Outcomes(t, cells) : o.outcome \in {"ok", "failed"}
        BY DEF Outcomes
      <4> QED
        BY <4>1, <4>2 DEF Return
    <3>2. CASE RecvEof(t)
      BY <3>2 DEF RecvEof, Return
    <3> QED
      BY <1>6, <3>1, <3>2
  <2>3. \A u \in Call : pc'[u] \in {"connected", "sent", "receiving"} => pc'[u] = pc[u]
    BY <2>2
  <2> QED
    BY <2>1, <2>3 DEF ConnectionInv, OpenedInOrder
<1>7. ASSUME UNCHANGED callerVars, UNCHANGED link \/ Ends PROVE ConnectionInv'
  <2>1. UNCHANGED <<clientFd, fd, pc>>
    BY <1>7 DEF callerVars
  <2>2. /\ link' \in [Conn -> {"unused", "open", "eof", "reset"}]
        /\ \A c \in Conn : link'[c] # "unused" <=> link[c] # "unused"
    <3>1. CASE UNCHANGED link
      BY <3>1 DEF ConnectionInv
    <3>2. CASE Ends
      <4>1. PICK how \in {"eof", "reset"} :
              link' = [c \in Conn |-> IF link[c] = "open" THEN how ELSE link[c]]
        BY <3>2 DEF Ends
      <4> QED
        BY <4>1 DEF ConnectionInv
    <3> QED
      BY <1>7, <3>1, <3>2
  <2>3. OpenedInOrder' /\ \A c \in Conn : link[c] # "unused" => link'[c] # "unused"
    BY <2>2, LinkChanges
  <2> QED
    BY <2>1, <2>2, <2>3 DEF ConnectionInv
<1>8. ASSUME NEW c \in Conn, OnMessage(c) \/ OnPartOfMessage(c) PROVE ConnectionInv'
  <2>1. UNCHANGED callerVars /\ \E t, bytes, left : Handle(c, t, bytes, left)
    BY <1>8 DEF OnMessage, OnPartOfMessage
  <2>2. UNCHANGED link \/ Ends
    BY <2>1, DispatchKinds DEF Handle
  <2> QED
    BY <1>7, <2>1, <2>2
<1>9. CASE Crash \/ Restart
  BY <1>7, <1>9 DEF Crash, Restart
<1>10. CASE UNCHANGED vars
  BY <1>7, <1>10 DEF vars
<1> QED
  BY <1>1, <1>3, <1>5, <1>6, <1>8, <1>9, <1>10 DEF Next, CallMethod, Aside

-----------------------------------------------------------------------------
(* Requests are handled once *)

\* Every step leaves a request under way or handled, and once.
LEMMA OnceStep ==
  ASSUME OnceInv, ConnectionInv, [Next]_vars
  PROVE  OnceInv'
<1>1. ASSUME UNCHANGED <<workload, handled, pc>>, UNCHANGED toServer \/ Ends
      PROVE  OnceInv'
  <2>1. pc' \in [Call -> States] /\ \A u \in Call : Unwritten(u)' => Unwritten(u)
    BY <1>1 DEF OnceInv, ChannelTypes, Unwritten
  <2>2. toServer' = toServer \/ toServer' = [c \in Conn |-> <<>>]
    BY <1>1 DEF Ends
  <2> QED
    BY <1>1, <2>1, <2>2, QueuesKept
<1>2. ASSUME NEW t \in Call, Aside(t) PROVE OnceInv'
  <2>1. UNCHANGED <<workload, handled, toServer>> /\ (Unwritten(t)' => Unwritten(t))
    BY <1>2, AsideFacts DEF serverVars, OnceInv
  <2>2. PICK s \in AsideStates : pc' = [pc EXCEPT ![t] = s]
    BY <1>2, AsideFacts DEF OnceInv
  <2>3. pc' \in [Call -> States] /\ \A u \in Call : Unwritten(u)' => Unwritten(u)
    BY <2>1, <2>2 DEF OnceInv, ChannelTypes, Unwritten, States, AsideStates
  <2> QED
    BY <2>1, <2>3, QueuesKept
<1>3. ASSUME NEW t \in Call, Send(t) PROVE OnceInv'
  BY <1>3, SendOnce
<1>4. ASSUME NEW t \in Call, BeginRecv(t) \/ Receive(t) \/ RecvEof(t)
      PROVE  OnceInv'
  <2>1. UNCHANGED <<workload, handled, toServer>>
    BY <1>4 DEF BeginRecv, Receive, RecvEof, serverVars
  <2>2. \E s \in {"receiving", "recvFailed", "ok", "failed"} : pc' = [pc EXCEPT ![t] = s]
    <3>1. CASE Receive(t)
      <4>1. PICK cells : \E o \in Outcomes(t, cells) : Return(t, o.outcome, o.response)
        BY <3>1 DEF Receive
      <4>2. \A o \in Outcomes(t, cells) : o.outcome \in {"ok", "failed"}
        BY DEF Outcomes
      <4> QED
        BY <4>1, <4>2 DEF Return
    <3>2. CASE BeginRecv(t) \/ RecvEof(t)
      BY <3>2 DEF BeginRecv, RecvEof, Return
    <3> QED
      BY <1>4, <3>1, <3>2
  <2>3. pc' \in [Call -> States] /\ \A u \in Call : Unwritten(u)' => Unwritten(u)
    BY <2>2 DEF OnceInv, ChannelTypes, Unwritten, States
  <2> QED
    BY <2>1, <2>3, QueuesKept
<1>5. ASSUME NEW c \in Conn, OnMessage(c) \/ OnPartOfMessage(c) PROVE OnceInv'
  BY <1>5, OnMessageOnce, OnPartOnce
<1>6. CASE Crash \/ Restart
  BY <1>1, <1>6 DEF Crash, Restart, callerVars
<1>7. CASE UNCHANGED vars
  BY <1>1, <1>7 DEF vars, callerVars, serverVars
<1> QED
  BY <1>2, <1>3, <1>4, <1>5, <1>6, <1>7 DEF Next, CallMethod, Aside

\* Both invariants hold at first.
LEMMA InitOnce ==
  ASSUME Init
  PROVE  OnceInv /\ ConnectionInv
<1>1. OnceInv
  <2>1. \A t, i : ~ Waits(<<>>, t, i)
    BY DEF Waits
  <2>2. \A c \in Conn : toServer[c] = <<>>
    BY DEF Init
  <2>3. \A t \in Call : handled[t] = <<>>
    BY DEF Init
  <2>4. ChannelTypes
    BY EmptySeq DEF Init, ChannelTypes, States
  <2> QED
    BY <2>1, <2>2, <2>3, <2>4
       DEF OnceInv, UnwrittenWaitsNowhere, WaitsOnce, WaitsUnhandled, NoneOrOne
<1>2. ConnectionInv
  <2>1. 1 \in Conn /\ NoFd \notin Conn /\ ClosedFd \notin Conn
    BY BoundsAssumption DEF Conn, NoFd, ClosedFd
  <2>2. clientFd \in {NoFd, 1} /\ \A c \in Conn : link[c] = IF c = clientFd THEN "open" ELSE "unused"
    BY DEF Init
  <2>3. OpenedInOrder
    <3>1. CASE clientFd = NoFd
      <4>1. \A c \in Conn : link[c] # "unused" <=> c <= 0
        BY <2>1, <2>2, <3>1, BoundsAssumption DEF Conn
      <4> QED
        BY <4>1, BoundsAssumption DEF OpenedInOrder
    <3>2. CASE clientFd = 1
      <4>1. \A c \in Conn : link[c] # "unused" <=> c <= 1
        BY <2>1, <2>2, <3>2, BoundsAssumption DEF Conn
      <4> QED
        BY <4>1, BoundsAssumption DEF OpenedInOrder
    <3> QED
      BY <2>2, <3>1, <3>2
  <2> QED
    BY <2>1, <2>2, <2>3 DEF Init, ConnectionInv
<1> QED
  BY <1>1, <1>2

\* Requests and connections keep their invariants through every step of any call,
\* the provider and the faults.
THEOREM ChannelInvariance == Spec => [](OnceInv /\ ConnectionInv)
<1>1. Init => OnceInv /\ ConnectionInv
  BY InitOnce
<1>2. OnceInv /\ ConnectionInv /\ [Next]_vars => (OnceInv /\ ConnectionInv)'
  BY OnceStep, ConnectionStep DEF OnceInv
<1> QED
  BY <1>1, <1>2, PTL DEF Spec

\* A request reaches a handler at most once, however it was cut into pieces and
\* whatever failed on the way.
THEOREM AlwaysHandledOnce == Spec => []HandledOnce
<1>1. OnceInv => HandledOnce
  <2> SUFFICES ASSUME OnceInv, NEW t \in Call PROVE Len(handled[t]) <= 1
    BY DEF HandledOnce
  <2>1. CASE handled[t] = <<>>
    BY <2>1
  <2>2. CASE \E h : handled[t] = <<h>>
    BY <2>2
  <2> QED
    BY <2>1, <2>2 DEF OnceInv, NoneOrOne
<1> QED
  BY <1>1, ChannelInvariance, PTL

-----------------------------------------------------------------------------
(* A call that has its connection to itself gets its own answer *)

\* What is on the stream is what one read of one answer gives, if it was not cut.
LEMMA ReceivedWhole ==
  ASSUME NEW c, NEW cells, IsSeq(cells), toClient[c] = <<cells>>,
         NEW k \in 1..Len(toClient[c]), ~ Received(c, k).cut
  PROVE  Received(c, k).cells = cells
<1>1. k = 1
  <2>1. Len(<<cells>>) = 1
    OBVIOUS
  <2> QED
    BY <2>1
<1>2. SubSeq(toClient[c], 1, k) = <<cells>>
  <2>1. <<cells>> \in Seq({cells}) /\ Len(<<cells>>) = 1
    OBVIOUS
  <2>2. SubSeq(<<cells>>, 1, Len(<<cells>>)) = <<cells>>
    BY <2>1, SubSeqFull
  <2> QED
    BY <1>1, <2>1, <2>2
<1>3. FlattenSeq(<<cells>>) = cells
  <2>1. IsSeq(<<cells>>) /\ Len(<<cells>>) = 1
    BY TupleIsSeq
  <2>2. \A i \in DOMAIN <<cells>> : IsSeq(<<cells>>[i])
    OBVIOUS
  <2>3. <<cells>>[1] = cells
    OBVIOUS
  <2> QED
    BY <2>1, <2>2, <2>3, FlattenFacts
<1>4. Received(c, k).cells = Cut(cells, RecvSize).head
      /\ Received(c, k).cut = (Cut(cells, RecvSize).tail # <<>>)
  BY <1>2, <1>3 DEF Received
<1> QED
  BY <1>4, CutAll

\* The class of a call's answer.
AnswerFields(t) == ResponseFields(workload[t].method)

\* Bytes of an answer are read as that answer.
RepliesReadBack ==
  \A t \in Call : \A r \in workload[t].replies :
    /\ IsSeq(Serialize(AnswerFields(t), r))
    /\ Whole(Serialize(AnswerFields(t), r))
    /\ Parse(AnswerFields(t), Serialize(AnswerFields(t), r)) = r

\* A call that waits for its answer.
Waiting(t) == pc[t] \in {"sent", "receiving"}

\* A call that waits alone: on its connection there is no other call, no other
\* call's request, and no answer but its own.
WaitsAlone(t) ==
  /\ \A u \in Call \ {t} : Waiting(u) => fd[u] # fd[t]
  /\ \A i \in DOMAIN toServer[fd[t]] : toServer[fd[t]][i].call = t
  /\ \/ toClient[fd[t]] = <<>>
     \/ \E h : /\ handled[t] = <<h>>
               /\ toClient[fd[t]] = <<Serialize(AnswerFields(t), h.reply)>>

\* What a call that kept its connection to itself can return.
OwnOrDefaults(t) ==
  \/ handled[t] # <<>> /\ handled[t][1].reply = response[t]
  \/ link[fd[t]] # "open" /\ response[t] = Cleared(AnswerFields(t))

\* The inductive invariant of answers.
OwnInv ==
  /\ toClient = [c \in Conn |-> toClient[c]]
  /\ response = [t \in Call |-> response[t]]
  /\ disturbed \subseteq Call
  /\ \A t \in Call : \A h : handled[t] = <<h>> => h.reply \in workload[t].replies
  /\ \A t \in Call : pc[t] = "ok" => fd[t] \in Conn
  /\ \A t \in Call \ disturbed : Waiting(t) => WaitsAlone(t)
  /\ \A t \in Call \ disturbed : pc[t] = "ok" => OwnOrDefaults(t)

\* A connection that has ended is not opened again.
LEMMA EndedStays ==
  ASSUME ChannelTypes, ConnectionInv, [Next]_vars,
         NEW c \in Conn, link[c] # "unused", link[c] # "open"
  PROVE  link'[c] # "open"
<1>1. ASSUME NEW t \in Call, Aside(t) PROVE link'[c] # "open"
  <2>1. c # Fresh
    <3>1. Fresh \in Nat \ {0} /\ c < Fresh
      BY FreshUnused
    <3>2. c \in Nat
      BY BoundsAssumption DEF Conn
    <3> QED
      BY <3>1, <3>2
  <2>2. link' = link \/ link' = [link EXCEPT ![Fresh] = "open"]
    BY <1>1, AsideFacts
  <2> QED
    BY <2>1, <2>2 DEF ConnectionInv
<1>2. ASSUME NEW t \in Call, Send(t) PROVE link'[c] # "open"
  <2>1. link' = link \/ \E how \in {"eof", "reset"} : link' = [link EXCEPT ![clientFd] = how]
    BY <1>2 DEF Send
  <2> QED
    BY <2>1 DEF ConnectionInv
<1>3. ASSUME NEW t \in Call, BeginRecv(t) \/ Receive(t) \/ RecvEof(t)
      PROVE  link'[c] # "open"
  BY <1>3 DEF BeginRecv, Receive, RecvEof
<1>4. ASSUME Ends PROVE link'[c] # "open"
  BY <1>4 DEF Ends, ConnectionInv
<1>5. ASSUME NEW d \in Conn, OnMessage(d) \/ OnPartOfMessage(d) PROVE link'[c] # "open"
  <2>1. \E t, bytes, left : Handle(d, t, bytes, left)
    BY <1>5 DEF OnMessage, OnPartOfMessage
  <2>2. UNCHANGED link \/ Ends
    BY <2>1, DispatchKinds DEF Handle
  <2> QED
    BY <1>4, <2>2
<1>6. CASE Crash \/ Restart \/ UNCHANGED vars
  BY <1>4, <1>6 DEF Crash, Restart, vars
<1> QED
  BY <1>1, <1>2, <1>3, <1>5, <1>6 DEF Next, CallMethod, Aside

\* The end of the provider loses the last answer of a connection, or none.
LEMMA EndsAnswers ==
  ASSUME Ends
  PROVE  /\ toClient' = [c \in Conn |-> toClient'[c]]
         /\ \A c \in Conn : toClient'[c] # toClient[c] =>
              toClient[c] # <<>> /\ toClient'[c] = Front(toClient[c])
         /\ \A c \in Conn : toClient'[c] # toClient[c] =>
              toClient[c] # <<>> /\ ((\E x : toClient[c] = <<x>>) => toClient'[c] = <<>>)
<1>1. PICK unsent \in SUBSET {c \in Conn : link[c] = "open" /\ toClient[c] # <<>>} :
        toClient' = [c \in Conn |-> IF c \in unsent THEN Front(toClient[c]) ELSE toClient[c]]
  BY DEF Ends
<1>2. \A c \in Conn : toClient'[c] # toClient[c] =>
        toClient[c] # <<>> /\ toClient'[c] = Front(toClient[c])
  BY <1>1
<1>3. ASSUME NEW c \in Conn, toClient'[c] # toClient[c], NEW x, toClient[c] = <<x>>
      PROVE  toClient'[c] = <<>>
  <2>1. Front(<<x>>) = <<>>
    BY DEF Front
  <2> QED
    BY <1>2, <1>3, <2>1
<1> QED
  BY <1>1, <1>2, <1>3

\* What the caller's steps leave of a call that waits: whoever comes to its
\* connection disturbs it.
LEMMA NotDisturbed ==
  ASSUME OnceInv, ConnectionInv, OwnInv, NEW t \in Call, Waiting(t),
         NEW u \in Call \ {t}, t \notin disturbed', Send(u) \/ BeginRecv(u)
  PROVE  /\ t \notin disturbed
         /\ Waiting(u)' => fd'[u] # fd[t]
<1>1. disturbed \subseteq disturbed'
  BY DEF Send, BeginRecv
<1>2. fd[t] = clientFd => t \in Sharing(u, clientFd)
  BY DEF Sharing, Waiting
<1>3. fd = [v \in Call |-> fd[v]]
  BY DEF ConnectionInv
<1>4. CASE Send(u)
  <2>1. t \notin Sharing(u, clientFd) /\ fd'[u] = clientFd
    BY <1>3, <1>4 DEF Send
  <2> QED
    BY <1>1, <1>2, <2>1
<1>5. CASE BeginRecv(u)
  <2>1. CASE clientFd \notin Conn
    <3>1. pc'[u] = "recvFailed"
      BY <1>5, <2>1 DEF BeginRecv, OnceInv, ChannelTypes
    <3> QED
      BY <1>1, <3>1 DEF Waiting
  <2>2. CASE clientFd \in Conn /\ fd[u] = clientFd
    <3>1. fd'[u] = fd[u] /\ pc[u] = "sent"
      BY <1>3, <1>5, <2>2 DEF BeginRecv
    <3>2. fd[u] # fd[t]
      BY <1>1, <3>1 DEF OwnInv, WaitsAlone, Waiting
    <3> QED
      BY <1>1, <3>1, <3>2
  <2>3. CASE clientFd \in Conn /\ fd[u] # clientFd
    <3>1. fd'[u] = clientFd /\ t \notin Sharing(u, clientFd)
      BY <1>3, <1>5, <2>3 DEF BeginRecv
    <3> QED
      BY <1>1, <1>2, <3>1
  <2> QED
    BY <2>1, <2>2, <2>3
<1> QED
  BY <1>4, <1>5

\* Steps that write nothing, answer nothing and read no answer.
LEMMA OwnKept ==
  ASSUME ChannelTypes, OwnInv, ConnectionInv, [Next]_vars,
         UNCHANGED <<workload, handled>>,
         toClient' = [c \in Conn |-> toClient'[c]],
         \A c \in Conn : toClient'[c] # toClient[c] =>
              toClient[c] # <<>> /\ ((\E x : toClient[c] = <<x>>) => toClient'[c] = <<>>),
         \A t \in Call : Waiting(t) \/ pc[t] = "ok" => fd'[t] = fd[t],
         toServer' = toServer \/ toServer' = [c \in Conn |-> <<>>],
         response' = [t \in Call |-> response'[t]],
         disturbed \subseteq disturbed', disturbed' \subseteq Call,
         \A t \in Call : Waiting(t)' => Waiting(t),
         \A t \in Call : pc'[t] = "ok" => pc[t] = "ok" /\ response'[t] = response[t]
  PROVE  OwnInv'
<1>1. ASSUME NEW t \in Call, t \notin disturbed', Waiting(t)' PROVE WaitsAlone(t)'
  <2>1. Waiting(t) /\ WaitsAlone(t) /\ fd'[t] = fd[t]
    BY <1>1 DEF OwnInv
  <2>2. fd[t] \in Conn
    BY <2>1 DEF ConnectionInv, Waiting
  <2>3. \A i \in DOMAIN toServer'[fd[t]] : toServer'[fd[t]][i].call = t
    BY <2>1, <2>2 DEF WaitsAlone
  <2>4. \A u \in Call \ {t} : Waiting(u)' => fd'[u] # fd'[t]
    BY <2>1 DEF WaitsAlone
  <2>5. \/ toClient'[fd[t]] = <<>>
        \/ \E h : /\ handled'[t] = <<h>>
                  /\ toClient'[fd[t]] = <<Serialize(AnswerFields(t), h.reply)>>
    <3>1. CASE toClient[fd[t]] = <<>>
      BY <2>2, <3>1
    <3>2. ASSUME NEW h, handled[t] = <<h>>, toClient[fd[t]] = <<Serialize(AnswerFields(t), h.reply)>>
          PROVE  \/ toClient'[fd[t]] = <<>>
                 \/ /\ handled'[t] = <<h>>
                    /\ toClient'[fd[t]] = <<Serialize(AnswerFields(t), h.reply)>>
      <4> DEFINE cells == Serialize(AnswerFields(t), h.reply)
      <4>1. toClient[fd[t]] = <<cells>>
        BY <3>2
      <4>0. handled'[t] = <<h>>
        BY <3>2
      <4> HIDE DEF cells
      <4>2. toClient'[fd[t]] = toClient[fd[t]] \/ toClient'[fd[t]] = <<>>
        BY <2>2, <4>1
      <4>3. toClient'[fd[t]] = <<>> \/ toClient'[fd[t]] = <<cells>>
        BY <4>1, <4>2
      <4> QED
        BY <4>0, <4>3 DEF cells
    <3> QED
      BY <2>1, <3>1, <3>2 DEF WaitsAlone
  <2> QED
    BY <2>1, <2>3, <2>4, <2>5 DEF WaitsAlone, AnswerFields
<1>2. ASSUME NEW t \in Call, t \notin disturbed', pc'[t] = "ok" PROVE OwnOrDefaults(t)'
  <2>1. OwnOrDefaults(t) /\ response'[t] = response[t] /\ fd[t] \in Conn /\ fd'[t] = fd[t]
    BY <1>2 DEF OwnInv
  <2>2. link[fd[t]] # "unused"
    BY <2>1 DEF ConnectionInv
  <2>3. link[fd[t]] # "open" => link'[fd[t]] # "open"
    BY <2>1, <2>2, EndedStays
  <2> QED
    BY <2>1, <2>3 DEF OwnOrDefaults, AnswerFields
<1>3. /\ \A t \in Call : \A h : handled'[t] = <<h>> => h.reply \in workload'[t].replies
      /\ \A t \in Call : pc'[t] = "ok" => fd'[t] \in Conn
  BY DEF OwnInv
<1> QED
  BY <1>1, <1>2, <1>3 DEF OwnInv

\* The call that sends finds nothing on its connection, or counts as disturbed.
LEMMA SendOwn ==
  ASSUME OnceInv, ConnectionInv, OwnInv, NEW t \in Call, Send(t)
  PROVE  OwnInv'
<1>1. /\ UNCHANGED <<workload, handled, toClient, clientFd, response>>
      /\ fd' = [fd EXCEPT ![t] = clientFd] /\ clientFd \in Conn
      /\ pc' = [pc EXCEPT ![t] = "sent"]
      /\ disturbed' = disturbed \cup Sharing(t, clientFd)
  BY DEF Send, serverVars, ConnectionInv
<1>2. fd'[t] = clientFd /\ pc'[t] = "sent" /\ \A u \in Call \ {t} : fd'[u] = fd[u] /\ pc'[u] = pc[u]
  BY <1>1 DEF ConnectionInv, OnceInv, ChannelTypes
<1>3. \A c \in Conn \ {clientFd} : toServer'[c] = toServer[c]
  BY <1>1 DEF Send, OnceInv, ChannelTypes
<1>4. disturbed \subseteq disturbed' /\ disturbed' \subseteq Call
  BY <1>1 DEF OwnInv, Sharing
<1>5. ASSUME t \notin disturbed' PROVE WaitsAlone(t)'
  <2> DEFINE others == {u \in Call \ {t} : pc[u] \in {"sent", "receiving"} /\ fd[u] = clientFd}
  <2>1. others = {} /\ toServer[clientFd] = <<>> /\ toClient[clientFd] = <<>>
    BY <1>1, <1>5 DEF Sharing
  <2>2. \A u \in Call \ {t} : Waiting(u)' => fd'[u] # fd'[t]
    <3>1. \A u \in Call \ {t} : Waiting(u)' => fd[u] # clientFd
      BY <1>2, <2>1 DEF Waiting
    <3> QED
      BY <1>2, <3>1
  <2>3. \A i \in DOMAIN toServer'[clientFd] : toServer'[clientFd][i].call = t
    <3>1. CASE link[clientFd] = "open"
      <4> DEFINE e == [call |-> t, cells |-> SendRpcStr[workload][t]]
      <4>1. toServer'[clientFd] = Append(<<>>, e)
        BY <1>1, <2>1, <3>1 DEF Send, Live, OnceInv, ChannelTypes
      <4>2. e.call = t
        OBVIOUS
      <4> HIDE DEF e
      <4>3. toServer'[clientFd] = <<e>>
        BY <4>1
      <4> QED
        BY <4>2, <4>3
    <3>2. CASE link[clientFd] # "open"
      <4>1. toServer'[clientFd] = <<>>
        BY <1>1, <2>1, <3>2 DEF Send, Live
      <4> QED
        BY <4>1
    <3> QED
      BY <3>1, <3>2
  <2> QED
    BY <1>1, <1>2, <2>1, <2>2, <2>3 DEF WaitsAlone
<1>6. ASSUME NEW u \in Call \ {t}, u \notin disturbed', Waiting(u)' PROVE WaitsAlone(u)'
  <2>1. Waiting(u) /\ u \notin disturbed /\ WaitsAlone(u)
    BY <1>2, <1>4, <1>6 DEF Waiting, OwnInv
  <2>2. fd'[t] # fd[u]
    <3>1. Waiting(t)' => fd'[t] # fd[u]
      BY <1>6, <2>1, NotDisturbed
    <3> QED
      BY <1>2, <3>1 DEF Waiting
  <2>3. toServer'[fd[u]] = toServer[fd[u]]
    BY <1>2, <1>3, <2>1, <2>2 DEF ConnectionInv, Waiting
  <2>4. \A v \in Call \ {u} : Waiting(v)' => fd'[v] # fd'[u]
    <3>1. \A v \in Call \ {u, t} : Waiting(v)' => Waiting(v)
      BY <1>2 DEF Waiting
    <3> QED
      BY <1>2, <2>1, <2>2, <3>1 DEF WaitsAlone
  <2>5. UNCHANGED <<toClient, handled, workload>> /\ fd'[u] = fd[u]
    BY <1>1, <1>2
  <2> QED
    BY <2>1, <2>3, <2>4, <2>5 DEF WaitsAlone, AnswerFields
<1>7. ASSUME NEW u \in Call, u \notin disturbed', pc'[u] = "ok" PROVE OwnOrDefaults(u)'
  <2>1. u # t /\ pc[u] = "ok" /\ u \notin disturbed /\ fd'[u] = fd[u]
    BY <1>2, <1>4, <1>7
  <2>2. OwnOrDefaults(u) /\ fd[u] \in Conn
    BY <2>1 DEF OwnInv
  <2>3. link[fd[u]] # "unused"
    BY <2>2 DEF ConnectionInv
  <2>4. link[fd[u]] # "open" => link'[fd[u]] # "open"
    BY <2>2, <2>3, EndedStays DEF Next, CallMethod, OnceInv
  <2> QED
    BY <1>1, <2>1, <2>2, <2>4 DEF OwnOrDefaults, AnswerFields
<1>8. /\ \A u \in Call : \A h : handled'[u] = <<h>> => h.reply \in workload'[u].replies
      /\ \A u \in Call : pc'[u] = "ok" => fd'[u] \in Conn
  BY <1>1, <1>2 DEF OwnInv
<1> QED
  BY <1>1, <1>4, <1>5, <1>6, <1>7, <1>8 DEF OwnInv

\* The call that begins to wait on another connection is disturbed, and disturbs.
LEMMA BeginRecvOwn ==
  ASSUME OnceInv, ConnectionInv, OwnInv, NEW t \in Call, BeginRecv(t)
  PROVE  OwnInv'
<1>1. /\ UNCHANGED <<workload, handled, toServer, toClient, clientFd, link>>
      /\ pc[t] = "sent" /\ Waiting(t)
      /\ \A u \in Call \ {t} : pc'[u] = pc[u]
      /\ response' = [u \in Call |-> response'[u]]
  BY DEF BeginRecv, Return, serverVars, OnceInv, ChannelTypes, OwnInv, Waiting
<1>2. disturbed \subseteq disturbed' /\ disturbed' \subseteq Call
  BY DEF BeginRecv, OwnInv, Sharing
<1>3. [Next]_vars
  BY DEF Next, CallMethod
<1>4. CASE UNCHANGED fd
  <2>1. \A u \in Call : Waiting(u)' => Waiting(u)
    BY <1>1 DEF Waiting
  <2>2. pc'[t] # "ok"
    BY DEF BeginRecv, OnceInv, ChannelTypes
  <2>3. \A u \in Call : pc'[u] = "ok" => pc[u] = "ok" /\ response'[u] = response[u]
    <3>1. \A u \in Call \ {t} : response'[u] = response[u]
      BY DEF BeginRecv
    <3> QED
      BY <1>1, <2>2, <3>1
  <2>4. toClient' = [c \in Conn |-> toClient'[c]]
    BY <1>1 DEF OwnInv
  <2> QED
    BY <1>1, <1>2, <1>3, <1>4, <2>1, <2>3, <2>4, OwnKept DEF OnceInv
<1>5. CASE ~ UNCHANGED fd
  <2>1. /\ clientFd \in Conn
        /\ fd' = [fd EXCEPT ![t] = clientFd]
        /\ pc' = [pc EXCEPT ![t] = "receiving"]
        /\ UNCHANGED response
    BY <1>5 DEF BeginRecv, ConnectionInv
  <2>2. fd[t] # clientFd
    BY <1>5, <2>1 DEF ConnectionInv
  <2>3. disturbed' = disturbed \cup {t} \cup Sharing(t, clientFd)
    BY <2>1, <2>2, <1>5 DEF BeginRecv
  <2>4. fd'[t] = clientFd /\ pc'[t] = "receiving" /\ \A u \in Call \ {t} : fd'[u] = fd[u]
    BY <2>1 DEF ConnectionInv, OnceInv, ChannelTypes
  <2>5. ASSUME NEW u \in Call, u \notin disturbed', Waiting(u)' PROVE WaitsAlone(u)'
    <3>1. u # t /\ Waiting(u) /\ u \notin disturbed /\ WaitsAlone(u)
      BY <1>1, <1>2, <2>3, <2>5 DEF Waiting, OwnInv
    <3>2. fd'[t] # fd[u]
      <4>1. Waiting(t)' => fd'[t] # fd[u]
        BY <2>5, <3>1, NotDisturbed
      <4> QED
        BY <2>4, <4>1 DEF Waiting
    <3>3. \A v \in Call \ {u} : Waiting(v)' => fd'[v] # fd'[u]
      <4>1. \A v \in Call \ {u, t} : Waiting(v)' => Waiting(v)
        BY <1>1 DEF Waiting
      <4> QED
        BY <2>4, <3>1, <3>2, <4>1 DEF WaitsAlone
    <3> QED
      BY <1>1, <2>4, <3>1, <3>3 DEF WaitsAlone, AnswerFields
  <2>6. ASSUME NEW u \in Call, u \notin disturbed', pc'[u] = "ok" PROVE OwnOrDefaults(u)'
    <3>1. u # t /\ pc[u] = "ok" /\ u \notin disturbed /\ fd'[u] = fd[u]
      BY <1>1, <1>2, <2>4, <2>6
    <3> QED
      BY <1>1, <2>1, <3>1 DEF OwnInv, OwnOrDefaults, AnswerFields
  <2>7. \A u \in Call : pc'[u] = "ok" => fd'[u] \in Conn
    BY <1>1, <2>4 DEF OwnInv
  <2> QED
    BY <1>1, <1>2, <2>1, <2>5, <2>6, <2>7 DEF OwnInv
<1> QED
  BY <1>4, <1>5

\* A call that returns takes nothing from the connection of one that is alone.
LEMMA ReturnOwn ==
  ASSUME OnceInv, ConnectionInv, OwnInv, NEW t \in Call, Waiting(t), NEW o, NEW m, Return(t, o, m),
         o \in {"ok", "failed"},
         UNCHANGED <<workload, handled, toServer, fd, link>>,
         toClient' = [c \in Conn |-> toClient'[c]],
         \A c \in Conn \ {fd[t]} : toClient'[c] = toClient[c],
         disturbed \subseteq disturbed', disturbed' \subseteq Call,
         t \notin disturbed' /\ o = "ok" =>
           \/ handled[t] # <<>> /\ handled[t][1].reply = m
           \/ link[fd[t]] # "open" /\ m = Cleared(AnswerFields(t))
  PROVE  OwnInv'
<1>1. /\ pc'[t] = o /\ response'[t] = m
      /\ \A u \in Call \ {t} : pc'[u] = pc[u] /\ response'[u] = response[u]
      /\ response' = [u \in Call |-> response'[u]]
  BY DEF Return, OnceInv, ChannelTypes, OwnInv
<1>2. ASSUME NEW u \in Call, u \notin disturbed', Waiting(u)' PROVE WaitsAlone(u)'
  <2>1. u # t
    BY <1>1, <1>2 DEF Waiting
  <2>2. Waiting(u) /\ WaitsAlone(u)
    BY <1>1, <1>2, <2>1 DEF Waiting, OwnInv
  <2>3. fd[u] \in Conn /\ fd[u] # fd[t]
    BY <2>1, <2>2 DEF WaitsAlone, ConnectionInv, Waiting
  <2>4. \A v \in Call \ {u} : Waiting(v)' => Waiting(v)
    BY <1>1 DEF Waiting
  <2> QED
    BY <2>2, <2>3, <2>4 DEF WaitsAlone, AnswerFields
<1>3. ASSUME NEW u \in Call, u \notin disturbed', pc'[u] = "ok" PROVE OwnOrDefaults(u)'
  <2>1. CASE u = t
    BY <1>1, <1>3, <2>1 DEF OwnOrDefaults, AnswerFields
  <2>2. CASE u # t
    <3>1. OwnOrDefaults(u) /\ response'[u] = response[u]
      BY <1>1, <1>3, <2>2 DEF OwnInv
    <3> QED
      BY <3>1 DEF OwnOrDefaults, AnswerFields
  <2> QED
    BY <2>1, <2>2
<1>4. \A u \in Call : pc'[u] = "ok" => fd'[u] \in Conn
  BY <1>1 DEF OwnInv, ConnectionInv, Waiting
<1> QED
  BY <1>1, <1>2, <1>3, <1>4 DEF OwnInv

\* recv gives the answer, or a part of it, or several, to a disturbed call.
LEMMA ReceiveOwn ==
  ASSUME OnceInv, ConnectionInv, OwnInv, RepliesReadBack, NEW t \in Call, Receive(t)
  PROVE  OwnInv'
<1>1. pc[t] = "receiving" /\ Waiting(t) /\ fd[t] \in Conn
      /\ UNCHANGED <<workload, handled, toServer, fd, link>>
  BY DEF Receive, Waiting, ConnectionInv, serverVars
<1>2. PICK k \in 1..Len(toClient[fd[t]]) :
        /\ \E o \in Outcomes(t, Received(fd[t], k).cells) : Return(t, o.outcome, o.response)
        /\ toClient' = [toClient EXCEPT ![fd[t]] = Received(fd[t], k).left]
        /\ disturbed' = IF Received(fd[t], k).cut THEN disturbed \cup {t} ELSE disturbed
  <2>1. PICK got \in {Received(fd[t], k) : k \in 1..Len(toClient[fd[t]])} :
          /\ \E o \in Outcomes(t, got.cells) : Return(t, o.outcome, o.response)
          /\ toClient' = [toClient EXCEPT ![fd[t]] = got.left]
          /\ disturbed' = IF got.cut THEN disturbed \cup {t} ELSE disturbed
    BY Zenon DEF Receive
  <2>2. PICK k \in 1..Len(toClient[fd[t]]) : got = Received(fd[t], k)
    OBVIOUS
  <2> QED
    BY <2>1, <2>2, Zenon
<1>3. PICK o \in Outcomes(t, Received(fd[t], k).cells) : Return(t, o.outcome, o.response)
  <2>1. \E o \in Outcomes(t, Received(fd[t], k).cells) : Return(t, o.outcome, o.response)
    BY <1>2
  <2> QED
    BY <2>1, Zenon
<1>4. /\ toClient' = [c \in Conn |-> toClient'[c]]
      /\ \A c \in Conn \ {fd[t]} : toClient'[c] = toClient[c]
      /\ disturbed \subseteq disturbed' /\ disturbed' \subseteq Call
  <2> DEFINE left == Received(fd[t], k).left
  <2>1. toClient' = [toClient EXCEPT ![fd[t]] = left]
    BY <1>2
  <2> HIDE DEF left
  <2> QED
    BY <1>1, <1>2, <2>1 DEF OwnInv
<1>5. o.outcome \in {"ok", "failed"}
  BY DEF Outcomes
<1>6. ASSUME t \notin disturbed' PROVE o.outcome = "ok" /\ handled[t] # <<>> /\ handled[t][1].reply = o.response
  <2>1. ~ Received(fd[t], k).cut /\ t \notin disturbed
    BY <1>2, <1>6
  <2>2. WaitsAlone(t)
    BY <1>1, <2>1 DEF OwnInv
  <2>3. toClient[fd[t]] # <<>>
    <3>1. Len(<<>>) = 0 /\ ~ \E i \in 1..0 : TRUE
      OBVIOUS
    <3> QED
      BY <1>2, <3>1
  <2>4. PICK h : handled[t] = <<h>> /\ toClient[fd[t]] = <<Serialize(AnswerFields(t), h.reply)>>
    BY <2>2, <2>3 DEF WaitsAlone
  <2> DEFINE cells == Serialize(AnswerFields(t), h.reply)
  <2>5. h.reply \in workload[t].replies
    BY <2>4 DEF OwnInv
  <2>6. IsSeq(cells) /\ Whole(cells) /\ Parse(AnswerFields(t), cells) = h.reply
    BY <2>5 DEF RepliesReadBack
  <2>7. Received(fd[t], k).cells = cells
    <3> HIDE DEF cells
    <3>1. toClient[fd[t]] = <<cells>>
      BY <2>4 DEF cells
    <3> QED
      BY <2>1, <2>6, <3>1, ReceivedWhole
  <2>8. o \in Outcomes(t, cells)
    BY <2>7
  <2> HIDE DEF cells
  <2>9. o = [outcome |-> "ok", response |-> h.reply]
    BY <2>6, <2>8 DEF Outcomes, AnswerFields
  <2>10. handled[t] # <<>> /\ handled[t][1] = h
    BY <2>4
  <2> QED
    BY <2>9, <2>10
<1> QED
  BY <1>1, <1>3, <1>4, <1>5, <1>6, ReturnOwn

\* The provider answers on the connection the request came on.
LEMMA HandleOwn ==
  ASSUME OnceInv, ConnectionInv, OwnInv, [Next]_vars,
         NEW c \in Conn, toServer[c] # <<>>, NEW bytes, NEW left,
         bytes[1].part = "size" => toServer[c][1].cells[1].part = "size",
         Handle(c, toServer[c][1].call, bytes, left),
         UNCHANGED <<workload, callerVars>>,
         disturbed \subseteq disturbed', disturbed' \subseteq Call,
         \A t \in Call \ disturbed' :
           (\A i \in DOMAIN toServer[c] : toServer[c][i].call = t) =>
             \A i \in DOMAIN left : left[i].call = t
  PROVE  OwnInv'
<1> DEFINE t == toServer[c][1].call
<1>1. toServer[c] \in Seq(Written) /\ 1 \in DOMAIN toServer[c]
  <2>1. toServer[c] \in Seq(Written)
    BY DEF OnceInv, ChannelTypes
  <2> QED
    BY <2>1, EmptySeq, LenProperties
<1>2. t \in Call
  <2>1. toServer[c][1] \in Written
    BY <1>1, ElementOfSeq, LenProperties
  <2> QED
    BY <2>1 DEF Written
<1>3. PICK d \in Dispatch(bytes) :
        CASE d.is = "request" ->
               /\ \E r \in workload[t].replies :
                    /\ handled' = [handled EXCEPT ![t] = Append(@, [args |-> d.args, reply |-> r])]
                    /\ SendRpcResponse(c, t, r)
               /\ toServer' = [toServer EXCEPT ![c] = left]
               /\ UNCHANGED <<up, crashes, link>>
          [] d.is = "dropped" ->
               /\ toServer' = [toServer EXCEPT ![c] = left]
               /\ UNCHANGED <<up, crashes, link, handled, toClient>>
          [] d.is = "throws" ->
               /\ Ends
               /\ UNCHANGED <<crashes, handled>>
  BY DEF Handle
<1>4. /\ UNCHANGED <<pc, response, fd>>
      /\ \A u \in Call : Waiting(u)' => Waiting(u)
  BY DEF callerVars, Waiting
<1>5. CASE d.is = "throws"
  <2>1. UNCHANGED handled /\ Ends /\ toServer' = [b \in Conn |-> <<>>]
    BY <1>3, <1>5 DEF Ends
  <2>2. /\ toClient' = [b \in Conn |-> toClient'[b]]
        /\ \A b \in Conn : toClient'[b] # toClient[b] =>
             toClient[b] # <<>> /\ ((\E x : toClient[b] = <<x>>) => toClient'[b] = <<>>)
    BY <2>1, EndsAnswers
  <2> QED
    BY <1>4, <2>1, <2>2, OwnKept DEF OwnInv, OnceInv
<1>6. CASE d.is # "throws"
  <2>1. toServer' = [toServer EXCEPT ![c] = left]
    BY <1>3, <1>6, DispatchKinds
  <2>2. toServer'[c] = left /\ \A b \in Conn \ {c} : toServer'[b] = toServer[b]
    BY <2>1 DEF OnceInv, ChannelTypes
  <2>3. ASSUME NEW u \in Call, u \notin disturbed', Waiting(u)'
        PROVE  /\ Waiting(u) /\ WaitsAlone(u) /\ fd[u] \in Conn
               /\ \A i \in DOMAIN toServer'[fd[u]] : toServer'[fd[u]][i].call = u
    <3>1. Waiting(u) /\ WaitsAlone(u) /\ fd[u] \in Conn
      BY <1>4, <2>3 DEF OwnInv, ConnectionInv, Waiting
    <3>2. CASE fd[u] = c
      <4>1. \A i \in DOMAIN left : left[i].call = u
        BY <2>3, <3>1, <3>2 DEF WaitsAlone
      <4> QED
        BY <2>2, <3>1, <3>2, <4>1
    <3>3. CASE fd[u] # c
      BY <2>2, <3>1, <3>3 DEF WaitsAlone
    <3> QED
      BY <3>1, <3>2, <3>3
  <2>4. CASE UNCHANGED <<handled, toClient, link>>
    <3>1. ASSUME NEW u \in Call, u \notin disturbed', Waiting(u)' PROVE WaitsAlone(u)'
      BY <1>4, <2>3, <2>4, <3>1 DEF WaitsAlone, AnswerFields
    <3>2. ASSUME NEW u \in Call, u \notin disturbed', pc'[u] = "ok" PROVE OwnOrDefaults(u)'
      BY <1>4, <2>4, <3>2 DEF OwnInv, OwnOrDefaults, AnswerFields
    <3> QED
      BY <1>4, <2>4, <3>1, <3>2 DEF OwnInv
  <2>5. CASE d.is = "request"
    <3>1. PICK r \in workload[t].replies :
            /\ handled' = [handled EXCEPT ![t] = Append(@, [args |-> d.args, reply |-> r])]
            /\ SendRpcResponse(c, t, r)
      BY <1>3, <2>5
    <3> DEFINE h == [args |-> d.args, reply |-> r]
               cells == Serialize(AnswerFields(t), r)
    <3>2. Waits(toServer[c], t, 1)
      BY <1>1, <2>5, DispatchKinds DEF Waits
    <3>3. handled[t] = <<>>
      BY <1>2, <3>2 DEF OnceInv, WaitsUnhandled
    <3>4. handled'[t] = <<h>> /\ \A u \in Call \ {t} : handled'[u] = handled[u]
      <4>1. handled' = [handled EXCEPT ![t] = Append(@, h)]
        BY <3>1
      <4> HIDE DEF h, t
      <4>2. Append(<<>>, h) = <<h>>
        OBVIOUS
      <4> QED
        BY <1>2, <3>3, <4>1, <4>2 DEF OnceInv, ChannelTypes
    <3>5. toClient' = [toClient EXCEPT ![c] = IF cells = <<>> THEN @ ELSE Append(@, cells)]
      BY <3>1 DEF SendRpcResponse, AnswerFields
    <3>6. /\ toClient' = [b \in Conn |-> toClient'[b]]
          /\ \A b \in Conn \ {c} : toClient'[b] = toClient[b]
          /\ toClient'[c] = IF cells = <<>> THEN toClient[c] ELSE Append(toClient[c], cells)
      <4> HIDE DEF cells, t
      <4> QED
        BY <3>5 DEF OwnInv
    <3>7. UNCHANGED link
      BY <1>3, <2>5
    <3>8. ASSUME NEW u \in Call, u \notin disturbed', Waiting(u)' PROVE WaitsAlone(u)'
      <4>1. \/ toClient'[fd[u]] = <<>>
            \/ \E g : /\ handled'[u] = <<g>>
                      /\ toClient'[fd[u]] = <<Serialize(AnswerFields(u), g.reply)>>
        <5>1. CASE u = t
          <6>1. toClient[fd[u]] = <<>>
            <7>1. \A g : <<g>> # <<>>
              OBVIOUS
            <7> HIDE DEF t
            <7> QED
              BY <2>3, <3>3, <3>8, <5>1, <7>1 DEF WaitsAlone
          <6>2. CASE fd[u] = c /\ cells # <<>>
            <7>1. toClient'[c] = <<cells>>
              <8> HIDE DEF cells
              <8>1. Append(<<>>, cells) = <<cells>>
                OBVIOUS
              <8> QED
                BY <3>6, <6>1, <6>2, <8>1
            <7>2. h.reply = r
              OBVIOUS
            <7> QED
              BY <3>4, <5>1, <6>2, <7>1, <7>2
          <6>3. CASE ~ (fd[u] = c /\ cells # <<>>)
            <7>1. toClient'[fd[u]] = toClient[fd[u]]
              <8> HIDE DEF cells, t
              <8> QED
                BY <2>3, <3>6, <3>8, <6>3
            <7> QED
              BY <6>1, <7>1
          <6> QED
            BY <6>2, <6>3
        <5>2. CASE u # t
          <6>1. fd[u] # c
            <7>1. \A i \in DOMAIN toServer[fd[u]] : toServer[fd[u]][i].call = u
              BY <2>3, <3>8 DEF WaitsAlone
            <7> QED
              BY <1>1, <5>2, <7>1
          <6>2. toClient'[fd[u]] = toClient[fd[u]] /\ handled'[u] = handled[u]
            <7> HIDE DEF t, cells, h
            <7> QED
              BY <2>3, <3>4, <3>6, <3>8, <5>2, <6>1
          <6> QED
            BY <2>3, <3>8, <6>2 DEF WaitsAlone
        <5> QED
          BY <5>1, <5>2
      <4> HIDE DEF t
      <4> QED
        BY <1>4, <2>3, <3>8, <4>1 DEF WaitsAlone, AnswerFields
    <3>9. ASSUME NEW u \in Call, u \notin disturbed', pc'[u] = "ok" PROVE OwnOrDefaults(u)'
      <4>1. OwnOrDefaults(u)
        BY <1>4, <3>9 DEF OwnInv
      <4>2. handled[u] # <<>> => handled'[u] = handled[u]
        BY <3>3, <3>4
      <4> HIDE DEF t
      <4> QED
        BY <1>4, <3>7, <4>1, <4>2 DEF OwnOrDefaults, AnswerFields
    <3>10. ASSUME NEW u \in Call, NEW g, handled'[u] = <<g>> PROVE g.reply \in workload'[u].replies
      <4>1. CASE u = t
        <5>1. <<g>> = <<h>>
          BY <3>4, <3>10, <4>1
        <5>2. g = h
          <6> HIDE DEF h
          <6> QED
            BY <5>1
        <5>3. g.reply = r
          BY <5>2
        <5> QED
          BY <3>1, <4>1, <5>3
      <4>2. CASE u # t
        BY <3>4, <3>10, <4>2 DEF OwnInv
      <4> QED
        BY <4>1, <4>2
    <3> HIDE DEF t
    <3> QED
      BY <1>4, <3>6, <3>8, <3>9, <3>10 DEF OwnInv
  <2>6. CASE d.is = "dropped"
    BY <1>3, <2>4, <2>6
  <2> QED
    BY <1>6, <2>5, <2>6, DispatchKinds
<1> QED
  BY <1>5, <1>6

\* A request that is handled keeps the invariant,
LEMMA OnMessageOwn ==
  ASSUME OnceInv, ConnectionInv, OwnInv, [Next]_vars, NEW c \in Conn, OnMessage(c)
  PROVE  OwnInv'
<1>1. PICK k \in 1..Len(toServer[c]) :
        Handle(c, toServer[c][1].call, FlattenSeq([i \in 1..k |-> toServer[c][i].cells]), Unread(c, k))
  BY DEF OnMessage
<1> DEFINE bytes == FlattenSeq([i \in 1..k |-> toServer[c][i].cells])
           left  == Unread(c, k)
<1>2. toServer[c] \in Seq(Written) /\ Len(toServer[c]) \in Nat
  BY LenProperties DEF OnceInv, ChannelTypes
<1>3. k \in Nat /\ 1 <= k /\ k <= Len(toServer[c])
  BY <1>2
<1>4. toServer[c] # <<>>
  BY <1>2, <1>3
<1>5. bytes[1] = toServer[c][1].cells[1]
  BY BytesBegin DEF OnceInv
<1>6. \A i \in DOMAIN left : \E j \in DOMAIN toServer[c] : left[i] = toServer[c][j]
  <2>1. /\ DOMAIN left = 1..(Len(toServer[c]) - k)
        /\ \A i \in 1..(Len(toServer[c]) - k) : left[i] = toServer[c][i + k]
    BY <1>2, <1>3, UnreadFacts
  <2>2. DOMAIN toServer[c] = 1..Len(toServer[c])
    BY <1>2, LenProperties
  <2> HIDE DEF left
  <2> QED
    BY <1>2, <1>3, <2>1, <2>2
<1>7. Handle(c, toServer[c][1].call, bytes, left)
      /\ UNCHANGED <<workload, callerVars, disturbed>>
  BY <1>1 DEF OnMessage
<1>8. disturbed \subseteq disturbed' /\ disturbed' \subseteq Call
  BY <1>7 DEF OwnInv
<1>9. bytes[1].part = "size" => toServer[c][1].cells[1].part = "size"
  BY <1>5
<1> HIDE DEF bytes, left
<1>10. ASSUME NEW u, \A i \in DOMAIN toServer[c] : toServer[c][i].call = u
       PROVE  \A i \in DOMAIN left : left[i].call = u
  BY <1>6, <1>10
<1> QED
  BY <1>4, <1>7, <1>8, <1>9, <1>10, HandleOwn

\* so does a part of one.
LEMMA OnPartOwn ==
  ASSUME OnceInv, ConnectionInv, OwnInv, [Next]_vars, NEW c \in Conn, OnPartOfMessage(c)
  PROVE  OwnInv'
<1> DEFINE t    == toServer[c][1].call
           left == <<[call |-> t, cells |-> RestCells]>> \o Unread(c, 1)
<1>1. /\ toServer[c] # <<>> /\ toServer[c][1].cells[1].part = "size"
      /\ UNCHANGED <<workload, callerVars>>
      /\ disturbed' = disturbed \cup {t}
  BY DEF OnPartOfMessage
<1>2. PICK bytes : Handle(c, t, bytes, left)
  BY DEF OnPartOfMessage, RestCells
<1>3. toServer[c] \in Seq(Written) /\ 1 \in DOMAIN toServer[c]
  <2>1. toServer[c] \in Seq(Written)
    BY DEF OnceInv, ChannelTypes
  <2> QED
    BY <1>1, <2>1, EmptySeq, LenProperties
<1>4. t \in Call
  <2>1. toServer[c][1] \in Written
    BY <1>3, ElementOfSeq, LenProperties
  <2> QED
    BY <2>1 DEF Written
<1>5. disturbed \subseteq disturbed' /\ disturbed' \subseteq Call
  BY <1>1, <1>4 DEF OwnInv
<1>6. ASSUME NEW u \in Call \ disturbed', \A i \in DOMAIN toServer[c] : toServer[c][i].call = u
      PROVE  FALSE
  <2>1. t = u
    BY <1>3, <1>6
  <2> QED
    BY <1>1, <2>1
<1> HIDE DEF left
<1> QED
  BY <1>1, <1>2, <1>5, <1>6, HandleOwn

\* Every step leaves to a call that is alone what is its own.
LEMMA OwnStep ==
  ASSUME OnceInv, ConnectionInv, OwnInv, RepliesReadBack, [Next]_vars
  PROVE  OwnInv'
<1> USE DEF OnceInv
<1>1. ASSUME NEW t \in Call, Aside(t) PROVE OwnInv'
  <2>1. UNCHANGED <<workload, handled, toClient, toServer>>
    BY <1>1, AsideFacts DEF serverVars
  <2>2. PICK s \in AsideStates : pc' = [pc EXCEPT ![t] = s]
    BY <1>1, AsideFacts
  <2>3. response' = response \/ response' = [response EXCEPT ![t] = <<>>]
    BY <1>1, AsideFacts
  <2>4. \A u \in Call : Waiting(u)' => Waiting(u)
    BY <2>2 DEF Waiting, ChannelTypes, AsideStates
  <2>5. pc'[t] # "ok" /\ \A u \in Call \ {t} : pc'[u] = pc[u] /\ response'[u] = response[u]
    BY <2>2, <2>3 DEF ChannelTypes, OwnInv, AsideStates
  <2>6. response' = [u \in Call |-> response'[u]]
    BY <2>3 DEF OwnInv
  <2>7. disturbed \subseteq disturbed' /\ disturbed' \subseteq Call
    BY <1>1, AsideFacts DEF OwnInv
  <2>8. \A u \in Call : Waiting(u) \/ pc[u] = "ok" => fd'[u] = fd[u]
    <3>1. \/ fd' = fd
          \/ Unwritten(t) /\ \E n : fd' = [fd EXCEPT ![t] = n]
      BY <1>1, AsideFacts
    <3> QED
      BY <3>1 DEF Unwritten, Waiting, ConnectionInv
  <2>9. \A u \in Call : pc'[u] = "ok" => pc[u] = "ok" /\ response'[u] = response[u]
    BY <2>5
  <2>10. toClient' = [c \in Conn |-> toClient'[c]]
    BY <2>1 DEF OwnInv
  <2> QED
    BY <2>1, <2>4, <2>6, <2>7, <2>8, <2>9, <2>10, OwnKept
<1>2. ASSUME NEW t \in Call, Send(t) \/ BeginRecv(t) \/ Receive(t) PROVE OwnInv'
  BY <1>2, SendOwn, BeginRecvOwn, ReceiveOwn
<1>3. ASSUME NEW t \in Call, RecvEof(t) PROVE OwnInv'
  <2>1. /\ Waiting(t) /\ link[fd[t]] # "open"
        /\ Return(t, "ok", Cleared(AnswerFields(t)))
        /\ UNCHANGED <<workload, handled, toServer, toClient, fd, link, disturbed>>
    BY <1>3 DEF RecvEof, Waiting, AnswerFields, serverVars
  <2> QED
    BY <2>1, ReturnOwn DEF OwnInv
<1>4. ASSUME NEW c \in Conn, OnMessage(c) \/ OnPartOfMessage(c) PROVE OwnInv'
  BY <1>4, OnMessageOwn, OnPartOwn
<1>5. ASSUME UNCHANGED <<workload, handled, callerVars, disturbed>>,
             toClient' = toClient \/ Ends,
             toServer' = toServer \/ toServer' = [c \in Conn |-> <<>>]
      PROVE  OwnInv'
  <2>1. UNCHANGED <<pc, response, fd>>
    BY <1>5 DEF callerVars
  <2>2. \A u \in Call : Waiting(u)' => Waiting(u)
    BY <2>1 DEF Waiting
  <2>3. response' = [u \in Call |-> response'[u]] /\ disturbed' \subseteq Call
    BY <1>5, <2>1 DEF OwnInv
  <2>4. /\ toClient' = [c \in Conn |-> toClient'[c]]
        /\ \A c \in Conn : toClient'[c] # toClient[c] =>
              toClient[c] # <<>> /\ ((\E x : toClient[c] = <<x>>) => toClient'[c] = <<>>)
    BY <1>5, EndsAnswers DEF OwnInv
  <2> QED
    BY <1>5, <2>1, <2>2, <2>3, <2>4, OwnKept
<1>6. CASE Crash
  <2>1. UNCHANGED <<workload, handled, callerVars, disturbed>> /\ Ends
    BY <1>6 DEF Crash
  <2>2. toServer' = [c \in Conn |-> <<>>]
    BY <2>1 DEF Ends
  <2> QED
    BY <1>5, <2>1, <2>2
<1>7. CASE Restart \/ UNCHANGED vars
  BY <1>5, <1>7 DEF Restart, vars, serverVars
<1> QED
  BY <1>1, <1>2, <1>3, <1>4, <1>6, <1>7 DEF Next, CallMethod, Aside

\* It holds at first.
LEMMA InitOwn ==
  ASSUME Init
  PROVE  OwnInv
<1>1. /\ toClient = [c \in Conn |-> <<>>] /\ response = [t \in Call |-> <<>>] /\ disturbed = {}
      /\ \A t \in Call : pc[t] = "idle" /\ handled[t] = <<>>
  BY DEF Init
<1>2. \A h : <<h>> # <<>>
  OBVIOUS
<1> QED
  BY <1>1, <1>2 DEF OwnInv, Waiting

\* Every answer a handler may give is read back as it was.
LEMMA RepliesRead ==
  ASSUME OnceInv
  PROVE  RepliesReadBack
<1> SUFFICES ASSUME NEW t \in Call, NEW r \in workload[t].replies
             PROVE  /\ IsSeq(Serialize(AnswerFields(t), r))
                    /\ Whole(Serialize(AnswerFields(t), r))
                    /\ Parse(AnswerFields(t), Serialize(AnswerFields(t), r)) = r
  BY DEF RepliesReadBack
<1>1. workload[t].method \in RaftMethods \cup KvMethods /\ IsResponse(workload[t].method, r)
  BY WorkloadsAssumption DEF OnceInv, ChannelTypes
<1> QED
  BY <1>1, AnswersReadBack DEF AnswerFields

\* Answers keep their invariant through every step.
THEOREM OwnInvariance == Spec => []OwnInv
<1>1. Init => OwnInv
  BY InitOwn
<1>2. OnceInv /\ ConnectionInv /\ OwnInv /\ [Next]_vars => OwnInv'
  BY OwnStep, RepliesRead
<1> QED
  BY <1>1, <1>2, ChannelInvariance, PTL DEF Spec

\* A call that had its connection to itself and returns without failure returns
\* the answer its own handler gave, or defaults if the provider ended.
THEOREM AlwaysOwnAnswer == Spec => []OwnAnswer
<1>1. OwnInv => OwnAnswer
  BY DEF OwnInv, OwnAnswer, OwnOrDefaults, AnswerFields
<1> QED
  BY <1>1, OwnInvariance, PTL

-----------------------------------------------------------------------------
(* What the generated classes write and read *)

\* The arguments of a call and the header before them.
ArgsOf(call) == Serialize(RequestFields(call.method), call.args)
HeaderOf(call) == RpcHeaderOf(call, ArgsOf(call))

\* A sequence of one element.
LEMMA OneElement == ASSUME NEW S, NEW x \in S PROVE <<x>> \in Seq(S)
OBVIOUS

\* A call's arguments and its header are messages of their classes and are read
\* back.
LEMMA CallSound ==
  ASSUME NEW w \in Workloads, NEW t \in Call
  PROVE  /\ w[t].method \in RaftMethods \cup KvMethods
         /\ Class(RequestFields(w[t].method)) /\ w[t].args \in Messages(RequestFields(w[t].method))
         /\ ReadBack(RequestFields(w[t].method), w[t].args)
         /\ HeaderOf(w[t]) \in RpcHeader /\ ReadBack(RpcHeaderFields, HeaderOf(w[t]))
<1> DEFINE call == w[t]
           method == call.method
<1>1. method \in RaftMethods \cup KvMethods /\ IsRequest(method, call.args)
  BY WorkloadsAssumption
<1>2. Class(RequestFields(method)) /\ call.args \in Messages(RequestFields(method))
  BY <1>1, MethodClasses
<1>3. ReadBack(RequestFields(method), call.args)
  BY <1>2, MessageReadBack
<1>4. TotalSize(ArgsOf(call)) \in Nat
  <2>1. \E n : Goods(RequestFields(method), ArgsOf(call), n)
    BY <1>3 DEF ReadBack, ArgsOf
  <2> QED
    BY <2>1, TotalConcat DEF Goods
<1>5. HeaderOf(call) \in RpcHeader
  <2>1. \A x \in STRING : <<x>> \in Seq(STRING)
    BY OneElement
  <2>2. ServiceOf(method) \in Seq(STRING)
    <3>1. "raftRpc" \in STRING /\ "kvServerRpc" \in STRING
      BY NamesAssumption
    <3>2. <<"raftRpc">> \in Seq(STRING) /\ <<"kvServerRpc">> \in Seq(STRING)
      BY <2>1, <3>1
    <3>3. ServiceOf(method) = <<"raftRpc">> \/ ServiceOf(method) = <<"kvServerRpc">>
      BY DEF ServiceOf
    <3> QED
      BY <3>2, <3>3
  <2>3. <<method>> \in Seq(STRING)
    <3> HIDE DEF method
    <3>1. method \in STRING
      BY <1>1, NamesAssumption
    <3> QED
      BY <2>1, <3>1
  <2> QED
    BY <1>4, <2>2, <2>3 DEF HeaderOf, RpcHeaderOf, RpcHeader
<1>6. ReadBack(RpcHeaderFields, HeaderOf(call))
  BY <1>5, RpcHeaderClass, MessageReadBack
<1> QED
  BY <1>1, <1>2, <1>3, <1>5, <1>6

\* What the generated classes write has the size they announced and is read back
\* as it was, and two messages read as one are the second merged into the first.
THEOREM AlwaysWireSound == Spec => []WireSound
<1> DEFINE Sound(fields, m) ==
             LET cells == Serialize(fields, m) IN
             /\ Whole(cells) /\ Parse(fields, cells) = m
             /\ TotalSize(cells) = ByteSizeLong(fields, m)
           Merges(fields, m, n) ==
             Parse(fields, Serialize(fields, m) \o Serialize(fields, n)) = MergeFrom(fields, m, n)
<1>1. ASSUME OnceInv, NEW t \in Call
      PROVE  LET method == workload[t].method
                 args   == workload[t].args
                 header == RpcHeaderOf(workload[t], Serialize(RequestFields(method), args))
             IN  /\ header \in RpcHeader /\ Sound(RpcHeaderFields, header)
                 /\ Sound(RequestFields(method), args)
                 /\ \A r \in workload[t].replies : Sound(ResponseFields(method), r)
                 /\ \A r1, r2 \in workload[t].replies : Merges(ResponseFields(method), r1, r2)
                 /\ Merges(RequestFields(method), args, args)
  <2> DEFINE method == workload[t].method
             args   == workload[t].args
             header == RpcHeaderOf(workload[t], Serialize(RequestFields(method), args))
  <2>1. workload \in Workloads
    BY <1>1 DEF OnceInv, ChannelTypes
  <2>2. header = HeaderOf(workload[t])
    BY DEF HeaderOf, ArgsOf
  <2>3. \A fields, m : ReadBack(fields, m) => Sound(fields, m)
    BY DEF ReadBack
  <2>4. ASSUME NEW r \in workload[t].replies PROVE r \in Messages(ResponseFields(method))
    <3>1. IsResponse(method, r) /\ method \in RaftMethods \cup KvMethods
      BY <2>1, WorkloadsAssumption
    <3> QED
      BY <3>1, MethodClasses
  <2>5. Class(ResponseFields(method))
    BY <2>1, CallSound, MethodClasses
  <2>6. \A r \in workload[t].replies : Sound(ResponseFields(method), r)
    BY <2>3, <2>4, <2>5, MessageReadBack
  <2>7. \A r1, r2 \in workload[t].replies : Merges(ResponseFields(method), r1, r2)
    BY <2>4, <2>5, MessagesMerge
  <2>8. Merges(RequestFields(method), args, args)
    BY <2>1, CallSound, MessagesMerge
  <2>9. header \in RpcHeader /\ Sound(RpcHeaderFields, header) /\ Sound(RequestFields(method), args)
    BY <2>1, <2>2, <2>3, CallSound
  <2> QED
    BY <2>6, <2>7, <2>8, <2>9
<1>2. OnceInv => WireSound
  BY <1>1 DEF WireSound
<1> QED
  BY <1>2, ChannelInvariance, PTL

-----------------------------------------------------------------------------
(* What OnMessage makes of a request *)

\* A request is its size, its header and its arguments.
HeaderCells(call) == Serialize(RpcHeaderFields, HeaderOf(call))
SizeCells(call) == <<Cell("size", TotalSize(HeaderCells(call)), 4)>>

\* The parts add up to the request, and each has the bytes announced.
LEMMA RequestParts ==
  ASSUME NEW w \in Workloads, NEW t \in Call
  PROVE  /\ RequestBytes(w[t]) = SizeCells(w[t]) \o (HeaderCells(w[t]) \o ArgsOf(w[t]))
         /\ Sized(SizeCells(w[t])) /\ TotalSize(SizeCells(w[t])) = 4 /\ Len(SizeCells(w[t])) = 1
         /\ Sized(HeaderCells(w[t])) /\ TotalSize(HeaderCells(w[t])) \in Nat
         /\ Sized(ArgsOf(w[t])) /\ TotalSize(ArgsOf(w[t])) \in Nat
         /\ Sized(RequestBytes(w[t]))
         /\ \E n : Goods(RequestFields(w[t].method), ArgsOf(w[t]), n)
<1> DEFINE first  == SizeCells(w[t])
           header == HeaderCells(w[t])
           args   == ArgsOf(w[t])
<1>1. \E n : Goods(RequestFields(w[t].method), args, n)
  BY CallSound DEF ReadBack, ArgsOf
<1>2. \E n : Goods(RpcHeaderFields, header, n)
  BY CallSound DEF ReadBack, HeaderCells
<1>3. Sized(args) /\ TotalSize(args) \in Nat
  <2>1. Sized(args)
    BY <1>1 DEF Goods
  <2> QED
    BY <2>1, TotalConcat
<1>4. Sized(header) /\ TotalSize(header) \in Nat
  <2>1. Sized(header)
    BY <1>2 DEF Goods
  <2> QED
    BY <2>1, TotalConcat
<1>5. IsSeq(first) /\ Len(first) = 1 /\ first[1].size = 4
  <2>1. \A x : IsSeq(<<x>>) /\ Len(<<x>>) = 1 /\ <<x>>[1] = x
    BY TupleIsSeq
  <2> QED
    BY <2>1 DEF SizeCells, Cell
<1>6. RequestBytes(w[t]) = (first \o header) \o args
  BY DEF RequestBytes, SizeCells, HeaderCells, HeaderOf, ArgsOf
<1> HIDE DEF first, header, args
<1>7. Sized(first)
  <2>1. \A i \in 1..1 : i = 1
    OBVIOUS
  <2> QED
    BY <1>5, <2>1 DEF Sized
<1>8. TotalSize(first) = 4
  <2>1. PICK v : /\ v[0] = 0 /\ \A i \in 1..Len(first) : v[i] = v[i - 1] + first[i].size
                 /\ TotalSize(first) = v[Len(first)]
    BY <1>7, Totals
  <2>2. v[1] = v[1 - 1] + first[1].size /\ 1 - 1 = 0
    BY <1>5, <2>1
  <2> QED
    BY <1>5, <2>1, <2>2
<1>9. (first \o header) \o args = first \o (header \o args)
  <2>1. IsSeq(first) /\ IsSeq(header) /\ IsSeq(args)
    BY <1>3, <1>4, <1>7 DEF Sized
  <2> QED
    <3>1. Then(Then(first, header), args) = Then(first, Then(header, args))
      BY <2>1, ThenAssoc
    <3> QED
      BY <3>1 DEF Then
<1>10. Sized(RequestBytes(w[t]))
  BY <1>3, <1>4, <1>6, <1>7, SizedConcat
<1> QED
  BY <1>1, <1>3, <1>4, <1>5, <1>6, <1>7, <1>8, <1>9, <1>10 DEF first, header, args

\* Behind a whole header, the arguments are taken as long as they were announced.
LEMMA DispatchRequest ==
  ASSUME NEW w \in Workloads, NEW t \in Call, NEW args, Sized(args),
         NEW d \in Dispatch(SizeCells(w[t]) \o (HeaderCells(w[t]) \o args))
  PROVE  LET taken == Cut(args, TotalSize(ArgsOf(w[t]))).head IN
         IF Whole(taken) THEN d.is = "request" /\ d.args = Parse(RequestFields(w[t].method), taken)
                         ELSE d.is = "dropped"
<1> DEFINE header == HeaderCells(w[t])
           size   == TotalSize(header)
           bytes  == SizeCells(w[t]) \o (header \o args)
           taken  == Cut(args, TotalSize(ArgsOf(w[t]))).head
<1>1. Sized(header) /\ size \in Nat
  BY RequestParts
<1>2. IsSeq(header \o args)
  BY <1>1, SizedConcat DEF Sized
<1>3. Tail(bytes) = header \o args /\ bytes[1] = Cell("size", size, 4)
  BY <1>2, TailOfConcat DEF SizeCells
<1>4. bytes[1].part = "size" /\ bytes[1].value = size
  BY <1>3 DEF Cell
<1>5. Whole(header) /\ Parse(RpcHeaderFields, header) = HeaderOf(w[t])
  BY CallSound DEF ReadBack, HeaderCells
<1>6. HeaderOf(w[t]).method_name[1] = w[t].method /\ HeaderOf(w[t]).args_size = TotalSize(ArgsOf(w[t]))
  BY DEF HeaderOf, RpcHeaderOf
<1>7. Cut(header \o args, size) = [head |-> header, tail |-> args]
  BY <1>1, CutWhole
<1>8. d \in Dispatch(bytes)
  OBVIOUS
<1> HIDE DEF bytes, header, size
<1>9. d \in DispatchHeader(size, Cut(header \o args, size))
  BY <1>3, <1>4, <1>8 DEF Dispatch
<1> DEFINE cut == [head |-> header, tail |-> args]
<1>10. d \in DispatchHeader(size, cut)
  BY <1>7, <1>9
<1>11. cut.head = header /\ cut.tail = args
  OBVIOUS
<1> HIDE DEF cut
<1>12. ~ (TotalSize(cut.head) < size)
  BY <1>1, <1>11 DEF size
<1>13. d = DispatchArgs(HeaderOf(w[t]).method_name[1], Cut(args, HeaderOf(w[t]).args_size).head)
  BY <1>5, <1>10, <1>11, <1>12 DEF DispatchHeader
<1>14. d = DispatchArgs(w[t].method, taken)
  BY <1>6, <1>13
<1> HIDE DEF taken
<1>15. IF Whole(taken) THEN d.is = "request" /\ d.args = Parse(RequestFields(w[t].method), taken)
                       ELSE d.is = "dropped"
  BY <1>14 DEF DispatchArgs, Dropped
<1> QED
  BY <1>15 DEF taken

\* A request that arrives whole is the one that was sent, whatever follows it;
LEMMA DispatchWhole ==
  ASSUME NEW w \in Workloads, NEW t \in Call, NEW rest, Sized(rest),
         NEW d \in Dispatch(RequestBytes(w[t]) \o rest)
  PROVE  d.is = "request" /\ d.args = w[t].args
<1> DEFINE first  == SizeCells(w[t])
           header == HeaderCells(w[t])
           args   == ArgsOf(w[t])
<1>1. /\ RequestBytes(w[t]) = first \o (header \o args)
      /\ Sized(first) /\ Sized(header) /\ Sized(args)
  BY RequestParts
<1>2. Whole(args) /\ Parse(RequestFields(w[t].method), args) = w[t].args
  BY CallSound DEF ReadBack, ArgsOf
<1>3. RequestBytes(w[t]) \o rest = first \o (header \o (args \o rest))
  <2> HIDE DEF first, header, args
  <2>1. IsSeq(first) /\ IsSeq(header) /\ IsSeq(args) /\ IsSeq(rest) /\ IsSeq(header \o args)
    BY <1>1, SizedConcat DEF Sized
  <2>2. (first \o (header \o args)) \o rest = first \o ((header \o args) \o rest)
    <3> DEFINE both == header \o args
    <3>1. IsSeq(both)
      BY <2>1
    <3> HIDE DEF both
    <3>2. Then(Then(first, both), rest) = Then(first, Then(both, rest))
      BY <2>1, <3>1, ThenAssoc
    <3>3. (first \o both) \o rest = first \o (both \o rest)
      BY <3>2 DEF Then
    <3> QED
      BY <3>3, Zenon DEF both
  <2>3. (header \o args) \o rest = header \o (args \o rest)
    <3>1. Then(Then(header, args), rest) = Then(header, Then(args, rest))
      BY <2>1, ThenAssoc
    <3> QED
      BY <3>1 DEF Then
  <2> QED
    BY <1>1, <2>2, <2>3, Zenon
<1>4. Sized(args \o rest)
  BY <1>1, SizedConcat
<1>5. Cut(args \o rest, TotalSize(args)).head = args
  <2> HIDE DEF args
  <2>1. Cut(args \o rest, TotalSize(args)) = [head |-> args, tail |-> rest]
    BY <1>1, CutWhole
  <2> QED
    BY <2>1
<1> DEFINE taken == Cut(args \o rest, TotalSize(args)).head
<1>6. Whole(taken) => d.is = "request" /\ d.args = Parse(RequestFields(w[t].method), taken)
  BY <1>3, <1>4, DispatchRequest
<1> QED
  BY <1>2, <1>5, <1>6

\* of one that arrives in part, a handler gets what can be read as a request, if
\* it gets anything.
LEMMA DispatchPart ==
  ASSUME NEW w \in Workloads, NEW t \in Call,
         NEW n \in 1..(TotalSize(RequestBytes(w[t])) - 1),
         NEW d \in Dispatch(Cut(RequestBytes(w[t]), n).head), d.is = "request"
  PROVE  IsRequest(w[t].method, d.args)
<1> DEFINE first  == SizeCells(w[t])
           header == HeaderCells(w[t])
           args   == ArgsOf(w[t])
           size   == TotalSize(header)
           bytes  == Cut(RequestBytes(w[t]), n).head
           fields == RequestFields(w[t].method)
<1>1. /\ RequestBytes(w[t]) = first \o (header \o args)
      /\ Sized(first) /\ TotalSize(first) = 4 /\ Len(first) = 1
      /\ Sized(header) /\ size \in Nat
      /\ Sized(args) /\ TotalSize(args) \in Nat
      /\ \E k : Goods(fields, args, k)
  BY RequestParts
<1>2. Sized(header \o args) /\ TotalSize(header \o args) = size + TotalSize(args)
  BY <1>1, SizedConcat, TotalConcat
<1>3. TotalSize(RequestBytes(w[t])) = 4 + (size + TotalSize(args))
  BY <1>1, <1>2, TotalConcat
<1>4. n \in Nat /\ n >= 1 /\ n < 4 + (size + TotalSize(args))
  <2> DEFINE total == TotalSize(RequestBytes(w[t]))
  <2>1. total \in Nat /\ n \in 1..(total - 1)
    BY <1>1, <1>3
  <2> HIDE DEF total
  <2>2. n \in Nat /\ n >= 1 /\ n < total
    BY <2>1
  <2> QED
    BY <1>3, <2>2 DEF total
<1>5. d \in Dispatch(bytes)
  OBVIOUS
<1>6. CASE n < 4
  <2>1. bytes = Cut(first, n).head
    <3>1. n < TotalSize(first)
      BY <1>1, <1>6
    <3> HIDE DEF first, header, args
    <3> QED
      BY <1>1, <1>2, <1>4, <3>1, CutBefore
  <2> HIDE DEF first, bytes
  <2>2. SubSeq(first, 1, 1) = first
    BY <1>1, SubSeqFull DEF Sized, IsSeq
  <2>3. SubSeq(first, 1, 0) = <<>>
    <3>1. IsSeq(SubSeq(first, 1, 0)) /\ Len(SubSeq(first, 1, 0)) = 0
      <4>1. 0 \in 0..Len(first)
        BY <1>1
      <4> QED
        BY <1>1, <4>1, PrefixFacts DEF Sized
    <3> QED
      BY <3>1, SeqFacts
  <2>0. n \in Nat \ {0}
    BY <1>4
  <2>8. TotalSize(SubSeq(first, 1, 0)) = 0
    BY <2>3, TotalNone, Zenon
  <2>9. TotalSize(SubSeq(first, 1, 1)) = 4
    BY <1>1, <2>2, Zenon
  <2>4. Fitting(first, n, 0)
    <3>1. TotalSize(SubSeq(first, 1, 0)) <= n
      BY <2>0, <2>8
    <3>2. TotalSize(SubSeq(first, 1, 0 + 1)) > n
      <4>1. 0 + 1 = 1
        OBVIOUS
      <4>2. TotalSize(SubSeq(first, 1, 0 + 1)) = 4
        BY <2>9, <4>1, Zenon
      <4> QED
        BY <1>6, <2>0, <4>2
    <3> QED
      BY <3>1, <3>2 DEF Fitting
  <2>5. bytes = HeadAt(first, n, 0)
    <3>1. 0 \in 0..Len(first) /\ n <= TotalSize(first)
      BY <1>1, <1>4, <1>6
    <3> QED
      BY <1>1, <1>4, <2>1, <2>4, <3>1, CutHead
  <2>6. bytes = <<>> \o TornCells(n)
    <3>1. n # TotalSize(SubSeq(first, 1, 0)) /\ n - TotalSize(SubSeq(first, 1, 0)) = n
      BY <2>0, <2>8
    <3> QED
      BY <2>3, <2>5, <3>1 DEF HeadAt
  <2>7. bytes[1].part = "torn"
    <3>1. \A x : IsSeq(<<x>>) /\ <<x>>[1] = x
      BY TupleIsSeq
    <3>2. IsSeq(TornCells(n)) /\ TornCells(n)[1].part = "torn"
      BY <3>1 DEF TornCells, Cell
    <3> QED
      BY <2>6, <3>2, ConcatNone
  <2> QED
    BY <1>5, <2>7, DispatchKinds
<1>7. CASE ~ (n < 4)
  <2> DEFINE m == n - 4
             behind == Cut(header \o args, m).head
  <2>1. m \in Nat /\ m <= size + TotalSize(args) /\ 4 + m = n
    BY <1>1, <1>4, <1>7
  <2>2. bytes = first \o behind
    <3> HIDE DEF first, header, args, m
    <3> QED
      BY <1>1, <1>2, <2>1, CutPast
  <2>3. CASE m < size
    <3>1. behind = Cut(header, m).head
      <4> HIDE DEF header, args, m
      <4> QED
        BY <1>1, <2>1, <2>3, CutBefore DEF size
    <3>2. Sized(behind) /\ TotalSize(behind) = m
      <4>1. m <= TotalSize(header)
        BY <1>1, <2>1, <2>3
      <4> HIDE DEF header, args, m
      <4> QED
        BY <1>1, <2>1, <3>1, <4>1, HeadSized
    <3>3. Tail(bytes) = behind /\ bytes[1] = Cell("size", size, 4)
      <4> HIDE DEF behind, bytes
      <4> QED
        BY <2>2, <3>2, TailOfConcat DEF Sized, SizeCells
    <3>4. bytes[1].part = "size" /\ bytes[1].value = size
      BY <3>3 DEF Cell
    <3> HIDE DEF behind, bytes, size, m
    <3>5. d \in DispatchHeader(size, Cut(behind, size))
      BY <1>5, <3>3, <3>4 DEF Dispatch
    <3>6. Cut(behind, size) = [head |-> behind, tail |-> <<>>]
      BY <1>1, <2>1, <2>3, <3>2, CutShort
    <3> DEFINE cut == Cut(behind, size)
    <3>7. TotalSize(cut.head) < size
      BY <2>3, <3>2, <3>6
    <3> HIDE DEF cut
    <3>8. d \in {Dropped, Throws}
      BY <3>5, <3>7 DEF DispatchHeader, cut
    <3> QED
      BY <3>8 DEF Dropped, Throws
  <2>4. CASE ~ (m < size)
    <3> DEFINE l == m - size
               part == Cut(args, l).head
    <3>1. l \in Nat /\ l <= TotalSize(args) /\ size + l = m
      <4> HIDE DEF size, m
      <4> QED
        BY <1>1, <2>1, <2>4
    <3>2. behind = header \o part
      <4> HIDE DEF header, args, m, l
      <4> QED
        BY <1>1, <3>1, CutPast DEF size
    <3>3. Sized(part) /\ TotalSize(part) = l
      <4> HIDE DEF args, l
      <4> QED
        BY <1>1, <3>1, HeadSized
    <3>4. Whole(Cut(part, TotalSize(args)).head)
          /\ d.args = Parse(fields, Cut(part, TotalSize(args)).head)
      <4>1. d \in Dispatch(first \o (header \o part))
        BY <1>5, <2>2, <3>2
      <4> HIDE DEF part
      <4>2. d.is # "dropped"
        OBVIOUS
      <4> QED
        BY <3>3, <4>1, <4>2, DispatchRequest
    <3>5. Cut(part, TotalSize(args)).head = part
      <4> HIDE DEF args, part, l
      <4>1. Cut(part, TotalSize(args)) = [head |-> part, tail |-> <<>>]
        BY <1>1, <3>1, <3>3, CutShort
      <4> QED
        BY <4>1
    <3>6. Class(fields) /\ Sized(args) /\ Follows(fields, args)
      BY <1>1, CallSound, GoodsFollow
    <3>7. Parse(fields, part) \in Messages(fields)
      <4>1. Whole(part)
        BY <3>4, <3>5
      <4> HIDE DEF fields, args, l
      <4> QED
        BY <3>1, <3>6, <4>1, HeadParses
    <3>8. d.args \in Messages(fields)
      BY <3>4, <3>5, <3>7
    <3> QED
      BY <3>8, CallSound, MethodClasses
  <2> QED
    BY <2>3, <2>4
<1> QED
  BY <1>6, <1>7

-----------------------------------------------------------------------------
(* What is read *)

\* A queue of the provider holds requests of the calls that wrote them.
OwnBytes ==
  \A c \in Conn : \A i \in DOMAIN toServer[c] :
    \/ toServer[c][i].cells = RestCells
    \/ toServer[c][i].cells = RequestBytes(workload[toServer[c][i].call])

\* A connection carries answers to the caller.
Answers ==
  /\ toClient = [c \in Conn |-> toClient[c]]
  /\ \A c \in Conn : Streams(toClient[c])

\* A handler gets a request of its class,
HandledTypes ==
  \A t \in Call : \A i \in DOMAIN handled[t] : IsRequest(workload[t].method, handled[t][i].args)

\* a call that returns has an answer of its class, the others have none,
ResponseTypes ==
  /\ response = [t \in Call |-> response[t]]
  /\ \A t \in Call : IF pc[t] = "ok" THEN IsResponse(workload[t].method, response[t])
                     ELSE response[t] = <<>>

\* and crashes and requests in pieces stay within the faults.
FaultsCounted ==
  /\ up \in BOOLEAN /\ pieces \subseteq Call /\ IsFiniteSet(pieces)
  /\ crashes \in Nat /\ crashes + Cardinality(pieces) <= Faults

\* The inductive invariant of what is read.
ReadInv ==
  /\ OwnBytes /\ Answers
  /\ HandledAsSent /\ HandledTypes /\ ResponseTypes
  /\ FaultsCounted /\ disturbed \subseteq Call

-----------------------------------------------------------------------------
(* What the provider reads *)

\* A handler runs, or nothing is answered.
LEMMA HandleEffects ==
  ASSUME NEW c, NEW t, NEW bytes, NEW left, Handle(c, t, bytes, left), up \in BOOLEAN
  PROVE  /\ crashes' = crashes /\ up' \in BOOLEAN
         /\ \/ toServer' = [toServer EXCEPT ![c] = left]
            \/ toServer' = [d \in Conn |-> <<>>]
         /\ \/ handled' = handled /\ (toClient' = toClient \/ Ends)
            \/ \E d \in Dispatch(bytes) :
                 /\ d.is = "request"
                 /\ \E r \in workload[t].replies :
                      /\ handled' = [handled EXCEPT ![t] = Append(@, [args |-> d.args, reply |-> r])]
                      /\ SendRpcResponse(c, t, r)
<1>1. PICK d \in Dispatch(bytes) :
        CASE d.is = "request" ->
               /\ \E r \in workload[t].replies :
                    /\ handled' = [handled EXCEPT ![t] = Append(@, [args |-> d.args, reply |-> r])]
                    /\ SendRpcResponse(c, t, r)
               /\ toServer' = [toServer EXCEPT ![c] = left]
               /\ UNCHANGED <<up, crashes, link>>
          [] d.is = "dropped" ->
               /\ toServer' = [toServer EXCEPT ![c] = left]
               /\ UNCHANGED <<up, crashes, link, handled, toClient>>
          [] d.is = "throws" ->
               /\ Ends
               /\ UNCHANGED <<crashes, handled>>
  BY DEF Handle
<1>2. CASE d.is = "request"
  BY <1>1, <1>2
<1>3. CASE d.is = "dropped"
  BY <1>1, <1>3
<1>4. CASE d.is = "throws"
  BY <1>1, <1>4 DEF Ends
<1> QED
  BY <1>2, <1>3, <1>4, DispatchKinds

\* What waits on a queue.
LEMMA QueueFacts ==
  ASSUME OnceInv, OwnBytes, NEW c \in Conn, NEW i \in 1..Len(toServer[c])
  PROVE  /\ toServer[c] \in Seq(Written) /\ Len(toServer[c]) \in Nat
         /\ i \in DOMAIN toServer[c] /\ toServer[c][i].call \in Call
         /\ Sized(toServer[c][i].cells)
         /\ toServer[c][i].cells[1].part = "size" =>
              toServer[c][i].cells = RequestBytes(workload[toServer[c][i].call])
<1>1. toServer[c] \in Seq(Written) /\ Len(toServer[c]) \in Nat
  BY LenProperties DEF OnceInv, ChannelTypes
<1>2. i \in DOMAIN toServer[c] /\ toServer[c][i] \in Written
  BY <1>1, ElementOfSeq
<1>3. workload \in Workloads /\ toServer[c][i].call \in Call
  BY <1>2 DEF OnceInv, ChannelTypes, Written
<1>4. Sized(RequestBytes(workload[toServer[c][i].call]))
  BY <1>3, RequestParts
<1>5. Sized(RestCells) /\ RestCells[1].part # "size"
  <2>1. IsSeq(RestCells) /\ Len(RestCells) = 1 /\ RestCells[1] = Cell("rest", <<>>, 1)
    BY TupleIsSeq DEF RestCells
  <2>2. \A j \in 1..1 : j = 1
    OBVIOUS
  <2>3. RestCells[1].size = 1 /\ RestCells[1].part = "rest"
    BY <2>1 DEF Cell
  <2> QED
    BY <2>1, <2>2, <2>3 DEF Sized
<1> QED
  BY <1>1, <1>2, <1>3, <1>4, <1>5 DEF OwnBytes

\* OnMessage takes the request at the head of the queue for what it is, and keeps
\* the others; what is left of one that arrived in pieces is no request.
LEMMA OnMessageTakes ==
  ASSUME OnceInv, OwnBytes, NEW c \in Conn, OnMessage(c)
  PROVE  LET t == toServer[c][1].call IN
         /\ t \in Call
         /\ \E bytes, left :
              /\ Handle(c, t, bytes, left)
              /\ \A i \in DOMAIN left : \E j \in DOMAIN toServer[c] : left[i] = toServer[c][j]
              /\ \A d \in Dispatch(bytes) :
                   IF toServer[c][1].cells[1].part = "size"
                     THEN d.is = "request" /\ d.args = workload[t].args
                     ELSE d.is # "request"
<1> DEFINE t == toServer[c][1].call
<1>1. PICK k \in 1..Len(toServer[c]) :
        Handle(c, t, FlattenSeq([i \in 1..k |-> toServer[c][i].cells]), Unread(c, k))
  BY DEF OnMessage
<1> DEFINE s == [i \in 1..k |-> toServer[c][i].cells]
           bytes == FlattenSeq(s)
           left == Unread(c, k)
<1>2. toServer[c] \in Seq(Written) /\ Len(toServer[c]) \in Nat
  BY LenProperties DEF OnceInv, ChannelTypes
<1>3. k \in Nat /\ 1 <= k /\ k <= Len(toServer[c]) /\ 1 \in 1..Len(toServer[c]) /\ 1 \in 1..k
  BY <1>2
<1>4. t \in Call
  BY <1>3, QueueFacts
<1>5. IsSeq(s) /\ Len(s) = k /\ DOMAIN s = 1..k /\ s[1] = toServer[c][1].cells
  BY <1>3, SeqOfFunction
<1>6. \A i \in DOMAIN s : Sized(s[i])
  <2> SUFFICES ASSUME NEW i \in 1..k PROVE Sized(toServer[c][i].cells)
    BY <1>5
  <2>1. i \in 1..Len(toServer[c])
    BY <1>3
  <2> QED
    BY <2>1, QueueFacts
<1>7. bytes[1] = toServer[c][1].cells[1]
  BY BytesBegin DEF OnceInv
<1>8. \E rest : Sized(rest) /\ bytes = s[1] \o rest
  <2> HIDE DEF s
  <2> QED
    BY <1>3, <1>5, <1>6, FlattenBegins
<1>9. Handle(c, t, bytes, left)
  BY <1>1
<1>10. \A i \in DOMAIN left : \E j \in DOMAIN toServer[c] : left[i] = toServer[c][j]
  <2>1. /\ DOMAIN left = 1..(Len(toServer[c]) - k)
        /\ \A i \in 1..(Len(toServer[c]) - k) : left[i] = toServer[c][i + k]
    BY <1>2, <1>3, UnreadFacts
  <2>2. DOMAIN toServer[c] = 1..Len(toServer[c])
    BY <1>2, LenProperties
  <2> HIDE DEF t, s, bytes, left
  <2> SUFFICES ASSUME NEW i \in DOMAIN left PROVE \E j \in DOMAIN toServer[c] : left[i] = toServer[c][j]
    OBVIOUS
  <2>3. i + k \in DOMAIN toServer[c]
    BY <1>2, <1>3, <2>1, <2>2
  <2>4. left[i] = toServer[c][i + k]
    BY <2>1
  <2> QED
    BY <2>3, <2>4
<1> HIDE DEF bytes, s, left
<1>11. ASSUME NEW d \in Dispatch(bytes)
       PROVE  IF toServer[c][1].cells[1].part = "size"
                THEN d.is = "request" /\ d.args = workload[t].args
                ELSE d.is # "request"
  <2>1. CASE toServer[c][1].cells[1].part = "size"
    <3>1. toServer[c][1].cells = RequestBytes(workload[t])
      BY <1>3, <2>1, QueueFacts
    <3>2. PICK rest : Sized(rest) /\ bytes = RequestBytes(workload[t]) \o rest
      BY <1>5, <1>8, <3>1
    <3>3. workload \in Workloads
      BY DEF OnceInv, ChannelTypes
    <3> HIDE DEF t
    <3>4. d.is = "request" /\ d.args = workload[t].args
      BY <1>4, <3>2, <3>3, DispatchWhole
    <3> QED
      BY <2>1, <3>4
  <2>2. CASE toServer[c][1].cells[1].part # "size"
    <3>1. d.is # "request"
      BY <1>7, <2>2, DispatchKinds
    <3> QED
      BY <2>2, <3>1
  <2> QED
    BY <2>1, <2>2
<1> QED
  BY <1>4, <1>9, <1>10, <1>11

\* OnMessage hands a handler what was sent.
LEMMA OnMessageReads ==
  ASSUME OnceInv, OwnBytes, up \in BOOLEAN, NEW c \in Conn, OnMessage(c)
  PROVE  LET t == toServer[c][1].call IN
         /\ t \in Call
         /\ \/ handled' = handled /\ (toClient' = toClient \/ Ends)
            \/ \E r \in workload[t].replies :
                 /\ handled' = [handled EXCEPT ![t] =
                                  Append(@, [args |-> workload[t].args, reply |-> r])]
                 /\ SendRpcResponse(c, t, r)
<1> DEFINE t == toServer[c][1].call
<1>1. t \in Call
  BY OnMessageTakes
<1>2. PICK bytes, left : /\ Handle(c, t, bytes, left)
                         /\ \A d \in Dispatch(bytes) : d.is = "request" => d.args = workload[t].args
  BY OnMessageTakes
<1> HIDE DEF t
<1>3. \/ handled' = handled /\ (toClient' = toClient \/ Ends)
      \/ \E r \in workload[t].replies :
           /\ handled' = [handled EXCEPT ![t] =
                            Append(@, [args |-> workload[t].args, reply |-> r])]
           /\ SendRpcResponse(c, t, r)
  BY <1>2, HandleEffects
<1> QED
  BY <1>1, <1>3 DEF t

\* OnMessage hands it what can be read as a request when only a part has arrived.
LEMMA OnPartReads ==
  ASSUME OnceInv, OwnBytes, up \in BOOLEAN, NEW c \in Conn, OnPartOfMessage(c)
  PROVE  LET t == toServer[c][1].call IN
         /\ t \in Call
         /\ pieces' = pieces \cup {t} /\ disturbed' = disturbed \cup {t}
         /\ \/ handled' = handled /\ (toClient' = toClient \/ Ends)
            \/ \E args : \E r \in workload[t].replies :
                 /\ IsRequest(workload[t].method, args)
                 /\ handled' = [handled EXCEPT ![t] = Append(@, [args |-> args, reply |-> r])]
                 /\ SendRpcResponse(c, t, r)
<1> DEFINE t == toServer[c][1].call
           cells == toServer[c][1].cells
<1>1. /\ toServer[c] # <<>> /\ cells[1].part = "size"
      /\ pieces' = pieces \cup {t} /\ disturbed' = disturbed \cup {t}
      /\ \E bytes \in {Cut(cells, n).head : n \in 1..(TotalSize(cells) - 1)} : \E left :
           Handle(c, t, bytes, left)
  BY DEF OnPartOfMessage
<1>2. PICK n \in 1..(TotalSize(cells) - 1) : \E left : Handle(c, t, Cut(cells, n).head, left)
  BY <1>1
<1>3. PICK left : Handle(c, t, Cut(cells, n).head, left)
  BY <1>2
<1>4. 1 \in 1..Len(toServer[c])
  <2>1. toServer[c] \in Seq(Written)
    BY DEF OnceInv, ChannelTypes
  <2> QED
    BY <1>1, <2>1, EmptySeq, LenProperties
<1>5. t \in Call /\ cells = RequestBytes(workload[t]) /\ workload \in Workloads
  BY <1>1, <1>4, QueueFacts DEF OnceInv, ChannelTypes
<1> HIDE DEF t, cells
<1>6. ASSUME NEW d \in Dispatch(Cut(cells, n).head), d.is = "request"
      PROVE  IsRequest(workload[t].method, d.args)
  <2>1. n \in 1..(TotalSize(RequestBytes(workload[t])) - 1)
    BY <1>5
  <2>2. d \in Dispatch(Cut(RequestBytes(workload[t]), n).head)
    BY <1>5
  <2> QED
    BY <1>5, <1>6, <2>1, <2>2, DispatchPart
<1> DEFINE bytes == Cut(cells, n).head
<1>7. Handle(c, t, bytes, left) /\ \A d \in Dispatch(bytes) :
        d.is = "request" => IsRequest(workload[t].method, d.args)
  BY <1>3, <1>6
<1> HIDE DEF bytes
<1>8. \/ handled' = handled /\ (toClient' = toClient \/ Ends)
      \/ \E args : \E r \in workload[t].replies :
           /\ IsRequest(workload[t].method, args)
           /\ handled' = [handled EXCEPT ![t] = Append(@, [args |-> args, reply |-> r])]
           /\ SendRpcResponse(c, t, r)
  BY <1>7, HandleEffects
<1> QED
  BY <1>1, <1>5, <1>8 DEF t

\* No step changes what the calls ask for.
LEMMA WorkloadStays == ASSUME [Next]_vars PROVE workload' = workload
BY DEF Next, CallMethod, Start, Connect, Connected, Send, SendFails, Close, Clear, Fail,
       BeginRecv, Receive, RecvEof, RecvError, OnMessage, OnPartOfMessage, Crash, Restart, vars

\* Each request on a queue stays one of the call that wrote it.
LEMMA OwnBytesStep ==
  ASSUME OnceInv, ConnectionInv, OwnBytes, up \in BOOLEAN, [Next]_vars
  PROVE  OwnBytes'
<1>1. workload' = workload
  BY WorkloadStays
<1> DEFINE Own(e) == e.cells = RestCells \/ e.cells = RequestBytes(workload[e.call])
<1>2. OwnBytes <=> \A c \in Conn : \A i \in DOMAIN toServer[c] : Own(toServer[c][i])
  BY DEF OwnBytes
<1>3. OwnBytes' <=> \A c \in Conn : \A i \in DOMAIN toServer'[c] : Own(toServer'[c][i])
  BY <1>1 DEF OwnBytes
<1> HIDE DEF Own
<1>4. ASSUME NEW c \in Conn, NEW q, toServer' = [toServer EXCEPT ![c] = q],
             \A i \in DOMAIN q : Own(q[i])
      PROVE  OwnBytes'
  BY <1>2, <1>3, <1>4 DEF OnceInv, ChannelTypes
<1>5. ASSUME toServer' = [c \in Conn |-> <<>>] PROVE OwnBytes'
  BY <1>3, <1>5
<1>6. ASSUME UNCHANGED toServer PROVE OwnBytes'
  BY <1>2, <1>3, <1>6
<1>7. ASSUME NEW t \in Call, Send(t) PROVE OwnBytes'
  <2>1. CASE ~Live(clientFd)
    <3>1. UNCHANGED toServer
      BY <1>7, <2>1 DEF Send
    <3> QED
      BY <1>6, <3>1
  <2>2. CASE Live(clientFd)
    <3> DEFINE c == clientFd
               e == [call |-> t, cells |-> RequestBytes(workload[t])]
               q == Append(toServer[c], e)
    <3>1. c \in Conn
      BY <1>7 DEF Send, ConnectionInv
    <3>2. toServer' = [toServer EXCEPT ![c] = q]
      BY <1>7, <2>2 DEF Send, SendRpcStr, OnceInv, ChannelTypes
    <3>3. toServer[c] \in Seq(Written)
      BY <3>1 DEF OnceInv, ChannelTypes
    <3>4. e \in Written
      BY DEF Written
    <3>5. Own(e)
      BY DEF Own
    <3> HIDE DEF e, c
    <3>6. /\ q \in Seq(Written) /\ Len(q) = Len(toServer[c]) + 1
          /\ \A j \in 1..Len(toServer[c]) : q[j] = toServer[c][j]
          /\ q[Len(toServer[c]) + 1] = e
      BY <3>3, <3>4, AppendProperties
    <3> HIDE DEF q
    <3>7. /\ DOMAIN q = 1..(Len(toServer[c]) + 1) /\ Len(toServer[c]) \in Nat
          /\ DOMAIN toServer[c] = 1..Len(toServer[c])
      BY <3>3, <3>6, LenProperties
    <3>8. ASSUME NEW i \in DOMAIN q PROVE Own(q[i])
      <4>1. CASE i \in 1..Len(toServer[c])
        BY <1>2, <3>1, <3>6, <3>7, <4>1
      <4>2. CASE i = Len(toServer[c]) + 1
        BY <3>5, <3>6, <4>2
      <4> QED
        BY <3>7, <4>1, <4>2
    <3> QED
      BY <1>4, <3>1, <3>2, <3>8
  <2> QED
    BY <2>1, <2>2
<1>8. ASSUME NEW c \in Conn, OnMessage(c) PROVE OwnBytes'
  <2>1. PICK k \in 1..Len(toServer[c]) : \E t, bytes : Handle(c, t, bytes, Unread(c, k))
    BY <1>8 DEF OnMessage
  <2>2. PICK t, bytes : Handle(c, t, bytes, Unread(c, k))
    BY <2>1
  <2> DEFINE q == Unread(c, k)
  <2>3. toServer[c] \in Seq(Written) /\ Len(toServer[c]) \in Nat /\ DOMAIN toServer[c] = 1..Len(toServer[c])
    BY LenProperties DEF OnceInv, ChannelTypes
  <2>4. k \in Nat /\ 1 <= k /\ k <= Len(toServer[c])
    BY <2>3
  <2>5. DOMAIN q = 1..(Len(toServer[c]) - k) /\ \A i \in 1..(Len(toServer[c]) - k) : q[i] = toServer[c][i + k]
    BY <2>3, <2>4, UnreadFacts
  <2>6. Handle(c, t, bytes, q)
    BY <2>2
  <2> HIDE DEF q
  <2>7. ASSUME NEW i \in DOMAIN q PROVE Own(q[i])
    <3>1. i + k \in DOMAIN toServer[c]
      BY <2>3, <2>4, <2>5
    <3> QED
      BY <1>2, <2>5, <3>1
  <2> QED
    BY <1>4, <1>5, <2>6, <2>7, HandleEffects
<1>9. ASSUME NEW c \in Conn, OnPartOfMessage(c) PROVE OwnBytes'
  <2> DEFINE e == [call |-> toServer[c][1].call, cells |-> RestCells]
             q == <<e>> \o Unread(c, 1)
  <2>1. toServer[c] # <<>> /\ \E t, bytes : Handle(c, t, bytes, q)
    BY <1>9 DEF OnPartOfMessage, RestCells
  <2>2. PICK t, bytes : Handle(c, t, bytes, q)
    BY <2>1
  <2>3. /\ DOMAIN q = 1..Len(toServer[c]) /\ q[1] = e
        /\ DOMAIN toServer[c] = 1..Len(toServer[c]) /\ Len(toServer[c]) \in Nat
        /\ \A i \in 2..Len(toServer[c]) : q[i] = toServer[c][i]
    BY <2>1, PartLeft
  <2>4. Own(e)
    BY DEF Own
  <2> HIDE DEF q, e
  <2>5. ASSUME NEW i \in DOMAIN q PROVE Own(q[i])
    <3>1. CASE i = 1
      BY <2>3, <2>4, <3>1
    <3>2. CASE i # 1
      <4>1. i \in 2..Len(toServer[c]) /\ i \in DOMAIN toServer[c]
        BY <2>3, <3>2
      <4> QED
        BY <1>2, <2>3, <4>1
    <3> QED
      BY <3>1, <3>2
  <2> QED
    BY <1>4, <1>5, <2>2, <2>5, HandleEffects
<1>10. ASSUME NEW t \in Call, Aside(t) \/ BeginRecv(t) \/ Receive(t) \/ RecvEof(t)
       PROVE  OwnBytes'
  <2>1. UNCHANGED toServer
    BY <1>10, AsideFacts DEF BeginRecv, Receive, RecvEof, OnceInv
  <2> QED
    BY <1>6, <2>1
<1>11. CASE Crash
  <2>1. toServer' = [c \in Conn |-> <<>>]
    BY <1>11 DEF Crash, Ends
  <2> QED
    BY <1>5, <2>1
<1>12. CASE Restart \/ UNCHANGED vars
  <2>1. UNCHANGED toServer
    BY <1>12 DEF Restart, vars
  <2> QED
    BY <1>6, <2>1
<1> QED
  BY <1>7, <1>8, <1>9, <1>10, <1>11, <1>12 DEF Next, CallMethod, Aside

\* The answers a call reads leave answers behind,
LEMMA ReceivedStreams ==
  ASSUME NEW c \in Conn, Answers, NEW k \in 1..Len(toClient[c])
  PROVE  /\ Streams(Received(c, k).left)
         /\ \A fields : Class(fields) /\ Scalars(fields) /\ Whole(Received(c, k).cells) =>
              Parse(fields, Received(c, k).cells) \in Messages(fields)
<1> DEFINE q    == toClient[c]
           flat == FlattenSeq(SubSeq(q, 1, k))
           cut  == Cut(flat, RecvSize)
           next == IF cut.tail = <<>> THEN <<>> ELSE <<cut.tail>>
           more == SubSeq(q, k + 1, Len(q))
<1>1. Streams(q) /\ Len(q) \in Nat /\ IsSeq(q)
  BY SeqFacts DEF Answers, Streams
<1>2. k \in 0..Len(q)
  BY <1>1
<1>3. Streams(SubSeq(q, 1, k)) /\ Streams(more)
  <2> HIDE DEF q
  <2> QED
    BY <1>1, <1>2, StreamsParts
<1>4. Stream(flat)
  <2> DEFINE p == SubSeq(q, 1, k)
  <2>1. IsSeq(p) /\ \A i \in DOMAIN p : Stream(p[i])
    <3>1. Streams(p)
      BY <1>3
    <3> HIDE DEF p
    <3> QED
      BY <3>1, SeqFacts DEF Streams
  <2> HIDE DEF p
  <2>2. Stream(FlattenSeq(p))
    BY <2>1, StreamFlat
  <2> QED
    BY <2>2 DEF p
<1>5. RecvSize \in Nat
  BY BoundsAssumption
<1>6. Stream(cut.tail)
  <2> HIDE DEF flat
  <2> QED
    BY <1>4, <1>5, CutStream
<1>7. Received(c, k).cells = cut.head /\ Received(c, k).left = next \o more
  BY DEF Received
<1>8. Streams(next)
  <2> HIDE DEF cut
  <2> QED
    BY <1>6, StreamsFacts
<1>9. Streams(next \o more)
  <2> HIDE DEF next, more
  <2> QED
    BY <1>3, <1>8, StreamsFacts
<1>10. ASSUME NEW fields, Class(fields), Scalars(fields), Whole(cut.head)
       PROVE  Parse(fields, cut.head) \in Messages(fields)
  <2> HIDE DEF flat
  <2> QED
    BY <1>4, <1>5, <1>10, StreamParses
<1> QED
  BY <1>7, <1>9, <1>10

\* and what the provider writes is an answer.
LEMMA AnswersStep ==
  ASSUME OnceInv, ConnectionInv, OwnBytes, Answers, up \in BOOLEAN, [Next]_vars
  PROVE  Answers'
<1>0. workload \in Workloads
  BY DEF OnceInv, ChannelTypes
<1>1. ASSUME UNCHANGED toClient PROVE Answers'
  BY <1>1 DEF Answers
<1>2. ASSUME NEW c \in Conn, NEW q, toClient' = [toClient EXCEPT ![c] = q], Streams(q) PROVE Answers'
  BY <1>2 DEF Answers
<1>3. ASSUME NEW c \in Conn, NEW t \in Call, NEW r \in workload[t].replies, SendRpcResponse(c, t, r)
      PROVE  Answers'
  <2> DEFINE fields == ResponseFields(workload[t].method)
             cells  == Serialize(fields, r)
  <2>1. Class(fields) /\ Scalars(fields) /\ r \in Messages(fields)
    <3>1. workload[t].method \in RaftMethods \cup KvMethods /\ IsResponse(workload[t].method, r)
      BY <1>0, WorkloadsAssumption
    <3> QED
      BY <3>1, MethodClasses
  <2>2. Stream(cells)
    <3> HIDE DEF fields
    <3> QED
      BY <2>1, AnswerStream
  <2>3. toClient' = [toClient EXCEPT ![c] = IF cells = <<>> THEN @ ELSE Append(@, cells)]
    BY <1>3 DEF SendRpcResponse
  <2> HIDE DEF cells
  <2>4. Streams(toClient[c])
    BY DEF Answers
  <2>5. CASE cells = <<>>
    <3>1. toClient' = [toClient EXCEPT ![c] = toClient[c]]
      BY <2>3, <2>5
    <3> QED
      BY <1>2, <2>4, <3>1
  <2>6. CASE cells # <<>>
    <3> DEFINE q == Append(toClient[c], cells)
    <3>1. toClient' = [toClient EXCEPT ![c] = q]
      BY <2>3, <2>6
    <3>2. q = toClient[c] \o <<cells>>
      <4>1. PICK S : toClient[c] \in Seq(S)
        BY <2>4 DEF Streams, IsSeq
      <4> DEFINE V == S \cup {cells}
      <4>2. toClient[c] \in Seq(V) /\ cells \in V
        BY <4>1
      <4> HIDE DEF V
      <4> QED
        BY <4>2, AppendIsConcat
    <3>3. Streams(q)
      <4>1. Streams(<<cells>>)
        BY <2>2, StreamsFacts
      <4> DEFINE one == <<cells>>
      <4>2. Streams(one) /\ q = toClient[c] \o one
        BY <3>2, <4>1
      <4> HIDE DEF one, q
      <4> QED
        BY <2>4, <4>2, StreamsFacts
    <3> HIDE DEF q
    <3> QED
      BY <1>2, <3>1, <3>3
  <2> QED
    BY <2>5, <2>6
<1>9. ASSUME Ends PROVE Answers'
  <2>1. /\ toClient' = [c \in Conn |-> toClient'[c]]
        /\ \A c \in Conn : toClient'[c] # toClient[c] =>
             toClient[c] # <<>> /\ toClient'[c] = Front(toClient[c])
    BY <1>9, EndsAnswers
  <2>2. ASSUME NEW c \in Conn PROVE Streams(toClient'[c])
    <3> DEFINE q == toClient[c]
    <3>1. Streams(q)
      BY DEF Answers
    <3>2. CASE toClient'[c] = q
      BY <3>1, <3>2
    <3>3. CASE toClient'[c] # q
      <4>1. q # <<>> /\ toClient'[c] = Front(q)
        BY <2>1, <3>3
      <4> HIDE DEF q
      <4>2. Len(q) \in Nat /\ Len(q) # 0
        BY <3>1, <4>1, SeqFacts DEF Streams
      <4>3. Len(q) - 1 \in 0..Len(q)
        BY <4>2
      <4> DEFINE k == Len(q) - 1
      <4>4. k \in 0..Len(q) /\ Front(q) = SubSeq(q, 1, k)
        BY <4>3 DEF Front
      <4> HIDE DEF k
      <4>5. Streams(SubSeq(q, 1, k))
        BY <3>1, <4>4, StreamsParts
      <4> QED
        BY <4>1, <4>4, <4>5
    <3> QED
      BY <3>2, <3>3
  <2> QED
    BY <2>1, <2>2 DEF Answers
<1>4. ASSUME NEW c \in Conn, OnMessage(c) PROVE Answers'
  <2>1. \/ toClient' = toClient \/ Ends
        \/ \E t \in Call : \E r \in workload[t].replies : SendRpcResponse(c, t, r)
    BY <1>4, OnMessageReads
  <2> QED
    BY <1>1, <1>3, <1>9, <2>1
<1>5. ASSUME NEW c \in Conn, OnPartOfMessage(c) PROVE Answers'
  <2>1. \/ toClient' = toClient \/ Ends
        \/ \E t \in Call : \E r \in workload[t].replies : SendRpcResponse(c, t, r)
    BY <1>5, OnPartReads
  <2> QED
    BY <1>1, <1>3, <1>9, <2>1
<1>6. ASSUME NEW t \in Call, Receive(t) PROVE Answers'
  <2>1. pc[t] = "receiving"
        /\ \E k \in 1..Len(toClient[fd[t]]) : toClient' = [toClient EXCEPT ![fd[t]] = Received(fd[t], k).left]
    BY <1>6 DEF Receive
  <2>2. fd[t] \in Conn
    BY <2>1 DEF ConnectionInv
  <2> QED
    BY <1>2, <2>1, <2>2, ReceivedStreams
<1>7. ASSUME NEW t \in Call, Aside(t) \/ Send(t) \/ BeginRecv(t) \/ RecvEof(t) PROVE Answers'
  <2>1. UNCHANGED toClient
    BY <1>7, AsideFacts DEF Send, BeginRecv, RecvEof, OnceInv
  <2> QED
    BY <1>1, <2>1
<1>8. CASE Crash \/ Restart \/ UNCHANGED vars
  <2>1. UNCHANGED toClient \/ Ends
    BY <1>8 DEF Crash, Restart, vars
  <2> QED
    BY <1>1, <1>9, <2>1
<1> QED
  BY <1>4, <1>5, <1>6, <1>7, <1>8 DEF Next, CallMethod, Aside

\* The two elements of a sequence of one element and one that is appended.
LEMMA AppendToOne ==
  ASSUME NEW g, NEW h
  PROVE  LET q == Append(<<g>>, h) IN DOMAIN q = 1..2 /\ q[1] = g /\ q[2] = h
OBVIOUS

\* A handler gets what was sent, and always a request of its class.
LEMMA HandledStep ==
  ASSUME OnceInv, OwnBytes, up \in BOOLEAN, HandledAsSent, HandledTypes, [Next]_vars
  PROVE  HandledAsSent' /\ HandledTypes'
<1>0. workload' = workload /\ workload \in Workloads
  BY WorkloadStays DEF OnceInv, ChannelTypes
<1>1. ASSUME UNCHANGED handled, pieces \subseteq pieces' PROVE HandledAsSent' /\ HandledTypes'
  BY <1>0, <1>1 DEF HandledAsSent, HandledTypes
<1>2. ASSUME NEW t \in Call, NEW args, NEW r, IsRequest(workload[t].method, args),
             handled' = [handled EXCEPT ![t] = Append(@, [args |-> args, reply |-> r])],
             pieces \subseteq pieces', args = workload[t].args \/ t \in pieces'
      PROVE  HandledAsSent' /\ HandledTypes'
  <2> DEFINE h == [args |-> args, reply |-> r]
  <2>1. \A u \in Call \ {t} : handled'[u] = handled[u]
    BY <1>2 DEF OnceInv, ChannelTypes
  <2>2. handled'[t] = Append(handled[t], h)
    BY <1>2 DEF OnceInv, ChannelTypes
  <2>3. ASSUME NEW i \in DOMAIN handled'[t]
        PROVE  handled'[t][i] = h \/ (i \in DOMAIN handled[t] /\ handled'[t][i] = handled[t][i])
    <3>1. CASE handled[t] = <<>>
      <4>1. handled'[t] = <<h>>
        BY <2>2, <3>1
      <4> QED
        BY <2>3, <4>1
    <3>2. ASSUME NEW g, handled[t] = <<g>>
          PROVE  handled'[t][i] = h \/ (i \in DOMAIN handled[t] /\ handled'[t][i] = handled[t][i])
      <4>1. handled'[t] = Append(<<g>>, h)
        BY <2>2, <3>2
      <4> HIDE DEF h
      <4>2. i \in 1..2 /\ handled'[t][1] = g /\ handled'[t][2] = h
        BY <2>3, <4>1, AppendToOne
      <4>3. handled[t][1] = g /\ DOMAIN handled[t] = {1}
        BY <3>2
      <4>4. i = 1 \/ i = 2
        BY <4>2
      <4> QED
        BY <4>2, <4>3, <4>4
    <3> QED
      BY <3>1, <3>2 DEF OnceInv, NoneOrOne
  <2>4. h.args = args
    OBVIOUS
  <2> HIDE DEF h
  <2>5. HandledTypes'
    <3> SUFFICES ASSUME NEW u \in Call, NEW i \in DOMAIN handled'[u]
                 PROVE  IsRequest(workload[u].method, handled'[u][i].args)
      BY <1>0 DEF HandledTypes
    <3> QED
      BY <1>2, <2>1, <2>3, <2>4 DEF HandledTypes
  <2>6. HandledAsSent'
    <3> SUFFICES ASSUME NEW u \in Call \ pieces', NEW i \in DOMAIN handled'[u]
                 PROVE  handled'[u][i].args = workload[u].args
      BY <1>0 DEF HandledAsSent
    <3>1. u \in Call \ pieces
      BY <1>2
    <3> QED
      BY <1>2, <2>1, <2>3, <2>4, <3>1 DEF HandledAsSent
  <2> QED
    BY <2>5, <2>6
<1>3. ASSUME NEW c \in Conn, OnMessage(c) PROVE HandledAsSent' /\ HandledTypes'
  <2> DEFINE t == toServer[c][1].call
  <2>1. /\ t \in Call
        /\ \/ UNCHANGED handled
           \/ \E r : handled' = [handled EXCEPT ![t] =
                                   Append(@, [args |-> workload[t].args, reply |-> r])]
    BY <1>3, OnMessageReads
  <2>2. pieces' = pieces
    BY <1>3 DEF OnMessage
  <2> HIDE DEF t
  <2>3. IsRequest(workload[t].method, workload[t].args)
    BY <1>0, <2>1, WorkloadsAssumption
  <2> QED
    BY <1>1, <1>2, <2>1, <2>2, <2>3
<1>4. ASSUME NEW c \in Conn, OnPartOfMessage(c) PROVE HandledAsSent' /\ HandledTypes'
  <2> DEFINE t == toServer[c][1].call
  <2>1. /\ t \in Call /\ pieces' = pieces \cup {t}
        /\ \/ UNCHANGED handled
           \/ \E args, r :
                /\ IsRequest(workload[t].method, args)
                /\ handled' = [handled EXCEPT ![t] = Append(@, [args |-> args, reply |-> r])]
    BY <1>4, OnPartReads
  <2> HIDE DEF t
  <2> QED
    BY <1>1, <1>2, <2>1
<1>5. ASSUME NEW t \in Call, CallMethod(t) PROVE HandledAsSent' /\ HandledTypes'
  <2>1. UNCHANGED serverVars
    BY <1>5, AsideFacts DEF CallMethod, Aside, Send, BeginRecv, Receive, RecvEof, OnceInv
  <2> QED
    BY <1>1, <2>1 DEF serverVars
<1>6. CASE Crash \/ Restart \/ UNCHANGED vars
  <2>1. UNCHANGED <<handled, pieces>>
    BY <1>6 DEF Crash, Restart, vars, serverVars
  <2> QED
    BY <1>1, <2>1
<1> QED
  BY <1>3, <1>4, <1>5, <1>6 DEF Next

\* How a read can end: a message of the class, or a failure.
LEMMA OutcomeTypes ==
  ASSUME workload \in Workloads, NEW t \in Call, NEW cells, NEW o \in Outcomes(t, cells),
         Whole(cells) => IsResponse(workload[t].method, Parse(ResponseFields(workload[t].method), cells))
  PROVE  \/ o.outcome = "ok" /\ IsResponse(workload[t].method, o.response)
         \/ o.outcome = "failed" /\ o.response = <<>>
<1> DEFINE method == workload[t].method
           fields == ResponseFields(method)
           fails  == [outcome |-> "failed", response |-> <<>>]
<1>1. method \in RaftMethods \cup KvMethods /\ \A r \in workload[t].replies : IsResponse(method, r)
  BY WorkloadsAssumption
<1>2. IsResponse(method, Cleared(fields))
  BY <1>1, MethodClasses, ClearedMessage
<1>3. \/ o = fails
      \/ \E m : o = [outcome |-> "ok", response |-> m] /\ IsResponse(method, m)
  BY <1>1, <1>2 DEF Outcomes
<1> QED
  BY <1>3

\* A call returns a message of its class, also when it reads the answer to another.
LEMMA ResponseStep ==
  ASSUME OnceInv, ConnectionInv, Answers, ResponseTypes, [Next]_vars
  PROVE  ResponseTypes'
<1>0. workload' = workload /\ workload \in Workloads /\ pc \in [Call -> States]
  BY WorkloadStays DEF OnceInv, ChannelTypes
<1>1. ASSUME NEW t \in Call, NEW outcome, NEW m, Return(t, outcome, m),
             \/ outcome = "ok" /\ IsResponse(workload[t].method, m)
             \/ outcome = "failed" /\ m = <<>>
      PROVE  ResponseTypes'
  <2>1. /\ pc'[t] = outcome /\ response'[t] = m
        /\ \A u \in Call \ {t} : pc'[u] = pc[u] /\ response'[u] = response[u]
        /\ response' = [u \in Call |-> response'[u]]
    BY <1>0, <1>1 DEF Return, ResponseTypes
  <2>2. ASSUME NEW u \in Call
        PROVE  IF pc'[u] = "ok" THEN IsResponse(workload[u].method, response'[u]) ELSE response'[u] = <<>>
    <3>1. CASE u = t
      BY <1>1, <2>1, <3>1
    <3>2. CASE u # t
      BY <2>1, <3>2 DEF ResponseTypes
    <3> QED
      BY <3>1, <3>2
  <2> QED
    BY <1>0, <2>1, <2>2 DEF ResponseTypes
<1>2. ASSUME NEW t \in Call, NEW s, pc' = [pc EXCEPT ![t] = s], s # "ok", pc[t] # "ok", UNCHANGED response
      PROVE  ResponseTypes'
  BY <1>0, <1>2 DEF ResponseTypes
<1>3. ASSUME UNCHANGED <<pc, response>> PROVE ResponseTypes'
  BY <1>0, <1>3 DEF ResponseTypes
<1>4. ASSUME NEW t \in Call PROVE IsResponse(workload[t].method, Cleared(ResponseFields(workload[t].method)))
  <2>1. workload[t].method \in RaftMethods \cup KvMethods
    BY <1>0, WorkloadsAssumption
  <2> QED
    BY <2>1, MethodClasses, ClearedMessage
<1>5. ASSUME NEW t \in Call, Aside(t) PROVE ResponseTypes'
  <2>1. pc[t] # "ok"
    BY <1>5 DEF Aside, Start, Connect, Connected, SendFails, RecvError, Close, Clear, Fail
  <2>2. PICK s \in AsideStates : pc' = [pc EXCEPT ![t] = s]
    BY <1>5, AsideFacts DEF OnceInv
  <2>3. s # "ok"
    BY DEF AsideStates
  <2>4. response[t] = <<>>
    BY <2>1 DEF ResponseTypes
  <2>5. response' = response
    <3>1. response' = response \/ response' = [response EXCEPT ![t] = <<>>]
      BY <1>5, AsideFacts DEF OnceInv
    <3> QED
      BY <2>4, <3>1 DEF ResponseTypes
  <2> QED
    BY <1>2, <2>1, <2>2, <2>3, <2>5
<1>7. ASSUME NEW t \in Call, Send(t) PROVE ResponseTypes'
  BY <1>2, <1>7 DEF Send
<1>8. ASSUME NEW t \in Call, BeginRecv(t) PROVE ResponseTypes'
  BY <1>2, <1>8 DEF BeginRecv
<1>9. ASSUME NEW t \in Call, RecvEof(t) PROVE ResponseTypes'
  BY <1>1, <1>4, <1>9 DEF RecvEof
<1>10. ASSUME NEW t \in Call, Receive(t) PROVE ResponseTypes'
  <2> DEFINE c == fd[t]
             fields == ResponseFields(workload[t].method)
  <2>1. pc[t] = "receiving" /\ \E k \in 1..Len(toClient[c]) :
          \E o \in Outcomes(t, Received(c, k).cells) : Return(t, o.outcome, o.response)
    BY <1>10 DEF Receive
  <2>2. PICK k \in 1..Len(toClient[c]) :
          \E o \in Outcomes(t, Received(c, k).cells) : Return(t, o.outcome, o.response)
    BY <2>1
  <2>3. PICK o \in Outcomes(t, Received(c, k).cells) : Return(t, o.outcome, o.response)
    BY <2>2
  <2>4. c \in Conn
    BY <2>1 DEF ConnectionInv
  <2>5. workload[t].method \in RaftMethods \cup KvMethods
    BY <1>0, WorkloadsAssumption
  <2>6. Whole(Received(c, k).cells) => IsResponse(workload[t].method, Parse(fields, Received(c, k).cells))
    BY <2>4, <2>5, ReceivedStreams, MethodClasses
  <2>7. \/ o.outcome = "ok" /\ IsResponse(workload[t].method, o.response)
        \/ o.outcome = "failed" /\ o.response = <<>>
    <3> DEFINE cells == Received(c, k).cells
    <3>1. o \in Outcomes(t, cells)
      BY <2>3
    <3>2. Whole(cells) => IsResponse(workload[t].method, Parse(ResponseFields(workload[t].method), cells))
      BY <2>6
    <3> HIDE DEF cells
    <3> QED
      BY <1>0, <3>1, <3>2, OutcomeTypes
  <2> QED
    BY <1>1, <2>3, <2>7
<1>11. ASSUME NEW c \in Conn, OnMessage(c) \/ OnPartOfMessage(c) PROVE ResponseTypes'
  BY <1>3, <1>11 DEF OnMessage, OnPartOfMessage, callerVars
<1>12. CASE Crash \/ Restart \/ UNCHANGED vars
  BY <1>3, <1>12 DEF Crash, Restart, vars, callerVars
<1> QED
  BY <1>5, <1>7, <1>8, <1>9, <1>10, <1>11, <1>12 DEF Next, CallMethod, Aside

\* The faults stay within their number.
LEMMA FaultsStep ==
  ASSUME OnceInv, OwnBytes, FaultsCounted, disturbed \subseteq Call, [Next]_vars
  PROVE  FaultsCounted' /\ disturbed' \subseteq Call
<1>0. up \in BOOLEAN /\ Faults \in Nat /\ Cardinality(pieces) \in Nat
  BY BoundsAssumption, FS_CardinalityType DEF FaultsCounted
<1>1. ASSUME UNCHANGED pieces, up' \in BOOLEAN,
             \/ crashes' = crashes
             \/ crashes' = crashes + 1 /\ crashes + Cardinality(pieces) < Faults
      PROVE  FaultsCounted'
  BY <1>0, <1>1 DEF FaultsCounted
<1>2. ASSUME NEW t \in Call, CallMethod(t) PROVE FaultsCounted' /\ disturbed' \subseteq Call
  <2>1. UNCHANGED serverVars
    BY <1>2, AsideFacts DEF CallMethod, Aside, Send, BeginRecv, Receive, RecvEof, OnceInv
  <2>2. \A c : Sharing(t, c) \subseteq Call
    BY DEF Sharing
  <2>3. disturbed' \subseteq Call
    <3>1. CASE Aside(t) \/ RecvEof(t)
      <4>1. disturbed' \subseteq disturbed \cup Call
        BY <3>1, AsideFacts DEF RecvEof, OnceInv
      <4> QED
        BY <4>1
    <3>2. CASE Send(t)
      BY <2>2, <3>2 DEF Send
    <3>3. CASE BeginRecv(t)
      BY <2>2, <3>3 DEF BeginRecv
    <3>4. CASE Receive(t)
      <4>1. disturbed' = disturbed \/ disturbed' = disturbed \cup {t}
        BY <3>4 DEF Receive
      <4> QED
        BY <4>1
    <3> QED
      BY <1>2, <3>1, <3>2, <3>3, <3>4 DEF CallMethod, Aside
  <2> QED
    BY <1>0, <1>1, <2>1, <2>3 DEF serverVars
<1>3. ASSUME NEW c \in Conn, OnMessage(c) PROVE FaultsCounted' /\ disturbed' \subseteq Call
  <2>1. UNCHANGED <<pieces, disturbed>> /\ \E t, bytes, left : Handle(c, t, bytes, left)
    BY <1>3 DEF OnMessage
  <2>2. crashes' = crashes /\ up' \in BOOLEAN
    BY <1>0, <2>1, HandleEffects
  <2> QED
    BY <1>1, <2>1, <2>2
<1>4. ASSUME NEW c \in Conn, OnPartOfMessage(c) PROVE FaultsCounted' /\ disturbed' \subseteq Call
  <2> DEFINE t == toServer[c][1].call
  <2>1. /\ crashes + Cardinality(pieces) < Faults /\ t \in Call
        /\ pieces' = pieces \cup {t} /\ disturbed' = disturbed \cup {t}
        /\ \E bytes, left : Handle(c, t, bytes, left)
    <3>1. crashes + Cardinality(pieces) < Faults /\ \E bytes, left : Handle(c, t, bytes, left)
      BY <1>4 DEF OnPartOfMessage
    <3> QED
      BY <1>0, <1>4, <3>1, OnPartReads
  <2>2. crashes' = crashes /\ up' \in BOOLEAN
    BY <1>0, <2>1, HandleEffects
  <2> HIDE DEF t
  <2>3. /\ IsFiniteSet(pieces \cup {t})
        /\ Cardinality(pieces \cup {t}) =
             IF t \in pieces THEN Cardinality(pieces) ELSE Cardinality(pieces) + 1
    <3>1. IsFiniteSet(pieces)
      BY DEF FaultsCounted
    <3> QED
      BY <3>1, FS_AddElement
  <2>4. crashes \in Nat /\ crashes + Cardinality(pieces') <= Faults
    BY <1>0, <2>1, <2>3 DEF FaultsCounted
  <2> QED
    BY <2>1, <2>2, <2>3, <2>4 DEF FaultsCounted
<1>5. CASE Crash
  <2>1. /\ UNCHANGED <<pieces, disturbed>> /\ up' = FALSE
        /\ crashes' = crashes + 1 /\ crashes + Cardinality(pieces) < Faults
    BY <1>5 DEF Crash, Ends
  <2> QED
    BY <1>1, <2>1
<1>6. CASE Restart \/ UNCHANGED vars
  <2>1. UNCHANGED <<pieces, disturbed, crashes>> /\ up' \in BOOLEAN
    BY <1>0, <1>6 DEF Restart, vars, serverVars
  <2> QED
    BY <1>1, <2>1
<1> QED
  BY <1>2, <1>3, <1>4, <1>5, <1>6 DEF Next

\* It holds at first.
LEMMA InitRead == Init => ReadInv
<1> SUFFICES ASSUME Init PROVE ReadInv
  OBVIOUS
<1>1. OwnBytes
  BY DEF Init, OwnBytes
<1>2. Answers
  BY StreamsFacts DEF Init, Answers
<1>3. HandledAsSent /\ HandledTypes
  BY DEF Init, HandledAsSent, HandledTypes
<1>4. ResponseTypes
  BY DEF Init, ResponseTypes
<1>5. FaultsCounted /\ disturbed \subseteq Call
  <2>1. IsFiniteSet({}) /\ Cardinality({}) = 0
    BY FS_EmptySet
  <2> QED
    BY <2>1, BoundsAssumption DEF Init, FaultsCounted
<1> QED
  BY <1>1, <1>2, <1>3, <1>4, <1>5 DEF ReadInv

\* What is read keeps its invariant: queues hold whole requests or the rest of one,
\* connections carry answers, and who reads them gets a message of the class.
THEOREM ReadInvariance == Spec => []ReadInv
<1>1. OnceInv /\ ConnectionInv /\ ReadInv /\ [Next]_vars => ReadInv'
  <2> SUFFICES ASSUME OnceInv, ConnectionInv, ReadInv, [Next]_vars PROVE ReadInv'
    OBVIOUS
  <2>1. up \in BOOLEAN
    BY DEF ReadInv, FaultsCounted
  <2>2. OwnBytes' /\ Answers'
    BY <2>1, OwnBytesStep, AnswersStep DEF ReadInv
  <2>3. HandledAsSent' /\ HandledTypes'
    BY <2>1, HandledStep DEF ReadInv
  <2>4. ResponseTypes' /\ FaultsCounted' /\ disturbed' \subseteq Call
    BY ResponseStep, FaultsStep DEF ReadInv
  <2> QED
    BY <2>2, <2>3, <2>4 DEF ReadInv
<1> QED
  BY <1>1, InitRead, ChannelInvariance, PTL DEF Spec

\* A handler gets the arguments that were sent, however many requests were read
\* as one; only a request that arrived in pieces may be another.
THEOREM AlwaysHandledAsSent == Spec => []HandledAsSent
<1>1. ReadInv => HandledAsSent
  BY DEF ReadInv
<1> QED
  BY <1>1, ReadInvariance, PTL

\* Whatever a stream was cut into, and whichever call reads it: a handler and a
\* caller get messages of the class they asked for.
THEOREM ChannelTypeOK == Spec => []TypeOK
<1>1. OnceInv /\ ConnectionInv /\ ReadInv => TypeOK
  <2> SUFFICES ASSUME OnceInv, ConnectionInv, ReadInv PROVE TypeOK
    OBVIOUS
  <2>1. pc \in [Call -> {"idle", "connecting", "connected", "sending", "sent", "receiving",
                         "sendFailed", "recvFailed", "clearing", "failing", "ok", "failed"}]
    BY DEF OnceInv, ChannelTypes, States
  <2>2. /\ \A t \in Call : IF pc[t] = "ok" THEN IsResponse(workload[t].method, response[t])
                           ELSE response[t] = <<>>
        /\ \A t \in Call : \A i \in DOMAIN handled[t] : IsRequest(workload[t].method, handled[t][i].args)
    BY DEF ReadInv, ResponseTypes, HandledTypes
  <2>3. /\ clientFd \in Conn \cup {ClosedFd, NoFd} /\ fd \in [Call -> Conn \cup {ClosedFd, NoFd}]
        /\ link \in [Conn -> {"unused", "open", "eof", "reset"}]
        /\ clientFd \in Conn => link[clientFd] # "unused"
    BY DEF ConnectionInv
  <2>4. up \in BOOLEAN /\ pieces \subseteq Call /\ crashes + Cardinality(pieces) \in 0..Faults
    <3>1. Cardinality(pieces) \in Nat /\ crashes \in Nat /\ crashes + Cardinality(pieces) <= Faults
      BY FS_CardinalityType DEF ReadInv, FaultsCounted
    <3>2. crashes + Cardinality(pieces) \in 0..Faults
      BY <3>1, BoundsAssumption
    <3> QED
      BY <3>2 DEF ReadInv, FaultsCounted
  <2> QED
    BY <2>1, <2>2, <2>3, <2>4 DEF TypeOK, ReadInv
<1> QED
  BY <1>1, ChannelInvariance, ReadInvariance, PTL

-----------------------------------------------------------------------------
(* Nothing is lost *)

\* What a call that waits still waits for: its request is under way, or something
\* has come, or its answer has no bytes.
Due(t) ==
  \/ \E i : Waits(toServer[fd[t]], t, i)
  \/ toClient[fd[t]] # <<>>
  \/ AnswerIsEmpty(t)

\* A connection is open only while the provider runs,
OpenWhileUp == \A c \in Conn : link[c] = "open" => up

\* what is no request on a queue is left of a call that counts as disturbed,
RestDisturbs ==
  \A c \in Conn : \A i \in DOMAIN toServer[c] :
    toServer[c][i].cells[1].part # "size" => toServer[c][i].call \in disturbed

\* and on an open connection no call that is alone waits for nothing.
NothingLost ==
  \A t \in Call \ disturbed : Waiting(t) /\ link[fd[t]] = "open" => Due(t)

\* The inductive invariant of what is due.
DueInv == OpenWhileUp /\ RestDisturbs /\ NothingLost

\* The provider ends, or what it read is dropped or handled and its connections stay.
LEMMA HandleKeeps ==
  ASSUME NEW c, NEW t, NEW bytes, NEW left, Handle(c, t, bytes, left)
  PROVE  \/ Ends
         \/ /\ UNCHANGED <<up, link>>
            /\ toServer' = [toServer EXCEPT ![c] = left]
            /\ \/ \E d \in Dispatch(bytes) : d.is = "dropped" /\ UNCHANGED <<handled, toClient>>
               \/ \E args : \E r \in workload[t].replies :
                    /\ handled' = [handled EXCEPT ![t] = Append(@, [args |-> args, reply |-> r])]
                    /\ SendRpcResponse(c, t, r)
<1>1. PICK d \in Dispatch(bytes) :
        CASE d.is = "request" ->
               /\ \E r \in workload[t].replies :
                    /\ handled' = [handled EXCEPT ![t] = Append(@, [args |-> d.args, reply |-> r])]
                    /\ SendRpcResponse(c, t, r)
               /\ toServer' = [toServer EXCEPT ![c] = left]
               /\ UNCHANGED <<up, crashes, link>>
          [] d.is = "dropped" ->
               /\ toServer' = [toServer EXCEPT ![c] = left]
               /\ UNCHANGED <<up, crashes, link, handled, toClient>>
          [] d.is = "throws" ->
               /\ Ends
               /\ UNCHANGED <<crashes, handled>>
  BY DEF Handle
<1>2. CASE d.is = "request"
  BY <1>1, <1>2
<1>3. CASE d.is = "dropped"
  BY <1>1, <1>3
<1>4. CASE d.is = "throws"
  BY <1>1, <1>4
<1> QED
  BY <1>2, <1>3, <1>4, DispatchKinds

\* When the provider ends, no connection stays open.
LEMMA EndsAll == ASSUME ConnectionInv, Ends, NEW c \in Conn PROVE link'[c] # "open"
BY DEF Ends, ConnectionInv

\* Only a process that runs has an open connection, through every step.
LEMMA OpenStep ==
  ASSUME ChannelTypes, ConnectionInv, OpenWhileUp, [Next]_vars
  PROVE  OpenWhileUp'
<1>1. ASSUME UNCHANGED <<up, link>> PROVE OpenWhileUp'
  BY <1>1 DEF OpenWhileUp
<1>2. ASSUME Ends PROVE OpenWhileUp'
  BY <1>2, EndsAll DEF OpenWhileUp
<1>3. ASSUME NEW t \in Call, Aside(t) PROVE OpenWhileUp'
  <2>1. UNCHANGED up /\ (link' = link \/ (up /\ link' = [link EXCEPT ![Fresh] = "open"]))
    BY <1>3, AsideFacts DEF serverVars
  <2> QED
    BY <2>1 DEF OpenWhileUp, ConnectionInv
<1>4. ASSUME NEW t \in Call, Send(t) PROVE OpenWhileUp'
  <2>1. UNCHANGED up /\ (link' = link \/ \E how \in {"eof", "reset"} : link' = [link EXCEPT ![clientFd] = how])
    BY <1>4 DEF Send, serverVars
  <2>2. \A c \in Conn : link'[c] = "open" => link[c] = "open"
    BY <2>1 DEF ConnectionInv
  <2> QED
    BY <2>1, <2>2 DEF OpenWhileUp
<1>5. ASSUME NEW t \in Call, BeginRecv(t) \/ Receive(t) \/ RecvEof(t) PROVE OpenWhileUp'
  <2>1. UNCHANGED <<up, link>>
    BY <1>5 DEF BeginRecv, Receive, RecvEof, serverVars
  <2> QED
    BY <1>1, <2>1
<1>6. ASSUME NEW c \in Conn, OnMessage(c) \/ OnPartOfMessage(c) PROVE OpenWhileUp'
  <2>1. \E t, bytes, left : Handle(c, t, bytes, left)
    BY <1>6 DEF OnMessage, OnPartOfMessage
  <2>2. Ends \/ UNCHANGED <<up, link>>
    BY <2>1, HandleKeeps
  <2> QED
    BY <1>1, <1>2, <2>2
<1>7. CASE Crash \/ Restart \/ UNCHANGED vars
  BY <1>1, <1>2, <1>7 DEF Crash, Restart, vars, serverVars, OpenWhileUp
<1> QED
  BY <1>3, <1>4, <1>5, <1>6, <1>7 DEF Next, CallMethod, Aside

\* A call once disturbed stays so.
LEMMA DisturbedStays == ASSUME ChannelTypes, [Next]_vars PROVE disturbed \subseteq disturbed'
<1>1. ASSUME NEW t \in Call, CallMethod(t) PROVE disturbed \subseteq disturbed'
  BY <1>1, AsideFacts DEF CallMethod, Aside, Send, BeginRecv, Receive, RecvEof
<1>2. ASSUME NEW c \in Conn, OnMessage(c) \/ OnPartOfMessage(c) PROVE disturbed \subseteq disturbed'
  BY <1>2 DEF OnMessage, OnPartOfMessage
<1> QED
  BY <1>1, <1>2 DEF Next, Crash, Restart, vars

\* The request of a call that sends goes behind what is on its connection.
LEMMA SendAppends ==
  ASSUME OnceInv, ConnectionInv, NEW t \in Call, Send(t), link[clientFd] = "open"
  PROVE  /\ clientFd \in Conn
         /\ \A c \in Conn \ {clientFd} : toServer'[c] = toServer[c]
         /\ DOMAIN toServer[clientFd] = 1..Len(toServer[clientFd]) /\ Len(toServer[clientFd]) \in Nat
         /\ DOMAIN toServer'[clientFd] = 1..(Len(toServer[clientFd]) + 1)
         /\ \A i \in 1..Len(toServer[clientFd]) : toServer'[clientFd][i] = toServer[clientFd][i]
         /\ Waits(toServer'[clientFd], t, Len(toServer[clientFd]) + 1)
<1> DEFINE c == clientFd
           e == [call |-> t, cells |-> RequestBytes(workload[t])]
           n == Len(toServer[c])
<1>1. c \in Conn /\ workload \in Workloads /\ toServer[c] \in Seq(Written)
  BY DEF Send, ConnectionInv, OnceInv, ChannelTypes
<1>2. toServer' = [toServer EXCEPT ![c] = Append(@, e)]
  BY <1>1 DEF Send, SendRpcStr, Live
<1>3. e \in Written /\ e.call = t /\ e.cells[1].part = "size"
  BY <1>1, RequestBegins DEF Written
<1> HIDE DEF e, c
<1>4. toServer'[c] = Append(toServer[c], e) /\ \A d \in Conn \ {c} : toServer'[d] = toServer[d]
  BY <1>1, <1>2 DEF OnceInv, ChannelTypes
<1>5. /\ Append(toServer[c], e) \in Seq(Written)
      /\ Len(Append(toServer[c], e)) = n + 1
      /\ \A j \in 1..n : Append(toServer[c], e)[j] = toServer[c][j]
      /\ Append(toServer[c], e)[n + 1] = e
  BY <1>1, <1>3, AppendProperties
<1>6. DOMAIN toServer[c] = 1..n /\ n \in Nat
  BY <1>1, LenProperties
<1>7. DOMAIN toServer'[c] = 1..(n + 1)
  BY <1>4, <1>5, LenProperties
<1>8. Waits(toServer'[c], t, n + 1)
  <2>1. n + 1 \in 1..(n + 1)
    BY <1>6
  <2> QED
    BY <1>3, <1>4, <1>5, <1>7, <2>1 DEF Waits
<1> QED
  BY <1>1, <1>4, <1>5, <1>6, <1>7, <1>8 DEF c

\* What is no request on a queue comes from a part of one, whose call is disturbed.
LEMMA RestStep ==
  ASSUME OnceInv, ConnectionInv, OwnBytes, RestDisturbs, [Next]_vars
  PROVE  RestDisturbs'
<1> DEFINE Known(e, S) == e.cells[1].part # "size" => e.call \in S
<1>1. disturbed \subseteq disturbed'
  BY DisturbedStays DEF OnceInv
<1>2. \A c \in Conn : \A i \in DOMAIN toServer[c] : Known(toServer[c][i], disturbed')
  BY <1>1 DEF RestDisturbs
<1>3. (\A c \in Conn : \A i \in DOMAIN toServer'[c] : Known(toServer'[c][i], disturbed')) => RestDisturbs'
  BY DEF RestDisturbs
<1> HIDE DEF Known
<1>4. ASSUME UNCHANGED toServer \/ Ends PROVE RestDisturbs'
  <2>1. CASE UNCHANGED toServer
    BY <1>2, <1>3, <2>1
  <2>2. CASE Ends
    <3>1. \A c \in Conn : toServer'[c] = <<>>
      BY <2>2 DEF Ends
    <3> QED
      BY <1>3, <3>1
  <2> QED
    BY <1>4, <2>1, <2>2
<1>5. ASSUME NEW c \in Conn, NEW q, toServer' = [toServer EXCEPT ![c] = q],
             \A i \in DOMAIN q : Known(q[i], disturbed')
      PROVE  RestDisturbs'
  BY <1>2, <1>3, <1>5 DEF OnceInv, ChannelTypes
<1>6. ASSUME NEW t \in Call, Send(t) PROVE RestDisturbs'
  <2>1. CASE link[clientFd] # "open"
    BY <1>4, <1>6, <2>1 DEF Send, Live
  <2>2. CASE link[clientFd] = "open"
    <3>1. ASSUME NEW d \in Conn, NEW i \in DOMAIN toServer'[d] PROVE Known(toServer'[d][i], disturbed')
      <4>1. CASE d # clientFd
        BY <1>2, <1>6, <2>2, <3>1, <4>1, SendAppends
      <4>2. CASE d = clientFd
        <5>1. CASE i = Len(toServer[clientFd]) + 1
          BY <1>6, <2>2, <4>2, <5>1, SendAppends DEF Known, Waits
        <5>2. CASE i # Len(toServer[clientFd]) + 1
          <6>1. /\ i \in 1..(Len(toServer[clientFd]) + 1) /\ Len(toServer[clientFd]) \in Nat
                /\ clientFd \in Conn
                /\ DOMAIN toServer[clientFd] = 1..Len(toServer[clientFd])
                /\ \A j \in 1..Len(toServer[clientFd]) : toServer'[clientFd][j] = toServer[clientFd][j]
            BY <1>6, <2>2, <3>1, <4>2, SendAppends
          <6>2. i \in 1..Len(toServer[clientFd])
            BY <5>2, <6>1
          <6> QED
            BY <1>2, <4>2, <6>1, <6>2
        <5> QED
          BY <5>1, <5>2
      <4> QED
        BY <4>1, <4>2
    <3> QED
      BY <1>3, <3>1
  <2> QED
    BY <2>1, <2>2
<1>7. ASSUME NEW t \in Call, Aside(t) \/ BeginRecv(t) \/ Receive(t) \/ RecvEof(t)
      PROVE  RestDisturbs'
  <2>1. UNCHANGED toServer
    BY <1>7, AsideFacts DEF BeginRecv, Receive, RecvEof, OnceInv
  <2> QED
    BY <1>4, <2>1
<1>8. ASSUME NEW c \in Conn, OnMessage(c) PROVE RestDisturbs'
  <2> DEFINE t == toServer[c][1].call
  <2>1. PICK bytes, left : /\ Handle(c, t, bytes, left)
                           /\ \A i \in DOMAIN left : \E j \in DOMAIN toServer[c] : left[i] = toServer[c][j]
    BY <1>8, OnMessageTakes
  <2>2. Ends \/ toServer' = [toServer EXCEPT ![c] = left]
    BY <2>1, HandleKeeps
  <2>3. \A i \in DOMAIN left : Known(left[i], disturbed')
    BY <1>2, <2>1
  <2> QED
    BY <1>4, <1>5, <2>2, <2>3
<1>9. ASSUME NEW c \in Conn, OnPartOfMessage(c) PROVE RestDisturbs'
  <2> DEFINE t    == toServer[c][1].call
             rest == [call |-> t, cells |-> RestCells]
             left == <<rest>> \o Unread(c, 1)
  <2>1. toServer[c] # <<>> /\ disturbed' = disturbed \cup {t}
    BY <1>9 DEF OnPartOfMessage
  <2>2. PICK bytes : Handle(c, t, bytes, left)
    BY <1>9 DEF OnPartOfMessage, RestCells
  <2>3. /\ DOMAIN left = 1..Len(toServer[c]) /\ DOMAIN toServer[c] = 1..Len(toServer[c])
        /\ Len(toServer[c]) \in Nat
        /\ left[1] = rest
        /\ \A i \in 2..Len(toServer[c]) : left[i] = toServer[c][i]
    BY <2>1, PartLeft
  <2>4. Known(rest, disturbed')
    BY <2>1 DEF Known
  <2> HIDE DEF left, rest, t
  <2>5. ASSUME NEW i \in DOMAIN left PROVE Known(left[i], disturbed')
    <3>1. CASE i = 1
      BY <2>3, <2>4, <3>1
    <3>2. CASE i # 1
      <4>1. i \in 2..Len(toServer[c]) /\ i \in DOMAIN toServer[c]
        BY <2>3, <2>5, <3>2
      <4> QED
        BY <1>2, <2>3, <4>1
    <3> QED
      BY <3>1, <3>2
  <2>6. Ends \/ toServer' = [toServer EXCEPT ![c] = left]
    BY <2>2, HandleKeeps
  <2> QED
    BY <1>4, <1>5, <2>5, <2>6
<1>10. CASE Crash \/ Restart \/ UNCHANGED vars
  BY <1>4, <1>10 DEF Crash, Restart, vars
<1> QED
  BY <1>6, <1>7, <1>8, <1>9, <1>10 DEF Next, CallMethod, Aside

\* What was appended to is not empty.
LEMMA AppendedNotEmpty ==
  ASSUME NEW g, NEW h
  PROVE  Append(<<g>>, h) # <<>>
<1> DEFINE q == Append(<<g>>, h)
<1>1. DOMAIN q = 1..2
  BY AppendToOne
<1> HIDE DEF q
<1>2. 1 \in DOMAIN q /\ DOMAIN <<>> = {}
  BY <1>1
<1>3. q # <<>>
  BY <1>2
<1> QED
  BY <1>3 DEF q

\* What is due to a call stays due when its connection is left alone.
LEMMA DueKept ==
  ASSUME NEW t \in Call, Due(t), fd'[t] = fd[t], workload' = workload,
         \A i : Waits(toServer[fd[t]], t, i) => \E j : Waits(toServer'[fd[t]], t, j),
         toClient'[fd[t]] = toClient[fd[t]] \/ toClient'[fd[t]] # <<>>,
         handled[t] # <<>> => handled'[t] # <<>> /\ handled'[t][1] = handled[t][1]
  PROVE  Due(t)'
<1>1. CASE \E i : Waits(toServer[fd[t]], t, i)
  BY <1>1 DEF Due
<1>2. CASE toClient[fd[t]] # <<>>
  BY <1>2 DEF Due
<1>3. CASE AnswerIsEmpty(t)
  BY <1>3 DEF Due, AnswerIsEmpty
<1> QED
  BY <1>1, <1>2, <1>3 DEF Due

\* What a request handled adds to the history leaves the first where it is.
LEMMA FirstStays ==
  ASSUME OnceInv, NEW t \in Call, NEW u, NEW h, handled' = [handled EXCEPT ![u] = Append(@, h)],
         handled[t] # <<>>
  PROVE  handled'[t] # <<>> /\ handled'[t][1] = handled[t][1]
<1>1. PICK g : handled[t] = <<g>>
  BY DEF OnceInv, NoneOrOne
<1>2. handled'[t] = handled[t] \/ handled'[t] = Append(<<g>>, h)
  BY <1>1 DEF OnceInv, ChannelTypes
<1>3. Append(<<g>>, h) # <<>> /\ Append(<<g>>, h)[1] = g
  BY AppendToOne, AppendedNotEmpty
<1> QED
  BY <1>1, <1>2, <1>3

\* The answer to a request is sent, or has no bytes.
LEMMA AnswerDue ==
  ASSUME OnceInv, OwnInv, NEW t \in Call, fd[t] \in Conn, WaitsAlone(t), handled[t] = <<>>,
         NEW args, NEW r,
         handled' = [handled EXCEPT ![t] = Append(@, [args |-> args, reply |-> r])],
         SendRpcResponse(fd[t], t, r), UNCHANGED <<workload, callerVars>>
  PROVE  Due(t)'
<1> DEFINE cells == Serialize(ResponseFields(workload[t].method), r)
           h == [args |-> args, reply |-> r]
           c == fd[t]
<1>1. toClient' = [toClient EXCEPT ![c] = IF cells = <<>> THEN @ ELSE Append(@, cells)]
  BY DEF SendRpcResponse
<1>2. fd'[t] = fd[t]
  BY DEF callerVars
<1>3. CASE cells = <<>>
  <2>1. h.reply = r
    OBVIOUS
  <2> HIDE DEF h
  <2>2. handled'[t] = <<h>>
    BY DEF OnceInv, ChannelTypes, h
  <2>3. handled'[t] # <<>> /\ handled'[t][1] = h
    BY <2>2
  <2> QED
    BY <1>3, <2>1, <2>3 DEF Due, AnswerIsEmpty
<1>4. CASE cells # <<>>
  <2> HIDE DEF cells, c
  <2>1. toClient'[c] = Append(toClient[c], cells)
    BY <1>1, <1>4 DEF OwnInv, c
  <2>2. toClient'[c] # <<>>
    <3>1. toClient[c] = <<>> \/ \E x : toClient[c] = <<x>>
      BY DEF WaitsAlone, c
    <3>2. CASE toClient[c] = <<>>
      BY <2>1, <3>2
    <3>3. ASSUME NEW x, toClient[c] = <<x>> PROVE toClient'[c] # <<>>
      BY <2>1, <3>3, AppendedNotEmpty
    <3> QED
      BY <3>1, <3>2, <3>3
  <2> QED
    BY <1>2, <2>2 DEF Due, c
<1> QED
  BY <1>3, <1>4

\* The connection of a call that is alone and waits, before a step and after it.
LEMMA AloneFacts ==
  ASSUME ChannelTypes, ConnectionInv, OwnInv, [Next]_vars, NEW t \in Call \ disturbed, Waiting(t),
         link'[fd[t]] = "open"
  PROVE  /\ fd[t] \in Conn /\ link[fd[t]] = "open" /\ WaitsAlone(t)
<1>1. fd[t] \in Conn /\ link[fd[t]] # "unused"
  BY DEF ConnectionInv, Waiting
<1>2. link[fd[t]] = "open"
  BY <1>1, EndedStays
<1> QED
  BY <1>1, <1>2 DEF OwnInv

\* OnMessage answers a call that is alone, or leaves its connection alone.
LEMMA OnMessageDue ==
  ASSUME OnceInv, ConnectionInv, OwnInv, OwnBytes, RestDisturbs, [Next]_vars,
         NEW c \in Conn, OnMessage(c),
         NEW t \in Call \ disturbed, Waiting(t), Due(t), link'[fd[t]] = "open"
  PROVE  Due(t)'
<1> DEFINE u == toServer[c][1].call
<1>1. UNCHANGED <<workload, callerVars>> /\ fd'[t] = fd[t] /\ workload' = workload
  BY DEF OnMessage, callerVars
<1>2. fd[t] \in Conn /\ WaitsAlone(t)
  BY AloneFacts DEF OnceInv
<1>3. u \in Call
  BY OnMessageTakes
<1>4. PICK bytes, left :
        /\ Handle(c, u, bytes, left)
        /\ toServer[c][1].cells[1].part = "size" => \A d \in Dispatch(bytes) : d.is = "request"
  BY OnMessageTakes
<1>5. ~ Ends
  BY <1>2, EndsAll
<1>6. /\ toServer' = [toServer EXCEPT ![c] = left]
      /\ \/ \E d \in Dispatch(bytes) : d.is = "dropped" /\ UNCHANGED <<handled, toClient>>
         \/ \E args : \E r \in workload[u].replies :
              /\ handled' = [handled EXCEPT ![u] = Append(@, [args |-> args, reply |-> r])]
              /\ SendRpcResponse(c, u, r)
  <2> HIDE DEF u
  <2>1. Handle(c, u, bytes, left)
    BY <1>4
  <2> QED
    BY <1>5, <2>1, HandleKeeps
<1>7. CASE fd[t] # c
  <2>1. toServer'[fd[t]] = toServer[fd[t]]
    BY <1>2, <1>6, <1>7 DEF OnceInv, ChannelTypes
  <2>2. CASE UNCHANGED <<handled, toClient>>
    BY <1>1, <2>1, <2>2, DueKept
  <2>3. ASSUME NEW args, NEW r,
               handled' = [handled EXCEPT ![u] = Append(@, [args |-> args, reply |-> r])],
               SendRpcResponse(c, u, r)
        PROVE  Due(t)'
    <3>1. toClient'[fd[t]] = toClient[fd[t]]
      BY <1>2, <1>7, <2>3 DEF SendRpcResponse, OwnInv
    <3> DEFINE h == [args |-> args, reply |-> r]
    <3>2. handled' = [handled EXCEPT ![u] = Append(@, h)]
      BY <2>3
    <3> HIDE DEF h, u
    <3>3. handled[t] # <<>> => handled'[t] # <<>> /\ handled'[t][1] = handled[t][1]
      BY <3>2, FirstStays
    <3> QED
      BY <1>1, <2>1, <3>1, <3>3, DueKept
  <2> QED
    BY <1>6, <2>2, <2>3
<1>8. CASE fd[t] = c
  <2>1. 1 \in DOMAIN toServer[c]
    <3>1. toServer[c] \in Seq(Written)
      BY DEF OnceInv, ChannelTypes
    <3>2. \E k : k \in 1..Len(toServer[c])
      BY DEF OnMessage
    <3> QED
      BY <3>1, <3>2, LenProperties
  <2>2. u = t
    BY <1>2, <1>8, <2>1 DEF WaitsAlone
  <2>3. toServer[c][1].cells[1].part = "size"
    BY <2>1, <2>2 DEF RestDisturbs
  <2>4. handled[t] = <<>>
    <3>1. Waits(toServer[c], t, 1)
      BY <2>1, <2>2, <2>3 DEF Waits
    <3> QED
      BY <3>1 DEF OnceInv, WaitsUnhandled
  <2>5. ~ \E d \in Dispatch(bytes) : d.is = "dropped"
    BY <1>4, <2>3
  <2>6. PICK args, r :
          /\ handled' = [handled EXCEPT ![u] = Append(@, [args |-> args, reply |-> r])]
          /\ SendRpcResponse(c, u, r)
    <3> HIDE DEF u
    <3> QED
      BY <1>6, <2>5
  <2>7. /\ handled' = [handled EXCEPT ![t] = Append(@, [args |-> args, reply |-> r])]
        /\ SendRpcResponse(fd[t], t, r)
    BY <1>8, <2>2, <2>6
  <2> HIDE DEF u
  <2> QED
    BY <1>1, <1>2, <2>4, <2>7, AnswerDue
<1> QED
  BY <1>7, <1>8

\* A part of a request disturbs its call, and leaves other connections alone.
LEMMA OnPartDue ==
  ASSUME OnceInv, ConnectionInv, OwnInv, [Next]_vars, NEW c \in Conn, OnPartOfMessage(c),
         NEW t \in Call \ disturbed', t \notin disturbed, Waiting(t), Due(t), link'[fd[t]] = "open"
  PROVE  Due(t)'
<1> DEFINE u == toServer[c][1].call
<1>1. /\ toServer[c] # <<>> /\ disturbed' = disturbed \cup {u}
      /\ fd'[t] = fd[t] /\ workload' = workload
      /\ \E bytes, left : Handle(c, u, bytes, left)
  BY DEF OnPartOfMessage, callerVars
<1>2. fd[t] \in Conn /\ WaitsAlone(t)
  BY AloneFacts DEF OnceInv
<1>3. fd[t] # c
  <2>1. 1 \in DOMAIN toServer[c]
    <3>1. toServer[c] \in Seq(Written)
      BY DEF OnceInv, ChannelTypes
    <3> QED
      BY <1>1, <3>1, EmptySeq, LenProperties
  <2>2. u # t
    BY <1>1
  <2> QED
    BY <1>2, <2>1, <2>2 DEF WaitsAlone
<1>4. ~ Ends
  BY <1>2, EndsAll
<1> HIDE DEF u
<1>5. PICK left :
        /\ toServer' = [toServer EXCEPT ![c] = left]
        /\ \/ UNCHANGED <<handled, toClient>>
           \/ \E args, r :
                /\ handled' = [handled EXCEPT ![u] = Append(@, [args |-> args, reply |-> r])]
                /\ SendRpcResponse(c, u, r)
  BY <1>1, <1>4, HandleKeeps
<1>6. toServer'[fd[t]] = toServer[fd[t]]
  BY <1>2, <1>3, <1>5 DEF OnceInv, ChannelTypes
<1>7. CASE UNCHANGED <<handled, toClient>>
  BY <1>1, <1>6, <1>7, DueKept
<1>8. ASSUME NEW args, NEW r,
             handled' = [handled EXCEPT ![u] = Append(@, [args |-> args, reply |-> r])],
             SendRpcResponse(c, u, r)
      PROVE  Due(t)'
  <2> DEFINE h == [args |-> args, reply |-> r]
  <2>1. toClient'[fd[t]] = toClient[fd[t]]
    BY <1>2, <1>3, <1>8 DEF SendRpcResponse, OwnInv
  <2>2. handled' = [handled EXCEPT ![u] = Append(@, h)]
    BY <1>8
  <2> HIDE DEF h
  <2>3. handled[t] # <<>> => handled'[t] # <<>> /\ handled'[t][1] = handled[t][1]
    BY <2>2, FirstStays
  <2> QED
    BY <1>1, <1>6, <2>1, <2>3, DueKept
<1> QED
  BY <1>5, <1>7, <1>8

\* Every step leaves a call that is alone something to wait for.
LEMMA NothingLostStep ==
  ASSUME OnceInv, ConnectionInv, OwnInv, OwnBytes, RestDisturbs, NothingLost, [Next]_vars
  PROVE  NothingLost'
<1> SUFFICES ASSUME NEW t \in Call \ disturbed', Waiting(t)', link'[fd'[t]] = "open"
             PROVE  Due(t)'
  BY DEF NothingLost
<1>0. t \in Call /\ t \notin disturbed /\ workload' = workload
  BY DisturbedStays, WorkloadStays DEF OnceInv
<1>1. ASSUME Waiting(t), fd'[t] = fd[t]
      PROVE  Due(t) /\ fd[t] \in Conn /\ link[fd[t]] = "open" /\ WaitsAlone(t) /\ link'[fd[t]] = "open"
  <2>1. link'[fd[t]] = "open"
    BY <1>1
  <2>2. fd[t] \in Conn /\ link[fd[t]] = "open" /\ WaitsAlone(t)
    BY <1>0, <1>1, <2>1, AloneFacts DEF OnceInv
  <2> QED
    BY <1>0, <1>1, <2>1, <2>2 DEF NothingLost
<1>2. ASSUME UNCHANGED <<toServer, toClient, handled, fd>>, Waiting(t) PROVE Due(t)'
  BY <1>0, <1>1, <1>2, DueKept
<1>11. ASSUME NEW u \in Call, RecvEof(u) PROVE Due(t)'
  <2>1. UNCHANGED <<toServer, toClient, handled, fd>>
    BY <1>11 DEF RecvEof, serverVars
  <2>2. pc' = [pc EXCEPT ![u] = "ok"]
    BY <1>11 DEF RecvEof, Return
  <2>3. Waiting(t)
    BY <2>2 DEF Waiting, OnceInv, ChannelTypes
  <2> QED
    BY <1>2, <2>1, <2>3
<1>3. ASSUME NEW u \in Call, Aside(u) PROVE Due(t)'
  <2>1. UNCHANGED <<toServer, toClient, handled>>
    BY <1>3, AsideFacts DEF serverVars, OnceInv
  <2>2. PICK s \in AsideStates : pc' = [pc EXCEPT ![u] = s]
    BY <1>3, AsideFacts DEF OnceInv
  <2>3. Waiting(t) /\ t # u
    BY <2>2 DEF Waiting, OnceInv, ChannelTypes, AsideStates
  <2>4. fd'[t] = fd[t]
    <3>1. fd' = fd \/ \E n : fd' = [fd EXCEPT ![u] = n]
      BY <1>3, AsideFacts DEF OnceInv
    <3> QED
      BY <2>3, <3>1 DEF ConnectionInv
  <2> QED
    BY <1>0, <1>1, <2>1, <2>3, <2>4, DueKept
<1>4. ASSUME NEW u \in Call, Send(u) PROVE Due(t)'
  <2>1. /\ UNCHANGED <<toClient, handled>> /\ clientFd \in Conn
        /\ fd' = [fd EXCEPT ![u] = clientFd] /\ pc' = [pc EXCEPT ![u] = "sent"]
        /\ link[clientFd] # "open" =>
             UNCHANGED toServer /\ \E how \in {"eof", "reset"} : link' = [link EXCEPT ![clientFd] = how]
    BY <1>4 DEF Send, Live, serverVars, ConnectionInv
  <2>2. CASE u = t
    <3>1. fd'[t] = clientFd
      BY <2>1, <2>2 DEF ConnectionInv
    <3>2. link[clientFd] = "open"
      BY <2>1, <3>1 DEF ConnectionInv
    <3>3. Waits(toServer'[clientFd], t, Len(toServer[clientFd]) + 1)
      BY <1>4, <2>2, <3>2, SendAppends
    <3> QED
      BY <3>1, <3>3 DEF Due
  <2>3. CASE u # t
    <3>1. fd'[t] = fd[t] /\ Waiting(t)
      BY <2>1, <2>3 DEF ConnectionInv, OnceInv, ChannelTypes, Waiting
    <3>2. CASE link[clientFd] # "open"
      <4>1. UNCHANGED toServer
        BY <2>1, <3>2
      <4> QED
        BY <1>0, <1>1, <2>1, <3>1, <4>1, DueKept
    <3>3. CASE link[clientFd] = "open"
      <4>1. ASSUME NEW i, Waits(toServer[fd[t]], t, i) PROVE Waits(toServer'[fd[t]], t, i)
        <5>1. CASE fd[t] # clientFd
          <6>1. fd[t] \in Conn
            BY <1>1, <3>1
          <6> QED
            BY <1>4, <3>3, <4>1, <5>1, <6>1, SendAppends
        <5>2. CASE fd[t] = clientFd
          <6>1. /\ DOMAIN toServer[clientFd] = 1..Len(toServer[clientFd])
                /\ Len(toServer[clientFd]) \in Nat
                /\ DOMAIN toServer'[clientFd] = 1..(Len(toServer[clientFd]) + 1)
                /\ \A j \in 1..Len(toServer[clientFd]) : toServer'[clientFd][j] = toServer[clientFd][j]
            BY <1>4, <3>3, SendAppends
          <6>2. i \in 1..Len(toServer[clientFd])
            BY <4>1, <5>2, <6>1 DEF Waits
          <6>3. i \in 1..(Len(toServer[clientFd]) + 1)
            BY <6>1, <6>2
          <6> QED
            BY <4>1, <5>2, <6>1, <6>2, <6>3 DEF Waits
        <5> QED
          BY <5>1, <5>2
      <4> QED
        BY <1>0, <1>1, <2>1, <3>1, <4>1, DueKept
    <3> QED
      BY <3>2, <3>3
  <2> QED
    BY <2>2, <2>3
<1>5. ASSUME NEW u \in Call, BeginRecv(u) PROVE Due(t)'
  <2>1. UNCHANGED <<toServer, toClient, handled>> /\ pc[u] = "sent"
    BY <1>5 DEF BeginRecv, serverVars
  <2>2. CASE u = t
    <3>1. clientFd \in Conn
      BY <1>5, <2>2 DEF BeginRecv, Waiting, OnceInv, ChannelTypes
    <3>2. fd[t] = clientFd /\ fd' = [fd EXCEPT ![t] = clientFd]
      BY <1>5, <2>2, <3>1 DEF BeginRecv
    <3>3. UNCHANGED fd
      BY <3>2 DEF ConnectionInv
    <3> QED
      BY <1>2, <2>1, <2>2, <3>3 DEF Waiting
  <2>3. CASE u # t
    <3>1. fd'[t] = fd[t] /\ pc'[t] = pc[t]
      BY <1>5, <2>3 DEF BeginRecv, ConnectionInv, OnceInv, ChannelTypes
    <3>2. Waiting(t)
      BY <3>1 DEF Waiting
    <3> QED
      BY <1>0, <1>1, <2>1, <3>1, <3>2, DueKept
  <2> QED
    BY <2>2, <2>3
<1>6. ASSUME NEW u \in Call, Receive(u) PROVE Due(t)'
  <2>1. /\ pc[u] = "receiving" /\ UNCHANGED <<toServer, handled, fd>>
        /\ \E left : toClient' = [toClient EXCEPT ![fd[u]] = left]
        /\ \E cells : \E o \in Outcomes(u, cells) : Return(u, o.outcome, o.response)
    BY <1>6 DEF Receive, serverVars
  <2>2. \E s \in {"ok", "failed"} : pc' = [pc EXCEPT ![u] = s]
    <3>1. \A cells : \A o \in Outcomes(u, cells) : o.outcome \in {"ok", "failed"}
      BY DEF Outcomes
    <3> QED
      BY <2>1, <3>1 DEF Return
  <2>3. u # t /\ Waiting(t)
    BY <2>2 DEF Waiting, OnceInv, ChannelTypes
  <2>4. fd[u] # fd[t]
    BY <1>1, <2>1, <2>3 DEF WaitsAlone, Waiting
  <2>5. toClient'[fd[t]] = toClient[fd[t]]
    BY <1>1, <2>1, <2>3, <2>4 DEF OwnInv
  <2> QED
    BY <1>0, <1>1, <2>1, <2>3, <2>5, DueKept
<1>7. ASSUME NEW c \in Conn, OnMessage(c) PROVE Due(t)'
  <2>1. fd'[t] = fd[t] /\ Waiting(t)
    BY <1>7 DEF OnMessage, callerVars, Waiting
  <2> QED
    BY <1>0, <1>1, <1>7, <2>1, OnMessageDue
<1>8. ASSUME NEW c \in Conn, OnPartOfMessage(c) PROVE Due(t)'
  <2>1. fd'[t] = fd[t] /\ Waiting(t)
    BY <1>8 DEF OnPartOfMessage, callerVars, Waiting
  <2> QED
    BY <1>0, <1>1, <1>8, <2>1, OnPartDue
<1>9. CASE Crash
  <2>1. fd'[t] = fd[t] /\ Waiting(t) /\ Ends
    BY <1>9 DEF Crash, callerVars, Waiting
  <2> QED
    BY <1>1, <2>1, EndsAll
<1>10. CASE Restart \/ UNCHANGED vars
  <2>1. UNCHANGED <<toServer, toClient, handled, fd>> /\ Waiting(t)
    BY <1>10 DEF Restart, vars, callerVars, serverVars, Waiting
  <2> QED
    BY <1>2, <2>1
<1> QED
  BY <1>3, <1>4, <1>5, <1>6, <1>7, <1>8, <1>9, <1>10, <1>11 DEF Next, CallMethod, Aside

\* It holds at first.
LEMMA InitDue ==
  ASSUME Init
  PROVE  DueInv
<1>1. OpenWhileUp
  <2>1. \A c \in Conn : link[c] = "open" => c = clientFd
    BY DEF Init
  <2>2. clientFd \in Conn => up
    <3>1. NoFd \notin Conn
      BY BoundsAssumption DEF NoFd, Conn
    <3> QED
      BY <3>1 DEF Init
  <2> QED
    BY <2>1, <2>2 DEF OpenWhileUp
<1>2. RestDisturbs
  <2>1. \A c \in Conn : toServer[c] = <<>>
    BY DEF Init
  <2> QED
    BY <2>1 DEF RestDisturbs
<1>3. NothingLost
  BY DEF Init, NothingLost, Waiting
<1> QED
  BY <1>1, <1>2, <1>3 DEF DueInv

\* What is due keeps its invariant through every step of any call, the provider
\* and the faults.
THEOREM DueInvariance == Spec => []DueInv
<1>1. OnceInv /\ ConnectionInv /\ OwnInv /\ ReadInv /\ DueInv /\ [Next]_vars => DueInv'
  BY OpenStep, RestStep, NothingLostStep DEF DueInv, ReadInv, OnceInv
<1>2. Init => DueInv
  BY InitDue
<1> QED
  BY <1>1, <1>2, ChannelInvariance, OwnInvariance, ReadInvariance, PTL DEF Spec

\* A call that had its connection to itself never waits for what nobody will do: no
\* request is lost by how it was announced, cut or taken with others, and no end of
\* the provider leaves a connection open.
THEOREM AlwaysNoCallStuck == Spec => []NoCallStuck
<1>1. OnceInv /\ ConnectionInv /\ DueInv => NoCallStuck
  <2> SUFFICES ASSUME OnceInv, ConnectionInv, DueInv,
                      NEW t \in Call \ disturbed, pc[t] = "receiving"
               PROVE  CanStep(t) \/ CanHandle(fd[t]) \/ AnswerIsEmpty(t)
    BY DEF NoCallStuck
  <2>1. fd[t] \in Conn
    BY DEF ConnectionInv
  <2>2. CanStep(t) = (toClient[fd[t]] # <<>> \/ link[fd[t]] # "open")
    BY DEF CanStep
  <2>3. CASE link[fd[t]] # "open"
    BY <2>2, <2>3
  <2>4. CASE link[fd[t]] = "open"
    <3>1. up /\ Due(t)
      BY <2>1, <2>4 DEF DueInv, OpenWhileUp, NothingLost, Waiting
    <3>2. ASSUME NEW i, Waits(toServer[fd[t]], t, i) PROVE CanHandle(fd[t])
      <4>1. toServer[fd[t]] # <<>>
        BY <3>2 DEF Waits
      <4> QED
        BY <3>1, <4>1 DEF CanHandle
    <3> QED
      BY <2>2, <3>1, <3>2 DEF Due
  <2> QED
    BY <2>3, <2>4
<1> QED
  BY <1>1, ChannelInvariance, DueInvariance, PTL

-----------------------------------------------------------------------------
(* Whose connection is taken away *)

\* A call about to send that had found or made a live connection has a live one,
\* its own or another, unless somebody took it away.
LiveToSend ==
  \A u \in Call \ disturbed : pc[u] = "sending" /\ Live(fd[u]) => Live(clientFd)

\* The inductive invariant of sends that fail.
ResendInv == LiveToSend /\ ResendsOnlyAfterEnd

\* A step changes what is live by ending the connections, by connecting, or by
\* writing over m_clientFd, which disturbs who is about to send.
LEMMA ResendStep ==
  ASSUME ChannelTypes, ConnectionInv, ResendInv, [Next]_vars
  PROVE  ResendInv'
<1>1. disturbed \subseteq disturbed'
  BY DisturbedStays
<1>2. ASSUME NEW t \in Call, \A u \in Call \ {t} : pc'[u] = pc[u] /\ fd'[u] = fd[u],
             pc'[t] \notin {"sending", "sendFailed"}, clientFd' = clientFd,
             \A c \in Conn : link[c] # "unused" => (link'[c] = "open" <=> link[c] = "open")
      PROVE  ResendInv'
  <2>1. Live(clientFd)' <=> Live(clientFd)
    BY <1>2 DEF Live, ConnectionInv
  <2>2. \A u \in Call \ {t} : Live(fd[u])' <=> Live(fd[u])
    BY <1>2 DEF Live, ConnectionInv
  <2> QED
    BY <1>1, <1>2, <2>1, <2>2 DEF ResendInv, LiveToSend, ResendsOnlyAfterEnd
<1>3. ASSUME NEW t \in Call, NEW n, SetClientFd(t, n), UNCHANGED <<link, fd>>,
             \A u \in Call \ {t} : pc'[u] = pc[u],
             pc'[t] # "sendFailed", pc'[t] = "sending" => n = fd[t]
      PROVE  ResendInv'
  <2>1. clientFd' = n /\ disturbed' = disturbed \cup Deprived(t, n)
    BY <1>3 DEF SetClientFd
  <2>2. (Live(clientFd)' <=> Live(n)) /\ \A u \in Call : Live(fd[u])' <=> Live(fd[u])
    BY <1>3, <2>1 DEF Live
  <2>3. ASSUME NEW u \in Call \ disturbed', pc'[u] = "sending", Live(fd[u])' PROVE Live(clientFd)'
    <3>1. CASE u = t
      BY <1>3, <2>2, <2>3, <3>1
    <3>2. CASE u # t
      <4>1. pc[u] = "sending" /\ Live(clientFd)
        BY <1>1, <1>3, <2>2, <2>3, <3>2 DEF ResendInv, LiveToSend
      <4>2. u \notin Deprived(t, n)
        BY <2>1, <2>3
      <4>3. Live(n)
        BY <3>2, <4>1, <4>2 DEF Deprived
      <4> QED
        BY <2>2, <4>3
    <3> QED
      BY <3>1, <3>2
  <2>4. ResendsOnlyAfterEnd'
    BY <1>1, <1>3, <2>2 DEF ResendInv, ResendsOnlyAfterEnd
  <2> QED
    BY <2>3, <2>4 DEF ResendInv, LiveToSend
<1>4. ASSUME UNCHANGED <<pc, fd, clientFd, link>> PROVE ResendInv'
  <2>1. (Live(clientFd)' <=> Live(clientFd)) /\ \A u \in Call : Live(fd[u])' <=> Live(fd[u])
    BY <1>4 DEF Live
  <2> QED
    BY <1>1, <1>4, <2>1 DEF ResendInv, LiveToSend, ResendsOnlyAfterEnd
<1>5. ASSUME Ends PROVE ResendInv'
  <2>1. \A u \in Call : ~ Live(fd[u])'
    BY <1>5, EndsAll DEF Live
  <2> QED
    BY <2>1 DEF ResendInv, LiveToSend, ResendsOnlyAfterEnd
<1>6. ASSUME NEW t \in Call, Start(t) PROVE ResendInv'
  <2>1. /\ UNCHANGED <<clientFd, link>> /\ fd' = [fd EXCEPT ![t] = clientFd]
        /\ pc' = [pc EXCEPT ![t] = IF clientFd = NoFd THEN "connecting" ELSE "sending"]
    BY <1>6 DEF Start
  <2>2. fd'[t] = clientFd /\ \A u \in Call \ {t} : pc'[u] = pc[u] /\ fd'[u] = fd[u]
    BY <2>1 DEF ConnectionInv, ChannelTypes
  <2>3. pc'[t] # "sendFailed"
    BY <2>1 DEF ChannelTypes
  <2>4. (Live(clientFd)' <=> Live(clientFd)) /\ (Live(fd[t])' <=> Live(clientFd))
    BY <2>1, <2>2 DEF Live
  <2>5. \A u \in Call \ {t} : Live(fd[u])' <=> Live(fd[u])
    BY <2>1, <2>2 DEF Live
  <2> QED
    BY <1>1, <2>2, <2>3, <2>4, <2>5 DEF ResendInv, LiveToSend, ResendsOnlyAfterEnd
<1>7. ASSUME NEW t \in Call, Connect(t) PROVE ResendInv'
  <2>1. \E s \in {"connected", "failing"} : pc' = [pc EXCEPT ![t] = s]
    BY <1>7 DEF Connect
  <2>2. clientFd' = clientFd /\ (fd' = fd \/ \E n : fd' = [fd EXCEPT ![t] = n])
    BY <1>7 DEF Connect
  <2>3. \A c \in Conn : link[c] # "unused" => (link'[c] = "open" <=> link[c] = "open")
    <3>1. link' = link \/ (Fresh \in Conn /\ link' = [link EXCEPT ![Fresh] = "open"])
      BY <1>7 DEF Connect
    <3>2. \A c \in Conn : link[c] # "unused" => c # Fresh
      <4>1. Fresh \in Nat \ {0} /\ \A c \in Conn : link[c] # "unused" => c < Fresh
        BY FreshUnused
      <4>2. \A c \in Conn : c \in Nat
        BY BoundsAssumption DEF Conn
      <4> QED
        BY <4>1, <4>2
    <3> QED
      BY <3>1, <3>2 DEF ConnectionInv
  <2>4. pc'[t] \notin {"sending", "sendFailed"} /\ \A u \in Call \ {t} : pc'[u] = pc[u] /\ fd'[u] = fd[u]
    BY <2>1, <2>2 DEF ConnectionInv, ChannelTypes
  <2> QED
    BY <1>2, <2>2, <2>3, <2>4
<1>8. ASSUME NEW t \in Call, Send(t) PROVE ResendInv'
  <2>1. /\ clientFd' = clientFd /\ clientFd \in Conn
        /\ fd' = [fd EXCEPT ![t] = clientFd] /\ pc' = [pc EXCEPT ![t] = "sent"]
        /\ \/ link' = link
           \/ link[clientFd] # "open" /\ \E how \in {"eof", "reset"} : link' = [link EXCEPT ![clientFd] = how]
    BY <1>8 DEF Send, Live
  <2>2. \A c \in Conn : link'[c] = "open" <=> link[c] = "open"
    BY <2>1 DEF ConnectionInv
  <2>3. pc'[t] \notin {"sending", "sendFailed"} /\ \A u \in Call \ {t} : pc'[u] = pc[u] /\ fd'[u] = fd[u]
    BY <2>1 DEF ConnectionInv, ChannelTypes
  <2> QED
    BY <1>2, <2>1, <2>2, <2>3
<1>9. ASSUME NEW t \in Call, SendFails(t) PROVE ResendInv'
  <2>1. pc[t] = "sending" /\ ~ Live(clientFd) /\ UNCHANGED <<fd, clientFd, link>>
        /\ pc' = [pc EXCEPT ![t] = "sendFailed"] /\ disturbed' = disturbed
    BY <1>9 DEF SendFails, Live
  <2>2. (Live(clientFd)' <=> Live(clientFd)) /\ \A u \in Call : Live(fd[u])' <=> Live(fd[u])
    BY <2>1 DEF Live
  <2>3. \A u \in Call \ {t} : pc'[u] = pc[u]
    BY <2>1 DEF ChannelTypes
  <2>4. t \notin disturbed => ~ Live(fd[t])
    BY <2>1 DEF ResendInv, LiveToSend
  <2>5. LiveToSend'
    BY <2>1, <2>2, <2>3 DEF ResendInv, LiveToSend, ChannelTypes
  <2>6. ResendsOnlyAfterEnd'
    BY <2>1, <2>2, <2>3, <2>4 DEF ResendInv, ResendsOnlyAfterEnd
  <2> QED
    BY <2>5, <2>6 DEF ResendInv
<1>10. ASSUME NEW t \in Call, BeginRecv(t) PROVE ResendInv'
  <2>1. UNCHANGED <<clientFd, link>> /\ (fd' = fd \/ fd' = [fd EXCEPT ![t] = clientFd])
        /\ \E s \in {"receiving", "recvFailed"} : pc' = [pc EXCEPT ![t] = s]
    BY <1>10 DEF BeginRecv
  <2>2. pc'[t] \notin {"sending", "sendFailed"} /\ \A u \in Call \ {t} : pc'[u] = pc[u] /\ fd'[u] = fd[u]
    BY <2>1 DEF ConnectionInv, ChannelTypes
  <2> QED
    BY <1>2, <2>1, <2>2
<1>11. ASSUME NEW t \in Call, Receive(t) \/ RecvEof(t) \/ RecvError(t) PROVE ResendInv'
  <2>1. UNCHANGED <<clientFd, link, fd>>
    BY <1>11 DEF Receive, RecvEof, RecvError
  <2>2. \E s \in {"ok", "failed", "recvFailed"} : pc' = [pc EXCEPT ![t] = s]
    <3>1. \A cells : \A o \in Outcomes(t, cells) : o.outcome \in {"ok", "failed"}
      BY DEF Outcomes
    <3>2. CASE Receive(t)
      <4>1. \E cells : \E o \in Outcomes(t, cells) : Return(t, o.outcome, o.response)
        BY <3>2 DEF Receive
      <4> QED
        BY <3>1, <4>1 DEF Return
    <3> QED
      BY <1>11, <3>2 DEF RecvEof, RecvError, Return
  <2>3. pc'[t] \notin {"sending", "sendFailed"} /\ \A u \in Call \ {t} : pc'[u] = pc[u] /\ fd'[u] = fd[u]
    BY <2>1, <2>2 DEF ChannelTypes
  <2> QED
    BY <1>2, <2>1, <2>3
<1>12. ASSUME NEW t \in Call, Connected(t) \/ Close(t) \/ Clear(t) \/ Fail(t) PROVE ResendInv'
  <2>1. UNCHANGED <<link, fd>>
    BY <1>12 DEF Connected, Close, Clear, Fail
  <2>2. PICK s \in {"clearing", "failing", "connecting", "failed"} :
          \/ SetClientFd(t, fd[t]) /\ pc' = [pc EXCEPT ![t] = "sending"]
          \/ (\E n : SetClientFd(t, n)) /\ pc' = [pc EXCEPT ![t] = s]
    BY <1>12 DEF Connected, Close, Clear, Fail, Return
  <2>3. \A u \in Call \ {t} : pc'[u] = pc[u]
    BY <2>2 DEF ChannelTypes
  <2>4. CASE SetClientFd(t, fd[t]) /\ pc' = [pc EXCEPT ![t] = "sending"]
    <3>1. pc'[t] # "sendFailed"
      BY <2>4 DEF ChannelTypes
    <3> QED
      BY <1>3, <2>1, <2>3, <2>4, <3>1
  <2>5. ASSUME NEW n, SetClientFd(t, n), pc' = [pc EXCEPT ![t] = s] PROVE ResendInv'
    <3>1. pc'[t] # "sendFailed" /\ pc'[t] # "sending"
      BY <2>5 DEF ChannelTypes
    <3> QED
      BY <1>3, <2>1, <2>3, <2>5, <3>1
  <2> QED
    BY <2>2, <2>4, <2>5
<1>13. ASSUME NEW c \in Conn, OnMessage(c) \/ OnPartOfMessage(c) PROVE ResendInv'
  <2>1. UNCHANGED callerVars /\ \E t, bytes, left : Handle(c, t, bytes, left)
    BY <1>13 DEF OnMessage, OnPartOfMessage
  <2>2. Ends \/ UNCHANGED link
    BY <2>1, HandleKeeps
  <2> QED
    BY <1>4, <1>5, <2>1, <2>2 DEF callerVars
<1>14. CASE Crash \/ Restart \/ UNCHANGED vars
  <2>1. Ends \/ UNCHANGED <<pc, fd, clientFd, link>>
    BY <1>14 DEF Crash, Restart, vars, callerVars
  <2> QED
    BY <1>4, <1>5, <2>1
<1> QED
  BY <1>6, <1>7, <1>8, <1>9, <1>10, <1>11, <1>12, <1>13, <1>14 DEF Next, CallMethod

\* A call from which no other call takes a live connection sends again only after
\* the provider has ended the connection it had: CallMethod's loop around send has
\* no other way round.
THEOREM AlwaysResendsOnlyAfterEnd == Spec => []ResendsOnlyAfterEnd
<1>1. Init => ResendInv
  BY DEF Init, ResendInv, LiveToSend, ResendsOnlyAfterEnd
<1>2. OnceInv /\ ConnectionInv /\ ResendInv /\ [Next]_vars => ResendInv'
  BY ResendStep DEF OnceInv
<1>3. ResendInv => ResendsOnlyAfterEnd
  BY DEF ResendInv
<1> QED
  BY <1>1, <1>2, <1>3, ChannelInvariance, PTL DEF Spec

=============================================================================
