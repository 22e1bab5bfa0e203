-------------------------------- MODULE Wire --------------------------------
(***************************************************************************)
(* The messages of the two services and of the RPC header, and how the     *)
(* generated classes (pb.h and pb.cc files) put them on a stream and read them  *)
(* back.  The classes differ only in their fields: a class is a set of     *)
(* records, what its accessors hold, and a sequence of fields, what its    *)
(* functions write and read; every class numbers its fields 1, 2, 3, ...   *)
(*                                                                         *)
(* A stream is a sequence of cells.  A field on it is two cells, its tag   *)
(* and its value, so a stream can be cut before a field, inside one (after *)
(* the tag) or, with a torn cell on either side, inside a value.           *)
(***************************************************************************)
EXTENDS Integers, FiniteSets, SequencesExt

-----------------------------------------------------------------------------
(* Fields *)

Int32(name)   == [name |-> name, kind |-> "int32"]
Bool(name)    == [name |-> name, kind |-> "bool"]
Bytes(name)   == [name |-> name, kind |-> "bytes"]
Entries(name) == [name |-> name, kind |-> "entries"]   \* repeated LogEntry

Default(kind) == CASE kind = "int32" -> 0 [] kind = "bool" -> FALSE [] OTHER -> <<>>

WireType(kind) == IF kind \in {"int32", "bool"} THEN "varint" ELSE "len"

\* A message with every field at its default.
Cleared(fields) ==
  [n \in {fields[i].name : i \in DOMAIN fields} |->
     Default((CHOOSE f \in ToSet(fields) : f.name = n).kind)]

-----------------------------------------------------------------------------
(* Cells *)

Cell(part, value, size) == [part |-> part, value |-> value, size |-> size]

\* Bytes of a varint: seven bits each, and ten for a negative int32, which is
\* written as 64 bits.
VarintSize(v) ==
  IF v < 0 THEN 10 ELSE 1 + Cardinality({b \in {7, 14, 21, 28} : v >= 2^b})

\* Bytes of a length-delimited value of n bytes.
LenSize(n) == VarintSize(n) + n

TotalSize(cells) == FoldLeft(LAMBDA n, c : n + c.size, 0, cells)

\* The first n bytes of a stream and what is left of it; a value that does not
\* fit is torn.
Cut(cells, n) ==
  LET fit  == Cardinality({k \in DOMAIN cells : TotalSize(SubSeq(cells, 1, k)) <= n})
      room == n - TotalSize(SubSeq(cells, 1, fit))
      From(k) == SubSeq(cells, k, Len(cells))
      Torn(size) == <<Cell("torn", <<>>, size)>>
  IN  IF fit = Len(cells) \/ room = 0
        THEN [head |-> SubSeq(cells, 1, fit), tail |-> From(fit + 1)]
        ELSE [head |-> SubSeq(cells, 1, fit) \o Torn(room),
              tail |-> Torn(cells[fit + 1].size - room) \o From(fit + 2)]

-----------------------------------------------------------------------------
(* The classes of raftRPC.pb.h *)

LogEntry == [Command : Seq(STRING), LogTerm : Int, LogIndex : Int]
LogEntryFields == <<Bytes("Command"), Int32("LogTerm"), Int32("LogIndex")>>

AppendEntriesArgs ==
  [Term : Int, LeaderId : Int, PrevLogIndex : Int, PrevLogTerm : Int,
   Entries : Seq(LogEntry), LeaderCommit : Int]
AppendEntriesArgsFields ==
  <<Int32("Term"), Int32("LeaderId"), Int32("PrevLogIndex"), Int32("PrevLogTerm"),
    Entries("Entries"), Int32("LeaderCommit")>>

AppendEntriesReply ==
  [Term : Int, Success : BOOLEAN, UpdateNextIndex : Int, AppState : Int]
AppendEntriesReplyFields ==
  <<Int32("Term"), Bool("Success"), Int32("UpdateNextIndex"), Int32("AppState")>>

RequestVoteArgs == [Term : Int, CandidateId : Int, LastLogIndex : Int, LastLogTerm : Int]
RequestVoteArgsFields ==
  <<Int32("Term"), Int32("CandidateId"), Int32("LastLogIndex"), Int32("LastLogTerm")>>

RequestVoteReply == [Term : Int, VoteGranted : BOOLEAN, VoteState : Int]
RequestVoteReplyFields == <<Int32("Term"), Bool("VoteGranted"), Int32("VoteState")>>

InstallSnapshotRequest ==
  [LeaderId : Int, Term : Int, LastSnapShotIncludeIndex : Int,
   LastSnapShotIncludeTerm : Int, Data : Seq(STRING)]
InstallSnapshotRequestFields ==
  <<Int32("LeaderId"), Int32("Term"), Int32("LastSnapShotIncludeIndex"),
    Int32("LastSnapShotIncludeTerm"), Bytes("Data")>>

InstallSnapshotResponse == [Term : Int]
InstallSnapshotResponseFields == <<Int32("Term")>>

-----------------------------------------------------------------------------
(* The classes of kvServerRPC.pb.h and rpcheader.pb.h *)

GetArgs == [Key : Seq(STRING), ClientId : Seq(STRING), RequestId : Int]
GetArgsFields == <<Bytes("Key"), Bytes("ClientId"), Int32("RequestId")>>

GetReply == [Err : Seq(STRING), Value : Seq(STRING)]
GetReplyFields == <<Bytes("Err"), Bytes("Value")>>

PutAppendArgs ==
  [Key : Seq(STRING), Value : Seq(STRING), Op : Seq(STRING), ClientId : Seq(STRING),
   RequestId : Int]
PutAppendArgsFields ==
  <<Bytes("Key"), Bytes("Value"), Bytes("Op"), Bytes("ClientId"), Int32("RequestId")>>

PutAppendReply == [Err : Seq(STRING)]
PutAppendReplyFields == <<Bytes("Err")>>

RpcHeader == [service_name : Seq(STRING), method_name : Seq(STRING), args_size : Nat]
\* A uint32 is written like an int32 that is not negative.
RpcHeaderFields == <<Bytes("service_name"), Bytes("method_name"), Int32("args_size")>>

-----------------------------------------------------------------------------
(* Writing a message *)

Varint(kind, v) == IF kind = "bool" THEN (IF v THEN 1 ELSE 0) ELSE v

ValueCell(kind, v) ==
  IF WireType(kind) = "varint"
    THEN Cell("varint", Varint(kind, v), VarintSize(Varint(kind, v)))
    ELSE Cell("len", v, LenSize(Len(v)))

TagCell(number, kind) == Cell("tag", <<number, WireType(kind)>>, 1)

\* A field at its default is not written.
ScalarCells(number, kind, v) ==
  IF v = Default(kind) THEN <<>> ELSE <<TagCell(number, kind), ValueCell(kind, v)>>

SerializeEntry(e) ==
  FlattenSeq([i \in DOMAIN LogEntryFields |->
    ScalarCells(i, LogEntryFields[i].kind, e[LogEntryFields[i].name])])

\* Mutant of EntriesCells: an element of defaults only is not written.
EntriesCellsNoEmpty(number, entries) ==
  FlattenSeq([k \in DOMAIN entries |->
    LET body == SerializeEntry(entries[k])
    IN  IF body = <<>> THEN <<>>
        ELSE <<TagCell(number, "entries"), Cell("len", body, LenSize(TotalSize(body)))>>])

\* Every element of a repeated field is written, one that has only defaults too.
EntriesCells(number, entries) ==
  FlattenSeq([k \in DOMAIN entries |->
    LET body == SerializeEntry(entries[k])
    IN  <<TagCell(number, "entries"), Cell("len", body, LenSize(TotalSize(body)))>>])

Serialize(fields, m) ==
  FlattenSeq([i \in DOMAIN fields |->
    LET v == m[fields[i].name]
    IN  IF fields[i].kind = "entries" THEN EntriesCells(i, v)
        ELSE ScalarCells(i, fields[i].kind, v)])

\* What the class says it will write, before it writes.
ScalarSize(kind, v) ==
  IF v = Default(kind) THEN 0
  ELSE CASE kind = "bool"  -> 1 + 1
         [] kind = "int32" -> 1 + VarintSize(v)
         [] kind = "bytes" -> 1 + LenSize(Len(v))

EntrySize(e) ==
  FoldLeft(LAMBDA n, f : n + ScalarSize(f.kind, e[f.name]), 0, LogEntryFields)

EntriesSize(entries) ==
  FoldLeft(LAMBDA n, e : n + 1 + LenSize(EntrySize(e)), 0, entries)

ByteSizeLong(fields, m) ==
  FoldLeft(LAMBDA n, f : n + (IF f.kind = "entries" THEN EntriesSize(m[f.name])
                              ELSE ScalarSize(f.kind, m[f.name])),
           0, fields)

-----------------------------------------------------------------------------
(* Reading a message *)

\* A stream that is whole fields: every odd cell a tag, every even one a value.
Whole(cells) ==
  /\ Len(cells) % 2 = 0
  /\ \A i \in DOMAIN cells :
       IF i % 2 = 1 THEN cells[i].part = "tag" ELSE cells[i].part \in {"varint", "len"}

\* Mutant of ReadScalar: the last field of a class is not known.
ReadScalarShort(fields, m, tag, v) ==
  IF tag[1] >= Len(fields) \/ tag[2] # WireType(fields[tag[1]].kind) THEN m
  ELSE [m EXCEPT ![fields[tag[1]].name] =
          IF fields[tag[1]].kind = "bool" THEN v # 0 ELSE v]

\* Reads one field into m; one whose number or wire type the class does not
\* know is kept aside.
ReadScalar(fields, m, tag, v) ==
  IF tag[1] > Len(fields) \/ tag[2] # WireType(fields[tag[1]].kind) THEN m
  ELSE [m EXCEPT ![fields[tag[1]].name] =
          IF fields[tag[1]].kind = "bool" THEN v # 0 ELSE v]

ParseEntry(cells) ==
  FoldLeft(LAMBDA m, i : ReadScalar(LogEntryFields, m, cells[2*i - 1].value, cells[2*i].value),
           Cleared(LogEntryFields), [i \in 1..(Len(cells) \div 2) |-> i])

ReadField(fields, m, tag, v) ==
  IF tag[1] <= Len(fields) /\ tag[2] = "len" /\ fields[tag[1]].kind = "entries"
    THEN [m EXCEPT ![fields[tag[1]].name] = Append(@, ParseEntry(v))]
    ELSE ReadScalar(fields, m, tag, v)

\* ParseFromString, for a stream that is Whole (any other fails): the fields it
\* has, the last one where it has several, and defaults for the others.
Parse(fields, cells) ==
  FoldLeft(LAMBDA m, i : ReadField(fields, m, cells[2*i - 1].value, cells[2*i].value),
           Cleared(fields), [i \in 1..(Len(cells) \div 2) |-> i])

\* What of another message a message takes over: fields that are not default,
\* and entries behind its own.
MergeFrom(fields, m, from) ==
  [n \in DOMAIN m |->
     LET kind == (CHOOSE f \in ToSet(fields) : f.name = n).kind
     IN  IF kind = "entries" THEN m[n] \o from[n]
         ELSE IF from[n] = Default(kind) THEN m[n] ELSE from[n]]

-----------------------------------------------------------------------------
(* The two services: the class a method takes and the class it returns *)

RaftMethods == {"AppendEntries", "InstallSnapshot", "RequestVote"}
KvMethods   == {"PutAppend", "Get"}

\* Names as the header carries them; a name counts as one byte.
ServiceOf(method) == IF method \in RaftMethods THEN <<"raftRpc">> ELSE <<"kvServerRpc">>

\* The names are strings, as every literal is; the provers have to be told.
ASSUME NamesAssumption == {"raftRpc", "kvServerRpc"} \cup RaftMethods \cup KvMethods \subseteq STRING

RaftRequest(method) ==
  CASE method = "AppendEntries"   -> AppendEntriesArgsFields
    [] method = "InstallSnapshot" -> InstallSnapshotRequestFields
    [] method = "RequestVote"     -> RequestVoteArgsFields

RaftResponse(method) ==
  CASE method = "AppendEntries"   -> AppendEntriesReplyFields
    [] method = "InstallSnapshot" -> InstallSnapshotResponseFields
    [] method = "RequestVote"     -> RequestVoteReplyFields

KvRequest(method) ==
  CASE method = "PutAppend" -> PutAppendArgsFields [] method = "Get" -> GetArgsFields

KvResponse(method) ==
  CASE method = "PutAppend" -> PutAppendReplyFields [] method = "Get" -> GetReplyFields

RequestFields(method) ==
  IF method \in RaftMethods THEN RaftRequest(method) ELSE KvRequest(method)

ResponseFields(method) ==
  IF method \in RaftMethods THEN RaftResponse(method) ELSE KvResponse(method)

\* The types of the two messages of a method.
IsRequest(method, m) ==
  CASE method = "AppendEntries"   -> m \in AppendEntriesArgs
    [] method = "InstallSnapshot" -> m \in InstallSnapshotRequest
    [] method = "RequestVote"     -> m \in RequestVoteArgs
    [] method = "PutAppend"       -> m \in PutAppendArgs
    [] method = "Get"             -> m \in GetArgs

IsResponse(method, m) ==
  CASE method = "AppendEntries"   -> m \in AppendEntriesReply
    [] method = "InstallSnapshot" -> m \in InstallSnapshotResponse
    [] method = "RequestVote"     -> m \in RequestVoteReply
    [] method = "PutAppend"       -> m \in PutAppendReply
    [] method = "Get"             -> m \in GetReply

=============================================================================
