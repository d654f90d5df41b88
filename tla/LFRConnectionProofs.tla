------------------------- MODULE LFRConnectionProofs -------------------------
(***************************************************************************)
(* What holds of a connection for every number of cards, every limit,      *)
(* every image length and every stream of messages.                        *)
(***************************************************************************)
EXTENDS LFRConnection, SequenceTheorems, TLAPS

\* The lengths and the messages have the types the stream needs.
LEMMA MessageType ==
  ASSUME NEW kind \in Kinds
  PROVE  /\ MsgLen[kind] \in 1..(3 + ImgLen)
         /\ Message(kind) \in Seq(Unit)
         /\ Len(Message(kind)) = MsgLen[kind]
         /\ \A k \in 1..MsgLen[kind] : Message(kind)[k] = [kind |-> kind, k |-> k]
<1>a. MsgLen[kind] \in {1, 2, 3 + ImgLen}
  BY DEF Kinds, MsgLen
<1>1. MsgLen[kind] \in 1..(3 + ImgLen)
  BY <1>a, LFRConnectionAssumption
<1>2. \A k \in 1..MsgLen[kind] : [kind |-> kind, k |-> k] \in Unit
  BY <1>1, LFRConnectionAssumption DEF Unit
<1>3. Message(kind) \in [1..MsgLen[kind] -> Unit]
  BY <1>2 DEF Message
<1>4. MsgLen[kind] \in Nat
  BY <1>1, LFRConnectionAssumption
<1>5. Message(kind) \in Seq(Unit) /\ Len(Message(kind)) = MsgLen[kind]
  BY <1>3, <1>4
<1> QED
  BY <1>1, <1>5 DEF Message

\* What transfer_exactly asks for fits in a size_t.
LEMMA MissingType ==
  ASSUME NEW b \in 0..MaxStream
  PROVE  Missing(b) \in 0..(SizeT - 1)
BY LFRConnectionAssumption DEF Missing

\* The branch that a line selects is a place of the work thread.
LEMMA DispatchType ==
  ASSUME NEW u \in Unit
  PROVE  Dispatch(u) \in {"loop", "record", "my_id", "image_name", "sending_image"}
BY DEF Dispatch, Unit, Kinds

LEMMA SyncChunkType == \A i \in Nat : SyncChunk(i) \in SyncChunks
BY DEF SyncChunk, SyncChunks

LEMMA WriteType ==
  ASSUME out \in Seq(Chunks), NEW chunk \in Chunks, Write(chunk)
  PROVE  out' \in Seq(Chunks)
BY AppendProperties DEF Write

-----------------------------------------------------------------------------
(* Type correctness.                                                       *)

LEMMA TypeInit == Init => TypeOK
<1> SUFFICES ASSUME Init PROVE TypeOK
  OBVIOUS
<1>1. stream \in Seq(Unit) /\ Len(stream) <= MaxStream
  BY LFRConnectionAssumption DEF Init
<1>2. out \in Seq(Chunks) /\ queries \in Seq(QueryTypes)
  BY DEF Init
<1>3. synced \in 0..SyncLen
  BY LFRConnectionAssumption DEF Init, SyncLen
<1>4. running \in BOOLEAN /\ end \in BOOLEAN /\ pending \in BOOLEAN
  BY DEF Init
<1>5. /\ process = "up" /\ tpc = "created" /\ wpc = "none" /\ socket = "open"
      /\ peer = "connected" /\ stored \in {"none", "whole"}
      /\ pushed = 0 /\ idle = 0 /\ waited = 0 /\ need = 0
      /\ sent = 0 /\ received = 0 /\ consumed = 0
  BY DEF Init
<1> QED
  BY <1>1, <1>2, <1>3, <1>4, <1>5, LFRConnectionAssumption DEF TypeOK

LEMMA TypeThreadT == TypeOK /\ ThreadT => TypeOK'
<1> SUFFICES ASSUME TypeOK, ThreadT PROVE TypeOK'
  OBVIOUS
<1> USE LFRConnectionAssumption
    DEF TypeOK, tVars, flags, asyncVars, input, client, SyncLen
<1>1. CASE fullSyncronisation
  <2>1. SyncChunk(synced + 1) \in SyncChunks /\ synced' \in 0..SyncLen
    BY <1>1, SyncChunkType DEF fullSyncronisation
  <2>2. out' \in Seq(Chunks)
    BY <1>1, <2>1, WriteType DEF fullSyncronisation, Chunks
  <2> QED
    BY <1>1, <2>1, <2>2 DEF fullSyncronisation
<1>2. CASE StartWorkThread
  BY <1>2 DEF StartWorkThread
<1>3. CASE SendingStops
  BY <1>3, ZenonT(30) DEF SendingStops
<1>4. CASE SendingContinues
  BY <1>4 DEF SendingContinues
<1>5. CASE SendQuery
  <2>1. Head(queries) \in QueryTypes /\ Tail(queries) \in Seq(QueryTypes)
    BY <1>5 DEF SendQuery
  <2>2. out' \in Seq(Chunks)
    BY <1>5, <2>1, WriteType DEF SendQuery, Chunks
  <2> QED
    BY <1>5, <2>1, <2>2 DEF SendQuery
<1>6. CASE Sleep
  BY <1>6 DEF Sleep
<1>7. CASE JoinAndClose
  BY <1>7 DEF JoinAndClose
<1>8. CASE SetEnd
  BY <1>8 DEF SetEnd
<1>9. CASE WriteThrows
  BY <1>9 DEF WriteThrows, Terminate
<1> QED
  BY <1>1, <1>2, <1>3, <1>4, <1>5, <1>6, <1>7, <1>8, <1>9 DEF ThreadT

LEMMA TypeWorkThread == TypeOK /\ WorkThread => TypeOK'
<1> SUFFICES ASSUME TypeOK, WorkThread PROVE TypeOK'
  OBVIOUS
<1> USE LFRConnectionAssumption
    DEF TypeOK, tVars, flags, asyncVars, input, client, SyncLen, BufferEmpty
<1>1. CASE WorkLoop
  BY <1>1 DEF WorkLoop, Delimited
<1>2. CASE ReadSome
  BY <1>2 DEF ReadSome
<1>3. CASE ReadHeader
  <2>1. stream[consumed + 1] \in Unit
    BY <1>3 DEF ReadHeader
  <2>2. wpc' \in {"loop", "record", "my_id", "image_name", "sending_image"}
    BY <1>3, <2>1, DispatchType DEF ReadHeader
  <2>3. pending' \in BOOLEAN
    BY <1>3 DEF ReadHeader
  <2>4. waited' \in 0..RecvLimit
    BY <1>3 DEF ReadHeader
  <2> QED
    BY <1>3, <2>2, <2>3, <2>4 DEF ReadHeader
<1>4. CASE ReadFails
  BY <1>4, ZenonT(30) DEF ReadFails
<1>5. CASE IdReadThrows \/ NameReadThrows
  BY <1>5, SMTT(30) DEF IdReadThrows, NameReadThrows, Terminate
<1>6. CASE ReadLine
  BY <1>6 DEF ReadLine, Delimited, LineReads
<1>7. CASE ReadImageLength
  <2>1. received - consumed' \in 0..MaxStream
    BY <1>7 DEF ReadImageLength
  <2>2. need' \in 0..(SizeT - 1)
    BY <1>7, <2>1, MissingType DEF ReadImageLength
  <2> QED
    BY <1>7, <2>2 DEF ReadImageLength
<1>8. CASE ReadImageData
  BY <1>8 DEF ReadImageData
<1>9. CASE ImageHandler
  <2>1. consumed' \in 0..received' /\ received' = received
    BY <1>9 DEF ImageHandler
  <2>2. pending' \in BOOLEAN
    BY <1>9 DEF ImageHandler
  <2>3. wpc' = "loop" /\ stored' \in {"none", "whole", "torn"}
    BY <1>9 DEF ImageHandler, TypeOK
  <2>4. UNCHANGED <<process, tVars, flags, idle, out, waited, need, client>>
    BY <1>9 DEF ImageHandler
  <2> QED
    BY <2>1, <2>2, <2>3, <2>4
<1>10. CASE RecordHandlerThrows
  BY <1>10 DEF RecordHandlerThrows, Terminate
<1>11. CASE ReceiveTimesOut
  BY <1>11 DEF ReceiveTimesOut
<1>12. CASE OpenImage
  BY <1>12 DEF OpenImage, ReplyChunks
<1>13. CASE OpenImageThrows
  BY <1>13 DEF OpenImageThrows, Terminate
<1>14. CASE Reply
  <2>1. wpc' \in {"file_name", "data", "loop"}
    BY <1>14 DEF Reply, ReplyChunks
  <2>2. out' \in Seq(Chunks)
    BY <1>14, WriteType DEF Reply, Chunks
  <2> QED
    BY <1>14, <2>1, <2>2 DEF Reply, Delimited, LineReads, ReplyChunks
<1>15. CASE ReplyThrows
  BY <1>15 DEF ReplyThrows, Terminate
<1> QED
  BY <1>1, <1>2, <1>3, <1>4, <1>5, <1>6, <1>7, <1>8, <1>9, <1>10, <1>11, <1>12,
     <1>13, <1>14, <1>15 DEF WorkThread

LEMMA TypeEnvironment == process = "up" /\ TypeOK /\ Environment => TypeOK'
<1> SUFFICES ASSUME TypeOK, Environment, process = "up" PROVE TypeOK'
  OBVIOUS
<1> USE LFRConnectionAssumption
    DEF TypeOK, tVars, flags, asyncVars, input, client, SyncLen
<1>1. CASE Start
  BY <1>1 DEF Start
<1>2. CASE PushQuery
  BY <1>2 DEF PushQuery
<1>3. CASE Stop
  <2>1. running' \in BOOLEAN
    BY <1>3 DEF Stop
  <2>2. UNCHANGED <<process, wpc, tVars, end, socket, idle, out, asyncVars, input,
                    client, stored>>
    BY <1>3 DEF Stop
  <2> QED
    BY <2>1, <2>2
<1>4. CASE Tick
  BY <1>4 DEF Tick, Capped
<1>5. CASE ClientBegins
  <2>1. PICK kind \in Kinds : /\ Len(stream) + MsgLen[kind] <= MaxStream
                              /\ stream' = stream \o Message(kind)
    BY <1>5 DEF ClientBegins
  <2>2. /\ Message(kind) \in Seq(Unit)
        /\ Len(Message(kind)) = MsgLen[kind]
        /\ MsgLen[kind] \in Nat
    BY MessageType
  <2>3. stream' \in Seq(Unit)
    BY <2>1, <2>2, ConcatProperties
  <2>4. Len(stream') = Len(stream) + MsgLen[kind]
    <3>1. stream \in Seq(Unit)
      OBVIOUS
    <3> HIDE DEF TypeOK
    <3> QED
      BY <3>1, <2>1, <2>2, ConcatProperties, ZenonT(30)
  <2> QED
    BY <1>5, <2>1, <2>2, <2>3, <2>4 DEF ClientBegins
<1>6. CASE ClientSends
  BY <1>6 DEF ClientSends
<1>7. CASE ClientReads
  BY <1>7 DEF ClientReads
<1>8. CASE ClientHangsUp
  BY <1>8 DEF ClientHangsUp
<1> QED
  BY <1>1, <1>2, <1>3, <1>4, <1>5, <1>6, <1>7, <1>8 DEF Environment

\* Every reachable state of a connection is well typed: the cursors stay in order,
\* and the length that recvImage computes, wrapped or not, is a size_t.
THEOREM TypeCorrect == Spec => []TypeOK
<1>1. TypeOK /\ [Next]_vars => TypeOK'
  <2> SUFFICES ASSUME TypeOK, [Next]_vars PROVE TypeOK'
    OBVIOUS
  <2>1. CASE Next
    BY <2>1, TypeThreadT, TypeWorkThread, TypeEnvironment DEF Next
  <2>2. CASE UNCHANGED vars
    BY <2>2 DEF vars, TypeOK, tVars, flags, asyncVars, input, client
  <2> QED
    BY <2>1, <2>2, ConcatProperties, SMT
<1> QED
  BY TypeInit, <1>1, PTL DEF Spec

-----------------------------------------------------------------------------
(* The two threads: where they are, against the flags and the socket.      *)

\* No chunk of the synchronisation comes after another chunk.
SyncPrefix ==
  \A i, j \in 1..Len(out) :
    i < j /\ out[j] \in SyncChunks => out[i] \in SyncChunks

OnlySync == \A i \in 1..Len(out) : out[i] \in SyncChunks

\* Strengthens ClosedUnused and SyncFirst: which flag and which place of the work
\* thread goes with each place of thread t.
ThreadInv ==
  /\ tpc \in {"created", "sync"} => wpc = "none" /\ OnlySync
  /\ synced < SyncLen => tpc \in {"created", "sync"}
  /\ tpc \in {"joining", "closing", "ended"} => running = FALSE
  /\ tpc \in {"closing", "ended"} => wpc = "exited"
  /\ socket = "closed" => tpc \in {"closing", "ended"}
  /\ tpc = "ended" => socket = "closed"
  /\ tpc = "closing" => socket = "closed"
  /\ end = TRUE => tpc = "ended"
  /\ SyncPrefix

LEMMA WriteKeepsPrefix ==
  ASSUME out \in Seq(Chunks), NEW chunk \in Chunks, Write(chunk), SyncPrefix,
         OnlySync \/ chunk \notin SyncChunks
  PROVE  SyncPrefix'
<1>1. CASE out' = out
  BY <1>1 DEF SyncPrefix
<1>2. CASE out' = Append(out, chunk)
  <2>1. /\ Len(out') = Len(out) + 1
        /\ out'[Len(out) + 1] = chunk
        /\ \A i \in 1..Len(out) : out'[i] = out[i]
    BY <1>2, AppendProperties
  <2> QED
    BY <2>1 DEF SyncPrefix, OnlySync
<1> QED
  BY <1>1, <1>2 DEF Write

LEMMA WriteKeepsOnlySync ==
  ASSUME out \in Seq(Chunks), NEW chunk \in SyncChunks, Write(chunk), OnlySync
  PROVE  OnlySync'
<1>1. CASE out' = out
  BY <1>1 DEF OnlySync
<1>2. CASE out' = Append(out, chunk)
  <2>1. /\ Len(out') = Len(out) + 1
        /\ out'[Len(out) + 1] = chunk
        /\ \A i \in 1..Len(out) : out'[i] = out[i]
    BY <1>2, AppendProperties DEF Chunks
  <2> QED
    BY <2>1 DEF OnlySync
<1> QED
  BY <1>1, <1>2 DEF Write

\* What the work thread can do to the state of thread t: clear running, and write.
LEMMA WorkThreadStep ==
  ASSUME TypeOK, WorkThread
  PROVE  /\ wpc \notin {"none", "exited"} /\ wpc' # "none"
         /\ UNCHANGED <<tVars, end, socket>>
         /\ running' = running \/ running' = FALSE
         /\ out' = out \/ (wpc \in ReplyChunks /\ Write(wpc))
<1> USE DEF flags
<1>1. CASE WorkLoop
  BY <1>1 DEF WorkLoop
<1>2. CASE ReadSome
  BY <1>2 DEF ReadSome, Delimited, LineReads
<1>3. CASE ReadHeader
  <2>1. stream[consumed + 1] \in Unit
    BY <1>3 DEF ReadHeader, BufferEmpty, TypeOK
  <2>2. wpc' # "none"
    BY <1>3, <2>1, DispatchType DEF ReadHeader
  <2> QED
    BY <1>3, <2>2 DEF ReadHeader
<1>4. CASE ReadFails
  BY <1>4 DEF ReadFails
<1>5. CASE IdReadThrows \/ NameReadThrows
  BY <1>5 DEF IdReadThrows, NameReadThrows, LineReads, Terminate
<1>6. CASE ReadLine
  BY <1>6 DEF ReadLine
<1>7. CASE ReadImageLength
  BY <1>7 DEF ReadImageLength
<1>8. CASE ReadImageData
  BY <1>8 DEF ReadImageData
<1>9. CASE ImageHandler
  BY <1>9 DEF ImageHandler
<1>10. CASE RecordHandlerThrows
  BY <1>10 DEF RecordHandlerThrows, Terminate
<1>11. CASE ReceiveTimesOut
  BY <1>11 DEF ReceiveTimesOut
<1>12. CASE OpenImage
  BY <1>12 DEF OpenImage
<1>13. CASE OpenImageThrows
  BY <1>13 DEF OpenImageThrows, Terminate
<1>14. CASE Reply
  BY <1>14 DEF Reply, ReplyChunks
<1>15. CASE ReplyThrows
  BY <1>15 DEF ReplyThrows, ReplyChunks, Terminate
<1> QED
  BY <1>1, <1>2, <1>3, <1>4, <1>5, <1>6, <1>7, <1>8, <1>9, <1>10, <1>11, <1>12,
     <1>13, <1>14, <1>15 DEF WorkThread

LEMMA ThreadInvThreadT == TypeOK /\ ThreadInv /\ ThreadT => ThreadInv'
<1> SUFFICES ASSUME TypeOK, ThreadInv, ThreadT PROVE ThreadInv'
  OBVIOUS
<1> USE DEF ThreadInv, tVars, flags
<1>a. out \in Seq(Chunks) /\ queries \in Seq(QueryTypes) /\ synced \in 0..SyncLen
  BY DEF TypeOK
<1>b. SyncLen \in Nat
  BY LFRConnectionAssumption DEF SyncLen
<1>c. ASSUME out' = out PROVE SyncPrefix' /\ (OnlySync => OnlySync')
  BY <1>c DEF SyncPrefix, OnlySync
<1>1. CASE fullSyncronisation
  <2>1. SyncChunk(synced + 1) \in SyncChunks /\ SyncChunk(synced + 1) \in Chunks
    BY <1>a, <1>b, SyncChunkType DEF Chunks
  <2>2. SyncPrefix' /\ OnlySync'
    BY <1>1, <1>a, <2>1, WriteKeepsPrefix, WriteKeepsOnlySync DEF fullSyncronisation
  <2> QED
    BY <1>1, <2>2 DEF fullSyncronisation
<1>2. CASE StartWorkThread
  BY <1>2, <1>b, <1>c DEF StartWorkThread
<1>3. CASE SendingStops
  BY <1>3, <1>c DEF SendingStops
<1>4. CASE SendingContinues
  BY <1>4, <1>c DEF SendingContinues
<1>5. CASE SendQuery
  <2>1. Head(queries) \in Chunks /\ Head(queries) \notin SyncChunks
    BY <1>5, <1>a, LFRConnectionAssumption DEF SendQuery, Chunks, SyncChunks
  <2>2. SyncPrefix'
    BY <1>5, <1>a, <2>1, WriteKeepsPrefix DEF SendQuery
  <2> QED
    BY <1>5, <2>2 DEF SendQuery
<1>6. CASE Sleep
  BY <1>6, <1>c DEF Sleep
<1>7. CASE JoinAndClose
  BY <1>7, <1>c DEF JoinAndClose
<1>8. CASE SetEnd
  BY <1>8, <1>c DEF SetEnd
<1>9. CASE WriteThrows
  BY <1>9, <1>c DEF WriteThrows, Terminate
<1> QED
  BY <1>1, <1>2, <1>3, <1>4, <1>5, <1>6, <1>7, <1>8, <1>9 DEF ThreadT

LEMMA ThreadInvWorkThread == TypeOK /\ ThreadInv /\ WorkThread => ThreadInv'
<1> SUFFICES ASSUME TypeOK, ThreadInv, WorkThread PROVE ThreadInv'
  OBVIOUS
<1>1. SyncPrefix'
  <2>1. CASE out' = out
    BY <2>1 DEF ThreadInv, SyncPrefix
  <2>2. CASE wpc \in ReplyChunks /\ Write(wpc)
    <3>1. wpc \in Chunks /\ wpc \notin SyncChunks
      BY <2>2 DEF Chunks, ReplyChunks, SyncChunks
    <3> QED
      BY <2>2, <3>1, WriteKeepsPrefix DEF ThreadInv, TypeOK
  <2> QED
    BY <2>1, <2>2, WorkThreadStep
<1> QED
  BY <1>1, WorkThreadStep DEF ThreadInv, tVars

LEMMA ThreadInvEnvironment == TypeOK /\ ThreadInv /\ Environment => ThreadInv'
<1> SUFFICES ASSUME TypeOK, ThreadInv, Environment PROVE ThreadInv'
  OBVIOUS
<1> USE DEF ThreadInv, tVars, flags
<1>a. ASSUME out' = out PROVE SyncPrefix' /\ (OnlySync => OnlySync')
  BY <1>a DEF SyncPrefix, OnlySync
<1>1. CASE Start
  BY <1>1, <1>a DEF Start
<1>2. CASE PushQuery
  BY <1>2, <1>a DEF PushQuery
<1>3. CASE Stop
  BY <1>3, <1>a DEF Stop
<1>4. CASE Tick
  BY <1>4, <1>a DEF Tick
<1>5. CASE ClientBegins
  BY <1>5, <1>a DEF ClientBegins
<1>6. CASE ClientSends
  BY <1>6, <1>a DEF ClientSends
<1>7. CASE ClientReads
  <2>1. out \in Seq(Chunks) /\ out # <<>> /\ out' = Tail(out)
    BY <1>7 DEF ClientReads, TypeOK
  <2>2. /\ Len(out) \in Nat \ {0} /\ Len(out') = Len(out) - 1
        /\ \A i \in 1..Len(out') : out'[i] = out[i + 1]
    BY <2>1, HeadTailProperties, LenProperties
  <2>3. SyncPrefix' /\ (OnlySync => OnlySync')
    BY <2>2, SMTT(30) DEF SyncPrefix, OnlySync
  <2> QED
    BY <1>7, <2>3 DEF ClientReads
<1>8. CASE ClientHangsUp
  BY <1>8, <1>a DEF ClientHangsUp
<1> QED
  BY <1>1, <1>2, <1>3, <1>4, <1>5, <1>6, <1>7, <1>8 DEF Environment

LEMMA ThreadInvariant == Spec => []ThreadInv
<1>1. Init => ThreadInv
  BY DEF Init, ThreadInv, SyncPrefix, OnlySync
<1>2. TypeOK /\ ThreadInv /\ [Next]_vars => ThreadInv'
  <2> SUFFICES ASSUME TypeOK, ThreadInv, [Next]_vars PROVE ThreadInv'
    OBVIOUS
  <2>1. CASE Next
    BY <2>1, ThreadInvThreadT, ThreadInvWorkThread, ThreadInvEnvironment DEF Next
  <2>2. CASE UNCHANGED vars
    BY <2>2 DEF vars, ThreadInv, SyncPrefix, OnlySync, tVars, flags
  <2> QED
    BY <2>1, <2>2
<1> QED
  BY <1>1, <1>2, TypeCorrect, PTL DEF Spec

\* The socket is closed only when the work thread has gone, and a connection that
\* has ended is used by neither thread, for every schedule of the two.
THEOREM ClosedUnusedHolds == Spec => []ClosedUnused
<1>1. TypeOK /\ ThreadInv => ClosedUnused
  BY DEF TypeOK, ThreadInv, ClosedUnused
<1> QED
  BY <1>1, TypeCorrect, ThreadInvariant, PTL

\* No query and no piece of an image is written before the synchronisation ends,
\* for every number of cards and every call of the manager.
THEOREM SyncFirstHolds == Spec => []SyncFirst
<1>1. ThreadInv => SyncFirst
  BY DEF ThreadInv, SyncFirst, SyncPrefix
<1> QED
  BY <1>1, ThreadInvariant, PTL

-----------------------------------------------------------------------------
(* The work thread: where it is in the client's stream.                    *)

\* Every unit of the stream belongs to a message that is there as a whole.
Blocks ==
  \A i \in 1..Len(stream) :
    /\ stream[i].k <= i
    /\ i - stream[i].k + MsgLen[stream[i].kind] <= Len(stream)
    /\ \A k \in 1..MsgLen[stream[i].kind] :
         stream[i - stream[i].k + k] = [kind |-> stream[i].kind, k |-> k]

\* The last unit consumed is the k-th of a message of this kind.
Follows(kind, k) == consumed > 0 /\ stream[consumed] = [kind |-> kind, k |-> k]

\* What comes next is the first unit of a message, or nothing any more.
AtBoundary ==
  \/ peer = "gone" /\ consumed = sent
  \/ consumed < Len(stream) => stream[consumed + 1].k = 1

\* Each place of the work thread goes with a place in the stream.
Placed ==
  /\ wpc = "none" => consumed = 0
  /\ wpc \in {"loop", "reading"} => AtBoundary
  /\ wpc = "my_id" => Follows("my_id", 1)
  /\ wpc = "record" => Follows("record", 1)
  /\ wpc = "image_name" => Follows("image_added", 1)
  /\ wpc = "image_length" => Follows("image_added", 2)
  /\ wpc = "image_data" => Follows("image_added", 3)
  /\ wpc \in {"sending_image", "file_name"} => Follows("get_image", 1)
  /\ wpc \in {"size", "data"} => Follows("get_image", 2)

\* While an image is received, need is what the buffer lacks, in size_t.
Counted == wpc = "image_data" => need = Missing(received - consumed)

StreamInv == Blocks /\ Placed /\ Counted /\ TornOnlyAfterHangup

\* A unit that is not the last of its message is followed by the next one.
LEMMA NextUnit ==
  ASSUME TypeOK, Blocks, NEW i \in 1..Len(stream),
         stream[i].k < MsgLen[stream[i].kind]
  PROVE  /\ i + 1 <= Len(stream)
         /\ stream[i + 1] = [kind |-> stream[i].kind, k |-> stream[i].k + 1]
<1>1. stream[i] \in Unit
  BY DEF TypeOK
<1>2. stream[i].kind \in Kinds /\ stream[i].k \in Nat
  BY <1>1, LFRConnectionAssumption DEF Unit
<1>3. MsgLen[stream[i].kind] \in Nat
  BY <1>2, MessageType, LFRConnectionAssumption
<1>4. stream[i].k + 1 \in 1..MsgLen[stream[i].kind]
  BY <1>2, <1>3
<1>5. i - stream[i].k + (stream[i].k + 1) = i + 1
  BY <1>2
<1>6. stream[i - stream[i].k + (stream[i].k + 1)]
        = [kind |-> stream[i].kind, k |-> stream[i].k + 1]
  BY <1>4 DEF Blocks
<1>7. i - stream[i].k + MsgLen[stream[i].kind] <= Len(stream)
  BY DEF Blocks
<1>8. i + 1 <= Len(stream)
  BY <1>2, <1>3, <1>7 DEF TypeOK
<1> QED
  BY <1>5, <1>6, <1>8

\* The last unit of a message is followed by the first unit of another.
LEMMA NextMessage ==
  ASSUME TypeOK, Blocks, NEW i \in 0..(Len(stream) - 1),
         i = 0 \/ stream[i].k = MsgLen[stream[i].kind]
  PROVE  stream[i + 1].k = 1
<1> DEFINE u == stream[i + 1]
<1>1. u \in Unit /\ Len(stream) \in Nat
  BY DEF TypeOK
<1>2. u.kind \in Kinds /\ u.k \in 1..MsgLen[u.kind] /\ u.k <= i + 1
  BY <1>1, LFRConnectionAssumption DEF Unit, Blocks
<1>3. MsgLen[u.kind] \in Nat
  BY <1>2, MessageType, LFRConnectionAssumption
<1>4. ASSUME u.k # 1 PROVE FALSE
  <2>1. u.k - 1 \in 1..MsgLen[u.kind] /\ i # 0
    BY <1>2, <1>3, <1>4
  <2>2. stream[(i + 1) - u.k + (u.k - 1)] = [kind |-> u.kind, k |-> u.k - 1]
    BY <2>1, <1>1 DEF Blocks
  <2>3. (i + 1) - u.k + (u.k - 1) = i
    BY <1>2, <1>3
  <2>4. stream[i].k = u.k - 1 /\ stream[i].kind = u.kind
    BY <2>2, <2>3
  <2> QED
    BY <2>1, <2>4, <1>2, <1>3
<1> QED
  BY <1>4

\* The name, the length and the data of an image stand in the stream together.
LEMMA ImageUnits ==
  ASSUME TypeOK, Blocks, Follows("image_added", 3)
  PROVE  /\ consumed + ImgLen <= Len(stream)
         /\ \A k \in 1..ImgLen :
              stream[consumed + k] = [kind |-> "image_added", k |-> 3 + k]
<1>1. consumed \in 1..Len(stream) /\ consumed \in Nat
  BY DEF TypeOK, Follows
<1>2. stream[consumed].kind = "image_added" /\ stream[consumed].k = 3
  BY DEF Follows
<1>3. MsgLen["image_added"] = 3 + ImgLen
  BY DEF MsgLen, Kinds
<1>4. consumed - 3 + (3 + ImgLen) <= Len(stream)
  BY <1>1, <1>2, <1>3 DEF Blocks
<1>5. ASSUME NEW k \in 1..ImgLen
      PROVE  stream[consumed + k] = [kind |-> "image_added", k |-> 3 + k]
  <2>1. 3 + k \in 1..(3 + ImgLen)
    BY LFRConnectionAssumption
  <2>2. stream[consumed - 3 + (3 + k)] = [kind |-> "image_added", k |-> 3 + k]
    BY <1>1, <1>2, <1>3, <2>1 DEF Blocks
  <2>3. consumed - 3 + (3 + k) = consumed + k
    BY <1>1
  <2> QED
    BY <2>2, <2>3
<1>6. Len(stream) \in Nat
  BY DEF TypeOK
<1> QED
  BY <1>1, <1>4, <1>5, <1>6, LFRConnectionAssumption

\* A receive that has nothing more to ask for has exactly the image in the buffer:
\* where the subtraction wrapped, more than any client sends is still missing.
LEMMA NothingMissing ==
  ASSUME NEW b \in 0..MaxStream, Missing(b) = 0
  PROVE  b = ImgLen
BY LFRConnectionAssumption DEF Missing

\* What is read is no longer missing.
LEMMA MissingLess ==
  ASSUME NEW b \in 0..MaxStream, NEW n \in 1..Missing(b), b + n <= MaxStream
  PROVE  Missing(b + n) = Missing(b) - n
BY LFRConnectionAssumption DEF Missing

-----------------------------------------------------------------------------
(* The invariance of StreamInv.                                            *)

LEMMA StreamInit == Init => StreamInv
BY DEF Init, StreamInv, Blocks, Placed, Counted, TornOnlyAfterHangup

\* What thread t can do to the work thread: start it.
LEMMA ThreadTStep ==
  ASSUME ThreadInv, ThreadT
  PROVE  /\ UNCHANGED <<input, client, stored, need>>
         /\ wpc' = wpc \/ (wpc = "none" /\ wpc' = "loop")
<1> USE DEF asyncVars
<1>1. CASE fullSyncronisation
  BY <1>1 DEF fullSyncronisation
<1>2. CASE StartWorkThread
  BY <1>2 DEF StartWorkThread, ThreadInv
<1>3. CASE SendingStops
  BY <1>3 DEF SendingStops
<1>4. CASE SendingContinues
  BY <1>4 DEF SendingContinues
<1>5. CASE SendQuery
  BY <1>5 DEF SendQuery
<1>6. CASE Sleep
  BY <1>6 DEF Sleep
<1>7. CASE JoinAndClose
  BY <1>7 DEF JoinAndClose
<1>8. CASE SetEnd
  BY <1>8 DEF SetEnd
<1>9. CASE WriteThrows
  BY <1>9 DEF WriteThrows, Terminate
<1> QED
  BY <1>1, <1>2, <1>3, <1>4, <1>5, <1>6, <1>7, <1>8, <1>9 DEF ThreadT

LEMMA StreamThreadT == TypeOK /\ ThreadInv /\ StreamInv /\ ThreadT => StreamInv'
<1> SUFFICES ASSUME TypeOK, ThreadInv, StreamInv, ThreadT PROVE StreamInv'
  OBVIOUS
<1>1. UNCHANGED <<input, client, stored, need>>
  BY ThreadTStep
<1>2. Blocks'
  BY <1>1 DEF StreamInv, Blocks, client
<1>3. TornOnlyAfterHangup'
  BY <1>1 DEF StreamInv, TornOnlyAfterHangup, client
<1>4. CASE wpc' = wpc
  BY <1>1, <1>2, <1>3, <1>4
  DEF StreamInv, Placed, AtBoundary, Follows, Counted, Missing, client, input
<1>5. CASE wpc = "none" /\ wpc' = "loop"
  <2>1. consumed = 0 /\ Len(stream) \in Nat
    BY <1>5 DEF StreamInv, Placed, TypeOK
  <2>2. AtBoundary'
    BY <1>1, <2>1, NextMessage DEF StreamInv, AtBoundary, client, input
  <2> QED
    BY <1>2, <1>3, <1>5, <2>2 DEF StreamInv, Placed, Counted
<1> QED
  BY <1>4, <1>5, ThreadTStep

LEMMA Concatenated ==
  ASSUME NEW s \in Seq(Unit), NEW m \in Seq(Unit), NEW t, t = s \o m
  PROVE  /\ Len(t) = Len(s) + Len(m)
         /\ \A i \in 1..Len(s) : t[i] = s[i]
         /\ \A k \in 1..Len(m) : t[Len(s) + k] = m[k]
<1>1. /\ Len(t) = Len(s) + Len(m)
      /\ \A i \in 1..(Len(s) + Len(m)) :
           t[i] = IF i <= Len(s) THEN s[i] ELSE m[i - Len(s)]
  BY ConcatProperties
<1>2. Len(s) \in Nat /\ Len(m) \in Nat
  BY LenProperties
<1>3. \A i \in 1..Len(s) : t[i] = s[i]
  BY <1>1, <1>2
<1>4. ASSUME NEW k \in 1..Len(m) PROVE t[Len(s) + k] = m[k]
  <2>1. Len(s) + k \in 1..(Len(s) + Len(m)) /\ ~(Len(s) + k <= Len(s))
    BY <1>2
  <2>2. (Len(s) + k) - Len(s) = k
    BY <1>2
  <2> QED
    BY <1>1, <2>1, <2>2
<1> QED
  BY <1>1, <1>3, <1>4

LEMMA StreamEnvironment == TypeOK /\ StreamInv /\ Environment => StreamInv'
<1> SUFFICES ASSUME TypeOK, StreamInv, Environment PROVE StreamInv'
  OBVIOUS
<1>1. ASSUME UNCHANGED <<wpc, input, client, stored, need>> PROVE StreamInv'
  BY <1>1 DEF StreamInv, Blocks, Placed, AtBoundary, Follows, Counted, Missing,
              TornOnlyAfterHangup, client, input
<1>2. CASE Start \/ PushQuery \/ Stop \/ Tick \/ ClientReads
  BY <1>1, <1>2 DEF Start, PushQuery, Stop, Tick, ClientReads, asyncVars
<1>3. CASE ClientBegins
  <2>1. PICK kind \in Kinds : stream' = stream \o Message(kind)
    BY <1>3 DEF ClientBegins
  <2>2. /\ peer = "connected" /\ sent = Len(stream)
        /\ UNCHANGED <<wpc, need, received, consumed, sent, peer, stored>>
    BY <1>3 DEF ClientBegins, asyncVars, input
  <2>3. /\ MsgLen[kind] \in Nat \ {0}
        /\ Message(kind) \in Seq(Unit)
        /\ Len(Message(kind)) = MsgLen[kind]
        /\ \A k \in 1..MsgLen[kind] : Message(kind)[k] = [kind |-> kind, k |-> k]
    BY MessageType, LFRConnectionAssumption
  <2>4. stream \in Seq(Unit) /\ Len(stream) \in Nat
    BY DEF TypeOK
  <2>5. /\ Len(stream') = Len(stream) + MsgLen[kind]
        /\ \A i \in 1..Len(stream) : stream'[i] = stream[i]
        /\ \A k \in 1..MsgLen[kind] :
             stream'[Len(stream) + k] = [kind |-> kind, k |-> k]
    BY <2>1, <2>3, <2>4, Concatenated
  <2>6. Blocks'
    <3> SUFFICES ASSUME NEW i \in 1..Len(stream')
                 PROVE  /\ stream'[i].k <= i
                        /\ i - stream'[i].k + MsgLen[stream'[i].kind] <= Len(stream')
                        /\ \A k \in 1..MsgLen[stream'[i].kind] :
                             stream'[i - stream'[i].k + k]
                               = [kind |-> stream'[i].kind, k |-> k]
      BY DEF Blocks
    <3>1. CASE i <= Len(stream)
      <4>a. i \in 1..Len(stream) /\ stream[i] \in Unit
        BY <2>4, <3>1
      <4>b. stream[i].kind \in Kinds /\ stream[i].k \in Nat
        BY <4>a, LFRConnectionAssumption DEF Unit
      <4>1. stream'[i] = stream[i] /\ MsgLen[stream[i].kind] \in Nat
        BY <2>5, <4>a, <4>b, MessageType, LFRConnectionAssumption
      <4>2. /\ stream[i].k <= i
            /\ i - stream[i].k + MsgLen[stream[i].kind] <= Len(stream)
            /\ \A k \in 1..MsgLen[stream[i].kind] :
                 stream[i - stream[i].k + k] = [kind |-> stream[i].kind, k |-> k]
        BY <4>a DEF StreamInv, Blocks
      <4>3. \A k \in 1..MsgLen[stream[i].kind] :
              i - stream[i].k + k \in 1..Len(stream)
        BY <2>4, <4>a, <4>b, <4>1, <4>2, SMTT(30)
      <4>4. i - stream[i].k + MsgLen[stream[i].kind] <= Len(stream')
        BY <2>3, <2>4, <2>5, <4>a, <4>b, <4>1, <4>2
      <4>5. \A k \in 1..MsgLen[stream[i].kind] :
              stream'[i - stream[i].k + k] = [kind |-> stream[i].kind, k |-> k]
        BY <2>5, <4>2, <4>3
      <4> QED
        BY <4>1, <4>2, <4>4, <4>5
    <3>2. CASE i > Len(stream)
      <4> DEFINE k == i - Len(stream)
      <4>1. k \in 1..MsgLen[kind] /\ i = Len(stream) + k
        BY <2>3, <2>4, <2>5, <3>2
      <4>2. stream'[i] = [kind |-> kind, k |-> k]
        BY <2>5, <4>1
      <4> QED
        BY <2>3, <2>4, <2>5, <4>1, <4>2
    <3> QED
      BY <2>4, <3>1, <3>2
  <2>7. consumed \in 0..Len(stream)
    BY DEF TypeOK
  <2>8. AtBoundary => AtBoundary'
    <3> SUFFICES ASSUME AtBoundary, consumed < Len(stream')
                 PROVE  stream'[consumed + 1].k = 1
      BY <2>2 DEF AtBoundary
    <3>1. CASE consumed < Len(stream)
      <4>1. consumed + 1 \in 1..Len(stream)
        BY <2>4, <2>7, <3>1
      <4> QED
        BY <2>2, <2>5, <3>1, <4>1 DEF AtBoundary
    <3>2. CASE consumed = Len(stream)
      <4>1. 1 \in 1..MsgLen[kind]
        BY <2>3
      <4>2. stream'[Len(stream) + 1] = [kind |-> kind, k |-> 1]
        BY <2>5, <4>1
      <4> QED
        BY <3>2, <4>2
    <3> QED
      BY <2>4, <2>7, <3>1, <3>2
  <2>9. \A kd, k : Follows(kd, k) => Follows(kd, k)'
    BY <2>2, <2>5, <2>7 DEF Follows
  <2> QED
    BY <2>2, <2>6, <2>8, <2>9
    DEF StreamInv, Placed, Counted, Missing, TornOnlyAfterHangup
<1>4. CASE ClientSends
  BY <1>4 DEF ClientSends, StreamInv, Blocks, Placed, AtBoundary, Follows, Counted,
              Missing, TornOnlyAfterHangup, input, asyncVars
<1>5. CASE ClientHangsUp
  BY <1>5 DEF ClientHangsUp, StreamInv, Blocks, Placed, AtBoundary, Follows, Counted,
              Missing, TornOnlyAfterHangup, input, asyncVars
<1> QED
  BY <1>2, <1>3, <1>4, <1>5 DEF Environment

LEMMA StreamWorkThread == TypeOK /\ StreamInv /\ WorkThread => StreamInv'
<1> SUFFICES ASSUME TypeOK, StreamInv, WorkThread PROVE StreamInv'
  OBVIOUS
<1> USE DEF StreamInv
<1>t. /\ stream \in Seq(Unit) /\ Len(stream) \in 0..MaxStream
      /\ consumed \in 0..received /\ received \in 0..sent /\ sent \in 0..Len(stream)
  BY LFRConnectionAssumption DEF TypeOK
<1>b. ASSUME UNCHANGED client PROVE Blocks'
  BY <1>b DEF Blocks, client
<1>n. ASSUME UNCHANGED client, UNCHANGED stored PROVE TornOnlyAfterHangup'
  BY <1>n DEF TornOnlyAfterHangup, client
<1>u. ASSUME UNCHANGED <<wpc, client, input, need, stored>> PROVE StreamInv'
  BY <1>u, <1>b, <1>n DEF Placed, AtBoundary, Follows, Counted, Missing, client, input
\* After the last unit of a message the work thread is at a boundary.
<1>m. ASSUME NEW i \in 0..Len(stream), consumed' = i, UNCHANGED client,
             i = 0 \/ stream[i].k = MsgLen[stream[i].kind]
      PROVE  AtBoundary'
  <2>1. CASE i < Len(stream)
    <3>1. i \in 0..(Len(stream) - 1)
      BY <1>t, <2>1
    <3> QED
      BY <1>m, <3>1, NextMessage DEF AtBoundary, client
  <2>2. CASE i = Len(stream)
    BY <1>m, <1>t, <2>2 DEF AtBoundary, client
  <2> QED
    BY <1>t, <2>1, <2>2
\* The unit that follows one that is not the last of its message.
<1>f. ASSUME NEW kind, NEW k \in Nat, Follows(kind, k), k < MsgLen[kind]
      PROVE  stream[consumed + 1] = [kind |-> kind, k |-> k + 1]
  <2>1. consumed \in 1..Len(stream)
    BY <1>t, <1>f DEF Follows
  <2>2. stream[consumed].kind = kind /\ stream[consumed].k = k
    BY <1>f DEF Follows
  <2> QED
    BY <1>f, <2>1, <2>2, NextUnit
<1>l. /\ MsgLen["ping"] = 1 /\ MsgLen["my_id"] = 2 /\ MsgLen["record"] = 2
      /\ MsgLen["get_image"] = 2 /\ MsgLen["image_added"] = 3 + ImgLen
  BY DEF MsgLen, Kinds
<1>1. CASE WorkLoop
  <2>1. wpc' \in {"reading", "exited"} /\ UNCHANGED <<client, input, need, stored>>
    BY <1>1 DEF WorkLoop, asyncVars
  <2>2. AtBoundary'
    BY <1>1, <2>1 DEF WorkLoop, Placed, AtBoundary, client, input
  <2> QED
    BY <1>b, <1>n, <2>1, <2>2 DEF Placed, Counted
<1>2. CASE ReadSome
  <2>1. /\ UNCHANGED <<wpc, client, consumed, need, stored>>
        /\ wpc # "image_data"
    BY <1>2 DEF ReadSome, asyncVars, Delimited, LineReads
  <2> QED
    BY <1>b, <1>n, <2>1 DEF Placed, AtBoundary, Follows, Counted, client
<1>3. CASE ReadHeader
  <2>1. /\ consumed' = consumed + 1 /\ UNCHANGED <<client, need, stored, received>>
        /\ wpc' = Dispatch(stream[consumed + 1])
        /\ wpc = "reading" /\ consumed < received
    BY <1>3, <1>t DEF ReadHeader, BufferEmpty
  <2>2. consumed + 1 \in 1..Len(stream) /\ consumed < sent
    BY <1>t, <2>1
  <2> DEFINE u == stream[consumed + 1]
  <2>3. u.k = 1
    BY <1>t, <2>1, <2>2 DEF Placed, AtBoundary
  <2>4. u \in Unit
    BY <1>t, <2>2
  <2>5. u.kind \in Kinds /\ u = [kind |-> u.kind, k |-> 1]
    BY <2>3, <2>4 DEF Unit
  <2>6. /\ consumed' > 0 /\ stream' = stream
        /\ stream'[consumed'] = [kind |-> u.kind, k |-> 1]
    BY <1>t, <2>1, <2>5 DEF client
  <2>7. CASE u.kind = "ping"
    <3>1. wpc' = "loop"
      BY <2>1, <2>3, <2>7 DEF Dispatch
    <3>2. AtBoundary'
      BY <1>l, <1>m, <2>1, <2>2, <2>3, <2>7
    <3> QED
      BY <1>b, <1>n, <2>1, <3>1, <3>2 DEF Placed, Counted
  <2>8. CASE u.kind = "my_id"
    <3>1. wpc' = "my_id"
      BY <2>1, <2>3, <2>8 DEF Dispatch
    <3> QED
      BY <1>b, <1>n, <2>1, <2>6, <2>8, <3>1 DEF Placed, Counted, Follows
  <2>9. CASE u.kind = "record"
    <3>1. wpc' = "record"
      BY <2>1, <2>3, <2>9 DEF Dispatch
    <3> QED
      BY <1>b, <1>n, <2>1, <2>6, <2>9, <3>1 DEF Placed, Counted, Follows
  <2>10. CASE u.kind = "image_added"
    <3>1. wpc' = "image_name"
      BY <2>1, <2>3, <2>10 DEF Dispatch
    <3> QED
      BY <1>b, <1>n, <2>1, <2>6, <2>10, <3>1 DEF Placed, Counted, Follows
  <2>11. CASE u.kind = "get_image"
    <3>1. wpc' = "sending_image"
      BY <2>1, <2>3, <2>11 DEF Dispatch
    <3> QED
      BY <1>b, <1>n, <2>1, <2>6, <2>11, <3>1 DEF Placed, Counted, Follows
  <2> QED
    BY <2>5, <2>7, <2>8, <2>9, <2>10, <2>11 DEF Kinds
<1>4. CASE ReadFails
  BY <1>4, <1>b, <1>n DEF ReadFails, Placed, Counted
<1>5. CASE IdReadThrows \/ NameReadThrows
  BY <1>5, <1>u DEF IdReadThrows, NameReadThrows, Terminate, asyncVars
<1>6. CASE ReadLine
  <2>1. /\ consumed' = consumed + 1 /\ UNCHANGED <<client, need, stored, received>>
        /\ consumed + 1 \in 1..Len(stream)
    BY <1>6, <1>t DEF ReadLine, BufferEmpty, asyncVars
  <2>2. CASE wpc = "my_id"
    <3>1. wpc' = "loop"
      BY <1>6, <2>2 DEF ReadLine
    <3>2. stream[consumed + 1] = [kind |-> "my_id", k |-> 2]
      BY <1>f, <1>l, <2>2 DEF Placed
    <3>3. AtBoundary'
      BY <1>l, <1>m, <2>1, <3>2
    <3> QED
      BY <1>b, <1>n, <2>1, <3>1, <3>3 DEF Placed, Counted
  <2>3. CASE wpc = "image_name"
    <3>1. wpc' = "image_length"
      BY <1>6, <2>3 DEF ReadLine
    <3>2. stream[consumed + 1] = [kind |-> "image_added", k |-> 2]
      BY <1>f, <1>l, <2>3, LFRConnectionAssumption DEF Placed
    <3>3. (Follows("image_added", 2))'
      BY <1>t, <2>1, <3>2 DEF Follows, client
    <3> QED
      BY <1>b, <1>n, <2>1, <3>1, <3>3 DEF Placed, Counted
  <2> QED
    BY <1>6, <2>2, <2>3 DEF ReadLine
<1>7. CASE ReadImageLength
  <2>1. /\ consumed' = consumed + 1 /\ UNCHANGED <<client, stored, received>>
        /\ wpc = "image_length" /\ wpc' = "image_data"
        /\ need' = Missing(received - consumed')
    BY <1>7 DEF ReadImageLength
  <2>2. stream[consumed + 1] = [kind |-> "image_added", k |-> 3]
    BY <1>f, <1>l, <2>1, LFRConnectionAssumption DEF Placed
  <2>3. (Follows("image_added", 3))'
    BY <1>t, <2>1, <2>2 DEF Follows, client
  <2> QED
    BY <1>b, <1>n, <2>1, <2>3 DEF Placed, Counted, Missing
<1>8. CASE ReadImageData
  <2>1. PICK n \in 1..need : /\ received + n <= sent /\ received' = received + n
                             /\ need' = need - n
    BY <1>8 DEF ReadImageData
  <2>2. /\ UNCHANGED <<wpc, client, consumed, stored>> /\ wpc = "image_data"
    BY <1>8 DEF ReadImageData
  <2>3. received - consumed \in 0..MaxStream /\ (received - consumed) + n <= MaxStream
    BY <1>t, <2>1, LFRConnectionAssumption
  <2>4. need' = Missing((received - consumed) + n)
    BY <2>1, <2>2, <2>3, MissingLess DEF Counted
  <2>5. received' - consumed' = (received - consumed) + n
    BY <1>t, <2>1, <2>2
  <2>6. Counted'
    BY <2>4, <2>5 DEF Counted, Missing
  <2> QED
    BY <1>b, <1>n, <2>2, <2>6 DEF Placed, Follows, client
<1>9. CASE ImageHandler
  <2>1. /\ wpc = "image_data" /\ wpc' = "loop" /\ consumed' = received
        /\ UNCHANGED <<client, received>>
        /\ stored' \in {stored, IF BufferIsImage THEN "whole" ELSE "torn"}
        /\ need = 0 \/ NoMoreInput
    BY <1>9 DEF ImageHandler
  <2>2. CASE NoMoreInput
    <3>1. AtBoundary' /\ TornOnlyAfterHangup'
      BY <2>1, <2>2 DEF NoMoreInput, AtBoundary, TornOnlyAfterHangup, client
    <3> QED
      BY <1>b, <2>1, <3>1 DEF Placed, Counted
  <2>3. CASE need = 0
    <3>1. Follows("image_added", 3)
      BY <2>1 DEF Placed
    <3>2. received - consumed \in 0..MaxStream
      BY <1>t, LFRConnectionAssumption
    <3>3. received - consumed = ImgLen
      BY <2>1, <2>3, <3>2, NothingMissing DEF Counted
    <3>4. /\ \A k \in 1..ImgLen :
               stream[consumed + k] = [kind |-> "image_added", k |-> 3 + k]
          /\ ImgLen \in 1..ImgLen
      BY <3>1, ImageUnits, LFRConnectionAssumption
    <3>5. stored' \in {stored, "whole"}
      BY <2>1, <3>3, <3>4 DEF BufferIsImage
    <3>6. received = consumed + ImgLen
      BY <1>t, <3>3, LFRConnectionAssumption
    <3>7. stream[received] = [kind |-> "image_added", k |-> 3 + ImgLen]
      BY <3>4, <3>6
    <3>8. AtBoundary'
      BY <1>l, <1>m, <1>t, <2>1, <3>7
    <3>9. TornOnlyAfterHangup'
      BY <2>1, <3>5 DEF TornOnlyAfterHangup, client
    <3> QED
      BY <1>b, <2>1, <3>8, <3>9 DEF Placed, Counted
  <2> QED
    BY <2>1, <2>2, <2>3
<1>10. CASE RecordHandlerThrows
  BY <1>10, <1>u DEF RecordHandlerThrows, Terminate, asyncVars
<1>11. CASE ReceiveTimesOut
  BY <1>11, <1>b, <1>n DEF ReceiveTimesOut, Placed, Counted
<1>12. CASE OpenImage
  <2>1. /\ consumed' = consumed + 1 /\ UNCHANGED <<client, need, stored, received>>
        /\ wpc = "file_name" /\ wpc' = "size"
    BY <1>12 DEF OpenImage, asyncVars
  <2>2. stream[consumed + 1] = [kind |-> "get_image", k |-> 2]
    BY <1>f, <1>l, <2>1 DEF Placed
  <2>3. (Follows("get_image", 2))'
    BY <1>t, <2>1, <2>2 DEF Follows, client
  <2> QED
    BY <1>b, <1>n, <2>1, <2>3 DEF Placed, Counted
<1>13. CASE OpenImageThrows
  BY <1>13, <1>u DEF OpenImageThrows, Terminate, asyncVars
<1>14. CASE Reply
  <2>1. UNCHANGED <<client, input, need, stored>>
    BY <1>14 DEF Reply, asyncVars
  <2>2. CASE wpc = "sending_image"
    BY <1>14, <1>b, <1>n, <2>1, <2>2 DEF Reply, Placed, Follows, Counted, client, input
  <2>3. CASE wpc = "size"
    BY <1>14, <1>b, <1>n, <2>1, <2>3 DEF Reply, Placed, Follows, Counted, client, input
  <2>4. CASE wpc = "data"
    <3>1. wpc' = "loop"
      BY <1>14, <2>4 DEF Reply
    <3>2. consumed > 0 /\ stream[consumed] = [kind |-> "get_image", k |-> 2]
      BY <2>4 DEF Placed, Follows
    <3>3. AtBoundary'
      BY <1>l, <1>m, <1>t, <2>1, <3>2 DEF input
    <3> QED
      BY <1>b, <1>n, <2>1, <3>1, <3>3 DEF Placed, Counted
  <2> QED
    BY <1>14, <2>2, <2>3, <2>4 DEF Reply, ReplyChunks
<1>15. CASE ReplyThrows
  BY <1>15, <1>u DEF ReplyThrows, Terminate, asyncVars
<1> QED
  BY <1>1, <1>2, <1>3, <1>4, <1>5, <1>6, <1>7, <1>8, <1>9, <1>10, <1>11, <1>12,
     <1>13, <1>14, <1>15 DEF WorkThread

LEMMA StreamInvariant == Spec => []StreamInv
<1>1. TypeOK /\ ThreadInv /\ StreamInv /\ [Next]_vars => StreamInv'
  <2> SUFFICES ASSUME TypeOK, ThreadInv, StreamInv, [Next]_vars PROVE StreamInv'
    OBVIOUS
  <2>1. CASE Next
    BY <2>1, StreamThreadT, StreamWorkThread, StreamEnvironment DEF Next
  <2>2. CASE UNCHANGED vars
    BY <2>2
    DEF vars, StreamInv, Blocks, Placed, AtBoundary, Follows, Counted, Missing,
        TornOnlyAfterHangup, client, input, asyncVars
  <2> QED
    BY <2>1, <2>2
<1> QED
  BY StreamInit, <1>1, TypeCorrect, ThreadInvariant, PTL DEF Spec

\* Whatever the client pipelines and however TCP cuts it, the work thread reads a
\* header where a message begins, for every length of image and every size_t.
THEOREM FramingHolds == Spec => []FramingKept
<1>1. TypeOK /\ StreamInv => FramingKept
  BY DEF TypeOK, StreamInv, Placed, AtBoundary, FramingKept
<1> QED
  BY <1>1, TypeCorrect, StreamInvariant, PTL

\* A damaged image file is the work of a client that hung up, never of the
\* arithmetic of recvImage or of the messages that follow the image.
THEOREM TornOnlyAfterHangupHolds == Spec => []TornOnlyAfterHangup
<1>1. StreamInv => TornOnlyAfterHangup
  BY DEF StreamInv
<1> QED
  BY <1>1, StreamInvariant, PTL

\* The process is lost only to a client that hung up, that sent a record, or that
\* asked for an image that is not there.
THEOREM TerminationHasCauseHolds == Spec => []TerminationHasCause
<1>1. Init => TerminationHasCause
  BY DEF Init, TerminationHasCause
<1>2. TypeOK /\ StreamInv /\ TerminationHasCause /\ [Next]_vars => TerminationHasCause'
  <2> SUFFICES ASSUME TypeOK, StreamInv, TerminationHasCause, [Next]_vars,
                      process' = "terminated"
               PROVE  TerminationHasCause'
    BY DEF TerminationHasCause
  <2>1. CASE UNCHANGED vars
    BY <2>1 DEF vars, TerminationHasCause, client
  <2>2. CASE process = "up" /\ ThreadT
    BY <2>2
    DEF ThreadT, fullSyncronisation, StartWorkThread, SendingStops, SendingContinues,
        SendQuery, Sleep, JoinAndClose, SetEnd, WriteThrows, Terminate,
        TerminationHasCause, client
  <2>3. CASE process = "up" /\ Environment
    BY <2>3
    DEF Environment, Start, PushQuery, Stop, Tick, ClientBegins, ClientSends,
        ClientReads, ClientHangsUp
  <2>4. CASE process = "up" /\ WorkThread
    <3>1. IdReadThrows \/ NameReadThrows \/ RecordHandlerThrows \/ OpenImageThrows \/ ReplyThrows
      BY <2>4
      DEF WorkThread, WorkLoop, ReadSome, ReadHeader, ReadFails, ReadLine,
          ReadImageLength, ReadImageData, ImageHandler, ReceiveTimesOut, OpenImage, Reply
    <3>2. UNCHANGED <<wpc, client, stored>>
      BY <3>1 DEF IdReadThrows, NameReadThrows, RecordHandlerThrows, OpenImageThrows,
                  ReplyThrows, Terminate
    <3>3. CASE IdReadThrows \/ NameReadThrows \/ ReplyThrows
      BY <3>2, <3>3 DEF IdReadThrows, NameReadThrows, ReplyThrows, NoMoreInput,
                        TerminationHasCause, client
    <3>4. CASE RecordHandlerThrows
      <4>1. consumed \in 1..sent /\ stream[consumed].kind = "record"
        BY <3>4 DEF RecordHandlerThrows, StreamInv, Placed, Follows, TypeOK
      <4> QED
        BY <3>2, <4>1 DEF TerminationHasCause, client
    <3>5. CASE OpenImageThrows
      BY <3>2, <3>5 DEF OpenImageThrows, TerminationHasCause
    <3> QED
      BY <3>1, <3>3, <3>4, <3>5
  <2> QED
    BY <2>1, <2>2, <2>3, <2>4 DEF Next
<1> QED
  BY <1>1, <1>2, TypeCorrect, StreamInvariant, PTL DEF Spec

\* A handler left behind by a receive that timed out refers to a dead stack frame,
\* and no later receive runs the context that would call it.
THEOREM NoStaleHandlerHolds == Spec => []NoStaleHandler
<1>1. Init => NoStaleHandler
  BY DEF Init, NoStaleHandler
<1>2. ThreadInv /\ NoStaleHandler /\ [Next]_vars => NoStaleHandler'
  <2> SUFFICES ASSUME ThreadInv, NoStaleHandler, [Next]_vars PROVE NoStaleHandler'
    OBVIOUS
  <2>1. CASE ThreadT
    BY <2>1
    DEF ThreadT, fullSyncronisation, StartWorkThread, SendingStops, SendingContinues,
        SendQuery, Sleep, JoinAndClose, SetEnd, WriteThrows, Terminate, NoStaleHandler,
        ThreadInv, asyncVars
  <2>2. CASE Environment
    BY <2>2
    DEF Environment, Start, PushQuery, Stop, Tick, ClientBegins, ClientSends,
        ClientReads, ClientHangsUp, NoStaleHandler, asyncVars
  <2>3. CASE WorkThread
    <3>1. CASE ReadHeader
      BY <3>1 DEF ReadHeader, NoStaleHandler
    <3>2. CASE IdReadThrows \/ NameReadThrows \/ RecordHandlerThrows \/ OpenImageThrows \/ ReplyThrows
      BY <3>2 DEF IdReadThrows, NameReadThrows, RecordHandlerThrows, OpenImageThrows,
                  ReplyThrows, Terminate, NoStaleHandler, asyncVars
    <3>3. CASE WorkLoop \/ ReadSome \/ ReadFails \/ ReadLine \/ OpenImage \/ Reply
      BY <3>3 DEF WorkLoop, ReadSome, ReadFails, ReadLine, OpenImage, Reply,
                  Delimited, LineReads, ReplyChunks, NoStaleHandler, asyncVars
    <3>4. CASE ReadImageLength \/ ReadImageData \/ ImageHandler \/ ReceiveTimesOut
      BY <3>4 DEF ReadImageLength, ReadImageData, ImageHandler, ReceiveTimesOut,
                  NoStaleHandler, asyncVars
    <3> QED
      BY <2>3, <3>1, <3>2, <3>3, <3>4 DEF WorkThread
  <2>4. CASE UNCHANGED vars
    BY <2>4 DEF vars, NoStaleHandler, asyncVars
  <2> QED
    BY <2>1, <2>2, <2>3, <2>4 DEF Next
<1> QED
  BY <1>1, <1>2, ThreadInvariant, PTL DEF Spec

-----------------------------------------------------------------------------
(* A session keeps to its life.                                            *)

\* Places of the work thread that are one place in the life of the session.
AtWork == wpc \notin {"none", "exited"}

LEMMA LifeStutters ==
  ASSUME peer' = peer, process' = process,
         \/ tpc' = tpc
         \/ tpc \in {"sending", "draining"} /\ tpc' \in {"sending", "draining"},
         wpc' = wpc \/ (AtWork /\ AtWork')
  PROVE  UNCHANGED Life!vars
BY DEF Life!vars, AtWork

LEMMA LifeLost ==
  ASSUME Terminate, process = "up",
         AtWork \/ (peer = "gone" /\ tpc \in {"sync", "sending", "draining"})
  PROVE  Life!Next
BY DEF Terminate, tVars, client, AtWork, Life!Next, Life!Lose

LEMMA LifeThreadT ==
  ASSUME process = "up", TypeOK, ThreadInv, ThreadT
  PROVE  [Life!Next]_Life!vars
<1> USE DEF flags, client, tVars
<1>1. CASE fullSyncronisation
  BY <1>1, LifeStutters DEF fullSyncronisation
<1>2. CASE StartWorkThread
  BY <1>2 DEF StartWorkThread, ThreadInv, Life!Next, Life!Serve
<1>3. CASE SendingStops
  BY <1>3 DEF SendingStops, Life!Next, Life!Stop
<1>4. CASE SendingContinues
  BY <1>4, LifeStutters DEF SendingContinues
<1>5. CASE SendQuery
  BY <1>5, LifeStutters DEF SendQuery
<1>6. CASE Sleep
  BY <1>6, LifeStutters DEF Sleep
<1>7. CASE JoinAndClose
  BY <1>7 DEF JoinAndClose, Life!Next, Life!Close
<1>8. CASE SetEnd
  BY <1>8 DEF SetEnd, Life!Next, Life!End
<1>9. CASE WriteThrows
  BY <1>9, LifeLost DEF WriteThrows
<1> QED
  BY <1>1, <1>2, <1>3, <1>4, <1>5, <1>6, <1>7, <1>8, <1>9 DEF ThreadT

\* The work thread goes on, exits, or takes the process down.
LEMMA WorkThreadLife ==
  ASSUME TypeOK, WorkThread
  PROVE  /\ AtWork /\ tpc' = tpc /\ peer' = peer
         /\ \/ process' = process
            \/ Terminate
<1> USE DEF flags, client, tVars
<1>0. AtWork /\ tpc' = tpc
  BY WorkThreadStep DEF AtWork
<1> SUFFICES (peer' = peer /\ process' = process) \/ (peer' = peer /\ Terminate)
  BY <1>0
<1>1. CASE WorkLoop \/ ReadSome \/ ReadHeader \/ ReadFails
  BY <1>1 DEF WorkLoop, ReadSome, ReadHeader, ReadFails
<1>2. CASE ReadLine \/ ReadImageLength \/ ReadImageData \/ ImageHandler
  BY <1>2 DEF ReadLine, ReadImageLength, ReadImageData, ImageHandler
<1>3. CASE ReceiveTimesOut \/ OpenImage \/ Reply
  BY <1>3 DEF ReceiveTimesOut, OpenImage, Reply
<1>4. CASE IdReadThrows \/ NameReadThrows \/ RecordHandlerThrows \/ OpenImageThrows \/ ReplyThrows
  BY <1>4 DEF IdReadThrows, NameReadThrows, RecordHandlerThrows, OpenImageThrows,
              ReplyThrows, Terminate
<1> QED
  BY <1>1, <1>2, <1>3, <1>4 DEF WorkThread

LEMMA LifeWorkThread ==
  ASSUME process = "up", TypeOK, ThreadInv, WorkThread
  PROVE  [Life!Next]_Life!vars
<1>1. CASE Terminate
  BY <1>1, WorkThreadLife, LifeLost
<1>2. CASE process' = process /\ wpc' # "exited"
  <2>1. wpc' # "none"
    BY WorkThreadStep
  <2> QED
    BY <1>2, <2>1, WorkThreadLife, LifeStutters DEF AtWork
<1>3. CASE process' = process /\ wpc' = "exited"
  <2>1. tpc \in {"sending", "draining", "joining"} /\ tpc' = tpc /\ peer' = peer
        /\ wpc \notin {"none", "exited"}
    BY WorkThreadLife DEF AtWork, TypeOK, ThreadInv
  <2>2. Life!WorkerExits
    BY <1>3, <2>1 DEF Life!WorkerExits
  <2> QED
    BY <2>2, process = "up" DEF Life!Next
<1> QED
  BY <1>1, <1>2, <1>3, WorkThreadLife

LEMMA LifeEnvironment ==
  ASSUME process = "up", TypeOK, Environment
  PROVE  [Life!Next]_Life!vars
<1> USE DEF flags, client, tVars
<1>1. CASE Start
  BY <1>1 DEF Start, Life!Next, Life!Begin
<1>2. CASE PushQuery \/ Stop \/ Tick
  BY <1>2, LifeStutters DEF PushQuery, Stop, Tick
<1>3. CASE ClientBegins \/ ClientSends \/ ClientReads
  BY <1>3, LifeStutters DEF ClientBegins, ClientSends, ClientReads
<1>4. CASE ClientHangsUp
  BY <1>4 DEF ClientHangsUp, Life!Next, Life!HangUp
<1> QED
  BY <1>1, <1>2, <1>3, <1>4 DEF Environment

\* The two threads of a session implement its life: a session that has closed never
\* takes the process down (lfrconnection.cpp:20-144).
THEOREM LifeKeptHolds == Spec => LifeKept
<1>1. Init => Life!Init
  BY DEF Init, Life!Init
<1>2. TypeOK /\ ThreadInv /\ [Next]_vars => [Life!Next]_Life!vars
  <2> SUFFICES ASSUME TypeOK, ThreadInv, [Next]_vars PROVE [Life!Next]_Life!vars
    OBVIOUS
  <2>1. CASE Next
    BY <2>1, LifeThreadT, LifeWorkThread, LifeEnvironment DEF Next
  <2>2. CASE UNCHANGED vars
    BY <2>2, LifeStutters DEF vars, client, tVars
  <2> QED
    BY <2>1, <2>2
<1> QED
  BY <1>1, <1>2, TypeCorrect, ThreadInvariant, PTL DEF Spec, LifeKept, Life!Spec
=============================================================================
