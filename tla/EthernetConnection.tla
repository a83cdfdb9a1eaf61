-------------------------- MODULE EthernetConnection --------------------------
(***************************************************************************)
(* EthernetConnection (src/core/connection.cc): write() and updateAndSync()*)
(* send a header with the destination address and the size, and the data   *)
(* in pieces of the send buffer, over one socket; the receive thread of    *)
(* the peer copies the data to memory in pieces of its receive buffer.     *)
(*                                                                         *)
(* Sizes are in units; a header is an address and a size, one unit each,   *)
(* and a token is one unit.  A unit of data is the number of the write and *)
(* its offset in the source.                                               *)
(***************************************************************************)
EXTENDS Integers, Sequences

CONSTANTS SendBufferSize, RecvBufferSize,
          MemSize,     \* units of the destination memory; the token follows it
          Sizes,       \* the sizes of the writes
          MaxOps       \* bound on the number of writes and signals

HeaderLen == 2

EthernetAssumption ==
  /\ SendBufferSize \in Nat /\ SendBufferSize > HeaderLen
  /\ RecvBufferSize \in Nat \ {0}
  /\ Sizes \subseteq 0 .. MemSize
  /\ MaxOps \in Nat

VARIABLES
  op,            \* the write in progress at the sender
  sentDataSize, headerSize,
  outboundToken,
  stream,        \* units in the socket
  recvPc, ptr, size, recvSize,   \* of the receive thread
  memory,        \* destination memory and, at MemSize, the token
  written,       \* history: memory with all the writes and signals called so far
  promised,      \* history: memory at each signal, by token
  ops            \* history: number of writes and signals

sendVars == <<op, sentDataSize, headerSize>>
recvVars == <<recvPc, ptr, size, recvSize, memory>>
vars == <<sendVars, outboundToken, stream, recvVars, written, promised, ops>>

None == [dst |-> 0, size |-> 0, id |-> 0]

TokenAddr == MemSize

MinOf(a, b) == IF a < b THEN a ELSE b

Init ==
  /\ op = None /\ sentDataSize = 0 /\ headerSize = 0
  /\ outboundToken = 0
  /\ stream = <<>>
  /\ recvPc = "ptr" /\ ptr = 0 /\ size = 0 /\ recvSize = 0
  /\ memory = [a \in 0 .. MemSize |-> <<0, 0>>]
  /\ written = memory
  /\ promised = <<>>
  /\ ops = 0

\* write(): prepare the header; nothing is sent for an empty write.
Write(dst, n) ==
  /\ op = None /\ ops < MaxOps
  /\ dst + n <= MemSize
  /\ op' = IF n = 0 THEN None ELSE [dst |-> dst, size |-> n, id |-> ops + 1]
  /\ sentDataSize' = 0 /\ headerSize' = HeaderLen
  /\ ops' = ops + 1
  /\ written' = [a \in 0 .. MemSize |->
                   IF a \in dst .. dst + n - 1 THEN <<ops + 1, a - dst>> ELSE written[a]]
  /\ UNCHANGED <<outboundToken, stream, recvVars, promised>>

\* write(): one message of the loop.  The whole message counts as data sent.
SendMessage ==
  LET dataSize == MinOf(SendBufferSize - headerSize, op.size - sentDataSize)
      header == IF headerSize = 0 THEN <<>> ELSE <<<<op.dst, 0>>, <<op.size, 0>>>>
      sent == sentDataSize + dataSize + headerSize
  IN /\ op # None
     /\ stream' = stream \o header \o [i \in 1 .. dataSize |-> <<op.id, sentDataSize + i - 1>>]
     /\ sentDataSize' = sent
     /\ headerSize' = 0
     /\ op' = IF sent < op.size THEN op ELSE None
     /\ UNCHANGED <<outboundToken, recvVars, written, promised, ops>>

\* updateAndSync(): a header and the token in one message.
UpdateAndSync ==
  /\ op = None /\ ops < MaxOps
  /\ outboundToken' = outboundToken + 1
  /\ stream' = stream \o <<<<TokenAddr, 0>>, <<1, 0>>, <<outboundToken + 1, 0>>>>
  /\ written' = [written EXCEPT ![TokenAddr] = <<outboundToken + 1, 0>>]
  /\ promised' = Append(promised, written)
  /\ ops' = ops + 1
  /\ UNCHANGED <<sendVars, recvVars>>

-----------------------------------------------------------------------------
(***************************************************************************)
(* recvMessages().                                                         *)
(***************************************************************************)

RecvPtr ==
  /\ recvPc = "ptr" /\ stream # <<>>
  /\ ptr' = Head(stream)[1]
  /\ stream' = Tail(stream)
  /\ recvPc' = "size"
  /\ UNCHANGED <<sendVars, outboundToken, size, recvSize, memory, written, promised, ops>>

RecvSize ==
  /\ recvPc = "size" /\ stream # <<>>
  /\ size' = Head(stream)[1] /\ recvSize' = 0
  /\ stream' = Tail(stream)
  /\ recvPc' = IF Head(stream)[1] = 0 THEN "ptr" ELSE "data"
  /\ UNCHANGED <<sendVars, outboundToken, ptr, memory, written, promised, ops>>

\* Mutant: every piece is copied to the start of the destination.
RecvDataToStart ==
  LET messageSize == MinOf(RecvBufferSize, size - recvSize)
  IN /\ recvPc = "data" /\ Len(stream) >= messageSize
     /\ memory' = [a \in 0 .. MemSize |->
                     IF a \in ptr .. ptr + messageSize - 1 THEN stream[a - ptr + 1] ELSE memory[a]]
     /\ stream' = SubSeq(stream, messageSize + 1, Len(stream))
     /\ recvSize' = recvSize + messageSize
     /\ recvPc' = IF recvSize + messageSize < size THEN "data" ELSE "ptr"
     /\ UNCHANGED <<sendVars, outboundToken, ptr, size, written, promised, ops>>

\* One piece of the data, copied to its place.
RecvData ==
  LET messageSize == MinOf(RecvBufferSize, size - recvSize)
      to == ptr + recvSize
  IN /\ recvPc = "data" /\ Len(stream) >= messageSize
     /\ memory' = [a \in 0 .. MemSize |->
                     IF a \in to .. to + messageSize - 1 THEN stream[a - to + 1] ELSE memory[a]]
     /\ stream' = SubSeq(stream, messageSize + 1, Len(stream))
     /\ recvSize' = recvSize + messageSize
     /\ recvPc' = IF recvSize + messageSize < size THEN "data" ELSE "ptr"
     /\ UNCHANGED <<sendVars, outboundToken, ptr, size, written, promised, ops>>

Next ==
  \/ \E dst \in 0 .. MemSize, n \in Sizes : Write(dst, n)
  \/ SendMessage \/ UpdateAndSync
  \/ RecvPtr \/ RecvSize \/ RecvData

Spec == Init /\ [][Next]_vars
-----------------------------------------------------------------------------

\* When everything sent has been received, the remote memory holds every byte of
\* every write, the later write where they overlap, however the buffers cut them.
WritesDelivered == op = None /\ stream = <<>> => memory = written

\* A visible token k is the k-th signal's, and all the data written before that
\* signal is visible too.
TokenAfterData ==
  LET k == memory[TokenAddr][1]
  IN k > 0 => /\ k <= Len(promised)
              /\ \A a \in 0 .. MemSize - 1 : memory[a][1] >= promised[k][a][1]
=============================================================================
