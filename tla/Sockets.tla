------------------------------ MODULE Sockets -------------------------------
(***************************************************************************)
(* socket_write and socket_read of core/socket.c on the connection from    *)
(* the daemon to one of its clients.  A message is a run of cells, the     *)
(* last of which holds the delimiter EOSS; socket_write sends it in parts  *)
(* of at most BUFFER_SIZE.  socket_read puts together what recv returns    *)
(* until it ends in a delimiter or is shorter than the buffer.  recv       *)
(* writes into recvBuff, which is static: every thread that reads from a   *)
(* socket copies its data from there.                                      *)
(***************************************************************************)
EXTENDS Naturals, SequencesExt

CONSTANTS
  BUFFER_SIZE,  \* in cells
  Room,         \* cells the kernel keeps for a connection
  Length,       \* the length of each message, in cells
  Writers,      \* the threads that write to the client
  Readers       \* the threads that read from a socket

ASSUME SocketsConstants ==
  /\ BUFFER_SIZE \in Nat \ {0} /\ Room \in Nat \ {0}
  /\ \A m \in DOMAIN Length : Length[m] \in Nat \ {0}

Cells(m) == [k \in 1 .. Length[m] |-> <<m, k>>]
Ends(cell) == cell[2] = Length[cell[1]]
Least(a, b) == IF a < b THEN a ELSE b

VARIABLES
  fd,        \* the client's current connection
  stream,    \* what the client has not received of it yet
  sendBuff,  \* what a writer has still to send
  wfd,       \* the connection it sends to
  recvBuff,  \* what the last recv has stored, until it is copied
  bytes,     \* what recv has returned and a reader has not copied yet
  message,   \* what a reader has put together
  trouble    \* history: what has happened that socket_read cannot cope with

writeVars == <<sendBuff, wfd>>
readVars == <<recvBuff, bytes, message>>
socketVars == <<fd, stream, writeVars, readVars, trouble>>

SocketsInit ==
  /\ fd = 0 /\ stream = <<>>
  /\ sendBuff = [w \in Writers |-> <<>>] /\ wfd = [w \in Writers |-> 0]
  /\ recvBuff = <<>>
  /\ bytes = [r \in Readers |-> 0] /\ message = [r \in Readers |-> <<>>]
  /\ trouble = {}

----------------------------------------------------------------------------
(* socket_write                                                            *)

socket_write(w, to, m) ==
  /\ sendBuff[w] = <<>>
  /\ sendBuff' = [sendBuff EXCEPT ![w] = Cells(m)]
  /\ wfd' = [wfd EXCEPT ![w] = to]

(* send on the connection that is read: as much of a part as there is room *)
(* for, or an error that gives up the rest of the message.                 *)
Send(w) ==
  /\ sendBuff[w] /= <<>> /\ wfd[w] = fd
  /\ LET part == Least(BUFFER_SIZE, Len(sendBuff[w]))
         n == Least(part, Room - Len(stream))
     IN  /\ stream' = stream \o SubSeq(sendBuff[w], 1, n)
         /\ sendBuff' = [sendBuff EXCEPT ![w] =
                           IF n = 0 THEN <<>> ELSE SubSeq(@, n + 1, Len(@))]
         /\ trouble' = IF n < part THEN trouble \cup {"full"} ELSE trouble
  /\ UNCHANGED <<fd, wfd, readVars>>

(* A connection the client has left: nobody reads what is sent.            *)
SendUnread(w) ==
  /\ sendBuff[w] /= <<>> /\ wfd[w] /= fd
  /\ sendBuff' = [sendBuff EXCEPT ![w] = <<>>]
  /\ UNCHANGED <<fd, stream, wfd, readVars, trouble>>

----------------------------------------------------------------------------
(* socket_read                                                             *)

(* recv of the cells of data, while another reader may not have copied its *)
(* own out of recvBuff yet.                                                *)
Recv(r, data) ==
  /\ bytes[r] = 0
  /\ recvBuff' = data
  /\ bytes' = [bytes EXCEPT ![r] = Len(data)]

Overlap(r) == IF \E s \in Readers \ {r} : bytes[s] > 0 THEN {"shared"} ELSE {}

(* The client receives what there is, up to the size of the buffer, or     *)
(* less when the network delivers only a part of it.                       *)
RecvStream(r) ==
  /\ stream /= <<>>
  /\ LET all == Least(BUFFER_SIZE, Len(stream))
     IN  \E n \in {1, all} :
           /\ Recv(r, SubSeq(stream, 1, n))
           /\ stream' = SubSeq(stream, n + 1, Len(stream))
           /\ trouble' = trouble \cup Overlap(r) \cup (IF n < all THEN {"short"} ELSE {})
  /\ UNCHANGED <<fd, writeVars, message>>

Received(r) == message[r] \o SubSeq(recvBuff, 1, bytes[r])

(* Mutant: a full buffer counts as the whole stream.                       *)
CompleteFull(got) == Ends(got[Len(got)]) \/ Len(got) <= BUFFER_SIZE

(* What was received ends in the delimiter or is shorter than the buffer.  *)
Complete(got) == Ends(got[Len(got)]) \/ Len(got) < BUFFER_SIZE

(* The copy into the message: socket_read returns it, or goes on.  What is *)
(* left in recvBuff is never read.                                         *)
Copy(r) ==
  /\ bytes[r] > 0
  /\ bytes' = [bytes EXCEPT ![r] = 0]
  /\ message' = [message EXCEPT ![r] = IF Complete(Received(r)) THEN <<>> ELSE Received(r)]
  /\ recvBuff' = <<>>
  /\ UNCHANGED <<fd, stream, writeVars, trouble>>

(* The time of a socket_read is over; what it has received is dropped.     *)
Timeout(r) ==
  /\ bytes[r] = 0 /\ stream = <<>>
  /\ message' = [message EXCEPT ![r] = <<>>]
  /\ trouble' = IF message[r] /= <<>> THEN trouble \cup {"late"} ELSE trouble
  /\ UNCHANGED <<fd, stream, writeVars, recvBuff, bytes>>

----------------------------------------------------------------------------
(* explode at the delimiters.  A piece is known by the message it is the   *)
(* whole of; 0 stands for any other.                                       *)
explode(got) ==
  LET ends == SetToSortSeq({i \in DOMAIN got : Ends(got[i]) \/ i = Len(got)}, <)
      piece(n) == SubSeq(got, IF n = 1 THEN 1 ELSE ends[n - 1] + 1, ends[n])
      name(p) == IF p = Cells(p[1][1]) THEN p[1][1] ELSE 0
  IN  [n \in DOMAIN ends |-> name(piece(n))]
=============================================================================
