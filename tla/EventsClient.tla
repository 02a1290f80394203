---------------------------- MODULE EventsClient ----------------------------
(***************************************************************************)
(* The way of a broadcast from the daemon to the rules: the events library *)
(* is a client of the daemon it runs in.  The broadcast thread writes to   *)
(* the clients that have identified themselves (daemon.c); the socket      *)
(* thread (socket_wait, socket_parse_data) accepts connections, lists the  *)
(* client that sends "identify" and answers it; events_clientize connects, *)
(* identifies itself, reads (Sockets) and hands each message to            *)
(* events_queue (EventsQueue).  main_gc ends them with events_gc and then  *)
(* socket_gc.                                                              *)
(***************************************************************************)
EXTENDS EventsQueue, Sockets

CONSTANTS
  Messages,  \* how many messages are broadcast
  Connects   \* how often the events client connects

Success == Messages + 1   \* {"status":"success"}
Identify == Messages + 2  \* the request of the events client
Other == Messages + 3     \* a request of another client

ASSUME EventsClientConstants ==
  /\ Messages \in Nat /\ Connects \in Nat
  /\ DOMAIN Length = 1 .. Other
  /\ Writers = {"broadcast", "socket"} /\ Readers = {"client", "socket"}
  /\ Length[Identify] = 1 /\ Length[Other] = 1

VARIABLES
  kpc,       \* progress of events_clientize
  array,     \* the messages of the last read that are not queued yet
  accepts,   \* the last connection the socket thread has accepted
  asked,     \* the connection with an identify request that is not read, or 0
  answer,    \* the connection the socket thread has to answer, or 0
  clients,   \* the connections in the list of clients
  sent,      \* messages broadcast so far
  promised,  \* history: messages broadcast to a client in its reading loop
  socket_loop

serverVars == <<accepts, asked, answer, clients>>
castVars == <<sent, promised>>
vars == <<eventsVars, socketVars, kpc, array, serverVars, castVars, socket_loop>>

Init ==
  /\ EventsInit /\ SocketsInit
  /\ kpc = "connect" /\ array = <<>>
  /\ accepts = 0 /\ asked = 0 /\ answer = 0 /\ clients = {}
  /\ sent = 0 /\ promised = {}
  /\ socket_loop = 1

----------------------------------------------------------------------------
(* The broadcast thread                                                    *)

Reading == kpc \in {"test", "loop", "array"}

(* Only writes to the events client's connection are of interest here.     *)
Broadcast ==
  /\ mpc = "run" /\ sent < Messages /\ fd \in clients
  /\ socket_write("broadcast", fd, sent + 1)
  /\ sent' = sent + 1
  /\ promised' = IF Reading THEN promised \cup {sent + 1} ELSE promised
  /\ UNCHANGED <<eventsVars, fd, stream, readVars, trouble, kpc, array,
                 serverVars, socket_loop>>

SendPart(w) ==
  /\ Send(w) \/ SendUnread(w)
  /\ UNCHANGED <<eventsVars, kpc, array, serverVars, castVars, socket_loop>>

----------------------------------------------------------------------------
(* The socket thread: it is in select when it is not in the middle of a    *)
(* request.                                                                *)

InSelect ==
  /\ socket_loop = 1
  /\ bytes["socket"] = 0 /\ answer = 0 /\ sendBuff["socket"] = <<>>

Accept ==
  /\ InSelect /\ accepts < fd
  /\ accepts' = fd
  /\ UNCHANGED <<eventsVars, socketVars, kpc, array, asked, answer, clients,
                 castVars, socket_loop>>

(* The identify request of the events client is received, or the request   *)
(* of another client, which may come at any time.                          *)
RecvIdentify ==
  /\ InSelect /\ asked /= 0 /\ accepts = asked
  /\ answer' = asked /\ asked' = 0
  /\ Recv("socket", Cells(Identify))
  /\ trouble' = trouble \cup Overlap("socket")
  /\ UNCHANGED <<eventsVars, fd, stream, writeVars, message, kpc, array,
                 accepts, clients, castVars, socket_loop>>

RecvOther ==
  /\ InSelect
  /\ Recv("socket", Cells(Other))
  /\ trouble' = trouble \cup Overlap("socket")
  /\ UNCHANGED <<eventsVars, fd, stream, writeVars, message, kpc, array,
                 serverVars, castVars, socket_loop>>

(* socket_parse_data puts a client that identifies itself into the list,   *)
(* before it answers.                                                      *)
ParseRequest ==
  /\ Copy("socket")
  /\ IF Received("socket") = Cells(Identify)
     THEN clients' = clients \cup {answer} /\ UNCHANGED answer
     ELSE answer' = 0 /\ UNCHANGED clients
  /\ UNCHANGED <<eventsVars, kpc, array, accepts, asked, castVars,
                 socket_loop>>

Answer ==
  /\ answer /= 0 /\ bytes["socket"] = 0
  /\ socket_write("socket", answer, Success)
  /\ answer' = 0
  /\ UNCHANGED <<eventsVars, fd, stream, readVars, trouble, kpc, array,
                 accepts, asked, clients, castVars, socket_loop>>

----------------------------------------------------------------------------
(* events_clientize                                                        *)

(* A connection, and the identify request on it.  What an earlier one      *)
(* still holds is never read.                                              *)
Connect ==
  /\ kpc = "connect" /\ loop = 1 /\ fd < Connects
  /\ fd' = fd + 1 /\ stream' = <<>>
  /\ asked' = fd + 1
  /\ kpc' = "answer"
  /\ UNCHANGED <<eventsVars, writeVars, readVars, trouble, array, accepts,
                 answer, clients, castVars, socket_loop>>

(* The heads of the two loops.                                             *)
TestLoop ==
  /\ \/ kpc = "connect" /\ loop = 0 /\ kpc' = "ended"
     \/ kpc = "test" /\ kpc' = IF loop = 0 THEN "ended" ELSE "loop"
  /\ UNCHANGED <<eventsVars, socketVars, array, serverVars, castVars, socket_loop>>

InRead == kpc \in {"answer", "loop"} /\ bytes["client"] = 0

ReadRecv ==
  /\ InRead /\ socket_loop = 1
  /\ RecvStream("client")
  /\ UNCHANGED <<eventsVars, kpc, array, serverVars, castVars, socket_loop>>

(* What socket_read returns is compared with the answer to the identify    *)
(* request, as a whole, or taken apart into the messages it holds.         *)
ReadCopy ==
  /\ Copy("client")
  /\ LET got == Received("client")
     IN  \/ /\ ~ Complete(got)
            /\ UNCHANGED <<kpc, array>>
         \/ /\ Complete(got) /\ kpc = "answer"
            /\ kpc' = IF got = Cells(Success) THEN "test" ELSE "connect"
            /\ UNCHANGED array
         \/ /\ Complete(got) /\ kpc = "loop"
            /\ array' = explode(got)
            /\ kpc' = "array"
  /\ UNCHANGED <<eventsVars, serverVars, castVars, socket_loop>>

(* The read of the answer waits without a limit, the others one second.    *)
ReadTimeout ==
  /\ InRead /\ kpc = "loop"
  /\ Timeout("client")
  /\ kpc' = "test"
  /\ UNCHANGED <<eventsVars, array, serverVars, castVars, socket_loop>>

(* socket_read finds the socket library stopped when its select returns:   *)
(* there is data, or socket_gc has written to the accepted connection.     *)
ReadStopped ==
  /\ InRead /\ socket_loop = 0
  /\ stream /= <<>> \/ accepts = fd
  /\ message' = [message EXCEPT !["client"] = <<>>]
  /\ kpc' = "connect"
  /\ UNCHANGED <<eventsVars, fd, stream, writeVars, recvBuff, bytes, trouble,
                 array, serverVars, castVars, socket_loop>>

(* events_queue for each message of a read; loop is not tested between.    *)
QueueNext ==
  /\ kpc = "array" /\ cpc = "read"
  /\ IF array = <<>>
     THEN kpc' = "test" /\ UNCHANGED <<eventsVars, array>>
     ELSE QueueBegin(Head(array)) /\ array' = Tail(array) /\ UNCHANGED kpc
  /\ UNCHANGED <<socketVars, serverVars, castVars, socket_loop>>

----------------------------------------------------------------------------
(* main_gc                                                                 *)

(* No message is on its way to the events client, which waits for one.     *)
Quiet ==
  /\ kpc \in {"test", "loop"} /\ bytes["client"] = 0
  /\ stream = <<>> /\ \A w \in Writers : sendBuff[w] = <<>>

(* main_loop = 0 ends the broadcasts before events_gc.                     *)
MainGc ==
  /\ GcBegin(Quiet)
  /\ UNCHANGED <<socketVars, kpc, array, serverVars, castVars, socket_loop>>

(* The list of clients is freed, and socket_gc follows.                    *)
SocketGc ==
  /\ mpc = "freed"
  /\ mpc' = "ended"
  /\ clients' = {} /\ socket_loop' = 0
  /\ UNCHANGED <<flagVars, listVars, owner, clientVars, loopVars, calm, raced,
                 socketVars, kpc, array, accepts, asked, answer, castVars>>

----------------------------------------------------------------------------
restVars == <<socketVars, kpc, array, serverVars, castVars, socket_loop>>

QueueCall == QueueStep /\ UNCHANGED restVars
EventsLoop == LoopStep /\ UNCHANGED restVars
EventsGc == GcStep /\ UNCHANGED restVars

ClientStep ==
  \/ Connect \/ TestLoop \/ ReadRecv \/ ReadCopy \/ ReadTimeout
  \/ ReadStopped \/ QueueNext \/ QueueCall
SocketStep ==
  Accept \/ RecvIdentify \/ ParseRequest \/ Answer \/ SendPart("socket")
GcEnd == EventsGc \/ SocketGc

(* Nothing is claimed of what follows one of the exceptions named at       *)
(* MessagesInOrder, so a behaviour is followed up to the first of them.    *)
Sound == trouble = {} /\ raced = 0

Next ==
  /\ Sound
  /\ \/ Broadcast \/ SendPart("broadcast") \/ SocketStep \/ RecvOther
     \/ ClientStep \/ EventsLoop \/ MainGc \/ GcEnd

Spec == Init /\ [][Next]_vars

(* The threads are scheduled, and a select that has data or time returns.  *)
(* The client contends for the mutex with a loop that gives it up only     *)
(* while it waits.                                                         *)
Fairness ==
  /\ WF_vars(Sound /\ ClientStep)
  /\ SF_vars(Sound /\ QueueLock /\ UNCHANGED restVars)
  /\ WF_vars(Sound /\ EventsLoop)
  /\ SF_vars(Sound /\ LoopLock /\ UNCHANGED restVars)
  /\ WF_vars(Sound /\ SocketStep)
  /\ WF_vars(Sound /\ SendPart("broadcast"))
  /\ WF_vars(Sound /\ GcEnd)

FairSpec == Spec /\ Fairness

----------------------------------------------------------------------------
(* What reaches the rules is what was broadcast: every message that        *)
(* events_queue takes is a whole one, none comes twice or overtakes        *)
(* another, and the rules see the queued ones once and in order.  The      *)
(* exceptions are those the code does not cope with: events_loop began in  *)
(* the middle of an events_queue that had found no mutex; two threads were *)
(* in socket_read between recv and the copy out of the shared recvBuff;    *)
(* recv returned less than there was; a part of a message was late by more *)
(* than the second the read waits; the connection had no room for a part.  *)
MessagesInOrder ==
  Sound =>
    /\ QueueInOrder
    /\ \A i \in DOMAIN accepted :
         /\ accepted[i] \in 1 .. sent
         /\ i > 1 => accepted[i - 1] < accepted[i]

(* A message broadcast to an events client that has been answered reaches  *)
(* the rules, unless the queue was full, the library ends first, or one of *)
(* the exceptions above has occurred.                                      *)
MessagesHandled ==
  LET open == promised \ (ToSet(handled) \cup refused)
  IN  (open /= {}) ~> (open = {} \/ loop = 0 \/ ~ Sound)

(* events_gc returns when it found events_loop waiting, and main_gc goes   *)
(* on to socket_gc; when no message was on its way, the events client ends *)
(* too.                                                                    *)
CalmGcEnds ==
  (calm > 0) ~> \/ mpc = "ended" /\ (calm = 2 => kpc = "ended")
                \/ ~ Sound
=============================================================================
