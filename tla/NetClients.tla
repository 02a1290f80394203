----------------------------- MODULE NetClients -----------------------------
(***************************************************************************)
(* A Lua script sends one HTTP request or one mail (lua_c/network), the    *)
(* main loop serves its socket and its timer, and the network and the      *)
(* server do what they like: they refuse, stay silent, answer in pieces,   *)
(* answer wrongly, close or reset the connection at any point.             *)
(***************************************************************************)
EXTENDS Integers, Sequences, FiniteSets, TLC

CONSTANTS
  ReqLen, CmdLen,   \* units of a request and of a command
  HttpAnswers,      \* the answers of web servers, as sequences of tokens
  Kinds,            \* of client: "http", "mail"
  MaxCuts,          \* bound: cuts of the network in the answer of a web server
  MaxRetries        \* bound: calls of the socket that ask to be tried again

LOCAL INSTANCE SequencesExt

ASSUME NetClientsConstants ==
  /\ ReqLen \in Nat \ {0} /\ CmdLen \in Nat \ {0}
  /\ MaxCuts \in Nat /\ MaxRetries \in Nat
  /\ Kinds \subseteq {"http", "mail"}

VARIABLES
  script,   \* where the script is: "send", "unreg" or "done"
  client,   \* the record of the request
  server,   \* what the server still has to send, and what it did
  retries

vars == <<script, client, server, retries>>

Http == INSTANCE HttpClient
Mail == INSTANCE MailClient

NoClient == [data |-> "none", kind |-> "none", watch |-> {}, closing |-> FALSE,
             timer |-> FALSE, handle |-> "none"]
Server == [answer |-> <<>>, todo |-> <<>>, cuts |-> 0, greeted |-> FALSE,
           accepted |-> FALSE, notified |-> FALSE]

Init ==
  /\ script = "send"
  /\ client = NoClient
  /\ server = Server
  /\ retries = 0

sock == client.sock
Live == client.data = "live" /\ ~client.closing

(***************************************************************************)
(* The script.                                                             *)
(***************************************************************************)
plua_network_http_get ==
  /\ script = "send"
  /\ "http" \in Kinds
  /\ \E ssl, connects \in BOOLEAN : client' = Http!http_process(ssl, connects)
  /\ \E a \in HttpAnswers : server' = [server EXCEPT !.answer = a, !.todo = a]
  /\ script' = "unreg"
  /\ UNCHANGED retries

plua_network_mail_send ==
  /\ script = "send"
  /\ "mail" \in Kinds
  /\ \E ssl, connects \in BOOLEAN : client' = Mail!sendmail(ssl, connects)
  /\ script' = "unreg"
  /\ UNCHANGED <<server, retries>>

(* The object is taken from the collector, through a pointer in it; a mail *)
(* that could not be sent is then freed, after its callback has freed it.  *)
plua_gc_unreg ==
  /\ script = "unreg"
  /\ client' = [client EXCEPT
       !.misuse = @ \cup (IF client.obj = "freed" THEN {"unreg"} ELSE {})
                    \cup (IF client.kind = "mail" /\ client.handle = "none"
                          THEN {"gc"} ELSE {})]
  /\ script' = "done"
  /\ UNCHANGED <<server, retries>>

(***************************************************************************)
(* The network.                                                            *)
(***************************************************************************)
Connects ==
  /\ Live /\ ~sock.up /\ ~sock.err
  /\ client' = [client EXCEPT !.sock.up = TRUE]
  /\ UNCHANGED <<script, server, retries>>

(* The connection is refused, times out in the kernel or is reset.         *)
Fails ==
  /\ Live /\ ~sock.err
  /\ client' = [client EXCEPT !.sock.err = TRUE, !.sock.rx = <<>>]
  /\ UNCHANGED <<script, server, retries>>

Arrives(segment) == client' = [client EXCEPT !.sock.rx = Append(@, segment)]
CanSend == Live /\ sock.up /\ ~sock.eof /\ ~sock.err
Secured == client.ssl => client.handshake

ServerHandshake ==
  /\ CanSend /\ client.ssl /\ ~client.handshake
  /\ sock.hello /\ sock.rx = <<>>
  /\ Arrives(Http!Special("tls"))
  /\ UNCHANGED <<script, server, retries>>

ServerCloses ==
  /\ CanSend
  /\ client' = [client EXCEPT !.sock.eof = TRUE]
  /\ UNCHANGED <<script, server, retries>>

(* The end of the TLS session, which a server sends before it closes.      *)
ServerNotifies ==
  /\ CanSend /\ client.ssl /\ client.handshake
  /\ server.greeted /\ ~server.notified
  /\ Arrives(Http!Special("notify"))
  /\ server' = [server EXCEPT !.notified = TRUE, !.todo = <<>>]
  /\ UNCHANGED <<script, retries>>

(* Part of a TLS record arrives before the rest.                           *)
ServerSendsPart ==
  /\ CanSend /\ client.ssl /\ client.handshake
  /\ server.todo # <<>>
  /\ retries < MaxRetries
  /\ retries' = retries + 1
  /\ Arrives(Http!Special("partial"))
  /\ UNCHANGED <<script, server>>

(* The next tokens of the answer, in one segment.                          *)
ServerSends ==
  /\ CanSend /\ Secured
  /\ client.kind = "http" => Len(sock.tx) = ReqLen
  /\ \E n \in 1 .. Len(server.todo) :
       LET cut == client.kind = "http" /\ n < Len(server.todo) IN
       /\ cut => server.cuts < MaxCuts
       /\ Arrives(SubSeq(server.todo, 1, n))
       /\ server' = [server EXCEPT !.todo = SubSeq(@, n + 1, Len(@)),
                                   !.cuts = IF cut THEN @ + 1 ELSE @,
                                   !.greeted = TRUE]
  /\ UNCHANGED <<script, retries>>

Line(v, sep, cap) == [v |-> v, sep |-> sep, cap |-> cap]
Lines(codes) == {<<Line(v, " ", "none")>> : v \in codes}

(* What a mail server may say to a command.                                *)
MailAnswers(cmd) ==
  CASE cmd = "HELLO" ->
         {<<Line(250, "-", "AUTH"), Line(250, " ", "none")>>,
          <<Line(250, " ", "none")>>, <<Line(501, " ", "none")>>}
         \cup IF client.ssl THEN {}
              ELSE {<<Line(250, "-", "AUTH"), Line(250, " ", "STARTTLS")>>}
    [] cmd = "STARTTLS" -> Lines(IF client.ssl THEN {454} ELSE {220, 454})
    [] cmd = "AUTH" -> Lines({235, 454, 535})
    [] cmd = "DATA" -> Lines({354, 550})
    [] cmd = "QUIT" -> Lines({221})
    [] OTHER -> Lines({250, 550})

MailServer ==
  /\ CanSend /\ Secured
  /\ client.kind = "mail"
  /\ server.todo = <<>> /\ ~server.notified
  /\ \/ /\ ~server.greeted
        /\ \E a \in Lines({220, 554}) : server' = [server EXCEPT !.todo = a]
        /\ UNCHANGED client
     \/ /\ Len(sock.tx) = CmdLen
        /\ \E a \in MailAnswers(Head(sock.tx)) :
             server' = [server EXCEPT !.todo = a,
                          !.accepted = @ \/ (Head(sock.tx) = "BODY"
                                             /\ Head(a).v = 250)]
        /\ client' = [client EXCEPT !.sock.tx = <<>>]
  /\ UNCHANGED <<script, retries>>

(***************************************************************************)
(* The main loop.                                                          *)
(***************************************************************************)
Ready ==
  (IF sock.up THEN {"w"} ELSE {})
  \cup (IF sock.rx # <<>> \/ sock.eof THEN {"r"} ELSE {})

poll_cb(c, status, events, io) ==
  IF c.kind = "http" THEN Http!Loop!uv_custom_poll_cb(c, status, events, io)
                     ELSE Mail!Loop!uv_custom_poll_cb(c, status, events, io)

(* What an uninitialised connection_t may hold: nothing the client looks   *)
(* for, or the header of an earlier answer. It is used for a header whose  *)
(* beginning has been stored as content.                                   *)
Stack ==
  IF client.kind = "http" /\ ~client.gotheader /\ client.stored
  THEN {Http!NoHeader} \cup {Head(a) : a \in HttpAnswers} ELSE {Http!NoHeader}
WithStack(c, header) ==
  IF c.kind = "http" THEN [c EXCEPT !.stack = header] ELSE c

(* What the socket and mbedtls may return; mbedtls does not send before it *)
(* has read what the server is negotiating about.                          *)
Io ==
  [shake : IF sock.rx # <<>> THEN {"done", "failed"}
           ELSE IF sock.eof THEN {"failed"} ELSE {"want_read"},
   send : {"ok"} \cup (IF sock.eof \/ client.ssl THEN {"failed"} ELSE {}),
   n : 1 .. IF client.out = <<>> THEN 1 ELSE Len(client.out),
   recv : {"ok"} \cup (IF client.ssl THEN {"failed"} ELSE {})]
Again ==
  [shake : {"want_write"}, n : {1}, recv : {"again"},
   send : IF ~client.ssl THEN {"again"}
          ELSE {"want_write"} \cup (IF sock.rx # <<>> THEN {"want_read"} ELSE {})]

PollError ==
  /\ Live /\ client.watch # {}
  /\ sock.err
  /\ client' = poll_cb([client EXCEPT !.watch = {}], -9, {}, <<>>)
  /\ UNCHANGED <<script, server, retries>>

PollReady ==
  /\ Live /\ ~sock.err
  /\ client.watch \cap Ready # {}
  /\ \E io \in Io, h \in Stack :
       LET c == poll_cb(WithStack(client, h), 0, client.watch \cap Ready, io)
       IN client' = WithStack(c, Http!NoHeader)
  /\ UNCHANGED <<script, server, retries>>

PollAgain ==
  /\ Live /\ ~sock.err
  /\ client.watch \cap Ready # {}
  /\ retries < MaxRetries
  /\ retries' = retries + 1
  /\ \E io \in Again : client' = poll_cb(client, 0, client.watch \cap Ready, io)
  /\ UNCHANGED <<script, server>>

TimerFires ==
  /\ client.timer
  /\ client' = Http!timeout(client)
  /\ UNCHANGED <<script, server, retries>>

(* libuv calls the close callback of the handle, which frees it.           *)
HandleClosed ==
  /\ client.closing /\ client.handle = "live"
  /\ client' = [client EXCEPT !.handle = "freed"]
  /\ UNCHANGED <<script, server, retries>>

ScriptStep == plua_network_http_get \/ plua_network_mail_send \/ plua_gc_unreg
NetStep ==
  \/ Connects \/ Fails \/ ServerHandshake \/ ServerCloses \/ ServerNotifies
  \/ ServerSendsPart \/ ServerSends \/ MailServer
LoopStep == PollError \/ PollReady \/ PollAgain \/ TimerFires \/ HandleClosed

Next == ScriptStep \/ NetStep \/ LoopStep
Spec == Init /\ [][Next]_vars

(* The threads go on, the loop serves what is ready and what has expired,  *)
(* the kernel gives up a connection it cannot make, and a mail server does *)
(* answer, and closes the connection of a session it has ended. Nothing is *)
(* asked of a web server. Polls says when a step of the handle is enabled; *)
(* PollFair and TimerFair are weak fairness, written out.                  *)
MailServerStep ==
  /\ client.kind = "mail"
  /\ \/ ServerHandshake \/ ServerSends \/ MailServer
     \/ ServerCloses /\ server.notified
Connection == Connects \/ (Fails /\ ~sock.up)
Polls ==
  /\ Live
  /\ \/ client.watch # {} /\ sock.err
     \/ /\ client.watch \cap Ready # {} /\ ~sock.err
        /\ \E io \in Io : client # poll_cb(client, 0, client.watch \cap Ready, io)
PollFair == <>[]Polls => []<><<PollError \/ PollReady>>_vars
TimerFair == <>[](client.timer) => []<><<TimerFires>>_vars
FairSpec ==
  /\ Spec
  /\ WF_vars(ScriptStep) /\ WF_vars(HandleClosed)
  /\ PollFair /\ TimerFair
  /\ WF_vars(Connection) /\ WF_vars(MailServerStep)

----------------------------------------------------------------------------
Started == client.kind # "none"

(* The callbacks of the poll handle, of the timer and of the clients call  *)
(* each other without ever using poll data or a request that one of them   *)
(* has freed (http_client_close, abort_cb), and a handle is only closed    *)
(* together with its timer, its descriptor and its entry in http_clients.  *)
MemorySafe ==
  Started =>
    /\ ~client.uaf
    /\ client.timer \/ client.listed => client.data = "live"
    /\ client.closing => client.data # "live" /\ client.closes > 0

(* The object that is given to the callback still exists: the callback is  *)
(* called once (request->called, request->callback = NULL). The exception  *)
(* is timeout() on a request that was not yet connected or had part of its *)
(* answer, which is answered by http_client_close and once more.           *)
AnsweredOnce ==
  Started => \/ Len(client.answers) <= 1 /\ "callback" \notin client.misuse
             \/ client.kind = "http" /\ client.late

(* A mail is reported as sent only when the server took the message, even  *)
(* if it ends the TLS session and read_cb looks at an older answer.        *)
MailTaken ==
  client.kind = "mail" =>
    ((\E i \in DOMAIN client.answers : client.answers[i].code = 0)
       => server.accepted)

(* An answer with the code of the server has all of the content, in order, *)
(* in whichever way its length is given, when the network cuts it inside   *)
(* the content or a chunk, between the size of a chunk and its data, or    *)
(* behind its line end; with no length it has what came before the end of  *)
(* the connection. The exceptions are cuts after which read_cb and         *)
(* process_chunk have lost their place: inside the header, behind a header *)
(* without chunks, in front of the line end of a chunk, and inside the     *)
(* line of a size that begins what was read (client.cut).                  *)
ContentOf(answer) == SelectSeq(answer, LAMBDA x : x.t = "data")
WholeContent ==
  client.kind = "http" =>
    \A i \in DOMAIN client.answers :
      client.answers[i].code = 200 =>
        LET content == client.answers[i].content
            all == ContentOf(server.answer)
        IN \/ content = all
           \/ client.cut
           \/ ~client.has_length /\ ~client.has_chunked /\ IsPrefix(content, all)

(* A handle that polls at all polls for everything its client waits for,   *)
(* although it is not started again for the action it was last started for *)
(* (eventpool_update_poll). The exception is the end of the TLS session,   *)
(* after which uv_custom_poll_cb returns without looking at it again.      *)
WantedWatched ==
  Started /\ Live /\ client.watch # {} /\ ~server.notified =>
    Http!Poll!Wanted(client) \subseteq client.watch

(* Every HTTP request is closed and its callback called, even if the       *)
(* server stays silent or stops anywhere. The exceptions: the callback is  *)
(* not called when the server hangs up on a request it was sent            *)
(* (http_client_close), nor when the line with the size of the first chunk *)
(* arrives in pieces (read_cb: it is taken for the end, and there is no    *)
(* content yet); after a redirection the socket waits for the server       *)
(* without a timer.                                                        *)
Pending(kind) == client.kind = kind /\ client.data = "live"
Answered(kind) ==
  client.kind = kind /\ client.data # "live" /\ client.answers # <<>>
HungUp ==
  /\ client.kind = "http" /\ client.data # "live"
  /\ client.steps = "read" /\ (sock.eof \/ sock.err \/ server.notified)
Redirected ==
  Pending("http") /\ client.answers # <<>> /\ Head(client.answers).code = 301
FirstSizeCut ==
  /\ client.kind = "http" /\ client.data # "live"
  /\ client.has_chunked /\ client.cut /\ ~client.stored
HttpEnds ==
  Pending("http") ~> (Answered("http") \/ HungUp \/ FirstSizeCut \/ Redirected)

(* A mail is closed and answered when the server answers every command,    *)
(* unless libuv stopped polling after a failed call; STARTTLS was refused, *)
(* which read_cb of core/mail.c does not handle; or mbedtls wanted to      *)
(* write again, for which uv_custom_poll_cb forgets that the client also   *)
(* waits for an answer: it then polls for writing with nothing to write.   *)
Deaf ==
  client.ssl /\ ~client.doread /\ ~client.dowrite /\ client.watch = {"w"}
MailStuck ==
  /\ Pending("mail")
  /\ client.watch = {} \/ (client.step = "STARTTLS" /\ client.len > 0) \/ Deaf
MailEnds == Pending("mail") ~> (Answered("mail") \/ MailStuck)
RequestsEnd == HttpEnds /\ MailEnds

(* The object that is passed to a callback exists.                         *)
CallbackObjectAlive == Started => "callback" \notin client.misuse
=============================================================================
