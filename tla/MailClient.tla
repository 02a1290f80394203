----------------------------- MODULE MailClient -----------------------------
(***************************************************************************)
(* The SMTP client of core/mail.c on the custom poll, as the mail objects  *)
(* of lua_c/network/mail.c use it. A line of the server is its code, the   *)
(* character behind it and what it offers; a command of the client is the  *)
(* name of its step. There is no timer. A TLS library that could not be    *)
(* initialised is left out.                                                *)
(***************************************************************************)
EXTENDS PollData, TLC

CONSTANT CmdLen   \* units a command is sent in

LOCAL INSTANCE FiniteSetsExt

plua_network_mail_callback(c, status) ==
  [c EXCEPT !.answers = Append(@, [code |-> status, content |-> <<>>]),
            !.misuse = IF c.obj = "freed" THEN @ \cup {"callback"} ELSE @,
            !.obj = "freed"]

abort_cb(c) ==
  LET b == Touch(c)
      d == IF b.callback THEN plua_network_mail_callback(b, -1) ELSE b
      e == [d EXCEPT !.closes = @ + 1]
  IN uv_custom_poll_free(uv_close(e), FALSE)

Poll == INSTANCE PollHandle WITH close_cb <- abort_cb

(* The steps, and the code with which the server lets the client go on.    *)
Next(step) ==
  CASE step = "WELCOME" -> "HELLO"
    [] step = "STARTTLS" -> "HELLO"
    [] step = "AUTH" -> "FROM"
    [] step = "FROM" -> "TO"
    [] step = "TO" -> "DATA"
    [] step = "DATA" -> "BODY"
    [] step = "BODY" -> "RESET"
    [] step = "RESET" -> "QUIT"

(* Mutant: the code that takes the message is expected to refuse it.       *)
ExpectedNot(step) ==
  CASE step \in {"WELCOME", "STARTTLS"} -> 220
    [] step = "DATA" -> 354
    [] step \in {"FROM", "TO", "RESET"} -> 250
    [] step = "BODY" -> 550

Expected(step) ==
  CASE step \in {"WELCOME", "STARTTLS"} -> 220
    [] step = "DATA" -> 354
    [] step \in {"FROM", "TO", "BODY", "RESET"} -> 250

Goto(c, step) ==
  Poll!uv_custom_write([c EXCEPT !.len = 0, !.step = step, !.sends = TRUE])

(* The lines of the answer to EHLO up to the one that ends the loop.       *)
Ends(l) == l.sep = " " /\ l.v \in {250, 501}
HelloLines(text) ==
  LET last == {i \in DOMAIN text : Ends(text[i])}
  IN IF last = {} THEN text ELSE SubSeq(text, 1, Min(last))
AuthType(c, lines) ==
  LET offers == {i \in DOMAIN lines : lines[i].cap # "none"}
  IN IF offers = {} THEN c.authtype ELSE lines[Max(offers)].cap

Hello(c) ==
  LET lines == HelloLines(c.text)
      d == [c EXCEPT !.authtype = AuthType(c, lines)]
      l == lines[Len(lines)]
  IN IF ~Ends(l) THEN Poll!uv_custom_read(d)
     ELSE IF l.v = 501 \/ d.authtype = "UNSUPPORTED" THEN Poll!uv_custom_close(d)
     ELSE Goto([d EXCEPT !.reading = FALSE], d.authtype)

(* Mutant: the callback is kept after it has been told of the success.     *)
QuitKept(c) == Poll!uv_custom_close(plua_network_mail_callback(c, 0))
Quit(c) ==
  Poll!uv_custom_close(
    [(IF c.callback THEN plua_network_mail_callback(c, 0) ELSE c)
     EXCEPT !.callback = FALSE])

(* The code the buffer starts with, which is that of an earlier answer     *)
(* when nothing was read.                                                  *)
Code(c) == Head(c.text).v

read_cb(c) ==
  CASE c.sends -> c
    [] ~c.sends /\ c.step = "HELLO" -> Hello(c)
    [] ~c.sends /\ c.step = "AUTH" ->
         IF Code(c) \in {451, 501, 535} THEN Poll!uv_custom_close(c)
                                        ELSE Goto(c, "FROM")
    [] ~c.sends /\ c.step = "QUIT" -> Quit(c)
    [] ~c.sends /\ c.step = "STARTTLS" ->
         IF Code(c) = 220 THEN Goto([c EXCEPT !.ssl = TRUE], "HELLO") ELSE c
    [] OTHER ->
         IF Code(c) = Expected(c.step) THEN Goto(c, Next(c.step))
                                       ELSE Poll!uv_custom_close(c)

(* Mutant: the client does not ask to be told of the answer.               *)
push_dataDeaf(c, units) ==
  Poll!uv_custom_write([c EXCEPT !.out = @ \o units, !.sends = FALSE,
                                 !.reading = TRUE])

push_data(c, units) ==
  Poll!uv_custom_read(Poll!uv_custom_write(
    [c EXCEPT !.out = @ \o units, !.sends = FALSE, !.reading = TRUE]))

write_cb(c) ==
  IF c.sends THEN push_data(c, [i \in 1 .. CmdLen |-> c.step])
  ELSE IF c.step = "WELCOME" THEN push_data(c, <<>>)
  ELSE c

Loop == INSTANCE CustomPoll WITH close_cb <- abort_cb

MailRequest ==
  [kind |-> "mail", obj |-> "live", answers |-> <<>>, misuse |-> {},
   callback |-> TRUE, authtype |-> "UNSUPPORTED", reading |-> FALSE,
   step |-> "WELCOME", sends |-> FALSE, timer |-> FALSE, listed |-> FALSE]

(* connects is FALSE when the socket cannot be connected at all; the Lua   *)
(* object is then freed by the callback and again by the caller.           *)
sendmail(ssl, connects) ==
  LET c == uv_custom_poll_init(ssl) @@ MailRequest IN
  IF connects THEN Poll!uv_custom_write(c)
  ELSE plua_network_mail_callback(
         [c EXCEPT !.data = "null", !.handle = "none", !.closes = 1], -1)
=============================================================================
