----------------------------- MODULE CustomPoll -----------------------------
(***************************************************************************)
(* uv_custom_poll_cb of core/eventpool.c: what the main loop does with a   *)
(* handle that is ready, as one step from client to client. io is what     *)
(* the calls of the socket and of mbedtls return during that step:         *)
(*   io.shake  of the handshake: want_read, want_write, done or failed     *)
(*   io.send   of send: ok (io.n units), again, failed, want_read or       *)
(*             want_write                                                  *)
(*   io.recv   of recv: ok, again or failed                                *)
(***************************************************************************)
EXTENDS PollHandle

CONSTANTS read_cb(_), write_cb(_)

LOCAL INSTANCE SequencesExt

Want(c, what) ==
  [c EXCEPT !.doread = what = "want_read", !.dowrite = what = "want_write"]

(* The handle reports an error: the client is released, and the socket     *)
(* that it closed is closed once more.                                     *)
Disconnected(c) == [StopUnlessClosing(close_cb(c)) EXCEPT !.closes = @ + 1]

Handshake(c, io) ==
  LET d == [c EXCEPT !.sock.hello = TRUE] IN
  CASE io.shake \in {"want_read", "want_write"} ->
         eventpool_update_poll(Want(d, io.shake))
    [] io.shake = "failed" -> uv_poll_stop(d)
    [] io.shake = "done" ->
         eventpool_update_poll([d EXCEPT !.handshake = TRUE, !.dowrite = TRUE,
                                         !.sock.rx = Tail(@)])

(* The halves of the callback go on with the other half, with the end of   *)
(* the callback, or return.                                                *)
Then(c, to) == [c |-> c, to |-> to]

Drained(c) ==
  LET d == [c EXCEPT !.dowrite = FALSE] IN
  IF d.doclose = 1 THEN Then([d EXCEPT !.doread = FALSE], "end")
                   ELSE Then(write_cb(d), "next")

Writable(c, io) ==
  CASE c.out = <<>> -> Drained(c)
    [] c.out # <<>> /\ io.send \in {"want_read", "want_write"} ->
         Then(Want(c, io.send), "end")
    [] c.out # <<>> /\ io.send = "again" -> Then(c, "next")
    [] c.out # <<>> /\ io.send = "failed" -> Then(uv_poll_stop(c), "return")
    [] c.out # <<>> /\ io.send = "ok" ->
         LET d == [iobuf_remove(c, io.n) EXCEPT
                     !.sock.tx = @ \o SubSeq(c.out, 1, io.n)]
         IN IF d.out = <<>> THEN Drained(d)
                            ELSE Then([d EXCEPT !.dowrite = TRUE], "next")

Pending(c) == IF c.out # <<>> THEN [Touch(c) EXCEPT !.dowrite = TRUE] ELSE Touch(c)

(* A TLS connection hands out one record at a time; a record that is not   *)
(* complete is read but not handed out.                                    *)
Readable(c, io) ==
  LET rx == c.sock.rx
      taken == IF c.ssl THEN Head(rx) ELSE FlattenSeq(rx)
      rest == IF c.ssl THEN [c EXCEPT !.sock.rx = Tail(@)]
                       ELSE [c EXCEPT !.sock.rx = <<>>]
  IN CASE io.recv = "again" ->
            Then(IF c.ssl THEN Want(c, "want_read")
                          ELSE [c EXCEPT !.doread = TRUE], "end")
       [] io.recv = "failed" ->
            IF c.ssl THEN Then(uv_poll_stop(c), "return") ELSE Then(c, "end")
       [] io.recv = "ok" /\ rx = <<>> ->
            Then([c EXCEPT !.doclose = 1, !.doread = FALSE], "end")
       [] io.recv = "ok" /\ rx # <<>> /\ Head(rx) = Special("partial") ->
            Then(Want(rest, "want_read"), "end")
       [] io.recv = "ok" /\ rx # <<>> /\ Head(rx) = Special("notify") ->
            Then(read_cb([rest EXCEPT !.doread = FALSE]), "return")
       [] OTHER ->
            Then(read_cb([iobuf_append(rest, taken) EXCEPT !.doread = FALSE]),
                 "end")

uv_custom_poll_cb(c, status, events, io) ==
  IF status < 0 THEN Disconnected(c)
  ELSE IF c.ssl /\ ~c.handshake THEN Handshake(c, io)
  ELSE LET w == IF "w" \in events THEN Writable(c, io) ELSE Then(c, "next")
           p == Pending(w.c)
           r == IF "r" \in events THEN Readable(p, io) ELSE Then(p, "end")
           last == IF w.to = "next" THEN r ELSE w
       IN IF last.to = "return" THEN last.c ELSE eventpool_update_poll(last.c)
=============================================================================
