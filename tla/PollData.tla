------------------------------ MODULE PollData ------------------------------
(***************************************************************************)
(* The record of a client that uses the custom poll of core/eventpool.c:   *)
(* the fields of uv_custom_poll_t and its socket. The clients add the      *)
(* fields of the request that is kept in its data pointer. Everything that *)
(* happens inside one callback of the main loop calls back and forth, so   *)
(* every C function is an operator from the client before the call to the  *)
(* client after it.                                                        *)
(***************************************************************************)
EXTENDS Integers, Sequences

Socket == [up |-> FALSE, rx |-> <<>>, tx |-> <<>>, eof |-> FALSE,
           err |-> FALSE, hello |-> FALSE]

(* Segments with no data of the client in them: the answer to a handshake, *)
(* part of a TLS record, the end of the TLS session.                       *)
Special(t) == <<[t |-> t]>>

uv_custom_poll_init(ssl) ==
  [doread |-> FALSE, dowrite |-> FALSE, doclose |-> 0, action |-> {},
   ssl |-> ssl, handshake |-> FALSE,
   out |-> <<>>,         \* send_iobuf
   text |-> <<>>,        \* what the buffer of recv_iobuf holds
   len |-> 0,            \* recv_iobuf.len
   data |-> "live",      \* req->data: the poll data and the request in it
   watch |-> {},         \* the events libuv polls for
   closing |-> FALSE,
   handle |-> "live",
   uaf |-> FALSE,        \* freed memory was used
   closes |-> 0,         \* how often close was called on the descriptor
   sock |-> Socket]

iobuf_append(c, s) ==
  [c EXCEPT !.text = SubSeq(@, 1, c.len) \o s, !.len = @ + Len(s)]
iobuf_remove(c, n) == [c EXCEPT !.out = SubSeq(@, n + 1, Len(@))]

(* A use of poll data that a function still points to.                     *)
Touch(c) == [c EXCEPT !.uaf = @ \/ c.data # "live"]

uv_poll_stop(c) == [c EXCEPT !.watch = {}]
StopUnlessClosing(c) == IF c.closing THEN c ELSE uv_poll_stop(c)
uv_close(c) == [c EXCEPT !.watch = {}, !.closing = TRUE]

(* After uv_custom_poll_free; a client that does not reset req->data       *)
(* leaves the pointer behind.                                              *)
uv_custom_poll_free(c, reset) ==
  [Touch(c) EXCEPT !.data = IF reset THEN "null" ELSE "dangling"]
=============================================================================
