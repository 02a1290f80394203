----------------------------- MODULE PollHandle -----------------------------
(***************************************************************************)
(* What a client asks of its poll handle: to be called when it can read or *)
(* write, or to be closed once everything is sent (core/eventpool.c).      *)
(***************************************************************************)
EXTENDS PollData

CONSTANT close_cb(_)   \* the callback of the client that releases it

Wanted(c) ==
  (IF c.doread THEN {"r"} ELSE {}) \cup (IF c.dowrite THEN {"w"} ELSE {})

(* Mutant: the new action is remembered, but the handle is only started    *)
(* when it polls for nothing.                                              *)
eventpool_update_pollOnce(c) ==
  IF c.data = "null" \/ c.closing THEN c
  ELSE IF c.doclose = 1 /\ c.out = <<>>
       THEN StopUnlessClosing(close_cb([c EXCEPT !.doclose = 2]))
       ELSE IF Wanted(c) \notin {c.action, {}}
            THEN [c EXCEPT !.watch = IF @ = {} THEN Wanted(c) ELSE @,
                           !.action = Wanted(c)]
            ELSE c

(* The handle is started again only for an action that is not empty and    *)
(* not the one it was last started for.                                    *)
eventpool_update_poll(c) ==
  IF c.data = "null" \/ c.closing THEN c
  ELSE IF c.doclose = 1 /\ c.out = <<>>
       THEN StopUnlessClosing(close_cb([c EXCEPT !.doclose = 2]))
       ELSE IF Wanted(c) \notin {c.action, {}}
            THEN [c EXCEPT !.watch = Wanted(c), !.action = Wanted(c)]
            ELSE c

uv_custom_read(c) ==
  IF c.closing THEN c ELSE eventpool_update_poll([c EXCEPT !.doread = TRUE])

uv_custom_write(c) ==
  IF c.closing THEN c ELSE eventpool_update_poll([c EXCEPT !.dowrite = TRUE])

uv_custom_close(c) ==
  LET d == [c EXCEPT !.doclose = 1] IN
  IF c.closing THEN c
  ELSE IF d.out = <<>>
       THEN StopUnlessClosing(close_cb([d EXCEPT !.doclose = 2]))
       ELSE uv_custom_write(d)
=============================================================================
