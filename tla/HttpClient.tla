----------------------------- MODULE HttpClient -----------------------------
(***************************************************************************)
(* The HTTP client of core/http.c on the custom poll, as the http objects  *)
(* of lua_c/network/http.c use it. An answer arrives as tokens: the header *)
(* [t |-> "hdr"] with its code, the way it gives the length of the content *)
(* and that length, the line ends, data, and the digits of the size of a   *)
(* chunk. The network cuts the answer between any two tokens. A cut inside *)
(* the lines of a header or inside a line end is to the client what one    *)
(* behind the header or in front of the line end is: it looks for whole    *)
(* line ends only, and a header without its first line tells it nothing.   *)
(***************************************************************************)
EXTENDS PollData, TLC

CONSTANT ReqLen   \* units a request is sent in

LOCAL INSTANCE SequencesExt
LOCAL INSTANCE FiniteSetsExt

Is(text, t) == text # <<>> /\ Head(text).t = t
LineEnds(text) == {i \in DOMAIN text : text[i].t = "nl"}
BlankLines(text) == {i \in LineEnds(text) : i + 1 \in LineEnds(text)}
End == <<[t |-> "digit", v |-> 0], [t |-> "nl"], [t |-> "nl"]>>

(* The object is freed when its callback returns.                          *)
plua_network_http_callback(c, code, content) ==
  [c EXCEPT !.answers = Append(@, [code |-> code, content |-> content]),
            !.misuse = IF c.obj = "freed" THEN @ \cup {"callback"} ELSE @,
            !.obj = "freed"]

CallOnce(c, code, content) ==
  IF c.called THEN c
  ELSE plua_network_http_callback([c EXCEPT !.called = TRUE], code, content)

http_client_add(c) == [c EXCEPT !.listed = TRUE]
http_client_remove(c) == [c EXCEPT !.listed = FALSE]
uv_timer_stop(c) == [c EXCEPT !.timer = FALSE]

(* What a request that is closed still has to tell.                        *)
CloseAnswer(c) ==
  IF c.reading
  THEN CallOnce(c, IF ~c.has_length /\ ~c.has_chunked THEN c.code ELSE 408,
                IF ~c.has_length /\ ~c.has_chunked THEN c.content ELSE <<>>)
  ELSE IF c.error THEN CallOnce(c, 404, <<>>) ELSE c

(* Mutant: the timer goes on after the request is freed.                   *)
http_client_closeTimed(c) ==
  LET d == CloseAnswer(Touch(c))
      e == http_client_remove([d EXCEPT !.closes = @ + 1])
  IN uv_custom_poll_free(IF e.closing THEN e ELSE uv_close(e), TRUE)

http_client_close(c) ==
  LET d == CloseAnswer(uv_timer_stop(Touch(c)))
      e == http_client_remove([d EXCEPT !.closes = @ + 1])
  IN uv_custom_poll_free(IF e.closing THEN e ELSE uv_close(e), TRUE)

Poll == INSTANCE PollHandle WITH close_cb <- http_client_close

(***************************************************************************)
(* The loop of process_chunk: a chunk that is not complete is continued by *)
(* the next call.                                                          *)
(***************************************************************************)
RECURSIVE process_chunk(_)

Consume(c, n) == [c EXCEPT !.text = SubSeq(@, n + 1, Len(@)), !.len = @ - n]

(* The digits the line starts with; 0 if there are none.                   *)
strtoul(line) ==
  LET n == Min({i \in DOMAIN line : line[i].t # "digit"} \cup {Len(line) + 1})
  IN FoldLeft(LAMBDA size, d : 16 * size + d.v, 0, SubSeq(line, 1, n - 1))

(* The line with the size. While it has not ended, chunksize is still 0.   *)
ChunkSize(c) ==
  IF c.chunksize = c.chunkread /\ LineEnds(c.text) # {}
  THEN LET n == Min(LineEnds(c.text))
       IN [Consume(c, n) EXCEPT !.chunksize = strtoul(SubSeq(c.text, 1, n))]
  ELSE c

(* Mutant: a chunk that is not complete is not continued.                  *)
ChunkDataOnce(c) ==
  LET n == Min({c.chunksize - c.chunkread, c.len})
      d == [Consume(c, n) EXCEPT !.content = @ \o SubSeq(c.text, 1, n),
                                 !.stored = TRUE, !.chunksize = 0,
                                 !.chunkread = 0]
  IN IF Is(d.text, "nl") THEN Consume(d, 1) ELSE d

ChunkData(c) ==
  LET n == Min({c.chunksize - c.chunkread, c.len})
      d == [Consume(c, n) EXCEPT !.content = @ \o SubSeq(c.text, 1, n),
                                 !.stored = TRUE, !.chunkread = @ + n]
      e == IF Is(d.text, "nl") THEN Consume(d, 1) ELSE d
  IN IF e.chunkread = e.chunksize
     THEN [e EXCEPT !.chunksize = 0, !.chunkread = 0]
     ELSE e

process_chunk(c) ==
  LET d == ChunkSize(c)
      e == ChunkData(d)
  IN IF IsPrefix(End, c.text) THEN [c EXCEPT !.reading = FALSE]
     ELSE IF c.text = <<>> THEN c
     ELSE IF d.chunksize = 0
     THEN [d EXCEPT !.chunked = FALSE, !.reading = FALSE,
                    !.content_len = Len(d.content)]
     ELSE IF \/ e.chunksize = 0 /\ LineEnds(e.text) = {}
             \/ e.len = 0
             \/ IsPrefix(End, e.text)
     THEN e
     ELSE process_chunk([e EXCEPT !.reading = TRUE])

Close(c) == Poll!uv_custom_close(c)
ReadOrClose(c) == IF c.reading THEN Poll!uv_custom_read(c) ELSE Close(c)

(* What http_parse_request finds in the header; without its first line,    *)
(* the connection_t of read_cb keeps what the stack held.                  *)
Header(c) == IF Is(c.text, "hdr") THEN Head(c.text) ELSE c.stack

(* The header is taken up to the blank line.                               *)
Behind(c) == [Consume(c, Min(BlankLines(c.text)) + 1) EXCEPT !.gotheader = TRUE]

(* The header of an answer that is not a redirection.                      *)
GotHeader(c) ==
  LET h == Header(c)
  IN [Behind(c) EXCEPT
        !.code = h.code,
        !.has_length = h.kind = "length",
        !.content_len = IF h.kind = "length" THEN h.n ELSE @,
        !.chunked = h.kind = "chunked", !.has_chunked = h.kind = "chunked"]

Body(c) ==
  IF c.chunked THEN process_chunk(c)
  ELSE IF c.len > 0 THEN [c EXCEPT !.content = @ \o SubSeq(c.text, 1, c.len),
                                   !.stored = TRUE, !.len = 0]
  ELSE c

LastChunk(c) ==
  IF c.text = End
  THEN [c EXCEPT !.reading = FALSE, !.chunked = FALSE,
                 !.content_len = Len(c.content)]
  ELSE c

(* The content so far, which without a header is all that has arrived. If  *)
(* it is complete but nothing was ever stored, nobody is called.           *)
Content(c) ==
  LET d == LastChunk(Body(c)) IN
  IF \/ d.chunked
     \/ ~d.has_length /\ ~d.has_chunked
     \/ Len(d.content) < d.content_len
  THEN ReadOrClose([d EXCEPT !.reading = TRUE, !.error = FALSE])
  ELSE LET e == uv_timer_stop([d EXCEPT !.reading = FALSE])
       IN IF ~d.stored THEN ReadOrClose([d EXCEPT !.error = FALSE])
          ELSE IF e.called THEN ReadOrClose([e EXCEPT !.error = FALSE])
          ELSE Close(CallOnce(e, e.code, SubSeq(e.content, 1, e.content_len)))

(* The network cut the answer where the client loses its place: inside the *)
(* header; behind one that announces no chunks; in front of the line end   *)
(* of a chunk; or inside the line of a size that is not read together with *)
(* the chunk before it.                                                    *)
Cut(c) ==
  IF c.chunked
  THEN /\ c.chunksize = c.chunkread /\ c.text # <<>>
       /\ Is(c.text, "nl") \/ LineEnds(c.text) = {}
  ELSE ~c.gotheader \/ c.len = 0

read_cb(c) ==
  LET header == ~c.gotheader /\ BlankLines(c.text) # {}
      d == IF header THEN GotHeader(c) ELSE c
      h == [d EXCEPT !.cut = @ \/ Cut(d)]
  IN IF c.len = 0 THEN ReadOrClose(c)
     ELSE IF header /\ Header(c).code = 301
     THEN CallOnce(uv_timer_stop(Behind(c)), 301, <<>>)
     ELSE IF header /\ h.len = 0 /\ ~h.chunked
     THEN Close(CallOnce(uv_timer_stop(h), h.code, <<>>))
     ELSE Content(h)

write_cb(c) ==
  IF c.steps = "write"
  THEN [Poll!uv_custom_write(
          [c EXCEPT !.out = @ \o [i \in 1 .. ReqLen |-> "REQUEST"]])
        EXCEPT !.steps = "read"]
  ELSE Poll!uv_custom_read([c EXCEPT !.error = FALSE])

Loop == INSTANCE CustomPoll WITH close_cb <- http_client_close

(* The handler of the timer: called is read before the request is closed.  *)
timeout(c) ==
  LET d == http_client_close(uv_timer_stop(c))
      late == [d EXCEPT !.late = ~c.called /\ d.called]
  IN IF c.called THEN d ELSE plua_network_http_callback(late, 408, <<>>)

NoHeader == [t |-> "hdr", code |-> 0, kind |-> "none", n |-> 0]

prepare_request ==
  [kind |-> "http", obj |-> "live", answers |-> <<>>, misuse |-> {},
   steps |-> "write", reading |-> FALSE, error |-> TRUE, called |-> FALSE,
   code |-> 0, has_length |-> FALSE, has_chunked |-> FALSE, chunked |-> FALSE,
   chunksize |-> 0, chunkread |-> 0, gotheader |-> FALSE, content_len |-> 0,
   content |-> <<>>, stored |-> FALSE,   \* content is not NULL
   stack |-> NoHeader, timer |-> FALSE, listed |-> FALSE,
   late |-> FALSE,   \* the timer answered a request that had been answered
   cut |-> FALSE]

(* connects is FALSE when the socket cannot be connected at all.           *)
http_process(ssl, connects) ==
  LET c == uv_custom_poll_init(ssl) @@ prepare_request IN
  IF connects
  THEN Poll!uv_custom_write(http_client_add([c EXCEPT !.timer = TRUE]))
  ELSE CallOnce([c EXCEPT !.data = "null", !.handle = "none", !.closes = 1],
                404, <<>>)
=============================================================================
