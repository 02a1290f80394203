---------------------------- MODULE MCNetClients ----------------------------
(***************************************************************************)
(* Instances of NetClients: the answers of the web server.                 *)
(***************************************************************************)
EXTENDS NetClients

Nl == [t |-> "nl"]
Digit(n) == [t |-> "digit", v |-> n]
Data(i) == [t |-> "data", v |-> i]
Hdr(code, kind, n) ==
  <<[t |-> "hdr", code |-> code, kind |-> kind, n |-> n], Nl, Nl>>

(* Content with its length, in chunks (the size of the second has two      *)
(* digits), or up to the end of the connection; a redirection with content.*)
MCAnswers ==
  {Hdr(200, "length", 2) \o <<Data(1), Data(2)>>,
   Hdr(200, "none", 0) \o <<Data(1), Data(2)>>,
   Hdr(200, "chunked", 0)
     \o <<Digit(2), Nl, Data(1), Data(2), Nl,
          Digit(0), Digit(1), Nl, Data(3), Nl, Digit(0), Nl, Nl>>,
   Hdr(301, "none", 0) \o <<Data(1)>>}
=============================================================================
