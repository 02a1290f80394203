--------------------------- MODULE MCEventsQueue ----------------------------
(* Instances of EventsClient for TLC.                                      *)
EXTENDS EventsClient

MCLength == <<4, 3, 1, 1, 1, 1>>
MCWriters == {"broadcast", "socket"}
MCReaders == {"client", "socket"}
=============================================================================
