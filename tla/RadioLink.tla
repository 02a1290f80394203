----------------------------- MODULE RadioLink ------------------------------
(***************************************************************************)
(* One 433.92 MHz protocol object of the daemon, used by send_queue to     *)
(* create a code and by receive_parse_code to parse a received train of    *)
(* pulses (daemon.c).  Both work on the raw pointer, the rawlen and the    *)
(* message of the same object; send_queue holds sendqueue_lock, the        *)
(* receiver recvqueue_lock, so nothing keeps their steps apart.            *)
(*                                                                         *)
(* The air carries the last code sent; a receiver hears it as it was sent, *)
(* with one pulse garbled, or hears a train of another sender.             *)
(***************************************************************************)
EXTENDS RfSwitches

CONSTANTS Protocols,     \* the protocols one of which the object is
          Requests,        \* Requests[p][n]: what the n-th send request made of p may be
          GarbledPulses,   \* GarbledPulses[p]: bound: the pulses the air may garble
          NoiseLengths,    \* the lengths of trains of other senders
          BufferLength,    \* bound: pulses of a buffer that the model keeps
          SendLimit,       \* bound: the 1024 of sendqueue_number <= 1024
          MaxSends,        \* bound: calls of send_queue
          MaxReceives      \* bound: trains received

VARIABLES proto,         \* which protocol the object is
          rawref,        \* protocol->raw: to the sender's or the receiver's pulses
          raw,           \* the pulses of both
          rawlen,        \* protocol->rawlen
          message,       \* protocol->message
          spc, request,  \* where send_queue is, and the code it was given
          sendqueue,     \* codes that wait for send_code
          announced,     \* history: createCode made a code and a message of the request
          air,           \* the last code sent
          rpc, train,    \* where receive_parse_code is; where its node came from
          heard,         \* what became of the last train received
          sends, receives,
          overlap,       \* history: sender and receiver used the object at once
          leftover       \* history: a full queue left a message in the object

vars == << proto, rawref, raw, rawlen, message, spc, request, sendqueue, announced, air, rpc,
           train, heard, sends, receives, overlap, leftover >>

MAXPULSESTREAMLENGTH == 512

NoMessage == [none |-> TRUE]

NoRequest == [none |-> TRUE]

Buffer == 0 .. BufferLength - 1

Silence == [i \in Buffer |-> 0]

(* The hardware's train of another sender: equal pulses, no code.          *)
Noise(length) == [from |-> "noise", code |-> [i \in Buffer |-> 500], length |-> length,
                  message |-> NoMessage, own |-> FALSE]

NoPulse == -1

NoTrain == [from |-> "noise", message |-> NoMessage, own |-> FALSE, pulse |-> NoPulse]

(* A garbled pulse reaches the receiver as a short or as a long one.       *)
GarbledLengths == {1, 5000}

Garbled(node, k, pulse) == [node EXCEPT !.from = "garbled", !.code[k] = pulse]

(* protocol->createCode                                                    *)
createCode(p, c, pulses, length) ==
  CASE p = "arctech_switch"     -> arctech_switch_createCode(c, pulses, length)
    [] p = "arctech_screen"     -> arctech_screen_createCode(c, pulses, length)
    [] p = "arctech_dimmer"     -> arctech_dimmer_createCode(c, pulses, length)
    [] p = "arctech_switch_old" -> arctech_switch_old_createCode(c, pulses, length)
    [] p = "arctech_screen_old" -> arctech_screen_old_createCode(c, pulses, length)
    [] p = "ehome"              -> ehome_createCode(c, pulses, length)
    [] p = "selectremote"       -> selectremote_createCode(c, pulses, length)
    [] p = "heitech"            -> heitech_createCode(c, pulses, length)
    [] p = "silvercrest"        -> silvercrest_createCode(c, pulses, length)
    [] p = "pollin"             -> pollin_createCode(c, pulses, length)
    [] p = "mumbi"              -> mumbi_createCode(c, pulses, length)
    [] p = "elro_400_switch"    -> elro_400_switch_createCode(c, pulses, length)
    [] p = "elro_800_switch"    -> elro_800_switch_createCode(c, pulses, length)
    [] p = "impuls"             -> impuls_createCode(c, pulses, length)
    [] p = "rsl366"             -> rsl366_createCode(c, pulses, length)
    [] p = "cleverwatts"        -> cleverwatts_createCode(c, pulses, length)
    [] p = "daycom"             -> daycom_createCode(c, pulses, length)
    [] p = "quigg_gt7000"       -> quigg_gt7000_createCode(c, pulses, length)
    [] p = "quigg_screen"       -> quigg_screen_createCode(c, pulses, length)
    [] p = "conrad_rsl_switch"  -> conrad_rsl_switch_createCode(c, pulses, length)
    [] p = "x10"                -> x10_createCode(c, pulses, length)
    [] p = "techlico_switch"    -> techlico_switch_createCode(c, pulses, length)
    [] p = "beamish_switch"     -> beamish_switch_createCode(c, pulses, length)
    [] p = "logilink_switch"    -> logilink_switch_createCode(c, pulses, length)
    [] p = "rc101"              -> rc101_createCode(c, pulses, length)
    [] p = "clarus"             -> clarus_createCode(c, pulses, length)
    [] p = "elro_300_switch"    -> elro_300_switch_createCode(c, pulses, length)
    [] p = "eurodomest_switch"  -> eurodomest_switch_createCode(c, pulses, length)
    [] p = "quigg_gt9000"       -> quigg_gt9000_createCode(c, pulses, length)

(* protocol->validate() == 0                                               *)
validate(p, pulses, length) ==
  CASE p = "arctech_switch"     -> arctech_switch_validate(pulses, length)
    [] p = "arctech_screen"     -> arctech_screen_validate(pulses, length)
    [] p = "arctech_dimmer"     -> arctech_dimmer_validate(pulses, length)
    [] p = "arctech_switch_old" -> arctech_switch_old_validate(pulses, length)
    [] p = "arctech_screen_old" -> arctech_screen_old_validate(pulses, length)
    [] p = "ehome"              -> ehome_validate(pulses, length)
    [] p = "selectremote"       -> selectremote_validate(pulses, length)
    [] p = "heitech"            -> heitech_validate(pulses, length)
    [] p = "silvercrest"        -> silvercrest_validate(pulses, length)
    [] p = "pollin"             -> pollin_validate(pulses, length)
    [] p = "mumbi"              -> mumbi_validate(pulses, length)
    [] p = "elro_400_switch"    -> elro_400_switch_validate(pulses, length)
    [] p = "elro_800_switch"    -> elro_800_switch_validate(pulses, length)
    [] p = "impuls"             -> impuls_validate(pulses, length)
    [] p = "rsl366"             -> rsl366_validate(pulses, length)
    [] p = "cleverwatts"        -> cleverwatts_validate(pulses, length)
    [] p = "daycom"             -> daycom_validate(pulses, length)
    [] p = "quigg_gt7000"       -> quigg_gt7000_validate(pulses, length)
    [] p = "quigg_screen"       -> quigg_screen_validate(pulses, length)
    [] p = "conrad_rsl_switch"  -> conrad_rsl_switch_validate(pulses, length)
    [] p = "x10"                -> x10_validate(pulses, length)
    [] p = "techlico_switch"    -> techlico_switch_validate(pulses, length)
    [] p = "beamish_switch"     -> beamish_switch_validate(pulses, length)
    [] p = "logilink_switch"    -> logilink_switch_validate(pulses, length)
    [] p = "rc101"              -> rc101_validate(pulses, length)
    [] p = "clarus"             -> clarus_validate(pulses, length)
    [] p = "elro_300_switch"    -> elro_300_switch_validate(pulses, length)
    [] p = "eurodomest_switch"  -> eurodomest_switch_validate(pulses, length)
    [] p = "quigg_gt9000"       -> quigg_gt9000_validate(pulses, length)

(* protocol->parseCode: the message the object then holds                  *)
parseCode(p, pulses, length, old) ==
  CASE p = "arctech_switch"     -> arctech_switch_parseCode(pulses, length, old)
    [] p = "arctech_screen"     -> arctech_screen_parseCode(pulses, length, old)
    [] p = "arctech_dimmer"     -> arctech_dimmer_parseCode(pulses, length, old)
    [] p = "arctech_switch_old" -> arctech_switch_old_parseCode(pulses, length, old)
    [] p = "arctech_screen_old" -> arctech_screen_old_parseCode(pulses, length, old)
    [] p = "ehome"              -> ehome_parseCode(pulses, length, old)
    [] p = "selectremote"       -> selectremote_parseCode(pulses, length, old)
    [] p = "heitech"            -> heitech_parseCode(pulses, length, old)
    [] p = "silvercrest"        -> silvercrest_parseCode(pulses, length, old)
    [] p = "pollin"             -> pollin_parseCode(pulses, length, old)
    [] p = "mumbi"              -> mumbi_parseCode(pulses, length, old)
    [] p = "elro_400_switch"    -> elro_400_switch_parseCode(pulses, length, old)
    [] p = "elro_800_switch"    -> elro_800_switch_parseCode(pulses, length, old)
    [] p = "impuls"             -> impuls_parseCode(pulses, length, old)
    [] p = "rsl366"             -> rsl366_parseCode(pulses, length, old)
    [] p = "cleverwatts"        -> cleverwatts_parseCode(pulses, length, old)
    [] p = "daycom"             -> daycom_parseCode(pulses, length, old)
    [] p = "quigg_gt7000"       -> quigg_gt7000_parseCode(pulses, length, old)
    [] p = "quigg_screen"       -> quigg_screen_parseCode(pulses, length, old)
    [] p = "conrad_rsl_switch"  -> conrad_rsl_switch_parseCode(pulses, length, old)
    [] p = "x10"                -> x10_parseCode(pulses, length, old)
    [] p = "techlico_switch"    -> techlico_switch_parseCode(pulses, length, old)
    [] p = "beamish_switch"     -> beamish_switch_parseCode(pulses, length, old)
    [] p = "logilink_switch"    -> logilink_switch_parseCode(pulses, length, old)
    [] p = "rc101"              -> rc101_parseCode(pulses, length, old)
    [] p = "clarus"             -> clarus_parseCode(pulses, length, old)
    [] p = "elro_300_switch"    -> elro_300_switch_parseCode(pulses, length, old)
    [] p = "eurodomest_switch"  -> eurodomest_switch_parseCode(pulses, length, old)
    [] p = "quigg_gt9000"       -> quigg_gt9000_parseCode(pulses, length, old)

-----------------------------------------------------------------------------
Init ==
  /\ proto \in Protocols
  /\ rawref = "none"
  /\ raw = [who \in {"send", "recv"} |-> Silence]
  /\ rawlen = 0
  /\ message = NoMessage
  /\ spc = "idle" /\ request = NoRequest
  /\ sendqueue = <<>> /\ announced = FALSE
  /\ air = Noise(0)
  /\ rpc = "idle" /\ train = NoTrain
  /\ heard = [train |-> NoTrain, message |-> NoMessage, stale |-> FALSE]
  /\ sends = 0 /\ receives = 0
  /\ overlap = FALSE /\ leftover = FALSE

(* send_queue clears its pulses and points the protocol to them.           *)
SendBegin(c) ==
  /\ spc = "idle"
  /\ sends' = sends + 1
  /\ request' = c
  /\ raw' = [raw EXCEPT !["send"] = Silence]
  /\ rawref' = "send"
  /\ overlap' = (overlap \/ rpc # "idle")
  /\ spc' = "create"
  /\ UNCHANGED << proto, rawlen, message, sendqueue, announced, air, rpc, train, heard, receives,
                  leftover >>

(* createCode, through the protocol's pointer                              *)
SendCreate ==
  LET made == createCode(proto, request, raw[rawref], rawlen)
  IN  /\ spc = "create"
      /\ spc' = IF made.ok THEN "queue" ELSE "idle"
      /\ raw' = IF made.wrote THEN [raw EXCEPT ![rawref] = made.raw] ELSE raw
      /\ rawlen' = IF made.wrote THEN made.rawlen ELSE rawlen
      /\ message' = IF made.said THEN made.message ELSE message
      /\ leftover' = IF made.said THEN ~ made.ok ELSE leftover
      /\ announced' = made.said
      /\ UNCHANGED << proto, rawref, request, sendqueue, air, rpc, train, heard, sends,
                      receives, overlap >>

(* The code and the message go into the queue, unless it is full.  The     *)
(* daemon is running: main_loop, the other test, stays 1.                  *)
SendQueue ==
  /\ spc = "queue"
  /\ \/ /\ Len(sendqueue) <= SendLimit
        /\ sendqueue' = Append(sendqueue, [from |-> "pilight", code |-> raw[rawref],
                                           length |-> rawlen, message |-> message,
                                           own |-> announced])
        /\ message' = NoMessage
        /\ leftover' = FALSE
     \/ /\ Len(sendqueue) > SendLimit
        /\ leftover' = (message # NoMessage)
        /\ UNCHANGED << sendqueue, message >>
  /\ spc' = "idle"
  /\ UNCHANGED << proto, rawref, raw, rawlen, request, announced, air, rpc, train, heard, sends,
                  receives, overlap >>

(* send_code takes the next code, holding sendqueue_lock.                  *)
SendCode ==
  /\ spc = "idle" /\ sendqueue # <<>>
  /\ air' = Head(sendqueue)
  /\ sendqueue' = Tail(sendqueue)
  /\ UNCHANGED << proto, rawref, raw, rawlen, message, spc, request, announced, rpc, train, heard,
                  sends, receives, overlap, leftover >>

(* receive_parse_code points the protocol to the pulses of its node, of    *)
(* which the air may have garbled one.                                     *)
RecvBind(node, garbled) ==
  /\ rpc = "idle" /\ receives < MaxReceives
  /\ receives' = receives + 1
  /\ train' = [from |-> node.from, message |-> node.message, own |-> node.own, pulse |-> garbled]
  /\ raw' = [raw EXCEPT !["recv"] = node.code]
  /\ rawref' = IF node.length < MAXPULSESTREAMLENGTH THEN "recv" ELSE rawref
  /\ rawlen' = node.length
  /\ overlap' = (overlap \/ spc # "idle")
  /\ rpc' = "parse"
  /\ UNCHANGED << proto, message, spc, request, sendqueue, announced, air, heard, sends, leftover >>

Receive ==
  \/ \E length \in NoiseLengths : RecvBind(Noise(length), NoPulse)
  \/ /\ air.from = "pilight"
     /\ \/ RecvBind(air, NoPulse)
        \/ /\ heard.train.from # "garbled"   \* bound: no two garbled trains in a row
           /\ \E k \in GarbledPulses[proto], pulse \in GarbledLengths :
                 RecvBind(Garbled(air, k, pulse), k)

(* validate and, of a train that is the protocol's, parseCode              *)
RecvParse ==
  LET length == rawlen
      valid  == rawref # "none" /\ validate(proto, raw[rawref], length)
  IN  /\ rpc = "parse"
      /\ \/ /\ ~ valid
            /\ heard' = [train |-> train, message |-> NoMessage, stale |-> leftover]
            /\ rpc' = "idle"
            /\ UNCHANGED message
         \/ /\ valid
            /\ message' = parseCode(proto, raw[rawref], length, message)
            /\ rpc' = "message"
            /\ UNCHANGED heard
      /\ UNCHANGED << proto, rawref, raw, rawlen, spc, request, sendqueue, announced, air, train,
                      sends, receives, overlap, leftover >>

(* receiver_create_message broadcasts the protocol's message.              *)
RecvMessage ==
  /\ rpc = "message"
  /\ heard' = [train |-> train, message |-> message, stale |-> leftover]
  /\ message' = NoMessage
  /\ leftover' = FALSE
  /\ rpc' = "idle"
  /\ UNCHANGED << proto, rawref, raw, rawlen, spc, request, sendqueue, announced, air, train,
                  sends, receives, overlap >>

Next ==
  \/ sends < MaxSends /\ \E c \in Requests[proto][sends + 1] : SendBegin(c)
  \/ SendCreate \/ SendQueue \/ SendCode
  \/ Receive \/ RecvParse \/ RecvMessage

Spec == Init /\ [][Next]_vars

-----------------------------------------------------------------------------
(* Protocols whose parseCode reads the state digit the other way round     *)
(* than createState writes it, and one whose validate does not accept the  *)
(* footer its createFooter writes.                                         *)
Deviating == {"mumbi", "daycom", "logilink_switch", "rsl366"}

(* Announcements that the pulses of their protocol do not tell apart from  *)
(* others.  rc101: all, and the two codes that parseCode takes for all;    *)
(* clarus: a number whose digit at the place of the letter is 0, or a      *)
(* fifth digit or letter, which share a cell with the unit; elro_300: a    *)
(* system code of less than 32 digits, and a seventh digit of the unit;    *)
(* eurodomest: an id of less than 20 digits.                               *)
Ambiguous(p, sent) ==
  CASE p = "rc101"  -> \/ "all" \in DOMAIN sent
                       \/ << sent.unit, sent.state >> \in {<< 7, "on" >>, << 6, "off" >>}
    [] p = "clarus" -> \/ sent.id[1] \in {"E", "F"} \/ sent.id[2] > 15
                       \/ \A i \in 1 .. 4 : clarusLetters[i] = sent.id[1] => Bit(sent.id[2], i - 1) = 0
    [] p = "elro_300_switch"   -> \/ sent.systemcode[1] < 2^15
                                  \/ "unitcode" \in DOMAIN sent /\ sent.unitcode > 63
    [] p = "eurodomest_switch" -> sent.id < 2^19
    [] OTHER -> FALSE

(* The members of an announcement that its pulses carry: techlico_switch   *)
(* and beamish_switch send no state of a unit.                             *)
Carried(p, sent) ==
  IF p \in {"techlico_switch", "beamish_switch"} /\ "unit" \in DOMAIN sent
  THEN DOMAIN sent \ {"state"} ELSE DOMAIN sent

(* The pulses of digits that parseCode and validate check.  All of         *)
(* arctech_switch_old and eurodomest_switch, whose digits are pairs of     *)
(* different pulses, and of x10, whose bytes come with their complement;   *)
(* the digits under the parity of quigg_gt7000 and quigg_screen, the       *)
(* parity and the footer; the state and its complement, and the footer, of *)
(* heitech, silvercrest and elro_800_switch; all of elro_300_switch but    *)
(* the system code and the unit.  No other protocol checks its digits.     *)
CheckedPulses(p) ==
  CASE p \in {"arctech_switch_old", "eurodomest_switch"} -> 0 .. 49
    [] p = "x10" -> 0 .. 67
    [] p \in {"quigg_gt7000", "quigg_screen"} -> 24 .. 41
    [] p \in {"heitech", "silvercrest", "elro_800_switch"} -> 40 .. 49
    [] p = "elro_300_switch" -> (0 .. 22) \cup (86 .. 102) \cup {114, 115}
    [] OTHER -> {}

(* What createCode makes of a request, the same protocol's validate        *)
(* accepts and its parseCode turns back into the message that was          *)
(* announced for the request, whatever was sent or received before; as     *)
(* long as sender and receiver did not use the protocol object at once.    *)
(* Excepted are the protocols and announcements above, and requests that   *)
(* rc101 and elro_300_switch accept without making a code: send_queue then *)
(* queues cleared pulses, with what message the object happened to hold.   *)
RoundTrip ==
  LET sent == heard.train.message
  IN  /\ ~ overlap /\ heard.train.from = "pilight" /\ heard.train.own
      /\ proto \notin Deviating /\ ~ Ambiguous(proto, sent)
      => heard.message = [k \in Carried(proto, sent) |-> sent[k]]

(* A train of which one pulse of a checked digit was garbled is dropped or *)
(* still heard as the message that was sent.  Nothing is said of a pulse   *)
(* of a digit that no check covers: it may well be heard as another        *)
(* message.  A message that a full send queue, or a createCode that        *)
(* failed, left in the protocol object is excepted: a parseCode that makes *)
(* no message lets receiver_create_message broadcast that one.             *)
GarbleNoticed ==
  LET sent == heard.train.message
  IN  /\ ~ overlap /\ ~ heard.stale /\ heard.train.from = "garbled" /\ heard.train.own
      /\ heard.train.pulse \in CheckedPulses(proto) /\ ~ Ambiguous(proto, sent)
      => heard.message \in {NoMessage, [k \in Carried(proto, sent) |-> sent[k]]}

(* Every pulse of a queued code was written by createCode: clearCode, the  *)
(* digits and the footer leave no gap in rawlen pulses of the cleared      *)
(* buffer of send_queue, whatever rawlen was before.  Excepted are         *)
(* logilink_switch, whose clearCode covers as many pulses as the train     *)
(* before had, an id of eurodomest_switch with less than 20 digits, and    *)
(* requests that rc101 and elro_300_switch accept without making a code.   *)
CodeComplete ==
  ~ overlap /\ proto # "logilink_switch" =>
    \A i \in DOMAIN sendqueue :
       LET node == sendqueue[i]
       IN  node.own /\ ~ (proto = "eurodomest_switch" /\ node.message.id < 2^19)
           => \A k \in 0 .. node.length - 1 : node.code[k] > 0
=============================================================================
