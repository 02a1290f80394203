---------------------------- MODULE MCRadioLink -----------------------------
(* The requests made of each protocol: the bounds of its members, patterns  *)
(* that tell the digits apart, both states, "all" and a member out of range.*)
(* Left out are requests with which createCode leaves its arrays: a         *)
(* systemcode of logilink_switch above 1048575, a unit of quigg_gt9000      *)
(* above 15, and quigg_gt9000 without a state.                              *)
EXTENDS RadioLink

OnOff  == {"on", "off"}

UpDown == {"up", "down"}

ArctechRequests(states) ==
  {[id |-> i[1], unit |-> i[2], all |-> i[3], learn |-> -1, state |-> s] :
     i \in {<<1, 15, 0>>, <<67108863, 0, 0>>, <<44739242, 6, 0>>, <<12345678, -1, 1>>,
            <<67108864, 1, 0>>}, s \in states}

DimmerRequests ==
  {[id |-> i[1], unit |-> i[2], all |-> i[3], learn |-> -1, dimlevel |-> i[4], state |-> i[5],
    min |-> i[6], max |-> i[7]] :
     i \in {<<1, 15, 0, -1, "on", 0, 15>>, <<67108863, 0, 0, -1, "off", 2, 9>>,
            <<44739242, 6, 0, 0, "", 0, 15>>, <<12345678, 9, 0, 15, "on", 15, 15>>,
            <<7, -1, 1, 10, "", 2, 10>>, <<7, -1, 1, -1, "off", 0, 15>>, <<7, 1, 0, 3, "off", 0, 15>>,
            <<7, 1, 0, 10, "", 2, 9>>, <<7, 1, 0, 1, "", 2, 9>>}}

OldRequests(states) ==
  {[id |-> i[1], unit |-> i[2], state |-> s] :
     i \in {<<0, 15>>, <<31, 0>>, <<9, 5>>, <<32, 5>>}, s \in states}

IdRequests == {[id |-> i, state |-> s] : i \in {0, 1, 3, 7, 8}, s \in OnOff}

SystemRequests ==
  {[systemcode |-> i[1], unitcode |-> i[2], state |-> s] :
     i \in {<<0, 31>>, <<31, 0>>, <<9, 5>>, <<32, 5>>}, s \in OnOff}

Elro800Requests ==
  {[systemcode |-> i[1], unitcode |-> i[2], state |-> s] :
     i \in {<<0, 31>>, <<31, 0>>, <<992, 5>>, <<9 + 32 * 18, 5>>}, s \in OnOff}

ProgramRequests(codesSent) ==
  {[systemcode |-> i[1], programcode |-> i[2], state |-> s] : i \in codesSent, s \in OnOff}

CleverwattsRequests ==
  {[id |-> i[1], unit |-> i[2], all |-> i[3], state |-> s] :
     i \in {<<1, 3, 0>>, <<1048575, 0, 0>>, <<349525, 1, 0>>, <<77, -1, 1>>}, s \in OnOff}

DaycomRequests ==
  {[id |-> i[1], systemcode |-> i[2], unit |-> i[3], state |-> s] :
     i \in {<<0, 16383, 7>>, <<63, 0, 0>>, <<21, 4711, 3>>}, s \in OnOff}

QuiggRequests(states) ==
  {[id |-> i[1], unit |-> i[2], all |-> i[3], state |-> s] :
     i \in {<<0, 3, 0>>, <<4095, 0, 0>>, <<1365, 1, 0>>, <<2730, 2, 0>>, <<77, -1, 1>>},
     s \in states}

ConradRequests ==
  {[id |-> i[1], unit |-> i[2], all |-> i[3], state |-> s] :
     i \in {<<1, 1, 0>>, <<4, 4, 0>>, <<2, 3, 0>>, <<-1, 1, 1>>}, s \in OnOff}

X10Requests ==
  {[id |-> i, state |-> s] : i \in {<<"A", 1>>, <<"M", 16>>, <<"I", 4>>, <<"P", 11>>}, s \in OnOff}

MappedRequests(states) ==
  {[id |-> i[1], unit |-> i[2], all |-> i[3], state |-> s] :
     i \in {<<1, 4, 0>>, <<65535, 1, 0>>, <<43690, 2, 0>>, <<300, 3, 0>>, <<300, 0, 0>>, <<77, -1, 1>>},
     s \in states}

LogilinkRequests ==
  {[systemcode |-> i[1], unitcode |-> i[2], state |-> s] :
     i \in {<<0, 7>>, <<1048575, 0>>, <<699050, 3>>, <<4711, 5>>, <<9, 6>>, <<9, 1>>, <<9, 8>>},
     s \in OnOff}

Rc101Requests ==
  {[id |-> i[1], unit |-> i[2], all |-> i[3], state |-> s] :
     i \in {<<0, 5, 0>>, <<1048575, 6, 0>>, <<699050, 7, 0>>, <<77, -1, 1>>, <<77, 3, 0>>, <<77, -1, 0>>},
     s \in OnOff}

ClarusRequests ==
  {[id |-> i[1], unit |-> i[2], state |-> s] :
     i \in {<< <<"A", 1>>, 63 >>, << <<"B", 15>>, 0 >>, << <<"D", 9>>, 42 >>, << <<"A", 6>>, 21 >>,
            << <<"F", 31>>, 5 >>, << <<"G", 1>>, 5 >>}, s \in OnOff}

Elro300Requests ==
  {[systemcode |-> i[1], unitcode |-> i[2], all |-> i[3], state |-> s] :
     i \in {<< <<32768, 1>>, 63, 0 >>, << <<65535, 65535>>, 0, 0 >>, << <<43690, 21845>>, 37, 0 >>,
            << <<40000, 300>>, -1, 1 >>, << <<0, 21845>>, 37, 0 >>, << <<40000, 300>>, 100, 0 >>},
     s \in OnOff}

EurodomestRequests ==
  {[id |-> i[1], unit |-> i[2], all |-> i[3], learn |-> -1, state |-> s] :
     i \in {<<524288, 1, 0>>, <<1048575, 2, 0>>, <<699050, 3, 0>>, <<600000, 4, 0>>, <<600000, -1, 1>>,
            <<600000, 2, 1>>, <<9, 1, 0>>}, s \in OnOff}

(* Ids of both types of tables; the second group of digits must be 0.      *)
Gt9000Requests ==
  {[id |-> i[1], unit |-> i[2], state |-> s] :
     i \in {<<14 * 65536 + 2748, 2>>, <<65536 + 4095, 5>>, <<3 * 65536, 8>>, <<15 * 65536 + 291, 15>>,
            <<12 * 65536 + 2748, 0>>, <<4 * 65536 + 1110, 7>>, <<4096, 1>>}, s \in OnOff}

FirstRequests ==
  [p \in Protocols |->
     CASE p = "arctech_switch"     -> ArctechRequests(OnOff)
       [] p = "arctech_screen"     -> ArctechRequests(UpDown)
       [] p = "arctech_dimmer"     -> DimmerRequests
       [] p = "arctech_switch_old" -> OldRequests(OnOff)
       [] p = "arctech_screen_old" -> OldRequests(UpDown)
       [] p \in {"ehome", "selectremote"} -> IdRequests
       [] p \in {"heitech", "silvercrest", "pollin", "mumbi", "elro_400_switch"} -> SystemRequests
       [] p = "elro_800_switch"    -> Elro800Requests
       [] p = "impuls"             -> ProgramRequests({<<0, 31>>, <<31, 0>>, <<9, 5>>})
       [] p = "rsl366"             -> ProgramRequests({<<1, 4>>, <<4, 1>>})
       [] p = "cleverwatts"        -> CleverwattsRequests
       [] p = "daycom"             -> DaycomRequests
       [] p = "quigg_gt7000"       -> QuiggRequests(OnOff)
       [] p = "quigg_screen"       -> QuiggRequests(UpDown)
       [] p = "conrad_rsl_switch"  -> ConradRequests
       [] p = "x10"                -> X10Requests
       [] p = "techlico_switch"    -> MappedRequests(OnOff)
       [] p = "beamish_switch"     -> MappedRequests({"on", "off", ""})
       [] p = "logilink_switch"    -> LogilinkRequests
       [] p = "rc101"              -> Rc101Requests
       [] p = "clarus"             -> ClarusRequests
       [] p = "elro_300_switch"    -> Elro300Requests
       [] p = "eurodomest_switch"  -> EurodomestRequests
       [] p = "quigg_gt9000"       -> Gt9000Requests]

(* Any first request, then always the same one; of the two protocols that  *)
(* accept a request without making a code, such a request is the third.    *)
ThirdRequests(p) ==
  CASE p = "rc101" -> {c \in Rc101Requests : c.unit = 3}
    [] p = "elro_300_switch" -> {c \in Elro300Requests : c.unitcode = 100}
    [] OTHER -> {}

MCRequests ==
  [p \in Protocols |-> << FirstRequests[p], {CHOOSE c \in FirstRequests[p] : TRUE}, ThirdRequests(p) >>]

(* Every pulse of a checked digit, and one pulse that nothing checks.      *)
MCGarbledPulses == [p \in Protocols |-> CheckedPulses(p) \cup {23}]

(* No property speaks of what follows a use of the object by both at once. *)
Apart == ~ overlap
=============================================================================
