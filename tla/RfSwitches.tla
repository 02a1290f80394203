----------------------------- MODULE RfSwitches -----------------------------
(***************************************************************************)
(* createCode, validate and parseCode of the switch protocols that do more *)
(* than write the digits of their members: they look a digit group up in a *)
(* table, encrypt it, leave pulses to what was there before, or return     *)
(* success without having created a code.  Conventions as in RfProtocols.  *)
(***************************************************************************)
EXTENDS RfProtocols

LOCAL INSTANCE Bitwise

-----------------------------------------------------------------------------
(* techlico_switch and beamish_switch: 16 digits of id and 8 that a table  *)
(* gives for the unit.                                                     *)

techlico_switch_map == [unit \in 0 .. 4 |-> << 0, 3, 192, 15, 12 >>[unit + 1]]

beamish_switch_map  == [unit \in 0 .. 6 |-> << 0, 192, 48, 12, 3, 15, 195 >>[unit + 1]]

(* clearCode, createId, createUnit and createFooter                        *)
MappedCode(raw, id, code, avg, multiplier) ==
  Written(raw, Cells(0, 47, Up(avg, multiplier * avg))
                 \o Number(id, 30, -2, Down(avg, multiplier * avg))
                 \o Number(code, 46, -2, Down(avg, multiplier * avg)) \o ShortFooter(avg))

(* The first unit of the table that has the code, -1 if none has.          *)
MappedUnit(map, code) ==
  LET units == {unit \in DOMAIN map : map[unit] = code}
  IN  IF units = {} THEN -1 ELSE Min(units)

techlico_switch_createCode(c, raw, rawlen) ==
  IF \/ c.id = -1 \/ c.unit = -1 \/ c.state = ""
     \/ c.id > 65535 \/ c.id < 1 \/ c.unit > 4 \/ c.unit < 1
  THEN Refused
  ELSE Made(MappedCode(raw, c.id, techlico_switch_map[c.unit], 208, 3),
            50, [id |-> c.id, unit |-> c.unit, state |-> c.state])

techlico_switch_validate(raw, rawlen) == Footer(raw, rawlen, 50, 203 * PULSE_DIV, 213 * PULSE_DIV)

(* No pulse tells the state: the message has none.                         *)
techlico_switch_parseCode(raw, rawlen, message) ==
  LET binary == Digits(raw, 0, 2, 25, 312)
      unit   == MappedUnit(techlico_switch_map, binToDecRev(binary, 16, 23))
  IN  IF unit > -1 THEN [id |-> binToDecRev(binary, 0, 15), unit |-> unit] ELSE message

(* A single unit is toggled: only "all" has a state, in its own two codes. *)
BeamishMessage(id, unit, all, state) ==
  (IF all = 1 THEN [id |-> id, all |-> 1] ELSE [id |-> id, unit |-> unit])
    @@ (IF state = "" THEN <<>> ELSE [state |-> state])

beamish_switch_createCode(c, raw, rawlen) ==
  LET unit == IF c.all = 0 THEN c.unit ELSE IF c.state = "on" THEN 5 ELSE 6
  IN  IF \/ c.id = -1 \/ (c.unit = -1 /\ c.all = 0) \/ (c.state = "" /\ c.all = 1)
         \/ c.id > 65535 \/ c.id < 1
         \/ (c.unit > 4 \/ c.unit < 1) /\ c.all = 0
      THEN Refused
      ELSE Made(MappedCode(raw, c.id, beamish_switch_map[unit], 323, 4),
                50, BeamishMessage(c.id, unit, c.all, c.state))

beamish_switch_validate(raw, rawlen) == Footer(raw, rawlen, 50, 318 * PULSE_DIV, 328 * PULSE_DIV)

beamish_switch_parseCode(raw, rawlen, message) ==
  LET binary == Digits(raw, 0, 2, 25, 646)
      unit   == MappedUnit(beamish_switch_map, binToDecRev(binary, 16, 23))
  IN  BeamishMessage(binToDecRev(binary, 0, 15), unit, IF unit \in {5, 6} THEN 1 ELSE 0,
                     CASE unit = 5 -> "on" [] unit = 6 -> "off" [] OTHER -> "")

-----------------------------------------------------------------------------
(* logilink_switch: clearCode covers rawlen pulses, the rawlen that the    *)
(* last code or train left; parseCode reads the state digit the other way  *)
(* round.  Units other than the five of createUnitCode are sent as 0.  The *)
(* code accepts a 21st digit of the systemcode too, which createSystemCode *)
(* writes in front of the pulses: that is left out.                        *)

LogilinkUnit(unit, low, high) ==
  CASE unit = 7 -> Cells(42, 47, high)
    [] unit = 3 -> Cells(42, 43, low) \o Cells(44, 47, high)
    [] unit = 5 -> Cells(42, 43, high) \o Cells(44, 45, low) \o Cells(46, 47, high)
    [] unit = 6 -> Cells(42, 45, high) \o Cells(46, 47, low)
    [] unit = 0 -> Cells(42, 47, low)
    [] OTHER -> <<>>

logilink_switch_createCode(c, raw, rawlen) ==
  LET low  == Up(284, 3 * 284)
      high == Down(284, 3 * 284)
  IN  IF ~ InRange(c.systemcode, 2097151) \/ ~ InRange(c.unitcode, 7) \/ c.state = "" THEN Refused
      ELSE Made(Written(raw, Cells(0, rawlen - 2, low) \o Number(c.systemcode, 38, -2, high)
                               \o LogilinkUnit(c.unitcode, low, high)
                               \o Cells(40, 41, IF c.state = "off" THEN low ELSE high)
                               \o ShortFooter(284)),
                50, SystemMessage(c.systemcode, c.unitcode, c.state))

logilink_switch_validate(raw, rawlen) == Footer(raw, rawlen, 50, 279 * PULSE_DIV, 289 * PULSE_DIV)

logilink_switch_parseCode(raw, rawlen, message) ==
  LET binary == Digits(raw, 0, 2, 25, 426)
  IN  SystemMessage(binToDecRev(binary, 0, 19), binToDecRev(binary, 21, 23),
                    IF binary[20] = 0 THEN "on" ELSE "off")

-----------------------------------------------------------------------------
(* rc101: a request for all is turned into unit 6 and state off and, by    *)
(* the test that follows, into unit 7 and state on; for the units 0 .. 4   *)
(* createCode returns success and creates nothing.                         *)

rc101_createCode(c, raw, rawlen) ==
  LET all   == c.all = 1 /\ c.state # ""
      unit  == IF all THEN 7 ELSE c.unit
      state == IF all THEN "on" ELSE c.state
      high  == Down(241, 3 * 241)
  IN  IF ~ InRange(c.id, 1048575) \/ c.state = "" \/ unit = -1 THEN Refused
      ELSE IF unit <= 4 /\ unit >= 0 THEN Ignored
      ELSE Made(Written(raw, Cells(0, 63, Up(241, 3 * 241)) \o Number(c.id, 0, 2, high)
                               \o When(state = "on", Cells(40, 41, high))
                               \o When(unit > -1, Number(7 - unit, 42, 2, high))
                               \o Cells(64, 65, << 241, PULSE_DIV * 241 >>)),
                66, ArctechMessage(c.id, unit, c.all, state))

rc101_validate(raw, rawlen) == Footer(raw, rawlen, 66, 236 * PULSE_DIV, 246 * PULSE_DIV)

rc101_parseCode(raw, rawlen, message) ==
  LET binary == Digits(raw, 0, 2, 33, 361)
      unit   == 7 - binToDec(binary, 21, 23)
      off    == unit = 7 /\ binary[20] = 1
      on     == unit = 6 /\ binary[20] = 0
  IN  ArctechMessage(binToDec(binary, 0, 19), unit, IF off \/ on THEN 1 ELSE 0,
                     IF on \/ (binary[20] = 1 /\ ~ off) THEN "on" ELSE "off")

-----------------------------------------------------------------------------
(* clarus: six cells for the unit, four for the number of the id, and the  *)
(* letter is the place of an inverted cell, which takes the place of a     *)
(* digit of the number and is read as a digit 1.  An id is a letter and a  *)
(* number; the string that parseCode makes of it is not modelled.          *)

clarusLetters == << "A", "B", "C", "D", "E", "F" >>

clarus_createCode(c, raw, rawlen) ==
  LET l == CHOOSE i \in DOMAIN clarusLetters : clarusLetters[i] = c.id[1]
  IN  IF \/ c.id = <<>> \/ c.unit = -1 \/ c.state = ""
         \/ ~ \E i \in DOMAIN clarusLetters : clarusLetters[i] = c.id[1]
         \/ c.id[2] < 0 \/ c.id[2] > 31 \/ c.unit > 63 \/ c.unit < 0
      THEN Refused
      ELSE Made(Written(raw, Cells(0, 47, Falling(180)) \o Number(c.unit, 20, -4, Rising(180))
                               \o Number(c.id[2], 36, -4, Rising(180))
                               \o Cells(36 - 4 * (l - 1), 39 - 4 * (l - 1), Inverted(180))
                               \o (IF c.state = "off"
                                   THEN Cells(40, 43, Inverted(180)) \o Cells(44, 47, Rising(180))
                                   ELSE Cells(40, 43, Rising(180)) \o Cells(44, 47, Inverted(180)))
                               \o ShortFooter(180)),
                50, [id |-> c.id, unit |-> c.unit, state |-> c.state])

clarus_validate(raw, rawlen) == Footer(raw, rawlen, 50, 160 * PULSE_DIV, 200 * PULSE_DIV)

clarus_parseCode(raw, rawlen, message) ==
  LET binary   == [i \in 0 .. 11 |-> IF raw[4 * i + 3] > 270 THEN 1
                                     ELSE IF raw[4 * i] > 270 THEN 2 ELSE 0]
      inverted == {x \in 5 .. 9 : binary[x] = 2}
      letter   == IF inverted = {} THEN 6 ELSE 10 - Max(inverted)
  IN  [id |-> << clarusLetters[letter], binToDecRev(binary, 6, 9) >>,
       unit |-> binToDecRev(binary, 0, 5), state |-> IF binary[11] = 2 THEN "on" ELSE "off"]

-----------------------------------------------------------------------------
(* elro_300_switch: a system code of 32 digits, here its upper and lower   *)
(* 16.  createSystemCode writes it from its first digit 1 on, so that only *)
(* one that has all 32 digits ends where parseCode expects its end.  The   *)
(* seventh digit of a unit code falls on the footer, which overwrites it.  *)

Elro300High == << 302, 4 * 302 >>

Elro300Low  == << 302, 302 >>

Elro300System(systemcode) ==
  LET upper == systemcode[1]
      lower == systemcode[2]
      first == 22 + 2 * ((IF upper > 0 THEN 16 + Width(upper) ELSE Width(lower)) - 1)
  IN  Number(lower, first, -2, Elro300High) \o Number(upper, first - 32, -2, Elro300High)

Elro300Group(all) ==
  IF all = 1
  THEN Cells(86, 89, Elro300High) \o Cells(90, 93, Elro300Low) \o Cells(98, 101, Elro300High)
  ELSE Cells(86, 87, Elro300High) \o Cells(88, 89, Elro300Low) \o Cells(90, 93, Elro300High)
         \o Cells(98, 99, Elro300Low) \o Cells(100, 101, Elro300High)

Elro300Message(systemcode, unitcode, state, all) ==
  IF all = 1 THEN [systemcode |-> systemcode, all |-> 1, state |-> state]
             ELSE [systemcode |-> systemcode, unitcode |-> unitcode, state |-> state]

(* Values out of range are logged and reported as success.                 *)
elro_300_switch_createCode(c, raw, rawlen) ==
  LET unitcode == IF c.all = 1 THEN 56 ELSE c.unitcode
      state    == IF c.state = "on" THEN Cells(94, 95, Elro300High) \o Cells(96, 97, Elro300Low)
                  ELSE Cells(94, 95, Elro300Low) \o Cells(96, 97, Elro300High)
  IN  IF c.systemcode = << 0, 0 >> \/ unitcode = -1 \/ c.state = "" THEN Refused
      ELSE IF c.systemcode[1] > 65535 \/ unitcode > 99 \/ unitcode < 0 THEN Ignored
      ELSE Made(Written(raw, Cells(0, 116, Elro300Low) \o Cells(0, 3, Elro300High)
                               \o Cells(4, 9, Elro300Low) \o Cells(10, 17, Elro300High)
                               \o Cells(18, 21, Elro300Low) \o Elro300System(c.systemcode)
                               \o Elro300Group(c.all) \o state
                               \o Number(unitcode, 102, 2, Elro300High)
                               \o Cells(114, 115, << 302, PULSE_DIV * 302 >>)),
                116, Elro300Message(c.systemcode, unitcode, c.state, c.all))

elro_300_switch_validate(raw, rawlen) ==
  Footer(raw, rawlen, 116, 297 * PULSE_DIV, 307 * PULSE_DIV)

(* Every first pulse of a cell must be short, the group digits those of a  *)
(* unit or of all, and the two state digits must differ.                   *)
elro_300_switch_parseCode(raw, rawlen, message) ==
  LET first  == Digits(raw, 0, 2, 58, 604)
      binary == Digits(raw, 1, 2, 58, 604)
      group  == << binToDec(binary, 43, 46), binToDec(binary, 49, 50) >>
      state  == binToDec(binary, 47, 48)
  IN  IF \/ \E i \in DOMAIN first : first[i] = 1
         \/ group \notin {<< 13, 2 >>, << 3, 3 >>} \/ state \notin {1, 2}
      THEN message
      ELSE Elro300Message(<< binToDecRev(binary, 11, 26), binToDecRev(binary, 27, 42) >>,
                          binToDec(binary, 51, 56), IF state = 1 THEN "on" ELSE "off",
                          IF group = << 3, 3 >> THEN 1 ELSE 0)

-----------------------------------------------------------------------------
(* eurodomest_switch: nothing is cleared first, and createId writes the    *)
(* digits that the id has; an id of less than 20 digits leaves a gap.  The *)
(* last four digits tell the unit, the state and all.                      *)

EurodomestLow  == << 868, 280 >>

EurodomestHigh == << 280, 868 >>

(* The last four digits and what they stand for.                           *)
EurodomestCommands ==
  { << << 0, 0, 0, 1 >>, 1, 0, "off" >>, << << 0, 0, 0, 0 >>, 1, 0, "on" >>,
    << << 0, 0, 1, 1 >>, 2, 0, "off" >>, << << 0, 0, 1, 0 >>, 2, 0, "on" >>,
    << << 0, 1, 0, 1 >>, 3, 0, "off" >>, << << 0, 1, 0, 0 >>, 3, 0, "on" >>,
    << << 1, 0, 0, 1 >>, 4, 0, "off" >>, << << 1, 0, 0, 0 >>, 4, 0, "on" >>,
    << << 1, 1, 1, 0 >>, 0, 1, "off" >>, << << 1, 1, 0, 1 >>, 0, 1, "on" >> }

EurodomestDigits(digits) ==
  [i \in DOMAIN digits |->
     Run(38 + 2 * i, 39 + 2 * i, IF digits[i] = 1 THEN EurodomestHigh ELSE EurodomestLow)]

(* A combination of unit, state and all that has no code is noticed after  *)
(* createMessage and createId.                                             *)
eurodomest_switch_createCode(c, raw, rawlen) ==
  LET unit     == IF c.unit = -1 /\ c.all = 1 THEN 0 ELSE c.unit
      message  == ArctechMessage(c.id, unit, c.all, c.state)
      id       == Cells(0, 2 * Width(c.id) - 1, EurodomestLow) \o Number(c.id, 0, 2, EurodomestHigh)
      commands == {command \in EurodomestCommands : Tail(command) = << unit, c.all, c.state >>}
  IN  IF \/ c.all > 0 /\ c.learn > -1
         \/ c.id = -1 \/ (c.unit = -1 /\ c.all = 0) \/ c.state = ""
         \/ c.id > 1048575 \/ c.id < 0
         \/ (c.unit > 4 \/ c.unit < 1) /\ c.all = 0
      THEN Refused
      ELSE IF commands = {} THEN Failed(Made(Written(raw, id), rawlen, message), TRUE)
      ELSE Made(Written(raw, id \o EurodomestDigits((CHOOSE command \in commands : TRUE)[1])
                               \o Cells(48, 49, << 280, 9660 >>)), 50, message)

eurodomest_switch_validate(raw, rawlen) == Footer(raw, rawlen, 50, 9594, 9793)

(* Every cell must be one of the two cells the protocol knows, within the  *)
(* jitter of MIN_ and MAX_PULSE_LENGTH.                                    *)
eurodomest_switch_parseCode(raw, rawlen, message) ==
  LET short(k)  == raw[k] >= 214 /\ raw[k] <= 413
      medium(k) == raw[k] >= 802 /\ raw[k] <= 1001
      zero(i)   == medium(2 * i) /\ short(2 * i + 1)
      one(i)    == short(2 * i) /\ medium(2 * i + 1)
      binary    == [i \in 0 .. 23 |-> IF one(i) THEN 1 ELSE 0]
      commands  == {command \in EurodomestCommands :
                      command[1] = << binary[20], binary[21], binary[22], binary[23] >>}
      command   == CHOOSE command \in commands : TRUE
  IN  IF (\E i \in 0 .. 23 : ~ zero(i) /\ ~ one(i)) \/ commands = {} THEN message
      ELSE ArctechMessage(binToDec(binary, 0, 19), command[2], command[3], command[4])

-----------------------------------------------------------------------------
(* quigg_gt9000: four digits of the id are sent as they are, four choose   *)
(* one of sixteen codes, and the other three groups of four are each       *)
(* combined with a table entry of the group before.  Which of the sixteen  *)
(* is sent tells the state: its last group.  The binary member that only a *)
(* received message has is left out, and so are requests without a state   *)
(* or with a unit above 15, which index outside the tables.                *)

gt9000_hash  == << 0, 9, 15, 4, 10, 13, 5, 11, 3, 2, 1, 7, 14, 6, 12, 8 >>

gt9000_hash2 == << 0, 9, 5, 15, 3, 6, 12, 7, 14, 13, 1, 11, 2, 10, 4, 8 >>

(* The last groups that stand for off and on, of four units each.          *)
gt9000_unit_offon_map ==
  << << << 8, 2, 11, 7 >>, << 10, 6, 1, 5 >> >>, << << 10, 6, 1, 5 >>, << 8, 2, 11, 7 >> >>,
     << << 4, 9, 12, 13 >>, << 0, 3, 14, 15 >> >>, << << 0, 3, 14, 15 >>, << 4, 9, 12, 13 >> >> >>

gt9000_unit_offon_map2 ==
  << << << 1, 2, 9, 10 >>, << 3, 4, 7, 11 >> >>, << << 3, 4, 7, 11 >>, << 1, 2, 9, 10 >> >>,
     << << -1, -1, -1, -1 >>, << -1, -1, -1, -1 >> >>,
     << << -1, -1, -1, -1 >>, << -1, -1, -1, -1 >> >> >>

isSyscodeType1(syscodetype) == syscodetype % 4 # 0

(* decodePayload, and its inverse in initAllCodes                          *)
Gt9000Mix(payload, index, syscodetype) ==
  payload ^^ (IF isSyscodeType1(syscodetype) THEN gt9000_hash ELSE gt9000_hash2)[index + 1]

Gt9000States(unit, syscodetype) ==
  (IF isSyscodeType1(syscodetype) THEN gt9000_unit_offon_map
                                  ELSE gt9000_unit_offon_map2)[unit \div 4 + 1]

(* Group n of four digits of a code of twenty, the first one is 1.         *)
Group(code, n) == (code \div 16^(5 - n)) % 16

(* The entries of allcodes: the code of each choice i of the second group. *)
Gt9000Codes(systemcode) ==
  LET type     == Group(systemcode, 1)
      third(i) == Gt9000Mix(Group(systemcode, 3), i, type)
      fourth(i) == Gt9000Mix(Group(systemcode, 4), third(i), type)
      fifth(i) == Gt9000Mix(Group(systemcode, 5), fourth(i), type)
  IN  {65536 * type + 4096 * i + 256 * third(i) + 16 * fourth(i) + fifth(i) : i \in 0 .. 15}

Gt9000Digits(raw) == [i \in 0 .. 24 |-> IF raw[2 * i + 1] > 750 THEN 0 ELSE 1]

parseSystemcode(binary) ==
  LET group(n) == binToDecRev(binary, 4 * n - 4, 4 * n - 1)
      plain(n) == Gt9000Mix(group(n), group(n - 1), group(1))
  IN  65536 * group(1) + 256 * plain(3) + 16 * plain(4) + plain(5)

quigg_gt9000_createCode(c, raw, rawlen) ==
  LET one       == Down(500, 1100)
      statecode == Gt9000States(c.unit, Group(c.id, 1))[[off |-> 1, on |-> 2][c.state]][2]
      encrypted == CHOOSE code \in Gt9000Codes(c.id) : code % 16 = statecode
      pulses    == Written(raw, Cells(0, 47, Up(500, 1100)) \o Number(encrypted, 38, -2, one)
                                  \o Number(c.unit, 40, 2, one) \o Cells(48, 49, << 3000, 7000 >>))
      message   == [id |-> c.id, unit |-> c.unit, state |-> c.state]
  IN  IF c.id = -1 \/ c.unit < 0 THEN Refused
      ELSE IF statecode = -1 THEN Failed(Made(raw, 50, message), FALSE)
      ELSE IF parseSystemcode(Gt9000Digits(pulses)) # c.id
           THEN Failed(Made(pulses, 50, message), FALSE)
      ELSE Made(pulses, 50, message)

quigg_gt9000_validate(raw, rawlen) ==
  Footer(raw, rawlen, 50, 6300, 7700) /\ raw[48] >= 2700 /\ raw[48] <= 3300

quigg_gt9000_parseCode(raw, rawlen, message) ==
  LET binary == Gt9000Digits(raw)
      unit   == binToDec(binary, 20, 23)
      on     == Gt9000States(unit, binToDecRev(binary, 0, 3))[2]
      state  == binToDecRev(binary, 16, 19)
  IN  [id |-> parseSystemcode(binary), unit |-> unit,
       state |-> IF \E i \in DOMAIN on : on[i] = state THEN "on" ELSE "off"]
=============================================================================
