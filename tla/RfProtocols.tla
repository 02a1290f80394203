---------------------------- MODULE RfProtocols -----------------------------
(***************************************************************************)
(* createCode, validate and parseCode of switch, screen and dimmer         *)
(* protocols (protocols/433.92).  Each protocol has its own file; a        *)
(* definition carries the name of the protocol and of the function.        *)
(*                                                                         *)
(* A request c is the code object of a send request: a record with the     *)
(* members the protocol looks for, where -1, or "" for the state, stands   *)
(* for a member that is not given.  createCode yields Refused or the       *)
(* pulses, their number and the message; parseCode yields the message it   *)
(* leaves in the protocol object: the one it was given if it makes none.   *)
(***************************************************************************)
EXTENDS RfPulses

-----------------------------------------------------------------------------
(* arctech_switch, arctech_screen and arctech_dimmer: 26 digits of id, one *)
(* for all, one for the state, four for the unit, four for the dimlevel.   *)

ArctechAccepts(c) ==
  /\ ~ (c.all > 0 /\ c.learn > -1)
  /\ c.id # -1 /\ (c.unit # -1 \/ c.all # 0)
  /\ c.id <= 67108863 /\ c.id >= 1
  /\ (c.unit <= 15 /\ c.unit >= 0) \/ c.all # 0

ArctechUnit(c) == IF c.unit = -1 /\ c.all = 1 THEN 0 ELSE c.unit

ArctechMessage(id, unit, all, state) ==
  IF all = 1 THEN [id |-> id, all |-> all, state |-> state]
             ELSE [id |-> id, unit |-> unit, state |-> state]

ArctechLow(avg, multiplier)  == << avg, avg, avg, avg * multiplier >>

ArctechHigh(avg, multiplier) == << avg, avg * multiplier, avg, avg >>

(* createStart, clearCode, createId and createAll                          *)
ArctechHead(c, avg, start, cleared, low, high) ==
  Cells(0, 1, << avg, start * avg >>) \o Cells(2, cleared, low)
    \o Number(c.id, 102, -4, high) \o When(c.all = 1, Cells(106, 109, high))

arctech_switch_createCode(c, raw, rawlen) ==
  LET low  == ArctechLow(315, 4)
      high == ArctechHigh(315, 4)
      unit == ArctechUnit(c)
  IN  IF ~ ArctechAccepts(c) \/ c.state = "" THEN Refused
      ELSE Made(Written(raw, ArctechHead(c, 315, 9, 131, low, high)
                               \o When(c.state = "on", Cells(110, 113, high))
                               \o Number(unit, 126, -4, high)
                               \o Cells(131, 131, << PULSE_DIV * 315 >>)),
                132, ArctechMessage(c.id, unit, c.all, c.state))

arctech_switch_validate(raw, rawlen) ==
  Footer(raw, rawlen, 132, 250 * PULSE_DIV, 320 * PULSE_DIV) /\ raw[1] >= 315 * 6

arctech_switch_parseCode(raw, rawlen, message) ==
  LET binary == Digits(raw, 3, 4, 33, 630)
  IN  ArctechMessage(binToDecRev(binary, 0, 25), binToDecRev(binary, 28, 31), binary[26],
                     IF binary[27] = 1 THEN "on" ELSE "off")

arctech_screen_createCode(c, raw, rawlen) ==
  LET low  == ArctechLow(300, 5)
      high == ArctechHigh(300, 5)
      unit == ArctechUnit(c)
  IN  IF ~ ArctechAccepts(c) \/ c.state = "" THEN Refused
      ELSE Made(Written(raw, ArctechHead(c, 300, 9, 132, low, high)
                               \o When(c.state = "up", Cells(110, 113, high))
                               \o Number(unit, 126, -4, high)
                               \o Cells(131, 131, << PULSE_DIV * 300 >>)),
                132, ArctechMessage(c.id, unit, c.all, c.state))

arctech_screen_validate(raw, rawlen) ==
  Footer(raw, rawlen, 132, 250 * PULSE_DIV, 320 * PULSE_DIV) /\ raw[1] >= 2250

arctech_screen_parseCode(raw, rawlen, message) ==
  LET binary == Digits(raw, 3, 4, 33, 750)
  IN  ArctechMessage(binToDecRev(binary, 0, 25), binToDecRev(binary, 28, 31), binary[26],
                     IF binary[27] = 1 THEN "up" ELSE "down")

(* A dimlevel is sent in four more digits, and the state digit then has a  *)
(* cell of its own.                                                        *)
DimmerMessage(id, unit, all, dimlevel, state) ==
  LET message == ArctechMessage(id, unit, all, IF dimlevel >= 0 THEN "on" ELSE state)
  IN  IF dimlevel >= 0 THEN message @@ [dimlevel |-> dimlevel] ELSE message

arctech_dimmer_createCode(c, raw, rawlen) ==
  LET low    == ArctechLow(300, 4)
      high   == ArctechHigh(300, 4)
      unit   == ArctechUnit(c)
      state  == IF c.dimlevel >= 0 THEN Cells(110, 113, << 300, 300, 300, 300 >>)
                ELSE When(c.state = "on", Cells(110, 113, high))
      length == IF c.dimlevel > -1 THEN 148 ELSE 132
  IN  IF \/ ~ ArctechAccepts(c) \/ (c.dimlevel = -1 /\ c.state = "")
         \/ c.dimlevel # -1 /\ (c.dimlevel > c.max \/ c.dimlevel < c.min)
         \/ c.dimlevel >= 0 /\ c.state = "off"
      THEN Refused
      ELSE Made(Written(raw, ArctechHead(c, 300, 10, 147, low, high) \o state
                               \o Number(unit, 126, -4, high)
                               \o When(c.dimlevel > -1, Number(c.dimlevel, 142, -4, high))
                               \o Cells(length - 1, length - 1, << PULSE_DIV * 300 >>)),
                length, DimmerMessage(c.id, unit, c.all, c.dimlevel, c.state))

arctech_dimmer_validate(raw, rawlen) ==
  /\ \E length \in {132, 148} : Footer(raw, rawlen, length, 250 * PULSE_DIV, 320 * PULSE_DIV)
  /\ raw[1] >= 300 * 8

arctech_dimmer_parseCode(raw, rawlen, message) ==
  LET binary == Digits(raw, 3, 4, rawlen \div 4, 600)
  IN  DimmerMessage(binToDecRev(binary, 0, 25), binToDecRev(binary, 28, 31), binary[26],
                    IF rawlen = 148 THEN binToDecRev(binary, 32, 35) ELSE -1,
                    IF binary[27] = 1 THEN "on" ELSE "off")

-----------------------------------------------------------------------------
(* Protocols of twelve cells of four pulses and a footer of two.  The code *)
(* calls the cells low, med and high; which of them is a digit 1 differs.  *)

Falling(avg)  == << avg, 3 * avg, 3 * avg, avg >>

Rising(avg)   == << avg, 3 * avg, avg, 3 * avg >>

Inverted(avg) == << 3 * avg, avg, 3 * avg, avg >>

ShortFooter(avg) == Cells(48, 49, << avg, PULSE_DIV * avg >>)

InRange(n, max) == n # -1 /\ n <= max /\ n >= 0

(* createCode of arctech_switch_old and arctech_screen_old; "one" is the   *)
(* state sent as a digit 1.                                                *)
ArctechOldCode(c, raw, one) ==
  IF ~ InRange(c.id, 31) \/ ~ InRange(c.unit, 15) \/ c.state = "" THEN Refused
  ELSE Made(Written(raw, Cells(0, 35, Rising(335)) \o Cells(36, 47, Falling(335))
                           \o Number(c.unit, 0, 4, Falling(335))
                           \o Number(c.id, 16, 4, Falling(335))
                           \o When(c.state # one, Cells(44, 47, Rising(335)))
                           \o ShortFooter(335)),
            50, [id |-> c.id, unit |-> c.unit, state |-> c.state])

arctech_switch_old_createCode(c, raw, rawlen) == ArctechOldCode(c, raw, "on")

arctech_switch_old_validate(raw, rawlen) ==
  Footer(raw, rawlen, 50, 310 * PULSE_DIV, 405 * PULSE_DIV)

(* Every cell must be one of the two cells the protocol knows.             *)
arctech_switch_old_parseCode(raw, rawlen, message) ==
  LET long(i, j) == raw[4 * i + j] > 502
      one(i)     == ~ long(i, 0) /\ long(i, 1) /\ long(i, 2) /\ ~ long(i, 3)
      zero(i)    == ~ long(i, 0) /\ long(i, 1) /\ ~ long(i, 2) /\ long(i, 3)
      binary     == [i \in 0 .. 11 |-> IF one(i) THEN 1 ELSE 0]
  IN  IF \E i \in 0 .. 11 : ~ one(i) /\ ~ zero(i) THEN message
      ELSE [id |-> binToDec(binary, 4, 8), unit |-> binToDec(binary, 0, 3),
            state |-> IF binary[11] = 1 THEN "on" ELSE "off"]

arctech_screen_old_createCode(c, raw, rawlen) == ArctechOldCode(c, raw, "up")

arctech_screen_old_validate(raw, rawlen) ==
  Footer(raw, rawlen, 50, 310 * PULSE_DIV, 350 * PULSE_DIV)

arctech_screen_old_parseCode(raw, rawlen, message) ==
  LET zero   == Digits(raw, 3, 4, 12, 502)
      binary == [i \in 0 .. 11 |-> 1 - zero[i]]
  IN  [id |-> binToDec(binary, 4, 8), unit |-> binToDec(binary, 0, 3),
       state |-> IF binary[11] = 1 THEN "up" ELSE "down"]

ehome_createCode(c, raw, rawlen) ==
  IF ~ InRange(c.id, 7) \/ c.state = "" THEN Refused
  ELSE Made(Written(raw, Cells(0, 47, Falling(282)) \o Number(c.id, 4, 4, Rising(282))
                           \o Cells(0, 3, IF c.state = "off" THEN Inverted(282) ELSE Rising(282))
                           \o ShortFooter(282)),
            50, [id |-> c.id, state |-> c.state])

ehome_validate(raw, rawlen) == Footer(raw, rawlen, 50, 277 * PULSE_DIV, 287 * PULSE_DIV)

ehome_parseCode(raw, rawlen, message) ==
  LET binary == Digits(raw, 3, 4, 12, 423)
  IN  [id |-> binToDec(binary, 1, 3), state |-> IF binary[0] = 1 THEN "on" ELSE "off"]

selectremote_createCode(c, raw, rawlen) ==
  IF ~ InRange(c.id, 7) \/ c.state = "" THEN Refused
  ELSE Made(Written(raw, Cells(0, 47, Rising(396)) \o Number(7 - c.id, 4, 4, Inverted(396))
                           \o When(c.state = "on", Cells(32, 35, Inverted(396)))
                           \o ShortFooter(396)),
            50, [id |-> c.id, state |-> c.state])

selectremote_validate(raw, rawlen) == Footer(raw, rawlen, 50, 391 * PULSE_DIV, 401 * PULSE_DIV)

(* Mutant: the id is sent inverted and not inverted back.                  *)
SelectremoteInverted(raw, rawlen, message) ==
  LET binary == Digits(raw, 0, 4, 12, 594)
  IN  [id |-> binToDec(binary, 1, 3), state |-> IF binary[8] = 1 THEN "on" ELSE "off"]

selectremote_parseCode(raw, rawlen, message) ==
  LET binary == Digits(raw, 0, 4, 12, 594)
  IN  [id |-> 7 - binToDec(binary, 1, 3), state |-> IF binary[8] = 1 THEN "on" ELSE "off"]

(* A system code and a unit code of five digits each, and two state cells. *)
SystemAccepts(c) == InRange(c.systemcode, 31) /\ InRange(c.unitcode, 31) /\ c.state # ""

SystemMessage(systemcode, unitcode, state) ==
  [systemcode |-> systemcode, unitcode |-> unitcode, state |-> state]

(* Mutant: clearCode ends one cell early.                                  *)
SystemCodeShort(c, raw, avg, state) ==
  IF ~ SystemAccepts(c) THEN Refused
  ELSE Made(Written(raw, Cells(0, 43, Falling(avg)) \o Number(c.systemcode, 0, 4, Rising(avg))
                           \o Number(c.unitcode, 20, 4, Rising(avg)) \o state
                           \o ShortFooter(avg)),
            50, SystemMessage(c.systemcode, c.unitcode, c.state))

(* createCode of heitech, silvercrest, pollin and mumbi, up to the state   *)
SystemCode(c, raw, avg, state) ==
  IF ~ SystemAccepts(c) THEN Refused
  ELSE Made(Written(raw, Cells(0, 47, Falling(avg)) \o Number(c.systemcode, 0, 4, Rising(avg))
                           \o Number(c.unitcode, 20, 4, Rising(avg)) \o state
                           \o ShortFooter(avg)),
            50, SystemMessage(c.systemcode, c.unitcode, c.state))

(* parseCode of those whose two state digits must differ                   *)
CheckedMessage(raw, limit, message, zero, one) ==
  LET binary == Digits(raw, 3, 4, 12, limit)
  IN  IF binary[10] = binary[11] THEN message
      ELSE SystemMessage(binToDec(binary, 0, 4), binToDec(binary, 5, 9),
                         IF binary[11] = 0 THEN zero ELSE one)

heitech_createCode(c, raw, rawlen) ==
  SystemCode(c, raw, 280, IF c.state = "off" THEN Cells(44, 47, Rising(280))
                                             ELSE Cells(40, 43, Rising(280)))

heitech_validate(raw, rawlen) == Footer(raw, rawlen, 50, 270 * PULSE_DIV, 290 * PULSE_DIV)

heitech_parseCode(raw, rawlen, message) == CheckedMessage(raw, 420, message, "on", "off")

silvercrest_createCode(c, raw, rawlen) ==
  SystemCode(c, raw, 312, IF c.state = "off" THEN Cells(44, 47, Rising(312))
                                             ELSE Cells(40, 43, Rising(312)))

silvercrest_validate(raw, rawlen) == Footer(raw, rawlen, 50, 307 * PULSE_DIV, 317 * PULSE_DIV)

silvercrest_parseCode(raw, rawlen, message) == CheckedMessage(raw, 468, message, "on", "off")

pollin_createCode(c, raw, rawlen) ==
  SystemCode(c, raw, 301, When(c.state = "off", Cells(44, 47, Rising(301))))

pollin_validate(raw, rawlen) == Footer(raw, rawlen, 50, 296 * PULSE_DIV, 306 * PULSE_DIV)

pollin_parseCode(raw, rawlen, message) ==
  LET binary == Digits(raw, 3, 4, 12, 451)
  IN  SystemMessage(binToDec(binary, 0, 4), binToDec(binary, 5, 9),
                    IF binary[11] = 0 THEN "on" ELSE "off")

mumbi_createCode(c, raw, rawlen) ==
  SystemCode(c, raw, 312, IF c.state = "off" THEN Cells(44, 47, Rising(312))
                                             ELSE Cells(40, 43, Rising(312)))

mumbi_validate(raw, rawlen) == Footer(raw, rawlen, 50, 307 * PULSE_DIV, 317 * PULSE_DIV)

mumbi_parseCode(raw, rawlen, message) ==
  LET binary   == Digits(raw, 3, 4, 12, 468)
      unitcode == binToDec(binary, 5, 9)
  IN  IF unitcode > 0
      THEN SystemMessage(binToDec(binary, 0, 4), unitcode, IF binary[11] = 1 THEN "on" ELSE "off")
      ELSE message

elro_400_switch_createCode(c, raw, rawlen) ==
  IF ~ SystemAccepts(c) THEN Refused
  ELSE Made(Written(raw, Cells(0, 47, Rising(296)) \o Number(c.systemcode, 16, -4, Falling(296))
                           \o Number(c.unitcode, 36, -4, Falling(296))
                           \o When(c.state = "on", Cells(44, 47, Falling(296)))
                           \o Cells(40, 43, Falling(296)) \o ShortFooter(296)),
            50, SystemMessage(c.systemcode, c.unitcode, c.state))

elro_400_switch_validate(raw, rawlen) == Footer(raw, rawlen, 50, 291 * PULSE_DIV, 301 * PULSE_DIV)

elro_400_switch_parseCode(raw, rawlen, message) ==
  LET zero   == Digits(raw, 3, 4, 12, 444)
      binary == [i \in 0 .. 11 |-> 1 - zero[i]]
  IN  SystemMessage(binToDecRev(binary, 0, 4), binToDecRev(binary, 5, 9),
                    IF binary[11] = 1 THEN "on" ELSE "off")

(* Five more digits of the system code turn cells of the first five into   *)
(* inverted ones.                                                          *)
elro_800_switch_createCode(c, raw, rawlen) ==
  IF ~ InRange(c.systemcode, 1023) \/ ~ InRange(c.unitcode, 31) \/ c.state = "" THEN Refused
  ELSE Made(Written(raw, Cells(0, 47, Falling(300))
                           \o Number(c.systemcode % 32, 0, 4, Rising(300))
                           \o Number(c.systemcode \div 32, 0, 4, Inverted(300))
                           \o Number(c.unitcode, 20, 4, Rising(300))
                           \o (IF c.state = "off" THEN Cells(44, 47, Rising(300))
                                                  ELSE Cells(40, 43, Rising(300)))
                           \o ShortFooter(300)),
            50, SystemMessage(c.systemcode, c.unitcode, c.state))

elro_800_switch_validate(raw, rawlen) == Footer(raw, rawlen, 50, 274 * PULSE_DIV, 320 * PULSE_DIV)

elro_800_switch_parseCode(raw, rawlen, message) ==
  LET binary  == Digits(raw, 3, 4, 12, 450)
      binary2 == Digits(raw, 0, 4, 5, 450)
  IN  IF binary[10] = binary[11] THEN message
      ELSE SystemMessage(binToDec(binary, 0, 4) + 32 * binToDec(binary2, 0, 4),
                         binToDec(binary, 5, 9), IF binary[11] = 0 THEN "on" ELSE "off")

ProgramMessage(systemcode, programcode, state) ==
  [systemcode |-> systemcode, programcode |-> programcode, state |-> state]

impuls_createCode(c, raw, rawlen) ==
  IF ~ InRange(c.systemcode, 31) \/ ~ InRange(c.programcode, 31) \/ c.state = "" THEN Refused
  ELSE Made(Written(raw, Cells(0, 47, Falling(150)) \o Number(c.systemcode, 0, 4, Inverted(150))
                           \o Number(c.programcode, 20, 4, Rising(150))
                           \o (IF c.state = "off" THEN Cells(40, 43, Rising(150))
                                                  ELSE Cells(44, 47, Rising(150)))
                           \o ShortFooter(150)),
            50, ProgramMessage(c.systemcode, c.programcode, c.state))

impuls_validate(raw, rawlen) == Footer(raw, rawlen, 50, 130 * PULSE_DIV, 170 * PULSE_DIV)

impuls_parseCode(raw, rawlen, message) ==
  LET first  == Digits(raw, 0, 4, 12, 225)
      last   == Digits(raw, 3, 4, 12, 225)
      binary == [i \in 0 .. 11 |-> IF first[i] = 1 \/ last[i] = 1 THEN 1 ELSE 0]
  IN  IF binary[10] = binary[11] THEN message
      ELSE ProgramMessage(binToDec(binary, 0, 4), binToDec(binary, 5, 9),
                          IF binary[11] = 1 THEN "on" ELSE "off")

(* rsl366: one of four cells for the system code and one of four for the   *)
(* program code, both counted from 1.                                      *)
rsl366_createCode(c, raw, rawlen) ==
  LET high(i) == Cells(i, i + 3, Rising(480))
  IN  IF ~ InRange(c.systemcode, 4) \/ ~ InRange(c.programcode, 4) \/ c.state = ""
      THEN Refused
      ELSE Made(Written(raw, Cells(0, 47, Falling(480)) \o high(4 * (c.systemcode - 1))
                               \o high(16 + 4 * (c.programcode - 1))
                               \o When(c.state = "off", high(44)) \o ShortFooter(480)),
                50, ProgramMessage(c.systemcode, c.programcode, c.state))

rsl366_validate(raw, rawlen) ==
  /\ Footer(raw, rawlen, 50, 375 * PULSE_DIV, 395 * PULSE_DIV)
  /\ \A i \in {3, 7, 11} : raw[rawlen - i] <= 480 * 3

rsl366_parseCode(raw, rawlen, message) ==
  LET binary  == Digits(raw, 3, 4, 12, 720)
      ones(s) == {i \in 0 .. 3 : binary[s + i] = 1}
  IN  IF Cardinality(ones(0)) # 1 \/ Cardinality(ones(4)) # 1 THEN message
      ELSE ProgramMessage(Max(ones(0)) + 1, Max(ones(4)) + 1,
                          IF binary[11] = 0 THEN "on" ELSE "off")

-----------------------------------------------------------------------------
(* Protocols of cells of two pulses: short-long and long-short.            *)

Up(short, long)   == << short, long >>

Down(short, long) == << long, short >>

cleverwatts_createCode(c, raw, rawlen) ==
  LET low  == Up(269, 4 * 269)
      high == Down(269, 4 * 269)
      unit == IF c.unit = -1 /\ c.all = 1 THEN 3 ELSE c.unit
  IN  IF \/ c.id = -1 \/ (c.unit = -1 /\ c.all = 0) \/ c.state = ""
         \/ c.id > 1048575 \/ c.id < 1
         \/ (c.unit > 3 \/ c.unit < 0) /\ c.all = 0
      THEN Refused
      ELSE Made(Written(raw, Cells(0, 47, high) \o Number(c.id, 38, -2, low)
                               \o When(c.state = "off", Cells(40, 41, low))
                               \o Number(unit, 44, -2, low)
                               \o When(c.all = 0, Cells(46, 47, low))
                               \o ShortFooter(269)),
                50, ArctechMessage(c.id, unit, c.all, c.state))

cleverwatts_validate(raw, rawlen) == Footer(raw, rawlen, 50, 265 * PULSE_DIV, 274 * PULSE_DIV)

cleverwatts_parseCode(raw, rawlen, message) ==
  LET binary == Digits(raw, 1, 2, 24, 538)
  IN  ArctechMessage(binToDecRev(binary, 0, 19), binToDecRev(binary, 21, 22), 1 - binary[23],
                     IF binary[20] = 0 THEN "on" ELSE "off")

daycom_createCode(c, raw, rawlen) ==
  LET low  == Down(284, 4 * 284)
      high == Up(284, 4 * 284)
  IN  IF \/ ~ InRange(c.id, 63) \/ ~ InRange(c.systemcode, 16999) \/ ~ InRange(c.unit, 7)
         \/ c.state = ""
      THEN Refused
      ELSE Made(Written(raw, Cells(0, 47, high) \o Number(c.id, 10, -2, low)
                               \o Number(c.systemcode, 38, -2, low)
                               \o When(c.state = "on", Cells(40, 41, low))
                               \o Number(c.unit, 46, -2, low) \o ShortFooter(284)),
                50, [id |-> c.id, systemcode |-> c.systemcode, unit |-> c.unit, state |-> c.state])

daycom_validate(raw, rawlen) == Footer(raw, rawlen, 50, 280 * PULSE_DIV, 296 * PULSE_DIV)

daycom_parseCode(raw, rawlen, message) ==
  LET binary == Digits(raw, 0, 2, 25, 568)
  IN  [id |-> binToDecRev(binary, 0, 5), systemcode |-> binToDecRev(binary, 6, 19),
       unit |-> binToDecRev(binary, 21, 23), state |-> IF binary[20] = 0 THEN "on" ELSE "off"]

-----------------------------------------------------------------------------
(* quigg_gt7000 and quigg_screen: a start pulse, 20 digits of two pulses   *)
(* and a footer; digit 19 makes the number of ones of digits 12 .. 18 even.*)

QuiggZero == Up(700, 1400)

QuiggOne  == Down(700, 1400)

QuiggAccepts(c) ==
  /\ c.id # -1 /\ ~ (c.unit = -1 /\ c.all = 0) /\ c.state # ""
  /\ c.id <= 4095 /\ c.id >= 0
  /\ (c.unit <= 3 /\ c.unit >= 0) \/ c.all # 0

QuiggUnit(c) == IF c.unit = -1 /\ c.all = 1 THEN 4 ELSE c.unit

(* createUnit of quigg_gt7000                                              *)
QuiggSwitchUnit(unit) ==
  CASE unit = 0 -> Cells(25, 30, QuiggZero)
    [] unit = 1 -> Cells(25, 26, QuiggOne) \o Cells(37, 38, QuiggOne)
    [] unit = 2 -> Cells(25, 28, QuiggOne) \o Cells(37, 38, QuiggOne)
    [] unit = 3 -> Cells(27, 28, QuiggOne)
    [] unit = 4 -> Cells(25, 30, QuiggOne)
    [] OTHER -> <<>>

(* createUnit of quigg_screen                                              *)
QuiggScreenUnit(unit) ==
  LET screen == Cells(33, 34, QuiggOne)
      more   == Cells(37, 38, QuiggOne)
  IN  CASE unit = 0 -> Cells(25, 30, QuiggZero) \o screen \o more
        [] unit = 1 -> Cells(25, 26, QuiggOne) \o screen
        [] unit = 2 -> Cells(25, 28, QuiggOne) \o screen
        [] unit = 3 -> Cells(27, 28, QuiggOne) \o screen \o more
        [] unit = 4 -> Cells(25, 30, QuiggOne) \o screen \o more
        [] OTHER -> <<>>

QuiggParity(raw) ==
  LET long == {i \in {25, 27, 29, 31, 33, 35, 37} : raw[i] = 1400}
  IN  When(Cardinality(long) % 2 = 1, Cells(39, 40, QuiggOne))

QuiggCode(c, raw, unit, one) ==
  LET data == Written(raw, Cells(0, 0, << 700 >>) \o Cells(1, 39, QuiggZero)
                             \o Number(c.id, 23, -2, QuiggOne) \o unit
                             \o When(c.state = one, Cells(31, 32, QuiggOne)))
  IN  Made(Written(data, QuiggParity(data) \o Cells(41, 41, << 81000 >>)),
           42, ArctechMessage(c.id, QuiggUnit(c), c.all, c.state))

QuiggValid(raw, rawlen) ==
  Footer(raw, rawlen, 42, 72900, 89100) /\ raw[0] >= 620 /\ raw[0] <= 960

(* Mutant: the parity digit is not looked at.                              *)
QuiggMessageUnchecked(raw, message, mode, zero, one) ==
  LET binary == Digits(raw, 1, 2, 21, 1050)
      unit   == << 0, 3, 1, 2 >>[binToDecRev(binary, 12, 13) + 1]
  IN  IF binary[16] = mode
      THEN ArctechMessage(binToDecRev(binary, 0, 11), unit, binary[14],
                          IF binary[15] = 1 THEN one ELSE zero)
      ELSE message

(* The message of a code of the wanted mode whose parity is right.         *)
QuiggMessage(raw, message, mode, zero, one) ==
  LET binary == Digits(raw, 1, 2, 21, 1050)
      parity == Cardinality({i \in 12 .. 18 : binary[i] = 1}) % 2
      unit   == << 0, 3, 1, 2 >>[binToDecRev(binary, 12, 13) + 1]
  IN  IF parity = binary[19] /\ binary[16] = mode
      THEN ArctechMessage(binToDecRev(binary, 0, 11), unit, binary[14],
                          IF binary[15] = 1 THEN one ELSE zero)
      ELSE message

quigg_gt7000_createCode(c, raw, rawlen) ==
  IF QuiggAccepts(c) THEN QuiggCode(c, raw, QuiggSwitchUnit(QuiggUnit(c)), "on") ELSE Refused

quigg_gt7000_validate(raw, rawlen) == QuiggValid(raw, rawlen)

quigg_gt7000_parseCode(raw, rawlen, message) == QuiggMessage(raw, message, 0, "off", "on")

quigg_screen_createCode(c, raw, rawlen) ==
  IF QuiggAccepts(c) THEN QuiggCode(c, raw, QuiggScreenUnit(QuiggUnit(c)), "down") ELSE Refused

quigg_screen_validate(raw, rawlen) == QuiggValid(raw, rawlen)

quigg_screen_parseCode(raw, rawlen, message) == QuiggMessage(raw, message, 1, "up", "down")

-----------------------------------------------------------------------------
(* conrad_rsl_switch: a table of codes.                                    *)

codes ==
  << << <<190, 182>>, <<129, 142>>, <<174, 166>>, <<158, 150>> >>,
     << <<181, 185>>, <<141, 133>>, <<165, 169>>, <<149, 153>> >>,
     << <<184, 176>>, <<132, 136>>, <<168, 160>>, <<152, 144>> >>,
     << <<178, 188>>, <<138, 130>>, <<162, 172>>, <<146, 156>> >>,
     << <<163, 147>>, <<0, 0>>, <<0, 0>>, <<0, 0>> >> >>

ConradMessage(id, unit, state) ==
  IF id = 5 THEN [all |-> 1, unit |-> unit, state |-> state]
            ELSE [id |-> id, unit |-> unit, state |-> state]

conrad_rsl_switch_createCode(c, raw, rawlen) ==
  LET low  == Down(600, 1400)
      high == Up(600, 1400)
      id   == IF c.all = 1 THEN 5 ELSE c.id
      code == codes[id][c.unit][IF c.state = "off" THEN 1 ELSE 2]
  IN  IF \/ c.unit = -1 \/ (c.id = -1 /\ c.all = 0) \/ c.state = ""
         \/ (c.id > 5 \/ c.id < 0) /\ c.all = 0
         \/ c.unit > 5 \/ c.unit < 0
      THEN Refused
      ELSE Made(Written(raw, Cells(0, 65, high) \o Number(23876, 16, 2, low)
                               \o Number(code, 2 * (Width(code) - 1), -2, low)
                               \o Cells(64, 65, << 600, PULSE_DIV * 200 >>)),
                66, ConradMessage(id, c.unit, c.state))

conrad_rsl_switch_validate(raw, rawlen) ==
  Footer(raw, rawlen, 66, 190 * PULSE_DIV, 210 * PULSE_DIV)

(* The first entry of the table that has the code; past its end if none.   *)
conrad_rsl_switch_parseCode(raw, rawlen, message) ==
  LET long  == Digits(raw, 1, 2, 33, 600)
      check == 255 - binToDecRev(long, 0, 7)
      found == {n \in 0 .. 19 : \E s \in 1 .. 2 : codes[(n \div 4) + 1][(n % 4) + 1][s] = check}
      first == Min(found)
      id    == (first \div 4) + 1
      unit  == (first % 4) + 1
  IN  IF found = {} THEN ConradMessage(6, 5, "off")
      ELSE ConradMessage(id, unit, IF codes[id][unit][2] = check THEN "on" ELSE "off")

-----------------------------------------------------------------------------
(* x10: four bytes, the second and fourth the complements of the first and *)
(* third.  An id is a letter and a number.                                 *)

letters == << "M", "N", "O", "P", "C", "D", "A", "B", "E", "F", "G", "H", "K", "L", " ", "I", "J" >>

X10Low  == << 600, 600 >>

X10High == << 600, 1800 >>

(* A digit 1 and its complement a byte later.                              *)
X10Digit(i) == Cells(i, i, X10High) \o Cells(i + 16, i + 16, X10Low)

X10Letter(l) ==
  LET i == CHOOSE i \in DOMAIN letters : letters[i] = l
  IN  Number(i - 1, 6, -2, X10High) \o Number(i - 1, 22, -2, X10Low)

X10Number(number) ==
  LET m == IF number > 8 THEN number - 8 ELSE number
      n == IF m > 4 THEN m - 4 ELSE m
  IN  When(number > 8, X10Digit(10)) \o When(m > 4, X10Digit(34))
        \o When(n \in {2, 4}, X10Digit(38)) \o When(n \in {3, 4}, X10Digit(40))

x10_createCode(c, raw, rawlen) ==
  IF c.id = <<>> \/ c.state = "" \/ c.id[1] = " " \/ ~ InRange(c.id[2], 16)
  THEN Refused
  ELSE Made(Written(raw, Cells(0, 15, X10Low) \o Cells(16, 31, X10High)
                           \o Cells(32, 47, X10Low) \o Cells(48, 63, X10High)
                           \o X10Letter(c.id[1]) \o X10Number(c.id[2])
                           \o When(c.state = "off", X10Digit(36))
                           \o Cells(64, 67, << 600, PULSE_DIV * 150 * 9, PULSE_DIV * 150 * 2,
                                               PULSE_DIV * 150 >>)),
            68, [id |-> c.id, state |-> c.state])

x10_validate(raw, rawlen) == Footer(raw, rawlen, 68, 145 * PULSE_DIV, 155 * PULSE_DIV)

x10_parseCode(raw, rawlen, message) ==
  LET binary == Digits(raw, 1, 2, 33, 900)
      number == 1 + 8 * binary[5] + 4 * binary[17] + binToDec(binary, 19, 20)
  IN  IF /\ binToDec(binary, 0, 7) + binToDec(binary, 8, 15) = 255
         /\ binToDec(binary, 16, 23) + binToDec(binary, 24, 31) = 255
      THEN [id |-> << letters[binToDecRev(binary, 0, 3) + 1], number >>,
            state |-> IF binary[18] = 0 THEN "on" ELSE "off"]
      ELSE message
=============================================================================
