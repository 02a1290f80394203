------------------------------ MODULE RfPulses ------------------------------
(***************************************************************************)
(* What the 433.92 MHz protocols have in common: pulse trains, the cells   *)
(* of pulses that stand for one digit, and the conversions between numbers *)
(* and digits of core/binary.c.                                            *)
(*                                                                         *)
(* A pulse buffer is a function from 0 .. n-1 to pulse lengths, indexed as *)
(* in the code.  Code that writes pulses is a sequence of runs, applied in *)
(* order: a run repeats a cell of pulses from one index on.                *)
(***************************************************************************)
EXTENDS Integers, Sequences, FiniteSetsExt, TLC

PULSE_DIV == 34

(* for(i=s;i<=e;i+=n) { raw[i]=cell[1]; ... raw[i+n-1]=cell[n]; }          *)
Run(s, e, cell) ==
  [at |-> s, end |-> s + Len(cell) * ((e - s) \div Len(cell) + 1), cell |-> cell]

Cells(s, e, cell) == << Run(s, e, cell) >>

When(test, runs) == IF test THEN runs ELSE <<>>

Bit(n, i) == (n \div 2^i) % 2

(* The digits that decToBin and decToBinRev produce of a number n >= 0.    *)
Width(n) == Max({0} \cup {i \in 0 .. 30 : n >= 2^i}) + 1

(* The cells of the digits 1 of n; the last digit of n is at index "last"  *)
(* and each next one "step" further.                                       *)
Number(n, last, step, cell) ==
  LET ones == SelectSeq([i \in 1 .. Width(n) |-> i - 1], LAMBDA i : Bit(n, i) = 1)
  IN  [j \in DOMAIN ones |->
         Run(last + step * ones[j], last + step * ones[j] + Len(cell) - 1, cell)]

(* The buffer after the runs.                                              *)
Written(raw, runs) ==
  [k \in DOMAIN raw |->
     LET over == {i \in DOMAIN runs : runs[i].at <= k /\ k < runs[i].end}
         r    == runs[Max(over)]
     IN  IF over = {} THEN raw[k] ELSE r.cell[((k - r.at) % Len(r.cell)) + 1]]

(* The digits read off every "step" pulses: 1 for a pulse above limit.     *)
Digits(raw, first, step, n, limit) ==
  [i \in 0 .. n - 1 |-> IF raw[first + step * i] > limit THEN 1 ELSE 0]

(* Any digit that is not 0 counts as a 1.                                  *)
binToDec(binary, s, e) ==
  MapThenSumSet(LAMBDA i : 2^(i - s), {i \in s .. e : binary[i] # 0})

binToDecRev(binary, s, e) ==
  MapThenSumSet(LAMBDA i : 2^(e - i), {i \in s .. e : binary[i] # 0})

(* validate of most protocols: the length and the last pulse of a train.   *)
Footer(raw, rawlen, length, min, max) ==
  rawlen = length /\ raw[rawlen - 1] >= min /\ raw[rawlen - 1] <= max

(* What createCode may do: return an error and change nothing; write a     *)
(* code, its length and a message; return success and change nothing; or   *)
(* return an error after it has written pulses or a message.               *)
Refused == [ok |-> FALSE, wrote |-> FALSE, said |-> FALSE]

Made(raw, rawlen, message) ==
  [ok |-> TRUE, wrote |-> TRUE, said |-> TRUE,
   raw |-> raw, rawlen |-> rawlen, message |-> message]

Ignored == [ok |-> TRUE, wrote |-> FALSE, said |-> FALSE]

Failed(made, said) == [made EXCEPT !.ok = FALSE, !.said = said]
=============================================================================
