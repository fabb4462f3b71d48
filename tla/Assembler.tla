------------------------------ MODULE Assembler ------------------------------
(***************************************************************************)
(* The conversion of an assembled program into chunks for the instruction   *)
(* memory (verilogToChunks of warpv.js and manycore.js): the lines between  *)
(* the marks are concatenations of Verilog constants, each a word of Width  *)
(* bits. A digit is its char_val, with -1 for what is no digit.             *)
(***************************************************************************)
EXTENDS Integers, Sequences

CONSTANTS
  Width,    \* bits of a word (32)
  Program   \* the texts to convert: sequences of lines

\* What the expressions of the code take a line for: a mark, a concatenation of
\* what is between commas, or something else.
Const ==
  [kind : {"const"}, bits : Nat, base : {"b", "d", "h"}, digits : Seq(-1 .. 15)]
    \cup [kind : {"bad", "empty"}]
TextLine ==
  [kind : {"begin", "end", "other"}] \cup [kind : {"instr"}, consts : Seq(Const)]

ASSUME AssemblerAssumption ==
  /\ Width \in Nat \ {0, 1}
  /\ \A text \in Program : text \in Seq(TextLine) /\ text # <<>>

VARIABLES verilog_lines, i, instr_cnt, ret, error, pc
vars == <<verilog_lines, i, instr_cnt, ret, error, pc>>

SV_BASE_CHARS == [b |-> 2, d |-> 10, h |-> 16]

Powers(b) ==
  LET power[n \in Nat] == IF n = 0 THEN 1 ELSE b * power[n - 1] IN power
Power(b, n) == Powers(b)[n]

\* 1 << n in signed arithmetic of Width bits, which uses n modulo Width; the
\* code singles out the highest bit.
Shift(n) ==
  IF n = Width - 1 THEN Power(2, n)
  ELSE IF n % Width = Width - 1 THEN - Power(2, Width - 1) ELSE Power(2, n % Width)

\* Mutant of IllegalDigit: the highest digit of the base is illegal.
IllegalDigitLast(d, base) == d < 0 \/ d >= base - 1

\* A digit that equals the base passes as legal.
IllegalDigit(d, base) == d < 0 \/ d > base

\* The values of the last digits of a constant: val after each turn of the loop.
Values(c) ==
  LET val[n \in 0 .. Len(c.digits)] ==
        IF n = 0 THEN 0
        ELSE val[n - 1] + Power(SV_BASE_CHARS[c.base], n - 1) * c.digits[Len(c.digits) - n + 1]
  IN val
ConstValue(c) == Values(c)[Len(c.digits)]

\* Mutant of Pop: constants are shifted one bit too few.
PopShort(c, acc) ==
  IF acc.error \/ acc.ended THEN acc
  ELSE IF c.kind = "empty" THEN [acc EXCEPT !.ended = TRUE]
  ELSE IF c.kind = "bad" \/ \E k \in DOMAIN c.digits :
                              IllegalDigit(c.digits[k], SV_BASE_CHARS[c.base])
    THEN [acc EXCEPT !.error = TRUE]
  ELSE [acc EXCEPT !.value32 = @ + ConstValue(c) * Shift(IF acc.num_bits > 0 THEN acc.num_bits - 1 ELSE 0),
                   !.num_bits = @ + c.bits]

\* One constant, taken from the right, is added to the word; an empty one ends
\* the line, one that does not parse or has an illegal digit is an error.
Pop(c, acc) ==
  IF acc.error \/ acc.ended THEN acc
  ELSE IF c.kind = "empty" THEN [acc EXCEPT !.ended = TRUE]
  ELSE IF c.kind = "bad" \/ \E k \in DOMAIN c.digits :
                              IllegalDigit(c.digits[k], SV_BASE_CHARS[c.base])
    THEN [acc EXCEPT !.error = TRUE]
  ELSE [acc EXCEPT !.value32 = @ + ConstValue(c) * Shift(acc.num_bits),
                   !.num_bits = @ + c.bits]

Popped(consts) ==
  LET acc[n \in 0 .. Len(consts)] ==
        IF n = 0 THEN [value32 |-> 0, num_bits |-> 0, error |-> FALSE, ended |-> FALSE]
        ELSE Pop(consts[Len(consts) - n + 1], acc[n - 1])
  IN acc
Word(consts) == Popped(consts)[Len(consts)]

Init ==
  /\ verilog_lines \in Program
  /\ i = 0
  /\ instr_cnt = 0
  /\ ret = <<>>
  /\ error = "none"
  /\ pc = "begin"

\* Lines are counted from 0; there is nothing beyond the last one.
Line(k) == IF k < Len(verilog_lines) THEN verilog_lines[k + 1] ELSE [kind |-> "undefined"]

\* Mutant of FindBegin: the mark may be the last line.
FindBeginLast ==
  /\ pc = "begin"
  /\ i' = i + 1
  /\ IF i >= Len(verilog_lines)
       THEN error' = "no begin" /\ pc' = "done"
       ELSE /\ pc' = IF Line(i).kind = "begin" THEN "program" ELSE "begin"
            /\ UNCHANGED error
  /\ UNCHANGED <<verilog_lines, instr_cnt, ret>>

\* The search for the first mark, which must not be the last line.
FindBegin ==
  /\ pc = "begin"
  /\ i' = i + 1
  /\ IF i' >= Len(verilog_lines)
       THEN error' = "no begin" /\ pc' = "done"
       ELSE /\ pc' = IF Line(i).kind = "begin" THEN "program" ELSE "begin"
            /\ UNCHANGED error
  /\ UNCHANGED <<verilog_lines, instr_cnt, ret>>

FindEnd ==
  /\ pc = "program" /\ Line(i).kind = "end"
  /\ pc' = "done"
  /\ UNCHANGED <<verilog_lines, i, instr_cnt, ret, error>>

\* Mutant of ProcessLine: only lines that convert are counted.
ProcessLineUncounted ==
  /\ pc = "program" /\ Line(i).kind # "end"
  /\ LET word == IF Line(i).kind = "instr" THEN Word(Line(i).consts) ELSE Word(<<>>)
         bad == word.error \/ word.num_bits # Width
         last == i + 1 >= Len(verilog_lines)
     IN /\ ret' = IF bad THEN ret
                  ELSE Append(ret, [addr |-> instr_cnt, data |-> word.value32])
        /\ error' = IF last THEN "no end" ELSE IF bad THEN "line" ELSE error
        /\ pc' = IF last THEN "done" ELSE pc
        /\ instr_cnt' = IF bad THEN instr_cnt ELSE instr_cnt + 1
  /\ i' = i + 1
  /\ UNCHANGED verilog_lines

\* Mutant of ProcessLine: the width of the word is not checked.
ProcessLineAnyWidth ==
  /\ pc = "program" /\ Line(i).kind # "end"
  /\ LET word == IF Line(i).kind = "instr" THEN Word(Line(i).consts) ELSE Word(<<>>)
         last == i + 1 >= Len(verilog_lines)
     IN /\ ret' = IF word.error THEN ret
                  ELSE Append(ret, [addr |-> instr_cnt, data |-> word.value32])
        /\ error' = IF last THEN "no end" ELSE IF word.error THEN "line" ELSE error
        /\ pc' = IF last THEN "done" ELSE pc
  /\ i' = i + 1
  /\ instr_cnt' = instr_cnt + 1
  /\ UNCHANGED verilog_lines

\* A line of the program: a chunk that writes its word, or an error. A line
\* that is no concatenation is one too.
ProcessLine ==
  /\ pc = "program" /\ Line(i).kind # "end"
  /\ LET word == IF Line(i).kind = "instr" THEN Word(Line(i).consts) ELSE Word(<<>>)
         bad == word.error \/ word.num_bits # Width
         last == i + 1 >= Len(verilog_lines)
     IN /\ ret' = IF bad THEN ret
                  ELSE Append(ret, [addr |-> instr_cnt, data |-> word.value32])
        /\ error' = IF last THEN "no end" ELSE IF bad THEN "line" ELSE error
        /\ pc' = IF last THEN "done" ELSE pc
  /\ i' = i + 1
  /\ instr_cnt' = instr_cnt + 1
  /\ UNCHANGED verilog_lines

Done == pc = "done" /\ UNCHANGED vars

Next == FindBegin \/ FindEnd \/ ProcessLine \/ Done

Spec == Init /\ [][Next]_vars /\ WF_vars(Next)

-----------------------------------------------------------------------------
(* The reference, from the right: where the bits of a field lie.           *)

\* The values of the first digits of a numeral, and the widths of the last fields.
Numerals(digits, base) ==
  LET num[n \in 0 .. Len(digits)] ==
        IF n = 0 THEN 0 ELSE num[n - 1] * base + digits[n]
  IN num
Widths(consts) ==
  LET width[n \in 0 .. Len(consts)] ==
        IF n = 0 THEN 0 ELSE width[n - 1] + consts[Len(consts) - n + 1].bits
  IN width

Numeral(digits, base) == Numerals(digits, base)[Len(digits)]
SumBits(consts) == Widths(consts)[Len(consts)]
Bit(n, k) == (n \div Power(2, k)) % 2

\* A constant that Verilog takes: its digits are below the base and its value
\* fits its bits.
Legal(c) ==
  /\ c.kind = "const" /\ c.bits > 0
  /\ \A k \in DOMAIN c.digits : c.digits[k] \in 0 .. SV_BASE_CHARS[c.base] - 1
  /\ Numeral(c.digits, SV_BASE_CHARS[c.base]) < Power(2, c.bits)

LegalLine(line) ==
  /\ line.kind = "instr"
  /\ \A k \in DOMAIN line.consts : Legal(line.consts[k])
  /\ SumBits(line.consts) = Width

\* The line that a chunk was made from.
Begin == CHOOSE k \in 0 .. Len(verilog_lines) - 1 :
           /\ Line(k).kind = "begin"
           /\ \A j \in 0 .. k - 1 : Line(j).kind # "begin"
LineOf(chunk) == Line(Begin + 1 + chunk.addr)

AssemblerTypeOK ==
  /\ i \in 0 .. Len(verilog_lines)
  /\ pc \in {"begin", "program", "done"}
  /\ Len(ret) <= instr_cnt

\* The chunk of a legal line holds every bit of every field in its place, so
\* with 32 bits it is the instruction that the line spells, highest bit
\* included, and no more.
ExactWords ==
  \A k \in 1 .. Len(ret) :
    LegalLine(LineOf(ret[k])) =>
      LET consts == LineOf(ret[k]).consts
          right(f) == Widths(consts)[Len(consts) - f] IN
      /\ ret[k].data \in 0 .. Power(2, Width) - 1
      /\ \A f \in 1 .. Len(consts) : \A b \in 0 .. consts[f].bits - 1 :
           Bit(ret[k].data, right(f) + b)
             = Bit(Numeral(consts[f].digits, SV_BASE_CHARS[consts[f].base]), b)

\* What is written where: each address holds the word of the line at its place
\* in the program, although lines before it may have failed, and a line whose
\* fields do not make a word, or do not parse, is written nowhere and reported.
InPlace ==
  /\ \A k \in 1 .. Len(ret) : \A j \in 1 .. k - 1 : ret[j].addr < ret[k].addr
  /\ \A a \in 0 .. instr_cnt - 1 :
       LET line == Line(Begin + 1 + a)
           written == \E k \in 1 .. Len(ret) : ret[k].addr = a IN
       /\ LegalLine(line) => written
       /\ (\/ line.kind # "instr"
           \/ \E f \in DOMAIN line.consts :
                /\ line.consts[f].kind = "bad"
                /\ \A g \in DOMAIN line.consts : line.consts[g].kind # "empty"
           \/ /\ \A f \in DOMAIN line.consts : line.consts[f].kind = "const"
              /\ SumBits(line.consts) # Width)
            => ~ written /\ error # "none"

\* A program of legal lines between the marks is converted to a chunk per line.
Complete ==
  (\E k \in 1 .. Len(verilog_lines) - 2 :
     /\ verilog_lines[1].kind = "begin" /\ Line(Len(verilog_lines) - 1).kind = "end"
     /\ \A j \in 2 .. Len(verilog_lines) - 1 : LegalLine(verilog_lines[j]))
    => error = "none" /\ Len(ret) = Len(verilog_lines) - 2

\* The conversion ends, with every legal line of a marked program.
Converts == <>(pc = "done" /\ Complete)

=============================================================================
