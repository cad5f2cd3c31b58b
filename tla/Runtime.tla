------------------------------ MODULE Runtime ------------------------------
(***************************************************************************)
(* The routines of funcs.inc that a compiled program calls, and the lines  *)
(* of gen.c around the calls: itoa and ftoa for PRINT, read and atoi for   *)
(* INPUT.                                                                  *)
(*                                                                         *)
(* They share a few bytes of memory, digitspace and behind it stringspace, *)
(* that nothing clears between two calls.  What a call finds there is what *)
(* earlier calls left: itoa writes the first byte of digitspace only for 0 *)
(* and for a sign, and ends a text with a byte that PRINT sends too; atoi  *)
(* reads to the first newline, whoever wrote it.                           *)
(*                                                                         *)
(* A byte is its ASCII code.  A word is a number below Modulus (2^32); a   *)
(* floating point number is counted in parts of 1/Scale, a power of two,   *)
(* so that the products of ftoa are exact.                                 *)
(***************************************************************************)
EXTENDS Integers, Sequences

CONSTANTS Modulus,        \* 2^32
          Scale,          \* floating point numbers are multiples of 1/Scale
          DigitSpace,     \* bytes of digitspace
          StringSpace,    \* bytes of stringspace, and what a read asks for
          Precision,      \* of ftoa
          Scripts         \* what a program calls and what it reads

ASSUME WordAssumption == Modulus \in Nat /\ Modulus > 1 /\ Modulus % 2 = 0
ASSUME ScaleAssumption == Scale \in Nat \ {0}
ASSUME SpaceAssumption == {DigitSpace, StringSpace, Precision} \subseteq Nat \ {0}

Words == 0 .. Modulus - 1
Half  == Modulus \div 2
Byte  == 0 .. 255
\* The whole part of a floating point number fits in a register, two words.
Call  == [op : {"print"}, v : Words]
         \union [op : {"float"}, v : 0 .. Scale * Modulus * Half - 1]
         \union [op : {"input"}, v : {0}]

ASSUME ScriptsAssumption ==
    \A s \in Scripts : s.calls \in Seq(Call) /\ s.file \in Seq(Byte) /\ s.terminal \in BOOLEAN

\* Powers of ten.
TenTo[n \in Nat] == IF n = 0 THEN 1 ELSE 10 * TenTo[n - 1]

\* The buffers are large enough for a word of n digits and a fraction of p.
ASSUME TextsFit ==
    \E n \in 1 .. DigitSpace, p \in 0 .. DigitSpace + StringSpace :
       /\ Modulus <= TenTo[n] /\ n + 2 <= DigitSpace
       /\ TenTo[p] % Scale = 0 \/ (p >= 10 /\ p >= Precision)
       /\ n + p + 3 <= DigitSpace + StringSpace

VARIABLES
    script,     \* the calls, the file behind standard input, and whether it
                \* is a terminal, where a read ends with a line
    done,       \* calls begun
    mem,        \* digitspace, and from DigitSpace on stringspace and floatspace
    edi, eax, ecx, rsi, r10,        \* registers, as itoa and atoi use them
    len,        \* the length itoa and ftoa return
    frac,       \* in ftoa: the part behind the point, -1 in itoa alone
    rest,       \* what is still to be read
    chunks,     \* history: what each read has delivered
    inputs,     \* history: the values INPUT has stored
    shown,      \* what the last PRINT has written
    pc

registers == <<edi, eax, ecx, rsi, r10, len, frac>>
reading == <<rest, chunks, inputs>>
vars == <<script, done, mem, registers, reading, shown, pc>>

Zero == 48
Minus == 45
Point == 46
Newline == 10
\* floatspace, behind the two, is never written.
Cells == 0 .. DigitSpace + StringSpace

Init ==
    /\ script \in Scripts
    /\ done = 0 /\ mem = [i \in Cells |-> 0]
    /\ edi = 0 /\ eax = 0 /\ ecx = 0 /\ rsi = 0 /\ r10 = FALSE /\ len = 0 /\ frac = -1
    /\ rest = script.file /\ chunks = <<>> /\ inputs = <<>> /\ shown = <<>>
    /\ pc = "idle"

Calls(op) == pc = "idle" /\ done < Len(script.calls) /\ script.calls[done + 1].op = op
Operand == script.calls[done + 1].v
Called == done' = done + 1 /\ UNCHANGED script

-----------------------------------------------------------------------------
(* PRINT of an integer: itoa.                                              *)

PrintInt ==
    /\ Calls("print") /\ Called
    /\ edi' = Operand /\ frac' = -1 /\ pc' = "itoa"
    /\ UNCHANGED <<mem, eax, ecx, rsi, r10, len, reading, shown>>

\* Back in PRINT, or in ftoa.
ItoaReturns == pc' = IF frac < 0 THEN "write" ELSE "point"
Running(where) == pc = where /\ UNCHANGED <<script, done, reading, shown>>

ItoaZero ==
    /\ Running("itoa") /\ edi = 0
    /\ mem' = [mem EXCEPT ![0] = Zero, ![1] = 0] /\ len' = 1
    /\ ItoaReturns
    /\ UNCHANGED <<edi, eax, ecx, rsi, r10, frac>>

Negated(w) == (Modulus - w) % Modulus
ItoaSign ==
    /\ Running("itoa") /\ edi # 0
    /\ r10' = (edi >= Half)
    /\ edi' = IF edi >= Half THEN Negated(edi) ELSE edi
    /\ eax' = edi' /\ ecx' = 0 /\ pc' = "count"
    /\ UNCHANGED <<mem, rsi, len, frac>>

Quotient(w) == w \div 10
ItoaCount ==
    /\ Running("count") /\ Quotient(eax) # 0
    /\ eax' = Quotient(eax) /\ ecx' = ecx + 1
    /\ UNCHANGED <<mem, edi, rsi, r10, len, frac, pc>>

\* The last digit counted, the end of the text is known: digits go into the
\* cells from 1 on, whether a sign comes before them or not.
ItoaTerminate ==
    /\ Running("count") /\ Quotient(eax) = 0
    /\ ecx' = ecx + 1 /\ rsi' = ecx + 2 /\ len' = ecx + 2
    /\ mem' = [mem EXCEPT ![ecx + 2] = 0]
    /\ eax' = edi /\ pc' = "store"
    /\ UNCHANGED <<edi, r10, frac>>

ItoaStore ==
    /\ Running("store") /\ ecx > 0
    /\ mem' = [mem EXCEPT ![rsi - 1] = Zero + (eax % 10)]
    /\ eax' = Quotient(eax) /\ rsi' = rsi - 1 /\ ecx' = ecx - 1
    /\ UNCHANGED <<edi, r10, len, frac, pc>>

ItoaEnd ==
    /\ Running("store") /\ ecx = 0
    /\ mem' = IF r10 THEN [mem EXCEPT ![rsi - 1] = Minus] ELSE mem
    /\ ItoaReturns
    /\ UNCHANGED <<registers>>

-----------------------------------------------------------------------------
(* PRINT of a floating point number: ftoa, which calls itoa for the whole  *)
(* part, cut to a word.                                                    *)

PrintFloat ==
    /\ Calls("float") /\ Operand # 0 /\ Called
    /\ edi' = (Operand \div Scale) % Modulus /\ frac' = Operand % Scale /\ pc' = "itoa"
    /\ UNCHANGED <<mem, eax, ecx, rsi, r10, len, reading, shown>>

\* For 0.0 ftoa writes through %rdi, which is no argument of it.  After a
\* PRINT it is 1, at the start 0; only INPUT leaves an address there, that of
\* the byte where atoi stopped.
AfterInput == done > 0 /\ script.calls[done].op = "input"
FloatZeroCrashes ==
    /\ Calls("float") /\ Operand = 0 /\ ~AfterInput /\ Called
    /\ pc' = "crashed"
    /\ UNCHANGED <<mem, registers, reading, shown>>

\* Then the length PRINT sends is an address: it writes all it can read.
Runaway == <<-1>>
FloatZeroRunsAway ==
    /\ Calls("float") /\ Operand = 0 /\ AfterInput /\ Called
    /\ mem' = [mem EXCEPT ![rsi] = 0] /\ shown' = Runaway
    /\ UNCHANGED <<registers, reading, pc>>

\* itoa has loaded %r9, where ftoa keeps the precision, with the divisor.
KeptInR9 == Precision                  \* mutant
PrecisionLeft == IF edi = 0 THEN Precision ELSE 10

FtoaPoint ==
    /\ Running("point")
    /\ mem' = [mem EXCEPT ![len] = Point] /\ len' = len + 1
    /\ ecx' = PrecisionLeft /\ pc' = "digits"
    /\ UNCHANGED <<edi, eax, rsi, r10, frac>>

FtoaDigit ==
    /\ Running("digits") /\ frac # 0 /\ ecx > 0
    /\ mem' = [mem EXCEPT ![len] = Zero + (frac * 10) \div Scale] /\ len' = len + 1
    /\ frac' = (frac * 10) % Scale /\ ecx' = ecx - 1
    /\ UNCHANGED <<edi, eax, rsi, r10, pc>>

\* Only a number that needs all digits is ended with a zero byte.
FtoaEnd ==
    /\ Running("digits")
    /\ IF ecx = 0 THEN mem' = [mem EXCEPT ![len] = 0] /\ len' = len + 1
                  ELSE frac = 0 /\ UNCHANGED <<mem, len>>
    /\ pc' = "write"
    /\ UNCHANGED <<edi, eax, ecx, rsi, r10, frac>>

Write ==
    /\ pc = "write" /\ pc' = "idle"
    /\ shown' = [i \in 1 .. len |-> mem[i - 1]]
    /\ UNCHANGED <<script, done, mem, registers, reading>>

-----------------------------------------------------------------------------
(* INPUT: read and atoi.  rsi stands for %rdi, the place in the text; eax  *)
(* is cut to the word that INPUT stores.                                   *)

Least(a, b) == IF a < b THEN a ELSE b
HasNewline(text) == \E i \in DOMAIN text : text[i] = Newline
FirstNewline(text) == CHOOSE i \in DOMAIN text :
    text[i] = Newline /\ \A j \in 1 .. i - 1 : text[j] # Newline

\* How much a read delivers: a line at most on a terminal; from a pipe any
\* part of what is there; nothing at the end of the file.
Delivered ==
    LET most == Least(Len(rest), StringSpace)
    IN  IF rest = <<>> THEN {0}
        ELSE IF script.terminal
             THEN { IF HasNewline(rest) THEN Least(FirstNewline(rest), most) ELSE most }
             ELSE 1 .. most

\* The buffer with a chunk written over its beginning.
Cleared(chunk) == [i \in Cells |->                                      \* mutant
    IF i < DigitSpace THEN mem[i]
    ELSE IF i - DigitSpace < Len(chunk) THEN chunk[i - DigitSpace + 1] ELSE 0]
Filled(chunk) == [i \in Cells |->
    IF i >= DigitSpace /\ i - DigitSpace < Len(chunk) THEN chunk[i - DigitSpace + 1]
                                                      ELSE mem[i]]

Input ==
    /\ Calls("input") /\ Called
    /\ \E n \in Delivered :
          /\ mem' = Filled(SubSeq(rest, 1, n))
          /\ rest' = SubSeq(rest, n + 1, Len(rest))
          /\ chunks' = Append(chunks, SubSeq(rest, 1, n))
    /\ r10' = (mem'[DigitSpace] = Minus)
    /\ rsi' = IF r10' THEN DigitSpace + 1 ELSE DigitSpace
    /\ eax' = 0 /\ pc' = "atoi"
    /\ UNCHANGED <<edi, ecx, len, frac, inputs, shown>>

IsDigit(c) == c \in Zero .. Zero + 9
StopsAt(c) == c \in {0, Newline}

SameByte(i) == i                       \* mutant
NextByte(i) == i + 1
AtoiDigit ==
    /\ Running("atoi") /\ IsDigit(mem[rsi])
    /\ eax' = (eax * 10 + mem[rsi] - Zero) % Modulus /\ rsi' = NextByte(rsi)
    /\ UNCHANGED <<mem, edi, ecx, r10, len, frac, pc>>

\* A character that is no digit: the value is -1, and a sign negates that.
MinusOne == Modulus - 1
AtoiError ==
    /\ Running("atoi") /\ ~IsDigit(mem[rsi]) /\ ~StopsAt(mem[rsi])
    /\ eax' = MinusOne /\ pc' = "sign"
    /\ UNCHANGED <<mem, edi, ecx, rsi, r10, len, frac>>

AtoiStop ==
    /\ Running("atoi") /\ StopsAt(mem[rsi])
    /\ pc' = "sign"
    /\ UNCHANGED <<mem, registers>>

AtoiSign ==
    /\ pc = "sign" /\ pc' = "idle"
    /\ inputs' = Append(inputs, IF r10 THEN Negated(eax) ELSE eax)
    /\ UNCHANGED <<script, done, mem, registers, rest, chunks, shown>>

-----------------------------------------------------------------------------
Exited == /\ \/ pc = "crashed"
             \/ pc = "idle" /\ done = Len(script.calls)
          /\ UNCHANGED vars

Routines == \/ ItoaZero \/ ItoaSign \/ ItoaCount \/ ItoaTerminate \/ ItoaStore \/ ItoaEnd
            \/ FtoaPoint \/ FtoaDigit \/ FtoaEnd \/ Write
            \/ AtoiDigit \/ AtoiError \/ AtoiStop \/ AtoiSign
Next == \/ PrintInt \/ PrintFloat \/ FloatZeroCrashes \/ FloatZeroRunsAway \/ Input
        \/ Routines \/ Exited

Spec == Init /\ [][Next]_vars
FairSpec == Spec /\ WF_vars(Next)
-----------------------------------------------------------------------------
(* Properties.                                                             *)

TypeOK ==
    /\ done \in 0 .. Len(script.calls)
    /\ mem \in [Cells -> Byte]
    /\ {edi, eax} \subseteq Words /\ {ecx, len} \subseteq Nat /\ rsi \in Cells
    /\ r10 \in BOOLEAN /\ frac \in -1 .. Scale - 1
    /\ rest \in Seq(Byte) /\ Len(chunks) <= done /\ inputs \in Seq(Words)
    /\ shown = Runaway \/ shown \in Seq(Byte)
    /\ pc \in {"idle", "itoa", "count", "store", "point", "digits", "write", "atoi", "sign",
               "crashed"}

\* The decimal notation of a word, as text.
Length(v) == CHOOSE n \in 1 .. v + 1 : v < TenTo[n] /\ (n > 1 => TenTo[n - 1] <= v)
Decimal(v) == [i \in 1 .. Length(v) |-> Zero + ((v \div TenTo[Length(v) - i]) % 10)]
Signed(v) == IF v >= Half THEN <<Minus>> \o Decimal(Negated(v)) ELSE Decimal(v)

\* The digits of a fraction f: all of them, or as many as the precision allows.
Behind(f, n) == (f * TenTo[n]) % Scale
Spelled(f, most) == CHOOSE n \in 0 .. most : /\ n = most \/ Behind(f, n) = 0
                                             /\ \A m \in 0 .. n - 1 : Behind(f, m) # 0
Digit(f, n) == ((f * TenTo[n]) \div Scale) % 10
Digits(f, most) == [i \in 1 .. Spelled(f, most) |-> Zero + Digit(f, i)]

Whole(c) == IF c.op = "float" THEN (c.v \div Scale) % Modulus ELSE c.v
Fraction(c) == c.v % Scale
Places(c) == IF Whole(c) = 0 THEN Precision ELSE 10
Image(c) == IF c.op = "print" THEN Signed(c.v)
            ELSE Signed(Whole(c)) \o <<Point>> \o Digits(Fraction(c), Places(c))

\* The calls that go through itoa, and the byte in front that the last of them
\* has left whose number was not positive.
Prints(c) == c.op = "print" \/ (c.op = "float" /\ c.v # 0)
Positive(c) == Whole(c) \in 1 .. Half - 1
Mark(k) ==
    LET marks == { m \in 1 .. k : Prints(script.calls[m]) /\ ~Positive(script.calls[m]) }
        last  == CHOOSE m \in marks : \A other \in marks : other <= m
    IN  IF marks = {} THEN 0 ELSE IF Whole(script.calls[last]) = 0 THEN Zero ELSE Minus
Leftover(k) == IF Positive(script.calls[k]) /\ Mark(k) # 0 THEN <<Mark(k)>> ELSE <<>>

\* What PRINT shows is the number in decimal notation, to the precision that
\* %r9 is left with, and before a positive number the "0" or "-" of the last
\* number printed before it that was not positive, if there was one: the first
\* number of a program is right, and later ones as long as all are positive.
\* A zero byte may come before the text and one after it.
PrintedText ==
    pc = "idle" /\ done > 0 =>
        LET c == script.calls[done]
        IN  Prints(c) => \E before, after \in {<<>>, <<0>>} :
                            shown = before \o (Leftover(done) \o Image(c)) \o after

\* The value of a line: a number, or -1 if a character is no digit, negated
\* in both cases if the line starts with a minus.
Value(digits) ==
    LET upTo[n \in 0 .. Len(digits)] ==
            IF n = 0 THEN 0 ELSE upTo[n - 1] * 10 + digits[n] - Zero
    IN  upTo[Len(digits)]
Body(line)  == IF line # <<>> /\ line[1] = Minus THEN Tail(line) ELSE line
Size(body) == IF \A i \in DOMAIN body : IsDigit(body[i]) THEN Value(body) ELSE -1
Number(line) ==
    (IF Body(line) # line THEN -Size(Body(line)) ELSE Size(Body(line))) % Modulus
FirstLine(text) ==
    LET ends == { i \in 1 .. Len(text) : StopsAt(text[i]) }
        end  == CHOOSE i \in ends : \A j \in ends : i <= j
    IN  IF ends = {} THEN text ELSE SubSeq(text, 1, end - 1)

\* The text in the buffer after k reads: each byte from the last chunk that
\* was long enough to write it.
Overlay(k) == [i \in 1 .. StringSpace |->
    LET wrote == { m \in 1 .. k : Len(chunks[m]) >= i }
    IN  IF wrote = {} THEN 0 ELSE chunks[CHOOSE m \in wrote : \A n \in wrote : n <= m][i]]

\* A number printed that does not fit in digitspace goes on in stringspace;
\* 0.0 after an INPUT shortens what was read.
Full(c) == Spelled(Fraction(c), Places(c)) = Places(c)
TooLong(c) ==
    /\ c.op = "float"
    /\ c.v # 0 => (IF Positive(c) THEN 1 ELSE 0) + Len(Image(c)) + (IF Full(c) THEN 1 ELSE 0)
                   > DigitSpace
Disturbed == \E k \in 1 .. done : TooLong(script.calls[k])

\* The file behind its first line, and behind its first k lines.
Later(text) == IF HasNewline(text) THEN SubSeq(text, FirstNewline(text) + 1, Len(text)) ELSE <<>>
Unread[k \in Nat] == IF k = 0 THEN script.file ELSE Later(Unread[k - 1])
LineFits(text) ==
    (IF HasNewline(text) THEN FirstNewline(text) ELSE Len(text)) <= StringSpace
LinesAreRead ==
    \A k \in DOMAIN inputs :
       /\ HasNewline(Unread[k - 1]) => inputs[k] = Number(FirstLine(Unread[k - 1]))
       /\ Unread[k - 1] = <<>> => inputs[k] = IF k = 1 THEN 0 ELSE inputs[k - 1]

\* INPUT stores the value of the first line in the buffer: what follows the
\* newline in a chunk is lost, and a chunk without one is read on into what
\* older chunks have left.  On a terminal, if no line fills the buffer, that is
\* the k-th line for the k-th INPUT, and after the end of the file what the
\* INPUT before it got, every time.  The registers and both buffers stay well
\* formed.
InputsRead ==
    /\ TypeOK
    /\ ~Disturbed =>
          /\ \A k \in DOMAIN inputs : inputs[k] = Number(FirstLine(Overlay(k)))
          /\ script.terminal /\ (\A k \in 0 .. Len(script.calls) : LineFits(Unread[k]))
             => LinesAreRead

\* Every call returns.
Returns == pc # "idle" ~> pc \in {"idle", "crashed"}
=============================================================================
