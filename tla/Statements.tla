------------------------------ MODULE Statements ------------------------------
(***************************************************************************)
(* The statements of a program as start() and handle_statements of gen.c   *)
(* translate them, and what the assembler and the linker say of the result.*)
(*                                                                         *)
(* Lines are numbered 1, 2, ... and every target of a jump is a line       *)
(* (StatementOrder).  A statement has an op and what the op needs: v a     *)
(* variable; from, upto and cells a FOR (cells is 3 with STEP); to a line; *)
(* then and else, which may be NoStmt, the statements of an IF.  An IF may *)
(* have IFs in it, and these none.  "show" is PRINT of a variable or of an *)
(* expression with one, "print" any other PRINT, "bump" INC or DEC, "rem"  *)
(* REM or CLS.                                                             *)
(*                                                                         *)
(* Slots are given out here, one word of four bytes after the other below  *)
(* %rbp; only the sub instructions of LET and FOR will keep %rsp below     *)
(* them.  Expressions (Expressions) are left out, and so is counterInt:    *)
(* NEXT counts it down from 0 to name a scratch register, and what it then *)
(* reads outside counterArr is, in the layout the build has, a zero.       *)
(***************************************************************************)
EXTENDS Integers, Sequences, FiniteSets

CONSTANTS Vars,             \* names of variables
          WhileSize,        \* cells of whileArr (NON_HEAP_STACK_SIZE)
          CounterRange,     \* words that the unsigned char counterAddr can tell apart
          Programs          \* the programs considered: sequences of statements
ASSUME SizesAssumption == WhileSize \in Nat \ {0} /\ CounterRange \in Nat \ {0}

NoStmt == [op |-> "none"]
Plain  == [op : {"print", "rem", "while", "wend", "return", "end"}] \union
          [op : {"let", "input", "show", "bump", "next"}, v : Vars] \union
          [op : {"goto", "gosub"}, to : Nat] \union
          [op : {"for"}, v : Vars, from : Nat, upto : Nat, cells : {2, 3}]
IfOf(statements) == [op : {"if"}, then : statements, else : statements \union {NoStmt}]
Inner     == Plain \union IfOf(Plain)
Statement == Plain \union IfOf(Inner)

VARIABLES
    prog,
    at,                     \* the line start() has reached
    work,                   \* what is left to do of it, innermost statement first
    code,                   \* the instructions emitted
    slot, used,             \* slot of each variable, 0 for none; slots given out
    ends,                   \* frames popped: END statements met
    whileArr, whileInt, whileId,
    if_ind, counterAddr,
    pc, fault

tables  == <<slot, used, ends, whileArr, whileInt, whileId, if_ind, counterAddr>>
genVars == <<prog, at, work, code, tables>>

NoKey   == -1
NoFault == "none"

GenInit ==
    /\ prog \in Programs
    /\ at = 0 /\ work = <<>> /\ code = <<>>
    /\ slot = [v \in Vars |-> 0] /\ used = 0 /\ ends = 0
    /\ whileArr = [k \in 0 .. WhileSize - 1 |-> NoKey] /\ whileInt = 0 /\ whileId = 0
    /\ if_ind = 0 /\ counterAddr = 0
    /\ pc = "generate" /\ fault = NoFault

\* What there is to do of a line: statements, and what follows the THEN and
\* the ELSE part of an IF.  The path says under which outcomes of the tests
\* of the line the statement is to be executed.
Item(do, s, path)  == [do |-> do, s |-> s, path |-> path]
Now  == work[1]
S    == Now.s
Done == work' = Tail(work)

Ins(op, x)   == [i |-> op, x |-> x, line |-> at, path |-> Now.path]
Label(name)  == Ins("label", name)
Emit(instrs) == code' = code \o instrs

Generating(op) == pc = "generate" /\ work # <<>> /\ Now.do = "stmt" /\ S.op = op
GenFault(why)  == pc' = "fault" /\ fault' = why /\ UNCHANGED genVars

-----------------------------------------------------------------------------
\* The statements of a program in the order of its text; an IF is its parts.
Parts(s)   == IF s.op = "if" THEN <<s.then, s.else>> ELSE <<s>>
Leaves(s)  == IF s.op = "if" THEN Parts(s.then) \o Parts(s.else) ELSE <<s>>
Text(p)    == LET text[k \in 0 .. Len(p)] == IF k = 0 THEN <<>> ELSE text[k - 1] \o Leaves(p[k])
              IN  text[Len(p)]
Targets(p) == { Text(p)[k].to : k \in { m \in DOMAIN Text(p) : Text(p)[m].op \in {"goto", "gosub"} } }

ASSUME ProgramsAssumption == \A p \in Programs : p \in Seq(Statement) /\ Targets(p) \subseteq DOMAIN p

\* start: the line's label if a jump names it, then its statement.
LineLabel(k) == [i |-> "label", x |-> <<"goto", k>>, line |-> k, path |-> <<>>]
Line ==
    /\ pc = "generate" /\ work = <<>> /\ at < Len(prog)
    /\ at' = at + 1
    /\ work' = <<Item("stmt", prog[at + 1], <<>>)>>
    /\ Emit(IF at + 1 \in Targets(prog) THEN <<LineLabel(at + 1)>> ELSE <<>>)
    /\ UNCHANGED <<prog, tables, pc, fault>>

\* A statement that changes no table of the generator.
Plainly(op, instrs) ==
    /\ Generating(op)
    /\ Emit(instrs) /\ Done
    /\ UNCHANGED <<prog, at, tables, pc, fault>>

GenPrint  == Plainly("print", <<Ins("lib", 0)>>)        \* itoa and newline
GenRem    == Plainly("rem", <<>>)
GenGoto   == Plainly("goto", <<Ins("jmp", <<"goto", S.to>>)>>)
GenGosub  == Plainly("gosub", <<Ins("call", <<"goto", S.to>>)>>)
GenReturn == Plainly("return", <<Ins("ret", 0)>>)
\* INC and DEC take the slot as it is, 0 if there is none (SymbolTable).
GenBump   == Plainly("bump", <<Ins("bump", [slot |-> slot[S.v], v |-> S.v])>>)

\* check_addr.  END pops the frame and moves stackpos with it, so that the
\* slots go on where they were; after a second END cur_frame is outside.
Framed    == ends <= 1
SlotOf(v) == IF slot[v] # 0 THEN slot[v] ELSE used + 1
Place     == [slot |-> SlotOf(S.v), v |-> S.v]

Slotted(op, instrs) ==
    /\ Generating(op) /\ (slot[S.v] # 0 \/ Framed)
    /\ slot' = [slot EXCEPT ![S.v] = SlotOf(S.v)]
    /\ used' = IF slot[S.v] # 0 THEN used ELSE used + 1
    /\ Emit(instrs) /\ Done
    /\ UNCHANGED <<prog, at, ends, whileArr, whileInt, whileId, if_ind, counterAddr, pc, fault>>

LetWithoutSub == <<Ins("store", Place)>>                        \* mutant
LetCode   == <<Ins("sub", 1), Ins("store", Place)>>
InputWithSub == <<Ins("sub", 1), Ins("lib", 0), Ins("store", Place)>>   \* mutant
InputCode == <<Ins("lib", 0), Ins("store", Place)>>             \* atoi first

GenLet   == Slotted("let", LetCode)
GenInput == Slotted("input", InputCode)
GenShow  == Slotted("show", <<Ins("load", Place), Ins("lib", 0)>>)

\* handle_for_statement.  counterAddr is the byte offset cut to eight bits.
NextWord(s) == (s + 1) % CounterRange       \* mutant
ByteWide(s) == s % CounterRange
GenFor ==
    /\ Generating("for") /\ Framed
    /\ Emit(<<Ins("sub", S.cells), Ins("for", [slot |-> used + 1, s |-> S]),
              Ins("jmp", <<"for_cmp", S.v>>), Label(<<"for_iter", S.v>>)>>)
    /\ Done
    /\ used' = used + S.cells /\ counterAddr' = ByteWide(used + 1)
    /\ UNCHANGED <<prog, at, slot, ends, whileArr, whileInt, whileId, if_ind, pc, fault>>

\* NEXT: whatever loop it names, the counter is that of the latest FOR.
GenNext ==
    Plainly("next",
            <<Ins("incr", [slot |-> counterAddr, v |-> S.v]), Label(<<"for_cmp", S.v>>),
              Ins("loop", [slot |-> counterAddr, v |-> S.v, to |-> <<"for_iter", S.v>>])>>)

\* WHILE does not move whileInt, WEND moves it on.
GenWhile ==
    /\ Generating("while") /\ whileInt < WhileSize
    /\ whileArr' = [whileArr EXCEPT ![whileInt] = whileId] /\ whileId' = whileId + 1
    /\ Emit(<<Ins("jmp", <<"while_cmp", whileId>>), Label(<<"while_iter", whileId>>)>>)
    /\ Done
    /\ UNCHANGED <<prog, at, slot, used, ends, whileInt, if_ind, counterAddr, pc, fault>>

Pending    == whileInt < WhileSize /\ whileArr[whileInt] # NoKey
SameCell(n) == n                \* mutant
NextCell(n) == n + 1
GenWend ==
    /\ Generating("wend") /\ Pending
    /\ Emit(<<Label(<<"while_cmp", whileArr[whileInt]>>),
              Ins("jge", <<"while_iter", whileArr[whileInt]>>)>>)
    /\ Done
    /\ whileInt' = NextCell(whileInt)
    /\ UNCHANGED <<prog, at, slot, used, ends, whileArr, whileId, if_ind, counterAddr, pc, fault>>

\* handle_if_statement: if_ind is read again at each of its uses.
GenIf ==
    /\ Generating("if")
    /\ Emit(<<Ins("jl", <<".false", if_ind>>)>>)
    /\ work' = <<Item("stmt", S.then, Append(Now.path, TRUE)), Item("else", S, Now.path)>>
                 \o Tail(work)
    /\ UNCHANGED <<prog, at, tables, pc, fault>>

ElseWithoutSkip == <<Label(<<".false", if_ind>>)>>               \* mutant
ElseCode == <<Ins("skip", <<".end", if_ind>>), Label(<<".false", if_ind>>)>>
GenElse ==
    /\ pc = "generate" /\ work # <<>> /\ Now.do = "else"
    /\ Emit(ElseCode)
    /\ work' = (IF S.else = NoStmt THEN <<>>
                ELSE <<Item("stmt", S.else, Append(Now.path, FALSE))>>)
                 \o <<Item("end", S, Now.path)>> \o Tail(work)
    /\ UNCHANGED <<prog, at, tables, pc, fault>>

IndexKept    == if_ind          \* mutant
IndexAfterIf == if_ind + 1
GenEndIf ==
    /\ pc = "generate" /\ work # <<>> /\ Now.do = "end"
    /\ Emit(<<Label(<<".end", if_ind>>)>>) /\ Done
    /\ if_ind' = IndexAfterIf
    /\ UNCHANGED <<prog, at, slot, used, ends, whileArr, whileInt, whileId, counterAddr, pc, fault>>

GenEnd ==
    /\ Generating("end")
    /\ Emit(<<Ins("exit", 0)>>) /\ Done
    /\ ends' = ends + 1
    /\ UNCHANGED <<prog, at, slot, used, whileArr, whileInt, whileId, if_ind, counterAddr, pc, fault>>

\* What stops the compiler: frameArr and whileArr left, no WHILE to read.
FrameLost ==
    /\ \/ \E op \in {"let", "input", "show"} : Generating(op) /\ slot[S.v] = 0
       \/ Generating("for")
    /\ ~Framed /\ GenFault("frame")
WhileOverflow == Generating("while") /\ whileInt >= WhileSize /\ GenFault("stack overflow")
WendAlone     == Generating("wend") /\ ~Pending /\ GenFault("no while")

-----------------------------------------------------------------------------
(* The assembler takes each label once, the linker wants each one defined. *)

Labels      == { k \in DOMAIN code : code[k].i = "label" }
CodeOf(ops) == { code[k] : k \in { m \in DOMAIN code : code[m].i \in ops } }
Defined     == { code[k].x : k \in Labels }
Named       == { ins.x : ins \in CodeOf({"jmp", "skip", "jl", "jge", "call"}) } \union
               { ins.x.to : ins \in CodeOf({"loop"}) }
Assembles   == Named \subseteq Defined /\ Cardinality(Labels) = Cardinality(Defined)

Assemble ==
    /\ pc = "generate" /\ work = <<>> /\ at = Len(prog)
    /\ pc' = IF Assembles THEN "run" ELSE "rejected"
    /\ UNCHANGED <<genVars, fault>>

Generate == \/ Line \/ GenPrint \/ GenRem \/ GenGoto \/ GenGosub \/ GenReturn \/ GenBump
            \/ GenLet \/ GenInput \/ GenShow \/ GenFor \/ GenNext \/ GenWhile \/ GenWend
            \/ GenIf \/ GenElse \/ GenEndIf \/ GenEnd
            \/ FrameLost \/ WhileOverflow \/ WendAlone \/ Assemble

-----------------------------------------------------------------------------
(* Properties.                                                             *)

CompileFaults == {"frame", "stack overflow", "no while"}

TextRead == Text(SubSeq(prog, 1, at))     \* of the lines begun

Positions(t, ops) == { k \in DOMAIN t : t[k].op \in ops }
Before(t, k, ops) == { m \in Positions(t, ops) : m < k }
AfterWhile(t, k)  == \E m \in Before(t, k, {"while"}) : Before(t, k, {"wend"}) \subseteq 1 .. m
Mentioned(t, k)   == \E m \in Before(t, k, {"let", "input", "show"}) : t[m].v = t[k].v

\* What in a text stops the compiler.
StopsAt(why, t, k) ==
    \/ /\ why = "no while" /\ t[k].op = "wend"
       /\ ~AfterWhile(t, k)
    \/ /\ why = "stack overflow" /\ t[k].op = "while"
       /\ Cardinality(Before(t, k, {"wend"})) = WhileSize
    \/ /\ why = "frame" /\ Cardinality(Before(t, k, {"end"})) > 1
       /\ \/ t[k].op = "for"
          \/ t[k].op \in {"let", "input", "show"} /\ ~Mentioned(t, k)
Stops(why, t) == \E k \in DOMAIN t : StopsAt(why, t, k)

\* The compiler stops for exactly these reasons: a WEND with no WHILE since
\* the WEND before it, so any nest of two loops; a WHILE after WhileSize
\* loops, though all of them are closed; a new variable or a FOR after the
\* second END.
CompileStops ==
    /\ pc = "fault" /\ fault \in CompileFaults => Stops(fault, TextRead)
    /\ pc = "generate" /\ work = <<>> => \A why \in CompileFaults : ~Stops(why, TextRead)

\* What is generated can be assembled and linked just when each variable has
\* no FOR and no NEXT or one of each, no WHILE is left open or within another,
\* and no ELSE part is an IF: then all labels are unique and none is missing.
LoopsPaired(t) == \A v \in Vars :
    LET Of(op) == Cardinality({ k \in Positions(t, {op}) : t[k].v = v })
    IN  Of("for") = Of("next") /\ Of("for") <= 1
WhilesClosed(t) == \A k \in Positions(t, {"while"}) :
    \E m \in Positions(t, {"wend"}) : m > k /\ Before(t, m, {"while"}) \subseteq 1 .. k
NoElseIf(p) == \A k \in DOMAIN p : p[k].op = "if" =>
    p[k].else.op # "if" /\ (p[k].then.op = "if" => p[k].then.else.op # "if")
Matched(p) == LoopsPaired(Text(p)) /\ WhilesClosed(Text(p)) /\ NoElseIf(p)

LabelsExplained == pc \in {"run", "rejected"} => (pc = "run") = Matched(prog)
=============================================================================
