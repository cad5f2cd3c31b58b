-------------------------- MODULE StatementParser --------------------------
(***************************************************************************)
(* The statement parser of parse.c: parse_AST and the functions it calls,  *)
(* on the lines of a program one after the other.                          *)
(*                                                                         *)
(* All of them share the cursor (ExprTree).  Statements differ in where    *)
(* they leave it: an arithmetic expression ends past its last token, a     *)
(* name, a number, a string or a keyword on it.  parse_IfStatementExp      *)
(* takes one step after the THEN part whatever that was.                   *)
(*                                                                         *)
(* parse_AST tells statements apart by hash, which is the sum of the       *)
(* characters: a name, or a number, with the sum of a keyword is taken for *)
(* it.                                                                     *)
(*                                                                         *)
(* IF is the only statement with statements in it: frames holds the calls  *)
(* of parse_NumLineExp and parse_IfStatementExp that wait for parse_AST,   *)
(* innermost first.  A name stands for its symbol (SymbolTable).  Strings  *)
(* come after PRINT only; floats, and the intervals of an expression       *)
(* (Expressions), are left out.                                            *)
(***************************************************************************)
EXTENDS ExprTac

CONSTANT Programs   \* sets of programs; a program is a sequence of lines: toks, and the
                    \* statement it says or NullExp

VARIABLES
    prog, at,       \* the program and the line being parsed
    p,              \* the cursor
    frames, node,   \* calls that wait, what the last one returned
    lines,          \* per line done: the node, the cursor it left
    goto_s,
    pc, fault

vars == <<prog, at, p, frames, node, lines, goto_s, pc, fault>>

NullNode == NullExp
StrToken == [t |-> "str"]
LineNumber(n, s) == [op |-> "numline", num |-> n, next |-> s]
OneWord(op)      == [op |-> op]
OneName(op, v)   == [op |-> op, v |-> v]
OneExp(op, e)    == [op |-> op, e |-> e]
Jump(op, n)      == [op |-> op, to |-> n]
Assign(v, e)     == [op |-> "let", v |-> v, e |-> e]
FinalTwice(a, f, s) == [op |-> "FOR", init |-> a, final |-> f, step |-> f]   \* mutant
For(a, f, s)     == [op |-> "FOR", init |-> a, final |-> f, step |-> s]
If(e, s, r)      == [op |-> "if", e |-> e, then |-> s, else |-> r]
String           == [tag |-> "str"]

Init ==
    /\ \E k \in DOMAIN Programs : prog \in Programs[k]
    /\ at = 0 /\ p = Cursor(<<>>, 0) /\ frames = <<>> /\ node = NullNode
    /\ lines = <<>> /\ goto_s = <<>> /\ pc = "read" /\ fault = "none"

\* main: the next line.  ParenthesisLvl stays as it was.
ReadLine ==
    /\ pc = "read" /\ at < Len(prog)
    /\ at' = at + 1 /\ p' = Cursor(prog[at + 1].toks, p.lvl) /\ pc' = "parse"
    /\ UNCHANGED <<prog, frames, node, lines, goto_s, fault>>

-----------------------------------------------------------------------------
\* hash: the sum of a token's characters.  Its other half b is below 65521, so
\* that b >> 16 is 0 and the order of the characters does not count.
Ascii == "()*+,-./0123456789:;<=>?@ABCDEFGHIJKLMNOPQRSTUVWXYZ"
CodeOf == [c \in { SubSeq(Ascii, k, k) : k \in 1 .. Len(Ascii) } |->
              39 + CHOOSE k \in 1 .. Len(Ascii) : SubSeq(Ascii, k, k) = c]
RECURSIVE SumOf(_), OfNumber(_)
SumOf(w)    == IF w = "" THEN 0 ELSE CodeOf[SubSeq(w, 1, 1)] + SumOf(SubSeq(w, 2, Len(w)))
OfNumber(v) == 48 + (v % 10) + IF v < 10 THEN 0 ELSE OfNumber(v \div 10)
hash(token) == IF token.t = "int" THEN OfNumber(token.v) ELSE SumOf(token.w)

\* The cases of parse_AST.
Keywords == {"LET", "PRINT", "INPUT", "END", "IF", "FOR", "NEXT", "WHILE", "WEND", "REM", "GOSUB",
             "GOTO", "RETURN", "CLS", "DEC", "INC"}
KeywordHash ==
    [w \in Keywords |->
        CASE w = "LET"   -> 229 [] w = "PRINT" -> 397 [] w = "INPUT"  -> 400 [] w = "IF"  -> 143
          [] w = "WHILE" -> 377 [] w = "WEND"  -> 302 [] w = "FOR"    -> 231 [] w = "NEXT" -> 319
          [] w = "CLS"   -> 226 [] w = "END"   -> 215 [] w = "REM"    -> 228 [] w = "GOTO" -> 313
          [] w = "GOSUB" -> 384 [] w = "RETURN" -> 480 [] w = "DEC"   -> 204 [] w = "INC" -> 218]
Taken(token) == { w \in Keywords : KeywordHash[w] = hash(token) }

\* parse_AST at a token it takes for one of the keywords.
Numbered    == p.tokInd = 0 /\ cur_token(p).t = "int"
Switch      == pc = "parse" /\ cur_token(p) # Word("") /\ ~Numbered
At(words)   == Switch /\ Taken(cur_token(p)) \intersect words # {}
Statement   == CHOOSE w \in Taken(cur_token(p)) : TRUE
Return(n, q) ==
    /\ node' = n /\ p' = q /\ pc' = "return"
    /\ UNCHANGED <<prog, at, frames, lines, goto_s, fault>>
Fail(why) ==
    /\ pc' = "end" /\ fault' = why
    /\ UNCHANGED <<prog, at, p, frames, node, lines, goto_s>>
Call(frame, q) ==
    /\ frames' = <<frame>> \o frames /\ p' = q /\ pc' = "parse"
    /\ UNCHANGED <<prog, at, lines, goto_s, node, fault>>

KeepsQuiet(q) == q                              \* mutant
Complain(q)   == Error(q)

NoTokens == pc = "parse" /\ cur_token(p) = Word("") /\ Return(NullNode, p)

\* parse_NumLineExp.
NumLine == /\ pc = "parse" /\ Numbered
           /\ Call([in |-> "numline", num |-> cur_token(p).v], get_next_token(p))

\* parse_OneWordStatementExp; of END, which goes through parse_CommonExp.
OneWordStatement == At({"REM", "WEND", "RETURN", "CLS"}) /\ Return(OneWord(Statement), p)
EndStatement     == At({"END"}) /\ Return(OneWord("END"), get_next_token(p))

\* parse_VarExp: any token is a name; an integer is complained about.
NameAt(q)   == [name |-> cur_token(q), p |-> IF cur_token(q).t = "int" THEN Complain(q) ELSE q]
NameStatement ==
    /\ At({"INPUT", "INC", "DEC", "NEXT"})
    /\ \E arg \in {NameAt(get_next_token(p))} :
          Return(OneName(Statement, arg.name), arg.p)

\* What a function below parse_AST has read, or why it dies.
Read(n, q)   == [fault |-> "none", node |-> n, p |-> q]
Dies(why)    == [fault |-> why]
Fails(got)   == got.fault # "none" /\ Fail(got.fault)
Returns(got) == got.fault = "none" /\ Return(got.node, got.p)

\* parse_arith_expression, whose ASTtoTAC reads the tree.
ExpressionAt(q) ==
    LET got == iter_parse_exp(IF q.lvl # 0 THEN Complain(q) ELSE q, -1)
    IN  IF NullRead(got.exp) THEN Dies("no leaf") ELSE Read(got.exp, got.p)
WhileStatement ==
    /\ At({"WHILE"})
    /\ \E got \in {ExpressionAt(get_next_token(p))} :
          Fails(got) \/ (got.fault = "none" /\ Return(OneExp("WHILE", got.node), got.p))

PrintStatement ==
    /\ At({"PRINT"})
    /\ \E q \in {get_next_token(p)} :
          IF cur_token(q) = StrToken THEN Return(OneExp("PRINT", String), q)
          ELSE \E got \in {ExpressionAt(q)} :
                  Fails(got) \/ (got.fault = "none" /\ Return(OneExp("PRINT", got.node), got.p))

\* parse_AssignExp from the name on.  The value has to begin with a number.
AssignAt(q) ==
    LET name  == NameAt(q)
        sign  == get_next_token(name.p)
        value == ExpressionAt(get_next_token(sign))
    IN  IF cur_token(sign) # Word("=") THEN Read(Assign(name.name, NullExp), Complain(sign))
        ELSE IF cur_token(get_next_token(sign)).t # "int" THEN Dies("assert number")
        ELSE IF value.fault # "none" THEN value
        ELSE Read(Assign(name.name, value.node), value.p)

LetStatement ==
    At({"LET"}) /\ \E got \in {AssignAt(get_next_token(p))} : Fails(got) \/ Returns(got)

LetBySpelling ==                                \* mutant
    /\ Switch /\ cur_token(p) \notin { Word(w) : w \in Keywords }
    /\ \E got \in {AssignAt(p)} : Fails(got) \/ Returns(got)
DefaultLet ==
    /\ Switch /\ Taken(cur_token(p)) = {}
    /\ \E got \in {AssignAt(p)} : Fails(got) \/ Returns(got)

\* parse_GotoStatementExp; atoi makes 0 of a word.
Target(q)  == IF cur_token(q).t = "int" THEN cur_token(q).v ELSE 0
PushedFirst(num)   == <<num>> \o goto_s         \* mutant
Pushed(num)        == Append(goto_s, num)
GotoStatement ==
    /\ At({"GOTO", "GOSUB"})
    /\ \E q \in {get_next_token(p)} :
          /\ node' = Jump(Statement, Target(q)) /\ goto_s' = Pushed(Target(q))
          /\ p' = IF cur_token(q).t = "int" THEN q ELSE Complain(q)
    /\ pc' = "return"
    /\ UNCHANGED <<prog, at, frames, lines, fault>>

\* parse_ForStatementExp: without TO the node is dropped.
StepAt(a, final) ==
    LET step == ExpressionAt(get_next_token(final.p))
    IN  IF cur_token(final.p) # Word("STEP") THEN Read(For(a, final.node, NullExp), final.p)
        ELSE IF step.fault # "none" THEN step
        ELSE Read(For(a, final.node, step.node), step.p)
ForAt(q) ==
    LET init  == AssignAt(q)
        final == ExpressionAt(get_next_token(init.p))
    IN  IF init.fault # "none" THEN init
        ELSE IF cur_token(init.p) # Word("TO") THEN Read(NullNode, Complain(init.p))
        ELSE IF final.fault # "none" THEN final
        ELSE StepAt(init.node, final)
ForStatement ==
    At({"FOR"}) /\ \E got \in {ForAt(get_next_token(p))} : Fails(got) \/ Returns(got)

\* parse_IfStatementExp to its first call of parse_AST.
IfStatement ==
    /\ At({"IF"})
    /\ \E got \in {ExpressionAt(get_next_token(p))} :
          \/ Fails(got)
          \/ /\ got.fault = "none"
             /\ IF cur_token(got.p) # Word("THEN") THEN Return(NullNode, Complain(got.p))
                ELSE Call([in |-> "then", e |-> got.node], get_next_token(got.p))

-----------------------------------------------------------------------------
\* Back in the innermost call that waits.
Waiting(in)  == pc = "return" /\ frames # <<>> /\ frames[1].in = in
Resume(n, q) == /\ node' = n /\ p' = q /\ frames' = Tail(frames)
                /\ UNCHANGED <<prog, at, lines, goto_s, pc, fault>>

StaysThere(q) == q                              \* mutant
AfterThen(q)  == get_next_token(q)
ThenDone ==
    /\ Waiting("then")
    /\ \E q \in {AfterThen(p)} :
          IF cur_token(q) # Word("ELSE") THEN Resume(If(frames[1].e, node, NullNode), q)
          ELSE /\ frames' = <<[in |-> "else", e |-> frames[1].e, then |-> node]>> \o Tail(frames)
               /\ p' = get_next_token(q) /\ pc' = "parse"
               /\ UNCHANGED <<prog, at, lines, goto_s, node, fault>>
WithElse(f)   == If(f.e, f.then, node)
ElseDone    == Waiting("else") /\ Resume(WithElse(frames[1]), p)
NumLineDone == Waiting("numline") /\ Resume(LineNumber(frames[1].num, node), p)

LineDone ==
    /\ pc = "return" /\ frames = <<>>
    /\ lines' = Append(lines, [node |-> node, tokInd |-> p.tokInd, err |-> p.err])
    /\ pc' = "read"
    /\ UNCHANGED <<prog, at, p, frames, node, goto_s, fault>>

Exited == /\ \/ pc = "end"
             \/ pc = "read" /\ at = Len(prog)
          /\ UNCHANGED vars

Next == \/ ReadLine \/ NoTokens \/ NumLine \/ OneWordStatement \/ EndStatement \/ NameStatement
        \/ WhileStatement \/ PrintStatement \/ LetStatement \/ DefaultLet \/ GotoStatement
        \/ ForStatement \/ IfStatement \/ ThenDone \/ ElseDone \/ NumLineDone \/ LineDone \/ Exited
Spec == Init /\ [][Next]_vars
-----------------------------------------------------------------------------
(* Properties.                                                             *)

TypeOK ==
    /\ at \in 0 .. Len(prog) /\ Len(lines) \in {at, at - 1}
    /\ p.tokInd \in 0 .. Len(p.toks) /\ p.err \in BOOLEAN
    /\ \A k \in DOMAIN frames : frames[k].in = "numline" => k = Len(frames)
    /\ goto_s \in Seq(Nat)
    /\ pc \in {"read", "parse", "return", "end"} /\ fault \in {"none", "no leaf", "assert number"}
    /\ (fault = "none") = (pc # "end")

\* The text of a statement; the word LET is left out, as it may be.
Step(s)  == IF s = NullExp THEN <<>> ELSE <<Word("STEP")>> \o InOrder(s)
Value(e) == IF e = NullExp THEN <<>> ELSE <<Word("=")>> \o InOrder(e)
RECURSIVE Text(_)
Text(s) ==
    IF s = NullNode THEN <<>>
    ELSE CASE s.op = "numline" -> <<IntToken(s.num)>> \o Text(s.next)
           [] s.op = "let"     -> <<s.v>> \o Value(s.e)
           [] s.op = "PRINT" /\ s.e = String -> <<Word("PRINT"), StrToken>>
           [] s.op \in {"PRINT", "WHILE"} /\ s.e # String -> <<Word(s.op)>> \o InOrder(s.e)
           [] s.op \in {"INPUT", "INC", "DEC", "NEXT"} -> <<Word(s.op), s.v>>
           [] s.op \in {"GOTO", "GOSUB"} -> <<Word(s.op), IntToken(s.to)>>
           [] s.op = "FOR"     -> <<Word("FOR")>> \o Text(s.init) \o <<Word("TO")>>
                                  \o InOrder(s.final) \o Step(s.step)
           [] s.op = "if"      -> <<Word("IF")>> \o InOrder(s.e) \o <<Word("THEN")>> \o Text(s.then)
                                  \o IF s.else = NullNode THEN <<>> ELSE <<Word("ELSE")>> \o Text(s.else)
           [] OTHER            -> <<Word(s.op)>>

\* Statements that leave the cursor past their last token.
RECURSIVE EndsPast(_), LosesElse(_), ThenEndsPast(_)
EndsPast(s) == CASE s.op \in {"let", "FOR", "WHILE", "END"} -> TRUE
                 [] s.op = "PRINT" -> s.e # String
                 [] s.op = "if"    -> s.else = NullNode \/ EndsPast(s.else)
                 [] OTHER          -> FALSE
LosesElse(s) == /\ s # NullNode /\ s.op = "if"
                /\ \/ s.else # NullNode /\ EndsPast(s.then)
                   \/ LosesElse(s.then) \/ LosesElse(s.else)
ThenEndsPast(s) == /\ s # NullNode /\ s.op = "if"
                   /\ \/ EndsPast(s.then) \/ ThenEndsPast(s.then) \/ ThenEndsPast(s.else)

Said(k) == prog[k].says

\* The words and numbers in a text where a statement begins that are taken for
\* a keyword they are not.
Begins(toks, m) == \/ m = 1 /\ toks[1].t # "int"
                   \/ m = 2 /\ toks[1].t = "int"
                   \/ m > 1 /\ toks[m - 1] \in {Word("THEN"), Word("ELSE")}
Mistaken(toks) == { m \in DOMAIN toks : /\ Begins(toks, m) /\ Taken(toks[m]) # {}
                                        /\ toks[m] \notin { Word(w) : w \in Keywords } }
Spelled(k) == Mistaken(prog[k].toks) = {}

\* Statements that are s with some ELSE parts left out, and those in which
\* every assignment of a value begins it with a number.
RECURSIVE WithLess(_), NumbersFirst(_)
WithLess(s) ==
    IF s = NullNode \/ s.op # "if" THEN {s}
    ELSE { If(s.e, t, e) : t \in WithLess(s.then), e \in {NullNode} \union WithLess(s.else) }
NumbersFirst(s) == CASE s = NullNode  -> TRUE
                     [] s.op = "let"  -> InOrder(s.e)[1].t = "int"
                     [] s.op = "FOR"  -> NumbersFirst(s.init)
                     [] s.op = "if"   -> NumbersFirst(s.then) /\ NumbersFirst(s.else)
                     [] OTHER         -> TRUE

\* The text of a statement, of which no word has the sum of a keyword it is
\* not, is read as that statement, an ELSE with the nearest IF, except, and
\* always, if an ELSE follows a THEN part that leaves the cursor past its end:
\* that ELSE is not seen.  Nothing else is ever lost.  The parser dies of it
\* only, and always, at an assignment whose value does not begin with a number.
ReadAsWritten ==
    /\ \A k \in DOMAIN lines : Said(k) # NullNode /\ Spelled(k) =>
          /\ lines[k].node = Said(k) <=> ~LosesElse(Said(k).next)
          /\ \E s \in WithLess(Said(k).next) :
                lines[k].node = LineNumber(Said(k).num, s) /\ NumbersFirst(s)
    /\ pc = "end" /\ Said(at) # NullNode /\ Spelled(at) =>
          fault = "assert number" /\ ~NumbersFirst(Said(at).next)

\* An assignment without LET whose name has the sum of a keyword is read as
\* the statement of that keyword, never as the assignment: without a word of
\* it if that statement has no operand or takes any token for a name, with an
\* error if it wants a number or an assignment, and the parser dies if it wants
\* an expression.
SilentlyRead == {"END", "WEND", "REM", "RETURN", "CLS", "INPUT", "NEXT", "DEC", "INC"}
WantNothing  == {"END", "WEND", "REM", "RETURN", "CLS"}
SameSum ==
    LET Short(k) == Said(k) # NullNode /\ Said(k).next.op = "let" /\ ~Spelled(k)
        As(k) == CHOOSE w \in Taken(prog[k].toks[2]) : TRUE
    IN  /\ \A k \in DOMAIN lines : Short(k) =>
              /\ As(k) \in SilentlyRead \union {"LET", "FOR", "GOTO", "GOSUB"}
              /\ lines[k].err <=> As(k) \notin SilentlyRead
              /\ lines[k].node.next # Said(k).next
              /\ As(k) \in WantNothing => lines[k].node.next = OneWord(As(k))
        /\ pc = "end" /\ Short(at) =>
              fault = "no leaf" /\ As(at) \in {"IF", "WHILE", "PRINT"}

\* Of a line read as it is written an error is reported only, and always, if
\* some THEN part without ELSE leaves the cursor past its end.  Of any line
\* in which a statement is missing one is reported, if a token is left for it.
RECURSIVE Missing(_)
Missing(s) == CASE s = NullNode     -> TRUE
                [] s.op = "numline" -> Missing(s.next)
                [] s.op = "if"      -> Missing(s.then) \/ (s.else # NullNode /\ Missing(s.else))
                [] OTHER            -> FALSE
ComplaintsExplained ==
    \A k \in DOMAIN lines :
        /\ Said(k) # NullNode /\ Spelled(k) /\ ~LosesElse(Said(k).next) =>
              (lines[k].err <=> ThenEndsPast(Said(k).next))
        /\ ~lines[k].err /\ Missing(lines[k].node) =>
              /\ Len(prog[k].toks) <= 1
              /\ \A m \in DOMAIN prog[k].toks : prog[k].toks[m].t = "int"

\* Of any line without an error reported, and without IF in IF, the tree says
\* the tokens read, in their order, none left out or doubled, a word or number
\* that is taken for a keyword being said as that.  After a last name or
\* keyword the cursor is one less; after an IF it may be two further, for an
\* ELSE not seen and one seen with nothing after it.
AsTaken(toks) ==
    [m \in DOMAIN toks |-> IF m \in Mistaken(toks)
                             THEN Word(CHOOSE w \in Taken(toks[m]) : TRUE) ELSE toks[m]]
Words(toks) == Plain(SelectSeq(toks, LAMBDA token : token # Word("LET")))
RECURSIVE Ifs(_)
Ifs(s) == CASE s = NullNode      -> 0
            [] s.op = "numline"  -> Ifs(s.next)
            [] s.op = "if"       -> 1 + Ifs(s.then) + Ifs(s.else)
            [] OTHER             -> 0
ReadInOrder ==
    \A k \in DOMAIN lines : ~lines[k].err /\ Ifs(lines[k].node) <= 1 =>
        LET toks == Append(AsTaken(prog[k].toks), Word(""))
        IN  \E m \in lines[k].tokInd - 2 * Ifs(lines[k].node) .. lines[k].tokInd + 1 :
               Words(Text(lines[k].node)) = Words(SubSeq(toks, 1, m))

\* goto_s holds the targets of the statements kept, in the order of the text:
\* none of a statement that was dropped.  The cursor never leaves the tokens of
\* the line, whatever statement is cut short.
RECURSIVE JumpsOf(_)
JumpsOf(s) ==
    CASE s = NullNode               -> <<>>
      [] s.op = "numline"           -> JumpsOf(s.next)
      [] s.op \in {"GOTO", "GOSUB"} -> <<s.to>>
      [] s.op = "if"                -> JumpsOf(s.then) \o JumpsOf(s.else)
      [] OTHER                      -> <<>>
JumpsTo[k \in Nat] == IF k = 0 THEN <<>> ELSE JumpsTo[k - 1] \o JumpsOf(lines[k].node)
JumpsPushed == TypeOK /\ (pc = "read" => goto_s = JumpsTo[at])
=============================================================================
