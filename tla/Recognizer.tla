----------------------------- MODULE Recognizer -----------------------------
(***************************************************************************)
(* The recogniser of token.c: createNFA builds an automaton for each of    *)
(* the six patterns of init_nfa, recognizes_nfa runs one on a text, and    *)
(* DEPTH_FIRST follows the empty edges.                                    *)
(*                                                                         *)
(* The array marked and its length are shared by all automata and survive  *)
(* every call.  DEPTH_FIRST clears as many cells as the automaton before   *)
(* had states; when it makes the array longer the new cells hold whatever  *)
(* the memory held, and that is not cleared before it is used.  From the   *)
(* second search of a call on the length is right and all is cleared.      *)
(*                                                                         *)
(* The states reached are kept in a stack, a state once for each way that  *)
(* leads to it.                                                            *)
(***************************************************************************)
EXTENDS Integers, Sequences

CONSTANTS Texts,            \* the texts asked about, sequences of characters
          MaxCalls,         \* bound: calls in a behaviour
          DEFAULT_STACK_SIZE

ASSUME CallsAssumption == MaxCalls \in Nat /\ DEFAULT_STACK_SIZE \in Nat

\* init_nfa.
Pattern == [isINT              |-> "(+|-)?[0-9][0-9]*",
            isSTRING           |-> "\"(.)*\"",
            isVAR              |-> "([A-Z]|[a-z])([A-Z]|[a-z]|[0-9])*",
            isCOMMON_FLOAT     |-> "(+|-)?[0-9][0-9]*.[0-9][0-9]*",
            isDOT_FLOAT        |-> "(+|-)?.[0-9][0-9]*",
            isSCIENTIFIC_FLOAT |-> "(+|-)?[0-9][0-9]*.[0-9][0-9]*(e|E)(+|-)?[0-9][0-9]*"]
Automata == DOMAIN Pattern
M(nfa)     == Len(Pattern[nfa])
v(nfa)     == M(nfa) + 1                            \* g->v
re(nfa, s) == SubSeq(Pattern[nfa], s + 1, s + 1)    \* states are counted from 0

-----------------------------------------------------------------------------
(* createNFA.  A graph lists the successors of each state, in the order in *)
(* which they were added.                                                  *)

Graphs == Seq(Seq(Nat))
init_graph[num \in Nat] == IF num = 0 THEN <<>> ELSE Append(init_graph[num - 1], <<>>)
add_edge_graph(g, s, t) == [g EXCEPT ![s + 1] = Append(@, t)]
Adj(g, s) == g[s + 1]
top_stack(st) == st[Len(st)]
pop_s(st)     == SubSeq(st, 1, Len(st) - 1)

\* A closing parenthesis takes the bars of its group from ops to ors, and
\* from there one by one: lp is the parenthesis that opens the group.
Alternatives[g \in Graphs, ors \in Seq(Nat), lp \in Nat, p \in Nat] ==
    IF ors = <<>> THEN g
    ELSE Alternatives[add_edge_graph(add_edge_graph(g, lp, top_stack(ors) + 1), top_stack(ors), p),
                      pop_s(ors), lp, p]
Bars[nfa \in Automata, g \in Graphs, ops \in Seq(Nat), ors \in Seq(Nat), p \in Nat] ==
    LET or == top_stack(ops) IN
    IF re(nfa, or) = "|" THEN Bars[nfa, g, pop_s(ops), Append(ors, or), p]
    ELSE [lp |-> or, ops |-> IF ors = <<>> THEN ops ELSE pop_s(ops),
          g |-> Alternatives[g, ors, or, p]]
Grouped(nfa, g, ops, p) ==
    LET c == re(nfa, p) IN
    CASE c \in {"(", "|", "["} -> [lp |-> p, ops |-> Append(ops, p), g |-> g]
      [] c = ")"               -> Bars[nfa, g, ops, <<>>, p]
      [] c = "]"               -> [lp |-> top_stack(ops), ops |-> pop_s(ops), g |-> g]
      [] OTHER                 -> [lp |-> p, ops |-> ops, g |-> g]

StarOnce(g, lp, p) == add_edge_graph(g, lp, p + 1)                  \* mutant
Star(g, lp, p) == add_edge_graph(add_edge_graph(g, lp, p + 1), p + 1, lp)
Build[nfa \in Automata, g \in Graphs, ops \in Seq(Nat), p \in Nat] ==
    IF p = M(nfa) THEN g
    ELSE LET t      == Grouped(nfa, g, ops, p)
             next   == IF p < M(nfa) - 1 THEN re(nfa, p + 1) ELSE ""
             looped == CASE next = "*" -> Star(t.g, t.lp, p)
                         [] next = "?" -> add_edge_graph(t.g, t.lp, p + 1)
                         [] OTHER      -> t.g
         IN  Build[nfa, IF re(nfa, p) \in {"(", "*", ")", "]", "?"}
                      THEN add_edge_graph(looped, p, p + 1) ELSE looped, t.ops, p + 1]
createNFA(nfa) == Build[nfa, init_graph[v(nfa)], <<>>, 0]
NFA == [isINT |-> createNFA("isINT"), isSTRING |-> createNFA("isSTRING"),
        isVAR |-> createNFA("isVAR"), isCOMMON_FLOAT |-> createNFA("isCOMMON_FLOAT"),
        isDOT_FLOAT |-> createNFA("isDOT_FLOAT"),
        isSCIENTIFIC_FLOAT |-> createNFA("isSCIENTIFIC_FLOAT")]

-----------------------------------------------------------------------------
(* DEPTH_FIRST: the cells marked at its end, and the most its stack held.  *)
(* A state that is popped is followed even if it was marked meanwhile.     *)

ShortStack == 2                                                     \* mutant
DfsStack == 5
Pushed[stack \in Seq(Nat), adj \in Seq(Nat), marked \in SUBSET Nat] ==
    IF adj = <<>> THEN stack
    ELSE Pushed[IF Head(adj) \in marked THEN stack ELSE Append(stack, Head(adj)), Tail(adj), marked]
Search[g \in Graphs, stack \in Seq(Nat), marked \in SUBSET Nat, high \in Nat] ==
    IF stack = <<>> THEN [marked |-> marked, high |-> high]
    ELSE LET t == top_stack(stack)
         IN  Search[g, Pushed[pop_s(stack), Adj(g, t), marked \union {t}], marked \union {t},
                    IF Len(stack) > high THEN Len(stack) ELSE high]
DEPTH_FIRST(b, junk, s) == Search[NFA[b], <<s>>, junk, 0]

\* The states marked, as recognizes_nfa finds them.
Ascending[marked \in SUBSET Nat, s \in Nat] ==
    IF marked = {} THEN <<>>
    ELSE IF s \in marked THEN <<s>> \o Ascending[marked \ {s}, s + 1]
    ELSE Ascending[marked, s + 1]
States(marked) == Ascending[marked, 0]

\* What a search from each state leaves when all cells were cleared.
Searches[b \in Automata, s \in -1 .. 60] ==
    IF s = -1 THEN <<>>
    ELSE LET search == DEPTH_FIRST(b, {}, s)
         IN  Append(Searches[b, s - 1], [marked |-> States(search.marked), high |-> search.high])
Cleared == [isINT |-> Searches["isINT", M("isINT")],
            isSTRING |-> Searches["isSTRING", M("isSTRING")],
            isVAR |-> Searches["isVAR", M("isVAR")],
            isCOMMON_FLOAT |-> Searches["isCOMMON_FLOAT", M("isCOMMON_FLOAT")],
            isDOT_FLOAT |-> Searches["isDOT_FLOAT", M("isDOT_FLOAT")],
            isSCIENTIFIC_FLOAT |-> Searches["isSCIENTIFIC_FLOAT", M("isSCIENTIFIC_FLOAT")]]

-----------------------------------------------------------------------------
VARIABLES
    calls,      \* calls made
    markedLen,  \* 0: marked is NULL
    before,     \* markedLen when the call began
    a, str, i,  \* the automaton, the text, the characters read
    pc,         \* the states reached
    where, answer, fault

vars == <<calls, markedLen, before, a, str, i, pc, where, answer, fault>>

Init == /\ calls = 0 /\ markedLen = 0 /\ before = 0
        /\ a = "isSTRING" /\ str = <<>> /\ i = 0 /\ pc = <<>>
        /\ where = "idle" /\ answer = FALSE /\ fault = "none"

\* What realloc leaves in the cells it adds: nothing, one cell or all of them.
NewCells(b) == IF markedLen = 0 THEN {} ELSE markedLen .. M(b)
Garbage(b)  == { {}, NewCells(b) } \union { {s} : s \in NewCells(b) }

\* A call and its first search.
Call ==
    /\ where = "idle" /\ calls < MaxCalls
    /\ \E b \in Automata :
          \E start \in { States(DEPTH_FIRST(b, junk, 0).marked) : junk \in Garbage(b) },
             text \in Texts :
             a' = b /\ str' = text /\ pc' = start /\ markedLen' = v(b)
    /\ before' = markedLen /\ calls' = calls + 1 /\ i' = 0 /\ where' = "read"
    /\ UNCHANGED <<answer, fault>>

Digits == {"0", "1", "2", "3", "4", "5", "6", "7", "8", "9"}
Capitals == {"A", "B", "C", "D", "E", "F", "G", "Z"}    \* those in Texts
Small == {"a", "e", "z"}
From(lo) == CASE lo = "0" -> Digits [] lo = "A" -> Capitals [] lo = "a" -> Small

\* Where s leads with character c.
Matches(s, c) == re(a, s) \in {c, "."}
Next1(s, c) == CASE s = M(a)        -> <<>>
                 [] re(a, s) = "["  -> IF c \in From(re(a, s + 1)) THEN <<s + 4>> ELSE <<>>
                 [] OTHER           -> IF Matches(s, c) THEN <<s + 1>> ELSE <<>>
Aux(c) == LET aux[k \in 0 .. Len(pc)] == IF k = 0 THEN <<>> ELSE aux[k - 1] \o Next1(pc[k], c)
          IN  aux[Len(pc)]

\* The searches from each state of aux: what they mark goes to pc.
Followed(aux) ==
    LET reached[k \in 0 .. Len(aux)] ==
            IF k = 0 THEN <<>> ELSE reached[k - 1] \o Cleared[a][aux[k] + 1].marked
    IN  reached[Len(aux)]

\* push_s makes room one push late, and its caller never learns where.
Fits(size, arrlen) == size <= arrlen + 1

SearchesFit(aux) == \A k \in DOMAIN aux : Fits(Cleared[a][aux[k] + 1].high, DfsStack)

ReadChar ==
    /\ where = "read" /\ i < Len(str)
    /\ \E aux \in {Aux(str[i + 1])} : \E reached \in {Followed(aux)} :
         IF Fits(Len(reached), DEFAULT_STACK_SIZE) /\ SearchesFit(aux)
         THEN pc' = reached /\ i' = i + 1 /\ UNCHANGED <<where, fault>>
         ELSE /\ where' = "end" /\ fault' = IF SearchesFit(aux) THEN "pc" ELSE "dfs"
              /\ UNCHANGED <<pc, i>>
    /\ UNCHANGED <<calls, markedLen, before, a, str, answer>>

AnyLate == M(a) - 1                                                 \* mutant
LastState == M(a)
Answer ==
    /\ where = "read" /\ i = Len(str)
    /\ answer' = (\E k \in DOMAIN pc : pc[k] = LastState) /\ where' = "answered"
    /\ UNCHANGED <<calls, markedLen, before, a, str, i, pc, fault>>

Return == /\ where = "answered" /\ where' = "idle"
          /\ a' = "isSTRING" /\ str' = <<>> /\ i' = 0 /\ pc' = <<>> /\ answer' = FALSE
          /\ UNCHANGED <<calls, markedLen, before, fault>>

Exited == /\ \/ where = "end"
             \/ where = "idle" /\ calls = MaxCalls
          /\ UNCHANGED vars

Next == Call \/ ReadChar \/ Answer \/ Return \/ Exited
Spec == Init /\ [][Next]_vars
-----------------------------------------------------------------------------
(* Properties.                                                             *)

TypeOK ==
    /\ calls \in 0 .. MaxCalls /\ {markedLen, before} \subseteq { v(b) : b \in Automata } \union {0}
    /\ a \in Automata /\ str \in Texts \union {<<>>} /\ i \in 0 .. Len(str)
    /\ (\A k \in DOMAIN pc : pc[k] \in 0 .. M(a)) /\ Len(pc) <= DEFAULT_STACK_SIZE + 1
    /\ where \in {"idle", "read", "answered", "end"} /\ answer \in BOOLEAN
    /\ fault \in {"none", "pc", "dfs"}

\* What the patterns are meant to describe, "." being any character.
AllDigits(t) == t # <<>> /\ \A k \in DOMAIN t : t[k] \in Digits
Unsigned(t)  == IF t # <<>> /\ t[1] \in {"+", "-"} THEN {t, Tail(t)} ELSE {t}
Fraction(t)  == \E k \in 2 .. Len(t) - 1 : /\ AllDigits(SubSeq(t, 1, k - 1))
                                          /\ AllDigits(SubSeq(t, k + 1, Len(t)))
Language(b, t) ==
    CASE b = "isINT"      -> \E u \in Unsigned(t) : AllDigits(u)
      [] b = "isSTRING"       -> Len(t) >= 2 /\ t[1] = "\"" /\ t[Len(t)] = "\""
      [] b = "isVAR"     -> t # <<>> /\ t[1] \notin Digits
                               /\ \A k \in DOMAIN t : t[k] \in Capitals \union Small \union Digits
      [] b = "isCOMMON_FLOAT" -> \E u \in Unsigned(t) : Fraction(u)
      [] b = "isDOT_FLOAT"    -> \E u \in Unsigned(t) : u # <<>> /\ AllDigits(Tail(u))
      [] b = "isSCIENTIFIC_FLOAT" ->
            \E u \in Unsigned(t) : \E k \in DOMAIN u :
                /\ u[k] \in {"E", "e"} /\ Fraction(SubSeq(u, 1, k - 1))
                /\ \E w \in Unsigned(SubSeq(u, k + 1, Len(u))) : AllDigits(w)

Answered == where = "answered"
Meta(t) == \E k \in DOMAIN t : t[k] \in {"(", ")", "|", "?", "*", "[", "]"}

\* Whatever an array that grew holds in its new cells, no text of the pattern
\* is turned down.  If it did not grow, no other text is accepted either: only
\* one with a sign of the pattern in it, which is matched like a letter.
Recognizes ==
    Answered =>
        /\ Language(a, str) => answer
        /\ before \notin 1 .. M(a) /\ (a # "isSTRING" => ~Meta(str)) =>
              (answer => Language(a, str))

\* parse_leaf asks in this order, and for a float asks all three.  What the
\* new cells hold can make it take a token for a constant or a name it is not
\* only if the token is empty, the last state being marked, or a "*", and a
\* ")" for a name: a marked state of that sign matches it like a letter.
Floats == {"isCOMMON_FLOAT", "isDOT_FLOAT", "isSCIENTIFIC_FLOAT"}
AskedBy(b) == CASE b = "isINT"    -> {"isINT"}
                [] b = "isSTRING" -> {"isINT", "isSTRING"}
                [] b = "isVAR"    -> {"isINT", "isSTRING", "isVAR"}
                [] b \in Floats   -> Automata
LexerMakes(t) ==
    \/ \E class \in { Digits \union {"."}, Capitals, {"*", "+", ",", "-", "/", "<", "=", ">"},
                      {"?", "!", ";", ":"} } :
          \A k \in DOMAIN t : t[k] \in class
    \/ t \in {<<"(">>, <<")">>} \/ t[1] = "\""
TokensClassified ==
    Answered /\ answer /\ LexerMakes(str) /\ ~(\E b \in AskedBy(a) : Language(b, str))
    => str \in {<<>>, <<"*">>} \/ (str = <<")">> /\ a = "isVAR")

\* The only stack to overflow is pc: in a string with parentheses; in a number
\* that begins with many digits, since "." matches a digit too and each way to
\* split them leaves its states in pc again; or in a text that is no token
\* while the new cells are not clear, when fewer digits do as well.  Otherwise
\* it keeps to its cells, and holds states of the automaton only.  A constant
\* of ten digits, asked of the last automaton, and one of fourteen, asked of
\* isCOMMON_FLOAT, never get an answer.
ManyDigits == [isCOMMON_FLOAT |-> 14, isSCIENTIFIC_FLOAT |-> 10]
BeginsWith(t, n) == Len(t) >= n /\ \A k \in 1 .. n : t[k] \in Digits
FaultsExplained ==
    /\ TypeOK
    /\ Answered /\ a \in DOMAIN ManyDigits => ~BeginsWith(str, ManyDigits[a])
    /\ fault # "none" =>
          /\ fault = "pc"
          /\ \/ /\ a = "isSTRING" /\ str[1] = "\""
                /\ Len(SelectSeq(str, LAMBDA c : c \in {"(", ")"})) >= 4
             \/ /\ a \in DOMAIN ManyDigits
                /\ BeginsWith(str, IF before \in 1 .. M(a) THEN 4 ELSE ManyDigits[a])
             \/ before \in 1 .. M(a) /\ ~LexerMakes(str)
=============================================================================
