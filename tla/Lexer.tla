------------------------------- MODULE Lexer -------------------------------
(***************************************************************************)
(* LineToTokens of token.c: one line of the source file becomes tokens.    *)
(* One action for each character read.                                     *)
(*                                                                         *)
(* A token ends where the class of the characters changes.  The loop ends  *)
(* after a character that is in no class; by then it has read the next     *)
(* character, which nobody sees again.  A quote is a class and a mode, and *)
(* storing a token switches the mode off, so that a string begins only     *)
(* where there is nothing to store.                                        *)
(*                                                                         *)
(* A character is a string of one letter, "nl", "nul", or EOF, which is a  *)
(* character too once fgetc's result is cut to a char.                     *)
(***************************************************************************)
EXTENDS Integers, Sequences, FiniteSets

CONSTANTS TokenLen,         \* TOKEN_LEN, the length of word
          MaxTokens,        \* MAX_TOKENS_IN_LINE
          Letters, Lower,   \* letters; the small ones among them
          Upper(_),         \* toupper, on letters
          Operators, Digits, Puncts, Others,    \* "." is a digit here
          Files             \* the source files considered

Eof == "EOF"
Parens == {"(", ")"}
Chars == Letters \union Operators \union Digits \union Puncts \union Others \union Parens
         \union {"\"", " ", "nl", "nul"}

ASSUME SizeAssumption == {TokenLen, MaxTokens} \subseteq Nat \ {0}
ASSUME KindsAssumption ==
    \A kind \in {Letters, Operators, Digits, Puncts, Others, Parens} :
        kind \cap {"\"", " ", "nl", "nul", Eof} = {}
ASSUME LetterAssumption == Lower \subseteq Letters /\ \A c \in Lower : Upper(c) \in Letters \ Lower
ASSUME FilesAssumption == Files \subseteq Seq(Chars)

VARIABLES
    file,       \* the source
    pos,        \* characters read
    tokens,     \* tokens[0] .. tokens[j - 1] of the line
    word,       \* word[0] .. word[i - 1]
    type, last, inQuotes, isBlank, cur_char,
    begun,      \* pos where the line began
    lines,      \* history: what the calls have returned
    pc, fault

local == <<tokens, word, type, last, inQuotes, isBlank, cur_char, begun>>
vars == <<file, pos, local, lines, pc, fault>>

Fresh == /\ tokens' = <<>> /\ word' = <<>> /\ type' = "null" /\ last' = "null"
         /\ inQuotes' = FALSE /\ isBlank' = TRUE

Init == /\ file \in Files /\ pos = 0 /\ lines = <<>>
        /\ tokens = <<>> /\ word = <<>> /\ type = "null" /\ last = "null"
        /\ inQuotes = FALSE /\ isBlank = TRUE /\ cur_char = Eof /\ begun = 0
        /\ pc = "call" /\ fault = "none"

\* fgetc.
Char(p) == IF p <= Len(file) THEN file[p] ELSE Eof
Get == /\ cur_char' = Char(pos + 1)
       /\ pos' = IF pos < Len(file) THEN pos + 1 ELSE pos

Start ==
    /\ pc = "call" /\ pos < Len(file)
    /\ Fresh /\ Get /\ begun' = pos /\ pc' = "loop"
    /\ UNCHANGED <<file, lines, fault>>

EndOfFile ==
    /\ pc = "call" /\ pos = Len(file)
    /\ pc' = "end"
    /\ UNCHANGED <<file, pos, local, lines, fault>>

-----------------------------------------------------------------------------
toupper(c) == IF c \in Lower THEN Upper(c) ELSE c
Read == IF inQuotes THEN cur_char ELSE toupper(cur_char)

ClassOf(c) == CASE c = " "              -> "space"
                [] c = "nl"             -> "newline"
                [] c \in Letters        -> "latin"
                [] c \in Operators      -> "oper"
                [] c \in Digits         -> "num"
                [] c \in Parens         -> "parenthesis"
                [] c \in Puncts         -> "punct"
                [] OTHER                -> "etc"

Type == IF cur_char = "\"" \/ inQuotes THEN "quotes" ELSE ClassOf(cur_char)
Quoted == IF cur_char = "\"" THEN ~inQuotes ELSE inQuotes

\* The word ends here; a word of spaces is not stored.
WordEnds(t) == last \notin {t, "null"} \/ t = "parenthesis"
Stores(t) == WordEnds(t) /\ last # "space"

Looping == pc = "loop" /\ cur_char # "nul" /\ type # "etc"
Stored(t) == IF Stores(t) THEN Append(tokens, word) ELSE tokens
Started(t) == IF WordEnds(t) THEN <<>> ELSE word
FitsOneLess(t) == Stores(t) => Len(tokens) < MaxTokens - 1          \* mutant
TokenFits(t) == Stores(t) => Len(tokens) < MaxTokens
CharFits(t) == Len(Started(t)) < TokenLen

StillQuoted(t) == Quoted                                            \* mutant
QuotedAfter(t) == IF Stores(t) THEN FALSE ELSE Quoted

KeepsBlank(t) == isBlank                                            \* mutant
StillBlank(t) == isBlank /\ t = "space"

\* A character that is not the end of the line.
Take ==
    /\ Looping /\ Type # "newline"
    /\ TokenFits(Type) /\ CharFits(Type)
    /\ tokens' = Stored(Type) /\ word' = Append(Started(Type), Read)
    /\ type' = Type /\ last' = Type /\ inQuotes' = QuotedAfter(Type)
    /\ isBlank' = StillBlank(Type)
    /\ Get
    /\ UNCHANGED <<file, begun, lines, pc, fault>>

\* The call returns.  A blank line's tokens are not counted.
Result(found, blank) == [code |-> IF blank THEN "blank" ELSE "success",
                         tokens |-> found, from |-> begun, to |-> pos]

NewLine ==
    /\ Looping /\ Type = "newline" /\ TokenFits("newline")
    /\ tokens' = Stored("newline") /\ word' = Started("newline")
    /\ type' = "newline" /\ inQuotes' = QuotedAfter("newline")
    /\ lines' = Append(lines, Result(tokens', isBlank)) /\ pc' = "call"
    /\ UNCHANGED <<file, pos, last, isBlank, cur_char, begun, fault>>

\* After a zero byte, or a character in no class and the one behind it.
StopReading ==
    /\ pc = "loop" /\ ~Looping
    /\ lines' = Append(lines, Result(tokens, isBlank)) /\ pc' = "call"
    /\ UNCHANGED <<file, pos, local, fault>>

\* word and tokens are written behind their ends.
TokenOverflow ==
    /\ Looping /\ ~TokenFits(Type)
    /\ pc' = "end" /\ fault' = "tokens"
    /\ UNCHANGED <<file, pos, local, lines>>
WordOverflow ==
    /\ Looping /\ Type # "newline" /\ TokenFits(Type) /\ ~CharFits(Type)
    /\ pc' = "end" /\ fault' = "word"
    /\ UNCHANGED <<file, pos, local, lines>>

Exited == pc = "end" /\ UNCHANGED vars

Next == \/ Start \/ EndOfFile \/ Take \/ NewLine \/ StopReading
        \/ TokenOverflow \/ WordOverflow \/ Exited
Spec == Init /\ [][Next]_vars
-----------------------------------------------------------------------------
(* Properties.                                                             *)

Types == {"quotes", "space", "newline", "latin", "oper", "num", "parenthesis", "punct", "etc"}
Token == Seq(Chars \union {Eof})
Line  == [code : {"success", "blank"}, tokens : Seq(Token), from : Nat, to : Nat]

TypeOK ==
    /\ pos \in 0 .. Len(file) /\ begun \in 0 .. pos
    /\ tokens \in Seq(Token) /\ Len(tokens) <= MaxTokens
    /\ word \in Token /\ Len(word) <= TokenLen
    /\ type \in Types \union {"null"} /\ last \in (Types \union {"null"}) \ {"newline"}
    /\ inQuotes \in BOOLEAN /\ isBlank \in BOOLEAN /\ cur_char \in Chars \union {Eof}
    /\ lines \in Seq(Line)
    /\ pc \in {"call", "loop", "end"} /\ fault \in {"none", "tokens", "word"}

Text(l)      == SubSeq(file, l.from + 1, l.to)
Quotes(s, i) == Cardinality({ k \in 1 .. i : s[k] = "\"" })
Odd(s, i)    == Quotes(s, i) % 2 = 1
Apart(s)     == \A i \in 2 .. Len(s) : s[i] = "\"" /\ Odd(s, i) => s[i - 1] \in {" ", "\""}

\* The class of a character if strings begin and end at every quote, and how
\* much of the line is in front of a character in no class.
ClassAt(s, i) == IF s[i] = "\"" \/ Odd(s, i) THEN "quotes" ELSE ClassOf(s[i])
Ends(s)       == { i \in DOMAIN s : ClassAt(s, i) \in {"etc", "newline"} }
Extent(s)     == IF Ends(s) = {} THEN Len(s)
                 ELSE (CHOOSE i \in Ends(s) : \A k \in Ends(s) : i <= k) - 1

\* Where a run of one class begins; each parenthesis is one of its own.
RunAt(s, i) == \/ i = 1
               \/ ClassAt(s, i) # ClassAt(s, i - 1)
               \/ ClassAt(s, i) = "parenthesis"
Shown(s, i) == IF ClassAt(s, i) = "quotes" THEN s[i] ELSE toupper(s[i])
LongRun(s)  == \E i \in 1 .. Len(s) - TokenLen : \A k \in i + 1 .. i + TokenLen : ~RunAt(s, k)

\* The runs of the first i characters, strings whole, spaces left out.  A
\* parenthesis at the very beginning has an empty token before it.
Longer(runs, c) == [runs EXCEPT ![Len(runs)] = Append(@, c)]
Before(s, i, runs) == IF i = 1 /\ ClassAt(s, i) = "parenthesis" THEN <<<<>>>> ELSE runs
Grown(s, i, runs) ==
    IF ClassAt(s, i) = "space" THEN runs
    ELSE IF RunAt(s, i) THEN Append(Before(s, i, runs), <<Shown(s, i)>>)
    ELSE Longer(runs, Shown(s, i))
Splits(s) == LET split[i \in 0 .. Len(s)] == IF i = 0 THEN <<>> ELSE Grown(s, i, split[i - 1])
             IN  split
Split(s)  == Splits(s)[Extent(s)]

\* A line is the runs of its characters, and nothing before the end of the
\* line or the first character in no class is lost.  A closed string that
\* begins behind anything but a space is never whole.
Zeroless(s) == "nul" \notin { s[i] : i \in DOMAIN s }
Whole(s) == Apart(s) /\ Zeroless(s)
TokensAreRuns ==
    \A n \in DOMAIN lines :
        LET s == Text(lines[n])
        IN  Zeroless(s) /\ lines[n].code = "success" =>
                /\ Apart(s) => lines[n].tokens = Split(s)
                /\ lines[n].tokens = Split(s) /\ ~Odd(s, Len(s)) => Apart(s)

\* Lines are the source's lines, from one newline to the next, as long as
\* every character has a class and every string is closed and begins after a
\* space.  Otherwise a line goes on over a newline in a string, or ends behind
\* a character in no class.  Blank lines, and only they, are not counted.
Plain(s) == Whole(s) /\ ~Odd(s, Len(s)) /\ \A i \in DOMAIN s : ClassOf(s[i]) # "etc" \/ s[i] = "\""
IsNewline(i) == i \in DOMAIN file /\ file[i] = "nl"
LinesAreLines ==
    \A n \in DOMAIN lines :
        LET l == lines[n]
            s == Text(l)
        IN  /\ l.from = (IF n = 1 THEN 0 ELSE lines[n - 1].to)
            /\ Plain(s) /\ (\A i \in l.from + 1 .. l.to : IsNewline(i) => ClassAt(s, i - l.from) = "newline") =>
                  /\ IsNewline(l.to) \/ l.to = Len(file)
                  /\ \A i \in l.from + 1 .. l.to - 1 : ~IsNewline(i)
                  /\ l.code = "blank" <=> IsNewline(l.to) /\ Split(s) = <<>>

\* The two arrays are left for a run of one class longer than a token, for a
\* string that is not closed, or for more tokens than there is room for; the
\* words and tokens in use never grow past them.
Unread == SubSeq(file, begun + 1, pos)
FaultsExplained ==
    /\ TypeOK
    /\ fault = "word" /\ Whole(Unread) /\ ~Odd(Unread, Len(Unread)) => LongRun(Unread)
    /\ fault = "tokens" /\ Whole(Unread) => Len(Splits(Unread)[Len(Unread)]) > MaxTokens
=============================================================================
