------------------------------ MODULE Programs ------------------------------
(***************************************************************************)
(* What the rest of the compiler knows of one source line once parse_AST   *)
(* has returned, and the well-formedness the driver silently relies on.    *)
(*                                                                         *)
(* A line is the record                                                    *)
(*   num       the key sortAST and bsearch_statements compare.  It is      *)
(*             oper.numline.value; for a line without a line number the    *)
(*             same union cell holds the enum statement of the node.       *)
(*   numbered  the node's tag is tag_numline.                              *)
(*   kind      "stmt"; "bare" for a number with no statement after it      *)
(*             (numline.next is NULL); "null" when parse_AST itself        *)
(*             returned NULL (a token-less line LineToTokens reports as    *)
(*             T_EXIT_SUCCESS).                                            *)
(*   gotos     the targets of the GOTO and GOSUB statements on the line,   *)
(*             in the order parse_GotoStatementExp pushes them.            *)
(***************************************************************************)
EXTENDS Integers, Sequences

CONSTANTS Capacity,     \* STATEMENTS_SIZE, the cells of statements[]
          GotoCap,      \* cells of goto_s (DEFAULT_STACK_SIZE)
          MaxGotos      \* most GOTO/GOSUB statements on one line

ASSUME CapacityAssumption == Capacity \in Nat \ {0}
ASSUME GotoCapAssumption  == GotoCap \in Nat
ASSUME MaxGotosAssumption == MaxGotos \in Nat

Kinds == {"stmt", "bare", "null"}

\* A line without tokens has no line number either.
Line == { ln \in [num : Int, numbered : BOOLEAN, kind : Kinds, gotos : Seq(Int)] :
            /\ Len(ln.gotos) <= MaxGotos
            /\ ln.kind = "null" => ~ln.numbered }

\* Every line number some GOTO or GOSUB of the program names.
Targets(src) == UNION { { src[k].gotos[g] : g \in DOMAIN src[k].gotos } : k \in DOMAIN src }

\* Some line of the program has the number t (or, unnumbered, the key t).
HasLine(src, t) == \E k \in DOMAIN src : src[k].kind # "null" /\ src[k].num = t

\* The input domain on which the driver is meant to work.  Nothing in the
\* code checks any of these conditions.
WellFormed(src) ==
    /\ Len(src) \in 1 .. Capacity - 1
    /\ Len(src) * MaxGotos <= GotoCap
    /\ \A k \in DOMAIN src : src[k].kind = "stmt" /\ src[k].numbered
    /\ \A t \in Targets(src) : HasLine(src, t)
=============================================================================
