------------------------------- MODULE Builds -------------------------------
(***************************************************************************)
(* What a run of the compiler does outside itself: main reads the          *)
(* arguments, make_target_src writes the assembly text, and compile has    *)
(* as, ld and rm run, whose outcomes it does not look at.  All runs use    *)
(* one text file, /tmp/XXX08080.s, or XXX08080.s with --debug, and name    *)
(* the object file after the output file.  Several runs are modelled, one  *)
(* after the other or at the same time, any of which may stop at any time. *)
(* as, ld and rm are external, and each reads or writes a file in one step.*)
(***************************************************************************)
EXTENDS Naturals, Sequences, SequencesExt

CONSTANTS
    Names,      \* output files
    Orders      \* the arguments and the programs of each of the runs

Verdict == {"ok", "as refuses", "ld refuses"}
ASSUME OrdersAssumption ==
    Orders \subseteq Seq([debug : BOOLEAN, out : Names, size : Nat \ {0}, verdict : Verdict])

VARIABLES
    orders,     \* of each run: --debug, the name after -o, the blocks of text
                \* its program makes, and what as and ld have to say to them
    pc,         \* of each run: what it does next
    flushed,    \* of each run: how many blocks stdio has written so far
    held,       \* of each run: the text its assembler has read
    text,       \* the text files: sequences of blocks <<run, number>>
    object,     \* the object file to each output name
    executable, \* the output files
    met,        \* of each run: the other runs under way before its ld
    linked      \* to each output name: the run that linked last, or 0
vars == <<orders, pc, flushed, held, text, object, executable, met, linked>>

Runs  == DOMAIN orders
Paths == {"/tmp/XXX08080.s", "XXX08080.s"}
tar_path_name(p) == IF orders[p].debug THEN "XXX08080.s" ELSE "/tmp/XXX08080.s"
output_name(p)   == orders[p].out

None == [is |-> "none"]
Old  == [is |-> "old"]
Made(t, verdict) == [is |-> "made", text |-> t, verdict |-> verdict]

Init ==
    /\ orders \in Orders
    /\ pc = [p \in Runs |-> "parse"] /\ flushed = [p \in Runs |-> 0]
    /\ held = [p \in Runs |-> <<>>]
    /\ text = [f \in Paths |-> <<>>]
    /\ object = [n \in Names |-> None] /\ executable = [n \in Names |-> Old]
    /\ met = [p \in Runs |-> {}] /\ linked = [n \in Names |-> 0]

At(p, here, next) == pc[p] = here /\ pc' = [pc EXCEPT ![p] = next]

-----------------------------------------------------------------------------
(* The steps of a run.                                                     *)

UnderWay(q) == pc[q] \in {"write", "assemble", "emit", "link", "remove"}

\* fopen(tar_path_name, "w")
KeptText(f) == text                     \* mutant
Opened(f) == [text EXCEPT ![f] = <<>>]
Open(p) ==
    /\ At(p, "parse", "write")
    /\ text' = Opened(tar_path_name(p))
    /\ met' = [q \in Runs |->
          IF q = p THEN { r \in Runs \ {p} : UnderWay(r) }
          ELSE IF UnderWay(q) /\ pc[q] # "remove" THEN met[q] \union {p} ELSE met[q]]
    /\ UNCHANGED <<orders, flushed, held, object, executable, linked>>

\* stdio writes a full buffer, and fclose the last one, each at the place
\* after the one before it, wherever the file ends by now.
Hole == <<0, 0>>
WrittenAt(t, k, block) ==
    [i \in 1 .. (IF k > Len(t) THEN k ELSE Len(t)) |->
        IF i = k THEN block ELSE IF i <= Len(t) THEN t[i] ELSE Hole]
Flush(p) ==
    /\ pc[p] = "write"
    /\ flushed' = [flushed EXCEPT ![p] = @ + 1]
    /\ text' = [text EXCEPT ![tar_path_name(p)] = WrittenAt(@, flushed'[p], <<p, flushed'[p]>>)]
    /\ pc' = [pc EXCEPT ![p] = IF flushed'[p] = orders[p].size THEN "assemble" ELSE @]
    /\ UNCHANGED <<orders, held, object, executable, met, linked>>

\* as opens its output, which clears it, and reads the text file; at the end
\* it leaves an object file, or none if it refuses the text.  Of a text that
\* is no run's it may say anything.
AsReads(p) ==
    /\ At(p, "assemble", "emit")
    /\ object' = [object EXCEPT ![output_name(p)] = None]
    /\ held' = [held EXCEPT ![p] = text[tar_path_name(p)]]
    /\ UNCHANGED <<orders, flushed, text, executable, met, linked>>

TextOf(q) == [k \in 1 .. orders[q].size |-> <<q, k>>]
Verdicts(t) ==
    IF \E q \in Runs : t = TextOf(q)
    THEN { orders[r].verdict : r \in { q \in Runs : t = TextOf(q) } }
    ELSE Verdict
Assembled(t, verdict) == IF verdict = "as refuses" THEN None ELSE Made(t, verdict)

AsWrites(p) ==
    /\ At(p, "emit", "link")
    /\ \E verdict \in Verdicts(held[p]) :
          object' = [object EXCEPT ![output_name(p)] = Assembled(held[p], verdict)]
    /\ UNCHANGED <<orders, flushed, held, text, executable, met, linked>>

\* ld removes the output file first, so that none is left if it then fails,
\* for want of an object file or of a label.
Linked(o) == IF o # None /\ o.verdict = "ok" THEN Made(o.text, "ok") ELSE None
Ld(p) ==
    /\ At(p, "link", "remove")
    /\ executable' = [executable EXCEPT ![output_name(p)] = Linked(object[output_name(p)])]
    /\ linked' = [linked EXCEPT ![output_name(p)] = p]
    /\ UNCHANGED <<orders, flushed, held, text, object, met>>

Rm(p) ==
    /\ At(p, "remove", "exit")
    /\ object' = [object EXCEPT ![output_name(p)] = None]
    /\ UNCHANGED <<orders, flushed, held, text, executable, met, linked>>

\* The compile-time stack overflows: exit writes what of a block there is.
Part(p) == <<p, 0>>
Refuse(p) ==
    /\ At(p, "write", "exit")
    /\ text' = [text EXCEPT ![tar_path_name(p)] = WrittenAt(@, flushed[p] + 1, Part(p))]
    /\ UNCHANGED <<orders, flushed, held, object, executable, met, linked>>

\* A target or an argument is missing, an assertion fails, or the run is
\* killed: nothing is undone, and what stdio still holds is not written.
Stop(p) ==
    /\ pc[p] # "exit" /\ pc' = [pc EXCEPT ![p] = "exit"]
    /\ UNCHANGED <<orders, flushed, held, text, object, executable, met, linked>>

Exited == (\A p \in Runs : pc[p] = "exit") /\ UNCHANGED vars

Next == \/ \E p \in Runs : \/ Open(p) \/ Flush(p) \/ AsReads(p) \/ AsWrites(p)
                           \/ Ld(p) \/ Rm(p) \/ Refuse(p) \/ Stop(p)
        \/ Exited
Spec == Init /\ [][Next]_vars
-----------------------------------------------------------------------------
(* Properties.                                                             *)

Block == (Runs \union {0}) \X Nat
File  == [is : {"made"}, text : Seq(Block), verdict : Verdict]
TypeOK ==
    /\ orders \in Orders
    /\ pc \in [Runs -> {"parse", "write", "assemble", "emit", "link", "remove", "exit"}]
    /\ flushed \in [Runs -> Nat] /\ \A p \in Runs : flushed[p] <= orders[p].size
    /\ held \in [Runs -> Seq(Block)] /\ text \in [Paths -> Seq(Block)]
    /\ object \in [Names -> File \union {None}]
    /\ executable \in [Names -> File \union {None, Old}]
    /\ met \in [Runs -> SUBSET Runs] /\ linked \in [Names -> Runs \union {0}]

\* What the run's own program comes to.
Deserved(p) == Linked(Assembled(TextOf(p), orders[p].verdict))

\* The output file is what the program of the run that linked last deserves:
\* its executable, or none, even where there was one before, if as or ld
\* refuses.  Only other runs that were under way before the ld, with the same
\* text file or the same output name, can bring it something else, and only
\* of the texts of these and of the runs that these met.  Before any run has
\* linked the file is what it was, whatever was stopped.
Shares(p, q) == orders[p].debug = orders[q].debug
Clash(p)   == { q \in met[p] : Shares(p, q) \/ orders[q].out = orders[p].out }
Writers(t) == { t[i][1] : i \in DOMAIN t }
ExecutablesExplained ==
    /\ TypeOK
    /\ \A n \in Names :
          LET p == linked[n]
          IN  /\ p = 0 => executable[n] = Old
              /\ p # 0 => /\ orders[p].out = n
                          /\ Clash(p) = {} => executable[n] = Deserved(p)
                          /\ executable[n].is = "made" =>
                                Writers(executable[n].text) \subseteq
                                    Clash(p) \union (UNION { met[q] : q \in Clash(p) }) \union {0, p}
=============================================================================
