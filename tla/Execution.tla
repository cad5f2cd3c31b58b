------------------------------ MODULE Execution ------------------------------
(***************************************************************************)
(* The machine that executes what Statements generates.  Its stack holds   *)
(* the slots of the variables, the cells of loops, the return addresses of *)
(* GOSUB and, for a moment, those of the runtime routines: word k is at    *)
(* -4k(%rbp), %rsp is at word dep.  A slot may well be below %rsp, where   *)
(* the next call writes its return address.                                *)
(*                                                                         *)
(* The shadow state env, calls and tests says what the BASIC program means *)
(* at each moment; no instruction reads it.  Predicates may have any value *)
(* and a word that is not known compares either way.                       *)
(***************************************************************************)
EXTENDS Statements

CONSTANTS MaxWords,         \* bound: words of machine stack
          MaxCount          \* bound: values of a loop counter
ASSUME BoundsAssumption == MaxWords \in Nat /\ MaxCount \in Nat

VARIABLES
    ip, dep, mem,           \* next instruction, depth of %rsp, the words
    env,                    \* what each variable was last assigned
    calls,                  \* where each GOSUB under way should return to
    tests                   \* outcomes of the tests of the line, outermost first

machine == <<ip, dep, mem, env, calls, tests>>
vars    == <<genVars, pc, fault, machine>>

Junk       == [w |-> "junk"]
Stamp(k)   == [w |-> "assigned", line |-> k]
Number(n)  == [w |-> "number", n |-> n]
Half(h, k) == [w |-> h, ip |-> k]
IsNumber(word) == word.w = "number"

Init ==
    /\ GenInit
    /\ ip = 1 /\ dep = 0 /\ mem = [k \in 0 .. MaxWords |-> Junk]
    /\ env = [v \in Vars |-> Junk] /\ calls = <<>> /\ tests = <<>>

Here == code[ip]
X    == Here.x
Running(op) == pc = "run" /\ ip <= Len(code) /\ Here.i = op
Proceed     == ip' = ip + 1
Jump(l)     == ip' = CHOOSE k \in Labels : code[k].x = l
Compiled    == <<genVars, pc, fault>>

RunFault(why) == pc' = "fault" /\ fault' = why /\ UNCHANGED <<genVars, machine>>

-----------------------------------------------------------------------------
\* Labels and jumps.  A predicate is any value: jl is below 1, jge is not.
RunLabel == Running("label") /\ Proceed /\ UNCHANGED <<Compiled, dep, mem, env, calls, tests>>
RunJump  == /\ \E op \in {"jmp", "skip"} : Running(op)
            /\ Jump(X)
            /\ UNCHANGED <<Compiled, dep, mem, env, calls, tests>>
RunWhile == Running("jge") /\ (Proceed \/ Jump(X))
            /\ UNCHANGED <<Compiled, dep, mem, env, calls, tests>>
RunTest ==
    /\ Running("jl")
    /\ \E holds \in BOOLEAN :
          /\ tests' = Append(SubSeq(tests, 1, Len(Here.path)), holds)
          /\ IF holds THEN Proceed ELSE Jump(X)
    /\ UNCHANGED <<Compiled, dep, mem, env, calls>>

\* Variables.
RunSub   == Running("sub") /\ dep + X <= MaxWords /\ dep' = dep + X /\ Proceed
            /\ UNCHANGED <<Compiled, mem, env, calls, tests>>
Assigned == Stamp(Here.line)
RunStore == /\ Running("store")
            /\ mem' = [mem EXCEPT ![X.slot] = Assigned]
            /\ env' = [env EXCEPT ![X.v] = Assigned]
            /\ Proceed
            /\ UNCHANGED <<Compiled, dep, calls, tests>>
RunBump  == /\ Running("bump")
            /\ mem' = [mem EXCEPT ![X.slot] = IF mem[X.slot] = env[X.v] THEN Assigned ELSE Junk]
            /\ env' = [env EXCEPT ![X.v] = Assigned]
            /\ Proceed
            /\ UNCHANGED <<Compiled, dep, calls, tests>>
RunLoad  == Running("load") /\ Proceed /\ UNCHANGED <<Compiled, dep, mem, env, calls, tests>>

\* Loops.
RunFor ==
    /\ Running("for")
    /\ mem' = [mem EXCEPT ![X.slot] = Number(X.s.from), ![X.slot + 1] = Number(X.s.upto)]
    /\ env' = [env EXCEPT ![X.s.v] = Number(X.s.from)]
    /\ Proceed
    /\ UNCHANGED <<Compiled, dep, calls, tests>>

Incremented(word) == IF IsNumber(word) THEN Number(word.n + 1) ELSE Junk
CountedOut(v)     == IsNumber(env[v]) /\ env[v].n >= MaxCount
RunIncr ==
    /\ Running("incr") /\ ~CountedOut(X.v)
    /\ mem' = [mem EXCEPT ![X.slot] = Incremented(@)]
    /\ env' = [env EXCEPT ![X.v] = Incremented(@)]
    /\ Proceed
    /\ UNCHANGED <<Compiled, dep, calls, tests>>

LoopsOn(counter, limit) ==
    IF IsNumber(counter) /\ IsNumber(limit) THEN {counter.n <= limit.n} ELSE BOOLEAN
RunLoop ==
    /\ Running("loop")
    /\ \E again \in LoopsOn(mem[X.slot], mem[X.slot + 1]) : IF again THEN Jump(X.to) ELSE Proceed
    /\ UNCHANGED <<Compiled, dep, mem, env, calls, tests>>

\* A call writes its return address in the two words below %rsp; that of a
\* runtime routine is popped again and stays behind.
Pushed(k)     == [mem EXCEPT ![dep + 1] = Half("upper", k), ![dep + 2] = Half("lower", k)]
ReturnTo(k)   == dep >= 2 /\ mem[dep - 1] = Half("upper", k) /\ mem[dep] = Half("lower", k)
RoomForCall   == dep + 2 <= MaxWords
OutsideCode   == 0

RunLib  == Running("lib") /\ RoomForCall /\ mem' = Pushed(OutsideCode) /\ Proceed
           /\ UNCHANGED <<Compiled, dep, env, calls, tests>>
RunCall == /\ Running("call") /\ RoomForCall
           /\ mem' = Pushed(ip + 1) /\ dep' = dep + 2
           /\ calls' = Append(calls, ip + 1)
           /\ Jump(X)
           /\ UNCHANGED <<Compiled, env, tests>>

Popped == IF calls = <<>> THEN calls ELSE SubSeq(calls, 1, Len(calls) - 1)
RunRet  == /\ Running("ret")
           /\ \E k \in DOMAIN code \union {Len(code) + 1} : ReturnTo(k) /\ ip' = k
           /\ dep' = dep - 2 /\ calls' = Popped
           /\ UNCHANGED <<Compiled, mem, env, tests>>
Astray  == ~\E k \in DOMAIN code \union {Len(code) + 1} : ReturnTo(k)
RunAstray == Running("ret") /\ Astray /\ RunFault("return")

RunExit == Running("exit") /\ pc' = "exited" /\ UNCHANGED <<genVars, fault, machine>>
RanOff  == pc = "run" /\ ip > Len(code) /\ RunFault("no end")

\* The bounds: the machine stack and the loop counters end here.
Bounded ==
    /\ \/ Running("sub") /\ dep + X > MaxWords
       \/ (Running("lib") \/ Running("call")) /\ ~RoomForCall
       \/ Running("incr") /\ CountedOut(X.v)
    /\ UNCHANGED vars
Exited == pc \in {"exited", "rejected", "fault"} /\ UNCHANGED vars

Run == \/ RunLabel \/ RunJump \/ RunWhile \/ RunTest \/ RunSub \/ RunStore \/ RunBump \/ RunLoad
       \/ RunFor \/ RunIncr \/ RunLoop \/ RunLib \/ RunCall \/ RunRet \/ RunAstray \/ RunExit
       \/ RanOff

Next == (Generate /\ UNCHANGED machine) \/ Run \/ Bounded \/ Exited

Spec == Init /\ [][Next]_vars
-----------------------------------------------------------------------------
(* Properties.                                                             *)

Word == {Junk} \union [w : {"assigned"}, line : DOMAIN prog] \union [w : {"number"}, n : Nat]
        \union [w : {"upper", "lower"}, ip : 0 .. Len(code) + 1]

TypeOK ==
    /\ at \in 0 .. Len(prog) /\ Len(work) <= 4
    /\ used \in Nat /\ slot \in [Vars -> 0 .. used] /\ ends \in Nat
    /\ whileArr \in [0 .. WhileSize - 1 -> NoKey .. whileId - 1] /\ whileInt \in 0 .. WhileSize
    /\ if_ind \in Nat /\ counterAddr \in 0 .. CounterRange - 1
    /\ ip \in 1 .. Len(code) + 1 /\ dep \in 0 .. MaxWords
    /\ mem \in [0 .. MaxWords -> Word] /\ env \in [Vars -> Word]
    /\ calls \in Seq(1 .. Len(code) + 1) /\ tests \in Seq(BOOLEAN) /\ Len(tests) <= 2
    /\ pc \in {"generate", "run", "rejected", "exited", "fault"}
    /\ (pc = "fault") = (fault # NoFault)

\* The programs for which the stack is right.  Every LET and FOR is passed
\* once, in the order of the lines, before the first line that a jump can
\* reach; a variable's first mention is its LET; a loop's counter is no other
\* variable and is within reach of a byte, and no loop begins within another.
Simple == {"print", "show", "input", "bump", "rem"}
Ops(s) == { Leaves(s)[k].op : k \in DOMAIN Leaves(s) }
Allocating(p)   == { k \in DOMAIN p : p[k].op \in {"let", "for"} }
Inside(p, k, m) == \/ p[k].op = "for" /\ \E n \in m + 1 .. Len(p) : p[n].op = "next" /\ p[n].v = p[k].v
                   \/ p[k].op = "while" /\ ~\E n \in k + 1 .. m - 1 : p[n].op = "wend"

StraightTo(p, m) ==
    /\ \A k \in 1 .. m - 1 : /\ p[k].op \in Simple \union {"let", "for", "next", "while", "wend"}
                             /\ ~Inside(p, k, m)
    /\ \A to \in Targets(p) : to > m
PartsHarmless(p) == \A k \in DOMAIN p : p[k].op = "if" =>
    Ops(p[k]) \subseteq Simple \union {"goto", "gosub", "return", "end", "none"}
DeclaredFirst(p) == \A n \in DOMAIN p : \A k \in DOMAIN Leaves(p[n]) :
    LET s == Leaves(p[n])[k]
    IN  s.op \in {"show", "input", "bump"} => \E m \in 1 .. n - 1 : p[m].op = "let" /\ p[m].v = s.v
OwnCounters(p) == \A m \in DOMAIN p : p[m].op = "for" =>
    /\ \A k \in DOMAIN p : p[k].op = "let" => p[k].v # p[m].v
    /\ \A k \in DOMAIN p : p[k].op = "next" /\ p[k].v = p[m].v => k > m
CountersInReach == \A ins \in CodeOf({"for"}) : ins.x.slot < CounterRange

Disciplined ==
    /\ \A m \in Allocating(prog) : StraightTo(prog, m)
    /\ PartsHarmless(prog) /\ DeclaredFirst(prog) /\ OwnCounters(prog) /\ CountersInReach

\* PRINT, INC and DEC find in the slot what the variable was last assigned,
\* whatever calls, loops and jumps came between.
ReadsAreCurrent ==
    /\ TypeOK
    /\ (\E op \in {"load", "bump"} : Running(op)) /\ Disciplined => mem[X.slot] = env[X.v]

\* The return addresses of all GOSUBs under way are on top of the stack, whole
\* and in order: nothing was written over them and nothing is above them.
ReturnsHome ==
    pc = "run" /\ calls # <<>> /\ Disciplined =>
        \A k \in DOMAIN calls :
            LET top == dep - 2 * (Len(calls) - k)
            IN  mem[top - 1] = Half("upper", calls[k]) /\ mem[top] = Half("lower", calls[k])

\* NEXT goes round again just as long as the loop it names should.
ForOf(v) == CHOOSE s \in { prog[k] : k \in Allocating(prog) } : s.op = "for" /\ s.v = v
LoopsCount ==
    Running("loop") /\ Disciplined =>
        LoopsOn(mem[X.slot], mem[X.slot + 1]) = {env[X.v].n <= ForOf(X.v).upto}

\* A part of an IF is executed only when the tests on its way came out so,
\* except in a line whose THEN part is an IF with an ELSE part, and the test of
\* a WEND or NEXT in the part, to which the WHILE or FOR jumps from outside.
Silent   == {"label", "skip"}
LoopEnds == {"jge", "loop"}
Agrees   == Len(Here.path) <= Len(tests) /\ SubSeq(tests, 1, Len(Here.path)) = Here.path
Confused(s) == s.then.op = "if" /\ s.then.else # NoStmt
BranchesAreTaken ==
    pc = "run" /\ ip <= Len(code) /\ Here.i \notin Silent \union LoopEnds /\ Here.path # <<>> =>
        Agrees \/ Confused(prog[Here.line])
=============================================================================
