----------------------------- MODULE SymbolTable -----------------------------
(***************************************************************************)
(* The symbol table of hash.c and everything that reads or writes it: the  *)
(* parser, which looks names up and adds them; rodata_section, which walks *)
(* the table to print the string constants; the statement handlers of      *)
(* gen.c, which give variables their slots on the machine stack; and       *)
(* free_s_table.                                                           *)
(*                                                                         *)
(* The table is an array of buckets; a bucket is a chain of nodes, newest  *)
(* first; inds[id] remembers the bucket of the symbol id.  Every operation *)
(* that has to find a node uses its own way to walk the chain, and they do *)
(* not agree on chains longer than one: that is what this module is about. *)
(*                                                                         *)
(* A statement is abstracted to how it touches the table (its op):         *)
(*   use     a variable the statement reads or writes: LET, INPUT, or any  *)
(*           expression.  PRINT of a single variable is one too: the third *)
(*           test of parse_PrintStatementExp, next_token(), is a pointer   *)
(*           that is never NULL, so its branch for a name is never taken   *)
(*   bump    INC or DEC of a variable                                      *)
(*   string  PRINT of a string constant of size characters                 *)
(*   for     FOR over a variable; size is the number of cells it reserves  *)
(*   end     END                                                           *)
(* The parser meets the statements in the order of the file, the code      *)
(* generator in line-number order, which can be any other.                 *)
(***************************************************************************)
EXTENDS Integers, Sequences, FiniteSets

CONSTANTS TableSize,    \* S_TABLE_SIZE
          Names,        \* the names of variables
          StrName(_),   \* the name add_symbol makes for the string of symbol id
          Hash(_),      \* hash(name) % S_TABLE_SIZE
          Programs      \* the programs considered

Buckets == 0 .. TableSize - 1
Ops == {"use", "bump", "string", "for", "end"}
Statement == [op : Ops, name : Names, size : Nat \ {0}]

ASSUME TableAssumption == TableSize \in Nat \ {0}
ASSUME HashAssumption ==
    /\ \A v \in Names : Hash(v) \in Buckets
    /\ \A id \in Buckets : Hash(StrName(id)) \in Buckets
\* A string's name has a digit in it and the lexer splits "A1" in two tokens.
ASSUME NameAssumption ==
    /\ \A id \in Buckets : StrName(id) \notin Names
    /\ \A a, b \in Buckets : StrName(a) = StrName(b) => a = b
ASSUME ProgramsAssumption == Programs \subseteq Seq(Statement)

VARIABLES
    prog,       \* the program, in the order of the file
    nodes,      \* the LL_NODEs; the node of symbol id is nodes[id + 1]
    list,       \* list[b]: the ids of the chain of bucket b, newest first
    inds,       \* inds[id]: the bucket of symbol id, -1 while unused
    symbol,     \* symbol[k]: oper.symbol of the k-th statement's operand
    todo,       \* the statements the code generator has not met yet
    rodata,     \* the ids whose constant rodata_section has printed
    out,        \* what the code generator has emitted for each statement
    stackpos, frameInt,
    at,         \* the cursor of the phase: next statement, or next id
    step,       \* in a walk: nodes passed
    last,       \* free_s_table's last
    freed,      \* the chains free_s_table has freed, one entry a call
    pc, fault

genVars == <<todo, out, stackpos, frameInt>>
freeVars == <<last, freed>>
vars == <<prog, nodes, list, inds, symbol, todo, rodata, out, stackpos, frameInt,
          at, step, last, freed, pc, fault>>

NoFault == "none"
NoId == -1

min_available_id == Len(nodes)
Node(id) == nodes[id + 1]

\* new_stack_frame: frameArr[0] = 0, frameArr[1] = 8.
frameArr == [f \in 0 .. 1 |-> 8 * f]
cur_frame == frameArr[frameInt]

Init ==
    /\ prog \in Programs
    /\ nodes = <<>> /\ list = [b \in Buckets |-> <<>>] /\ inds = [b \in Buckets |-> NoId]
    /\ symbol = <<>>
    /\ todo = DOMAIN prog /\ rodata = {} /\ out = [k \in DOMAIN prog |-> [kind |-> "none"]]
    /\ stackpos = 8 /\ frameInt = 1
    /\ at = 1 /\ step = 0 /\ last = 0 /\ freed = <<>>
    /\ pc = "parse" /\ fault = NoFault

Fault(why) ==
    /\ pc' = "fault" /\ fault' = why
    /\ UNCHANGED <<prog, nodes, list, inds, symbol, todo, rodata, out, stackpos, frameInt,
                   at, step, last, freed>>

-----------------------------------------------------------------------------
(* The parser: getId and add_symbol.                                       *)

\* The nodes of the chain that carry the name.
Carrying(name) == { id \in 0 .. min_available_id - 1 :
                      /\ Node(id).name = name
                      /\ \E p \in DOMAIN list[Hash(name)] : list[Hash(name)][p] = id }

\* getId's three outcomes.  After the last node of a chain that does not
\* carry the name, p points to a NULL next and (*p)->name is read.
Known(name)  == Carrying(name) # {}

NeverAbsent(name) == FALSE                      \* mutant
Absent(name) == list[Hash(name)] = <<>>
Lost(name)   == ~Known(name) /\ ~Absent(name)

AppendLast(b) == Append(list[b], min_available_id)     \* mutant
appendLLnode(b) == <<min_available_id>> \o list[b]

\* add_symbol.  The addr cell of a new node is never initialised; the heap
\* the node comes from is zero, which check_addr takes for "no slot yet".
AddSymbol(name, type, size) ==
    /\ min_available_id < TableSize
    /\ nodes' = Append(nodes, [name |-> name, type |-> type, addr |-> 0, size |-> size])
    /\ list' = [list EXCEPT ![Hash(name)] = appendLLnode(Hash(name))]
    /\ inds' = [inds EXCEPT ![min_available_id] = Hash(name)]

Parsed(id) == /\ symbol' = Append(symbol, id) /\ at' = at + 1
              /\ UNCHANGED <<prog, genVars, rodata, step, freeVars, pc, fault>>

Reading(ops) == pc = "parse" /\ at <= Len(prog) /\ prog[at].op \in ops

\* parse_VarExp: a name found is the symbol, a new name is added.
NamingOps == {"use", "bump", "for"}

VarFound ==
    /\ Reading(NamingOps)
    /\ \E id \in Carrying(prog[at].name) : Parsed(id)
    /\ UNCHANGED <<nodes, list, inds>>

VarAdded ==
    /\ Reading(NamingOps) /\ Absent(prog[at].name)
    /\ AddSymbol(prog[at].name, "pointer_var", 0)
    /\ Parsed(min_available_id)

LookupFails ==
    /\ Reading(NamingOps) /\ Lost(prog[at].name)
    /\ Fault("lookup")

StringAdded ==
    /\ Reading({"string"})
    /\ AddSymbol(StrName(min_available_id), "string", prog[at].size)
    /\ Parsed(min_available_id)

EndParsed ==
    /\ Reading({"end"})
    /\ Parsed(NoId)
    /\ UNCHANGED <<nodes, list, inds>>

\* inds[min_available_id] = index writes behind the array.
TableFull ==
    /\ \/ Reading(NamingOps) /\ Absent(prog[at].name)
       \/ Reading({"string"})
    /\ min_available_id = TableSize
    /\ Fault("full")

ParseDone ==
    /\ pc = "parse" /\ at > Len(prog)
    /\ pc' = "rodata" /\ at' = 0 /\ step' = 1
    /\ UNCHANGED <<prog, nodes, list, inds, symbol, genVars, rodata, freeVars, fault>>

-----------------------------------------------------------------------------
(* rodata_section: for each id, walk its chain until the node is met.      *)

InUseButLast(id) == id + 1 < TableSize /\ inds[id] # NoId      \* mutant
InUse(id) == id < TableSize /\ inds[id] # NoId

\* The loop body sets list to &S_TABLE->list[ind]->next, whatever it was.
HeadAgain == 1                  \* mutant
NextOfHead == 2

IsString(id) == Node(id).type = "string"

RodataFound ==
    /\ pc = "rodata" /\ InUse(at)
    /\ list[inds[at]][step] = at
    /\ rodata' = IF IsString(at) THEN rodata \union {at} ELSE rodata
    /\ at' = at + 1 /\ step' = 1
    /\ UNCHANGED <<prog, nodes, list, inds, symbol, genVars, freeVars, pc, fault>>

RodataWalk ==
    /\ pc = "rodata" /\ InUse(at)
    /\ list[inds[at]][step] # at
    /\ step' = NextOfHead
    /\ UNCHANGED <<prog, nodes, list, inds, symbol, genVars, rodata, at, freeVars, pc, fault>>

RodataDone ==
    /\ pc = "rodata" /\ ~InUse(at)
    /\ pc' = "emit" /\ step' = 0
    /\ UNCHANGED <<prog, nodes, list, inds, symbol, genVars, rodata, at, freeVars, fault>>
-----------------------------------------------------------------------------
(* The code generator: slots on the machine stack, string operands.        *)

Framed == frameInt \in DOMAIN frameArr
HeadOf(id) == Node(list[inds[id]][1])

Slot(addr)         == [kind |-> "slot", at |-> addr]
Cells(first, cnt)  == [kind |-> "cells", at |-> first, count |-> cnt]
Text(id, size)     == [kind |-> "text", label |-> id, size |-> size]
Garbled            == [kind |-> "garbled"]
Ended              == [kind |-> "end"]

Emitting(k, ops) == pc = "emit" /\ k \in todo /\ prog[k].op \in ops

Emitted(k, what) == /\ out' = [out EXCEPT ![k] = what] /\ todo' = todo \ {k}
                    /\ UNCHANGED <<prog, list, inds, symbol, rodata, at, step, freeVars,
                                   pc, fault>>

\* The statements that read or write their variable in its slot.
TakesSlot(k) == Emitting(k, {"use"})

ReuseSlot(k) ==
    /\ TakesSlot(k) /\ Node(symbol[k]).addr # 0
    /\ Emitted(k, Slot(Node(symbol[k]).addr))
    /\ UNCHANGED <<nodes, stackpos, frameInt>>

NextCell == stackpos + 4 - cur_frame

AddrForgotten(addr, id) == nodes                                \* mutant
insert_hashmap_addr(addr, id) == [nodes EXCEPT ![id + 1].addr = addr]

\* check_addr, and the same lines in put_tac.
NewSlot(k) ==
    /\ TakesSlot(k) /\ Node(symbol[k]).addr = 0 /\ Framed
    /\ stackpos' = stackpos + 4
    /\ nodes' = insert_hashmap_addr(NextCell, symbol[k])
    /\ Emitted(k, Slot(NextCell))
    /\ UNCHANGED frameInt

\* INC and DEC take the address as it is, assigned or not.
Bump(k) ==
    /\ Emitting(k, {"bump"})
    /\ Emitted(k, Slot(Node(symbol[k]).addr))
    /\ UNCHANGED <<nodes, stackpos, frameInt>>

\* PRINT takes type and length from the head of the symbol's bucket.
PrintText(k) ==
    /\ Emitting(k, {"string"}) /\ HeadOf(symbol[k]).type = "string"
    /\ Emitted(k, Text(symbol[k], HeadOf(symbol[k]).size))
    /\ UNCHANGED <<nodes, stackpos, frameInt>>

\* A string taken for a variable: the first characters of the text, which
\* share the union with addr, become the address.
PrintGarbled(k) ==
    /\ Emitting(k, {"string"}) /\ HeadOf(symbol[k]).type = "pointer_var"
    /\ Emitted(k, Garbled)
    /\ UNCHANGED <<nodes, stackpos, frameInt>>

\* handle_for_statement reserves cells of its own for value, limit and step.
For(k) ==
    /\ Emitting(k, {"for"}) /\ Framed
    /\ stackpos' = stackpos + 4 * prog[k].size
    /\ Emitted(k, Cells(NextCell, prog[k].size))
    /\ UNCHANGED <<nodes, frameInt>>

FrameKept == frameInt           \* mutant
FramePopped == frameInt - 1

\* end_stack_frame.
End(k) ==
    /\ Emitting(k, {"end"})
    /\ stackpos' = stackpos - 8 /\ frameInt' = FramePopped
    /\ Emitted(k, Ended)
    /\ UNCHANGED nodes

\* After two END, frameArr[frameInt] is out of bounds.
FrameLost(k) ==
    /\ \/ TakesSlot(k) /\ Node(symbol[k]).addr = 0
       \/ Emitting(k, {"for"})
    /\ ~Framed
    /\ Fault("frame")

EmitDone ==
    /\ pc = "emit" /\ todo = {}
    /\ pc' = "free" /\ at' = 0
    /\ UNCHANGED <<prog, nodes, list, inds, symbol, genVars, rodata, step, freeVars, fault>>

-----------------------------------------------------------------------------
(* free_s_table.                                                           *)

WasFreed(b) == \E f \in DOMAIN freed : freed[f] = b

FreeChain ==
    /\ pc = "free" /\ InUse(at) /\ inds[at] # last /\ ~WasFreed(inds[at])
    /\ freed' = Append(freed, inds[at])
    /\ last' = inds[at] /\ at' = at + 1
    /\ UNCHANGED <<prog, nodes, list, inds, symbol, genVars, rodata, step, pc, fault>>

FreeSkip ==
    /\ pc = "free" /\ InUse(at) /\ inds[at] = last
    /\ at' = at + 1
    /\ UNCHANGED <<prog, nodes, list, inds, symbol, genVars, rodata, step, freeVars, pc, fault>>

\* Only the bucket of the previous id is remembered.
FreeTwice ==
    /\ pc = "free" /\ InUse(at) /\ inds[at] # last /\ WasFreed(inds[at])
    /\ Fault("double free")

\* The loop looks for a -1 behind the last symbol; a full table has none.
FreePastEnd ==
    /\ pc = "free" /\ at = TableSize
    /\ Fault("past end")

FreeDone ==
    /\ pc = "free" /\ at < TableSize /\ ~InUse(at)
    /\ pc' = "done"
    /\ UNCHANGED <<prog, nodes, list, inds, symbol, genVars, rodata, at, step, freeVars, fault>>

-----------------------------------------------------------------------------
Parse == \/ VarFound \/ VarAdded \/ LookupFails \/ StringAdded
         \/ EndParsed \/ TableFull \/ ParseDone
Rodata == RodataFound \/ RodataWalk \/ RodataDone
Emit == \/ \E k \in todo : \/ ReuseSlot(k) \/ NewSlot(k) \/ Bump(k) \/ PrintText(k)
                           \/ PrintGarbled(k) \/ For(k) \/ End(k)
                           \/ FrameLost(k)
        \/ EmitDone
Free == FreeChain \/ FreeSkip \/ FreeTwice \/ FreePastEnd \/ FreeDone

Exited == pc \in {"done", "fault"} /\ UNCHANGED vars

Next == Parse \/ Rodata \/ Emit \/ Free \/ Exited

Spec == Init /\ [][Next]_vars
FairSpec == Spec /\ WF_vars(Next)
-----------------------------------------------------------------------------
(* Properties.                                                             *)

Ids == 0 .. min_available_id - 1
NodeNames == Names \union { StrName(id) : id \in Buckets }
NodeType == [name : NodeNames, type : {"pointer_var", "string"}, addr : Nat, size : Nat]
OutType == [kind : {"none", "garbled", "end"}]
           \union [kind : {"slot"}, at : Nat]
           \union [kind : {"cells"}, at : Nat, count : Nat]
           \union [kind : {"text"}, label : Buckets, size : Nat]
Causes == {"lookup", "full", "frame", "double free", "past end"}

TypeOK ==
    /\ prog \in Programs
    /\ nodes \in Seq(NodeType) /\ min_available_id <= TableSize
    /\ list \in [Buckets -> Seq(Ids)] /\ inds \in [Buckets -> Buckets \union {NoId}]
    /\ symbol \in Seq(Ids \union {NoId}) /\ Len(symbol) <= Len(prog)
    /\ todo \subseteq DOMAIN prog /\ rodata \subseteq Ids
    /\ out \in [DOMAIN prog -> OutType]
    /\ stackpos \in Int /\ frameInt \in Int /\ frameInt <= 1
    /\ at \in Nat /\ step \in 0 .. 2 /\ last \in Buckets /\ freed \in Seq(Buckets)
    /\ pc \in {"parse", "rodata", "emit", "free", "done", "fault"}
    /\ fault \in {NoFault} \union Causes /\ (fault = NoFault <=> pc # "fault")

\* The state is well formed and the chains, the array inds and the ids agree: a symbol is in exactly one
\* chain, the one its name hashes to and inds names, once, newest first; and
\* no variable has two symbols, however chains collide.
TableSound ==
    /\ TypeOK
    /\ \A id \in Ids :
          /\ inds[id] = Hash(Node(id).name)
          /\ \A b \in Buckets :
                (\E p \in DOMAIN list[b] : list[b][p] = id) <=> b = inds[id]
    /\ \A b \in Buckets : \A p, q \in DOMAIN list[b] : p < q => list[b][p] > list[b][q]
    /\ \A a, b \in Ids : Node(a).name = Node(b).name => a = b

CellsOf(o) == CASE o.kind = "slot"  -> {o.at} \ {0}
                [] o.kind = "cells" -> { o.at + 4 * c : c \in 0 .. o.count - 1 }
                [] OTHER            -> {}

\* Two emitted statements address the same cell of the machine stack exactly
\* when they name the same variable: through the hash, the chains, the order
\* in which the statements are generated, the cells of FOR loops and an END
\* in the middle of the program, no two variables share a slot and none moves.
SlotPerVariable ==
    \A k, m \in DOMAIN prog :
        /\ k # m /\ CellsOf(out[k]) \intersect CellsOf(out[m]) # {} =>
              /\ out[k].kind = "slot" /\ out[m].kind = "slot"
              /\ prog[k].name = prog[m].name
        /\ /\ out[k].kind = "slot" /\ out[m].kind = "slot" /\ prog[k].name = prog[m].name
           /\ out[k].at # 0 /\ out[m].at # 0
           => out[k].at = out[m].at

\* Address 0, the saved base pointer, is addressed by INC or DEC only, and
\* only if no statement generated before has given the variable its slot.
BumpsAddressSlots ==
    [][\A k \in DOMAIN prog :
          out'[k] = Slot(0) /\ out[k] # Slot(0) =>
              /\ prog[k].op = "bump"
              /\ \A m \in DOMAIN prog \ todo :
                    prog[m].name = prog[k].name /\ prog[m].op = "use" => FALSE]_vars

\* A string that is printed has its label in the read-only section, wherever
\* the walk met it.  The PRINT itself goes wrong (another length, or taken for
\* a variable) only if a second symbol shares the bucket of the one printed.
Alone(id) == list[inds[id]] = <<id>>

PrintsAreRight ==
    \A k \in DOMAIN prog :
        out[k].kind # "none" /\ prog[k].op = "string" =>
            /\ symbol[k] \in rodata
            /\ Alone(symbol[k]) => out[k] = Text(symbol[k], prog[k].size)

\* The walk ends if no chain has more than two nodes.
RodataEnds ==
    (pc = "rodata" /\ \A b \in Buckets : Len(list[b]) <= 2) ~> (pc = "emit")

\* Each way to fail has its cause in the names or the number of the symbols.
FaultsExplained ==
    /\ fault = "lookup" => \E id \in Ids : /\ Hash(Node(id).name) = Hash(prog[at].name)
                                          /\ Node(id).name # prog[at].name
    /\ fault = "full" => Len(prog) > TableSize
    /\ fault = "frame" => \E k, m \in DOMAIN prog : /\ k # m /\ {k, m} \intersect todo = {}
                                                   /\ prog[k].op = "end" /\ prog[m].op = "end"
    /\ fault = "double free" => \E a, b, c \in Ids : a < b /\ b < c /\ inds[a] = inds[c]
                                                                   /\ inds[b] # inds[c]
    /\ fault = "past end" => min_available_id = TableSize
=============================================================================
