------------------------- MODULE SymbolTable_proofs -------------------------
(***************************************************************************)
(* Whatever the size of the table, the hash function and the program, and  *)
(* in whatever order its statements are generated: the chains are sound,   *)
(* each variable keeps a slot of its own, strings are printed from their   *)
(* labels, and each failure has its cause.                                 *)
(***************************************************************************)
EXTENDS SymbolTable, SequenceTheorems, TLAPS

\* TableSound without the types.
ChainInv ==
    /\ \A id \in Ids :
          /\ inds[id] = Hash(Node(id).name)
          /\ \A b \in Buckets :
                (\E p \in DOMAIN list[b] : list[b][p] = id) <=> b = inds[id]
    /\ \A b \in Buckets : \A p, q \in DOMAIN list[b] : p < q => list[b][p] > list[b][q]
    /\ \A a, b \in Ids : Node(a).name = Node(b).name => a = b

\* The ids in use are the first ones; a name tells what a symbol is.
NameInv ==
    /\ \A b \in Buckets : inds[b] = NoId <=> b >= min_available_id
    /\ \A id \in Ids :
          \/ Node(id).type = "pointer_var" /\ Node(id).name \in Names
          \/ Node(id).type = "string" /\ Node(id).name = StrName(id) /\ Node(id).addr = 0

\* The symbols in the operands are those of the names the program mentions.
SymbolInv == \A k \in DOMAIN symbol :
    /\ prog[k].op \in NamingOps => /\ symbol[k] \in Ids
                                   /\ Node(symbol[k]).name = prog[k].name
    /\ prog[k].op = "string" => /\ symbol[k] \in Ids
                                /\ Node(symbol[k]).type = "string"
                                /\ Node(symbol[k]).size = prog[k].size

\* How far each phase is.
Strings == { id \in Ids : IsString(id) }
PhaseInv ==
    /\ Len(nodes) <= Len(symbol)
    /\ pc = "parse" => at = Len(symbol) + 1 /\ rodata = {}
    /\ pc \in {"parse", "rodata"} => todo = DOMAIN prog
    /\ pc \in {"rodata", "emit", "free", "done"} \/ todo # DOMAIN prog => Len(symbol) = Len(prog)
    /\ pc = "rodata" => at <= min_available_id /\ rodata = { id \in Strings : id < at }
    /\ pc \in {"emit", "free", "done"} => rodata = Strings
    /\ pc = "free" => at <= min_available_id

\* The distance from the base pointer to the last cell given out: it grows
\* with stackpos, and an END does not move it.
Offset == stackpos - 8 * frameInt
CellInv ==
    /\ Offset \in Nat
    /\ \A id \in Ids : Node(id).addr <= Offset
    /\ \A k \in DOMAIN prog : \A c \in CellsOf(out[k]) : 0 < c /\ c <= Offset

\* What has been generated for each kind of statement.
OutInv ==
    /\ \A k \in todo : out[k].kind = "none"
    /\ \A k \in DOMAIN prog \ todo :
          /\ prog[k].op = "use"  => Node(symbol[k]).addr # 0 /\ out[k] = Slot(Node(symbol[k]).addr)
          /\ prog[k].op = "bump" => out[k] \in {Slot(0), Slot(Node(symbol[k]).addr)}
          /\ prog[k].op = "for"  => out[k].kind = "cells"
          /\ prog[k].op \in {"string", "end"} => out[k].kind \in {"text", "garbled", "end"}

\* No cell is given out twice.
SlotInv ==
    /\ \A a, b \in Ids : Node(a).addr = Node(b).addr /\ Node(a).addr # 0 => a = b
    /\ \A k \in DOMAIN prog : out[k].kind = "cells" =>
          /\ \A id \in Ids : Node(id).addr \notin CellsOf(out[k])
          /\ \A m \in DOMAIN prog \ {k} :
                out[m].kind = "cells" => CellsOf(out[k]) \intersect CellsOf(out[m]) = {}

\* Each frame popped was popped by an END.
EndInv ==
    /\ frameInt < 1 => \E k \in DOMAIN prog \ todo : prog[k].op = "end"
    /\ frameInt < 0 => \E k, m \in DOMAIN prog \ todo :
                          k # m /\ prog[k].op = "end" /\ prog[m].op = "end"

\* free_s_table remembers the bucket of the id before, and has freed no
\* bucket but those of earlier ids.
FreeInv ==
    /\ pc \in {"parse", "rodata", "emit"} => freed = <<>>
    /\ pc = "free" => /\ at > 0 => last = inds[at - 1]
                      /\ \A f \in DOMAIN freed : \E a \in 0 .. at - 1 : inds[a] = freed[f]

SymbolTableInv ==
    /\ TypeOK /\ ChainInv /\ NameInv /\ SymbolInv /\ PhaseInv
    /\ CellInv /\ OutInv /\ SlotInv /\ EndInv /\ FreeInv
    /\ PrintsAreRight /\ FaultsExplained

-----------------------------------------------------------------------------
(* Facts about the operators.                                              *)

\* Names hash to buckets.
LEMMA HashType == \A name \in NodeNames : Hash(name) \in Buckets
  BY HashAssumption DEF NodeNames

\* The statements of a program are statements.
LEMMA StatementType ==
    ASSUME TypeOK
    PROVE  /\ Len(prog) \in Nat /\ DOMAIN prog = 1 .. Len(prog)
           /\ \A k \in DOMAIN prog : /\ prog[k].op \in Ops /\ prog[k].name \in Names
                                     /\ prog[k].size \in Nat \ {0}
<1>1. prog \in Seq(Statement)
  BY ProgramsAssumption DEF TypeOK
<1>2. \A k \in DOMAIN prog : prog[k] \in Statement
  BY <1>1
<1> QED
  BY <1>1, <1>2 DEF Statement

\* What is in the nodes and the chains.
LEMMA NodeFacts ==
    ASSUME TypeOK
    PROVE  /\ min_available_id \in Nat /\ min_available_id <= TableSize /\ TableSize \in Nat \ {0}
           /\ \A id \in Ids : /\ id \in Nat /\ Node(id) \in NodeType /\ id \in Buckets
                              /\ Node(id).name \in NodeNames /\ Hash(Node(id).name) \in Buckets
                              /\ Node(id).addr \in Nat /\ Node(id).size \in Nat
           /\ \A b \in Buckets : /\ list[b] \in Seq(Ids) /\ inds[b] \in Buckets \union {NoId}
                                 /\ DOMAIN list[b] = 1 .. Len(list[b]) /\ Len(list[b]) \in Nat
<1>1. nodes \in Seq(NodeType) /\ min_available_id <= TableSize /\ TableSize \in Nat \ {0}
  BY TableAssumption DEF TypeOK
<1>2. min_available_id \in Nat
  BY <1>1 DEF min_available_id
<1>3. \A id \in Ids : id \in Nat /\ Node(id) \in NodeType /\ id \in Buckets
  BY <1>1, <1>2 DEF Ids, Node, min_available_id, Buckets
<1>4. \A id \in Ids : /\ Node(id).name \in NodeNames /\ Node(id).addr \in Nat /\ Node(id).size \in Nat
  BY <1>3 DEF NodeType
<1>5. \A b \in Buckets : list[b] \in Seq(Ids) /\ inds[b] \in Buckets \union {NoId}
  BY DEF TypeOK
<1> QED
  BY <1>1, <1>2, <1>3, <1>4, <1>5, HashType

\* What a new symbol changes: one more node, in front of its chain.
LEMMA Added ==
    ASSUME TypeOK, NEW name \in NodeNames, NEW type \in {"pointer_var", "string"},
           NEW size \in Nat, AddSymbol(name, type, size), NEW new, new = min_available_id
    PROVE  /\ new \in Buckets /\ Hash(name) \in Buckets
           /\ new \notin Ids /\ Ids' = Ids \union {new} /\ min_available_id' = new + 1
           /\ nodes' \in Seq(NodeType)
           /\ \A id \in Ids : Node(id)' = Node(id)
           /\ Node(new)' = [name |-> name, type |-> type, addr |-> 0, size |-> size]
           /\ \A b \in Buckets \ {Hash(name)} : list'[b] = list[b]
           /\ list'[Hash(name)] \in Seq(Ids') /\ Len(list'[Hash(name)]) = Len(list[Hash(name)]) + 1
           /\ list'[Hash(name)][1] = new
           /\ \A p \in DOMAIN list[Hash(name)] : list'[Hash(name)][p + 1] = list[Hash(name)][p]
           /\ list' \in [Buckets -> Seq(Ids')]
           /\ inds' = [inds EXCEPT ![new] = Hash(name)]
           /\ inds' \in [Buckets -> Buckets \union {NoId}]
<1> DEFINE node == [name |-> name, type |-> type, addr |-> 0, size |-> size]
<1> DEFINE h == Hash(name)
<1>1. /\ new \in Nat /\ new < TableSize /\ TableSize \in Nat /\ h \in Buckets
      /\ nodes' = Append(nodes, node) /\ list' = [list EXCEPT ![h] = <<new>> \o list[h]]
      /\ inds' = [inds EXCEPT ![new] = h]
  BY NodeFacts, HashType DEF AddSymbol, appendLLnode
<1>2. node \in NodeType /\ nodes \in Seq(NodeType)
  BY DEF NodeType, TypeOK
<1>3. /\ nodes' \in Seq(NodeType) /\ min_available_id' = new + 1
      /\ \A i \in 1 .. Len(nodes) : nodes'[i] = nodes[i]
      /\ nodes'[new + 1] = node
  <2> HIDE DEF node
  <2> QED
    BY <1>1, <1>2 DEF min_available_id
<1>4. new \in Buckets /\ new \notin Ids /\ Ids' = Ids \union {new}
  BY <1>1, <1>3 DEF Buckets, Ids
<1>5. Node(new)' = node /\ \A id \in Ids : Node(id)' = Node(id)
  BY <1>1, <1>3 DEF Node, Ids, min_available_id
<1>6. \A b \in Buckets : list[b] \in Seq(Ids')
  BY <1>4, NodeFacts, SeqMonotonic
<1>7. /\ list'[h] \in Seq(Ids') /\ Len(list'[h]) = Len(list[h]) + 1 /\ list'[h][1] = new
      /\ \A p \in DOMAIN list[h] : list'[h][p + 1] = list[h][p]
  <2>1. list'[h] = <<new>> \o list[h]
    BY <1>1 DEF TypeOK
  <2>2. new \in Ids' /\ list[h] \in Seq(Ids')
    BY <1>1, <1>4, <1>6
  <2>3. <<new>> \in Seq(Ids') /\ Len(<<new>>) = 1 /\ <<new>>[1] = new
    BY <2>2
  <2> HIDE DEF h
  <2> QED
    BY <2>1, <2>2, <2>3, ConcatProperties
<1>8. \A b \in Buckets \ {h} : list'[b] = list[b]
  BY <1>1 DEF TypeOK
<1>9. list' \in [Buckets -> Seq(Ids')]
  BY <1>1, <1>6, <1>7, <1>8 DEF TypeOK
<1>10. inds' \in [Buckets -> Buckets \union {NoId}]
  BY <1>1 DEF TypeOK
<1> QED
  BY <1>1, <1>3, <1>4, <1>5, <1>7, <1>8, <1>9, <1>10

\* A slot is written in one node and changes nothing else of it.
LEMMA Placed ==
    ASSUME TypeOK, NEW id \in Ids, NEW addr \in Nat,
           nodes' = insert_hashmap_addr(addr, id)
    PROVE  /\ nodes' \in Seq(NodeType) /\ min_available_id' = min_available_id /\ Ids' = Ids
           /\ Node(id)'.addr = addr
           /\ \A other \in Ids \ {id} : Node(other)' = Node(other)
           /\ \A other \in Ids : /\ Node(other)'.name = Node(other).name
                                 /\ Node(other)'.type = Node(other).type
                                 /\ Node(other)'.size = Node(other).size
<1> DEFINE node == [nodes[id + 1] EXCEPT !.addr = addr]
<1>1. nodes \in Seq(NodeType) /\ id + 1 \in 1 .. Len(nodes) /\ nodes[id + 1] \in NodeType
  BY NodeFacts DEF TypeOK, Ids, min_available_id, Node
<1>2. /\ node \in NodeType /\ node.addr = addr /\ node.name = nodes[id + 1].name
      /\ node.type = nodes[id + 1].type /\ node.size = nodes[id + 1].size
  BY <1>1 DEF NodeType
<1>3. nodes' = [nodes EXCEPT ![id + 1] = node]
  BY DEF insert_hashmap_addr
<1> HIDE DEF node
<1>4. /\ nodes' \in Seq(NodeType) /\ Len(nodes') = Len(nodes)
      /\ \A i \in 1 .. Len(nodes) : nodes'[i] = IF i = id + 1 THEN node ELSE nodes[i]
  BY <1>1, <1>2, <1>3, ExceptSeq
<1>5. \A other \in Ids : other + 1 \in 1 .. Len(nodes) /\ (other + 1 = id + 1 <=> other = id)
  BY NodeFacts DEF Ids, min_available_id
<1> QED
  BY <1>2, <1>4, <1>5 DEF Node, Ids, min_available_id

\* The head of a symbol's chain is a symbol.
LEMMA HeadFacts ==
    ASSUME TypeOK, ChainInv, NEW id \in Ids
    PROVE  /\ HeadOf(id) \in NodeType /\ HeadOf(id).size \in Nat
           /\ Alone(id) => HeadOf(id) = Node(id)
<1>1. inds[id] \in Buckets
  BY NodeFacts DEF ChainInv
<1>2. list[inds[id]] \in Seq(Ids) /\ \E p \in DOMAIN list[inds[id]] : list[inds[id]][p] = id
  BY <1>1, NodeFacts DEF ChainInv
<1>3. 1 \in DOMAIN list[inds[id]] /\ list[inds[id]][1] \in Ids
  BY <1>2
<1>4. HeadOf(id) \in NodeType /\ HeadOf(id).size \in Nat
  BY <1>3, NodeFacts DEF HeadOf
<1> QED
  BY <1>4 DEF HeadOf, Alone

\* What the code generator emits is of its type.
LEMMA OutTypes ==
    /\ \A a \in Nat : Slot(a) \in OutType
    /\ \A a, c \in Nat : Cells(a, c) \in OutType
    /\ \A id \in Buckets, size \in Nat : Text(id, size) \in OutType
    /\ Garbled \in OutType /\ Ended \in OutType
  BY DEF Slot, Cells, Text, Garbled, Ended, OutType

\* The next free cell.
LEMMA NextFree ==
    ASSUME TypeOK, CellInv, Framed
    PROVE  NextCell = Offset + 4 /\ NextCell \in Nat /\ Offset \in Nat
<1>1. cur_frame = 8 * frameInt
  BY DEF Framed, cur_frame, frameArr
<1> QED
  BY <1>1 DEF NextCell, Offset, CellInv, TypeOK

\* A statement under generation is one of the program, with its symbol.
LEMMA EmittingFacts ==
    ASSUME SymbolTableInv, NEW k \in todo, NEW ops, Emitting(k, ops)
    PROVE  /\ k \in DOMAIN prog /\ k \in DOMAIN symbol /\ pc = "emit" /\ prog[k].op \in ops
           /\ prog[k].op \in NamingOps => symbol[k] \in Ids /\ Node(symbol[k]).name = prog[k].name
           /\ prog[k].op = "string" => /\ symbol[k] \in Ids /\ Node(symbol[k]).type = "string"
                                       /\ Node(symbol[k]).size = prog[k].size
           /\ out[k].kind = "none"
<1>1. k \in DOMAIN prog /\ pc = "emit" /\ prog[k].op \in ops
  BY DEF Emitting, SymbolTableInv, TypeOK
<1>2. k \in DOMAIN symbol
  <2>1. Len(symbol) = Len(prog) /\ symbol \in Seq(Ids \union {NoId})
    BY <1>1 DEF SymbolTableInv, PhaseInv, TypeOK
  <2> QED
    BY <1>1, <2>1, StatementType DEF SymbolTableInv
<1> QED
  BY <1>1, <1>2 DEF SymbolTableInv, SymbolInv, OutInv

-----------------------------------------------------------------------------
(* Type correctness.                                                       *)

LEMMA TypeInit == Init => TypeOK
<1> SUFFICES ASSUME Init PROVE TypeOK
  OBVIOUS
<1> USE DEF Init
<1>1. \A S : <<>> \in Seq(S)
  OBVIOUS
<1>2. Len(nodes) = 0 /\ TableSize \in Nat \ {0} /\ 0 \in Buckets
  BY TableAssumption DEF Buckets
<1>3. nodes \in Seq(NodeType) /\ min_available_id <= TableSize
  BY <1>1, <1>2 DEF min_available_id
<1>4. list \in [Buckets -> Seq(Ids)] /\ inds \in [Buckets -> Buckets \union {NoId}]
  BY <1>1
<1>5. prog \in Seq(Statement)
  BY ProgramsAssumption
<1>6. symbol \in Seq(Ids \union {NoId}) /\ Len(symbol) <= Len(prog)
  BY <1>1, <1>5
<1>7. out \in [DOMAIN prog -> OutType]
  BY DEF OutType
<1>8. freed \in Seq(Buckets) /\ last \in Buckets
  BY <1>1, <1>2
<1> QED
  BY <1>3, <1>4, <1>6, <1>7, <1>8 DEF TypeOK, NoFault

LEMMA ParseTypes ==
    ASSUME SymbolTableInv, Parse
    PROVE  TypeOK'
<1>0. TypeOK
  BY DEF SymbolTableInv
<1>1. ASSUME NEW id \in Ids \union {NoId}, Parsed(id), Ids \subseteq Ids', pc = "parse", at <= Len(prog)
      PROVE  /\ symbol' \in Seq(Ids' \union {NoId}) /\ Len(symbol') <= Len(prog)
             /\ at' \in Nat
  <2>1. symbol \in Seq(Ids' \union {NoId})
    BY <1>0, <1>1, SeqMonotonic DEF TypeOK
  <2>2. at = Len(symbol) + 1 /\ at \in Nat /\ Len(prog) \in Nat
    BY <1>0, <1>1, StatementType DEF SymbolTableInv, PhaseInv, TypeOK
  <2> QED
    BY <1>1, <2>1, <2>2 DEF Parsed
<1>2. CASE VarFound
  <2>1. PICK id \in Ids : Parsed(id)
    BY <1>2 DEF VarFound, Carrying, Ids
  <2>2. Ids' = Ids /\ min_available_id' = min_available_id
    BY <1>2 DEF VarFound, Ids, min_available_id
  <2>3. symbol' \in Seq(Ids' \union {NoId}) /\ Len(symbol') <= Len(prog) /\ at' \in Nat
    BY <1>1, <1>2, <2>1, <2>2 DEF VarFound, Reading
  <2> QED
    BY <1>0, <1>2, <2>1, <2>2, <2>3 DEF VarFound, Parsed, TypeOK, genVars, freeVars
<1>3. ASSUME NEW name \in NodeNames, NEW type \in {"pointer_var", "string"}, NEW size \in Nat,
             AddSymbol(name, type, size), Parsed(min_available_id), pc = "parse", at <= Len(prog)
      PROVE  TypeOK'
  <2> DEFINE new == min_available_id
  <2>1. /\ new \in Buckets /\ Ids' = Ids \union {new} /\ min_available_id' = new + 1
        /\ nodes' \in Seq(NodeType) /\ list' \in [Buckets -> Seq(Ids')]
        /\ inds' \in [Buckets -> Buckets \union {NoId}]
    BY <1>0, <1>3, Added
  <2>2. min_available_id' <= TableSize
    BY <2>1, TableAssumption DEF Buckets
  <2>3. symbol' \in Seq(Ids' \union {NoId}) /\ Len(symbol') <= Len(prog) /\ at' \in Nat
    <3>1. symbol \in Seq(Ids' \union {NoId}) /\ new \in Ids'
      BY <1>0, <2>1, SeqMonotonic DEF TypeOK
    <3>2. at = Len(symbol) + 1 /\ at \in Nat /\ Len(prog) \in Nat
      BY <1>0, <1>3, StatementType DEF SymbolTableInv, PhaseInv, TypeOK
    <3> QED
      BY <1>3, <3>1, <3>2 DEF Parsed
  <2> HIDE DEF new
  <2> QED
    BY <1>0, <1>3, <2>1, <2>2, <2>3 DEF Parsed, TypeOK, genVars, freeVars
<1>4. CASE VarAdded
  <2>1. prog[at].name \in NodeNames /\ pc = "parse" /\ at <= Len(prog)
    <3>1. at \in DOMAIN prog
      BY <1>0, <1>4, StatementType DEF VarAdded, Reading, SymbolTableInv, PhaseInv, TypeOK
    <3> QED
      BY <1>0, <1>4, <3>1, StatementType DEF VarAdded, Reading, NodeNames
  <2> QED
    BY <1>3, <1>4, <2>1 DEF VarAdded
<1>5. CASE StringAdded
  <2>1. at \in DOMAIN prog /\ pc = "parse" /\ at <= Len(prog)
    BY <1>0, <1>5, StatementType DEF StringAdded, Reading, SymbolTableInv, PhaseInv, TypeOK
  <2>2. prog[at].size \in Nat
    BY <1>0, <2>1, StatementType
  <2>3. min_available_id \in Buckets
    BY <1>0, <1>5, NodeFacts DEF StringAdded, AddSymbol, Buckets
  <2>4. StrName(min_available_id) \in NodeNames
    BY <2>3 DEF NodeNames
  <2> QED
    BY <1>3, <1>5, <2>1, <2>2, <2>4 DEF StringAdded
<1>6. CASE EndParsed
  <2>1. Ids' = Ids /\ min_available_id' = min_available_id
    BY <1>6 DEF EndParsed, Ids, min_available_id
  <2>2. symbol' \in Seq(Ids' \union {NoId}) /\ Len(symbol') <= Len(prog) /\ at' \in Nat
    BY <1>1, <1>6, <2>1 DEF EndParsed, Reading
  <2> QED
    BY <1>0, <1>6, <2>1, <2>2 DEF EndParsed, Parsed, TypeOK, genVars, freeVars
<1>7. CASE LookupFails \/ TableFull
  <2>1. Ids' = Ids /\ min_available_id' = min_available_id
    BY <1>7 DEF LookupFails, TableFull, Fault, Ids, min_available_id
  <2> QED
    BY <1>0, <1>7, <2>1 DEF LookupFails, TableFull, Fault, TypeOK, Causes, NoFault
<1>8. CASE ParseDone
  <2>1. Ids' = Ids /\ min_available_id' = min_available_id
    BY <1>8 DEF ParseDone, Ids, min_available_id
  <2> QED
    BY <1>0, <1>8, <2>1 DEF ParseDone, TypeOK, genVars, freeVars
<1> QED
  BY <1>2, <1>4, <1>5, <1>6, <1>7, <1>8 DEF Parse

LEMMA OtherTypes ==
    ASSUME SymbolTableInv, Rodata \/ Free \/ EmitDone \/ Exited \/ UNCHANGED vars
    PROVE  TypeOK'
<1>0. TypeOK
  BY DEF SymbolTableInv
<1>1. nodes' = nodes /\ Ids' = Ids /\ min_available_id' = min_available_id /\ Len(nodes') = Len(nodes)
  BY DEF Rodata, RodataFound, RodataWalk, RodataDone, Free, FreeChain, FreeSkip, FreeTwice,
         FreePastEnd, FreeDone, Fault, EmitDone, Exited, vars, Ids, min_available_id
<1>2. CASE RodataFound
  <2>1. at \in Ids
    <3>1. at \in Buckets /\ inds[at] # NoId
      BY <1>0, <1>2, NodeFacts DEF RodataFound, InUse, Buckets, TypeOK
    <3> QED
      BY <1>0, <3>1, NodeFacts DEF SymbolTableInv, NameInv, Ids, Buckets
  <2> QED
    BY <1>0, <1>1, <1>2, <2>1 DEF RodataFound, TypeOK, genVars, freeVars
<1>3. CASE RodataWalk \/ RodataDone
  BY <1>0, <1>1, <1>3 DEF RodataWalk, RodataDone, NextOfHead, TypeOK, genVars, freeVars
<1>4. CASE FreeChain
  <2>1. at \in Nat /\ at \in Buckets
    BY <1>0, <1>4, NodeFacts DEF FreeChain, InUse, Buckets, TypeOK
  <2>2. inds[at] \in Buckets
    BY <1>0, <1>4, <2>1, NodeFacts DEF FreeChain, InUse
  <2>3. freed' \in Seq(Buckets) /\ last' \in Buckets /\ at' \in Nat
    BY <1>0, <1>4, <2>1, <2>2 DEF FreeChain, TypeOK
  <2> QED
    BY <1>0, <1>1, <1>4, <2>3 DEF FreeChain, TypeOK, genVars
<1>8. CASE FreeSkip
  BY <1>0, <1>1, <1>8 DEF FreeSkip, TypeOK, genVars, freeVars
<1>5. CASE FreeTwice \/ FreePastEnd
  BY <1>0, <1>1, <1>5 DEF FreeTwice, FreePastEnd, Fault, TypeOK, Causes, NoFault
<1>6. CASE FreeDone \/ EmitDone
  BY <1>0, <1>1, <1>6 DEF FreeDone, EmitDone, TypeOK, genVars, freeVars
<1>7. CASE UNCHANGED vars
  BY <1>0, <1>1, <1>7 DEF vars, TypeOK
<1> QED
  BY <1>2, <1>3, <1>4, <1>5, <1>6, <1>7, <1>8 DEF Rodata, Free, Exited

LEMMA EmitTypes ==
    ASSUME SymbolTableInv, NEW k \in todo,
           \/ ReuseSlot(k) \/ NewSlot(k) \/ Bump(k) \/ PrintText(k) \/ PrintGarbled(k)
           \/ For(k) \/ End(k) \/ FrameLost(k)
    PROVE  TypeOK'
<1>0. TypeOK /\ k \in DOMAIN prog
  BY DEF SymbolTableInv, TypeOK
<1>1. ASSUME NEW what \in OutType, Emitted(k, what)
      PROVE  out' \in [DOMAIN prog' -> OutType] /\ todo' \subseteq DOMAIN prog'
  BY <1>0, <1>1 DEF Emitted, TypeOK
<1>2. ASSUME nodes' = nodes
      PROVE  Ids' = Ids /\ min_available_id' = min_available_id
  BY <1>2 DEF Ids, min_available_id
<1>3. CASE ReuseSlot(k)
  <2>1. Slot(Node(symbol[k]).addr) \in OutType
    <3>1. symbol[k] \in Ids
      BY <1>3, EmittingFacts DEF ReuseSlot, TakesSlot, NamingOps
    <3> QED
      BY <1>0, <3>1, NodeFacts, OutTypes
  <2>2. out' \in [DOMAIN prog' -> OutType] /\ todo' \subseteq DOMAIN prog'
    BY <1>1, <1>3, <2>1 DEF ReuseSlot
  <2> QED
    BY <1>0, <1>2, <1>3, <2>2 DEF ReuseSlot, Emitted, TypeOK, freeVars
<1>4. CASE NewSlot(k)
  <2>1. symbol[k] \in Ids
    BY <1>4, EmittingFacts DEF NewSlot, TakesSlot, NamingOps
  <2>2. NextCell \in Nat
    BY <1>0, <1>4, NextFree DEF NewSlot, SymbolTableInv
  <2>3. nodes' \in Seq(NodeType) /\ min_available_id' = min_available_id /\ Ids' = Ids
    BY <1>0, <1>4, <2>1, <2>2, Placed DEF NewSlot
  <2>4. out' \in [DOMAIN prog' -> OutType] /\ todo' \subseteq DOMAIN prog'
    BY <1>1, <1>4, <2>2, OutTypes DEF NewSlot
  <2>5. stackpos' \in Int
    BY <1>0, <1>4 DEF NewSlot, TypeOK
  <2> QED
    BY <1>0, <1>4, <2>3, <2>4, <2>5 DEF NewSlot, Emitted, TypeOK, freeVars
<1>5. CASE Bump(k)
  <2>1. Slot(Node(symbol[k]).addr) \in OutType
    <3>1. symbol[k] \in Ids
      BY <1>5, EmittingFacts DEF Bump, NamingOps
    <3> QED
      BY <1>0, <3>1, NodeFacts, OutTypes
  <2>2. out' \in [DOMAIN prog' -> OutType] /\ todo' \subseteq DOMAIN prog'
    BY <1>1, <1>5, <2>1 DEF Bump
  <2> QED
    BY <1>0, <1>2, <1>5, <2>2 DEF Bump, Emitted, TypeOK, freeVars
<1>6. CASE PrintText(k)
  <2>1. Text(symbol[k], HeadOf(symbol[k]).size) \in OutType
    <3>1. symbol[k] \in Ids
      BY <1>6, EmittingFacts DEF PrintText
    <3>2. HeadOf(symbol[k]).size \in Nat
      BY <1>0, <3>1, HeadFacts DEF SymbolTableInv
    <3> QED
      BY <1>0, <3>1, <3>2, NodeFacts, OutTypes
  <2>2. out' \in [DOMAIN prog' -> OutType] /\ todo' \subseteq DOMAIN prog'
    BY <1>1, <1>6, <2>1 DEF PrintText
  <2> QED
    BY <1>0, <1>2, <1>6, <2>2 DEF PrintText, Emitted, TypeOK, freeVars
<1>7. CASE PrintGarbled(k)
  <2>1. out' \in [DOMAIN prog' -> OutType] /\ todo' \subseteq DOMAIN prog'
    BY <1>1, <1>7, OutTypes DEF PrintGarbled
  <2> QED
    BY <1>0, <1>2, <1>7, <2>1 DEF PrintGarbled, Emitted, TypeOK, freeVars
<1>8. CASE For(k)
  <2>1. NextCell \in Nat /\ prog[k].size \in Nat
    BY <1>0, <1>8, NextFree, StatementType DEF For, SymbolTableInv
  <2>2. out' \in [DOMAIN prog' -> OutType] /\ todo' \subseteq DOMAIN prog'
    BY <1>1, <1>8, <2>1, OutTypes DEF For
  <2>3. stackpos' \in Int
    BY <1>0, <1>8, <2>1 DEF For, TypeOK
  <2> QED
    BY <1>0, <1>2, <1>8, <2>2, <2>3 DEF For, Emitted, TypeOK, freeVars
<1>9. CASE End(k)
  <2>1. out' \in [DOMAIN prog' -> OutType] /\ todo' \subseteq DOMAIN prog'
    BY <1>1, <1>9, OutTypes DEF End
  <2>2. stackpos' \in Int /\ frameInt' \in Int /\ frameInt' <= 1
    BY <1>0, <1>9 DEF End, FramePopped, TypeOK
  <2> QED
    BY <1>0, <1>2, <1>9, <2>1, <2>2 DEF End, Emitted, TypeOK, freeVars
<1>10. CASE FrameLost(k)
  BY <1>0, <1>2, <1>10 DEF FrameLost, Fault, TypeOK, Causes, NoFault
<1> QED
  BY <1>3, <1>4, <1>5, <1>6, <1>7, <1>8, <1>9, <1>10

LEMMA TypeStep ==
    ASSUME SymbolTableInv, [Next]_vars
    PROVE  TypeOK'
  BY ParseTypes, OtherTypes, EmitTypes DEF Next, Emit

-----------------------------------------------------------------------------
(* The chains.                                                             *)

\* Both ways to add a symbol, with what is known of the new one.
LEMMA Adding ==
    ASSUME SymbolTableInv, VarAdded \/ StringAdded
    PROVE  \E name \in NodeNames, type \in {"pointer_var", "string"}, size \in Nat :
              /\ AddSymbol(name, type, size) /\ Parsed(min_available_id)
              /\ pc = "parse" /\ at \in DOMAIN prog /\ at = Len(symbol) + 1
              /\ \A id \in Ids : Node(id).name # name
              /\ \/ type = "pointer_var" /\ name \in Names
                 \/ type = "string" /\ name = StrName(min_available_id)
              /\ \/ prog[at].op \in NamingOps /\ name = prog[at].name
                 \/ prog[at].op = "string" /\ type = "string" /\ size = prog[at].size
<1>0. TypeOK /\ ChainInv /\ NameInv
  BY DEF SymbolTableInv
<1>1. at \in DOMAIN prog /\ at = Len(symbol) + 1 /\ pc = "parse"
  BY <1>0, StatementType DEF VarAdded, StringAdded, Reading, SymbolTableInv, PhaseInv, TypeOK
<1>2. prog[at].name \in Names /\ prog[at].size \in Nat
  BY <1>0, <1>1, StatementType
<1>3. CASE VarAdded
  <2>1. prog[at].op \in NamingOps /\ AddSymbol(prog[at].name, "pointer_var", 0)
        /\ Parsed(min_available_id) /\ prog[at].name \in NodeNames
    BY <1>2, <1>3 DEF VarAdded, Reading, NodeNames
  <2>2. ASSUME NEW id \in Ids, Node(id).name = prog[at].name PROVE FALSE
    <3>1. Hash(prog[at].name) \in Buckets /\ inds[id] = Hash(prog[at].name)
      BY <1>0, <2>1, <2>2, HashType DEF ChainInv
    <3>2. \E p \in DOMAIN list[Hash(prog[at].name)] : TRUE
      BY <1>0, <3>1, <2>2 DEF ChainInv
    <3> QED
      BY <1>3, <3>2 DEF VarAdded, Absent
  <2> QED
    BY <1>1, <1>2, <2>1, <2>2
<1>4. CASE StringAdded
  <2> DEFINE new == min_available_id
  <2>1. prog[at].op = "string" /\ AddSymbol(StrName(new), "string", prog[at].size)
        /\ Parsed(new) /\ new \in Buckets
    BY <1>0, <1>4, NodeFacts DEF StringAdded, Reading, AddSymbol, Buckets
  <2>2. StrName(new) \in NodeNames
    BY <2>1 DEF NodeNames
  <2>3. ASSUME NEW id \in Ids, Node(id).name = StrName(new) PROVE FALSE
    <3>1. id \in Buckets /\ id # new
      BY <1>0, NodeFacts DEF Ids
    <3> QED
      BY <1>0, <2>1, <2>3, <3>1, NameAssumption DEF NameInv
  <2> QED
    BY <1>1, <1>2, <2>1, <2>2, <2>3
<1> QED
  BY <1>3, <1>4

\* A symbol added leaves the chains sound.
LEMMA ChainAdded ==
    ASSUME TypeOK, ChainInv, NameInv, NEW name \in NodeNames, NEW type \in {"pointer_var", "string"},
           NEW size \in Nat, AddSymbol(name, type, size),
           \A id \in Ids : Node(id).name # name,
           \/ type = "pointer_var" /\ name \in Names
           \/ type = "string" /\ name = StrName(min_available_id)
    PROVE  ChainInv' /\ NameInv'
<1> DEFINE h == Hash(name)
<1>0. PICK new : new = min_available_id
  OBVIOUS
<1>1. /\ new \in Buckets /\ h \in Buckets
      /\ new \notin Ids /\ Ids' = Ids \union {new} /\ min_available_id' = new + 1
      /\ \A id \in Ids : Node(id)' = Node(id)
      /\ Node(new)' = [name |-> name, type |-> type, addr |-> 0, size |-> size]
      /\ \A b \in Buckets \ {h} : list'[b] = list[b]
      /\ list'[h] \in Seq(Ids') /\ Len(list'[h]) = Len(list[h]) + 1 /\ list'[h][1] = new
      /\ \A p \in DOMAIN list[h] : list'[h][p + 1] = list[h][p]
      /\ inds' = [inds EXCEPT ![new] = h]
  BY <1>0, Added
<1>2. new \in Nat /\ Ids = 0 .. new - 1
  BY <1>0, NodeFacts DEF Ids
<1>3. /\ \A id \in Ids : id \in Nat /\ id < new /\ id \in Buckets
      /\ \A b \in Buckets : list[b] \in Seq(Ids) /\ DOMAIN list[b] = 1 .. Len(list[b]) /\ Len(list[b]) \in Nat
  BY <1>2, NodeFacts
<1>4. DOMAIN list'[h] = 1 .. Len(list[h]) + 1
  BY <1>1
<1>5. /\ \A id \in Ids : inds'[id] = inds[id]
      /\ inds'[new] = h
      /\ \A b \in Buckets \ {new} : inds'[b] = inds[b]
  BY <1>1, <1>3 DEF TypeOK
<1> HIDE DEF h
<1>6. \A x \in Ids' : (\E p \in DOMAIN list'[h] : list'[h][p] = x)
                      <=> (x = new \/ \E p \in DOMAIN list[h] : list[h][p] = x)
  <2>1. TAKE x \in Ids'
  <2>2. ASSUME NEW p \in DOMAIN list'[h], list'[h][p] = x, x # new
        PROVE  \E q \in DOMAIN list[h] : list[h][q] = x
    <3>1. p # 1
      BY <1>1, <2>2, Zenon
    <3>2. p - 1 \in DOMAIN list[h] /\ p = (p - 1) + 1
      <4>1. PICK n \in Nat : n = Len(list[h]) /\ DOMAIN list[h] = 1 .. n
        BY <1>1, <1>3, Zenon
      <4>2. p \in 1 .. n + 1
        BY <1>4, <4>1, Zenon
      <4>3. p - 1 \in 1 .. n /\ p = (p - 1) + 1
        BY <3>1, <4>2
      <4> QED
        BY <4>1, <4>3, Zenon
    <3>3. list'[h][(p - 1) + 1] = list[h][p - 1]
      BY <1>1, <3>2, Zenon
    <3>4. list[h][p - 1] = x
      BY <2>2, <3>2, <3>3, Zenon
    <3> QED
      BY <3>2, <3>4, Zenon
  <2>3. ASSUME NEW p \in DOMAIN list[h], list[h][p] = x
        PROVE  \E q \in DOMAIN list'[h] : list'[h][q] = x
    <3>1. p + 1 \in DOMAIN list'[h]
      BY <1>1, <1>3, <1>4
    <3> QED
      BY <1>1, <2>3, <3>1
  <2>4. 1 \in DOMAIN list'[h] /\ list'[h][1] = new
    BY <1>1, <1>3, <1>4
  <2> QED
    BY <2>2, <2>3, <2>4
<1>7. \A b \in Buckets : \A p \in DOMAIN list[b] : list[b][p] \in Ids
  BY <1>3
<1>8. ASSUME NEW id \in Ids'
      PROVE  /\ inds'[id] = Hash(Node(id)'.name)
             /\ \A b \in Buckets : (\E p \in DOMAIN list'[b] : list'[b][p] = id) <=> b = inds'[id]
  <2>1. CASE id = new
    <3>1. inds'[id] = h /\ Node(id)'.name = name
      BY <1>1, <1>5, <2>1
    <3>2. ASSUME NEW b \in Buckets
          PROVE  (\E p \in DOMAIN list'[b] : list'[b][p] = id) <=> b = inds'[id]
      BY <1>1, <1>6, <1>7, <2>1, <3>1
    <3> QED
      BY <3>1, <3>2 DEF h
  <2>2. CASE id \in Ids
    <3>1. /\ inds'[id] = inds[id] /\ Node(id)' = Node(id) /\ id # new
          /\ inds[id] = Hash(Node(id).name)
          /\ \A b \in Buckets : (\E p \in DOMAIN list[b] : list[b][p] = id) <=> b = inds[id]
      BY <1>1, <1>5, <2>2 DEF ChainInv
    <3> QED
      BY <1>1, <1>6, <3>1
  <2> QED
    BY <1>1, <2>1, <2>2
<1>9. ASSUME NEW b \in Buckets, NEW p \in DOMAIN list'[b], NEW q \in DOMAIN list'[b], p < q
      PROVE  list'[b][p] > list'[b][q]
  <2>1. CASE b # h
    BY <1>1, <1>9, <2>1 DEF ChainInv
  <2>2. CASE b = h /\ p = 1
    <3>1. q - 1 \in DOMAIN list[h] /\ q = (q - 1) + 1
      BY <1>1, <1>3, <1>4, <1>9, <2>2, SMTT(20)
    <3>2. list'[h][q] = list[h][q - 1] /\ list[h][q - 1] \in Ids
      BY <1>1, <1>7, <3>1
    <3> QED
      BY <1>1, <1>3, <2>2, <3>2
  <2>3. CASE b = h /\ p # 1
    <3>1. /\ q - 1 \in DOMAIN list[h] /\ q = (q - 1) + 1
          /\ p - 1 \in DOMAIN list[h] /\ p = (p - 1) + 1 /\ p - 1 < q - 1
      <4>1. PICK n \in Nat : n = Len(list[h]) /\ DOMAIN list[h] = 1 .. n
        BY <1>1, <1>3
      <4>2. p \in 1 .. n + 1 /\ q \in 1 .. n + 1 /\ p < q /\ p # 1
        BY <1>4, <1>9, <2>3, <4>1
      <4> QED
        BY <4>1, <4>2
    <3>2. list'[h][q] = list[h][q - 1] /\ list'[h][p] = list[h][p - 1]
      BY <1>1, <3>1
    <3>3. list[h][p - 1] > list[h][q - 1]
      BY <1>1, <3>1 DEF ChainInv
    <3> QED
      BY <2>3, <3>2, <3>3
  <2> QED
    BY <2>1, <2>2, <2>3
<1>10. \A a, b \in Ids' : Node(a)'.name = Node(b)'.name => a = b
  BY <1>1 DEF ChainInv
<1>11. ChainInv'
  BY <1>8, <1>9, <1>10 DEF ChainInv
<1>12. \A b \in Buckets : inds'[b] = NoId <=> b >= min_available_id'
  <2>1. h # NoId
    BY <1>1 DEF Buckets, NoId
  <2>2. ASSUME NEW b \in Buckets, b # new
        PROVE  inds'[b] = NoId <=> b >= new + 1
    BY <1>0, <1>2, <1>5, <2>2 DEF NameInv, Buckets
  <2> QED
    BY <1>1, <1>2, <1>5, <2>1, <2>2
<1>13. \A id \in Ids' :
          \/ Node(id)'.type = "pointer_var" /\ Node(id)'.name \in Names
          \/ Node(id)'.type = "string" /\ Node(id)'.name = StrName(id) /\ Node(id)'.addr = 0
  BY <1>0, <1>1 DEF NameInv
<1> QED
  BY <1>11, <1>12, <1>13 DEF NameInv

-----------------------------------------------------------------------------
(* The kinds of steps.                                                     *)

\* The steps that generate the code of the statement k.
Generates(k) == \/ ReuseSlot(k) \/ NewSlot(k) \/ Bump(k) \/ PrintText(k)
                \/ PrintGarbled(k) \/ For(k) \/ End(k)

tableVars == <<prog, nodes, list, inds, symbol, todo, out, stackpos, frameInt>>

\* A step adds a symbol, parses a statement, generates the code of one, or
\* leaves the tables alone.
LEMMA StepKinds ==
    ASSUME [Next]_vars
    PROVE  \/ VarAdded \/ StringAdded
           \/ VarFound \/ EndParsed
           \/ \E k \in todo : Generates(k)
           \/ UNCHANGED tableVars
<1>1. CASE Rodata
  BY <1>1 DEF Rodata, RodataFound, RodataWalk, RodataDone, tableVars, genVars
<1>2. CASE Free
  BY <1>2 DEF Free, FreeChain, FreeSkip, FreeTwice, FreePastEnd, FreeDone, Fault, tableVars, genVars
<1>3. CASE Parse
  BY <1>3 DEF Parse, LookupFails, TableFull, ParseDone, Fault, tableVars, genVars
<1>4. CASE Emit
  BY <1>4 DEF Emit, FrameLost, EmitDone, Fault, tableVars, genVars, Generates
<1> QED
  BY <1>1, <1>2, <1>3, <1>4 DEF Next, Exited, vars, tableVars

\* What generating the code of a statement changes.
LEMMA Generated ==
    ASSUME SymbolTableInv, NEW k \in todo, Generates(k)
    PROVE  /\ k \in DOMAIN prog /\ k \in DOMAIN symbol /\ pc = "emit" /\ out[k].kind = "none"
           /\ UNCHANGED <<prog, list, inds, symbol, rodata, at, last, freed, pc, fault>>
           /\ todo' = todo \ {k}
           /\ \A m \in DOMAIN prog : m # k => out'[m] = out[m]
           /\ Ids' = Ids /\ min_available_id' = min_available_id
           /\ \A id \in Ids : /\ Node(id)'.name = Node(id).name
                              /\ Node(id)'.type = Node(id).type
                              /\ Node(id)'.size = Node(id).size
           /\ \A id \in Ids : Node(id).addr # 0 \/ Node(id).type = "string"
                              => Node(id)'.addr = Node(id).addr
<1>0. TypeOK /\ NameInv
  BY DEF SymbolTableInv
<1>1. PICK ops, what : Emitting(k, ops) /\ Emitted(k, what)
  BY DEF Generates, ReuseSlot, NewSlot, Bump, PrintText, PrintGarbled, For, End, TakesSlot
<1>2. /\ k \in DOMAIN prog /\ k \in DOMAIN symbol /\ pc = "emit" /\ out[k].kind = "none"
  BY <1>1, EmittingFacts
<1>3. /\ UNCHANGED <<prog, list, inds, symbol, rodata, at, last, freed, pc, fault>>
      /\ todo' = todo \ {k} /\ out' = [out EXCEPT ![k] = what]
  BY <1>1 DEF Emitted, freeVars
<1>4. \A m \in DOMAIN prog : m # k => out'[m] = out[m]
  BY <1>0, <1>3 DEF TypeOK
<1>5. CASE nodes' = nodes
  BY <1>2, <1>3, <1>4, <1>5 DEF Ids, Node, min_available_id
<1>6. CASE NewSlot(k)
  <2>1. symbol[k] \in Ids /\ Node(symbol[k]).name = prog[k].name
    BY <1>6, EmittingFacts DEF NewSlot, TakesSlot, NamingOps
  <2>2. NextCell \in Nat
    BY <1>0, <1>6, NextFree DEF NewSlot, SymbolTableInv
  <2>3. /\ min_available_id' = min_available_id /\ Ids' = Ids
        /\ \A other \in Ids \ {symbol[k]} : Node(other)' = Node(other)
        /\ \A other \in Ids : /\ Node(other)'.name = Node(other).name
                              /\ Node(other)'.type = Node(other).type
                              /\ Node(other)'.size = Node(other).size
    BY <1>0, <1>6, <2>1, <2>2, Placed DEF NewSlot
  <2>4. Node(symbol[k]).type # "string"
    <3>1. prog[k].name \in Names
      BY <1>0, <1>2, StatementType
    <3>2. symbol[k] \in Buckets
      BY <1>0, <2>1, NodeFacts
    <3> QED
      BY <1>0, <2>1, <3>1, <3>2, NameAssumption DEF NameInv
  <2>5. Node(symbol[k]).addr = 0
    BY <1>6 DEF NewSlot
  <2>6. \A id \in Ids : Node(id).addr # 0 \/ Node(id).type = "string"
                        => Node(id)'.addr = Node(id).addr
    BY <2>3, <2>4, <2>5
  <2> QED
    BY <1>2, <1>3, <1>4, <2>3, <2>6
<1> QED
  BY <1>5, <1>6 DEF Generates, ReuseSlot, Bump, PrintText, PrintGarbled, For, End

-----------------------------------------------------------------------------
(* One lemma for each part of the invariant.                               *)

LEMMA ChainStep ==
    ASSUME SymbolTableInv, [Next]_vars
    PROVE  ChainInv' /\ NameInv'
<1>0. TypeOK /\ ChainInv /\ NameInv
  BY DEF SymbolTableInv
<1>1. CASE VarAdded \/ StringAdded
  <2>1. PICK name \in NodeNames, type \in {"pointer_var", "string"}, size \in Nat :
              /\ AddSymbol(name, type, size)
              /\ \A id \in Ids : Node(id).name # name
              /\ \/ type = "pointer_var" /\ name \in Names
                 \/ type = "string" /\ name = StrName(min_available_id)
    BY <1>1, Adding
  <2> QED
    BY <1>0, <2>1, ChainAdded
<1>2. ASSUME Ids' = Ids, min_available_id' = min_available_id, list' = list, inds' = inds,
             \A id \in Ids : /\ Node(id)'.name = Node(id).name
                             /\ Node(id)'.type = Node(id).type
                             /\ Node(id).type = "string" => Node(id)'.addr = Node(id).addr
      PROVE  ChainInv' /\ NameInv'
  <2>1. ChainInv'
    BY <1>0, <1>2 DEF ChainInv
  <2>2. NameInv'
    BY <1>0, <1>2 DEF NameInv
  <2> QED
    BY <2>1, <2>2
<1>3. CASE VarFound \/ EndParsed \/ UNCHANGED tableVars
  <2>1. nodes' = nodes /\ list' = list /\ inds' = inds
    BY <1>3 DEF VarFound, EndParsed, tableVars
  <2>2. Ids' = Ids /\ min_available_id' = min_available_id /\ \A id \in Ids : Node(id)' = Node(id)
    BY <2>1 DEF Ids, Node, min_available_id
  <2> QED
    BY <1>2, <2>1, <2>2
<1>4. CASE \E k \in todo : Generates(k)
  <2>1. PICK k \in todo : Generates(k)
    BY <1>4
  <2>2. /\ Ids' = Ids /\ min_available_id' = min_available_id /\ list' = list /\ inds' = inds
        /\ \A id \in Ids : /\ Node(id)'.name = Node(id).name
                           /\ Node(id)'.type = Node(id).type
                           /\ Node(id).type = "string" => Node(id)'.addr = Node(id).addr
    BY <2>1, Generated
  <2> QED
    BY <1>2, <2>2
<1> QED
  BY <1>1, <1>3, <1>4, StepKinds

\* The operand of the statement parsed is the last one.
LEMMA Appended ==
    ASSUME SymbolTableInv, NEW id, Parsed(id), pc = "parse"
    PROVE  /\ at = Len(symbol) + 1 /\ Len(symbol) \in Nat /\ Len(symbol') = at
           /\ at' = at + 1 /\ todo = DOMAIN prog /\ rodata = {}
           /\ UNCHANGED <<prog, todo, out, stackpos, frameInt, rodata, last, freed, pc, fault>>
           /\ DOMAIN symbol' = DOMAIN symbol \union {at} /\ at \notin DOMAIN symbol
           /\ symbol'[at] = id
           /\ \A k \in DOMAIN symbol : symbol'[k] = symbol[k]
<1>1. /\ at = Len(symbol) + 1 /\ symbol \in Seq(Ids \union {NoId})
      /\ todo = DOMAIN prog /\ rodata = {}
  BY DEF SymbolTableInv, PhaseInv, TypeOK
<1>2. PICK n \in Nat : n = Len(symbol) /\ DOMAIN symbol = 1 .. n
  BY <1>1
<1>3. symbol' = Append(symbol, id)
  BY DEF Parsed
<1>4. Len(symbol') = n + 1 /\ DOMAIN symbol' = 1 .. n + 1 /\ symbol'[n + 1] = id
  BY <1>1, <1>2, <1>3
<1>5. \A k \in DOMAIN symbol : symbol'[k] = symbol[k]
  BY <1>1, <1>2, <1>3
<1> QED
  BY <1>1, <1>2, <1>4, <1>5 DEF Parsed, genVars, freeVars

LEMMA SymbolStep ==
    ASSUME SymbolTableInv, [Next]_vars
    PROVE  SymbolInv'
<1>0. TypeOK /\ SymbolInv
  BY DEF SymbolTableInv
<1>1. ASSUME NEW id, Parsed(id), pc = "parse", Ids \subseteq Ids',
             \A old \in Ids : Node(old)' = Node(old),
             prog[at].op \in NamingOps => id \in Ids' /\ Node(id)'.name = prog[at].name,
             prog[at].op = "string" => /\ id \in Ids' /\ Node(id)'.type = "string"
                                       /\ Node(id)'.size = prog[at].size
      PROVE  SymbolInv'
  <2>1. /\ DOMAIN symbol' = DOMAIN symbol \union {at} /\ symbol'[at] = id /\ prog' = prog
        /\ \A k \in DOMAIN symbol : symbol'[k] = symbol[k]
    BY <1>1, Appended
  <2>2. ASSUME NEW k \in DOMAIN symbol
        PROVE  /\ prog'[k].op \in NamingOps => /\ symbol'[k] \in Ids'
                                               /\ nodes'[symbol'[k] + 1].name = prog'[k].name
               /\ prog'[k].op = "string" => /\ symbol'[k] \in Ids'
                                            /\ nodes'[symbol'[k] + 1].type = "string"
                                            /\ nodes'[symbol'[k] + 1].size = prog'[k].size
    BY <1>0, <1>1, <2>1, <2>2 DEF SymbolInv, Node
  <2>3. /\ prog'[at].op \in NamingOps => /\ symbol'[at] \in Ids'
                                         /\ nodes'[symbol'[at] + 1].name = prog'[at].name
        /\ prog'[at].op = "string" => /\ symbol'[at] \in Ids'
                                      /\ nodes'[symbol'[at] + 1].type = "string"
                                      /\ nodes'[symbol'[at] + 1].size = prog'[at].size
    BY <1>1, <2>1 DEF Node
  <2> QED
    BY <2>1, <2>2, <2>3 DEF SymbolInv, Node
<1>2. CASE VarAdded \/ StringAdded
  <2>1. PICK name \in NodeNames, type \in {"pointer_var", "string"}, size \in Nat :
              /\ AddSymbol(name, type, size) /\ Parsed(min_available_id) /\ pc = "parse"
              /\ \/ prog[at].op \in NamingOps /\ name = prog[at].name
                 \/ prog[at].op = "string" /\ type = "string" /\ size = prog[at].size
    BY <1>2, Adding
  <2>2. PICK new : new = min_available_id
    OBVIOUS
  <2>3. /\ Ids' = Ids \union {new} /\ \A id \in Ids : Node(id)' = Node(id)
        /\ Node(new)' = [name |-> name, type |-> type, addr |-> 0, size |-> size]
    BY <1>0, <2>1, <2>2, Added
  <2>4. "string" \notin NamingOps
    BY DEF NamingOps
  <2> QED
    BY <1>1, <2>1, <2>2, <2>3, <2>4
<1>3. CASE VarFound \/ EndParsed
  <2>1. nodes' = nodes /\ pc = "parse"
    BY <1>3 DEF VarFound, EndParsed, Reading
  <2>2. Ids' = Ids /\ \A id \in Ids : Node(id)' = Node(id)
    BY <2>1 DEF Ids, Node, min_available_id
  <2>3. CASE VarFound
    <3>1. PICK id \in Carrying(prog[at].name) : Parsed(id)
      BY <2>3 DEF VarFound
    <3>2. id \in Ids /\ Node(id).name = prog[at].name
      BY <3>1 DEF Carrying, Ids
    <3>3. prog[at].op # "string"
      BY <2>3 DEF VarFound, Reading, NamingOps
    <3> QED
      BY <1>1, <2>1, <2>2, <3>1, <3>2, <3>3
  <2>4. CASE EndParsed
    <3>1. Parsed(NoId) /\ prog[at].op = "end" /\ "end" \notin NamingOps
      BY <2>4 DEF EndParsed, Reading, NamingOps
    <3> QED
      BY <1>1, <2>1, <2>2, <3>1
  <2> QED
    BY <1>3, <2>3, <2>4
<1>4. ASSUME Ids' = Ids, symbol' = symbol, prog' = prog,
             \A id \in Ids : /\ Node(id)'.name = Node(id).name
                             /\ Node(id)'.type = Node(id).type
                             /\ Node(id)'.size = Node(id).size
      PROVE  SymbolInv'
  BY <1>0, <1>4 DEF SymbolInv, Node
<1>5. CASE UNCHANGED tableVars
  <2>1. Ids' = Ids /\ symbol' = symbol /\ prog' = prog /\ nodes' = nodes
    BY <1>5 DEF Ids, min_available_id, tableVars
  <2> QED
    BY <1>4, <2>1 DEF Node
<1>6. CASE \E k \in todo : Generates(k)
  BY <1>4, <1>6, Generated
<1> QED
  BY <1>2, <1>3, <1>5, <1>6, StepKinds

\* An id in use is that of a symbol.
LEMMA InUseFacts ==
    ASSUME TypeOK, NameInv
    PROVE  at \in Nat /\ (InUse(at) <=> at \in Ids) /\ (InUse(at) <=> at < min_available_id)
<1>1. at \in Nat /\ TableSize \in Nat \ {0} /\ min_available_id \in Nat /\ min_available_id <= TableSize
  BY NodeFacts DEF TypeOK
<1>2. CASE at < TableSize
  BY <1>1, <1>2 DEF NameInv, InUse, Ids, Buckets
<1>3. CASE ~(at < TableSize)
  BY <1>1, <1>3 DEF InUse, Ids
<1> QED
  BY <1>1, <1>2, <1>3

LEMMA PhaseStep ==
    ASSUME SymbolTableInv, [Next]_vars
    PROVE  PhaseInv'
<1>0. TypeOK /\ NameInv /\ PhaseInv
  BY DEF SymbolTableInv
<1>1. /\ at \in Nat /\ min_available_id \in Nat /\ min_available_id = Len(nodes)
      /\ Len(symbol) \in Nat /\ Len(prog) \in Nat /\ Len(symbol) <= Len(prog)
      /\ InUse(at) <=> at < min_available_id
  BY <1>0, NodeFacts, InUseFacts, StatementType DEF TypeOK, min_available_id
<1>2. CASE VarAdded \/ StringAdded
  <2>1. PICK name \in NodeNames, type \in {"pointer_var", "string"}, size \in Nat :
              AddSymbol(name, type, size) /\ Parsed(min_available_id) /\ pc = "parse"
    BY <1>2, Adding
  <2>2. min_available_id' = min_available_id + 1
    <3>1. PICK new : new = min_available_id
      OBVIOUS
    <3> QED
      BY <1>0, <2>1, <3>1, Added
  <2>3. Len(nodes') = Len(nodes) + 1
    BY <2>2 DEF min_available_id
  <2> QED
    BY <1>0, <1>1, <2>1, <2>3, Appended DEF PhaseInv
<1>3. CASE VarFound \/ EndParsed
  <2>1. PICK id : Parsed(id) /\ nodes' = nodes /\ pc = "parse"
    BY <1>3 DEF VarFound, EndParsed, Reading
  <2> QED
    BY <1>0, <1>1, <2>1, Appended DEF PhaseInv
<1>4. CASE \E k \in todo : Generates(k)
  <2>1. PICK k \in todo : Generates(k)
    BY <1>4
  <2>2. /\ k \in DOMAIN prog /\ pc = "emit" /\ pc' = pc /\ min_available_id' = min_available_id
        /\ symbol' = symbol /\ prog' = prog /\ rodata' = rodata /\ Ids' = Ids
        /\ \A id \in Ids : nodes'[id + 1].type = Node(id).type
    BY <2>1, Generated DEF Node
  <2>3. Len(nodes') = Len(nodes)
    BY <2>2 DEF min_available_id
  <2>4. rodata' = { id \in Ids' : nodes'[id + 1].type = "string" }
    BY <1>0, <2>2 DEF PhaseInv, Strings, IsString, Node
  <2> QED
    BY <1>0, <2>2, <2>3, <2>4 DEF PhaseInv, Strings, IsString, Node
<1>5. CASE UNCHANGED tableVars
  <2>1. /\ nodes' = nodes /\ symbol' = symbol /\ prog' = prog /\ todo' = todo /\ Strings' = Strings
        /\ min_available_id' = min_available_id
    BY <1>5 DEF tableVars, Strings, Ids, IsString, Node, min_available_id
  <2>2. CASE ParseDone
    <3>1. pc = "parse" /\ pc' = "rodata" /\ at' = 0 /\ rodata' = rodata
      BY <2>2 DEF ParseDone
    <3>2. { id \in Strings : id < 0 } = {}
      BY <1>1 DEF Strings, Ids
    <3> QED
      BY <1>0, <1>1, <2>1, <2>2, <3>1, <3>2 DEF ParseDone, PhaseInv
  <2>3. CASE RodataFound
    <3>1. pc = "rodata" /\ pc' = "rodata" /\ at' = at + 1 /\ at \in Ids
      BY <1>0, <2>3, InUseFacts DEF RodataFound
    <3>2. rodata' = { id \in Strings : id < at + 1 }
      <4>1. rodata = { id \in Strings : id < at } /\ at \in Nat
        BY <1>0, <1>1, <3>1 DEF PhaseInv
      <4>2. \A id \in Strings : id \in Nat /\ (id < at + 1 <=> id < at \/ id = at)
        BY <1>1 DEF Strings, Ids
      <4>3. IsString(at) <=> at \in Strings
        BY <3>1 DEF Strings
      <4>4. rodata' = IF at \in Strings THEN rodata \union {at} ELSE rodata
        BY <2>3, <4>3 DEF RodataFound
      <4> QED
        BY <4>1, <4>2, <4>4
    <3> QED
      BY <1>0, <1>1, <2>1, <2>3, <3>1, <3>2 DEF RodataFound, PhaseInv
  <2>4. CASE RodataWalk
    BY <1>0, <1>1, <2>1, <2>4 DEF RodataWalk, PhaseInv
  <2>5. CASE RodataDone
    <3>1. pc = "rodata" /\ pc' = "emit" /\ rodata' = rodata /\ ~InUse(at)
      BY <2>5 DEF RodataDone
    <3>2. rodata = Strings
      <4>1. rodata = { id \in Strings : id < at } /\ at = min_available_id
        BY <1>0, <1>1, <3>1 DEF PhaseInv
      <4>2. \A id \in Strings : id < at
        BY <1>1, <4>1 DEF Strings, Ids
      <4> QED
        BY <4>1, <4>2
    <3> QED
      BY <1>0, <1>1, <2>1, <3>1, <3>2 DEF PhaseInv
  <2>6. CASE EmitDone
    BY <1>0, <1>1, <2>1, <2>6 DEF EmitDone, PhaseInv
  <2>7. CASE FreeChain \/ FreeSkip
    <3>1. pc = "free" /\ pc' = pc /\ at' = at + 1 /\ InUse(at) /\ rodata' = rodata
      BY <2>7 DEF FreeChain, FreeSkip, freeVars
    <3> QED
      BY <1>0, <1>1, <2>1, <3>1 DEF PhaseInv
  <2>8. CASE FreeDone
    BY <1>0, <1>1, <2>1, <2>8 DEF FreeDone, PhaseInv
  <2>9. ASSUME NEW why, Fault(why) PROVE PhaseInv'
    BY <1>0, <1>1, <2>1, <2>9 DEF Fault, PhaseInv
  <2>10. CASE UNCHANGED vars
    BY <1>0, <1>1, <2>1, <2>10 DEF vars, PhaseInv
  <2> QED
    BY <1>2, <1>3, <1>4, <2>2, <2>3, <2>4, <2>5, <2>6, <2>7, <2>8, <2>9, <2>10
       DEF Next, Parse, Rodata, Emit, Free, Generates, Exited, LookupFails, TableFull,
           FrameLost, FreeTwice, FreePastEnd
<1> QED
  BY <1>2, <1>3, <1>4, <1>5, StepKinds

\* The cells each kind of output addresses.
LEMMA CellFacts ==
    /\ \A a \in Nat : CellsOf(Slot(a)) = {a} \ {0}
    /\ \A a, n \in Nat : CellsOf(Cells(a, n)) = { a + 4 * c : c \in 0 .. n - 1 }
    /\ \A id, n : CellsOf(Text(id, n)) = {}
    /\ CellsOf(Garbled) = {} /\ CellsOf(Ended) = {}
    /\ \A o : o.kind \notin {"slot", "cells"} => CellsOf(o) = {}
  BY DEF CellsOf, Slot, Cells, Text, Garbled, Ended

\* The kind of each output.
LEMMA OutKinds ==
    /\ \A a : Slot(a).kind = "slot" /\ Slot(a).at = a
    /\ \A a, n : Cells(a, n).kind = "cells"
    /\ \A id, n : Text(id, n).kind = "text"
    /\ Garbled.kind = "garbled" /\ Ended.kind = "end"
  BY DEF Slot, Cells, Text, Garbled, Ended

\* Cells are numbers.
LEMMA CellTypes == \A o \in OutType : CellsOf(o) \subseteq Nat
<1>1. ASSUME NEW o \in [kind : {"slot"}, at : Nat] PROVE CellsOf(o) \subseteq Nat
  BY <1>1 DEF CellsOf
<1>2. ASSUME NEW o \in [kind : {"cells"}, at : Nat, count : Nat] PROVE CellsOf(o) \subseteq Nat
  <2>1. CellsOf(o) = { o.at + 4 * c : c \in 0 .. o.count - 1 }
    BY <1>2 DEF CellsOf
  <2> QED
    BY <1>2, <2>1
<1>3. ASSUME NEW o \in [kind : {"none", "garbled", "end"}] PROVE CellsOf(o) \subseteq Nat
  BY <1>3, CellFacts
<1>4. ASSUME NEW o \in [kind : {"text"}, label : Buckets, size : Nat] PROVE CellsOf(o) \subseteq Nat
  BY <1>4, CellFacts
<1> QED
  BY <1>1, <1>2, <1>3, <1>4 DEF OutType

\* What each kind of step of the code generator emits, for which statement,
\* and how it moves the cells.
LEMMA Emissions ==
    ASSUME SymbolTableInv, NEW k \in todo, Generates(k)
    PROVE  \/ /\ prog[k].op \in {"use", "bump"} /\ nodes' = nodes /\ Offset' = Offset /\ frameInt' = frameInt
              /\ symbol[k] \in Ids /\ Node(symbol[k]).name = prog[k].name
              /\ out'[k] = Slot(Node(symbol[k]).addr)
              /\ prog[k].op = "use" => Node(symbol[k]).addr # 0
           \/ /\ prog[k].op = "use" /\ Offset' = Offset + 4 /\ frameInt' = frameInt
              /\ symbol[k] \in Ids /\ Node(symbol[k]).name = prog[k].name
              /\ Node(symbol[k]).addr = 0 /\ nodes'[symbol[k] + 1].addr = Offset + 4
              /\ \A id \in Ids \ {symbol[k]} : nodes'[id + 1] = nodes[id + 1]
              /\ out'[k] = Slot(Offset + 4)
           \/ /\ prog[k].op = "for" /\ nodes' = nodes /\ prog[k].size \in Nat \ {0}
              /\ Offset' = Offset + 4 * prog[k].size /\ frameInt' = frameInt
              /\ out'[k] = Cells(Offset + 4, prog[k].size)
           \/ /\ prog[k].op = "string" /\ nodes' = nodes /\ Offset' = Offset /\ frameInt' = frameInt
              /\ symbol[k] \in Ids /\ Node(symbol[k]).type = "string"
              /\ Node(symbol[k]).size = prog[k].size
              /\ \/ out'[k] = Text(symbol[k], HeadOf(symbol[k]).size)
                 \/ out'[k] = Garbled /\ HeadOf(symbol[k]).type = "pointer_var"
           \/ /\ prog[k].op = "end" /\ nodes' = nodes /\ Offset' = Offset
              /\ frameInt' = frameInt - 1 /\ out'[k] = Ended
<1>0. TypeOK /\ CellInv /\ k \in DOMAIN prog
  BY Generated DEF SymbolTableInv
<1>1. ASSUME NEW what, Emitted(k, what) PROVE out'[k] = what
  BY <1>0, <1>1 DEF Emitted, TypeOK
<1>2. CASE ReuseSlot(k)
  <2>1. Emitting(k, {"use"}) /\ Emitted(k, Slot(Node(symbol[k]).addr)) /\ Node(symbol[k]).addr # 0
        /\ nodes' = nodes /\ stackpos' = stackpos /\ frameInt' = frameInt
    BY <1>2 DEF ReuseSlot, TakesSlot
  <2>2. prog[k].op = "use" /\ symbol[k] \in Ids /\ Node(symbol[k]).name = prog[k].name
    BY <2>1, EmittingFacts DEF NamingOps
  <2>3. out'[k] = Slot(Node(symbol[k]).addr)
    BY <1>1, <2>1
  <2> QED
    BY <2>1, <2>2, <2>3 DEF Offset
<1>3. CASE NewSlot(k)
  <2>1. Emitting(k, {"use"}) /\ Emitted(k, Slot(NextCell)) /\ Node(symbol[k]).addr = 0 /\ Framed
        /\ nodes' = insert_hashmap_addr(NextCell, symbol[k])
        /\ stackpos' = stackpos + 4 /\ frameInt' = frameInt
    BY <1>3 DEF NewSlot, TakesSlot
  <2>2. prog[k].op = "use" /\ symbol[k] \in Ids /\ Node(symbol[k]).name = prog[k].name
    BY <2>1, EmittingFacts DEF NamingOps
  <2>3. NextCell = Offset + 4 /\ NextCell \in Nat
    BY <1>0, <2>1, NextFree
  <2>4. nodes'[symbol[k] + 1].addr = Offset + 4
        /\ \A id \in Ids \ {symbol[k]} : nodes'[id + 1] = nodes[id + 1]
    BY <1>0, <2>1, <2>2, <2>3, Placed DEF Node
  <2>5. Offset' = Offset + 4
    BY <1>0, <2>1 DEF Offset, TypeOK
  <2> QED
    BY <1>1, <2>1, <2>2, <2>3, <2>4, <2>5
<1>4. CASE Bump(k)
  <2>1. Emitting(k, {"bump"}) /\ Emitted(k, Slot(Node(symbol[k]).addr))
        /\ nodes' = nodes /\ stackpos' = stackpos /\ frameInt' = frameInt
    BY <1>4 DEF Bump
  <2>2. prog[k].op = "bump" /\ symbol[k] \in Ids /\ Node(symbol[k]).name = prog[k].name
    BY <2>1, EmittingFacts DEF NamingOps
  <2>3. out'[k] = Slot(Node(symbol[k]).addr)
    BY <1>1, <2>1
  <2> QED
    BY <2>1, <2>2, <2>3 DEF Offset
<1>5. CASE For(k)
  <2>1. Emitting(k, {"for"}) /\ Emitted(k, Cells(NextCell, prog[k].size)) /\ Framed
        /\ nodes' = nodes /\ stackpos' = stackpos + 4 * prog[k].size /\ frameInt' = frameInt
    BY <1>5 DEF For
  <2>2. prog[k].op = "for"
    BY <2>1 DEF Emitting
  <2>3. NextCell = Offset + 4
    BY <1>0, <2>1, NextFree
  <2>4. prog[k].size \in Nat \ {0}
    BY <1>0, StatementType
  <2>5. Offset' = Offset + 4 * prog[k].size
    BY <1>0, <2>1, <2>4 DEF Offset, TypeOK
  <2> QED
    BY <1>1, <2>1, <2>2, <2>3, <2>4, <2>5
<1>6. CASE PrintText(k) \/ PrintGarbled(k)
  <2>1. Emitting(k, {"string"}) /\ nodes' = nodes /\ stackpos' = stackpos /\ frameInt' = frameInt
    BY <1>6 DEF PrintText, PrintGarbled
  <2>2. /\ prog[k].op = "string" /\ symbol[k] \in Ids /\ Node(symbol[k]).type = "string"
        /\ Node(symbol[k]).size = prog[k].size
    BY <2>1, EmittingFacts
  <2>3. \/ out'[k] = Text(symbol[k], HeadOf(symbol[k]).size)
        \/ out'[k] = Garbled /\ HeadOf(symbol[k]).type = "pointer_var"
    BY <1>1, <1>6 DEF PrintText, PrintGarbled
  <2> QED
    BY <2>1, <2>2, <2>3 DEF Offset
<1>7. CASE End(k)
  <2>1. prog[k].op = "end" /\ Emitted(k, Ended) /\ nodes' = nodes /\ stackpos' = stackpos - 8
        /\ frameInt' = frameInt - 1
    BY <1>7 DEF End, Emitting, FramePopped
  <2>2. Offset' = Offset
    BY <1>0, <2>1 DEF Offset, TypeOK
  <2> QED
    BY <1>1, <2>1, <2>2
<1> QED
  BY <1>2, <1>3, <1>4, <1>5, <1>6, <1>7 DEF Generates

LEMMA CellStep ==
    ASSUME SymbolTableInv, [Next]_vars
    PROVE  CellInv'
<1>0. TypeOK /\ CellInv
  BY DEF SymbolTableInv
<1>1. CASE VarAdded \/ StringAdded
  <2>1. PICK name \in NodeNames, type \in {"pointer_var", "string"}, size \in Nat :
              AddSymbol(name, type, size) /\ Parsed(min_available_id) /\ pc = "parse"
    BY <1>1, Adding
  <2>2. PICK new : new = min_available_id
    OBVIOUS
  <2>3. /\ Ids' = Ids \union {new} /\ \A id \in Ids : Node(id)' = Node(id)
        /\ Node(new)'.addr = 0
    BY <1>0, <2>1, <2>2, Added
  <2>4. prog' = prog /\ out' = out /\ stackpos' = stackpos /\ frameInt' = frameInt
    BY <2>1, Appended
  <2>5. Offset' = Offset
    BY <2>4 DEF Offset
  <2> QED
    BY <1>0, <2>3, <2>4, <2>5 DEF CellInv
<1>2. CASE VarFound \/ EndParsed \/ UNCHANGED tableVars
  <2>1. nodes' = nodes /\ prog' = prog /\ out' = out /\ Offset' = Offset
    BY <1>2 DEF VarFound, EndParsed, Parsed, genVars, tableVars, Offset
  <2> QED
    BY <1>0, <2>1 DEF CellInv, Ids, Node, min_available_id
<1>3. CASE \E k \in todo : Generates(k)
  <2>1. PICK k \in todo : Generates(k)
    BY <1>3
  <2>2. /\ k \in DOMAIN prog /\ prog' = prog /\ Ids' = Ids
        /\ \A m \in DOMAIN prog : m # k => out'[m] = out[m]
    BY <2>1, Generated
  <2>3. Offset \in Nat /\ \A id \in Ids : Node(id).addr \in Nat /\ Node(id).addr <= Offset
    BY <1>0, NodeFacts DEF CellInv
  <2>4. ASSUME Offset' \in Nat, Offset <= Offset', \A c \in CellsOf(out'[k]) : 0 < c /\ c <= Offset',
               \A id \in Ids : nodes'[id + 1].addr <= Offset'
        PROVE  CellInv'
    <3>1. ASSUME NEW m \in DOMAIN prog, NEW c \in CellsOf(out'[m]) PROVE 0 < c /\ c <= Offset'
      <4>1. CASE m # k
        <5>1. c \in CellsOf(out[m])
          BY <2>2, <3>1, <4>1
        <5>2. 0 < c /\ c <= Offset
          BY <1>0, <5>1 DEF CellInv
        <5>3. c \in Int
          BY <1>0, <3>1, <5>1, CellTypes DEF TypeOK
        <5> QED
          BY <2>3, <2>4, <5>2, <5>3
      <4> QED
        BY <2>4, <3>1, <4>1
    <3> QED
      BY <2>2, <2>4, <3>1 DEF CellInv, Node
  <2>5. CASE nodes' = nodes /\ Offset' = Offset /\ symbol[k] \in Ids /\ out'[k] = Slot(Node(symbol[k]).addr)
    <3>1. CellsOf(out'[k]) = {Node(symbol[k]).addr} \ {0}
      BY <2>3, <2>5, CellFacts
    <3> QED
      BY <2>3, <2>4, <2>5, <3>1 DEF Node
  <2>6. CASE /\ Offset' = Offset + 4 /\ symbol[k] \in Ids /\ nodes'[symbol[k] + 1].addr = Offset + 4
             /\ \A id \in Ids \ {symbol[k]} : nodes'[id + 1] = nodes[id + 1]
             /\ out'[k] = Slot(Offset + 4)
    <3>1. CellsOf(out'[k]) = {Offset + 4} \ {0}
      BY <2>3, <2>6, CellFacts
    <3> QED
      BY <2>3, <2>4, <2>6, <3>1 DEF Node
  <2>7. CASE /\ nodes' = nodes /\ prog[k].size \in Nat \ {0} /\ Offset' = Offset + 4 * prog[k].size
             /\ out'[k] = Cells(Offset + 4, prog[k].size)
    <3>1. PICK a \in Nat, n \in Nat : a = Offset + 4 /\ n = prog[k].size
      BY <2>3, <2>7
    <3>2. CellsOf(out'[k]) = { a + 4 * c : c \in 0 .. n - 1 }
      BY <2>7, <3>1, CellFacts
    <3>3. \A c \in 0 .. n - 1 : 0 < a + 4 * c /\ a + 4 * c <= Offset'
      BY <2>3, <2>7, <3>1
    <3> QED
      BY <2>3, <2>4, <2>7, <3>2, <3>3 DEF Node
  <2>8. CASE nodes' = nodes /\ Offset' = Offset /\ CellsOf(out'[k]) = {}
    BY <2>3, <2>4, <2>8 DEF Node
  <2> QED
    BY <2>1, <2>5, <2>6, <2>7, <2>8, Emissions, CellFacts
<1> QED
  BY <1>1, <1>2, <1>3, StepKinds

\* Once code is generated, every statement has its operand.
LEMMA AllParsed ==
    ASSUME SymbolTableInv, pc = "emit" \/ todo # DOMAIN prog
    PROVE  DOMAIN symbol = DOMAIN prog
<1>1. Len(symbol) = Len(prog) /\ symbol \in Seq(Ids \union {NoId})
  BY DEF SymbolTableInv, PhaseInv, TypeOK
<1> QED
  BY <1>1, StatementType DEF SymbolTableInv

LEMMA OutStep ==
    ASSUME SymbolTableInv, [Next]_vars
    PROVE  OutInv'
<1>0. TypeOK /\ OutInv /\ SymbolInv /\ CellInv
  BY DEF SymbolTableInv
<1>1. ASSUME NEW id, Parsed(id), pc = "parse" PROVE OutInv'
  <2>1. prog' = prog /\ out' = out /\ todo' = todo /\ todo = DOMAIN prog
    BY <1>1, Appended
  <2> QED
    BY <1>0, <2>1 DEF OutInv
<1>2. CASE VarAdded \/ StringAdded
  BY <1>1, <1>2 DEF VarAdded, StringAdded, Reading
<1>3. CASE VarFound \/ EndParsed
  BY <1>1, <1>3 DEF VarFound, EndParsed, Reading
<1>4. CASE UNCHANGED tableVars
  BY <1>0, <1>4 DEF OutInv, Node, tableVars
<1>5. CASE \E k \in todo : Generates(k)
  <2>1. PICK k \in todo : Generates(k)
    BY <1>5
  <2>2. /\ k \in DOMAIN prog /\ pc = "emit" /\ prog' = prog /\ symbol' = symbol /\ todo' = todo \ {k}
        /\ \A m \in DOMAIN prog : m # k => out'[m] = out[m]
        /\ \A id \in Ids : Node(id).addr # 0 => nodes'[id + 1].addr = Node(id).addr
    BY <2>1, Generated DEF Node
  <2>3. DOMAIN symbol = DOMAIN prog
    BY <2>2, AllParsed
  <2>4. ASSUME NEW m \in todo' PROVE out'[m].kind = "none"
    BY <1>0, <2>2, <2>4 DEF OutInv, TypeOK
  <2>5. ASSUME NEW m \in DOMAIN prog \ todo
        PROVE  /\ prog[m].op = "use"  => /\ nodes'[symbol[m] + 1].addr # 0
                                         /\ out'[m] = Slot(nodes'[symbol[m] + 1].addr)
               /\ prog[m].op = "bump" => out'[m] \in {Slot(0), Slot(nodes'[symbol[m] + 1].addr)}
               /\ prog[m].op = "for"  => out'[m].kind = "cells"
               /\ prog[m].op \in {"string", "end"} => out'[m].kind \in {"text", "garbled", "end"}
    <3>1. out'[m] = out[m]
      BY <2>1, <2>2, <2>5
    <3>2. prog[m].op \in {"use", "bump"} => symbol[m] \in Ids
      BY <1>0, <2>3, <2>5 DEF SymbolInv, NamingOps
    <3> QED
      BY <1>0, <2>2, <2>5, <3>1, <3>2 DEF OutInv, Node
  <2>6. /\ prog[k].op = "use"  => /\ nodes'[symbol[k] + 1].addr # 0
                                  /\ out'[k] = Slot(nodes'[symbol[k] + 1].addr)
        /\ prog[k].op = "bump" => out'[k] \in {Slot(0), Slot(nodes'[symbol[k] + 1].addr)}
        /\ prog[k].op = "for"  => out'[k].kind = "cells"
        /\ prog[k].op \in {"string", "end"} => out'[k].kind \in {"text", "garbled", "end"}
    <3>1. Offset \in Nat
      BY <1>0 DEF CellInv
    <3>2. CASE prog[k].op = "use"
      BY <2>1, <3>1, <3>2, Emissions DEF Node
    <3>3. CASE prog[k].op = "bump"
      BY <2>1, <3>3, Emissions DEF Node
    <3>4. CASE prog[k].op \in {"for", "string", "end"}
      BY <2>1, <3>4, Emissions, OutKinds
    <3> QED
      BY <1>0, <2>2, <3>2, <3>3, <3>4, StatementType DEF Ops
  <2> QED
    BY <2>2, <2>4, <2>5, <2>6 DEF OutInv, Node
<1> QED
  BY <1>2, <1>3, <1>4, <1>5, StepKinds

LEMMA SlotStep ==
    ASSUME SymbolTableInv, [Next]_vars
    PROVE  SlotInv'
<1>0. TypeOK /\ SlotInv /\ CellInv /\ OutInv
  BY DEF SymbolTableInv
<1>1. CASE VarAdded \/ StringAdded
  <2>1. PICK name \in NodeNames, type \in {"pointer_var", "string"}, size \in Nat :
              AddSymbol(name, type, size) /\ Parsed(min_available_id) /\ pc = "parse"
    BY <1>1, Adding
  <2>2. PICK new : new = min_available_id
    OBVIOUS
  <2>3. /\ Ids' = Ids \union {new} /\ \A id \in Ids : nodes'[id + 1] = nodes[id + 1]
        /\ nodes'[new + 1].addr = 0
    <3>1. /\ Ids' = Ids \union {new} /\ \A id \in Ids : Node(id)' = Node(id)
          /\ Node(new)' = [name |-> name, type |-> type, addr |-> 0, size |-> size]
      BY <1>0, <2>1, <2>2, Added
    <3> QED
      BY <3>1 DEF Node
  <2>4. prog' = prog /\ out' = out /\ todo = DOMAIN prog
    BY <2>1, Appended
  <2>5. \A k \in DOMAIN prog : out'[k].kind # "cells"
    BY <1>0, <2>4 DEF OutInv
  <2>6. \A a, b \in Ids' : nodes'[a + 1].addr = nodes'[b + 1].addr /\ nodes'[a + 1].addr # 0 => a = b
    BY <1>0, <2>3 DEF SlotInv, Node
  <2> QED
    BY <2>4, <2>5, <2>6 DEF SlotInv, Node
<1>2. CASE VarFound \/ EndParsed \/ UNCHANGED tableVars
  <2>1. nodes' = nodes /\ prog' = prog /\ out' = out
    BY <1>2 DEF VarFound, EndParsed, Parsed, genVars, tableVars
  <2> QED
    BY <1>0, <2>1 DEF SlotInv, Ids, Node, min_available_id
<1>3. CASE \E k \in todo : Generates(k)
  <2>1. PICK k \in todo : Generates(k)
    BY <1>3
  <2>2. /\ k \in DOMAIN prog /\ prog' = prog /\ Ids' = Ids
        /\ \A m \in DOMAIN prog : m # k => out'[m] = out[m]
    BY <2>1, Generated
  <2>3. /\ Offset \in Nat /\ \A id \in Ids : Node(id).addr \in Nat /\ Node(id).addr <= Offset
        /\ \A m \in DOMAIN prog : \A c \in CellsOf(out[m]) : c \in Nat /\ c <= Offset
    BY <1>0, NodeFacts, CellTypes DEF CellInv, TypeOK
  <2>4. CASE nodes' = nodes /\ out'[k].kind # "cells"
    BY <1>0, <2>2, <2>4 DEF SlotInv, Node
  <2>5. CASE /\ symbol[k] \in Ids /\ nodes'[symbol[k] + 1].addr = Offset + 4
             /\ \A id \in Ids \ {symbol[k]} : nodes'[id + 1] = nodes[id + 1]
             /\ out'[k] = Slot(Offset + 4)
    <3>1. \A a, b \in Ids : nodes'[a + 1].addr = nodes'[b + 1].addr /\ nodes'[a + 1].addr # 0 => a = b
      BY <1>0, <2>3, <2>5 DEF SlotInv, Node
    <3>2. ASSUME NEW m \in DOMAIN prog, out'[m].kind = "cells"
          PROVE  /\ m # k /\ out[m].kind = "cells" /\ out'[m] = out[m]
                 /\ \A id \in Ids : nodes'[id + 1].addr \notin CellsOf(out'[m])
      <4>1. m # k /\ out'[m] = out[m]
        BY <2>2, <2>5, <3>2 DEF Slot
      <4> QED
        BY <1>0, <2>3, <2>5, <3>2, <4>1 DEF SlotInv, Node
    <3>3. ASSUME NEW m \in DOMAIN prog, NEW n \in DOMAIN prog \ {m},
                 out'[m].kind = "cells", out'[n].kind = "cells"
          PROVE  CellsOf(out'[m]) \intersect CellsOf(out'[n]) = {}
      BY <1>0, <3>2, <3>3 DEF SlotInv
    <3> QED
      BY <2>2, <3>1, <3>2, <3>3 DEF SlotInv, Node
  <2>6. CASE /\ nodes' = nodes /\ prog[k].size \in Nat \ {0} /\ out'[k] = Cells(Offset + 4, prog[k].size)
    <3>1. PICK a \in Nat, n \in Nat : a = Offset + 4 /\ n = prog[k].size
      BY <2>3, <2>6
    <3>2. CellsOf(out'[k]) = { a + 4 * c : c \in 0 .. n - 1 }
      BY <2>6, <3>1, CellFacts
    <3>3. \A c \in CellsOf(out'[k]) : c \in Nat /\ c > Offset
      BY <2>3, <3>1, <3>2
    <3>4. ASSUME NEW m \in DOMAIN prog, out'[m].kind = "cells"
          PROVE  \A id \in Ids : Node(id).addr \notin CellsOf(out'[m])
      BY <1>0, <2>2, <2>3, <3>3, <3>4 DEF SlotInv
    <3>5. ASSUME NEW m \in DOMAIN prog, NEW o \in DOMAIN prog \ {m},
                 out'[m].kind = "cells", out'[o].kind = "cells"
          PROVE  CellsOf(out'[m]) \intersect CellsOf(out'[o]) = {}
      <4>1. CASE m # k /\ o # k
        BY <1>0, <2>2, <3>5, <4>1 DEF SlotInv
      <4>2. CASE m = k
        <5>1. \A c \in CellsOf(out'[o]) : c \in Nat /\ c <= Offset
          BY <2>2, <2>3, <3>5, <4>2
        <5> QED
          BY <2>3, <3>3, <4>2, <5>1
      <4>3. CASE o = k
        <5>1. \A c \in CellsOf(out'[m]) : c \in Nat /\ c <= Offset
          BY <2>2, <2>3, <3>5, <4>3
        <5> QED
          BY <2>3, <3>3, <4>3, <5>1
      <4> QED
        BY <4>1, <4>2, <4>3
    <3> QED
      BY <1>0, <2>2, <2>6, <3>4, <3>5 DEF SlotInv, Node
  <2> QED
    BY <2>1, <2>4, <2>5, <2>6, Emissions, OutKinds
<1> QED
  BY <1>1, <1>2, <1>3, StepKinds

LEMMA EndStep ==
    ASSUME SymbolTableInv, [Next]_vars
    PROVE  EndInv'
<1>0. TypeOK /\ EndInv
  BY DEF SymbolTableInv
<1>1. CASE VarAdded \/ StringAdded \/ VarFound \/ EndParsed \/ UNCHANGED tableVars
  <2>1. prog' = prog /\ todo' = todo /\ frameInt' = frameInt
    BY <1>1 DEF VarAdded, StringAdded, VarFound, EndParsed, Parsed, genVars, tableVars
  <2> QED
    BY <1>0, <2>1 DEF EndInv
<1>2. CASE \E k \in todo : Generates(k)
  <2>1. PICK k \in todo : Generates(k)
    BY <1>2
  <2>2. k \in DOMAIN prog /\ prog' = prog /\ todo' = todo \ {k}
    BY <2>1, Generated
  <2>3. frameInt' = frameInt \/ (prog[k].op = "end" /\ frameInt' = frameInt - 1)
    BY <2>1, Emissions
  <2>4. frameInt \in Int /\ frameInt <= 1
    BY <1>0 DEF TypeOK
  <2> QED
    BY <1>0, <2>1, <2>2, <2>3, <2>4 DEF EndInv
<1> QED
  BY <1>1, <1>2, StepKinds

LEMMA FreeStep ==
    ASSUME SymbolTableInv, [Next]_vars
    PROVE  FreeInv'
<1>0. TypeOK /\ FreeInv /\ NameInv
  BY DEF SymbolTableInv
<1>1. CASE VarAdded \/ StringAdded
  <2>1. PICK id : Parsed(id) /\ pc = "parse"
    BY <1>1 DEF VarAdded, StringAdded, Reading
  <2> QED
    BY <1>0, <2>1, Appended DEF FreeInv
<1>2. CASE VarFound \/ EndParsed
  <2>1. PICK id : Parsed(id) /\ pc = "parse"
    BY <1>2 DEF VarFound, EndParsed, Reading
  <2> QED
    BY <1>0, <2>1, Appended DEF FreeInv
<1>3. CASE \E k \in todo : Generates(k)
  <2>1. pc = "emit" /\ pc' = pc /\ freed' = freed
    BY <1>3, Generated
  <2> QED
    BY <1>0, <2>1 DEF FreeInv
<1>4. CASE ParseDone \/ Rodata
  <2>1. pc \in {"parse", "rodata"} /\ pc' \in {"rodata", "emit"} /\ freed' = freed
    BY <1>4 DEF ParseDone, Rodata, RodataFound, RodataWalk, RodataDone, freeVars
  <2> QED
    BY <1>0, <2>1 DEF FreeInv
<1>5. CASE EmitDone
  <2>1. pc' = "free" /\ at' = 0 /\ freed' = <<>>
    BY <1>0, <1>5 DEF EmitDone, FreeInv, freeVars
  <2> QED
    BY <2>1 DEF FreeInv
<1>6. CASE FreeChain
  <2>1. /\ pc = "free" /\ pc' = "free" /\ at \in Nat /\ at' = at + 1 /\ inds' = inds
        /\ last' = inds[at] /\ freed' = Append(freed, inds[at])
        /\ freed \in Seq(Buckets)
    BY <1>0, <1>6 DEF FreeChain, TypeOK
  <2>2. at \in Ids /\ inds[at] \in Buckets
    BY <1>0, <1>6, InUseFacts, NodeFacts DEF FreeChain, InUse
  <2>3. PICK n \in Nat : n = Len(freed) /\ DOMAIN freed = 1 .. n
    BY <2>1
  <2>4. DOMAIN freed' = 1 .. n + 1 /\ freed'[n + 1] = inds[at] /\ \A f \in 1 .. n : freed'[f] = freed[f]
    BY <2>1, <2>2, <2>3
  <2>5. ASSUME NEW f \in 1 .. n + 1 PROVE \E a \in 0 .. at : inds[a] = freed'[f]
    <3>1. CASE f = n + 1
      BY <2>1, <2>4, <3>1
    <3>2. CASE f \in 1 .. n
      <4>1. PICK a \in 0 .. at - 1 : inds[a] = freed[f]
        BY <1>0, <2>1, <2>3, <3>2 DEF FreeInv
      <4> QED
        BY <2>1, <2>4, <3>2, <4>1
    <3> QED
      BY <2>3, <2>5, <3>1, <3>2
  <2>6. (at + 1) - 1 = at
    BY <2>1
  <2> QED
    BY <2>1, <2>4, <2>5, <2>6 DEF FreeInv
<1>7. CASE FreeSkip
  <2>1. /\ pc = "free" /\ pc' = "free" /\ at \in Nat /\ at' = at + 1 /\ inds' = inds
        /\ last' = last /\ last = inds[at] /\ freed' = freed
    BY <1>0, <1>7 DEF FreeSkip, TypeOK, freeVars
  <2>2. (at + 1) - 1 = at /\ 0 .. at - 1 \subseteq 0 .. at
    BY <2>1
  <2> QED
    BY <1>0, <2>1, <2>2 DEF FreeInv
<1>8. ASSUME NEW why, Fault(why) PROVE FreeInv'
  BY <1>8 DEF Fault, FreeInv
<1>9. CASE FreeDone
  BY <1>9 DEF FreeDone, FreeInv
<1>10. CASE UNCHANGED vars
  BY <1>0, <1>10 DEF FreeInv, vars
<1> QED
  BY <1>1, <1>2, <1>3, <1>4, <1>5, <1>6, <1>7, <1>8, <1>9, <1>10
     DEF Next, Parse, Emit, Free, Generates, Exited, LookupFails, TableFull,
         FrameLost, FreeTwice, FreePastEnd

LEMMA PrintStep ==
    ASSUME SymbolTableInv, [Next]_vars
    PROVE  PrintsAreRight'
<1>0. TypeOK /\ PrintsAreRight /\ ChainInv /\ OutInv
  BY DEF SymbolTableInv
<1>1. CASE VarAdded \/ StringAdded \/ VarFound \/ EndParsed
  <2>1. PICK id : Parsed(id) /\ pc = "parse"
    BY <1>1 DEF VarAdded, StringAdded, VarFound, EndParsed, Reading
  <2>2. prog' = prog /\ out' = out /\ todo = DOMAIN prog
    BY <2>1, Appended
  <2> QED
    BY <1>0, <2>2 DEF OutInv, PrintsAreRight
<1>2. CASE UNCHANGED tableVars
  <2>1. rodata \subseteq rodata'
    BY <1>2 DEF Next, Parse, Rodata, RodataFound, RodataWalk, RodataDone, Emit, EmitDone, Free,
                FreeChain, FreeSkip, FreeTwice, FreePastEnd, FreeDone, Fault, Exited, vars,
                VarFound, VarAdded, LookupFails, StringAdded, EndParsed, TableFull, ParseDone,
                Parsed, FrameLost, ReuseSlot, NewSlot, Bump, PrintText, PrintGarbled, For, End,
                Emitted
  <2> QED
    BY <1>0, <1>2, <2>1 DEF PrintsAreRight, Alone, tableVars
<1>3. CASE \E k \in todo : Generates(k)
  <2>1. PICK k \in todo : Generates(k)
    BY <1>3
  <2>2. /\ k \in DOMAIN prog /\ pc = "emit" /\ prog' = prog /\ symbol' = symbol /\ rodata' = rodata
        /\ list' = list /\ inds' = inds /\ \A m \in DOMAIN prog : m # k => out'[m] = out[m]
    BY <2>1, Generated
  <2>3. ASSUME prog[k].op = "string"
        PROVE  symbol[k] \in rodata /\ (Alone(symbol[k]) => out'[k] = Text(symbol[k], prog[k].size))
    <3>1. /\ symbol[k] \in Ids /\ Node(symbol[k]).type = "string"
          /\ Node(symbol[k]).size = prog[k].size
          /\ \/ out'[k] = Text(symbol[k], HeadOf(symbol[k]).size)
             \/ out'[k] = Garbled /\ HeadOf(symbol[k]).type = "pointer_var"
      BY <2>1, <2>3, Emissions
    <3>2. symbol[k] \in rodata
      BY <2>2, <3>1 DEF SymbolTableInv, PhaseInv, Strings, IsString
    <3>3. Alone(symbol[k]) => HeadOf(symbol[k]) = Node(symbol[k])
      BY <1>0, <3>1, HeadFacts
    <3> QED
      BY <3>1, <3>2, <3>3
  <2> QED
    BY <1>0, <2>2, <2>3 DEF PrintsAreRight, Alone
<1> QED
  BY <1>1, <1>2, <1>3, StepKinds

LEMMA FaultStep ==
    ASSUME SymbolTableInv, [Next]_vars
    PROVE  FaultsExplained'
<1>0. TypeOK /\ ChainInv /\ NameInv /\ PhaseInv /\ EndInv /\ FreeInv /\ FaultsExplained
  BY DEF SymbolTableInv
<1>1. /\ at \in Nat /\ min_available_id \in Nat /\ min_available_id <= TableSize
      /\ min_available_id = Len(nodes) /\ Len(prog) \in Nat /\ Len(symbol) \in Nat
  BY <1>0, NodeFacts, StatementType DEF TypeOK, min_available_id
<1>2. ASSUME UNCHANGED <<prog, at, todo, inds, nodes>>,
             fault' = "lookup" => \E id \in Ids : /\ Hash(nodes[id + 1].name) = Hash(prog[at].name)
                                                  /\ nodes[id + 1].name # prog[at].name,
             fault' = "full" => Len(prog) > TableSize,
             fault' = "frame" => \E k, m \in DOMAIN prog : /\ k # m /\ {k, m} \intersect todo = {}
                                                           /\ prog[k].op = "end" /\ prog[m].op = "end",
             fault' = "double free" => \E a, b, c \in Ids : a < b /\ b < c /\ inds[a] = inds[c]
                                                                          /\ inds[b] # inds[c],
             fault' = "past end" => min_available_id = TableSize
      PROVE  FaultsExplained'
  <2>1. /\ prog' = prog /\ at' = at /\ todo' = todo /\ inds' = inds /\ nodes' = nodes
    BY <1>2
  <2>2. Ids' = Ids /\ min_available_id' = min_available_id
    BY <2>1 DEF Ids, min_available_id
  <2>3. fault' = "lookup" => \E id \in Ids' : /\ Hash(nodes'[id + 1].name) = Hash(prog'[at'].name)
                                             /\ nodes'[id + 1].name # prog'[at'].name
    BY <1>2, <2>1, <2>2
  <2>4. fault' = "full" => Len(prog') > TableSize
    BY <1>2, <2>1, <2>2
  <2>5. fault' = "frame" => \E k, m \in DOMAIN prog' : /\ k # m /\ {k, m} \intersect todo' = {}
                                                       /\ prog'[k].op = "end" /\ prog'[m].op = "end"
    BY <1>2, <2>1, <2>2
  <2>6. fault' = "double free" => \E a, b, c \in Ids' : a < b /\ b < c /\ inds'[a] = inds'[c]
                                                                       /\ inds'[b] # inds'[c]
    <3>1. SUFFICES ASSUME fault' = "double free"
                   PROVE  \E a, b, c \in Ids' : a < b /\ b < c /\ inds'[a] = inds'[c] /\ inds'[b] # inds'[c]
      OBVIOUS
    <3>2. PICK a \in Ids, b \in Ids, c \in Ids : a < b /\ b < c /\ inds[a] = inds[c] /\ inds[b] # inds[c]
      BY <1>2, <3>1
    <3>3. a \in Ids' /\ b \in Ids' /\ c \in Ids' /\ inds'[a] = inds'[c] /\ inds'[b] # inds'[c]
      BY <2>1, <2>2, <3>2
    <3> QED
      BY <3>2, <3>3, Zenon
  <2>7. fault' = "past end" => min_available_id' = TableSize
    BY <1>2, <2>1, <2>2
  <2> QED
    BY <2>3, <2>4, <2>5, <2>6, <2>7, Zenon DEF FaultsExplained, Node
<1>3. CASE LookupFails
  <2> DEFINE name == prog[at].name
  <2> DEFINE h == Hash(name)
  <2>1. UNCHANGED <<prog, at, todo, inds, nodes>> /\ fault' = "lookup" /\ list[h] # <<>> /\ Carrying(name) = {}
    BY <1>3 DEF LookupFails, Lost, Known, Absent, Fault
  <2>2. h \in Buckets
    <3>1. at \in DOMAIN prog
      BY <1>0, <1>1, <1>3, StatementType DEF LookupFails, Reading, PhaseInv
    <3> QED
      BY <1>0, <3>1, StatementType, HashAssumption
  <2> HIDE DEF h
  <2>3. 1 \in DOMAIN list[h] /\ list[h][1] \in Ids
    BY <1>0, <2>1, <2>2, NodeFacts
  <2>4. PICK x \in Ids : x = list[h][1]
    BY <2>3
  <2>5. Hash(Node(x).name) = h
    BY <1>0, <2>2, <2>3, <2>4 DEF ChainInv
  <2>6. Node(x).name # name
    BY <2>1, <2>3, <2>4 DEF Carrying, Ids, h
  <2>7. \E id \in Ids : Hash(nodes[id + 1].name) = Hash(prog[at].name) /\ nodes[id + 1].name # prog[at].name
    BY <2>5, <2>6 DEF h, Node
  <2> QED
    BY <1>2, <2>1, <2>7
<1>4. CASE TableFull
  <2>1. UNCHANGED <<prog, at, todo, inds, nodes>> /\ fault' = "full" /\ min_available_id = TableSize /\ pc = "parse" /\ at <= Len(prog)
    BY <1>4 DEF TableFull, Reading, Fault
  <2>2. Len(prog) > TableSize
    BY <1>0, <1>1, <2>1 DEF PhaseInv
  <2> QED
    BY <1>2, <2>1, <2>2
<1>5. ASSUME NEW k \in todo, FrameLost(k) PROVE FaultsExplained'
  <2>1. UNCHANGED <<prog, at, todo, inds, nodes>> /\ fault' = "frame" /\ ~Framed
    BY <1>5 DEF FrameLost, Fault
  <2>2. frameInt < 0
    BY <1>0, <2>1 DEF Framed, frameArr, TypeOK
  <2>3. \E i, j \in DOMAIN prog : i # j /\ {i, j} \intersect todo = {}
                                  /\ prog[i].op = "end" /\ prog[j].op = "end"
    BY <1>0, <2>2 DEF EndInv
  <2> QED
    BY <1>2, <2>1, <2>3
<1>6. CASE FreeTwice
  <2>1. UNCHANGED <<prog, at, todo, inds, nodes>> /\ fault' = "double free" /\ at \in Ids /\ inds[at] # last /\ pc = "free"
    BY <1>0, <1>6, InUseFacts DEF FreeTwice, Fault
  <2>2. PICK f \in DOMAIN freed : freed[f] = inds[at]
    BY <1>6 DEF FreeTwice, WasFreed
  <2>3. PICK a \in 0 .. at - 1 : inds[a] = inds[at]
    BY <1>0, <2>1, <2>2 DEF FreeInv
  <2>4. at > 0 /\ at - 1 \in Nat /\ inds[at - 1] # inds[at]
    <3>1. at > 0 /\ at - 1 \in Nat
      BY <1>1, <2>3
    <3>2. last = inds[at - 1]
      BY <1>0, <2>1, <3>1 DEF FreeInv
    <3> QED
      BY <2>1, <3>1, <3>2
  <2>5. a < at - 1 /\ at - 1 < at /\ a \in Ids /\ at - 1 \in Ids
    <3>1. a # at - 1
      BY <2>3, <2>4
    <3>2. at < min_available_id
      BY <1>0, <1>6, InUseFacts DEF FreeTwice
    <3> QED
      BY <1>1, <2>3, <2>4, <3>1, <3>2 DEF Ids
  <2>6. \E x, y, z \in Ids : x < y /\ y < z /\ inds[x] = inds[z] /\ inds[y] # inds[z]
    BY <2>1, <2>3, <2>4, <2>5, ZenonT(40)
  <2> QED
    BY <1>2, <2>1, <2>6
<1>7. CASE FreePastEnd
  <2>1. UNCHANGED <<prog, at, todo, inds, nodes>> /\ fault' = "past end" /\ at = TableSize /\ pc = "free"
    BY <1>7 DEF FreePastEnd, Fault
  <2>2. min_available_id = TableSize
    <3>1. at <= min_available_id
      BY <1>0, <2>1 DEF PhaseInv
    <3>2. at = TableSize /\ TableSize \in Nat
      BY <2>1, TableAssumption
    <3>3. PICK n \in Nat : n = min_available_id /\ n <= TableSize
      BY <1>1
    <3> QED
      BY <3>1, <3>2, <3>3
  <2> QED
    BY <1>2, <2>1, <2>2
<1>8. CASE fault' = NoFault
  BY <1>8 DEF FaultsExplained, NoFault
<1>9. CASE UNCHANGED vars
  <2>1. UNCHANGED <<prog, at, todo, inds, nodes>> /\ fault' = fault
    BY <1>9 DEF vars
  <2>2. fault = "lookup" => \E id \in Ids : /\ Hash(nodes[id + 1].name) = Hash(prog[at].name)
                                            /\ nodes[id + 1].name # prog[at].name
    BY <1>0 DEF FaultsExplained, Node
  <2>3. /\ fault = "full" => Len(prog) > TableSize
        /\ fault = "frame" => \E k, m \in DOMAIN prog : /\ k # m /\ {k, m} \intersect todo = {}
                                                        /\ prog[k].op = "end" /\ prog[m].op = "end"
        /\ fault = "double free" => \E a, b, c \in Ids : a < b /\ b < c /\ inds[a] = inds[c]
                                                                       /\ inds[b] # inds[c]
        /\ fault = "past end" => min_available_id = TableSize
    BY <1>0, Zenon DEF FaultsExplained
  <2> QED
    BY <1>2, <2>1, <2>2, <2>3, Zenon
<1>10. ASSUME pc # "fault", fault' = fault PROVE FaultsExplained'
  BY <1>0, <1>8, <1>10 DEF TypeOK
<1>11. CASE VarFound \/ VarAdded \/ StringAdded \/ EndParsed \/ ParseDone \/ Rodata
  <2>1. pc # "fault" /\ fault' = fault
    BY <1>11 DEF VarFound, VarAdded, StringAdded, EndParsed, ParseDone, Parsed, Reading,
                 Rodata, RodataFound, RodataWalk, RodataDone
  <2> QED
    BY <1>10, <2>1
<1>12. CASE \E k \in todo : Generates(k)
  BY <1>10, <1>12, Generated
<1>13. CASE EmitDone \/ FreeChain \/ FreeSkip \/ FreeDone
  <2>1. pc # "fault" /\ fault' = fault
    BY <1>13 DEF EmitDone, FreeChain, FreeSkip, FreeDone
  <2> QED
    BY <1>10, <2>1
<1> QED
  BY <1>3, <1>4, <1>5, <1>6, <1>7, <1>9, <1>11, <1>12, <1>13
     DEF Next, Parse, Emit, Free, Generates, Exited

-----------------------------------------------------------------------------
(* The invariant, and what follows from it.                                *)

LEMMA InvInit == Init => SymbolTableInv
<1> SUFFICES ASSUME Init PROVE SymbolTableInv
  OBVIOUS
<1>0. TypeOK
  BY TypeInit
<1>1. /\ nodes = <<>> /\ list = [b \in Buckets |-> <<>>] /\ inds = [b \in Buckets |-> NoId]
      /\ symbol = <<>> /\ todo = DOMAIN prog /\ rodata = {}
      /\ out = [k \in DOMAIN prog |-> [kind |-> "none"]]
      /\ stackpos = 8 /\ frameInt = 1 /\ at = 1 /\ freed = <<>> /\ pc = "parse" /\ fault = "none"
  BY DEF Init, NoFault
<1>2. min_available_id = 0 /\ Ids = {} /\ Len(symbol) = 0 /\ DOMAIN symbol = {} /\ Len(nodes) = 0
  BY <1>1 DEF min_available_id, Ids
<1>3. \A k \in DOMAIN prog : out[k].kind = "none" /\ CellsOf(out[k]) = {}
  BY <1>1, CellFacts
<1>4. ChainInv
  BY <1>1, <1>2 DEF ChainInv
<1>5. NameInv
  <2>1. \A b \in Buckets : inds[b] = NoId /\ b >= 0
    BY <1>1 DEF Buckets
  <2> QED
    BY <1>2, <2>1 DEF NameInv
<1>6. SymbolInv /\ PhaseInv
  BY <1>1, <1>2 DEF SymbolInv, PhaseInv
<1>7. CellInv
  <2>1. Offset = 0
    BY <1>1 DEF Offset
  <2> QED
    BY <1>2, <1>3, <2>1 DEF CellInv
<1>8. OutInv /\ SlotInv /\ PrintsAreRight
  BY <1>1, <1>2, <1>3 DEF OutInv, SlotInv, PrintsAreRight
<1>9. EndInv /\ FreeInv /\ FaultsExplained
  BY <1>1 DEF EndInv, FreeInv, FaultsExplained
<1> QED
  BY <1>0, <1>4, <1>5, <1>6, <1>7, <1>8, <1>9 DEF SymbolTableInv

LEMMA InvStep == SymbolTableInv /\ [Next]_vars => SymbolTableInv'
  BY TypeStep, ChainStep, SymbolStep, PhaseStep, CellStep, OutStep, SlotStep, EndStep, FreeStep,
     PrintStep, FaultStep DEF SymbolTableInv

\* The table, the operands, the slots, the phases and free_s_table's cursor
\* keep together as the parts of the invariant say, for every program.
THEOREM SymbolTableInvariant == Spec => []SymbolTableInv
  BY InvInit, InvStep, PTL DEF Spec

\* Through every insertion the chains, inds and the ids agree, each chain is
\* newest first, and no variable has two symbols (hash.c add_symbol, getId).
THEOREM TheTableIsSound == Spec => []TableSound
<1>1. SymbolTableInv => TableSound
  BY DEF SymbolTableInv, TableSound, ChainInv
<1> QED
  BY <1>1, SymbolTableInvariant, PTL

\* What is known of a statement that addresses a slot.
LEMMA SlotFacts ==
    ASSUME SymbolTableInv, NEW k \in DOMAIN prog, out[k].kind = "slot"
    PROVE  /\ k \notin todo /\ symbol[k] \in Ids /\ Node(symbol[k]).name = prog[k].name
           /\ CellsOf(out[k]) = {out[k].at} \ {0}
           /\ out[k].at \in {0, Node(symbol[k]).addr}
<1>0. TypeOK /\ OutInv /\ SymbolInv
  BY DEF SymbolTableInv
<1>1. k \notin todo
  BY <1>0 DEF OutInv
<1>2. prog[k].op \in {"use", "bump"}
  BY <1>0, <1>1, StatementType DEF OutInv, Ops
<1>3. symbol[k] \in Ids /\ Node(symbol[k]).name = prog[k].name
  BY <1>0, <1>1, <1>2, AllParsed DEF SymbolInv, NamingOps
<1>4. out[k] = Slot(0) \/ out[k] = Slot(Node(symbol[k]).addr)
  BY <1>0, <1>1, <1>2 DEF OutInv
<1>5. out[k].at \in {0, Node(symbol[k]).addr}
  BY <1>4, OutKinds
<1> QED
  BY <1>1, <1>3, <1>5 DEF CellsOf

\* No two variables share a cell of the machine stack, no variable moves and
\* no cell of a FOR loop is a variable's, whatever the hash, the order the
\* statements are generated in and the END between them (gen.c check_addr,
\* put_tac, handle_for_statement, end_stack_frame).
THEOREM NoSlotIsShared == Spec => []SlotPerVariable
<1>1. ASSUME SymbolTableInv PROVE SlotPerVariable
  <2>0. SlotInv /\ ChainInv
    BY <1>1 DEF SymbolTableInv
  <2>1. ASSUME NEW k \in DOMAIN prog, NEW m \in DOMAIN prog, k # m,
               NEW c, c \in CellsOf(out[k]), c \in CellsOf(out[m])
        PROVE  out[k].kind = "slot" /\ out[m].kind = "slot" /\ prog[k].name = prog[m].name
    <3>1. out[k].kind \in {"slot", "cells"} /\ out[m].kind \in {"slot", "cells"}
      BY <2>1, CellFacts
    <3>2. ~(out[k].kind = "cells" /\ out[m].kind = "cells")
      BY <2>0, <2>1 DEF SlotInv
    <3>3. ASSUME NEW i \in DOMAIN prog, NEW j \in DOMAIN prog, c \in CellsOf(out[i]),
                 c \in CellsOf(out[j]), out[i].kind = "slot", out[j].kind = "cells"
          PROVE  FALSE
      <4>1. symbol[i] \in Ids /\ c = Node(symbol[i]).addr
        BY <1>1, <3>3, SlotFacts
      <4> QED
        BY <2>0, <3>3, <4>1 DEF SlotInv
    <3>4. out[k].kind = "slot" /\ out[m].kind = "slot"
      BY <2>1, <3>1, <3>2, <3>3
    <3>5. /\ symbol[k] \in Ids /\ Node(symbol[k]).name = prog[k].name /\ c = Node(symbol[k]).addr
          /\ symbol[m] \in Ids /\ Node(symbol[m]).name = prog[m].name /\ c = Node(symbol[m]).addr
          /\ c # 0
      BY <1>1, <2>1, <3>4, SlotFacts
    <3>6. symbol[k] = symbol[m]
      BY <2>0, <3>5 DEF SlotInv
    <3> QED
      BY <3>4, <3>5, <3>6
  <2>2. ASSUME NEW k \in DOMAIN prog, NEW m \in DOMAIN prog,
               out[k].kind = "slot", out[m].kind = "slot", prog[k].name = prog[m].name,
               out[k].at # 0, out[m].at # 0
        PROVE  out[k].at = out[m].at
    <3>1. /\ symbol[k] \in Ids /\ Node(symbol[k]).name = prog[k].name /\ out[k].at = Node(symbol[k]).addr
          /\ symbol[m] \in Ids /\ Node(symbol[m]).name = prog[m].name /\ out[m].at = Node(symbol[m]).addr
      BY <1>1, <2>2, SlotFacts
    <3>2. symbol[k] = symbol[m]
      BY <2>0, <2>2, <3>1 DEF ChainInv
    <3> QED
      BY <3>1, <3>2
  <2> QED
    BY <2>1, <2>2 DEF SlotPerVariable
<1> QED
  BY <1>1, SymbolTableInvariant, PTL

\* A printed string has its label in the read-only section, and its own
\* length when no other symbol shares its bucket (gen.c rodata_section, PRINT).
THEOREM PrintsHaveLabels == Spec => []PrintsAreRight
<1>1. SymbolTableInv => PrintsAreRight
  BY DEF SymbolTableInv
<1> QED
  BY <1>1, SymbolTableInvariant, PTL

\* getId, add_symbol, the stack frames and free_s_table fail only for the
\* reason named for each failure.
THEOREM FaultsHaveCauses == Spec => []FaultsExplained
<1>1. SymbolTableInv => FaultsExplained
  BY DEF SymbolTableInv
<1> QED
  BY <1>1, SymbolTableInvariant, PTL

\* INC and DEC alone address cell 0, and only before any statement has given
\* their variable its slot (gen.c, the cases of INC and DEC).
THEOREM OnlyEarlyBumpsMiss == Spec => BumpsAddressSlots
<1>1. ASSUME SymbolTableInv, [Next]_vars, NEW k \in DOMAIN prog, out'[k] = Slot(0), out[k] # Slot(0)
      PROVE  /\ prog[k].op = "bump"
             /\ \A m \in DOMAIN prog \ todo : prog[m].name = prog[k].name /\ prog[m].op = "use" => FALSE
  <2>0. TypeOK /\ ChainInv /\ OutInv /\ SymbolInv /\ CellInv
    BY <1>1 DEF SymbolTableInv
  <2>1. PICK j \in todo : Generates(j)
    <3>1. out' # out
      BY <1>1
    <3>2. ASSUME NEW id, Parsed(id) PROVE out' = out
      BY <3>2 DEF Parsed, genVars
    <3>3. ~(VarAdded \/ StringAdded \/ VarFound \/ EndParsed)
      BY <3>1, <3>2 DEF VarAdded, StringAdded, VarFound, EndParsed
    <3> QED
      BY <1>1, <3>1, <3>3, StepKinds DEF tableVars
  <2>2. j = k
    BY <1>1, <2>1, Generated
  <2>3. Offset + 4 # 0
    BY <2>0 DEF CellInv
  <2>4. /\ prog[k].op = "bump" /\ symbol[k] \in Ids /\ Node(symbol[k]).name = prog[k].name
        /\ Node(symbol[k]).addr = 0
    BY <1>1, <2>1, <2>2, <2>3, Emissions, OutKinds
  <2>5. ASSUME NEW m \in DOMAIN prog \ todo, prog[m].name = prog[k].name, prog[m].op = "use"
        PROVE  FALSE
    <3>1. symbol[m] \in Ids /\ Node(symbol[m]).name = prog[m].name
      BY <1>1, <2>0, <2>1, <2>5, AllParsed, Generated DEF SymbolInv, NamingOps
    <3>2. Node(symbol[m]).addr # 0
      BY <2>0, <2>5 DEF OutInv
    <3> QED
      BY <2>0, <2>4, <2>5, <3>1, <3>2 DEF ChainInv
  <2> QED
    BY <2>4, <2>5
<1>2. SymbolTableInv /\ [Next]_vars =>
        [\A k \in DOMAIN prog :
            out'[k] = Slot(0) /\ out[k] # Slot(0) =>
                /\ prog[k].op = "bump"
                /\ \A m \in DOMAIN prog \ todo :
                      prog[m].name = prog[k].name /\ prog[m].op = "use" => FALSE]_vars
  BY <1>1
<1> QED
  BY <1>2, SymbolTableInvariant, PTL DEF Spec, BumpsAddressSlots
=============================================================================
