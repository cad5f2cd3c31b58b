---------------------------- MODULE Builds_proofs ----------------------------
(***************************************************************************)
(* Whatever the number of runs of the compiler and wherever they stop, the *)
(* output file is what ExecutablesExplained says.                          *)
(***************************************************************************)
EXTENDS Builds, TLAPS

\* The runs whose text can come into p's output file, those whose text can be
\* in p's text file, what p has written of its own, and what as makes of it.
Sources(p) == Clash(p) \union (UNION { met[q] : q \in Clash(p) }) \union {0, p}
Partners(p) == { q \in met[p] : Shares(p, q) } \union {0, p}
TextSoFar(p) == [k \in 1 .. flushed[p] |-> <<p, k>>]
Outcome(p) == Assembled(TextOf(p), orders[p].verdict)

\* Runs under way at the same time have met, unless the one only removes, and
\* nobody has met a run that has not begun.
MetInv ==
    /\ \A p, q \in Runs :
          p # q /\ UnderWay(p) /\ pc[p] # "remove" /\ UnderWay(q) => q \in met[p]
    /\ \A p \in Runs : \A q \in met[p] : pc[q] # "parse"

FlushInv == \A p \in Runs : /\ pc[p] = "parse" => flushed[p] = 0
                            /\ pc[p] = "write" => flushed[p] < orders[p].size

\* What an undisturbed run finds at each of its steps is its own.
OwnInv == \A p \in Runs : Clash(p) = {} =>
    /\ pc[p] = "write" => text[tar_path_name(p)] = TextSoFar(p)
    /\ pc[p] = "assemble" => text[tar_path_name(p)] = TextOf(p)
    /\ pc[p] = "emit" => held[p] = TextOf(p)
    /\ pc[p] = "link" => object[output_name(p)] = Outcome(p)

\* What any run finds comes from the runs it has met and those that these met.
FromInv == \A p \in Runs :
    /\ pc[p] \in {"write", "assemble"} => Writers(text[tar_path_name(p)]) \subseteq Partners(p)
    /\ pc[p] = "emit" => Writers(held[p]) \subseteq Partners(p)
    /\ pc[p] = "link" /\ object[output_name(p)] # None =>
          Writers(object[output_name(p)].text) \subseteq Sources(p)

LinkedInv == \A n \in Names :
    /\ linked[n] = 0 => executable[n] = Old
    /\ \A p \in Runs : linked[n] = p =>
          /\ pc[p] \in {"remove", "exit"}
          /\ orders[p].out = n
          /\ Clash(p) = {} => executable[n] = Deserved(p)
          /\ executable[n].is = "made" => Writers(executable[n].text) \subseteq Sources(p)

BuildsInv == TypeOK /\ MetInv /\ FlushInv /\ OwnInv /\ FromInv /\ LinkedInv

-----------------------------------------------------------------------------
(* Facts about the operators.                                              *)

\* Each run's order is an order.
LEMMA OrderType ==
    ASSUME TypeOK, NEW p \in Runs
    PROVE  /\ p \in Nat \ {0} /\ orders[p].out \in Names /\ orders[p].debug \in BOOLEAN
           /\ orders[p].size \in Nat \ {0} /\ orders[p].verdict \in Verdict
           /\ tar_path_name(p) \in Paths /\ output_name(p) \in Names
<1> DEFINE Order == [debug : BOOLEAN, out : Names, size : Nat \ {0}, verdict : Verdict]
<1>1. orders \in Seq(Order)
  BY OrdersAssumption DEF TypeOK
<1> HIDE DEF Order
<1>2. p \in 1 .. Len(orders) /\ orders[p] \in Order
  BY <1>1 DEF Runs
<1> USE DEF Order
<1>3. /\ orders[p].out \in Names /\ orders[p].debug \in BOOLEAN
      /\ orders[p].size \in Nat \ {0} /\ orders[p].verdict \in Verdict
  BY <1>2
<1>4. p \in Nat \ {0}
  BY <1>1, <1>2
<1> QED
  BY <1>3, <1>4 DEF tar_path_name, output_name, Paths

\* Runs share the text file if and only if both or neither of them has --debug.
LEMMA SharedPath ==
    ASSUME TypeOK, NEW p \in Runs, NEW q \in Runs
    PROVE  tar_path_name(p) = tar_path_name(q) <=> Shares(p, q)
  BY OrderType DEF tar_path_name, Shares

\* The text of a run's program is a sequence of its own blocks, and no other
\* run's; as and ld say of it what they have to say.
LEMMA OwnText ==
    ASSUME TypeOK, NEW p \in Runs
    PROVE  /\ TextOf(p) \in Seq(Block) /\ Verdicts(TextOf(p)) = {orders[p].verdict}
           /\ Outcome(p) \in File \union {None}
<1>1. orders[p].size \in Nat \ {0} /\ orders[p].verdict \in Verdict
  BY OrderType
<1>2. TextOf(p) \in Seq(Block)
  BY <1>1 DEF TextOf, Block
<1>3. \A q \in Runs : TextOf(q) = TextOf(p) => q = p
  <2> SUFFICES ASSUME NEW q \in Runs, TextOf(q) = TextOf(p) PROVE q = p
    OBVIOUS
  <2>1. 1 \in 1 .. orders[q].size /\ 1 \in 1 .. orders[p].size
    BY <1>1, OrderType
  <2>2. TextOf(q)[1] = <<q, 1>> /\ TextOf(p)[1] = <<p, 1>>
    BY <2>1 DEF TextOf
  <2> QED
    BY <2>2
<1>4. { q \in Runs : TextOf(p) = TextOf(q) } = {p}
  BY <1>3
<1>5. Verdicts(TextOf(p)) = {orders[p].verdict}
  BY <1>4 DEF Verdicts
<1> QED
  BY <1>1, <1>2, <1>5 DEF Outcome, Assembled, Made, File

\* Where a block is written there is that block, elsewhere what there was or
\* nothing, and a block written at the end is appended.
LEMMA WrittenText ==
    ASSUME NEW S, NEW t \in Seq(S), NEW k \in Nat \ {0}, NEW b \in S, Hole \in S
    PROVE  /\ WrittenAt(t, k, b) \in Seq(S)
           /\ \A i \in DOMAIN WrittenAt(t, k, b) :
                 \/ WrittenAt(t, k, b)[i] \in {b, Hole}
                 \/ (i \in DOMAIN t /\ WrittenAt(t, k, b)[i] = t[i])
<1> DEFINE n == IF k > Len(t) THEN k ELSE Len(t)
<1> DEFINE cell(i) == IF i = k THEN b ELSE IF i <= Len(t) THEN t[i] ELSE Hole
<1>1. n \in Nat /\ DOMAIN t = 1 .. Len(t) /\ Len(t) \in Nat
  OBVIOUS
<1>2. \A i \in 1 .. n : cell(i) \in S /\ (cell(i) \in {b, Hole} \/ (i \in DOMAIN t /\ cell(i) = t[i]))
  BY <1>1
<1>3. WrittenAt(t, k, b) = [i \in 1 .. n |-> cell(i)]
  BY DEF WrittenAt
<1> HIDE DEF n, cell
<1> QED
  BY <1>1, <1>2, <1>3

\* What does not change unless a run begins.
LEMMA Unmoved ==
    ASSUME UNCHANGED <<orders, met>>
    PROVE  /\ Runs' = Runs /\ Block' = Block /\ File' = File
           /\ \A p \in Runs :
                 /\ tar_path_name(p)' = tar_path_name(p) /\ output_name(p)' = output_name(p)
                 /\ TextOf(p)' = TextOf(p) /\ Outcome(p)' = Outcome(p)
                 /\ Deserved(p)' = Deserved(p)
                 /\ Clash(p)' = Clash(p) /\ Partners(p)' = Partners(p) /\ Sources(p)' = Sources(p)
  BY DEF Runs, Block, File, tar_path_name, output_name, TextOf, Outcome, Assembled, Made, Deserved,
         Linked, Clash, Shares, Partners, Sources

\* A run that begins can only be added to those that others have met.
LEMMA Growing ==
    ASSUME TypeOK, NEW p \in Runs, Open(p)
    PROVE  /\ Runs' = Runs /\ Block' = Block /\ File' = File
           /\ \A q \in Runs :
                 /\ tar_path_name(q)' = tar_path_name(q) /\ output_name(q)' = output_name(q)
                 /\ TextOf(q)' = TextOf(q) /\ Outcome(q)' = Outcome(q)
                 /\ Deserved(q)' = Deserved(q)
           /\ met' \in [Runs -> SUBSET Runs] /\ met'[p] = { r \in Runs \ {p} : UnderWay(r) }
           /\ \A q \in Runs \ {p} :
                 /\ met[q] \subseteq met'[q]
                 /\ UnderWay(q) /\ pc[q] # "remove" => p \in met'[q]
                 /\ pc[q] \in {"remove", "exit"} => met'[q] = met[q]
<1>1. /\ orders' = orders
      /\ met' = [q \in Runs |->
            IF q = p THEN { r \in Runs \ {p} : UnderWay(r) }
            ELSE IF UnderWay(q) /\ pc[q] # "remove" THEN met[q] \union {p} ELSE met[q]]
  BY DEF Open
<1>2. met \in [Runs -> SUBSET Runs]
  BY DEF TypeOK
<1>3. /\ Runs' = Runs /\ Block' = Block /\ File' = File
      /\ \A q \in Runs :
            /\ tar_path_name(q)' = tar_path_name(q) /\ output_name(q)' = output_name(q)
            /\ TextOf(q)' = TextOf(q) /\ Outcome(q)' = Outcome(q)
            /\ Deserved(q)' = Deserved(q)
  BY <1>1 DEF Runs, Block, File, tar_path_name, output_name, TextOf, Outcome, Assembled, Made,
              Deserved, Linked
<1>4. met' \in [Runs -> SUBSET Runs] /\ met'[p] = { r \in Runs \ {p} : UnderWay(r) }
  BY <1>1, <1>2
<1>5. ASSUME NEW q \in Runs \ {p}
      PROVE  /\ met[q] \subseteq met'[q]
             /\ UnderWay(q) /\ pc[q] # "remove" => p \in met'[q]
             /\ pc[q] \in {"remove", "exit"} => met'[q] = met[q]
  BY <1>1, <1>2 DEF UnderWay
<1> QED
  BY <1>3, <1>4, <1>5

\* When p begins no run loses any it has met, and none is added to those of a
\* run that has linked.
LEMMA Others ==
    ASSUME TypeOK, MetInv, NEW p \in Runs, Open(p), NEW q \in Runs \ {p}
    PROVE  /\ Clash(q) \subseteq Clash(q)' /\ Partners(q) \subseteq Partners(q)'
           /\ Sources(q) \subseteq Sources(q)'
           /\ pc[q] \in {"remove", "exit"} => Clash(q)' = Clash(q)
<1>1. /\ orders' = orders /\ pc[p] = "parse" /\ met[q] \subseteq met'[q]
      /\ pc[q] \in {"remove", "exit"} => met'[q] = met[q]
  BY Growing DEF Open, At
<1>2. Clash(q) \subseteq Clash(q)' /\ Partners(q) \subseteq Partners(q)'
  BY <1>1 DEF Clash, Partners, Shares
<1>3. ASSUME NEW r \in Clash(q)
      PROVE  met[r] \subseteq met'[r]
  <2>1. r \in met[q] /\ met[q] \subseteq Runs
    BY DEF Clash, TypeOK
  <2>2. r \in Runs \ {p}
    BY <2>1, <1>1 DEF MetInv
  <2> QED
    BY <2>2, Growing
<1>4. Sources(q) \subseteq Sources(q)'
  BY <1>2, <1>3 DEF Sources
<1> QED
  BY <1>1, <1>2, <1>4 DEF Clash, Shares

-----------------------------------------------------------------------------
(* Type correctness.                                                       *)

LEMMA TypeInit == Init => TypeOK
<1> SUFFICES ASSUME Init PROVE TypeOK
  OBVIOUS
<1> USE DEF Init
<1>1. \A p \in Runs : orders[p].size \in Nat \ {0}
  <2> DEFINE Order == [debug : BOOLEAN, out : Names, size : Nat \ {0}, verdict : Verdict]
  <2>1. orders \in Seq(Order)
    BY OrdersAssumption
  <2> HIDE DEF Order
  <2>2. \A p \in Runs : orders[p] \in Order
    BY <2>1 DEF Runs
  <2> QED
    BY <2>2 DEF Order
<1>2. <<>> \in Seq(Block)
  OBVIOUS
<1>3. \A p \in Runs : flushed[p] = 0 /\ 0 <= orders[p].size
  BY <1>1
<1> QED
  BY <1>2, <1>3 DEF TypeOK

LEMMA TypeStep ==
    ASSUME TypeOK, FlushInv, [Next]_vars
    PROVE  TypeOK'
<1>1. ASSUME NEW p \in Runs, Open(p)
      PROVE  TypeOK'
  <2>1. Runs' = Runs /\ Block' = Block /\ File' = File /\ met' \in [Runs -> SUBSET Runs]
    BY <1>1, Growing
  <2>2. tar_path_name(p) \in Paths /\ <<>> \in Seq(Block)
    BY <1>1, OrderType
  <2>3. text' \in [Paths -> Seq(Block)]
    BY <1>1, <2>2 DEF Open, Opened, TypeOK
  <2>4. pc' \in [Runs -> {"parse", "write", "assemble", "emit", "link", "remove", "exit"}]
    BY <1>1 DEF Open, At, TypeOK
  <2> QED
    BY <1>1, <2>1, <2>3, <2>4 DEF Open, TypeOK
<1>2. ASSUME NEW p \in Runs, Flush(p), flushed[p] < orders[p].size
      PROVE  TypeOK'
  <2>1. Runs' = Runs /\ Block' = Block /\ File' = File
    BY <1>2, Unmoved DEF Flush
  <2>2. /\ tar_path_name(p) \in Paths /\ orders[p].size \in Nat
        /\ flushed' \in [Runs -> Nat] /\ flushed'[p] = flushed[p] + 1 /\ flushed'[p] \in Nat \ {0}
        /\ \A q \in Runs : flushed'[q] <= orders[q].size
    BY <1>2, OrderType DEF Flush, TypeOK
  <2>3. <<p, flushed'[p]>> \in Block /\ Hole \in Block
    BY <1>2, <2>2 DEF Block, Hole
  <2>4. WrittenAt(text[tar_path_name(p)], flushed'[p], <<p, flushed'[p]>>) \in Seq(Block)
    BY <2>2, <2>3, WrittenText DEF TypeOK
  <2>5. text' \in [Paths -> Seq(Block)]
    BY <1>2, <2>2, <2>4 DEF Flush, TypeOK
  <2>6. pc' \in [Runs -> {"parse", "write", "assemble", "emit", "link", "remove", "exit"}]
    BY <1>2 DEF Flush, TypeOK
  <2> QED
    BY <1>2, <2>1, <2>2, <2>5, <2>6 DEF Flush, TypeOK
<1>3. ASSUME NEW p \in Runs, AsReads(p)
      PROVE  TypeOK'
  <2>1. Runs' = Runs /\ Block' = Block /\ File' = File
    BY <1>3, Unmoved DEF AsReads
  <2>2. tar_path_name(p) \in Paths /\ output_name(p) \in Names
    BY <1>3, OrderType
  <2>3. pc' \in [Runs -> {"parse", "write", "assemble", "emit", "link", "remove", "exit"}]
    BY <1>3 DEF AsReads, At, TypeOK
  <2>4. object' \in [Names -> File \union {None}] /\ held' \in [Runs -> Seq(Block)]
    BY <1>3, <2>2 DEF AsReads, TypeOK
  <2> QED
    BY <1>3, <2>1, <2>3, <2>4 DEF AsReads, TypeOK
<1>4. ASSUME NEW p \in Runs, AsWrites(p)
      PROVE  TypeOK'
  <2>1. Runs' = Runs /\ Block' = Block /\ File' = File
    BY <1>4, Unmoved DEF AsWrites
  <2>2. output_name(p) \in Names /\ held[p] \in Seq(Block) /\ Verdicts(held[p]) \subseteq Verdict
    BY <1>4, OrderType DEF TypeOK, Verdicts
  <2>3. pc' \in [Runs -> {"parse", "write", "assemble", "emit", "link", "remove", "exit"}]
    BY <1>4 DEF AsWrites, At, TypeOK
  <2>4. \A verdict \in Verdict : Assembled(held[p], verdict) \in File \union {None}
    BY <2>2 DEF Assembled, Made, File
  <2>5. object' \in [Names -> File \union {None}]
    BY <1>4, <2>2, <2>4 DEF AsWrites, TypeOK
  <2> QED
    BY <1>4, <2>1, <2>3, <2>5 DEF AsWrites, TypeOK
<1>5. ASSUME NEW p \in Runs, Ld(p)
      PROVE  TypeOK'
  <2>1. Runs' = Runs /\ Block' = Block /\ File' = File
    BY <1>5, Unmoved DEF Ld
  <2>2. output_name(p) \in Names /\ object[output_name(p)] \in File \union {None}
    BY <1>5, OrderType DEF TypeOK
  <2>3. pc' \in [Runs -> {"parse", "write", "assemble", "emit", "link", "remove", "exit"}]
    BY <1>5 DEF Ld, At, TypeOK
  <2>4. Linked(object[output_name(p)]) \in File \union {None}
    BY <2>2 DEF Linked, Made, File, Verdict
  <2>5. /\ executable' \in [Names -> File \union {None, Old}]
        /\ linked' \in [Names -> Runs \union {0}]
    BY <1>5, <2>2, <2>4 DEF Ld, TypeOK
  <2> QED
    BY <1>5, <2>1, <2>3, <2>5 DEF Ld, TypeOK
<1>6. ASSUME NEW p \in Runs, Rm(p)
      PROVE  TypeOK'
  <2>1. Runs' = Runs /\ Block' = Block /\ File' = File
    BY <1>6, Unmoved DEF Rm
  <2>2. output_name(p) \in Names
    BY <1>6, OrderType
  <2>3. pc' \in [Runs -> {"parse", "write", "assemble", "emit", "link", "remove", "exit"}]
    BY <1>6 DEF Rm, At, TypeOK
  <2>4. object' \in [Names -> File \union {None}]
    BY <1>6, <2>2 DEF Rm, TypeOK
  <2> QED
    BY <1>6, <2>1, <2>3, <2>4 DEF Rm, TypeOK
<1>7. ASSUME NEW p \in Runs, Stop(p)
      PROVE  TypeOK'
  <2>1. Runs' = Runs /\ Block' = Block /\ File' = File
    BY <1>7, Unmoved DEF Stop
  <2>2. pc' \in [Runs -> {"parse", "write", "assemble", "emit", "link", "remove", "exit"}]
    BY <1>7 DEF Stop, TypeOK
  <2> QED
    BY <1>7, <2>1, <2>2 DEF Stop, TypeOK
<1>8. ASSUME NEW p \in Runs, Refuse(p)
      PROVE  TypeOK'
  <2>1. Runs' = Runs /\ Block' = Block /\ File' = File
    BY <1>8, Unmoved DEF Refuse
  <2>2. tar_path_name(p) \in Paths /\ flushed[p] + 1 \in Nat \ {0}
    BY <1>8, OrderType DEF TypeOK
  <2>3. Part(p) \in Block /\ Hole \in Block
    BY <1>8 DEF Part, Block, Hole
  <2>4. WrittenAt(text[tar_path_name(p)], flushed[p] + 1, Part(p)) \in Seq(Block)
    BY <2>2, <2>3, WrittenText DEF TypeOK
  <2>5. text' \in [Paths -> Seq(Block)]
    BY <1>8, <2>2, <2>4 DEF Refuse, TypeOK
  <2>6. pc' \in [Runs -> {"parse", "write", "assemble", "emit", "link", "remove", "exit"}]
    BY <1>8 DEF Refuse, At, TypeOK
  <2> QED
    BY <1>8, <2>1, <2>5, <2>6 DEF Refuse, TypeOK
<1>9. CASE UNCHANGED vars
  <2>1. Runs' = Runs /\ Block' = Block /\ File' = File
    BY <1>9, Unmoved DEF vars
  <2> QED
    BY <1>9, <2>1 DEF vars, TypeOK
<1> QED
  BY <1>1, <1>2, <1>3, <1>4, <1>5, <1>6, <1>7, <1>8, <1>9 DEF Next, Exited, Flush, FlushInv

-----------------------------------------------------------------------------
(* Who has met whom, and how much is written.                              *)

LEMMA PhaseStep ==
    ASSUME TypeOK, MetInv, FlushInv, [Next]_vars
    PROVE  MetInv' /\ FlushInv'
<1> USE DEF At
<1>1. ASSUME NEW p \in Runs, Open(p)
      PROVE  MetInv' /\ FlushInv'
  <2>1. /\ Runs' = Runs /\ orders' = orders /\ flushed' = flushed
        /\ pc[p] = "parse" /\ pc' = [pc EXCEPT ![p] = "write"]
    BY <1>1, Growing DEF Open
  <2>2. ASSUME NEW q \in Runs, NEW r \in Runs, q # r, UnderWay(q)', pc'[q] # "remove", UnderWay(r)'
        PROVE  r \in met'[q]
    <3>1. CASE q = p
      <4>1. pc'[r] = pc[r]
        BY <2>1, <2>2, <3>1 DEF TypeOK
      <4>2. UnderWay(r)
        BY <2>2, <4>1 DEF UnderWay
      <4> QED
        BY <1>1, <2>2, <3>1, <4>2, Growing
    <3>2. CASE q # p
      <4>1. pc'[q] = pc[q]
        BY <2>1, <3>2 DEF TypeOK
      <4>2. UnderWay(q) /\ pc[q] # "remove"
        BY <2>2, <4>1 DEF UnderWay
      <4>3. CASE r = p
        BY <1>1, <3>2, <4>2, <4>3, Growing
      <4>4. CASE r # p
        <5>1. pc'[r] = pc[r]
          BY <2>1, <4>4 DEF TypeOK
        <5>2. UnderWay(r)
          BY <2>2, <5>1 DEF UnderWay
        <5> QED
          BY <1>1, <2>2, <3>2, <4>2, <5>2, Growing DEF MetInv
      <4> QED
        BY <4>3, <4>4
    <3> QED
      BY <3>1, <3>2
  <2>3. ASSUME NEW q \in Runs, NEW r \in met'[q]
        PROVE  pc'[r] # "parse"
    <3>1. r \in Runs
      BY <1>1, Growing
    <3>2. r = p \/ UnderWay(r) \/ r \in met[q]
      BY <1>1 DEF Open, TypeOK
    <3> QED
      BY <2>1, <3>1, <3>2 DEF TypeOK, MetInv, UnderWay
  <2>4. FlushInv'
    BY <2>1, OrderType DEF FlushInv, TypeOK
  <2> QED
    BY <2>1, <2>2, <2>3, <2>4 DEF MetInv
<1>2. ASSUME UNCHANGED <<orders, met>>,
             \A q \in Runs : /\ UnderWay(q)' => UnderWay(q)
                             /\ UnderWay(q)' /\ pc'[q] # "remove" => pc[q] # "remove"
                             /\ pc[q] # "parse" => pc'[q] # "parse"
      PROVE  MetInv'
  BY <1>2, Unmoved DEF MetInv, TypeOK
<1>3. ASSUME NEW p \in Runs, Flush(p)
      PROVE  MetInv' /\ FlushInv'
  <2>1. MetInv'
    BY <1>2, <1>3 DEF Flush, UnderWay, TypeOK
  <2>2. /\ flushed[p] \in Nat /\ orders[p].size \in Nat /\ flushed[p] < orders[p].size
        /\ flushed'[p] = flushed[p] + 1
        /\ pc'[p] = IF flushed'[p] = orders[p].size THEN "assemble" ELSE "write"
    BY <1>3, OrderType DEF Flush, FlushInv, TypeOK
  <2>3. ASSUME NEW q \in Runs \ {p}
        PROVE  pc'[q] = pc[q] /\ flushed'[q] = flushed[q]
    BY <1>3 DEF Flush, TypeOK
  <2>4. orders' = orders /\ Runs' = Runs
    BY <1>3, Unmoved DEF Flush
  <2> QED
    BY <2>1, <2>2, <2>3, <2>4 DEF FlushInv
<1>4. ASSUME NEW p \in Runs, AsReads(p) \/ AsWrites(p) \/ Ld(p) \/ Rm(p)
      PROVE  MetInv' /\ FlushInv'
  <2>1. MetInv'
    BY <1>2, <1>4 DEF AsReads, AsWrites, Ld, Rm, UnderWay, TypeOK
  <2>2. FlushInv'
    BY <1>4, Unmoved DEF AsReads, AsWrites, Ld, Rm, FlushInv, TypeOK
  <2> QED
    BY <2>1, <2>2
<1>5. ASSUME NEW p \in Runs, Refuse(p) \/ Stop(p)
      PROVE  MetInv' /\ FlushInv'
  <2>1. MetInv'
    BY <1>2, <1>5 DEF Refuse, Stop, UnderWay, TypeOK
  <2>2. FlushInv'
    BY <1>5, Unmoved DEF Refuse, Stop, FlushInv, TypeOK
  <2> QED
    BY <2>1, <2>2
<1>6. CASE UNCHANGED vars
  BY <1>6, Unmoved DEF vars, MetInv, FlushInv, UnderWay
<1> QED
  BY <1>1, <1>3, <1>4, <1>5, <1>6 DEF Next, Exited

-----------------------------------------------------------------------------
(* The files.                                                              *)

\* A run that works on a file that q still needs is one that q has met.
LEMMA Meeting ==
    ASSUME TypeOK, MetInv, NEW p \in Runs, NEW q \in Runs, p # q,
           UnderWay(p), UnderWay(q), pc[q] # "remove"
    PROVE  /\ tar_path_name(p) = tar_path_name(q) => p \in Clash(q) /\ p \in Partners(q)
           /\ output_name(p) = output_name(q) => p \in Clash(q)
<1>1. p \in met[q]
  BY DEF MetInv
<1>2. tar_path_name(p) = tar_path_name(q) => Shares(q, p)
  BY SharedPath DEF Shares
<1> QED
  BY <1>1, <1>2 DEF Clash, Partners, output_name

\* Another block of an undisturbed run.
LEMMA Appended ==
    ASSUME NEW n \in Nat, NEW p
    PROVE  WrittenAt([k \in 1 .. n |-> <<p, k>>], n + 1, <<p, n + 1>>)
              = [k \in 1 .. n + 1 |-> <<p, k>>]
<1> DEFINE t == [k \in 1 .. n |-> <<p, k>>]
<1>1. t \in Seq({p} \X Nat) /\ Len(t) = n
  OBVIOUS
<1>2. \A k \in 1 .. n : t[k] = <<p, k>>
  OBVIOUS
<1> HIDE DEF t
<1>3. WrittenAt(t, n + 1, <<p, n + 1>>) = [k \in 1 .. n + 1 |-> <<p, k>>]
  BY <1>1, <1>2 DEF WrittenAt
<1> QED
  BY <1>3 DEF t

\* Partners are among the sources.
LEMMA PartnersAreSources ==
    ASSUME NEW p \in Runs
    PROVE  Partners(p) \subseteq Sources(p) /\ Partners(p) \subseteq met[p] \union {0, p}
  BY DEF Partners, Sources, Clash

\* A block adds nothing but its run, and what is left free before it.
LEMMA WrittenWriters ==
    ASSUME NEW t \in Seq(Block), NEW k \in Nat \ {0}, NEW p \in Runs, NEW m \in Nat
    PROVE  Writers(WrittenAt(t, k, <<p, m>>)) \subseteq Writers(t) \union {0, p}
<1> DEFINE b == <<p, m>>
<1>1. b \in Block /\ Hole \in Block /\ b[1] = p /\ Hole[1] = 0
  BY DEF Block, Hole
<1> HIDE DEF b
<1>2. \A i \in DOMAIN WrittenAt(t, k, b) :
         \/ WrittenAt(t, k, b)[i] \in {b, Hole}
         \/ (i \in DOMAIN t /\ WrittenAt(t, k, b)[i] = t[i])
  BY <1>1, WrittenText
<1>3. Writers(WrittenAt(t, k, b)) \subseteq Writers(t) \union {0, p}
  BY <1>1, <1>2 DEF Writers
<1> QED
  BY <1>3 DEF b

\* A step that links nothing leaves what was linked as it is.
LEMMA LinkedStays ==
    ASSUME LinkedInv, UNCHANGED <<orders, met, executable, linked>>,
           \A q \in Runs : pc[q] \in {"remove", "exit"} => pc'[q] \in {"remove", "exit"}
    PROVE  LinkedInv'
  BY Unmoved DEF LinkedInv, Writers

\* A step that writes no text and no object leaves what the runs find as it is.
LEMMA FilesStay ==
    ASSUME OwnInv, FromInv, UNCHANGED <<orders, met, flushed, held, text, object>>,
           \A q \in Runs : pc'[q] = pc[q] \/ pc'[q] \in {"remove", "exit"}
    PROVE  OwnInv' /\ FromInv'
<1>1. \A q \in Runs : TextSoFar(q)' = TextSoFar(q)
  BY DEF TextSoFar
<1>2. OwnInv'
  BY <1>1, Unmoved DEF OwnInv
<1>3. FromInv'
  BY Unmoved DEF FromInv, Writers
<1> QED
  BY <1>2, <1>3

LEMMA OpenStep ==
    ASSUME BuildsInv, NEW p \in Runs, Open(p)
    PROVE  OwnInv' /\ FromInv' /\ LinkedInv'
<1> USE DEF BuildsInv
<1>1. /\ pc[p] = "parse" /\ pc'[p] = "write" /\ flushed[p] = 0
      /\ \A q \in Runs \ {p} : pc'[q] = pc[q]
      /\ Runs' = Runs
      /\ orders' = orders /\ flushed' = flushed /\ held' = held /\ object' = object
      /\ executable' = executable /\ linked' = linked
  BY Growing, ZenonT(40) DEF Open, At, TypeOK, FlushInv
<1>2. /\ text'[tar_path_name(p)] = <<>>
      /\ \A f \in Paths \ {tar_path_name(p)} : text'[f] = text[f]
  BY OrderType DEF Open, Opened, TypeOK
<1>3. OwnInv'
  <2> SUFFICES ASSUME NEW q \in Runs, Clash(q)' = {}
               PROVE  /\ pc'[q] = "write" => text'[tar_path_name(q)] = TextSoFar(q)'
                      /\ pc'[q] = "assemble" => text'[tar_path_name(q)] = TextOf(q)
                      /\ pc'[q] = "emit" => held[q] = TextOf(q)
                      /\ pc'[q] = "link" => object[output_name(q)] = Outcome(q)
    BY <1>1, Growing DEF OwnInv
  <2>1. CASE q = p
    <3>1. TextSoFar(p)' = <<>>
      BY <1>1 DEF TextSoFar
    <3> QED
      BY <1>1, <1>2, <2>1, <3>1
  <2>2. CASE q # p
    <3>1. Clash(q) = {} /\ pc'[q] = pc[q] /\ TextSoFar(q)' = TextSoFar(q)
      BY <1>1, <2>2, Others DEF TextSoFar
    <3>2. ASSUME pc[q] \in {"write", "assemble"}
          PROVE  text'[tar_path_name(q)] = text[tar_path_name(q)]
      <4>1. p \in met'[q]
        BY <2>2, <3>2, Growing DEF UnderWay
      <4>2. ~Shares(q, p)
        BY <1>1, <4>1 DEF Clash, Shares
      <4> QED
        BY <1>2, <4>2, SharedPath, OrderType
    <3> QED
      BY <3>1, <3>2 DEF OwnInv
  <2> QED
    BY <2>1, <2>2
<1>4. FromInv'
  <2> SUFFICES ASSUME NEW q \in Runs
               PROVE  /\ pc'[q] \in {"write", "assemble"} =>
                            Writers(text'[tar_path_name(q)]) \subseteq Partners(q)'
                      /\ pc'[q] = "emit" => Writers(held[q]) \subseteq Partners(q)'
                      /\ pc'[q] = "link" /\ object[output_name(q)] # None =>
                            Writers(object[output_name(q)].text) \subseteq Sources(q)'
    BY <1>1, Growing DEF FromInv, Writers
  <2>1. Writers(<<>>) = {}
    BY DEF Writers
  <2>2. CASE q = p
    BY <1>1, <1>2, <2>1, <2>2
  <2>3. CASE q # p
    <3>1. pc'[q] = pc[q] /\ Partners(q) \subseteq Partners(q)' /\ Sources(q) \subseteq Sources(q)'
      BY <1>1, <2>3, Others
    <3>2. \/ text'[tar_path_name(q)] = <<>>
          \/ text'[tar_path_name(q)] = text[tar_path_name(q)]
      BY <1>2, OrderType
    <3> QED
      BY <2>1, <3>1, <3>2 DEF FromInv
  <2> QED
    BY <2>2, <2>3
<1>5. LinkedInv'
  <2> SUFFICES ASSUME NEW n \in Names, NEW q \in Runs, linked[n] = q
               PROVE  /\ pc'[q] \in {"remove", "exit"}
                      /\ orders[q].out = n
                      /\ Clash(q)' = {} => executable[n] = Deserved(q)
                      /\ executable[n].is = "made" =>
                            Writers(executable[n].text) \subseteq Sources(q)'
    <3>1. \A n \in Names : linked'[n] = 0 => executable'[n] = Old
      BY <1>1 DEF LinkedInv
    <3>2. \A q \in Runs : Deserved(q)' = Deserved(q) /\ orders'[q].out = orders[q].out
      BY <1>1, Growing
    <3> QED
      BY <1>1, <3>1, <3>2 DEF LinkedInv, Writers
  <2>1. q # p /\ pc[q] \in {"remove", "exit"}
    BY <1>1 DEF LinkedInv
  <2>2. pc'[q] = pc[q] /\ Clash(q)' = Clash(q) /\ Sources(q) \subseteq Sources(q)'
    BY <1>1, <2>1, Others
  <2> QED
    BY <2>1, <2>2 DEF LinkedInv
<1> QED
  BY <1>3, <1>4, <1>5

LEMMA FlushStep ==
    ASSUME BuildsInv, NEW p \in Runs, Flush(p)
    PROVE  OwnInv' /\ FromInv' /\ LinkedInv'
<1> USE DEF BuildsInv
<1> DEFINE k == flushed[p] + 1
<1>1. /\ UNCHANGED <<orders, met, held, object, executable, linked>>
      /\ pc[p] = "write" /\ pc'[p] = (IF k = orders[p].size THEN "assemble" ELSE "write")
      /\ flushed'[p] = k /\ flushed[p] \in Nat /\ k \in Nat \ {0}
      /\ \A q \in Runs \ {p} : pc'[q] = pc[q] /\ flushed'[q] = flushed[q]
  BY DEF Flush, TypeOK
<1>2. /\ text'[tar_path_name(p)] = WrittenAt(text[tar_path_name(p)], k, <<p, k>>)
      /\ \A f \in Paths \ {tar_path_name(p)} : text'[f] = text[f]
  BY <1>1, OrderType DEF Flush, TypeOK
<1>3. OwnInv'
  <2> SUFFICES ASSUME NEW q \in Runs, Clash(q) = {}
               PROVE  /\ pc'[q] = "write" => text'[tar_path_name(q)] = TextSoFar(q)'
                      /\ pc'[q] = "assemble" => text'[tar_path_name(q)] = TextOf(q)
                      /\ pc'[q] = "emit" => held[q] = TextOf(q)
                      /\ pc'[q] = "link" => object[output_name(q)] = Outcome(q)
    BY <1>1, Unmoved DEF OwnInv
  <2>1. CASE q = p
    <3>1. text[tar_path_name(p)] = [i \in 1 .. flushed[p] |-> <<p, i>>]
      BY <1>1, <2>1 DEF OwnInv, TextSoFar
    <3>2. WrittenAt([i \in 1 .. flushed[p] |-> <<p, i>>], k, <<p, k>>) = [i \in 1 .. k |-> <<p, i>>]
      BY <1>1, Appended
    <3>3. text'[tar_path_name(p)] = [i \in 1 .. k |-> <<p, i>>]
      <4> HIDE DEF k
      <4> QED
        BY <1>2, <3>1, <3>2
    <3>4. TextSoFar(p)' = [i \in 1 .. k |-> <<p, i>>]
      BY <1>1 DEF TextSoFar
    <3> QED
      BY <1>1, <2>1, <3>3, <3>4 DEF TextOf
  <2>2. CASE q # p
    <3>1. pc'[q] = pc[q] /\ TextSoFar(q)' = TextSoFar(q)
      BY <1>1, <2>2 DEF TextSoFar
    <3>2. ASSUME pc[q] \in {"write", "assemble"}
          PROVE  text'[tar_path_name(q)] = text[tar_path_name(q)]
      <4>1. UnderWay(p) /\ UnderWay(q)
        BY <1>1, <3>2 DEF UnderWay
      <4>2. tar_path_name(p) # tar_path_name(q)
        BY <2>2, <3>2, <4>1, Meeting
      <4> QED
        BY <1>2, <4>2, OrderType
    <3> QED
      BY <3>1, <3>2 DEF OwnInv
  <2> QED
    BY <2>1, <2>2
<1>4. FromInv'
  <2> SUFFICES ASSUME NEW q \in Runs
               PROVE  /\ pc'[q] \in {"write", "assemble"} =>
                            Writers(text'[tar_path_name(q)]) \subseteq Partners(q)
                      /\ pc'[q] = "emit" => Writers(held[q]) \subseteq Partners(q)
                      /\ pc'[q] = "link" /\ object[output_name(q)] # None =>
                            Writers(object[output_name(q)].text) \subseteq Sources(q)
    BY <1>1, Unmoved DEF FromInv, Writers
  <2>1. pc'[q] = pc[q] \/ (q = p /\ pc'[q] \in {"write", "assemble"} /\ pc[q] = "write")
    BY <1>1
  <2>2. ASSUME pc[q] \in {"write", "assemble"}
        PROVE  Writers(text'[tar_path_name(q)]) \subseteq Partners(q)
    <3>1. CASE tar_path_name(q) = tar_path_name(p)
      <4>1. p \in Partners(q) /\ 0 \in Partners(q)
        <5>1. CASE q = p
          BY <5>1 DEF Partners
        <5>2. CASE q # p
          <6>1. UnderWay(p) /\ UnderWay(q)
            BY <1>1, <2>2 DEF UnderWay
          <6> QED
            BY <2>2, <3>1, <5>2, <6>1, Meeting DEF Partners
        <5> QED
          BY <5>1, <5>2
      <4>2. Writers(text'[tar_path_name(p)]) \subseteq Writers(text[tar_path_name(p)]) \union {0, p}
        <5>1. text[tar_path_name(p)] \in Seq(Block)
          BY OrderType DEF TypeOK
        <5> QED
          BY <1>1, <1>2, <5>1, WrittenWriters
      <4>3. Writers(text[tar_path_name(q)]) \subseteq Partners(q)
        BY <2>2 DEF FromInv
      <4> QED
        BY <3>1, <4>1, <4>2, <4>3
    <3>2. CASE tar_path_name(q) # tar_path_name(p)
      BY <1>2, <2>2, <3>2, OrderType DEF FromInv
    <3> QED
      BY <3>1, <3>2
  <2> QED
    BY <2>1, <2>2 DEF FromInv
<1>5. LinkedInv'
  BY <1>1, LinkedStays
<1> QED
  BY <1>3, <1>4, <1>5

\* As for a whole block, but that the run itself needs the text no more.
LEMMA RefuseStep ==
    ASSUME BuildsInv, NEW p \in Runs, Refuse(p)
    PROVE  OwnInv' /\ FromInv' /\ LinkedInv'
<1> USE DEF BuildsInv
<1> DEFINE k == flushed[p] + 1
<1>1. /\ UNCHANGED <<orders, met, flushed, held, object, executable, linked>>
      /\ pc[p] = "write" /\ pc'[p] = "exit" /\ k \in Nat \ {0}
      /\ \A q \in Runs \ {p} : pc'[q] = pc[q]
  BY DEF Refuse, At, TypeOK
<1>2. /\ text'[tar_path_name(p)] = WrittenAt(text[tar_path_name(p)], k, <<p, 0>>)
      /\ \A f \in Paths \ {tar_path_name(p)} : text'[f] = text[f]
  BY <1>1, OrderType DEF Refuse, Part, TypeOK
<1>3. OwnInv'
  <2> SUFFICES ASSUME NEW q \in Runs, Clash(q) = {}
               PROVE  /\ pc'[q] = "write" => text'[tar_path_name(q)] = TextSoFar(q)
                      /\ pc'[q] = "assemble" => text'[tar_path_name(q)] = TextOf(q)
                      /\ pc'[q] = "emit" => held[q] = TextOf(q)
                      /\ pc'[q] = "link" => object[output_name(q)] = Outcome(q)
    <3>1. \A q \in Runs : TextSoFar(q)' = TextSoFar(q)
      BY <1>1 DEF TextSoFar
    <3> QED
      BY <1>1, <3>1, Unmoved DEF OwnInv
  <2>1. ASSUME pc'[q] \in {"write", "assemble"}
        PROVE  text'[tar_path_name(q)] = text[tar_path_name(q)]
    <3>1. p # q /\ UnderWay(p) /\ UnderWay(q) /\ pc[q] # "remove"
      BY <1>1, <2>1 DEF UnderWay
    <3>2. tar_path_name(p) # tar_path_name(q)
      BY <3>1, Meeting
    <3> QED
      BY <1>2, <3>2, OrderType
  <2> QED
    BY <1>1, <2>1 DEF OwnInv
<1>4. FromInv'
  <2> SUFFICES ASSUME NEW q \in Runs, q # p
               PROVE  /\ pc[q] \in {"write", "assemble"} =>
                            Writers(text'[tar_path_name(q)]) \subseteq Partners(q)
                      /\ pc[q] = "emit" => Writers(held[q]) \subseteq Partners(q)
                      /\ pc[q] = "link" /\ object[output_name(q)] # None =>
                            Writers(object[output_name(q)].text) \subseteq Sources(q)
    BY <1>1, Unmoved DEF FromInv, Writers
  <2>1. ASSUME pc[q] \in {"write", "assemble"}
        PROVE  Writers(text'[tar_path_name(q)]) \subseteq Partners(q)
    <3>1. Writers(text[tar_path_name(q)]) \subseteq Partners(q)
      BY <2>1 DEF FromInv
    <3>2. CASE tar_path_name(q) = tar_path_name(p)
      <4>1. UnderWay(p) /\ UnderWay(q)
        BY <1>1, <2>1 DEF UnderWay
      <4>2. p \in Partners(q) /\ 0 \in Partners(q)
        BY <2>1, <3>2, <4>1, Meeting DEF Partners
      <4>3. Writers(text'[tar_path_name(p)]) \subseteq Writers(text[tar_path_name(p)]) \union {0, p}
        <5>1. text[tar_path_name(p)] \in Seq(Block)
          BY OrderType DEF TypeOK
        <5> QED
          BY <1>1, <1>2, <5>1, WrittenWriters
      <4> QED
        BY <3>1, <3>2, <4>2, <4>3
    <3>3. CASE tar_path_name(q) # tar_path_name(p)
      BY <1>2, <3>1, <3>3, OrderType
    <3> QED
      BY <3>2, <3>3
  <2> QED
    BY <2>1 DEF FromInv
<1>5. LinkedInv'
  BY <1>1, LinkedStays
<1> QED
  BY <1>3, <1>4, <1>5

LEMMA AsReadsStep ==
    ASSUME BuildsInv, NEW p \in Runs, AsReads(p)
    PROVE  OwnInv' /\ FromInv' /\ LinkedInv'
<1> USE DEF BuildsInv
<1>1. /\ UNCHANGED <<orders, met, flushed, text, executable, linked>>
      /\ pc[p] = "assemble" /\ pc'[p] = "emit" /\ held'[p] = text[tar_path_name(p)]
      /\ object'[output_name(p)] = None
      /\ \A q \in Runs \ {p} : pc'[q] = pc[q] /\ held'[q] = held[q]
      /\ \A n \in Names \ {output_name(p)} : object'[n] = object[n]
  BY OrderType DEF AsReads, At, TypeOK
<1>2. OwnInv'
  <2> SUFFICES ASSUME NEW q \in Runs, Clash(q) = {}
               PROVE  /\ pc'[q] = "write" => text[tar_path_name(q)] = TextSoFar(q)
                      /\ pc'[q] = "assemble" => text[tar_path_name(q)] = TextOf(q)
                      /\ pc'[q] = "emit" => held'[q] = TextOf(q)
                      /\ pc'[q] = "link" => object'[output_name(q)] = Outcome(q)
    <3>1. \A q \in Runs : TextSoFar(q)' = TextSoFar(q)
      BY <1>1 DEF TextSoFar
    <3> QED
      BY <1>1, <3>1, Unmoved DEF OwnInv
  <2>1. CASE q = p
    BY <1>1, <2>1 DEF OwnInv
  <2>2. CASE q # p
    <3>1. ASSUME pc[q] = "link"
          PROVE  object'[output_name(q)] = object[output_name(q)]
      BY <1>1, <2>2, <3>1, Meeting, OrderType DEF UnderWay
    <3> QED
      BY <1>1, <2>2, <3>1 DEF OwnInv
  <2> QED
    BY <2>1, <2>2
<1>3. FromInv'
  <2> SUFFICES ASSUME NEW q \in Runs
               PROVE  /\ pc'[q] \in {"write", "assemble"} =>
                            Writers(text[tar_path_name(q)]) \subseteq Partners(q)
                      /\ pc'[q] = "emit" => Writers(held'[q]) \subseteq Partners(q)
                      /\ pc'[q] = "link" /\ object'[output_name(q)] # None =>
                            Writers(object'[output_name(q)].text) \subseteq Sources(q)
    BY <1>1, Unmoved DEF FromInv, Writers
  <2>1. object'[output_name(q)] \in {None, object[output_name(q)]}
    BY <1>1, OrderType
  <2> QED
    BY <1>1, <2>1 DEF FromInv
<1>4. LinkedInv'
  BY <1>1, LinkedStays
<1> QED
  BY <1>2, <1>3, <1>4

LEMMA AsWritesStep ==
    ASSUME BuildsInv, NEW p \in Runs, AsWrites(p)
    PROVE  OwnInv' /\ FromInv' /\ LinkedInv'
<1> USE DEF BuildsInv
<1>1. /\ UNCHANGED <<orders, met, flushed, held, text, executable, linked>>
      /\ pc[p] = "emit" /\ pc'[p] = "link"
      /\ \E verdict \in Verdicts(held[p]) :
            object'[output_name(p)] = Assembled(held[p], verdict)
      /\ \A q \in Runs \ {p} : pc'[q] = pc[q]
      /\ \A n \in Names \ {output_name(p)} : object'[n] = object[n]
  BY OrderType DEF AsWrites, At, TypeOK
<1>2. OwnInv'
  <2> SUFFICES ASSUME NEW q \in Runs, Clash(q) = {}
               PROVE  /\ pc'[q] = "write" => text[tar_path_name(q)] = TextSoFar(q)
                      /\ pc'[q] = "assemble" => text[tar_path_name(q)] = TextOf(q)
                      /\ pc'[q] = "emit" => held[q] = TextOf(q)
                      /\ pc'[q] = "link" => object'[output_name(q)] = Outcome(q)
    <3>1. \A q \in Runs : TextSoFar(q)' = TextSoFar(q)
      BY <1>1 DEF TextSoFar
    <3> QED
      BY <1>1, <3>1, Unmoved DEF OwnInv
  <2>1. CASE q = p
    <3>1. held[p] = TextOf(p) /\ Verdicts(TextOf(p)) = {orders[p].verdict}
      BY <1>1, <2>1, OwnText DEF OwnInv
    <3>2. object'[output_name(p)] = Outcome(p)
      BY <1>1, <3>1 DEF Outcome
    <3> QED
      BY <1>1, <2>1, <3>2
  <2>2. CASE q # p
    <3>1. ASSUME pc[q] = "link"
          PROVE  object'[output_name(q)] = object[output_name(q)]
      BY <1>1, <2>2, <3>1, Meeting, OrderType DEF UnderWay
    <3> QED
      BY <1>1, <2>2, <3>1 DEF OwnInv
  <2> QED
    BY <2>1, <2>2
<1>3. FromInv'
  <2> SUFFICES ASSUME NEW q \in Runs
               PROVE  /\ pc'[q] \in {"write", "assemble"} =>
                            Writers(text[tar_path_name(q)]) \subseteq Partners(q)
                      /\ pc'[q] = "emit" => Writers(held[q]) \subseteq Partners(q)
                      /\ pc'[q] = "link" /\ object'[output_name(q)] # None =>
                            Writers(object'[output_name(q)].text) \subseteq Sources(q)
    BY <1>1, Unmoved DEF FromInv, Writers
  <2>1. /\ object'[output_name(p)] # None => object'[output_name(p)].text = held[p]
        /\ Writers(held[p]) \subseteq Partners(p)
    <3>1. PICK verdict \in Verdicts(held[p]) :
              object'[output_name(p)] = Assembled(held[p], verdict)
      BY <1>1
    <3>2. Assembled(held[p], verdict) \in {None, Made(held[p], verdict)}
      BY DEF Assembled
    <3>3. Made(held[p], verdict).text = held[p]
      BY DEF Made
    <3> QED
      BY <1>1, <3>1, <3>2, <3>3 DEF FromInv
  <2>2. CASE q = p
    BY <1>1, <2>1, <2>2, PartnersAreSources
  <2>3. CASE q # p
    <3>1. ASSUME pc[q] = "link", output_name(q) = output_name(p)
          PROVE  Partners(p) \subseteq Sources(q)
      <4>1. p \in Clash(q)
        BY <1>1, <2>3, <3>1, Meeting DEF UnderWay
      <4>2. Partners(p) \subseteq met[p] \union {0, p}
        BY PartnersAreSources
      <4> QED
        BY <4>1, <4>2 DEF Sources
    <3>2. output_name(q) # output_name(p) =>
             object'[output_name(q)] = object[output_name(q)]
      BY <1>1, OrderType
    <3> QED
      BY <1>1, <2>1, <2>3, <3>1, <3>2 DEF FromInv
  <2> QED
    BY <2>2, <2>3
<1>4. LinkedInv'
  BY <1>1, LinkedStays
<1> QED
  BY <1>2, <1>3, <1>4

LEMMA LdStep ==
    ASSUME BuildsInv, NEW p \in Runs, Ld(p)
    PROVE  OwnInv' /\ FromInv' /\ LinkedInv'
<1> USE DEF BuildsInv
<1> DEFINE o == object[output_name(p)]
<1>1. /\ UNCHANGED <<orders, met, flushed, held, text, object>>
      /\ pc[p] = "link" /\ pc'[p] = "remove"
      /\ executable'[output_name(p)] = Linked(o) /\ linked'[output_name(p)] = p
      /\ \A q \in Runs \ {p} : pc'[q] = pc[q]
      /\ \A n \in Names \ {output_name(p)} :
            executable'[n] = executable[n] /\ linked'[n] = linked[n]
      /\ p # 0
  BY OrderType DEF Ld, At, TypeOK
<1>2. OwnInv' /\ FromInv'
  BY <1>1, FilesStay
<1>3. LinkedInv'
  <2> SUFFICES ASSUME NEW n \in Names
               PROVE  /\ linked'[n] = 0 => executable'[n] = Old
                      /\ \A q \in Runs : linked'[n] = q =>
                            /\ pc'[q] \in {"remove", "exit"}
                            /\ orders[q].out = n
                            /\ Clash(q) = {} => executable'[n] = Deserved(q)
                            /\ executable'[n].is = "made" =>
                                  Writers(executable'[n].text) \subseteq Sources(q)
    BY <1>1, Unmoved DEF LinkedInv, Writers
  <2>1. CASE n = output_name(p)
    <3>1. Clash(p) = {} => executable'[n] = Deserved(p)
      BY <1>1, <2>1 DEF OwnInv, Deserved, Outcome
    <3>2. executable'[n].is = "made" => o # None /\ executable'[n].text = o.text
      BY <1>1, <2>1 DEF Linked, Made, None
    <3>3. o # None => Writers(o.text) \subseteq Sources(p)
      BY <1>1 DEF FromInv
    <3> HIDE DEF o
    <3> QED
      BY <1>1, <2>1, <3>1, <3>2, <3>3 DEF output_name
  <2>2. CASE n # output_name(p)
    <3>1. executable'[n] = executable[n] /\ linked'[n] = linked[n]
      BY <1>1, <2>2
    <3>2. \A q \in Runs : pc[q] \in {"remove", "exit"} => pc'[q] = pc[q]
      BY <1>1
    <3> QED
      BY <3>1, <3>2 DEF LinkedInv
  <2> QED
    BY <2>1, <2>2
<1> QED
  BY <1>2, <1>3

LEMMA RmStep ==
    ASSUME BuildsInv, NEW p \in Runs, Rm(p)
    PROVE  OwnInv' /\ FromInv' /\ LinkedInv'
<1> USE DEF BuildsInv
<1>1. /\ UNCHANGED <<orders, met, flushed, held, text, executable, linked>>
      /\ pc[p] = "remove" /\ pc'[p] = "exit"
      /\ \A q \in Runs \ {p} : pc'[q] = pc[q]
      /\ object'[output_name(p)] = None
      /\ \A n \in Names \ {output_name(p)} : object'[n] = object[n]
  BY OrderType DEF Rm, At, TypeOK
<1>2. OwnInv'
  <2> SUFFICES ASSUME NEW q \in Runs, Clash(q) = {}
               PROVE  /\ pc'[q] = "write" => text[tar_path_name(q)] = TextSoFar(q)
                      /\ pc'[q] = "assemble" => text[tar_path_name(q)] = TextOf(q)
                      /\ pc'[q] = "emit" => held[q] = TextOf(q)
                      /\ pc'[q] = "link" => object'[output_name(q)] = Outcome(q)
    <3>1. \A q \in Runs : TextSoFar(q)' = TextSoFar(q)
      BY <1>1 DEF TextSoFar
    <3> QED
      BY <1>1, <3>1, Unmoved DEF OwnInv
  <2>1. ASSUME pc'[q] = "link"
        PROVE  object'[output_name(q)] = object[output_name(q)]
    BY <1>1, <2>1, Meeting, OrderType DEF UnderWay
  <2> QED
    BY <1>1, <2>1 DEF OwnInv
<1>3. FromInv'
  <2> SUFFICES ASSUME NEW q \in Runs
               PROVE  /\ pc'[q] \in {"write", "assemble"} =>
                            Writers(text[tar_path_name(q)]) \subseteq Partners(q)
                      /\ pc'[q] = "emit" => Writers(held[q]) \subseteq Partners(q)
                      /\ pc'[q] = "link" /\ object'[output_name(q)] # None =>
                            Writers(object'[output_name(q)].text) \subseteq Sources(q)
    BY <1>1, Unmoved DEF FromInv, Writers
  <2>1. object'[output_name(q)] \in {None, object[output_name(q)]}
    BY <1>1, OrderType
  <2> QED
    BY <1>1, <2>1 DEF FromInv
<1>4. LinkedInv'
  BY <1>1, LinkedStays
<1> QED
  BY <1>2, <1>3, <1>4

LEMMA StopStep ==
    ASSUME BuildsInv, NEW p \in Runs, Stop(p)
    PROVE  OwnInv' /\ FromInv' /\ LinkedInv'
<1>1. /\ UNCHANGED <<orders, met, flushed, held, text, object, executable, linked>>
      /\ pc'[p] = "exit" /\ \A q \in Runs \ {p} : pc'[q] = pc[q]
  BY DEF Stop, BuildsInv, TypeOK
<1> QED
  BY <1>1, FilesStay, LinkedStays DEF BuildsInv

-----------------------------------------------------------------------------
(* The theorems.                                                           *)

LEMMA InitInv == Init => BuildsInv
<1> SUFFICES ASSUME Init PROVE BuildsInv
  OBVIOUS
<1>1. TypeOK
  BY TypeInit
<1>2. \A p \in Runs : pc[p] = "parse" /\ flushed[p] = 0 /\ met[p] = {} /\ p # 0
  BY <1>1, OrderType DEF Init
<1>3. \A n \in Names : linked[n] = 0 /\ executable[n] = Old
  BY DEF Init
<1>4. MetInv /\ FlushInv
  BY <1>2 DEF MetInv, FlushInv, UnderWay
<1>5. OwnInv /\ FromInv
  BY <1>2 DEF OwnInv, FromInv
<1>6. LinkedInv
  BY <1>2, <1>3 DEF LinkedInv
<1> QED
  BY <1>1, <1>4, <1>5, <1>6 DEF BuildsInv

\* The inductive invariant: what each run finds at its next step, by whom it
\* can have been written, and what is left in the output files.
THEOREM BuildsInvariant == Spec => []BuildsInv
<1>1. ASSUME BuildsInv, [Next]_vars
      PROVE  BuildsInv'
  <2>1. TypeOK' /\ MetInv' /\ FlushInv'
    BY <1>1, TypeStep, PhaseStep DEF BuildsInv
  <2>2. ASSUME NEW p \in Runs,
               \/ Open(p) \/ Flush(p) \/ AsReads(p) \/ AsWrites(p)
               \/ Ld(p) \/ Rm(p) \/ Refuse(p) \/ Stop(p)
        PROVE  OwnInv' /\ FromInv' /\ LinkedInv'
    BY <1>1, <2>2, OpenStep, FlushStep, AsReadsStep, AsWritesStep, LdStep, RmStep,
       RefuseStep, StopStep
  <2>3. CASE UNCHANGED vars
    BY <1>1, <2>1, <2>3, FilesStay, LinkedStays DEF vars, BuildsInv
  <2> QED
    BY <1>1, <2>1, <2>2, <2>3 DEF Next, Exited, BuildsInv
<1> QED
  BY <1>1, InitInv, PTL DEF Spec

\* Whatever the number of runs, the sizes of their programs and the places
\* where they stop, an output file is what the program of the run that linked
\* last deserves, unless a run under way at the same time had the same text
\* file or output name, and then it comes from the texts of those runs and of
\* the runs that these met.
THEOREM BuildsAreExplained == Spec => []ExecutablesExplained
<1>1. BuildsInv => ExecutablesExplained
  <2> SUFFICES ASSUME BuildsInv, NEW n \in Names
               PROVE  /\ linked[n] = 0 => executable[n] = Old
                      /\ linked[n] # 0 =>
                            /\ orders[linked[n]].out = n
                            /\ Clash(linked[n]) = {} => executable[n] = Deserved(linked[n])
                            /\ executable[n].is = "made" =>
                                  Writers(executable[n].text) \subseteq Sources(linked[n])
    BY DEF BuildsInv, ExecutablesExplained, Sources
  <2>1. linked[n] # 0 => linked[n] \in Runs
    BY DEF BuildsInv, TypeOK
  <2> QED
    BY <2>1 DEF BuildsInv, LinkedInv
<1> QED
  BY <1>1, BuildsInvariant, PTL
=============================================================================
