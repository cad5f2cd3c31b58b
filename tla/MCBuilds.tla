------------------------------ MODULE MCBuilds ------------------------------
(* Every pair of runs, and triples of accepted programs with one text file. *)
EXTENDS Builds

MCNames == {"a.out", "b"}
All == [debug : BOOLEAN, out : MCNames, size : 1 .. 2,
        verdict : {"ok", "as refuses", "ld refuses"}]
Accepted(n) == [debug |-> FALSE, out |-> n, size |-> 1, verdict |-> "ok"]

\* The names and the text files are interchangeable: the first run has one of each.
Pairs   == { <<p, q>> \in All \X All : p.out = "a.out" /\ ~p.debug }
Triples == { <<Accepted("a.out"), Accepted("a.out"), Accepted(n)>> : n \in MCNames }
MCOrders == Pairs \union Triples
=============================================================================
