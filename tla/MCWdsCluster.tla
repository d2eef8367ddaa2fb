---------------------------- MODULE MCWdsCluster ----------------------------
(***************************************************************************)
(* Three nodes.  Table t is at the third, and the others know of it, of    *)
(* each other or of nobody; table u is at the first, and the second knows  *)
(* of it or not.                                                           *)
(***************************************************************************)
EXTENDS WdsCluster

CONSTANTS n1, n2, n3, t, u

\* The first node forwards queries for t to a, the second those for t to b and
\* those for u to d.
Routing(a, b, d) ==
  [n \in {n1, n2, n3} |-> [x \in {t, u} |->
     IF x = t THEN (CASE n = n1 -> a [] n = n2 -> b [] n = n3 -> n3)
              ELSE (CASE n = n1 -> n1 [] n = n2 -> d [] n = n3 -> Nobody)]]

\* A chain, a circle for one table, one across both tables, and a table the
\* first node does not know of.
MCRoutings ==
  {Routing(n2, n3, Nobody), Routing(n2, n1, Nobody), Routing(n2, n3, n1), Routing(Nobody, n3, n1)}
=============================================================================
