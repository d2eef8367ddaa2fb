--------------------------- MODULE MCEtlPipeline ---------------------------
(***************************************************************************)
(* The configurations EtlPipeline is checked with.                         *)
(***************************************************************************)
EXTENDS EtlPipeline

Plain ==
  [stage |-> Queries, post |-> {}, flat |-> FALSE,
   remote |-> FALSE, early |-> FALSE, rejects |-> FALSE]
PostEtlOf(n) == [Plain EXCEPT !.post = n]

\* A database or a flat file as the source, PostETL actions, local modules and
\* remote ones that print before they are done, and a query without Staging
\* Area with an RDP that refuses requests.
AllSetups ==
  {Plain, PostEtlOf(Queries), [Plain EXCEPT !.flat = TRUE],
   [Plain EXCEPT !.remote = TRUE, !.early = TRUE],
   [Plain EXCEPT !.stage = {1}, !.remote = TRUE, !.rejects = TRUE]}

PostSetup == {PostEtlOf(Queries)}
PlainSetup == {Plain}
=============================================================================
