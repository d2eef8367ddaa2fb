----------------------------- MODULE MCWdsCache -----------------------------
\* Small instances of WdsCache.
EXTENDS WdsCache, TLC
CONSTANTS t, t2
MCRows == 1 .. 2
Select(table, where, desc, limit) ==
  [table |-> table, where |-> where, desc |-> desc, limit |-> limit]
All(table) == Select(table, MCRows, FALSE, -1)
Part == Select(t, {1}, FALSE, -1)
Top == Select(t, MCRows, FALSE, 1)
Last == Select(t, MCRows, TRUE, 1)
\* "... FROM t", queries that extend it by a WHERE, by "LIMIT 1" and by
\* "ORDER BY ... DESC LIMIT 1", and a query of a table whose name extends t.
MCSqls == {All(t), Part, Top, Last, All(t2)}
MCContained == {<<s, s>> : s \in MCSqls} \cup {<<All(t), s>> : s \in MCSqls}
MCStores == {[d \in Dbs |-> (t :> {1, 2} @@ t2 :> {2})]}
Cache(d, sql) == [db |-> d, sql |-> sql, static |-> TRUE]
NotStatic(d) == [db |-> d, sql |-> Part, static |-> FALSE]
\* Configurations whose static queries fit into the cache: none; one query of
\* two databases, as in the sample configuration, a query that is not static
\* and one that can be answered locally; a query before and after one that
\* contains its text.
MCConfigsFit ==
  {<<>>} \cup
  UNION {{<<Cache(p[1], All(t)), NotStatic(p[2]), Cache(p[2], All(t)), Cache(p[2], Top)>>,
          <<Cache(p[1], Part), Cache(p[2], All(t)), Cache(p[2], Part)>>} :
         p \in {p \in Dbs \X Dbs : p[1] # p[2]}}
DbSymmetry == Permutations(Dbs)
=============================================================================
