--------------------------- MODULE WdsCacheProofs ---------------------------
(***************************************************************************)
(* Proofs about WdsCache, for every set of databases, tables and queries,  *)
(* every configuration and every memory limit.                             *)
(*                                                                         *)
(* They rely on the queries configured for the start-up to fit into the    *)
(* cache.  Without it DCPAM_WDS_init_cache keeps the size of an entry that *)
(* exceeded the limit and puts the next query into its place: neither the  *)
(* limit nor the sub-caches of that entry survive.                         *)
(***************************************************************************)
EXTENDS WdsCache, FiniteSetTheorems, WellFoundedInduction, TLAPS

\* The start-up data is within the limit.
StartFits == pc = "init" => CACHE_size <= CACHE_MAX_size
-----------------------------------------------------------------------------
(***************************************************************************)
(* Numbers and sets of rows.                                               *)
(***************************************************************************)

\* Induction over the naturals, for a property given as a set.
LEMMA SetInduction ==
  ASSUME NEW S, 0 \in S, \A i \in Nat : i \in S => i + 1 \in S
  PROVE  Nat \subseteq S
<1> DEFINE T == Nat \ S
           Less == {ss \in Nat \X Nat : ss[1] < ss[2]}
<1> SUFFICES ASSUME T # {} PROVE FALSE
  OBVIOUS
<1>1. IsWellFoundedOn(Less, Nat)
  BY NatLessThanWellFounded DEF OpToRel
<1>2. PICK x \in T : \A y \in T : <<y, x>> \notin Less
  <2> HIDE DEF T, Less
  <2>1. T \subseteq Nat BY DEF T
  <2>2. QED BY <1>1, <2>1, WFMin
<1>3. x # 0 /\ x - 1 \in Nat /\ x \in Nat
  OBVIOUS
<1>4. <<x - 1, x>> \in Less
  BY <1>3
<1>5. x - 1 \in S BY <1>2, <1>3, <1>4
<1>6. QED BY <1>3, <1>5

\* Min of indices is one of them, and the first.
LEMMA MinIn ==
  ASSUME NEW S \in SUBSET Nat, S # {}
  PROVE  Min(S) \in S /\ \A g \in S : Min(S) <= g
<1> DEFINE Less == {ss \in Nat \X Nat : ss[1] < ss[2]}
<1>1. IsWellFoundedOn(Less, Nat) BY NatLessThanWellFounded DEF OpToRel
<1>2. PICK x \in S : \A y \in S : <<y, x>> \notin Less
  <2> HIDE DEF Less
  <2>1. QED BY <1>1, WFMin
<1>3. \A y \in S : x <= y
  <2> SUFFICES ASSUME NEW y \in S, y < x PROVE FALSE OBVIOUS
  <2>1. <<y, x>> \in Less OBVIOUS
  <2>2. QED BY <1>2, <2>1
<1>4. QED BY <1>2, <1>3 DEF Min

\* The size of an entry is a number.
LEMMA CardType == ASSUME NEW S \in SUBSET Rows PROVE IsFiniteSet(S) /\ Cardinality(S) \in Nat
  BY CacheAssumption, FS_Subset, FS_CardinalityType

\* LIMIT selects rows, and changes nothing when it is applied again.
LEMMA FirstRows ==
  ASSUME NEW S \in SUBSET Rows, NEW m \in Int, NEW o
  PROVE  First(m, S, o) \subseteq S /\ First(m, First(m, S, o), o) = First(m, S, o)
<1> DEFINE F == First(m, S, o)
<1>1. F \subseteq S BY DEF First
<1>2. ASSUME NEW r \in F PROVE Cardinality({x \in F : Before(o, x, r)}) < m
  <2> DEFINE B == {x \in S : Before(o, x, r)}
             A == {x \in F : Before(o, x, r)}
  <2>1. Cardinality(B) < m BY DEF First
  <2>2. A \subseteq B /\ B \in SUBSET Rows /\ A \in SUBSET Rows BY <1>1
  <2> HIDE DEF A, B, F
  <2>3. Cardinality(A) <= Cardinality(B) BY <2>2, CardType, FS_Subset
  <2>4. Cardinality(A) \in Nat /\ Cardinality(B) \in Nat BY <2>2, CardType
  <2>5. QED BY <2>1, <2>3, <2>4 DEF A
<1>3. First(m, F, o) = {r \in F : Cardinality({x \in F : Before(o, x, r)}) < m} BY DEF First
<1> HIDE DEF F
<1>4. First(m, F, o) = F BY <1>2, <1>3
<1>5. QED BY <1>1, <1>4 DEF F
-----------------------------------------------------------------------------
(***************************************************************************)
(* Entries and their sizes.                                                *)
(***************************************************************************)

\* An entry is empty or has a query and rows.
LEMMA EntryKinds ==
  ASSUME NEW e \in Entries
  PROVE  /\ e.set => /\ e.db \in Dbs /\ e.sql \in Sqls /\ e.rows \in SUBSET Rows
                     /\ Size(e) \in Nat
         /\ ~e.set => e = Empty
<1>1. CASE e = Empty BY <1>1 DEF Empty
<1>2. CASE e \in [set : {TRUE}, db : Dbs, sql : Sqls, rows : SUBSET Rows]
  BY <1>2, CardType DEF Size
<1>3. QED BY <1>1, <1>2 DEF Entries

\* A query returns rows of its table that its condition keeps.
LEMMA ExecRows ==
  ASSUME TypeOK, NEW d \in Dbs, NEW s \in Sqls
  PROVE  /\ Exec(d, s) \in SUBSET Rows
         /\ Exec(d, s) \subseteq store[d][s.table] \cap s.where
<1> DEFINE found == store[d][s.table] \cap s.where
<1>1. s \in Query BY CacheAssumption
<1>2. s.table \in Tables /\ s.where \in SUBSET Rows /\ s.limit \in Int BY <1>1 DEF Query
<1>3. found \in SUBSET Rows BY <1>2 DEF TypeOK, Store
<1>4. Exec(d, s) = IF s.limit >= 0 THEN First(s.limit, found, s.desc) ELSE found BY DEF Exec
<1> HIDE DEF found
<1>5. Exec(d, s) \subseteq found BY <1>2, <1>3, <1>4, FirstRows
<1>6. QED BY <1>3, <1>5 DEF found

\* What DB_CACHE_init makes is an entry.
LEMMA EntryType ==
  ASSUME TypeOK, NEW d \in Dbs, NEW s \in Sqls
  PROVE  /\ Entry(d, s) \in Entries /\ Entry(d, s).set /\ Entry(d, s).sql = s
         /\ Entry(d, s).db = d
         /\ Entry(d, s).rows = Exec(d, s)
         /\ Size(Entry(d, s)) \in Nat
<1>1. Entry(d, s) \in [set : {TRUE}, db : Dbs, sql : Sqls, rows : SUBSET Rows]
  BY ExecRows DEF Entry, TypeOK
<1>2. /\ Entry(d, s).set /\ Entry(d, s).sql = s /\ Entry(d, s).db = d
      /\ Entry(d, s).rows = Exec(d, s)
  BY DEF Entry
<1>3. Entry(d, s) \in Entries BY <1>1 DEF Entries
<1>4. QED BY <1>2, <1>3, EntryKinds

\* What an entry adds to the size of the cache.
Counted(e) == IF e.set THEN Size(e) ELSE 0

\* It is a number.
LEMMA CountedNat == ASSUME NEW e \in Entries PROVE Counted(e) \in Nat
  BY EntryKinds DEF Counted

\* f gives the sizes added up, to the m-th entry.
AreSizes(c, m, f) == f = [i \in 0 .. m |-> IF i = 0 THEN 0 ELSE f[i - 1] + Counted(c[i])]

\* There are such sizes, by induction over the entries ...
LEMMA SizesExist == ASSUME NEW c PROVE \A m \in Nat : \E f : AreSizes(c, m, f)
<1> DEFINE S == {m \in Nat : \E f : AreSizes(c, m, f)}
<1>1. 0 \in S
  <2>1. AreSizes(c, 0, [i \in 0 .. 0 |-> 0]) BY DEF AreSizes
  <2>2. QED BY <2>1
<1>2. ASSUME NEW m \in Nat, m \in S PROVE m + 1 \in S
  <2>1. PICK f : AreSizes(c, m, f) BY <1>2
  <2> DEFINE g == [i \in 0 .. m + 1 |-> IF i = m + 1 THEN f[m] + Counted(c[m + 1]) ELSE f[i]]
  <2>2. \A i \in 0 .. m + 1 : g[i] = IF i = 0 THEN 0 ELSE g[i - 1] + Counted(c[i])
    BY <2>1 DEF AreSizes
  <2>3. AreSizes(c, m + 1, g)
    <3>1. g = [i \in 0 .. m + 1 |-> g[i]] OBVIOUS
    <3> HIDE DEF g
    <3>2. QED BY <2>2, <3>1 DEF AreSizes
  <2>4. QED BY <2>3
<1>3. Nat \subseteq S
  <2> HIDE DEF S
  <2>1. QED BY <1>1, <1>2, SetInduction
<1>4. QED BY <1>3

\* ... so the recursive function is what its definition says.
LEMMA SizesDef ==
  ASSUME NEW c, Len(c) \in Nat
  PROVE  /\ Sizes(c)[0] = 0
         /\ \A i \in 1 .. Len(c) : Sizes(c)[i] = Sizes(c)[i - 1] + Counted(c[i])
<1>1. \E f : f = [i \in 0 .. Len(c) |-> IF i = 0 THEN 0 ELSE f[i - 1] + Counted(c[i])]
  BY SizesExist DEF AreSizes
<1>2. Sizes(c) = [i \in 0 .. Len(c) |-> IF i = 0 THEN 0 ELSE Sizes(c)[i - 1] + Counted(c[i])]
  BY <1>1 DEF Sizes, Counted
<1>3. QED BY <1>2

\* Sizes that are a number up to every entry; in a cache e that agrees with c
\* but for entry j they differ by what that entry adds.
LEMMA SizesGrow ==
  ASSUME NEW c \in Seq(Entries), NEW e \in Seq(Entries), NEW j \in 1 .. Len(e), NEW b \in Nat,
         b <= Len(c), b <= Len(e),
         \A i \in 1 .. b : i # j => e[i] = c[i],
         j <= b => Counted(c[j]) = 0
  PROVE  /\ Sizes(c)[b] \in Nat
         /\ Sizes(e)[b] = Sizes(c)[b] + (IF j <= b THEN Counted(e[j]) ELSE 0)
<1> DEFINE S == {i \in Nat : i <= b =>
                   /\ Sizes(c)[i] \in Nat
                   /\ Sizes(e)[i] = Sizes(c)[i] + (IF j <= i THEN Counted(e[j]) ELSE 0)}
<1>1. Len(c) \in Nat /\ Len(e) \in Nat /\ j \in Nat /\ j >= 1 OBVIOUS
<1>2. /\ Sizes(c)[0] = 0 /\ Sizes(e)[0] = 0
      /\ \A i \in 1 .. Len(c) : Sizes(c)[i] = Sizes(c)[i - 1] + Counted(c[i])
      /\ \A i \in 1 .. Len(e) : Sizes(e)[i] = Sizes(e)[i - 1] + Counted(e[i])
  BY <1>1, SizesDef
<1>3. Counted(e[j]) \in Nat BY CountedNat
<1>4. 0 \in S
  <2>1. ~(j <= 0) BY <1>1
  <2>2. Sizes(e)[0] = Sizes(c)[0] + (IF j <= 0 THEN Counted(e[j]) ELSE 0) BY <1>2, <2>1
  <2>3. QED BY <1>2, <2>2
<1>5. ASSUME NEW i \in Nat, i \in S PROVE i + 1 \in S
  <2> SUFFICES ASSUME i + 1 <= b
               PROVE  /\ Sizes(c)[i + 1] \in Nat
                      /\ Sizes(e)[i + 1] = Sizes(c)[i + 1] + (IF j <= i + 1 THEN Counted(e[j]) ELSE 0)
    OBVIOUS
  <2>1. /\ Sizes(c)[i] \in Nat
        /\ Sizes(e)[i] = Sizes(c)[i] + (IF j <= i THEN Counted(e[j]) ELSE 0)
    BY <1>5
  <2>2. i + 1 \in 1 .. b /\ i + 1 \in 1 .. Len(c) /\ i + 1 \in 1 .. Len(e) /\ (i + 1) - 1 = i
    BY <1>1
  <2>3. /\ Sizes(c)[i + 1] = Sizes(c)[i] + Counted(c[i + 1])
        /\ Sizes(e)[i + 1] = Sizes(e)[i] + Counted(e[i + 1])
    BY <1>2, <2>2
  <2>4. Counted(c[i + 1]) \in Nat BY <2>2, CountedNat
  <2>5. CASE i + 1 = j BY <1>1, <1>3, <2>1, <2>2, <2>3, <2>4, <2>5
  <2>6. CASE i + 1 # j
    <3>1. Counted(e[i + 1]) = Counted(c[i + 1]) BY <2>2, <2>6
    <3>2. j <= i + 1 <=> j <= i BY <1>1, <2>6
    <3>3. QED BY <1>1, <1>3, <2>1, <2>3, <2>4, <3>1, <3>2
  <2>7. QED BY <2>5, <2>6
<1>6. Nat \subseteq S
  <2> HIDE DEF S
  <2>1. QED BY <1>4, <1>5, SetInduction
<1>7. QED BY <1>6

\* The size of the whole cache, before and after entry e is made: at the end
\* of the cache, or in an entry without data.
Total(c) == Sizes(c)[Len(c)]

\* At the end of the cache.
LEMMA TotalAppend ==
  ASSUME NEW c \in Seq(Entries), NEW e \in Entries
  PROVE  Total(Append(c, e)) = Total(c) + Counted(e)
<1> DEFINE a == Append(c, e)
           l == Len(c)
<1>1. a \in Seq(Entries) /\ Len(a) = l + 1 /\ l \in Nat OBVIOUS
<1>2. a[l + 1] = e /\ \A i \in 1 .. l : a[i] = c[i] OBVIOUS
<1> HIDE DEF a, l
<1>3. l + 1 \in 1 .. Len(a) /\ l <= Len(c) /\ l <= Len(a) /\ ~(l + 1 <= l) BY <1>1 DEF l
<1>4. Sizes(c)[l] \in Nat /\ Sizes(a)[l] = Sizes(c)[l]
  BY <1>1, <1>2, <1>3, SizesGrow
<1>5. Sizes(a)[l + 1] = Sizes(a)[l] + Counted(a[l + 1])
  <2>1. Len(a) \in Nat /\ (l + 1) - 1 = l BY <1>1
  <2>2. \A i \in 1 .. Len(a) : Sizes(a)[i] = Sizes(a)[i - 1] + Counted(a[i]) BY <2>1, SizesDef
  <2>3. Sizes(a)[l + 1] = Sizes(a)[(l + 1) - 1] + Counted(a[l + 1]) BY <1>3, <2>2
  <2>4. QED BY <2>1, <2>3
<1>6. QED BY <1>1, <1>2, <1>4, <1>5 DEF Total, a, l

\* In an entry without data.
LEMMA TotalExcept ==
  ASSUME NEW c \in Seq(Entries), NEW e \in Entries, NEW j \in 1 .. Len(c), ~c[j].set
  PROVE  Total([c EXCEPT ![j] = e]) = Total(c) + Counted(e)
<1> DEFINE a == [c EXCEPT ![j] = e]
           l == Len(c)
<1>1. a \in Seq(Entries) /\ Len(a) = l /\ l \in Nat OBVIOUS
<1>2. a[j] = e /\ \A i \in 1 .. l : i # j => a[i] = c[i] OBVIOUS
<1>3. Counted(c[j]) = 0 BY DEF Counted
<1> HIDE DEF a
<1>4. j \in 1 .. Len(a) /\ l <= Len(c) /\ l <= Len(a) /\ j <= l BY <1>1
<1> HIDE DEF l
<1>5. Sizes(c)[l] \in Nat /\ Sizes(a)[l] = Sizes(c)[l] + Counted(a[j])
  BY <1>1, <1>2, <1>3, <1>4, SizesGrow
<1>6. QED BY <1>1, <1>2, <1>5 DEF Total, a, l

\* A cache without data has size 0.
LEMMA TotalUnset ==
  ASSUME NEW c \in Seq(Entries), \A k \in 1 .. Len(c) : ~c[k].set
  PROVE  Total(c) = 0
<1> DEFINE S == {i \in Nat : i <= Len(c) => Sizes(c)[i] = 0}
<1>1. /\ Len(c) \in Nat /\ Sizes(c)[0] = 0
      /\ \A i \in 1 .. Len(c) : Sizes(c)[i] = Sizes(c)[i - 1] + Counted(c[i])
  BY SizesDef
<1>2. \A i \in 1 .. Len(c) : Counted(c[i]) = 0 BY DEF Counted
<1>3. ASSUME NEW i \in Nat, i \in S PROVE i + 1 \in S
  <2> SUFFICES ASSUME i + 1 <= Len(c) PROVE Sizes(c)[i + 1] = 0 OBVIOUS
  <2>1. i + 1 \in 1 .. Len(c) /\ (i + 1) - 1 = i /\ Sizes(c)[i] = 0 BY <1>1, <1>3
  <2>2. QED BY <1>1, <1>2, <2>1
<1>4. Nat \subseteq S
  <2>1. 0 \in S BY <1>1
  <2> HIDE DEF S
  <2>2. QED BY <1>3, <2>1, SetInduction
<1>5. QED BY <1>1, <1>4 DEF Total
-----------------------------------------------------------------------------
(***************************************************************************)
(* The invariant of the caches.                                            *)
(***************************************************************************)

\* No cached query extends the query of an earlier entry ...
Earliest(c) ==
  \A h, k \in DOMAIN c :
    h < k /\ c[h].set /\ c[k].set => <<c[h].sql, c[k].sql>> \notin Contained

\* ... and a sub-cache is one of the first entry that its query extends.
FirstSource(c, u) ==
  \A i \in DOMAIN u :
    /\ u[i].src \in DOMAIN c
    /\ c[u[i].src].set
    /\ c[u[i].src].rows = u[i].base
    /\ <<c[u[i].src].sql, u[i].sql>> \in Contained
    /\ \A h \in DOMAIN c : c[h].set /\ <<c[h].sql, u[i].sql>> \in Contained => u[i].src <= h

\* SubCacheSound of caches c and u.
Sound(c, u) ==
  \A i \in DOMAIN u :
    /\ u[i].src \in DOMAIN c
    /\ c[u[i].src].set /\ c[u[i].src].rows = u[i].base
    /\ \A h \in DOMAIN c : c[h].set /\ c[h].sql = u[i].sql => c[h] = c[u[i].src]

\* The entries from the one that init_cache is at have no data.
Free ==
  pc = "init" =>
    /\ Len(CACHE) = Len(config)
    /\ \A k \in DOMAIN CACHE : k >= initialized => ~CACHE[k].set

Summed == CACHE_size = Total(CACHE)
Limited == pc = "serving" => CACHE_size <= CACHE_MAX_size

WInv ==
  /\ TypeOK /\ Free /\ Summed /\ Limited
  /\ Earliest(CACHE) /\ FirstSource(CACHE, SUB_CACHE)

\* A query that is in the cache itself is not behind the source of its sub-cache.
LEMMA FirstSourceSound ==
  ASSUME NEW c \in Seq(Entries), NEW u \in Seq(SubEntries), Earliest(c), FirstSource(c, u)
  PROVE  Sound(c, u)
<1> SUFFICES ASSUME NEW i \in DOMAIN u, NEW h \in DOMAIN c, c[h].set, c[h].sql = u[i].sql
             PROVE  c[h] = c[u[i].src]
  BY DEF Sound, FirstSource
<1> DEFINE g == u[i].src
<1>1. g \in DOMAIN c /\ c[g].set /\ <<c[g].sql, c[h].sql>> \in Contained BY DEF FirstSource
<1>2. c[h].sql \in Sqls BY EntryKinds
<1>3. g <= h BY <1>2, CacheAssumption DEF FirstSource
<1>4. ~(g < h) BY <1>1 DEF Earliest
<1>5. g \in Nat /\ h \in Nat BY <1>1
<1>6. g = h BY <1>3, <1>4, <1>5
<1>7. QED BY <1>6

\* A new entry, for a query that extends no cached one: at the end ...
LEMMA AppendKeeps ==
  ASSUME NEW c \in Seq(Entries), NEW u \in Seq(SubEntries), Earliest(c), FirstSource(c, u),
         NEW e \in Entries,
         \A i \in DOMAIN c : c[i].set => <<c[i].sql, e.sql>> \notin Contained
  PROVE  Append(c, e) \in Seq(Entries) /\ Earliest(Append(c, e)) /\ FirstSource(Append(c, e), u)
<1> DEFINE a == Append(c, e)
           l == Len(c)
<1>1. a \in Seq(Entries) /\ Len(a) = l + 1 /\ l \in Nat OBVIOUS
<1>2. a[l + 1] = e /\ \A i \in 1 .. l : a[i] = c[i] OBVIOUS
<1>3. DOMAIN a = 1 .. (l + 1) /\ DOMAIN c = 1 .. l OBVIOUS
<1> HIDE DEF a, l
<1>4. Earliest(a)
  <2> SUFFICES ASSUME NEW h \in 1 .. (l + 1), NEW k \in 1 .. (l + 1), h < k, a[h].set, a[k].set
               PROVE  <<a[h].sql, a[k].sql>> \notin Contained
    BY <1>3 DEF Earliest
  <2>1. h \in 1 .. l BY <1>1
  <2>2. CASE k = l + 1 BY <1>2, <1>3, <2>1, <2>2
  <2>3. CASE k \in 1 .. l BY <1>2, <1>3, <2>1, <2>3 DEF Earliest
  <2>4. QED BY <1>1, <2>2, <2>3
<1>5. FirstSource(a, u)
  <2> SUFFICES ASSUME NEW i \in DOMAIN u
               PROVE  /\ u[i].src \in DOMAIN a
                      /\ a[u[i].src].set
                      /\ a[u[i].src].rows = u[i].base
                      /\ <<a[u[i].src].sql, u[i].sql>> \in Contained
                      /\ \A h \in DOMAIN a :
                           a[h].set /\ <<a[h].sql, u[i].sql>> \in Contained => u[i].src <= h
    BY DEF FirstSource
  <2> DEFINE g == u[i].src
  <2>1. /\ g \in 1 .. l /\ c[g].set /\ c[g].rows = u[i].base
        /\ <<c[g].sql, u[i].sql>> \in Contained
        /\ \A h \in 1 .. l : c[h].set /\ <<c[h].sql, u[i].sql>> \in Contained => g <= h
    BY <1>3 DEF FirstSource
  <2>2. a[g] = c[g] /\ g \in DOMAIN a BY <1>1, <1>2, <1>3, <2>1
  <2> HIDE DEF g
  <2>3. ASSUME NEW h \in DOMAIN a, a[h].set, <<a[h].sql, u[i].sql>> \in Contained
        PROVE  g <= h
    <3>1. CASE h = l + 1 BY <1>1, <2>1, <3>1
    <3>2. CASE h \in 1 .. l BY <1>2, <2>1, <2>3, <3>2
    <3>3. QED BY <1>1, <1>3, <3>1, <3>2
  <2>4. QED BY <2>1, <2>2, <2>3 DEF g
<1>6. QED BY <1>1, <1>4, <1>5 DEF a

\* ... or in the entry that init_cache is at.
LEMMA ExceptKeeps ==
  ASSUME NEW c \in Seq(Entries), NEW u \in Seq(SubEntries), Earliest(c), FirstSource(c, u),
         NEW e \in Entries, NEW j \in 1 .. Len(c),
         \A k \in DOMAIN c : k >= j => ~c[k].set,
         \A i \in DOMAIN c : c[i].set => <<c[i].sql, e.sql>> \notin Contained
  PROVE  /\ [c EXCEPT ![j] = e] \in Seq(Entries)
         /\ Earliest([c EXCEPT ![j] = e]) /\ FirstSource([c EXCEPT ![j] = e], u)
<1> DEFINE a == [c EXCEPT ![j] = e]
           l == Len(c)
<1>1. a \in Seq(Entries) /\ Len(a) = l /\ l \in Nat OBVIOUS
<1>2. a[j] = e /\ \A i \in 1 .. l : i # j => a[i] = c[i] OBVIOUS
<1>3. DOMAIN a = 1 .. l /\ DOMAIN c = 1 .. l OBVIOUS
<1> HIDE DEF a, l
<1>4. Earliest(a)
  <2> SUFFICES ASSUME NEW h \in 1 .. l, NEW k \in 1 .. l, h < k, a[h].set, a[k].set
               PROVE  <<a[h].sql, a[k].sql>> \notin Contained
    BY <1>3 DEF Earliest
  <2>1. CASE k = j
    <3>1. h # j BY <2>1
    <3>2. QED BY <1>2, <1>3, <2>1, <3>1
  <2>2. CASE k # j
    <3>1. k < j BY <1>2, <1>3, <2>2
    <3>2. h # j BY <3>1
    <3>3. QED BY <1>2, <1>3, <2>2, <3>2 DEF Earliest
  <2>3. QED BY <2>1, <2>2
<1>5. FirstSource(a, u)
  <2> SUFFICES ASSUME NEW i \in DOMAIN u
               PROVE  /\ u[i].src \in DOMAIN a
                      /\ a[u[i].src].set
                      /\ a[u[i].src].rows = u[i].base
                      /\ <<a[u[i].src].sql, u[i].sql>> \in Contained
                      /\ \A h \in DOMAIN a :
                           a[h].set /\ <<a[h].sql, u[i].sql>> \in Contained => u[i].src <= h
    BY DEF FirstSource
  <2> DEFINE g == u[i].src
  <2>1. /\ g \in 1 .. l /\ c[g].set /\ c[g].rows = u[i].base
        /\ <<c[g].sql, u[i].sql>> \in Contained
        /\ \A h \in 1 .. l : c[h].set /\ <<c[h].sql, u[i].sql>> \in Contained => g <= h
    BY <1>3 DEF FirstSource
  <2>2. g < j BY <1>3, <2>1
  <2>3. a[g] = c[g] BY <1>2, <2>1, <2>2
  <2> HIDE DEF g
  <2>4. ASSUME NEW h \in DOMAIN a, a[h].set, <<a[h].sql, u[i].sql>> \in Contained
        PROVE  g <= h
    <3>1. CASE h = j BY <2>1, <2>2, <3>1
    <3>2. CASE h # j BY <1>2, <1>3, <2>1, <2>4, <3>2
    <3>3. QED BY <3>1, <3>2
  <2>5. QED BY <1>3, <2>1, <2>3, <2>4 DEF g
<1>6. QED BY <1>1, <1>4, <1>5 DEF a

\* The records of a sub-cache are records of its entry.
LEMMA SubRowsIn ==
  ASSUME NEW e \in Entries, e.set, NEW s \in Sqls
  PROVE  SubRows(e, s) \subseteq e.rows /\ SubRows(e, s) \in SUBSET Rows
<1>1. e.rows \in SUBSET Rows BY EntryKinds
<1>2. s \in Query BY CacheAssumption
<1>3. s.limit \in Int BY <1>2 DEF Query
<1>4. SubRows(e, s) \subseteq e.rows BY <1>1, <1>3, FirstRows DEF SubRows
<1>5. QED BY <1>1, <1>4

\* The entry that a new sub-cache is one of.
LEMMA SupersetFound ==
  ASSUME TypeOK, NEW s \in Sqls, Supersets(s) # {}
  PROVE  LET i == Min(Supersets(s))
         IN /\ i \in DOMAIN CACHE /\ i \in Nat /\ CACHE[i] \in Entries
            /\ CACHE[i].set /\ <<CACHE[i].sql, s>> \in Contained
            /\ \A h \in DOMAIN CACHE : CACHE[h].set /\ <<CACHE[h].sql, s>> \in Contained => i <= h
            /\ SubEntry(i, s) \in SubEntries
<1> DEFINE i == Min(Supersets(s))
<1>1. CACHE \in Seq(Entries) BY DEF TypeOK
<1>2. DOMAIN CACHE \subseteq Nat BY <1>1
<1>3. Supersets(s) \in SUBSET Nat BY <1>2 DEF Supersets
<1>4. i \in Supersets(s) /\ \A g \in Supersets(s) : i <= g BY <1>3, MinIn
<1> HIDE DEF i
<1>5. i \in DOMAIN CACHE /\ CACHE[i].set /\ <<CACHE[i].sql, s>> \in Contained
  BY <1>4 DEF Supersets
<1>6. \A h \in DOMAIN CACHE : CACHE[h].set /\ <<CACHE[h].sql, s>> \in Contained => i <= h
  BY <1>4 DEF Supersets
<1>7. CACHE[i] \in Entries BY <1>1, <1>5
<1>8. CACHE[i].rows \in SUBSET Rows /\ SubRows(CACHE[i], s) \in SUBSET Rows
  BY <1>5, <1>7, EntryKinds, SubRowsIn
<1>9. i \in Nat BY <1>2, <1>5
<1>10. SubEntry(i, s) \in SubEntries BY <1>8, <1>9 DEF SubEntry, SubEntries
<1>11. QED BY <1>5, <1>6, <1>7, <1>9, <1>10 DEF i

\* A new sub-cache.
LEMMA SubCachedKeeps ==
  ASSUME TypeOK, FirstSource(CACHE, SUB_CACHE), NEW s \in Sqls, Supersets(s) # {}
  PROVE  SubCached(s) \in Seq(SubEntries) /\ FirstSource(CACHE, SubCached(s))
<1> DEFINE i == Min(Supersets(s))
           x == SubEntry(i, s)
           a == Append(SUB_CACHE, x)
           l == Len(SUB_CACHE)
<1>1. SUB_CACHE \in Seq(SubEntries) BY DEF TypeOK
<1>2. /\ i \in DOMAIN CACHE /\ CACHE[i].set /\ <<CACHE[i].sql, s>> \in Contained
      /\ \A h \in DOMAIN CACHE : CACHE[h].set /\ <<CACHE[h].sql, s>> \in Contained => i <= h
      /\ x \in SubEntries
  BY SupersetFound
<1>3. x.src = i /\ x.sql = s /\ x.base = CACHE[i].rows BY DEF SubEntry
<1>4. SubCached(s) = SUB_CACHE \/ SubCached(s) = a BY DEF SubCached
<1> HIDE DEF i, x
<1>5. /\ a \in Seq(SubEntries) /\ l \in Nat /\ a[l + 1] = x
      /\ DOMAIN a = 1 .. (l + 1) /\ DOMAIN SUB_CACHE = 1 .. l
      /\ \A j \in 1 .. l : a[j] = SUB_CACHE[j]
  BY <1>1, <1>2
<1> HIDE DEF a, l
<1>6. FirstSource(CACHE, a)
  <2> SUFFICES ASSUME NEW j \in DOMAIN a
               PROVE  /\ a[j].src \in DOMAIN CACHE
                      /\ CACHE[a[j].src].set
                      /\ CACHE[a[j].src].rows = a[j].base
                      /\ <<CACHE[a[j].src].sql, a[j].sql>> \in Contained
                      /\ \A h \in DOMAIN CACHE :
                           CACHE[h].set /\ <<CACHE[h].sql, a[j].sql>> \in Contained => a[j].src <= h
    BY DEF FirstSource
  <2>1. CASE j = l + 1 BY <1>2, <1>3, <1>5, <2>1
  <2>2. CASE j \in 1 .. l
    <3>1. a[j] = SUB_CACHE[j] /\ j \in DOMAIN SUB_CACHE BY <1>5, <2>2
    <3>2. QED BY <3>1 DEF FirstSource
  <2>3. QED BY <1>5, <2>1, <2>2
<1>7. QED BY <1>1, <1>4, <1>5, <1>6
-----------------------------------------------------------------------------
(***************************************************************************)
(* The steps of the start-up and of a request.                             *)
(***************************************************************************)

\* A step that leaves the caches alone, or that adds a sub-cache.
LEMMA CachesAlone ==
  ASSUME WInv, UNCHANGED <<CACHE, SUB_CACHE>>
  PROVE  Earliest(CACHE)' /\ FirstSource(CACHE, SUB_CACHE)'
  BY DEF WInv, Earliest, FirstSource

\* A new entry in the cache, at its end or in the entry init_cache is at.
LEMMA AddedKeeps ==
  ASSUME WInv, NEW d \in Dbs, NEW s \in Sqls, Supersets(s) = {}
  PROVE  LET a == Append(CACHE, Entry(d, s))
         IN /\ a \in Seq(Entries) /\ Earliest(a) /\ FirstSource(a, SUB_CACHE)
            /\ Total(a) = Total(CACHE) + Size(Entry(d, s))
<1> DEFINE e == Entry(d, s)
           a == Append(CACHE, e)
<1>1. CACHE \in Seq(Entries) /\ SUB_CACHE \in Seq(SubEntries) BY DEF WInv, TypeOK
<1>2. e \in Entries /\ e.set /\ e.sql = s BY EntryType DEF WInv
<1>3. \A i \in DOMAIN CACHE : CACHE[i].set => <<CACHE[i].sql, e.sql>> \notin Contained
  BY <1>2 DEF Supersets
<1> HIDE DEF e
<1>4. a \in Seq(Entries) /\ Earliest(a) /\ FirstSource(a, SUB_CACHE)
  BY <1>1, <1>2, <1>3, AppendKeeps DEF WInv
<1>5. Total(a) = Total(CACHE) + Size(e) BY <1>1, <1>2, TotalAppend DEF Counted
<1>6. QED BY <1>4, <1>5 DEF e

\* The same for the entry init_cache is at.
LEMMA PlacedKeeps ==
  ASSUME WInv, NEW d \in Dbs, NEW s \in Sqls, Supersets(s) = {}, pc = "init", initialized \in 1 .. Len(CACHE)
  PROVE  LET a == [CACHE EXCEPT ![initialized] = Entry(d, s)]
         IN /\ a \in Seq(Entries) /\ Earliest(a) /\ FirstSource(a, SUB_CACHE)
            /\ Total(a) = Total(CACHE) + Size(Entry(d, s))
<1> DEFINE e == Entry(d, s)
           a == [CACHE EXCEPT ![initialized] = e]
<1>1. CACHE \in Seq(Entries) /\ SUB_CACHE \in Seq(SubEntries) BY DEF WInv, TypeOK
<1>2. e \in Entries /\ e.set /\ e.sql = s BY EntryType DEF WInv
<1>3. \A i \in DOMAIN CACHE : CACHE[i].set => <<CACHE[i].sql, e.sql>> \notin Contained
  BY <1>2 DEF Supersets
<1>4. \A k \in DOMAIN CACHE : k >= initialized => ~CACHE[k].set BY DEF WInv, Free
<1>5. ~CACHE[initialized].set
  <2>1. initialized \in DOMAIN CACHE /\ initialized >= initialized BY <1>1
  <2>2. QED BY <1>4, <2>1
<1> HIDE DEF e
<1>6. a \in Seq(Entries) /\ Earliest(a) /\ FirstSource(a, SUB_CACHE)
  BY <1>1, <1>2, <1>3, <1>4, ExceptKeeps DEF WInv
<1>7. Total(a) = Total(CACHE) + Size(e) BY <1>1, <1>2, <1>5, TotalExcept DEF Counted
<1>8. QED BY <1>6, <1>7 DEF e

\* The configured query that init_cache is at.
LEMMA StartAction ==
  ASSUME TypeOK, Starting
  PROVE  /\ config[n].db \in Dbs /\ config[n].sql \in Sqls
         /\ Len(config) \in Nat /\ n + 1 \in 1 .. (Len(config) + 1)
         /\ n \in 1 .. Len(config) /\ initialized \in 1 .. Len(config)
         /\ initialized \in 1 .. (n + 1) /\ initialized + 1 \in 1 .. (n + 1)
<1>1. config \in Seq(Action) BY CacheAssumption DEF TypeOK
<1>2. Len(config) \in Nat BY <1>1
<1>3. n \in 1 .. Len(config) /\ initialized \in 1 .. n BY <1>2 DEF TypeOK, Starting
<1>4. config[n] \in Action BY <1>1, <1>3
<1>5. config[n].db \in Dbs /\ config[n].sql \in Sqls BY <1>4 DEF Action
<1>6. QED BY <1>2, <1>3, <1>5

\* A change of the databases leaves the caches alone.
LEMMA ChangeKeeps == ASSUME WInv, Change PROVE WInv'
<1>1. /\ store \in Store /\ held \in Store /\ clock \in 0 .. MaxClock /\ clock < MaxClock
      /\ UNCHANGED <<config, pc, n, initialized, CACHE, SUB_CACHE, CACHE_size, answer>>
      /\ clock' = clock + 1
  BY DEF WInv, TypeOK, Change
<1>2. clock' \in 0 .. MaxClock BY <1>1, CacheAssumption
<1>3. PICK d \in Dbs, t \in Tables, r \in SUBSET Rows :
        /\ store' = [store EXCEPT ![d][t] = r]
        /\ held' = [held EXCEPT ![d][t] = @ \cup r]
  BY DEF Change
<1>4. store' \in Store BY <1>1, <1>3 DEF Store
<1>5. held' \in Store
  <2> DEFINE h == held[d][t] \cup r
  <2>1. h \in SUBSET Rows BY <1>1 DEF Store
  <2>2. held' = [held EXCEPT ![d][t] = h] BY <1>3
  <2> HIDE DEF h
  <2>3. QED BY <1>1, <2>1, <2>2 DEF Store
<1>6. TypeOK' BY <1>1, <1>2, <1>4, <1>5 DEF WInv, TypeOK
<1>7. Free' /\ Summed' /\ Limited' BY <1>1 DEF WInv, Free, Summed, Limited, Total
<1>8. QED BY <1>1, <1>6, <1>7, CachesAlone DEF WInv

\* A configured query with a condition is not cached.
LEMMA StartSkipKeeps == ASSUME WInv, StartSkip PROVE WInv'
<1>1. /\ Starting /\ n' = n + 1
      /\ UNCHANGED <<store, held, clock, config, pc, initialized, CACHE, SUB_CACHE, CACHE_size, answer>>
  BY DEF StartSkip, fixed
<1>2. n + 1 \in 1 .. (Len(config) + 1) /\ initialized \in 1 .. (n + 1)
  BY <1>1, StartAction DEF WInv
<1>3. TypeOK' BY <1>1, <1>2 DEF WInv, TypeOK
<1>4. Free' /\ Summed' /\ Limited' BY <1>1 DEF WInv, Free, Summed, Limited, Total
<1>5. QED BY <1>1, <1>3, <1>4, CachesAlone DEF WInv

\* A configured query that extends a cached one gets a sub-cache.
LEMMA StartSubKeeps == ASSUME WInv, StartSub PROVE WInv'
<1> DEFINE s == config[n].sql
<1>1. /\ Starting /\ Supersets(s) # {} /\ n' = n + 1
      /\ UNCHANGED <<store, held, clock, config, initialized, CACHE, CACHE_size, answer>>
      /\ pc' \in {pc, "corrupt"}
      /\ SUB_CACHE' = SUB_CACHE \/ SUB_CACHE' = SubCached(s)
  BY DEF StartSub, fixed
<1>2. /\ s \in Sqls /\ n + 1 \in 1 .. (Len(config) + 1) /\ initialized \in 1 .. (n + 1)
  BY <1>1, StartAction DEF WInv
<1>3. TypeOK /\ FirstSource(CACHE, SUB_CACHE) /\ SUB_CACHE \in Seq(SubEntries) BY DEF WInv, TypeOK
<1>4. SubCached(s) \in Seq(SubEntries) /\ FirstSource(CACHE, SubCached(s))
  BY <1>1, <1>2, <1>3, SubCachedKeeps
<1> HIDE DEF s
<1>5. SUB_CACHE' \in Seq(SubEntries) /\ FirstSource(CACHE, SUB_CACHE') BY <1>1, <1>3, <1>4
<1>6. TypeOK' BY <1>1, <1>2, <1>5 DEF WInv, TypeOK
<1>7. Free' /\ Summed' /\ Limited' BY <1>1 DEF WInv, Free, Summed, Limited, Total, Starting
<1>8. Earliest(CACHE)' /\ FirstSource(CACHE, SUB_CACHE)'
  BY <1>1, <1>5 DEF WInv, Earliest, FirstSource
<1>9. QED BY <1>6, <1>7, <1>8 DEF WInv

\* A configured query is cached, within the limit.
LEMMA StartCachedKeeps == ASSUME WInv, StartCached, StartFits' PROVE WInv'
<1> DEFINE d == config[n].db
           s == config[n].sql
           a == [CACHE EXCEPT ![initialized] = Entry(d, s)]
           z == Size(Entry(d, s))
<1>1. /\ Starting /\ Supersets(s) = {} /\ n' = n + 1
      /\ UNCHANGED <<store, held, clock, config, pc, SUB_CACHE, answer>>
      /\ CACHE' = a /\ CACHE_size' = CACHE_size + z
      /\ initialized' = IF CACHE_size' > CACHE_MAX_size THEN initialized ELSE initialized + 1
  BY DEF StartCached, fixed
<1>2. /\ d \in Dbs /\ s \in Sqls /\ Len(config) \in Nat /\ n + 1 \in 1 .. (Len(config) + 1)
      /\ initialized \in 1 .. Len(config) /\ initialized + 1 \in 1 .. (n + 1)
  BY <1>1, StartAction DEF WInv
<1>3. pc = "init" /\ Len(CACHE) = Len(config) BY <1>1 DEF Starting, WInv, Free
<1>4. CACHE \in Seq(Entries) /\ initialized \in 1 .. Len(CACHE) /\ CACHE_size \in Nat
  BY <1>2, <1>3 DEF WInv, TypeOK
<1>5. /\ a \in Seq(Entries) /\ Earliest(a) /\ FirstSource(a, SUB_CACHE)
      /\ Total(a) = Total(CACHE) + z
  BY <1>1, <1>2, <1>3, <1>4, PlacedKeeps
<1>6. z \in Nat BY <1>2, EntryType DEF WInv
<1>7. Len(a) = Len(CACHE) /\ DOMAIN a = DOMAIN CACHE
      /\ \A k \in DOMAIN CACHE : k # initialized => a[k] = CACHE[k]
  BY <1>4
<1> HIDE DEF d, s, a, z
<1>8. initialized' = initialized + 1
  <2>1. CACHE_size' <= CACHE_MAX_size BY <1>1, <1>3 DEF StartFits
  <2>2. CACHE_size' \in Nat /\ CACHE_MAX_size \in Nat BY <1>1, <1>4, <1>6, CacheAssumption
  <2>3. QED BY <1>1, <2>1, <2>2
<1>9. TypeOK' BY <1>1, <1>2, <1>4, <1>5, <1>6, <1>8 DEF WInv, TypeOK
<1>10. Free'
  <2>1. \A k \in DOMAIN CACHE : k >= initialized => ~CACHE[k].set BY <1>3 DEF WInv, Free
  <2>2. ASSUME NEW k \in DOMAIN CACHE, k >= initialized + 1 PROVE ~a[k].set
    <3>1. k \in Nat BY <1>4
    <3>2. k # initialized /\ k >= initialized BY <1>4, <2>2, <3>1
    <3>3. QED BY <1>7, <2>1, <3>2
  <2>3. QED BY <1>1, <1>3, <1>7, <1>8, <2>2 DEF Free
<1>11. Summed' /\ Limited' BY <1>1, <1>3, <1>5 DEF WInv, Summed, Limited, Total
<1>12. Earliest(CACHE)' /\ FirstSource(CACHE, SUB_CACHE)'
  BY <1>1, <1>5 DEF Earliest, FirstSource
<1>13. QED BY <1>9, <1>10, <1>11, <1>12 DEF WInv

\* A configured query fails: its entry was and stays empty.
LEMMA StartFailsKeeps == ASSUME WInv, StartFails PROVE WInv'
<1>1. /\ Starting /\ n' = n + 1
      /\ UNCHANGED <<store, held, clock, config, pc, initialized, SUB_CACHE, CACHE_size, answer>>
      /\ CACHE' = [CACHE EXCEPT ![initialized] = Empty]
  BY DEF StartFails, fixed
<1>2. /\ n + 1 \in 1 .. (Len(config) + 1) /\ initialized \in 1 .. (n + 1)
      /\ initialized \in 1 .. Len(config)
  BY <1>1, StartAction DEF WInv
<1>3. CACHE \in Seq(Entries) /\ Len(CACHE) = Len(config) BY <1>1 DEF WInv, TypeOK, Starting, Free
<1>4. initialized \in DOMAIN CACHE /\ initialized >= initialized BY <1>2, <1>3
<1>5. ~CACHE[initialized].set /\ CACHE[initialized] \in Entries
  BY <1>1, <1>3, <1>4 DEF WInv, Starting, Free
<1>6. CACHE[initialized] = Empty BY <1>5, EntryKinds
<1>7. CACHE' = CACHE BY <1>1, <1>3, <1>4, <1>6
<1>8. TypeOK' BY <1>1, <1>2, <1>7 DEF WInv, TypeOK
<1>9. Free' /\ Summed' /\ Limited' BY <1>1, <1>7 DEF WInv, Free, Summed, Limited, Total
<1>10. QED BY <1>1, <1>7, <1>8, <1>9, CachesAlone DEF WInv

\* The start-up ends: what was cached fits.
LEMMA StartEndKeeps == ASSUME WInv, StartFits, StartEnd PROVE WInv'
<1>1. /\ pc = "init" /\ pc' = "serving"
      /\ UNCHANGED <<store, held, clock, config, n, initialized, CACHE, SUB_CACHE, CACHE_size, answer>>
  BY DEF StartEnd, fixed
<1>2. TypeOK' BY <1>1 DEF WInv, TypeOK
<1>3. Free' /\ Summed' /\ Limited' BY <1>1 DEF WInv, Free, Summed, Limited, Total, StartFits
<1>4. QED BY <1>1, <1>2, <1>3, CachesAlone DEF WInv

\* Requests that leave the caches as they are.
LEMMA ReadKeeps ==
  ASSUME WInv, UNCHANGED <<store, held, clock, config, pc, n, initialized, CACHE, SUB_CACHE, CACHE_size>>
  PROVE  WInv'
<1>1. TypeOK' BY DEF WInv, TypeOK
<1>2. Free' /\ Summed' /\ Limited' BY DEF WInv, Free, Summed, Limited, Total
<1>3. QED BY <1>1, <1>2, CachesAlone DEF WInv

\* A request for a part of cached data.
LEMMA MissSubKeeps ==
  ASSUME WInv, NEW d \in Dbs, NEW s \in Sqls, MissSub(d, s) PROVE WInv'
<1>1. /\ pc = "serving" /\ Supersets(s) # {}
      /\ UNCHANGED <<store, held, clock, config, n, initialized, CACHE, CACHE_size>>
      /\ pc' \in {pc, "corrupt"}
      /\ SUB_CACHE' = SUB_CACHE \/ SUB_CACHE' = SubCached(s)
  BY DEF MissSub, Miss, fixed
<1>2. TypeOK /\ FirstSource(CACHE, SUB_CACHE) /\ SUB_CACHE \in Seq(SubEntries) BY DEF WInv, TypeOK
<1>3. SubCached(s) \in Seq(SubEntries) /\ FirstSource(CACHE, SubCached(s))
  BY <1>1, <1>2, SubCachedKeeps
<1>4. SUB_CACHE' \in Seq(SubEntries) /\ FirstSource(CACHE, SUB_CACHE') BY <1>1, <1>2, <1>3
<1>5. TypeOK' BY <1>1, <1>4 DEF WInv, TypeOK
<1>6. Free' /\ Summed' /\ Limited' BY <1>1 DEF WInv, Free, Summed, Limited, Total
<1>7. Earliest(CACHE)' /\ FirstSource(CACHE, SUB_CACHE)'
  BY <1>1, <1>4 DEF WInv, Earliest, FirstSource
<1>8. QED BY <1>5, <1>6, <1>7 DEF WInv

\* A request for data that is cached from then on.
LEMMA MissCachedKeeps ==
  ASSUME WInv, NEW d \in Dbs, NEW s \in Sqls, MissCached(d, s) PROVE WInv'
<1> DEFINE a == Append(CACHE, Entry(d, s))
           z == Size(Entry(d, s))
<1>1. /\ pc = "serving" /\ Supersets(s) = {}
      /\ CACHE' = a /\ CACHE_size' = CACHE_size + z /\ CACHE_size + z <= CACHE_MAX_size
      /\ UNCHANGED <<store, held, clock, config, pc, n, initialized, SUB_CACHE>>
  BY DEF MissCached, Miss, fixed
<1>2. /\ a \in Seq(Entries) /\ Earliest(a) /\ FirstSource(a, SUB_CACHE)
      /\ Total(a) = Total(CACHE) + z
  BY <1>1, AddedKeeps
<1>3. z \in Nat BY EntryType DEF WInv
<1> HIDE DEF a, z
<1>4. TypeOK' BY <1>1, <1>2, <1>3 DEF WInv, TypeOK
<1>5. Free' /\ Summed' /\ Limited' BY <1>1, <1>2 DEF WInv, Free, Summed, Limited, Total
<1>6. Earliest(CACHE)' /\ FirstSource(CACHE, SUB_CACHE)'
  BY <1>1, <1>2 DEF Earliest, FirstSource
<1>7. QED BY <1>4, <1>5, <1>6 DEF WInv

\* Every step keeps the invariant ...
LEMMA WInvNext == ASSUME WInv, StartFits, StartFits', [Next]_vars PROVE WInv'
<1>1. CASE UNCHANGED vars BY <1>1, ReadKeeps DEF vars
<1>2. CASE Change BY <1>2, ChangeKeeps
<1>3. CASE Start
  BY <1>3, StartSkipKeeps, StartSubKeeps, StartCachedKeeps, StartFailsKeeps, StartEndKeeps DEF Start
<1>4. ASSUME NEW d \in Dbs, NEW s \in Sqls, Request(d, s) PROVE WInv'
  <2>1. CASE Hit(d, s) BY <2>1, ReadKeeps DEF Hit, fixed
  <2>2. CASE MissSub(d, s) BY <2>2, MissSubKeeps
  <2>3. CASE MissCached(d, s) BY <2>3, MissCachedKeeps
  <2>4. CASE MissOverLimit(d, s) BY <2>4, ReadKeeps DEF MissOverLimit, fixed
  <2>5. CASE MissFails(d, s) BY <2>5, ReadKeeps DEF MissFails, fixed
  <2>6. QED BY <1>4, <2>1, <2>2, <2>3, <2>4, <2>5 DEF Request
<1>5. QED BY <1>1, <1>2, <1>3, <1>4 DEF Next

\* ... and it holds when WDS starts.
LEMMA WInvInit == ASSUME Init PROVE WInv
<1>1. config \in Seq(Action) BY CacheAssumption DEF Init
<1>2. Len(config) \in Nat BY <1>1
<1>3. Empty \in Entries /\ ~Empty.set BY DEF Entries, Empty
<1>4. /\ CACHE \in Seq(Entries) /\ Len(CACHE) = Len(config) /\ DOMAIN CACHE = 1 .. Len(config)
      /\ \A k \in 1 .. Len(config) : CACHE[k] = Empty
  BY <1>2, <1>3 DEF Init
<1>5. \A k \in 1 .. Len(CACHE) : ~CACHE[k].set BY <1>3, <1>4
<1>6. TypeOK
  <2>1. SUB_CACHE = <<>> /\ SUB_CACHE \in Seq(SubEntries) BY DEF Init
  <2>2. store \in Store /\ held \in Store /\ clock \in 0 .. MaxClock BY CacheAssumption DEF Init
  <2>3. n \in 1 .. (Len(config) + 1) /\ initialized \in 1 .. n BY <1>2 DEF Init
  <2>4. QED BY <1>4, <2>1, <2>2, <2>3 DEF Init, TypeOK
<1>7. Free /\ Limited BY <1>3, <1>4 DEF Init, Free, Limited
<1>8. Summed BY <1>4, <1>5, TotalUnset DEF Init, Summed
<1>9. Earliest(CACHE) BY <1>4, <1>5 DEF Earliest
<1>10. FirstSource(CACHE, SUB_CACHE) BY DEF Init, FirstSource
<1>11. QED BY <1>6, <1>7, <1>8, <1>9, <1>10 DEF WInv

\* The invariant holds as long as the start-up data fits.
LEMMA WInvAlways == Spec /\ []StartFits => []WInv
<1>1. Init => WInv BY WInvInit
<1>2. WInv /\ StartFits /\ StartFits' /\ [Next]_vars => WInv' BY WInvNext
<1>3. QED BY <1>1, <1>2, PTL DEF Spec

\* The size DB_CACHE_init keeps is that of the cached data through every
\* request, also one that exceeds the limit, and stays within the limit.
THEOREM CacheWithinLimit == Spec /\ []StartFits => []WithinLimit
<1>1. WInv => WithinLimit BY DEF WInv, Summed, Limited, WithinLimit, Total
<1>2. QED BY <1>1, WInvAlways, PTL

\* The indices of every sub-cache point into the records they were made from,
\* and DB_CACHE_get applies them to that entry: the first entry which
\* _DB_CACHE_subset_search finds stays the first, because an entry is only
\* made for a query that extends no cached one.
THEOREM SubCachesAreSound == Spec /\ []StartFits => []SubCacheSound
<1>1. ASSUME WInv PROVE SubCacheSound
  <2>1. CACHE \in Seq(Entries) /\ SUB_CACHE \in Seq(SubEntries) BY <1>1 DEF WInv, TypeOK
  <2>2. Sound(CACHE, SUB_CACHE) BY <1>1, <2>1, FirstSourceSound DEF WInv
  <2>3. QED BY <2>2 DEF Sound, SubCacheSound
<1>2. QED BY <1>1, WInvAlways, PTL
-----------------------------------------------------------------------------
(***************************************************************************)
(* The data.  The cache does not tell databases apart, and takes a query   *)
(* whose text contains that of another for a part of its result.  What is  *)
(* right is said of an entry and of the query it is to answer.             *)
(***************************************************************************)

\* The rows that may be answered for query s from an entry of query c of
\* database d.
RightRows ==
  [d \in Dbs |-> [c \in Sqls |-> [s \in Sqls |->
     {r \in SUBSET Rows :
        /\ ~Local(s) \/ Narrows(c, s) => r \subseteq held[d][s.table] \cap s.where
        /\ clock = 0 /\ ~Local(s) => r \subseteq Exec(d, s)
        /\ clock = 0 /\ Narrows(c, s) => r = Exec(d, s)}]]]

AllHeld == \A d \in Dbs : \A t \in Tables : store[d][t] \subseteq held[d][t]

\* The rows r are right for query s of entry e.
RightOf(e, s, r) == r \in RightRows[e.db][e.sql][s]

EntriesRight(c) == \A k \in DOMAIN c : c[k].set => RightOf(c[k], c[k].sql, c[k].rows)

SubsRight(c, u) == \A k \in DOMAIN u : RightOf(c[u[k].src], u[k].sql, u[k].rows)

Answering ==
  answer.given =>
    /\ answer.sql \in Sqls /\ answer.entry \in Entries /\ answer.entry.set
    /\ RightOf(answer.entry, answer.sql, answer.rows)

DInv == AllHeld /\ EntriesRight(CACHE) /\ SubsRight(CACHE, SUB_CACHE) /\ Answering

\* The parts of a query.
LEMMA QueryType ==
  ASSUME NEW s \in Sqls
  PROVE  s.table \in Tables /\ s.where \in SUBSET Rows /\ s.limit \in Int
<1>1. s \in Query BY CacheAssumption
<1>2. QED BY <1>1 DEF Query

\* What a database returns is right.
LEMMA ExecRight ==
  ASSUME TypeOK, AllHeld, NEW d \in Dbs, NEW s \in Sqls
  PROVE  Exec(d, s) \in RightRows[d][s][s]
<1>1. Exec(d, s) \in SUBSET Rows /\ Exec(d, s) \subseteq store[d][s.table] \cap s.where
  BY ExecRows
<1>2. store[d][s.table] \subseteq held[d][s.table] BY QueryType DEF AllHeld
<1>3. QED BY <1>1, <1>2 DEF RightRows

\* Of an entry that has right rows a sub-cache has right rows, whatever it is
\* that made the text of its query contain that of the entry.
LEMMA SubRowsRight ==
  ASSUME TypeOK, AllHeld, NEW e \in Entries, e.set, NEW s \in Sqls, RightOf(e, e.sql, e.rows)
  PROVE  RightOf(e, s, SubRows(e, s))
<1> DEFINE c == e.sql
           d == e.db
           x == SubRows(e, s)
           all == store[d][s.table]
<1>1. d \in Dbs /\ c \in Sqls BY EntryKinds
<1>2. /\ e.rows \in SUBSET Rows /\ e.rows \subseteq held[d][c.table] \cap c.where
      /\ clock = 0 => e.rows = Exec(d, c)
  BY <1>1 DEF RightOf, RightRows, Narrows
<1>3. x \subseteq e.rows /\ x \in SUBSET Rows BY SubRowsIn
<1>4. x = IF Local(s) THEN First(s.limit, e.rows, c.desc) ELSE Exec(d, s) \cap e.rows
  BY DEF SubRows
<1>5. /\ s.where \in SUBSET Rows /\ s.limit \in Int /\ s.table \in Tables
      /\ c.where \in SUBSET Rows /\ c.limit \in Int
  BY <1>1, QueryType
<1>6. Exec(d, s) \in SUBSET Rows /\ Exec(d, s) \subseteq all \cap s.where BY <1>1, ExecRows
<1>7. Exec(d, s) = IF s.limit >= 0 THEN First(s.limit, all \cap s.where, s.desc) ELSE all \cap s.where
  BY DEF Exec
<1>8. c.table = s.table =>
        Exec(d, c) = IF c.limit >= 0 THEN First(c.limit, all \cap c.where, c.desc) ELSE all \cap c.where
  BY DEF Exec
<1>9. all \subseteq held[d][s.table] BY <1>1, <1>5 DEF AllHeld
<1> HIDE DEF x, c, d, all
<1>10. ~Local(s) => x \subseteq Exec(d, s) BY <1>4
<1>11. ASSUME ~Local(s) \/ Narrows(c, s) PROVE x \subseteq held[d][s.table] \cap s.where
  <2>1. CASE ~Local(s) BY <1>6, <1>9, <1>10, <2>1
  <2>2. CASE Local(s) /\ Narrows(c, s)
    <3>1. c.table = s.table /\ s.where = Rows BY <2>2 DEF Local, Narrows
    <3>2. QED BY <1>2, <1>3, <3>1
  <2>3. QED BY <1>11, <2>1, <2>2
<1>12. ASSUME clock = 0, Narrows(c, s) PROVE x = Exec(d, s)
  <2>1. e.rows = Exec(d, c) BY <1>2, <1>12
  <2>2. CASE Local(s)
    <3>1. x = First(s.limit, e.rows, c.desc) /\ s.limit >= 0 /\ s.where = Rows
      BY <1>4, <2>2 DEF Local
    <3>2. Exec(d, s) = First(s.limit, all \cap s.where, s.desc) BY <1>7, <3>1
    <3>3. CASE c = s
      <4>1. all \cap s.where \in SUBSET Rows BY <1>5
      <4>2. First(s.limit, First(s.limit, all \cap s.where, s.desc), s.desc)
              = First(s.limit, all \cap s.where, s.desc)
        BY <1>5, <4>1, FirstRows
      <4>3. QED BY <2>1, <3>1, <3>2, <3>3, <4>2
    <3>4. CASE c.table = s.table /\ s.where \subseteq c.where /\ c.limit < 0 /\ s.desc = c.desc
      <4>1. Exec(d, c) = all \cap c.where BY <1>5, <1>8, <3>4
      <4>2. all \cap c.where = all \cap s.where BY <1>5, <3>1, <3>4
      <4>3. QED BY <2>1, <3>1, <3>2, <3>4, <4>1, <4>2
    <3>5. QED BY <1>12, <2>2, <3>3, <3>4 DEF Narrows
  <2>3. CASE ~Local(s)
    <3>1. x = Exec(d, s) \cap e.rows BY <1>4, <2>3
    <3>2. Exec(d, s) \subseteq e.rows
      <4>1. CASE c = s BY <2>1, <4>1
      <4>2. CASE c.table = s.table /\ s.where \subseteq c.where /\ c.limit < 0
        <5>1. Exec(d, c) = all \cap c.where BY <1>5, <1>8, <4>2
        <5>2. QED BY <1>6, <2>1, <4>2, <5>1
      <4>3. QED BY <1>12, <4>1, <4>2 DEF Narrows
    <3>3. QED BY <3>1, <3>2
  <2>4. QED BY <2>2, <2>3
<1>13. x \in RightRows[d][c][s] BY <1>1, <1>3, <1>10, <1>11, <1>12 DEF RightRows
<1>14. QED BY <1>13 DEF RightOf, x, c, d

\* What a request reads from caches that have right rows is right.
LEMMA RecordsRight ==
  ASSUME NEW c \in Seq(Entries), NEW u \in Seq(SubEntries), Sound(c, u),
         EntriesRight(c), SubsRight(c, u), NEW s \in Sqls,
         \/ \E i \in DOMAIN c : c[i].set /\ c[i].sql = s
         \/ \E i \in DOMAIN u : u[i].sql = s,
         NEW r \in Records(c, u, s)
  PROVE  /\ EntryOf(c, u, s) \in Entries /\ EntryOf(c, u, s).set
         /\ RightOf(EntryOf(c, u, s), s, r)
<1> DEFINE subs == {i \in DOMAIN u : u[i].sql = s}
           full == {i \in DOMAIN c : c[i].set /\ c[i].sql = s}
           sub == u[Min(subs)]
           e == EntryOf(c, u, s)
<1>0. e = IF full # {} THEN c[Min(full)] ELSE c[sub.src] BY DEF EntryOf
<1>1. r \in (IF subs = {} THEN {e.rows}
             ELSE IF e.set /\ e.rows = sub.base THEN {sub.rows}
             ELSE SUBSET (IF e.set THEN e.rows ELSE {}))
  BY DEF Records
<1>2. subs \in SUBSET Nat /\ full \in SUBSET Nat OBVIOUS
<1>3. full # {} => Min(full) \in full
  <2> HIDE DEF full
  <2>1. QED BY <1>2, MinIn
<1>4. subs # {} => Min(subs) \in subs
  <2> HIDE DEF subs
  <2>1. QED BY <1>2, MinIn
<1> HIDE DEF e
<1>5. CASE subs = {}
  <2>1. full # {} BY <1>5
  <2>2. e = c[Min(full)] /\ Min(full) \in DOMAIN c /\ e.set /\ e.sql = s BY <1>0, <1>3, <2>1
  <2>3. r = e.rows BY <1>1, <1>5
  <2> HIDE DEF full, subs
  <2>4. e \in Entries BY <2>2
  <2>5. RightOf(e, s, r) BY <2>2, <2>3 DEF EntriesRight
  <2>6. QED BY <2>2, <2>4, <2>5 DEF e
<1>6. CASE subs # {}
  <2> DEFINE j == Min(subs)
  <2>1. j \in DOMAIN u /\ u[j].sql = s BY <1>4, <1>6
  <2>2. /\ u[j].src \in DOMAIN c /\ c[u[j].src].set /\ c[u[j].src].rows = u[j].base
        /\ \A h \in DOMAIN c : c[h].set /\ c[h].sql = u[j].sql => c[h] = c[u[j].src]
    <3> HIDE DEF j
    <3>1. QED BY <2>1 DEF Sound
  <2>3. e = c[u[j].src]
    <3>1. CASE full = {} BY <1>0, <3>1
    <3>2. CASE full # {}
      <4>1. e = c[Min(full)] /\ Min(full) \in DOMAIN c /\ c[Min(full)].set /\ c[Min(full)].sql = s
        BY <1>0, <1>3, <3>2
      <4> HIDE DEF full, j
      <4>2. QED BY <2>1, <2>2, <4>1
    <3>3. QED BY <3>1, <3>2
  <2>4. r = u[j].rows
    <3>1. e.set /\ e.rows = sub.base BY <2>2, <2>3
    <3>2. QED BY <1>1, <1>6, <3>1
  <2> HIDE DEF j
  <2>5. e \in Entries /\ e.set BY <2>2, <2>3
  <2>6. RightOf(e, s, r) BY <2>1, <2>3, <2>4 DEF SubsRight
  <2>7. QED BY <2>5, <2>6 DEF e
<1>7. QED BY <1>5, <1>6

\* As long as the databases stay as they are, so does what is right ...
LEMMA SameRows ==
  ASSUME UNCHANGED <<store, held, clock>>
  PROVE  RightRows' = RightRows /\ (AllHeld => AllHeld')
  BY DEF RightRows, Exec, AllHeld

\* ... and when they change nothing that was right becomes wrong.
LEMMA ChangeRight == ASSUME WInv, DInv, Change PROVE DInv'
<1>1. PICK d \in Dbs, t \in Tables, r \in SUBSET Rows :
        /\ store' = [store EXCEPT ![d][t] = r]
        /\ held' = [held EXCEPT ![d][t] = @ \cup r]
  BY DEF Change
<1>2. store \in Store /\ held \in Store /\ clock \in Nat BY DEF WInv, TypeOK
<1>3. clock' # 0 /\ UNCHANGED <<CACHE, SUB_CACHE, answer>> BY <1>2 DEF Change
<1>4. \A e \in Dbs : \A q \in Tables :
        /\ store'[e][q] = IF e = d /\ q = t THEN r ELSE store[e][q]
        /\ held'[e][q] = IF e = d /\ q = t THEN held[e][q] \cup r ELSE held[e][q]
  BY <1>1, <1>2 DEF Store
<1>5. AllHeld' BY <1>4 DEF DInv, AllHeld
<1>6. \A e \in Dbs : \A c, s \in Sqls : RightRows[e][c][s] \subseteq RightRows'[e][c][s]
  <2> SUFFICES ASSUME NEW e \in Dbs, NEW c \in Sqls, NEW s \in Sqls, NEW x \in RightRows[e][c][s]
               PROVE  x \in RightRows'[e][c][s]
    OBVIOUS
  <2>1. /\ x \in SUBSET Rows
        /\ ~Local(s) \/ Narrows(c, s) => x \subseteq held[e][s.table] \cap s.where
    BY DEF RightRows
  <2>2. held[e][s.table] \subseteq held'[e][s.table] BY <1>4, QueryType
  <2>3. ~Local(s) \/ Narrows(c, s) => x \subseteq held'[e][s.table] \cap s.where BY <2>1, <2>2
  <2>4. RightRows'[e][c][s] =
          {y \in SUBSET Rows :
             /\ ~Local(s) \/ Narrows(c, s) => y \subseteq held'[e][s.table] \cap s.where
             /\ clock' = 0 /\ ~Local(s) => y \subseteq Exec(e, s)'
             /\ clock' = 0 /\ Narrows(c, s) => y = Exec(e, s)'}
    BY DEF RightRows
  <2>5. QED BY <1>3, <2>1, <2>3, <2>4
<1>7. ASSUME NEW e \in Entries, e.set, NEW s \in Sqls, NEW x, RightOf(e, s, x)
      PROVE  x \in RightRows'[e.db][e.sql][s]
  <2>1. e.db \in Dbs /\ e.sql \in Sqls BY <1>7, EntryKinds
  <2>2. QED BY <1>6, <1>7, <2>1 DEF RightOf
<1>8. CACHE \in Seq(Entries) /\ SUB_CACHE \in Seq(SubEntries) BY DEF WInv, TypeOK
<1>9. EntriesRight(CACHE)'
  <2>1. ASSUME NEW k \in DOMAIN CACHE, CACHE[k].set
        PROVE  CACHE[k].rows \in RightRows'[CACHE[k].db][CACHE[k].sql][CACHE[k].sql]
    <3>1. CACHE[k] \in Entries /\ CACHE[k].sql \in Sqls BY <1>8, <2>1, EntryKinds
    <3>2. RightOf(CACHE[k], CACHE[k].sql, CACHE[k].rows) BY <2>1 DEF DInv, EntriesRight
    <3>3. QED BY <1>7, <2>1, <3>1, <3>2
  <2>2. QED BY <1>3, <2>1 DEF EntriesRight, RightOf
<1>10. SubsRight(CACHE, SUB_CACHE)'
  <2>1. ASSUME NEW k \in DOMAIN SUB_CACHE
        PROVE  SUB_CACHE[k].rows
                 \in RightRows'[CACHE[SUB_CACHE[k].src].db][CACHE[SUB_CACHE[k].src].sql][SUB_CACHE[k].sql]
    <3> DEFINE e == CACHE[SUB_CACHE[k].src]
    <3>1. SUB_CACHE[k].src \in DOMAIN CACHE /\ e.set BY DEF WInv, FirstSource
    <3>2. e \in Entries BY <1>8, <3>1
    <3>3. SUB_CACHE[k].sql \in Sqls
      <4>1. SUB_CACHE[k] \in SubEntries BY <1>8
      <4>2. QED BY <4>1 DEF SubEntries
    <3>4. RightOf(e, SUB_CACHE[k].sql, SUB_CACHE[k].rows) BY DEF DInv, SubsRight
    <3> HIDE DEF e
    <3>5. SUB_CACHE[k].rows \in RightRows'[e.db][e.sql][SUB_CACHE[k].sql]
      BY <1>7, <3>1, <3>2, <3>3, <3>4
    <3>6. QED BY <3>5 DEF e
  <2>2. QED BY <1>3, <2>1 DEF SubsRight, RightOf
<1>11. Answering'
  <2>1. ASSUME answer.given
        PROVE  answer.rows \in RightRows'[answer.entry.db][answer.entry.sql][answer.sql]
    BY <1>7, <2>1 DEF DInv, Answering
  <2>2. QED BY <1>3, <2>1 DEF DInv, Answering, RightOf
<1>12. QED BY <1>5, <1>9, <1>10, <1>11 DEF DInv

\* An answer from an entry, with right rows.
Given(a) == /\ a.sql \in Sqls /\ a.entry \in Entries /\ a.entry.set
            /\ RightOf(a.entry, a.sql, a.rows)

\* The step of a request or of the start-up when the databases stay: what it
\* leaves in the caches and answers has to be right.
LEMMA StepRight ==
  ASSUME DInv, UNCHANGED <<store, held, clock>>, EntriesRight(CACHE'), SubsRight(CACHE', SUB_CACHE'),
         UNCHANGED answer \/ answer' = NoAnswer \/ Given(answer')
  PROVE  DInv'
<1>1. RightRows' = RightRows /\ AllHeld' BY SameRows DEF DInv
<1>2. EntriesRight(CACHE)' BY <1>1 DEF EntriesRight, RightOf
<1>3. SubsRight(CACHE, SUB_CACHE)' BY <1>1 DEF SubsRight, RightOf
<1>4. Answering'
  <2>1. CASE UNCHANGED answer BY <1>1, <2>1 DEF DInv, Answering, RightOf
  <2>2. CASE answer' = NoAnswer BY <2>2 DEF Answering, NoAnswer
  <2>3. CASE Given(answer') BY <1>1, <2>3 DEF Answering, Given, RightOf
  <2>4. QED BY <2>1, <2>2, <2>3
<1>5. QED BY <1>1, <1>2, <1>3, <1>4 DEF DInv

\* An entry made from its database.
LEMMA EntryRight ==
  ASSUME TypeOK, AllHeld, NEW d \in Dbs, NEW s \in Sqls
  PROVE  RightOf(Entry(d, s), Entry(d, s).sql, Entry(d, s).rows)
  BY EntryType, ExecRight DEF RightOf

\* A cache with right rows and one more entry: at its end ...
LEMMA AppendRight ==
  ASSUME TypeOK, AllHeld, EntriesRight(CACHE), SubsRight(CACHE, SUB_CACHE),
         FirstSource(CACHE, SUB_CACHE), NEW d \in Dbs, NEW s \in Sqls
  PROVE  LET a == Append(CACHE, Entry(d, s)) IN EntriesRight(a) /\ SubsRight(a, SUB_CACHE)
<1> DEFINE x == Entry(d, s)
           a == Append(CACHE, x)
           l == Len(CACHE)
<1>1. CACHE \in Seq(Entries) /\ x \in Entries BY EntryType DEF TypeOK
<1>2. RightOf(x, x.sql, x.rows) BY EntryRight
<1> HIDE DEF x
<1>3. /\ l \in Nat /\ DOMAIN a = 1 .. (l + 1) /\ DOMAIN CACHE = 1 .. l /\ a[l + 1] = x
      /\ \A k \in 1 .. l : a[k] = CACHE[k]
  BY <1>1
<1> HIDE DEF a, l
<1>4. ASSUME NEW k \in DOMAIN a, a[k].set PROVE RightOf(a[k], a[k].sql, a[k].rows)
  <2>1. CASE k = l + 1 BY <1>2, <1>3, <2>1
  <2>2. CASE k \in 1 .. l BY <1>3, <1>4, <2>2 DEF EntriesRight
  <2>3. QED BY <1>3, <2>1, <2>2
<1>5. EntriesRight(a) BY <1>4 DEF EntriesRight
<1>6. \A k \in DOMAIN SUB_CACHE : a[SUB_CACHE[k].src] = CACHE[SUB_CACHE[k].src]
  BY <1>3 DEF FirstSource
<1>7. SubsRight(a, SUB_CACHE) BY <1>6 DEF SubsRight
<1>8. QED BY <1>5, <1>7 DEF a, x

\* ... or in place of one that is not set.
LEMMA ExceptRight ==
  ASSUME TypeOK, EntriesRight(CACHE), SubsRight(CACHE, SUB_CACHE), FirstSource(CACHE, SUB_CACHE),
         NEW j, j \in DOMAIN CACHE => ~CACHE[j].set,
         NEW x, x.set => RightOf(x, x.sql, x.rows)
  PROVE  LET a == [CACHE EXCEPT ![j] = x] IN EntriesRight(a) /\ SubsRight(a, SUB_CACHE)
<1> DEFINE a == [CACHE EXCEPT ![j] = x]
<1>1. CACHE \in Seq(Entries) BY DEF TypeOK
<1>2. DOMAIN a = DOMAIN CACHE /\ \A k \in DOMAIN CACHE : a[k] = IF k = j THEN x ELSE CACHE[k]
  BY <1>1
<1> HIDE DEF a
<1>3. EntriesRight(a) BY <1>2 DEF EntriesRight
<1>4. \A k \in DOMAIN SUB_CACHE : a[SUB_CACHE[k].src] = CACHE[SUB_CACHE[k].src]
  BY <1>2 DEF FirstSource
<1>5. SubsRight(a, SUB_CACHE) BY <1>4 DEF SubsRight
<1>6. QED BY <1>3, <1>5 DEF a

\* Sub-caches with right rows and one more.
LEMMA SubCachedRight ==
  ASSUME TypeOK, AllHeld, EntriesRight(CACHE), SubsRight(CACHE, SUB_CACHE),
         NEW s \in Sqls, Supersets(s) # {}
  PROVE  SubsRight(CACHE, SubCached(s))
<1> DEFINE i == Min(Supersets(s))
           x == SubEntry(i, s)
           a == Append(SUB_CACHE, x)
           l == Len(SUB_CACHE)
<1>1. SUB_CACHE \in Seq(SubEntries) BY DEF TypeOK
<1>2. i \in DOMAIN CACHE /\ CACHE[i] \in Entries /\ CACHE[i].set /\ x \in SubEntries
  BY SupersetFound
<1>3. x.src = i /\ x.sql = s /\ x.rows = SubRows(CACHE[i], s) BY DEF SubEntry
<1>4. SubCached(s) = SUB_CACHE \/ SubCached(s) = a BY DEF SubCached
<1> HIDE DEF i, x
<1>5. RightOf(CACHE[i], CACHE[i].sql, CACHE[i].rows) BY <1>2 DEF EntriesRight
<1>6. RightOf(CACHE[x.src], x.sql, x.rows) BY <1>2, <1>3, <1>5, SubRowsRight
<1>7. /\ l \in Nat /\ a[l + 1] = x /\ DOMAIN a = 1 .. (l + 1) /\ DOMAIN SUB_CACHE = 1 .. l
      /\ \A j \in 1 .. l : a[j] = SUB_CACHE[j]
  BY <1>1, <1>2
<1> HIDE DEF a, l
<1>8. ASSUME NEW k \in DOMAIN a PROVE RightOf(CACHE[a[k].src], a[k].sql, a[k].rows)
  <2>1. CASE k = l + 1 BY <1>6, <1>7, <2>1
  <2>2. CASE k \in 1 .. l BY <1>7, <2>2 DEF SubsRight
  <2>3. QED BY <1>7, <2>1, <2>2
<1>9. SubsRight(CACHE, a) BY <1>8 DEF SubsRight
<1>10. QED BY <1>4, <1>9

\* The start-up caches right rows.
LEMMA StartRight == ASSUME WInv, DInv, Start PROVE DInv'
<1>1. UNCHANGED <<store, held, clock, answer>>
  BY DEF Start, StartSkip, StartSub, StartCached, StartFails, StartEnd, fixed
<1>2. /\ TypeOK /\ AllHeld /\ EntriesRight(CACHE) /\ SubsRight(CACHE, SUB_CACHE)
      /\ FirstSource(CACHE, SUB_CACHE) /\ Free
  BY DEF WInv, DInv
<1>3. Starting => (initialized \in DOMAIN CACHE => ~CACHE[initialized].set)
  <2>1. initialized \in Nat BY <1>2, CacheAssumption DEF TypeOK
  <2>2. QED BY <1>2, <2>1 DEF Free, Starting
<1>4. CASE StartSkip \/ StartEnd
  <2>1. UNCHANGED <<CACHE, SUB_CACHE>> BY <1>4 DEF StartSkip, StartEnd
  <2>2. QED BY <1>1, <1>2, <2>1, StepRight
<1>5. CASE StartSub
  <2>1. /\ Starting /\ Supersets(config[n].sql) # {} /\ CACHE' = CACHE
        /\ SUB_CACHE' = SUB_CACHE \/ SUB_CACHE' = SubCached(config[n].sql)
    BY <1>5 DEF StartSub
  <2>2. config[n].sql \in Sqls BY <1>2, <2>1, StartAction
  <2>3. SubsRight(CACHE, SubCached(config[n].sql)) BY <1>2, <2>1, <2>2, SubCachedRight
  <2>4. QED BY <1>1, <1>2, <2>1, <2>3, StepRight
<1>6. CASE StartCached
  <2> DEFINE x == Entry(config[n].db, config[n].sql)
             a == [CACHE EXCEPT ![initialized] = x]
  <2>1. Starting /\ CACHE' = a /\ SUB_CACHE' = SUB_CACHE BY <1>6 DEF StartCached
  <2>2. config[n].db \in Dbs /\ config[n].sql \in Sqls BY <1>2, <2>1, StartAction
  <2>3. RightOf(x, x.sql, x.rows) BY <1>2, <2>2, EntryRight
  <2> HIDE DEF x
  <2>4. EntriesRight(a) /\ SubsRight(a, SUB_CACHE) BY <1>2, <1>3, <2>1, <2>3, ExceptRight
  <2> HIDE DEF a
  <2>5. QED BY <1>1, <1>2, <2>1, <2>4, StepRight
<1>7. CASE StartFails
  <2> DEFINE a == [CACHE EXCEPT ![initialized] = Empty]
  <2>1. Starting /\ CACHE' = a /\ SUB_CACHE' = SUB_CACHE BY <1>7 DEF StartFails
  <2>2. ~Empty.set BY DEF Empty
  <2>3. EntriesRight(a) /\ SubsRight(a, SUB_CACHE) BY <1>2, <1>3, <2>1, <2>2, ExceptRight
  <2> HIDE DEF a
  <2>4. QED BY <1>1, <1>2, <2>1, <2>3, StepRight
<1>8. QED BY <1>4, <1>5, <1>6, <1>7 DEF Start

\* An answer from caches with right rows, in which the query is found.
LEMMA AnsweredRight ==
  ASSUME NEW c \in Seq(Entries), NEW u \in Seq(SubEntries), Earliest(c), FirstSource(c, u),
         EntriesRight(c), SubsRight(c, u), NEW d \in Dbs, NEW s \in Sqls,
         \/ \E i \in DOMAIN c : c[i].set /\ c[i].sql = s
         \/ \E i \in DOMAIN u : u[i].sql = s,
         Answered(d, s, c, u)
  PROVE  Given(answer')
<1>1. Sound(c, u) BY FirstSourceSound
<1>2. PICK r \in Records(c, u, s) :
        answer' = [given |-> TRUE, db |-> d, sql |-> s, rows |-> r, entry |-> EntryOf(c, u, s)]
  BY DEF Answered
<1>3. /\ EntryOf(c, u, s) \in Entries /\ EntryOf(c, u, s).set
      /\ RightOf(EntryOf(c, u, s), s, r)
  BY <1>1, RecordsRight
<1>4. answer'.sql = s /\ answer'.rows = r /\ answer'.entry = EntryOf(c, u, s) BY <1>2
<1>5. QED BY <1>3, <1>4 DEF Given

\* A request is answered, and leaves the caches, with right rows.
LEMMA RequestRight ==
  ASSUME WInv, DInv, NEW d \in Dbs, NEW s \in Sqls, Request(d, s)
  PROVE  DInv'
<1> DEFINE a == Append(CACHE, Entry(d, s))
<1>1. UNCHANGED <<store, held, clock>>
  BY DEF Request, Hit, MissSub, MissCached, MissOverLimit, MissFails, fixed
<1>2. /\ TypeOK /\ AllHeld /\ EntriesRight(CACHE) /\ SubsRight(CACHE, SUB_CACHE)
      /\ CACHE \in Seq(Entries) /\ SUB_CACHE \in Seq(SubEntries)
      /\ Earliest(CACHE) /\ FirstSource(CACHE, SUB_CACHE)
  BY DEF WInv, DInv, TypeOK
<1>3. CASE Hit(d, s)
  <2>1. /\ CachedFor(s) \cup SubCachedFor(s) # {} /\ Answered(d, s, CACHE, SUB_CACHE)
        /\ UNCHANGED <<CACHE, SUB_CACHE>>
    BY <1>3 DEF Hit
  <2>2. \/ \E i \in DOMAIN CACHE : CACHE[i].set /\ CACHE[i].sql = s
        \/ \E i \in DOMAIN SUB_CACHE : SUB_CACHE[i].sql = s
    BY <2>1 DEF CachedFor, SubCachedFor
  <2>3. Given(answer') BY <1>2, <2>1, <2>2, AnsweredRight
  <2>4. QED BY <1>1, <1>2, <2>1, <2>3, StepRight
<1>4. CASE MissSub(d, s)
  <2>1. /\ Supersets(s) # {} /\ SubCachedFor(s) = {} /\ CACHE' = CACHE
        /\ \/ UNCHANGED <<SUB_CACHE, answer>>
           \/ SUB_CACHE' = SubCached(s) /\ Answered(d, s, CACHE, SUB_CACHE')
    BY <1>4 DEF MissSub, Miss
  <2>2. SubsRight(CACHE, SubCached(s)) BY <1>2, <2>1, SubCachedRight
  <2>3. CASE UNCHANGED <<SUB_CACHE, answer>> BY <1>1, <1>2, <2>1, <2>3, StepRight
  <2>4. CASE SUB_CACHE' = SubCached(s) /\ Answered(d, s, CACHE, SUB_CACHE')
    <3> DEFINE x == SubEntry(Min(Supersets(s)), s)
               l == Len(SUB_CACHE)
    <3>1. SUB_CACHE' = Append(SUB_CACHE, x) /\ x.sql = s
      BY <2>1, <2>4 DEF SubCached, SubEntry
    <3>2. x \in SubEntries BY <1>2, <2>1, SupersetFound
    <3> HIDE DEF x
    <3>3. l + 1 \in DOMAIN SUB_CACHE' /\ SUB_CACHE'[l + 1] = x BY <1>2, <3>1, <3>2
    <3>4. \E i \in DOMAIN SUB_CACHE' : SUB_CACHE'[i].sql = s BY <3>1, <3>3
    <3>5. SubCached(s) \in Seq(SubEntries) /\ FirstSource(CACHE, SubCached(s))
      BY <1>2, <2>1, SubCachedKeeps
    <3>6. Given(answer') BY <1>2, <2>2, <2>4, <3>4, <3>5, AnsweredRight
    <3>7. QED BY <1>1, <1>2, <2>1, <2>2, <2>4, <3>6, StepRight
  <2>5. QED BY <2>1, <2>3, <2>4
<1>5. ASSUME Supersets(s) = {}, Answered(d, s, a, SUB_CACHE)
      PROVE  EntriesRight(a) /\ SubsRight(a, SUB_CACHE) /\ Given(answer')
  <2>1. a \in Seq(Entries) /\ Earliest(a) /\ FirstSource(a, SUB_CACHE) BY <1>5, AddedKeeps
  <2>2. EntriesRight(a) /\ SubsRight(a, SUB_CACHE) BY <1>2, AppendRight
  <2>3. Entry(d, s) \in Entries /\ Entry(d, s).set /\ Entry(d, s).sql = s BY <1>2, EntryType
  <2>4. Len(CACHE) + 1 \in DOMAIN a /\ a[Len(CACHE) + 1] = Entry(d, s) BY <1>2, <2>3
  <2> HIDE DEF a
  <2>5. \E i \in DOMAIN a : a[i].set /\ a[i].sql = s BY <2>3, <2>4
  <2>6. QED BY <1>2, <1>5, <2>1, <2>2, <2>5, AnsweredRight
<1>6. CASE MissCached(d, s)
  <2>1. Supersets(s) = {} /\ CACHE' = a /\ SUB_CACHE' = SUB_CACHE /\ Answered(d, s, CACHE', SUB_CACHE)
    BY <1>6 DEF MissCached
  <2> HIDE DEF a
  <2>2. QED BY <1>1, <1>2, <1>5, <2>1, StepRight
<1>7. CASE MissOverLimit(d, s)
  <2>1. Supersets(s) = {} /\ UNCHANGED <<CACHE, SUB_CACHE>> /\ Answered(d, s, a, SUB_CACHE)
    BY <1>7 DEF MissOverLimit
  <2> HIDE DEF a
  <2>2. QED BY <1>1, <1>2, <1>5, <2>1, StepRight
<1>8. CASE MissFails(d, s)
  <2>1. answer' = NoAnswer /\ UNCHANGED <<CACHE, SUB_CACHE>> BY <1>8 DEF MissFails
  <2>2. QED BY <1>1, <1>2, <2>1, StepRight
<1>9. QED BY <1>3, <1>4, <1>6, <1>7, <1>8 DEF Request

\* Every step keeps the data right ...
LEMMA DInvNext == ASSUME WInv, DInv, [Next]_vars PROVE DInv'
<1>1. CASE UNCHANGED vars
  <2>1. UNCHANGED <<store, held, clock, CACHE, SUB_CACHE, answer>> BY <1>1 DEF vars
  <2>2. QED BY <2>1, StepRight DEF DInv
<1>2. CASE Change BY <1>2, ChangeRight
<1>3. CASE Start BY <1>3, StartRight
<1>4. ASSUME NEW d \in Dbs, NEW s \in Sqls, Request(d, s) PROVE DInv'
  BY <1>4, RequestRight
<1>5. QED BY <1>1, <1>2, <1>3, <1>4 DEF Next

\* ... as it is at first.
LEMMA DInvInit == ASSUME Init PROVE DInv
<1>1. \A k \in DOMAIN CACHE : CACHE[k] = Empty BY DEF Init
<1>2. EntriesRight(CACHE) BY <1>1 DEF EntriesRight, Empty
<1>3. QED BY <1>2 DEF Init, DInv, AllHeld, SubsRight, Answering, NoAnswer

\* Every answer is right for the entry it comes from, whatever databases there
\* are, whatever was cached before and however texts of queries contain each
\* other: it has no row that the entry's database does not return for the
\* query of the request, unless LIMIT was applied to the entry, and is all
\* of them if that query narrows the entry's.  What is left to go wrong is
\* that the entry is another database's or its text contained by accident.
THEOREM AnswersAreRight == Spec /\ []StartFits => []AnswerRight
<1>1. Init => DInv BY DInvInit
<1>2. WInv /\ DInv /\ [Next]_vars => DInv' BY DInvNext
<1>3. DInv => AnswerRight
  <2> SUFFICES ASSUME DInv, answer.given
               PROVE  LET e == answer.entry
                          s == answer.sql
                      IN /\ e.set
                         /\ ~Local(s) \/ Narrows(e.sql, s) => answer.rows \subseteq held[e.db][s.table] \cap s.where
                         /\ clock = 0 /\ ~Local(s) => answer.rows \subseteq Exec(e.db, s)
                         /\ clock = 0 /\ Narrows(e.sql, s) => answer.rows = Exec(e.db, s)
    BY DEF AnswerRight
  <2>1. /\ answer.sql \in Sqls /\ answer.entry \in Entries /\ answer.entry.set
        /\ answer.rows \in RightRows[answer.entry.db][answer.entry.sql][answer.sql]
    BY DEF DInv, Answering, RightOf
  <2>2. answer.entry.db \in Dbs /\ answer.entry.sql \in Sqls BY <2>1, EntryKinds
  <2>3. QED BY <2>1, <2>2 DEF RightRows
<1>4. QED BY <1>1, <1>2, <1>3, WInvAlways, PTL DEF Spec
=============================================================================
