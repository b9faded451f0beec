--------------------------- MODULE CountingProofs ---------------------------
(***************************************************************************)
(* The two results that count, for any number of entries, queries,         *)
(* addresses, goroutines and limiters.                                     *)
(*   - Audit log: paging and exports are complete. An entry that a walk    *)
(*     owes is shown or has as many newer entries as were skipped, and     *)
(*     entries that arrive only add to those. The claim passes from the    *)
(*     page to its one load and, with the answer, back.                    *)
(*   - Rate limiter: no more requests of an address are let through than   *)
(*     its rate allows. The tokens that an address can still spend are a   *)
(*     set, every token spent was in it, and only a new limiter or a time  *)
(*     step adds to it.                                                    *)
(***************************************************************************)
EXTENDS AuditLog, RateLimiter, FiniteSetTheorems, TLAPS

-----------------------------------------------------------------------------
(* The audit log *)

\* The rows of a query that are newer than e
Newer(q, e) == {x \in Found(q) : entry[x].time > entry[e].time}

\* What the query owes was shown, or has n newer rows and is on a later page.
ShownBelow(q, n) == \A e \in q.owed : Placed(q, e) => e \in q.seen \/ Cardinality(Newer(q, e)) >= n

AllShown(q) == \A e \in q.owed : Placed(q, e) => e \in q.seen

\* What a page that was answered knows: it has shown what it owes down to its end,
\* and the count, when nothing came between, tells whether there is more.
Answered(q) ==
  /\ ShownBelow(q, q.offset + q.limit)
  /\ ~q.raced /\ q.total <= q.offset + q.limit => AllShown(q)

\* An export is one query of everything; a load of an orderly walk continues what
\* was shown above its offset.
QueryInv(q) ==
  /\ q.owed \subseteq Found(q)
  /\ ~q.orderly => q.owed = {}
  /\ q.pc = "idle" => q.op # "page"
  /\ q.pc = "refused" => q.filters = 7 /\ q.offset > 0
  /\ q.op = "export" =>
       /\ q.offset = 0
       /\ q.pc \in {"count", "select"} => q.seen = {}
       /\ q.pc = "answer" /\ Cardinality(q.seen) < ExportLimit => q.owed \subseteq q.seen
  /\ q.op # "export" /\ q.orderly =>
       /\ q.limit = PageLimit
       /\ q.pc \in {"count", "select"} => ShownBelow(q, q.offset)
       /\ q.pc = "select" /\ ~q.raced => q.total = Cardinality(Found(q))
       /\ q.pc = "answer" => Answered(q)

\* Two queries of the same walk, at the same page
SameWalk(p, q) ==
  /\ p.op = q.op /\ p.tenant = q.tenant /\ p.filters = q.filters /\ p.limit = q.limit
  /\ p.offset = q.offset /\ p.owed = q.owed /\ p.orderly = q.orderly

\* In an orderly walk, what the page knows it knows from an answer, or waits for
\* the only load there is.
WalkInv(p) ==
  /\ p.owed \subseteq Found(p)
  /\ ~p.orderly => p.owed = {}
  /\ p.pc = "page" => p.op = "page" /\ p.limit = PageLimit
  /\ p.orderly =>
       /\ p.pc = "page"
       /\ ~Loading => Answered(p)
       /\ \A r \in AuditReaders : reader[r].op = "page" =>
            /\ SameWalk(reader[r], p)
            /\ \A s \in AuditReaders : reader[s].op = "page" => s = r

\* The queries that are open now
Open == {reader[r] : r \in AuditReaders}

AuditInv ==
  /\ AuditTypeOK
  /\ \A q \in ReaderStates : q \in Open => QueryInv(q)
  /\ \A p \in ReaderStates : p = page => WalkInv(p)

\* The smaller of two numbers is what Min returns.
LEMMA MinOfTwo ==
  ASSUME NEW a \in Int, NEW b \in Int
  PROVE  Min({a, b}) = IF a <= b THEN a ELSE b
<1> DEFINE S == {a, b}
           m == IF a <= b THEN a ELSE b
<1>1. m \in S /\ \A y \in S : m =< y OBVIOUS
<1>2. \A x \in S : (\A y \in S : x =< y) => x = m OBVIOUS
<1>3. Min(S) \in S /\ \A y \in S : Min(S) =< y BY <1>1, Zenon DEF Min
<1> QED BY <1>2, <1>3, Zenon

\* What a query finds is finitely much.
LEMMA FiniteFound ==
  ASSUME NEW q
  PROVE  /\ IsFiniteSet(Found(q)) /\ Cardinality(Found(q)) \in 0..Cardinality(Entries)
         /\ Cardinality(Found(q)) \in Nat
<1>1. Found(q) \in SUBSET Entries BY Zenon DEF Found
<1>2. Cardinality(Entries) \in Nat BY AuditAssumption, FS_CardinalityType, Zenon
<1>3. IsFiniteSet(Found(q)) /\ Cardinality(Found(q)) <= Cardinality(Entries)
  BY <1>1, AuditAssumption, FS_Subset, Zenon
<1>4. Cardinality(Found(q)) \in Nat BY <1>3, FS_CardinalityType, Zenon
<1> QED BY <1>2, <1>3, <1>4

\* Rows that are found have a time, and so has every other row.
LEMMA TimesAreNumbers ==
  ASSUME AuditTypeOK, NEW e \in Entries, entry[e] # None
  PROVE  entry[e].time \in Nat
<1>1. Cardinality(Entries) \in Nat BY AuditAssumption, FS_CardinalityType, Zenon
<1>2. entry[e].time \in 0..Cardinality(Entries) BY Zenon DEF AuditTypeOK, EntryRows, Timestamps
<1> QED BY <1>1, <1>2

\* Two queries of the same tenant under the same filters find the same.
LEMMA SameFound ==
  ASSUME NEW p, NEW q, p.tenant = q.tenant, p.filters = q.filters
  PROVE  Found(p) = Found(q) /\ \A e : Newer(p, e) = Newer(q, e) /\ (Placed(p, e) <=> Placed(q, e))
<1>1. Found(p) = Found(q) BY Zenon DEF Found, Selects
<1> QED BY <1>1, Zenon DEF Newer, Placed

\* The answer of a page holds what it owes up to its end: a row whose place is
\* certain, with at least as many newer rows as are skipped, is in the page or
\* has at least offset + limit newer rows.
LEMMA PageReaches ==
  ASSUME AuditTypeOK, NEW q \in ReaderStates, q.op # "export", q.limit = PageLimit,
         NEW rows \in Pages(q), NEW e \in Found(q), Placed(q, e),
         Cardinality(Newer(q, e)) >= q.offset
  PROVE  /\ e \in rows \/ Cardinality(Newer(q, e)) >= q.offset + q.limit
         /\ Cardinality(Newer(q, e)) < Cardinality(Found(q))
<1> DEFINE found == Found(q)
           newer == Newer(q, e)
           o == Skipped(q)
           skip == Min({o, Cardinality(found)})
           rest == Cardinality(found) - skip
           size == Min({q.limit, rest})
<1>1. IsFiniteSet(found) /\ Cardinality(found) \in Nat BY FiniteFound, Zenon
<1>2. /\ q.offset \in Int /\ o \in Nat /\ o >= q.offset /\ (o = 0 \/ o = q.offset)
      /\ q.limit \in Nat /\ q.limit > 0 /\ StatementLimit(q) = q.limit
  <2>1. q.offset \in Int BY Zenon DEF ReaderStates
  <2>2. o \in Nat /\ o >= q.offset /\ (o = 0 \/ o = q.offset) BY <2>1 DEF Skipped
  <2>3. q.limit \in 1..MaxLimit /\ MaxLimit \in Nat BY AuditAssumption, Zenon
  <2>4. StatementLimit(q) = q.limit BY <2>3 DEF StatementLimit, EffectiveLimit
  <2> QED BY <2>1, <2>2, <2>3, <2>4
<1> HIDE DEF o
<1>3. PICK before \in kSubset(skip, found \ rows) :
        /\ \A x \in before, y \in found \ before : entry[x].time >= entry[y].time
        /\ \A x \in rows, y \in (found \ before) \ rows : entry[x].time >= entry[y].time
  BY <1>2, Zenon DEF Pages, o
<1>4. rows \in kSubset(size, found) BY <1>2, Zenon DEF Pages, o
<1>5. /\ before \in SUBSET found /\ before \cap rows = {} /\ Cardinality(before) = skip
      /\ rows \in SUBSET found /\ Cardinality(rows) = size
  BY <1>3, <1>4, Zenon DEF kSubset
<1>6. newer \in SUBSET found /\ e \notin newer BY TimesAreNumbers DEF Newer, Found
<1>7. IsFiniteSet(newer) /\ Cardinality(newer) \in Nat BY <1>1, <1>6, FS_Subset, FS_CardinalityType, Zenon
<1>8. Cardinality(newer) < Cardinality(found)
  <2>1. Cardinality(newer) <= Cardinality(found) /\ Cardinality(newer) # Cardinality(found)
    BY <1>1, <1>6, FS_Subset, Zenon
  <2> QED BY <1>1, <1>7, <2>1
<1>n. Cardinality(newer) >= o BY <1>2, <1>7
<1>9. skip = o
  <2>1. skip = IF o <= Cardinality(found) THEN o ELSE Cardinality(found)
    BY <1>1, <1>2, MinOfTwo
  <2> QED BY <1>1, <1>2, <1>7, <1>8, <1>n, <2>1
<1>10. size = IF q.limit <= rest THEN q.limit ELSE rest BY <1>1, <1>2, <1>9, MinOfTwo
<1> HIDE DEF skip, size
<1>11. \A x \in found : x \in Entries /\ entry[x].time \in Nat BY TimesAreNumbers, Zenon DEF Found
<1>12. IsFiniteSet(before) /\ IsFiniteSet(rows) BY <1>1, <1>5, FS_Subset, Zenon
<1>13. e \notin before
  <2> SUFFICES ASSUME e \in before PROVE FALSE BY Zenon
  <2>1. newer \subseteq before BY <1>3, <1>6, <1>11 DEF Newer
  <2>2. newer \cup {e} \in SUBSET before BY <2>1, Zenon
  <2>3. Cardinality(newer \cup {e}) = Cardinality(newer) + 1 BY <1>6, <1>7, FS_AddElement, Zenon
  <2>4. Cardinality(newer \cup {e}) <= Cardinality(before) BY <1>12, <2>2, FS_Subset, Zenon
  <2> QED BY <1>2, <1>5, <1>7, <1>9, <1>n, <2>3, <2>4
<1>14. ASSUME e \notin rows PROVE Cardinality(newer) >= q.offset + q.limit
  <2>1. \A x \in found \ {e} : entry[x].time # entry[e].time BY Zenon DEF Placed
  <2>2. before \cup rows \in SUBSET newer
    <3>1. \A x \in before \cup rows : x \in found /\ entry[x].time >= entry[e].time
      BY <1>3, <1>5, <1>13, <1>14, Zenon
    <3> QED BY <1>5, <1>11, <1>13, <1>14, <2>1, <3>1 DEF Newer
  <2>3. Cardinality(before \cup rows) <= Cardinality(newer) BY <1>7, <2>2, FS_Subset, Zenon
  <2>4. Cardinality(before \cup rows) = Cardinality(before) + Cardinality(rows) - 0
    BY <1>5, <1>12, FS_Union, FS_EmptySet
  <2>5. q.limit <= rest \/ size = rest BY <1>10, Zenon
  <2> QED BY <1>1, <1>2, <1>5, <1>7, <1>8, <1>9, <1>10, <2>3, <2>4
<1> QED BY <1>8, <1>14, Zenon

\* Newer rows are counted.
LEMMA NewerNat == ASSUME NEW q, NEW e PROVE IsFiniteSet(Newer(q, e)) /\ Cardinality(Newer(q, e)) \in Nat
<1>1. Newer(q, e) \in SUBSET Found(q) BY Zenon DEF Newer
<1> QED BY <1>1, FiniteFound, FS_Subset, FS_CardinalityType, Zenon

\* Offsets, limits and totals are numbers.
LEMMA QueryNumbers ==
  ASSUME NEW q \in ReaderStates
  PROVE  q.offset \in Int /\ q.limit \in Int /\ q.total \in Nat /\ PageLimit \in Nat \ {0}
<1>1. Cardinality(Entries) \in Nat BY AuditAssumption, FS_CardinalityType, Zenon
<1>2. q.offset \in Int /\ q.limit \in Int /\ q.total \in 0..Cardinality(Entries) BY Zenon DEF ReaderStates
<1> QED BY <1>1, <1>2, AuditAssumption

\* Placeholders run out only for the OFFSET that follows seven filters.
LEMMA WhatParses ==
  ASSUME NEW q \in ReaderStates
  PROVE  CountParses(q) /\ (~SelectParses(q) => q.filters = 7 /\ q.offset > 0)
<1>1. q.filters \in 0..7 BY Zenon DEF ReaderStates
<1>2. CountParses(q) BY <1>1 DEF CountParses, IsPlaceholder, FirstArg
<1>3. ASSUME ~(q.filters = 7 /\ q.offset > 0) PROVE SelectParses(q)
  BY <1>1, <1>3 DEF SelectParses, IsPlaceholder, FirstArg
<1> QED BY <1>2, <1>3, Zenon

\* What the history of a walk that is lost looks like.
LEMMA AstrayFields ==
  ASSUME NEW q \in ReaderStates
  PROVE  LET x == Astray(q) IN
         /\ x \in ReaderStates /\ x.pc = q.pc /\ x.op = q.op /\ x.tenant = q.tenant /\ x.filters = q.filters
         /\ x.limit = q.limit /\ x.offset = q.offset /\ x.seen = {} /\ x.owed = {} /\ x.orderly = FALSE
<1> DEFINE x == Astray(q)
<1>1. x \in ReaderStates BY Zenon DEF Astray, ReaderStates
<1>2. /\ x.pc = q.pc /\ x.op = q.op /\ x.tenant = q.tenant /\ x.filters = q.filters
      /\ x.limit = q.limit /\ x.offset = q.offset
  BY Zenon DEF Astray, ReaderStates
<1>3. x.seen = {} /\ x.owed = {} /\ x.orderly = FALSE BY Zenon DEF Astray, ReaderStates
<1> HIDE DEF x
<1> QED BY <1>1, <1>2, <1>3, Zenon DEF x

\* A query that is lost owes nothing.
LEMMA AstrayQuery ==
  ASSUME NEW q \in ReaderStates, QueryInv(q)
  PROVE  QueryInv(Astray(q))
<1> DEFINE x == Astray(q)
<1>1. /\ x.pc = q.pc /\ x.op = q.op /\ x.filters = q.filters /\ x.offset = q.offset
      /\ x.seen = {} /\ x.owed = {} /\ x.orderly = FALSE
  BY AstrayFields, Zenon
<1> HIDE DEF x
<1>2. QueryInv(x) BY <1>1, Zenon DEF QueryInv
<1> QED BY <1>2, Zenon DEF x

\* What a walk that starts looks like.
LEMMA WalkFields ==
  ASSUME NEW p \in ReaderStates
  PROVE  LET x == Walk(p) IN
         /\ x \in ReaderStates /\ x.pc = p.pc /\ x.op = p.op /\ x.tenant = p.tenant /\ x.filters = p.filters
         /\ x.limit = p.limit /\ x.offset = p.offset /\ x.owed = Found(p) /\ x.orderly = TRUE
<1> DEFINE x == Walk(p)
<1>1. Found(p) \in SUBSET Entries BY Zenon DEF Found
<1>2. x \in ReaderStates BY <1>1, Zenon DEF Walk, ReaderStates
<1>3. /\ x.pc = p.pc /\ x.op = p.op /\ x.tenant = p.tenant /\ x.filters = p.filters
      /\ x.limit = p.limit /\ x.offset = p.offset
  BY Zenon DEF Walk, ReaderStates
<1>4. x.owed = Found(p) /\ x.orderly = TRUE BY Zenon DEF Walk, ReaderStates
<1> HIDE DEF x
<1> QED BY <1>2, <1>3, <1>4, Zenon DEF x

\* What the query of a page looks like.
LEMMA AskedFields ==
  ASSUME NEW p \in ReaderStates
  PROVE  LET x == Asked(p) IN x \in ReaderStates /\ x.pc = "count" /\ x.seen = p.seen /\ SameWalk(x, p)
<1> DEFINE x == Asked(p)
<1>1. Cardinality(Entries) \in Nat BY AuditAssumption, FS_CardinalityType, Zenon
<1>2. 0 \in 0..Cardinality(Entries) BY <1>1
<1>3. x \in ReaderStates BY <1>2, Zenon DEF Asked, ReaderStates
<1>4. x.pc = "count" /\ x.seen = p.seen BY Zenon DEF Asked, ReaderStates
<1>5. SameWalk(x, p) BY Zenon DEF Asked, ReaderStates, SameWalk
<1> HIDE DEF x
<1> QED BY <1>3, <1>4, <1>5, Zenon DEF x

\* What holds of a query goes on to hold while the log stays as it is.
LEMMA LogKept == ASSUME NEW q, entry' = entry, QueryInv(q) PROVE QueryInv(q)'
  BY Zenon DEF QueryInv, Answered, Found, Selects, Newer, Placed, ShownBelow, AllShown

\* So does what a page knows.
LEMMA AnsweredKept == ASSUME NEW q, entry' = entry PROVE Found(q)' = Found(q) /\ (Answered(q) => Answered(q)')
<1>1. Found(q)' = Found(q) BY Zenon DEF Found, Selects
<1>2. \A e : Newer(q, e)' = Newer(q, e) /\ (Placed(q, e)' => Placed(q, e)) BY <1>1, Zenon DEF Newer, Placed
<1>3. \A n : ShownBelow(q, n) => ShownBelow(q, n)' BY <1>2, Zenon DEF ShownBelow
<1>4. AllShown(q) => AllShown(q)' BY <1>2, Zenon DEF AllShown
<1> QED BY <1>1, <1>3, <1>4, Zenon DEF Answered

\* An idle goroutine asks for nothing.
LEMMA IdleQuery ==
  /\ ReaderIdle \in ReaderStates /\ ReaderIdle.pc = "idle" /\ ReaderIdle.op = None
  /\ ReaderIdle.owed = {} /\ ReaderIdle.orderly = FALSE /\ ReaderIdle.offset = 0 /\ ReaderIdle.seen = {}
  /\ QueryInv(ReaderIdle)
<1>1. Cardinality(Entries) \in Nat BY AuditAssumption, FS_CardinalityType, Zenon
<1>2. 0 \in 0..Cardinality(Entries) /\ 0 \in 0..7 /\ 0 \in Int BY <1>1
<1>3. ReaderIdle \in ReaderStates BY <1>2, Zenon DEF ReaderIdle, ReaderStates
<1>4. /\ ReaderIdle.pc = "idle" /\ ReaderIdle.op = None /\ ReaderIdle.owed = {} /\ ReaderIdle.orderly = FALSE
      /\ ReaderIdle.offset = 0 /\ ReaderIdle.seen = {}
  BY Zenon DEF ReaderIdle
<1>5. QueryInv(ReaderIdle) BY <1>4, AuditAssumption, Zenon DEF QueryInv
<1> QED BY <1>3, <1>4, <1>5, Zenon

\* A query that goes on, or one that is not the page's, leaves the page alone.
LEMMA ReaderStep ==
  ASSUME AuditInv, NEW r \in AuditReaders, NEW x \in ReaderStates, QueryInv(x),
         x.op = "page" \/ reader[r].op = "page" => SameWalk(x, reader[r]),
         reader' = [reader EXCEPT ![r] = x], UNCHANGED <<entry, clock, page>>
  PROVE  AuditInv'
<1>1. AuditTypeOK' BY Zenon DEF AuditInv, AuditTypeOK
<1>2. ASSUME NEW q \in ReaderStates, q \in Open' PROVE QueryInv(q)'
  <2>1. q = x \/ q \in Open BY <1>2, Zenon DEF Open, AuditInv, AuditTypeOK
  <2>2. QueryInv(q) BY <2>1, Zenon DEF AuditInv
  <2> QED BY <2>2, LogKept, Zenon
<1>3. ASSUME NEW p \in ReaderStates, p = page' PROVE WalkInv(p)'
  <2>1. WalkInv(p) BY <1>3, Zenon DEF AuditInv
  <2>2. \A s \in AuditReaders : reader'[s] = IF s = r THEN x ELSE reader[s] BY Zenon DEF AuditInv, AuditTypeOK
  <2>3. x.op = "page" <=> reader[r].op = "page" BY Zenon DEF SameWalk
  <2>4. \A s \in AuditReaders : reader'[s].op = "page" <=> reader[s].op = "page" BY <2>2, <2>3, Zenon
  <2>5. Loading' <=> Loading BY <2>4, Zenon DEF Loading
  <2>6. \A s \in AuditReaders : reader'[s].op = "page" /\ SameWalk(reader[s], p) => SameWalk(reader'[s], p)
    BY <2>2, <2>3, Zenon DEF SameWalk
  <2>7. p.orderly => \A s \in AuditReaders : reader'[s].op = "page" =>
                       SameWalk(reader'[s], p) /\ \A t \in AuditReaders : reader'[t].op = "page" => t = s
    BY <2>1, <2>4, <2>6, Zenon DEF WalkInv
  <2>8. Found(p)' = Found(p) /\ (Answered(p) => Answered(p)') BY AnsweredKept, Zenon
  <2> QED BY <2>1, <2>5, <2>7, <2>8, Zenon DEF WalkInv
<1> QED BY <1>1, <1>2, <1>3, Zenon DEF AuditInv

\* A client of the API asks for nothing that is owed; an export is owed what is there.
LEMMA AskStep ==
  ASSUME AuditInv, NEW r \in AuditReaders, NEW t \in Tenants, NEW f \in Filters,
         (\E n \in QueryLimits, o \in {0, 1} : Ask(r, t, f, n, o)) \/ AskExport(r, t, f)
  PROVE  AuditInv'
<1>0. reader[r] \in ReaderStates /\ QueryInv(reader[r]) BY Zenon DEF AuditInv, AuditTypeOK, Open
<1>1. reader[r].op # "page" BY <1>0, Zenon DEF Ask, AskExport, NothingOpen, QueryInv
<1>2. f \in 0..7 BY AuditAssumption, Zenon
<1>3. ASSUME NEW n \in QueryLimits, NEW o \in {0, 1}, Ask(r, t, f, n, o) PROVE AuditInv'
  <2> DEFINE x == [ReaderIdle EXCEPT !.pc = "count", !.op = "query", !.tenant = t, !.filters = f, !.limit = n, !.offset = o]
  <2>1. n \in Int /\ o \in Int BY AuditAssumption
  <2>2. x \in ReaderStates BY <1>2, <2>1, IdleQuery, Zenon DEF ReaderStates
  <2>3. x.pc = "count" /\ x.op = "query" /\ x.owed = {} /\ x.orderly = FALSE BY <2>2, Zenon DEF ReaderIdle, ReaderStates
  <2>4. reader' = [reader EXCEPT ![r] = x] /\ UNCHANGED <<entry, clock, page>> BY <1>3, Zenon DEF Ask
  <2> HIDE DEF x
  <2>5. QueryInv(x) BY <2>3, Zenon DEF QueryInv
  <2>6. x.op # "page" BY <2>3
  <2> QED BY <1>1, <2>2, <2>4, <2>5, <2>6, ReaderStep, Zenon
<1>4. CASE AskExport(r, t, f)
  <2> DEFINE q == [ReaderIdle EXCEPT !.pc = "count", !.op = "export", !.tenant = t, !.filters = f, !.orderly = TRUE]
             x == [q EXCEPT !.owed = Found(q)]
  <2>1. q \in ReaderStates BY <1>2, IdleQuery, Zenon DEF ReaderStates
  <2>2. q.pc = "count" /\ q.op = "export" /\ q.offset = 0 /\ q.seen = {} BY <2>1, Zenon DEF ReaderIdle, ReaderStates
  <2>3. reader' = [reader EXCEPT ![r] = x] /\ UNCHANGED <<entry, clock, page>> BY <1>4, Zenon DEF AskExport
  <2>4. q.orderly = TRUE BY <2>1, Zenon DEF ReaderIdle, ReaderStates
  <2> HIDE DEF q
  <2>5. Found(q) \in SUBSET Entries BY Zenon DEF Found
  <2>6. x \in ReaderStates BY <2>1, <2>5, Zenon DEF ReaderStates
  <2>7. /\ x.pc = "count" /\ x.op = "export" /\ x.offset = 0 /\ x.seen = {} /\ x.owed = Found(q) /\ x.orderly = TRUE
        /\ x.tenant = q.tenant /\ x.filters = q.filters
    BY <2>1, <2>2, <2>4, <2>6, Zenon DEF ReaderStates
  <2> HIDE DEF x
  <2>8. Found(x) = Found(q) BY <2>7, SameFound, Zenon
  <2>9. QueryInv(x) BY <2>7, <2>8, Zenon DEF QueryInv
  <2>10. x.op # "page" BY <2>7
  <2> QED BY <1>1, <2>3, <2>6, <2>9, <2>10, ReaderStep, Zenon
<1> QED BY <1>3, <1>4, Zenon

\* The count of a query parses, and is right until another entry comes.
LEMMA CountStep == ASSUME AuditInv, NEW r \in AuditReaders, Count(r) PROVE AuditInv'
<1> DEFINE q == reader[r]
           n == Cardinality(Found(q))
           x == [q EXCEPT !.pc = "select", !.total = n, !.raced = FALSE]
<1>1. q \in ReaderStates /\ q.pc = "count" BY Zenon DEF Count, AuditInv, AuditTypeOK
<1>2. QueryInv(q) BY <1>1, Zenon DEF AuditInv, Open
<1>3. n \in 0..Cardinality(Entries) BY FiniteFound, Zenon
<1>4. reader' = [reader EXCEPT ![r] = x] /\ UNCHANGED <<entry, clock, page>>
  BY <1>1, WhatParses, Zenon DEF Count, AuditInv, AuditTypeOK
<1> HIDE DEF n
<1>5. x \in ReaderStates BY <1>1, <1>3, Zenon DEF ReaderStates
<1>6. /\ x.pc = "select" /\ x.seen = q.seen /\ x.total = n /\ x.op = q.op /\ x.tenant = q.tenant
      /\ x.filters = q.filters /\ x.limit = q.limit /\ x.offset = q.offset /\ x.owed = q.owed /\ x.orderly = q.orderly
  BY <1>1, <1>5, Zenon DEF ReaderStates
<1>7. SameWalk(x, reader[r]) BY <1>6, Zenon DEF SameWalk
<1> HIDE DEF x, q
<1>8. Found(x) = Found(q) /\ \A e : Newer(x, e) = Newer(q, e) /\ (Placed(x, e) <=> Placed(q, e))
  BY <1>6, SameFound, Zenon
<1>9. ShownBelow(q, q.offset) => ShownBelow(x, x.offset) BY <1>6, <1>8, Zenon DEF ShownBelow
<1>10. x.total = Cardinality(Found(x)) BY <1>6, <1>8, Zenon DEF n
<1>11. QueryInv(x) BY <1>1, <1>2, <1>6, <1>8, <1>9, <1>10, Zenon DEF QueryInv
<1> QED BY <1>4, <1>5, <1>7, <1>11, ReaderStep, Zenon

\* An export that is not full holds everything it found.
LEMMA ExportHolds ==
  ASSUME NEW q \in ReaderStates, q.op = "export", q.offset = 0, NEW rows \in Pages(q),
         Cardinality(rows) < ExportLimit
  PROVE  rows = Found(q)
<1> DEFINE found == Found(q)
           skip == Min({0, Cardinality(found)})
           rest == Cardinality(found) - skip
           size == Min({ExportLimit, rest})
<1>1. IsFiniteSet(found) /\ Cardinality(found) \in Nat BY FiniteFound, Zenon
<1>2. StatementLimit(q) = ExportLimit /\ ExportLimit \in Nat /\ ExportLimit > 0
  BY AuditAssumption DEF StatementLimit
<1>s. Skipped(q) = 0 BY DEF Skipped
<1>3. rows \in kSubset(size, found) BY <1>2, <1>s, Zenon DEF Pages
<1>4. rows \in SUBSET found /\ Cardinality(rows) = size BY <1>3, Zenon DEF kSubset
<1>5. skip = 0
  <2>1. skip = IF 0 <= Cardinality(found) THEN 0 ELSE Cardinality(found) BY <1>1, MinOfTwo
  <2> QED BY <1>1, <2>1
<1>6. rest = Cardinality(found) BY <1>1, <1>5
<1>7. size = IF ExportLimit <= rest THEN ExportLimit ELSE rest BY <1>1, <1>2, <1>6, MinOfTwo
<1>8. Cardinality(rows) = Cardinality(found) BY <1>1, <1>2, <1>4, <1>6, <1>7
<1> QED BY <1>1, <1>4, <1>8, FS_Subset, Zenon

\* The answer of a select continues what was shown, down to the end of the page.
LEMMA SelectStep == ASSUME AuditInv, NEW r \in AuditReaders, Select(r) PROVE AuditInv'
<1> DEFINE q == reader[r]
<1>1. q \in ReaderStates /\ q.pc = "select" /\ UNCHANGED <<entry, clock, page>>
  BY Zenon DEF Select, AuditInv, AuditTypeOK
<1>2. QueryInv(q) BY <1>1, Zenon DEF AuditInv, Open
<1>3. CASE ~SelectParses(q)
  <2> DEFINE x == [q EXCEPT !.pc = "refused"]
  <2>1. reader' = [reader EXCEPT ![r] = x] BY <1>3, Zenon DEF Select, AuditInv, AuditTypeOK
  <2>2. q.filters = 7 /\ q.offset > 0 BY <1>1, <1>3, WhatParses, Zenon
  <2>3. x \in ReaderStates BY <1>1, Zenon DEF ReaderStates
  <2>4. /\ x.pc = "refused" /\ x.op = q.op /\ x.tenant = q.tenant /\ x.filters = q.filters /\ x.limit = q.limit
        /\ x.offset = q.offset /\ x.owed = q.owed /\ x.orderly = q.orderly
    BY <1>1, <2>3, Zenon DEF ReaderStates
  <2>5. SameWalk(x, reader[r]) BY <2>4, Zenon DEF SameWalk
  <2> HIDE DEF x, q
  <2>6. Found(x) = Found(q) BY <2>4, SameFound, Zenon
  <2>7. QueryInv(x) BY <1>1, <1>2, <2>2, <2>4, <2>6, Zenon DEF QueryInv
  <2> QED BY <1>1, <2>1, <2>3, <2>5, <2>7, ReaderStep, Zenon
<1>4. CASE SelectParses(q)
  <2>1. PICK rows \in Pages(q) :
          reader' = [reader EXCEPT ![r].pc = "answer", ![r].seen = IF q.orderly THEN @ \cup rows ELSE @]
    BY <1>4, Zenon DEF Select
  <2> DEFINE now == IF q.orderly THEN q.seen \cup rows ELSE q.seen
             x == [q EXCEPT !.pc = "answer", !.seen = now]
  <2>2. reader' = [reader EXCEPT ![r] = x] BY <2>1, Zenon DEF AuditInv, AuditTypeOK
  <2>3. rows \in SUBSET Found(q) BY Zenon DEF Pages, kSubset
  <2>4. now \in SUBSET Entries
    <3>1. rows \in SUBSET Entries BY <2>3, Zenon DEF Found
    <3> QED BY <1>1, <3>1, Zenon DEF ReaderStates
  <2>5. q.orderly => now = q.seen \cup rows BY Zenon
  <2> HIDE DEF now
  <2>6. x \in ReaderStates BY <1>1, <2>4, Zenon DEF ReaderStates
  <2>7. /\ x.pc = "answer" /\ x.seen = now /\ x.total = q.total /\ x.raced = q.raced
        /\ x.op = q.op /\ x.tenant = q.tenant /\ x.filters = q.filters /\ x.limit = q.limit
        /\ x.offset = q.offset /\ x.owed = q.owed /\ x.orderly = q.orderly
    BY <1>1, <2>6, Zenon DEF ReaderStates
  <2>8. SameWalk(x, reader[r]) BY <2>7, Zenon DEF SameWalk
  <2> HIDE DEF x, q
  <2>9. Found(x) = Found(q) /\ \A e : Newer(x, e) = Newer(q, e) /\ (Placed(x, e) <=> Placed(q, e))
    BY <2>7, SameFound, Zenon
  <2>10. q.owed \subseteq Found(q) /\ (~q.orderly => q.owed = {}) BY <1>2, Zenon DEF QueryInv
  <2>11. CASE q.op = "export"
    <3>1. q.seen = {} /\ q.offset = 0 BY <1>1, <1>2, <2>11, Zenon DEF QueryInv
    <3>2. q.orderly => x.seen = rows BY <2>5, <2>7, <3>1, Zenon
    <3>3. Cardinality(rows) < ExportLimit => rows = Found(q) BY <1>1, <2>11, <3>1, ExportHolds, Zenon
    <3>4. Cardinality(x.seen) < ExportLimit => x.owed \subseteq x.seen BY <2>7, <2>10, <3>2, <3>3, Zenon
    <3>5. QueryInv(x) BY <2>7, <2>9, <2>10, <2>11, <3>1, <3>4, Zenon DEF QueryInv
    <3> QED BY <1>1, <2>2, <2>6, <2>8, <3>5, ReaderStep, Zenon
  <2>12. CASE q.op # "export" /\ ~q.orderly
    <3>1. QueryInv(x) BY <2>7, <2>9, <2>10, <2>12, Zenon DEF QueryInv
    <3> QED BY <1>1, <2>2, <2>6, <2>8, <3>1, ReaderStep, Zenon
  <2>13. CASE q.op # "export" /\ q.orderly
    <3>1. /\ ShownBelow(q, q.offset) /\ (~q.raced => q.total = Cardinality(Found(q)))
          /\ q.limit = PageLimit
      BY <1>1, <1>2, <2>13, Zenon DEF QueryInv
    <3>2. AuditTypeOK BY Zenon DEF AuditInv
    <3>3. ASSUME NEW e \in q.owed, Placed(q, e), e \notin x.seen
          PROVE  /\ Cardinality(Newer(q, e)) >= q.offset + q.limit
                 /\ Cardinality(Newer(q, e)) < Cardinality(Found(q))
      <4>1. e \notin q.seen /\ e \notin rows BY <2>5, <2>7, <2>13, <3>3, Zenon
      <4>2. Cardinality(Newer(q, e)) >= q.offset BY <3>1, <3>3, <4>1, Zenon DEF ShownBelow
      <4>3. e \in Found(q) BY <2>10, Zenon
      <4> QED BY <1>1, <2>13, <3>1, <3>2, <3>3, <4>1, <4>2, <4>3, PageReaches, Zenon
    <3>4. ShownBelow(x, x.offset + x.limit) BY <2>7, <2>9, <3>3, Zenon DEF ShownBelow
    <3>5. ASSUME ~x.raced, x.total <= x.offset + x.limit PROVE AllShown(x)
      <4> SUFFICES ASSUME NEW e \in q.owed, Placed(q, e), e \notin x.seen PROVE FALSE
        BY <2>7, <2>9, Zenon DEF AllShown
      <4>1. /\ Cardinality(Newer(q, e)) >= q.offset + q.limit
            /\ Cardinality(Newer(q, e)) < Cardinality(Found(q))
        BY <3>3, Zenon
      <4>2. Cardinality(Found(q)) <= q.offset + q.limit BY <2>7, <3>1, <3>5, Zenon
      <4>3. q.offset \in Int /\ q.limit \in Int BY <1>1, QueryNumbers, Zenon
      <4> QED BY <4>1, <4>2, <4>3, FiniteFound, NewerNat
    <3>6. Answered(x) BY <3>4, <3>5, Zenon DEF Answered
    <3>7. QueryInv(x) BY <2>7, <2>9, <2>10, <2>13, <3>1, <3>6, Zenon DEF QueryInv
    <3> QED BY <1>1, <2>2, <2>6, <2>8, <3>7, ReaderStep, Zenon
  <2> QED BY <2>11, <2>12, <2>13, Zenon
<1> QED BY <1>3, <1>4, Zenon

\* The page takes over what the answer of its load claims.
LEMMA ShowStep == ASSUME AuditInv, NEW r \in AuditReaders, Show(r) PROVE AuditInv'
<1> DEFINE q == reader[r]
<1>1. /\ q \in ReaderStates /\ q.pc = "answer" /\ reader' = [reader EXCEPT ![r] = ReaderIdle]
      /\ UNCHANGED <<entry, clock>>
  BY Zenon DEF Show, Done, AuditInv, AuditTypeOK
<1>2. QueryInv(q) BY <1>1, Zenon DEF AuditInv, Open
<1>3. CASE q.op # "page"
  <2>1. UNCHANGED page BY <1>3, Zenon DEF Show
  <2>2. ReaderIdle.op # "page" BY IdleQuery, AuditAssumption, Zenon
  <2> QED BY <1>1, <1>3, <2>1, <2>2, IdleQuery, ReaderStep, Zenon
<1>4. CASE q.op = "page"
  <2>1. PICK p \in ReaderStates : p = page BY Zenon DEF AuditInv, AuditTypeOK
  <2>x. PICK x : x = [p EXCEPT !.total = q.total, !.seen = q.seen, !.raced = q.raced] BY Zenon
  <2>2. page' = x BY <1>4, <2>1, <2>x, Zenon DEF Show
  <2>3. WalkInv(p) BY <2>1, Zenon DEF AuditInv
  <2>4. x \in ReaderStates BY <1>1, <2>x, Zenon DEF ReaderStates
  <2>5. /\ x.pc = p.pc /\ x.op = p.op /\ x.tenant = p.tenant /\ x.filters = p.filters /\ x.limit = p.limit
        /\ x.offset = p.offset /\ x.owed = p.owed /\ x.orderly = p.orderly
        /\ x.total = q.total /\ x.seen = q.seen /\ x.raced = q.raced
    BY <1>1, <2>4, <2>x, Zenon DEF ReaderStates
  <2>6. AuditTypeOK' BY <1>1, <2>2, <2>4, IdleQuery, Zenon DEF AuditInv, AuditTypeOK
  <2>7. ASSUME NEW k \in ReaderStates, k \in Open' PROVE QueryInv(k)'
    <3>1. k = ReaderIdle \/ k \in Open BY <1>1, <2>7, Zenon DEF Open, AuditInv, AuditTypeOK
    <3>2. QueryInv(k) BY <3>1, IdleQuery, Zenon DEF AuditInv
    <3> QED BY <1>1, <3>2, LogKept, Zenon
  <2>8. Found(x) = Found(p) BY <2>5, SameFound, Zenon
  <2>9. \A s \in AuditReaders : reader'[s] = IF s = r THEN ReaderIdle ELSE reader[s]
    BY <1>1, Zenon DEF AuditInv, AuditTypeOK
  <2>10. ASSUME p.orderly PROVE Answered(x) /\ \A s \in AuditReaders : reader'[s].op # "page"
    <3>1. SameWalk(q, p) /\ \A s \in AuditReaders : reader[s].op = "page" => s = r
      BY <1>4, <2>3, <2>10, Zenon DEF WalkInv
    <3>2. Answered(q) BY <1>1, <1>2, <1>4, <2>10, <3>1, Zenon DEF QueryInv, SameWalk
    <3>3. x.tenant = q.tenant /\ x.filters = q.filters /\ x.limit = q.limit /\ x.offset = q.offset /\ x.owed = q.owed
      BY <2>5, <3>1, Zenon DEF SameWalk
    <3>4. \A e : Newer(x, e) = Newer(q, e) /\ (Placed(x, e) <=> Placed(q, e)) BY <3>3, SameFound, Zenon
    <3>5. Answered(x) BY <2>5, <3>2, <3>3, <3>4, Zenon DEF Answered, ShownBelow, AllShown
    <3>6. ReaderIdle.op # "page" BY IdleQuery, AuditAssumption, Zenon
    <3> QED BY <2>9, <3>1, <3>5, <3>6, Zenon
  <2>11. WalkInv(x)'
    <3>1. Found(x)' = Found(x) /\ (Answered(x) => Answered(x)') BY <1>1, AnsweredKept, Zenon
    <3> QED BY <2>3, <2>5, <2>8, <2>10, <3>1, Zenon DEF WalkInv
  <2> QED BY <2>2, <2>6, <2>7, <2>11, Zenon DEF AuditInv
<1> QED BY <1>3, <1>4, Zenon

\* When the walk is lost, for the page and all of its loads, nothing is owed.
LEMMA LostStep ==
  ASSUME AuditInv, NEW p \in ReaderStates, page' = p, ~p.orderly, p.owed = {},
         p.pc = "page" => p.op = "page" /\ p.limit = PageLimit,
         reader' \in [AuditReaders -> ReaderStates], \A s \in AuditReaders : QueryInv(reader'[s]),
         UNCHANGED <<entry, clock>>
  PROVE  AuditInv'
<1>1. AuditTypeOK' BY Zenon DEF AuditInv, AuditTypeOK
<1>2. ASSUME NEW k \in ReaderStates, k \in Open' PROVE QueryInv(k)'
  <2>1. QueryInv(k) BY <1>2, Zenon DEF Open
  <2> QED BY <2>1, LogKept, Zenon
<1>3. WalkInv(p)' BY Zenon DEF WalkInv
<1> QED BY <1>1, <1>2, <1>3, Zenon DEF AuditInv

\* A request that fails takes the walk with it.
LEMMA FailStep == ASSUME AuditInv, NEW r \in AuditReaders, Fail(r) PROVE AuditInv'
<1>1. page \in ReaderStates /\ WalkInv(page) /\ \A s \in AuditReaders : reader[s] \in ReaderStates /\ QueryInv(reader[s])
  BY Zenon DEF AuditInv, AuditTypeOK, Open
<1>2. /\ page' = Astray(page) /\ UNCHANGED <<entry, clock>>
      /\ reader' = [s \in AuditReaders |-> IF s = r THEN ReaderIdle ELSE Astray(reader[s])]
  BY Zenon DEF Fail
<1>3. \A s \in AuditReaders : reader'[s] \in ReaderStates /\ QueryInv(reader'[s])
  BY <1>1, <1>2, IdleQuery, AstrayFields, AstrayQuery, Zenon
<1>4. reader' \in [AuditReaders -> ReaderStates] BY <1>2, <1>3, Zenon
<1> DEFINE p == Astray(page)
<1>5. /\ p \in ReaderStates /\ ~p.orderly /\ p.owed = {} /\ p.pc = page.pc /\ p.op = page.op /\ p.limit = page.limit
  BY <1>1, AstrayFields, Zenon
<1>6. p.pc = "page" => p.op = "page" /\ p.limit = PageLimit BY <1>1, <1>5, Zenon DEF WalkInv
<1> HIDE DEF p
<1> QED BY <1>2, <1>3, <1>4, <1>5, <1>6, LostStep, Zenon DEF p

\* The filters are edited: the walk is lost.
LEMMA EditFiltersStep == ASSUME AuditInv, NEW f \in Filters, EditFilters(f) PROVE AuditInv'
<1>1. page \in ReaderStates /\ WalkInv(page) /\ \A s \in AuditReaders : reader[s] \in ReaderStates /\ QueryInv(reader[s])
  BY Zenon DEF AuditInv, AuditTypeOK, Open
<1>2. /\ page' = [Astray(page) EXCEPT !.filters = f] /\ UNCHANGED <<entry, clock>>
      /\ reader' = [s \in AuditReaders |-> Astray(reader[s])]
  BY Zenon DEF EditFilters
<1>3. \A s \in AuditReaders : reader'[s] \in ReaderStates /\ QueryInv(reader'[s])
  BY <1>1, <1>2, AstrayFields, AstrayQuery, Zenon
<1>4. reader' \in [AuditReaders -> ReaderStates] BY <1>2, <1>3, Zenon
<1> DEFINE a == Astray(page)
           p == [a EXCEPT !.filters = f]
<1>5. /\ a \in ReaderStates /\ ~a.orderly /\ a.owed = {} /\ a.pc = page.pc /\ a.op = page.op /\ a.limit = page.limit
  BY <1>1, AstrayFields, Zenon
<1>6. page' = p BY <1>2, Zenon
<1> HIDE DEF a
<1>7. f \in 0..7 BY AuditAssumption, Zenon
<1>8. p \in ReaderStates BY <1>5, <1>7, Zenon DEF ReaderStates
<1>9. ~p.orderly /\ p.owed = {} /\ p.pc = a.pc /\ p.op = a.op /\ p.limit = a.limit
  BY <1>5, <1>8, Zenon DEF ReaderStates
<1>10. p.pc = "page" => p.op = "page" /\ p.limit = PageLimit BY <1>1, <1>5, <1>9, Zenon DEF WalkInv
<1> HIDE DEF p
<1> QED BY <1>2, <1>3, <1>4, <1>6, <1>8, <1>9, <1>10, LostStep, Zenon

\* The query of a page that has shown what it owes above its offset
LEMMA AskedQuery ==
  ASSUME NEW p \in ReaderStates, p.op = "page", p.limit = PageLimit, p.owed \subseteq Found(p),
         ~p.orderly => p.owed = {}, p.orderly => ShownBelow(p, p.offset)
  PROVE  QueryInv(Asked(p))
<1> DEFINE x == Asked(p)
<1>1. x.pc = "count" /\ x.seen = p.seen /\ SameWalk(x, p) BY AskedFields, Zenon
<1> HIDE DEF x
<1>2. x.tenant = p.tenant /\ x.filters = p.filters /\ x.owed = p.owed /\ x.offset = p.offset /\ x.op = p.op
      /\ x.limit = p.limit /\ x.orderly = p.orderly
  BY <1>1, Zenon DEF SameWalk
<1>3. Found(x) = Found(p) /\ \A e : Newer(x, e) = Newer(p, e) /\ (Placed(x, e) <=> Placed(p, e))
  BY <1>2, SameFound, Zenon
<1>4. p.orderly => ShownBelow(x, x.offset) BY <1>1, <1>2, <1>3, Zenon DEF ShownBelow
<1>5. QueryInv(x) BY <1>1, <1>2, <1>3, <1>4, Zenon DEF QueryInv
<1> QED BY <1>5, Zenon DEF x

\* The load of a page that has shown what it owes above its offset, if no other load
\* is under way; beside one, the walk is lost.
LEMMA LoadStep ==
  ASSUME AuditInv, NEW r \in AuditReaders, NEW p \in ReaderStates, Load(r, p),
         p.pc = "page", p.op = "page", p.limit = PageLimit, p.owed \subseteq Found(p), ~p.orderly => p.owed = {},
         p.orderly /\ ~Loading => ShownBelow(p, p.offset)
  PROVE  AuditInv'
<1>1. \A s \in AuditReaders : reader[s] \in ReaderStates /\ QueryInv(reader[s]) BY Zenon DEF AuditInv, AuditTypeOK, Open
<1>2. PICK q : q = IF Loading THEN Astray(p) ELSE p BY Zenon
<1>3. /\ page' = q /\ UNCHANGED <<entry, clock>>
      /\ reader' = [s \in AuditReaders |-> IF s = r THEN Asked(q) ELSE Astray(reader[s])]
  BY <1>2, Zenon DEF Load
<1>4. /\ q \in ReaderStates /\ q.pc = "page" /\ q.op = "page" /\ q.limit = PageLimit /\ q.owed \subseteq Found(q)
      /\ (~q.orderly => q.owed = {}) /\ (q.orderly => ~Loading /\ ShownBelow(q, q.offset))
  <2>1. CASE Loading
    <3>1. q \in ReaderStates /\ q.pc = p.pc /\ q.op = p.op /\ q.limit = p.limit /\ q.owed = {} /\ ~q.orderly
      BY <1>2, <2>1, AstrayFields, Zenon
    <3> QED BY <3>1, Zenon
  <2>2. CASE ~Loading BY <1>2, <2>2, Zenon
  <2> QED BY <2>1, <2>2, Zenon
<1>5. PICK x \in ReaderStates : x = Asked(q) BY <1>4, AskedFields, Zenon
<1>6. QueryInv(x) /\ SameWalk(x, q) BY <1>4, <1>5, AskedQuery, AskedFields, Zenon
<1>7. \A s \in AuditReaders : reader'[s] \in ReaderStates /\ QueryInv(reader'[s])
  BY <1>1, <1>3, <1>5, <1>6, AstrayFields, AstrayQuery, Zenon
<1>8. reader' \in [AuditReaders -> ReaderStates] BY <1>3, <1>7, Zenon
<1>9. CASE ~q.orderly BY <1>3, <1>4, <1>7, <1>8, <1>9, LostStep, Zenon
<1>10. CASE q.orderly
  <2>1. AuditTypeOK' BY <1>3, <1>4, <1>8, Zenon DEF AuditInv, AuditTypeOK
  <2>2. ASSUME NEW k \in ReaderStates, k \in Open' PROVE QueryInv(k)'
    <3>1. QueryInv(k) BY <1>7, <2>2, Zenon DEF Open
    <3> QED BY <1>3, <3>1, LogKept, Zenon
  <2>3. reader'[r] = x /\ \A s \in AuditReaders : s # r => reader'[s].op = reader[s].op
    BY <1>1, <1>3, <1>5, AstrayFields, Zenon
  <2>4. \A s \in AuditReaders : reader'[s].op = "page" => s = r
    BY <1>4, <1>10, <2>3, Zenon DEF Loading
  <2>5. x.op = "page" BY <1>4, <1>6, Zenon DEF SameWalk
  <2>6. Loading' BY <2>3, <2>5, Zenon DEF Loading
  <2>7. \A s \in AuditReaders : reader'[s].op = "page" =>
          SameWalk(reader'[s], q) /\ \A t \in AuditReaders : reader'[t].op = "page" => t = s
    BY <1>6, <2>3, <2>4, Zenon
  <2>8. WalkInv(q)' BY <1>3, <1>4, <2>6, <2>7, AnsweredKept, Zenon DEF WalkInv, SameWalk
  <2> QED BY <1>3, <2>1, <2>2, <2>8, Zenon DEF AuditInv
<1> QED BY <1>9, <1>10, Zenon

\* The page opens, or is submitted at its first page: a walk starts.
LEMMA WalkStep ==
  ASSUME AuditInv, NEW r \in AuditReaders, (\E t \in Tenants : OpenPage(r, t)) \/ Resubmit(r)
  PROVE  AuditInv'
<1>1. ASSUME NEW b \in ReaderStates, b.pc = "page", b.op = "page", b.limit = PageLimit, b.offset = 0, Load(r, Walk(b))
      PROVE  AuditInv'
  <2>1. PICK p \in ReaderStates : p = Walk(b) BY WalkFields, Zenon
  <2>2. /\ p.pc = "page" /\ p.op = "page" /\ p.limit = PageLimit /\ p.offset = 0 /\ p.owed = Found(b) /\ p.orderly = TRUE
        /\ p.tenant = b.tenant /\ p.filters = b.filters
    BY <1>1, <2>1, WalkFields, Zenon
  <2>3. Found(p) = Found(b) BY <2>2, SameFound, Zenon
  <2>4. ShownBelow(p, p.offset) BY <2>2, NewerNat DEF ShownBelow
  <2> QED BY <1>1, <2>1, <2>2, <2>3, <2>4, LoadStep, Zenon
<1>2. ASSUME NEW t \in Tenants, OpenPage(r, t) PROVE AuditInv'
  <2> DEFINE b == [ReaderIdle EXCEPT !.pc = "page", !.op = "page", !.tenant = t, !.limit = PageLimit]
  <2>1. PageLimit \in Int BY AuditAssumption
  <2>2. b \in ReaderStates BY <2>1, IdleQuery, Zenon DEF ReaderStates
  <2>3. b.pc = "page" /\ b.op = "page" /\ b.limit = PageLimit /\ b.offset = 0 BY <2>2, Zenon DEF ReaderIdle, ReaderStates
  <2>4. Load(r, Walk(b)) BY <1>2, Zenon DEF OpenPage
  <2> HIDE DEF b
  <2> QED BY <1>1, <2>2, <2>3, <2>4, Zenon
<1>3. CASE Resubmit(r)
  <2>1. page \in ReaderStates /\ WalkInv(page) BY Zenon DEF AuditInv, AuditTypeOK
  <2>2. PICK b \in ReaderStates : b = page BY <2>1, Zenon
  <2>3. b.pc = "page" /\ b.op = "page" /\ b.limit = PageLimit /\ b.offset = 0 /\ Load(r, Walk(b))
    BY <1>3, <2>1, <2>2, Zenon DEF Resubmit, WalkInv
  <2> QED BY <1>1, <2>3, Zenon
<1> QED BY <1>2, <1>3, Zenon

\* The next page is below what was shown, and the previous one above it.
LEMMA TurnStep == ASSUME AuditInv, NEW r \in AuditReaders, NextPage(r) \/ PreviousPage(r) PROVE AuditInv'
<1>1. PICK b \in ReaderStates : b = page /\ WalkInv(b) BY Zenon DEF AuditInv, AuditTypeOK
<1>2. b.pc = "page" /\ b.op = "page" /\ b.limit = PageLimit
  BY <1>1, Zenon DEF WalkInv, NextPage, PreviousPage
<1>3. b.offset \in Int /\ b.limit \in Int /\ PageLimit \in Nat \ {0} BY QueryNumbers, Zenon
<1>4. PICK o \in Int : o <= b.offset + b.limit /\ Load(r, [b EXCEPT !.offset = o])
  <2>1. CASE NextPage(r)
    <3>1. Load(r, [b EXCEPT !.offset = b.offset + b.limit]) BY <1>1, <2>1, Zenon DEF NextPage
    <3>2. b.offset + b.limit \in Int /\ b.offset + b.limit <= b.offset + b.limit BY <1>3
    <3> QED BY <3>1, <3>2, Zenon
  <2>2. CASE PreviousPage(r)
    <3>1. Load(r, [b EXCEPT !.offset = b.offset - b.limit]) BY <1>1, <2>2, Zenon DEF PreviousPage
    <3>2. b.offset - b.limit \in Int /\ b.offset - b.limit <= b.offset + b.limit BY <1>2, <1>3
    <3> QED BY <3>1, <3>2, Zenon
  <2> QED BY <2>1, <2>2, Zenon
<1> DEFINE p == [b EXCEPT !.offset = o]
<1>5. p \in ReaderStates BY Zenon DEF ReaderStates
<1>6. /\ p.pc = "page" /\ p.op = "page" /\ p.limit = PageLimit /\ p.offset = o /\ p.owed = b.owed /\ p.seen = b.seen
      /\ p.orderly = b.orderly /\ p.tenant = b.tenant /\ p.filters = b.filters
  BY <1>2, <1>5, Zenon DEF ReaderStates
<1> HIDE DEF p
<1>7. Found(p) = Found(b) /\ \A e : Newer(p, e) = Newer(b, e) /\ (Placed(p, e) <=> Placed(b, e))
  BY <1>6, SameFound, Zenon
<1>8. p.owed \subseteq Found(p) /\ (~p.orderly => p.owed = {}) BY <1>1, <1>6, <1>7, Zenon DEF WalkInv
<1>9. ASSUME p.orderly, ~Loading PROVE ShownBelow(p, p.offset)
  <2>1. ShownBelow(b, b.offset + b.limit) BY <1>1, <1>6, <1>9, Zenon DEF WalkInv, Answered
  <2>2. \A n \in Nat : n >= b.offset + b.limit => n >= o BY <1>3, <1>4
  <2>3. \A e : Cardinality(Newer(b, e)) \in Nat BY NewerNat, Zenon
  <2> QED BY <1>6, <1>7, <2>1, <2>2, <2>3, Zenon DEF ShownBelow
<1> QED BY <1>4, <1>5, <1>6, <1>8, <1>9, LoadStep, Zenon DEF p

\* A submission at a later page starts two loads and loses the walk.
LEMMA SubmitStep ==
  ASSUME AuditInv, NEW r \in AuditReaders, NEW e \in AuditReaders, Submit(r, e)
  PROVE  AuditInv'
<1>1. page \in ReaderStates /\ WalkInv(page) /\ \A s \in AuditReaders : reader[s] \in ReaderStates /\ QueryInv(reader[s])
  BY Zenon DEF AuditInv, AuditTypeOK, Open
<1>2. PICK a \in ReaderStates : a = Astray(page) BY <1>1, AstrayFields, Zenon
<1>3. a.pc = "page" /\ a.op = "page" /\ a.limit = PageLimit /\ a.owed = {} /\ ~a.orderly
  BY <1>1, <1>2, AstrayFields, Zenon DEF Submit, WalkInv
<1> DEFINE p == [a EXCEPT !.offset = 0]
<1>4. /\ page' = p /\ UNCHANGED <<entry, clock>>
      /\ reader' = [s \in AuditReaders |-> IF s = r THEN Asked(a) ELSE IF s = e THEN Asked(p) ELSE Astray(reader[s])]
  BY <1>2, Zenon DEF Submit
<1>5. 0 \in Int OBVIOUS
<1>6. p \in ReaderStates BY <1>5, Zenon DEF ReaderStates
<1>7. p.pc = "page" /\ p.op = "page" /\ p.limit = PageLimit /\ p.owed = {} /\ ~p.orderly
  BY <1>3, <1>6, Zenon DEF ReaderStates
<1> HIDE DEF p
<1>8. /\ Asked(a) \in ReaderStates /\ QueryInv(Asked(a)) /\ Asked(p) \in ReaderStates /\ QueryInv(Asked(p))
  BY <1>3, <1>6, <1>7, AskedFields, AskedQuery, Zenon
<1>9. \A s \in AuditReaders : reader'[s] \in ReaderStates /\ QueryInv(reader'[s])
  BY <1>1, <1>4, <1>8, AstrayFields, AstrayQuery, Zenon
<1>10. reader' \in [AuditReaders -> ReaderStates] BY <1>4, <1>9, Zenon
<1> QED BY <1>4, <1>6, <1>7, <1>9, <1>10, LostStep, Zenon

\* An entry that comes gives rows only more newer ones, and takes the certain place
\* from some.
LEMMA LogGrows ==
  ASSUME NEW q, NEW p, p.tenant = q.tenant, p.filters = q.filters, p.seen = q.seen, p.owed = q.owed,
         q.owed \subseteq Found(q), Found(q) \subseteq Found(q)',
         \A x \in Found(q) : entry'[x].time = entry[x].time
  PROVE  /\ Found(p)' = Found(q)' /\ p.owed \subseteq Found(p)'
         /\ \A n \in Int : ShownBelow(q, n) => ShownBelow(p, n)'
         /\ AllShown(q) => AllShown(p)'
<1>1. Found(p)' = Found(q)' BY Zenon DEF Found, Selects
<1>2. ASSUME NEW e \in q.owed, Placed(p, e)' PROVE Placed(q, e)
  <2>1. \A x \in Found(q)' \ {e} : entry'[x].time # entry'[e].time BY <1>1, <1>2, Zenon DEF Placed
  <2> QED BY <2>1, Zenon DEF Placed
<1>3. ASSUME NEW e \in q.owed, NEW n \in Int, Cardinality(Newer(q, e)) >= n
      PROVE  Cardinality(Newer(p, e)') >= n
  <2>1. Newer(q, e) \in SUBSET Newer(p, e)' BY <1>1, Zenon DEF Newer
  <2>2. Newer(p, e)' \in SUBSET Entries BY Zenon DEF Newer, Found
  <2>3. IsFiniteSet(Newer(p, e)') BY <2>2, AuditAssumption, FS_Subset, Zenon
  <2>4. Cardinality(Newer(q, e)) <= Cardinality(Newer(p, e)') BY <2>1, <2>3, FS_Subset, Zenon
  <2>5. Cardinality(Newer(p, e)') \in Nat BY <2>3, FS_CardinalityType, Zenon
  <2> QED BY <1>3, <2>4, <2>5, NewerNat
<1>4. ASSUME NEW n \in Int, ShownBelow(q, n) PROVE ShownBelow(p, n)'
  BY <1>2, <1>3, <1>4, Zenon DEF ShownBelow
<1>5. ASSUME AllShown(q) PROVE AllShown(p)' BY <1>2, <1>5, Zenon DEF AllShown
<1>6. p.owed \subseteq Found(p)' BY <1>1, Zenon
<1> QED BY <1>1, <1>4, <1>5, <1>6, Zenon

\* A query p, of which an entry may have interrupted the count, has what q had.
LEMMA QueryGrows ==
  ASSUME NEW q \in ReaderStates, QueryInv(q), NEW p \in ReaderStates, SameWalk(p, q),
         p.pc = q.pc /\ p.total = q.total /\ p.seen = q.seen,
         Found(q) \subseteq Found(q)', \A x \in Found(q) : entry'[x].time = entry[x].time,
         p.pc # "select" => p.raced = q.raced,
         p.pc = "select" /\ p.orderly /\ ~p.raced => ~q.raced /\ Found(q)' = Found(q)
  PROVE  QueryInv(p)'
<1>1. /\ p.op = q.op /\ p.tenant = q.tenant /\ p.filters = q.filters /\ p.limit = q.limit
      /\ p.offset = q.offset /\ p.owed = q.owed /\ p.orderly = q.orderly
  BY Zenon DEF SameWalk
<1>2. q.owed \subseteq Found(q) BY Zenon DEF QueryInv
<1>3. /\ Found(p)' = Found(q)' /\ p.owed \subseteq Found(p)'
      /\ \A n \in Int : ShownBelow(q, n) => ShownBelow(p, n)'
      /\ AllShown(q) => AllShown(p)'
  BY <1>1, <1>2, LogGrows, Zenon
<1>4. q.offset \in Int /\ q.offset + q.limit \in Int
  <2>1. q.offset \in Int /\ q.limit \in Int BY QueryNumbers, Zenon
  <2> QED BY <2>1
<1>5. ASSUME p.op # "export", p.orderly
      PROVE  /\ p.limit = PageLimit
             /\ p.pc \in {"count", "select"} => ShownBelow(p, p.offset)'
             /\ p.pc = "select" /\ ~p.raced => p.total = Cardinality(Found(p)')
             /\ p.pc = "answer" => Answered(p)'
  <2>1. p.pc \in {"count", "select"} => ShownBelow(p, p.offset)' BY <1>1, <1>3, <1>4, <1>5, Zenon DEF QueryInv
  <2>2. p.pc = "select" /\ ~p.raced => p.total = Cardinality(Found(p)') BY <1>1, <1>3, <1>5, Zenon DEF QueryInv
  <2>3. ASSUME p.pc = "answer" PROVE Answered(p)'
    <3>1. Answered(q) BY <1>1, <1>5, <2>3, Zenon DEF QueryInv
    <3>2. p.raced = q.raced BY <2>3, Zenon
    <3> QED BY <1>1, <1>3, <1>4, <3>1, <3>2, Zenon DEF Answered
  <2>4. p.limit = PageLimit BY <1>1, <1>5, Zenon DEF QueryInv
  <2> QED BY <2>1, <2>2, <2>3, <2>4, Zenon
<1>6. (~p.orderly => p.owed = {}) /\ (p.pc = "idle" => p.op # "page") /\ (p.pc = "refused" => p.filters = 7 /\ p.offset > 0)
  BY <1>1, Zenon DEF QueryInv
<1>7. p.op = "export" =>
        /\ p.offset = 0
        /\ p.pc \in {"count", "select"} => p.seen = {}
        /\ p.pc = "answer" /\ Cardinality(p.seen) < ExportLimit => p.owed \subseteq p.seen
  BY <1>1, Zenon DEF QueryInv
<1> QED BY <1>3, <1>5, <1>6, <1>7, Zenon DEF QueryInv

\* The page, which asks for nothing now, has what it had.
LEMMA PageGrows ==
  ASSUME NEW p \in ReaderStates, WalkInv(p),
         Found(p) \subseteq Found(p)', \A x \in Found(p) : entry'[x].time = entry[x].time,
         \A r \in AuditReaders : SameWalk(reader'[r], reader[r])
  PROVE  WalkInv(p)'
<1>1. /\ p.owed \subseteq Found(p)' /\ (\A n \in Int : ShownBelow(p, n) => ShownBelow(p, n)')
      /\ (AllShown(p) => AllShown(p)')
  BY LogGrows, Zenon DEF WalkInv
<1>2. p.offset + p.limit \in Int
  <2>1. p.offset \in Int /\ p.limit \in Int BY QueryNumbers, Zenon
  <2> QED BY <2>1
<1>3. Answered(p) => Answered(p)' BY <1>1, <1>2, Zenon DEF Answered
<1>4. \A r \in AuditReaders : reader'[r].op = reader[r].op BY Zenon DEF SameWalk
<1>5. Loading' <=> Loading BY <1>4, Zenon DEF Loading
<1>6. \A r \in AuditReaders : SameWalk(reader[r], p) => SameWalk(reader'[r], p) BY Zenon DEF SameWalk
<1>7. p.orderly => \A s \in AuditReaders : reader'[s].op = "page" =>
                     SameWalk(reader'[s], p) /\ \A t \in AuditReaders : reader'[t].op = "page" => t = s
  BY <1>4, <1>6, Zenon DEF WalkInv
<1> QED BY <1>1, <1>3, <1>5, <1>7, Zenon DEF WalkInv, SameWalk

\* An INSERT that starts is not visible.
LEMMA LogStartStep == ASSUME AuditInv, NEW t \in Tenants, LogStart(t) PROVE AuditInv'
<1> DEFINE logged == {x \in Entries : entry[x] # None}
<1>1. PICK e \in Draw(Entries \ logged) :
        \E now \in {clock, clock + 1} \cap 0..Cardinality(logged), hit \in BOOLEAN :
          /\ clock' = now
          /\ entry' = [entry EXCEPT ![e] = [tenant |-> t, time |-> now, hit |-> hit, visible |-> FALSE]]
  BY Zenon DEF LogStart
<1>2. e \in Entries /\ entry[e] = None BY Zenon DEF Draw
<1>3. 0..Cardinality(logged) \subseteq Timestamps
  <2>1. logged \in SUBSET Entries BY Zenon
  <2>2. IsFiniteSet(logged) /\ Cardinality(logged) <= Cardinality(Entries) BY <2>1, AuditAssumption, FS_Subset, Zenon
  <2>3. Cardinality(logged) \in Nat /\ Cardinality(Entries) \in Nat BY <2>2, AuditAssumption, FS_CardinalityType, Zenon
  <2> HIDE DEF logged
  <2> QED BY <2>2, <2>3 DEF Timestamps
<1>4. PICK now \in Timestamps, hit \in BOOLEAN :
          /\ clock' = now
          /\ entry' = [entry EXCEPT ![e] = [tenant |-> t, time |-> now, hit |-> hit, visible |-> FALSE]]
  BY <1>1, <1>3, Zenon
<1> DEFINE row == [tenant |-> t, time |-> now, hit |-> hit, visible |-> FALSE]
<1>5. row \in EntryRows /\ row.visible = FALSE BY Zenon DEF EntryRows
<1>6. entry' = [entry EXCEPT ![e] = row] /\ clock' = now /\ UNCHANGED <<reader, page>> BY <1>4, Zenon DEF LogStart
<1> HIDE DEF row, logged
<1>7. AuditTypeOK' BY <1>2, <1>5, <1>6, Zenon DEF AuditInv, AuditTypeOK
<1>8. ASSUME NEW q \in ReaderStates
      PROVE  Found(q)' = Found(q) /\ \A x \in Found(q) : entry'[x].time = entry[x].time
  BY <1>2, <1>5, <1>6, Zenon DEF Found, AuditInv, AuditTypeOK
<1>9. ASSUME NEW q \in ReaderStates, q \in Open' PROVE QueryInv(q)'
  <2>1. QueryInv(q) BY <1>6, <1>9, Zenon DEF Open, AuditInv
  <2>2. SameWalk(q, q) BY Zenon DEF SameWalk
  <2> QED BY <1>8, <2>1, <2>2, QueryGrows, Zenon
<1>10. ASSUME NEW p \in ReaderStates, p = page' PROVE WalkInv(p)'
  <2>1. WalkInv(p) BY <1>6, <1>10, Zenon DEF AuditInv
  <2>2. \A r \in AuditReaders : SameWalk(reader'[r], reader[r]) BY <1>6, Zenon DEF SameWalk
  <2> QED BY <1>8, <2>1, <2>2, PageGrows, Zenon
<1> QED BY <1>7, <1>9, <1>10, Zenon DEF AuditInv

\* A commit adds an entry to what is found, and is noted where it interrupts.
LEMMA LogCommitStep == ASSUME AuditInv, NEW e \in Entries, LogCommit(e) PROVE AuditInv'
<1> DEFINE row == [entry[e] EXCEPT !.visible = TRUE]
           Hit(q) == q.pc = "select" /\ q.orderly /\ Selects(q, entry[e])
           Seen(q) == IF Hit(q) THEN [q EXCEPT !.raced = TRUE] ELSE q
<1>1. /\ entry[e] # None /\ ~entry[e].visible /\ entry' = [entry EXCEPT ![e] = row] /\ UNCHANGED <<clock, page>>
      /\ reader' = [r \in AuditReaders |-> Seen(reader[r])]
  BY Zenon DEF LogCommit, AuditInv, AuditTypeOK
<1>2. entry[e] \in EntryRows BY <1>1, Zenon DEF AuditInv, AuditTypeOK
<1>3. /\ row \in EntryRows /\ row.tenant = entry[e].tenant /\ row.time = entry[e].time /\ row.hit = entry[e].hit
      /\ row.visible = TRUE
  BY <1>2, Zenon DEF EntryRows
<1> HIDE DEF row
<1>4. ASSUME NEW q \in ReaderStates
      PROVE  /\ Seen(q) \in ReaderStates /\ SameWalk(Seen(q), q)
             /\ Seen(q).pc = q.pc /\ Seen(q).total = q.total /\ Seen(q).seen = q.seen
             /\ q.pc # "select" => Seen(q).raced = q.raced
             /\ Seen(q).pc = "select" /\ Seen(q).orderly /\ ~Seen(q).raced => ~q.raced /\ ~Selects(q, entry[e])
  <2>1. CASE Hit(q)
    <3>1. Seen(q) = [q EXCEPT !.raced = TRUE] BY <2>1, Zenon
    <3>2. [q EXCEPT !.raced = TRUE] \in ReaderStates BY Zenon DEF ReaderStates
    <3>3. SameWalk([q EXCEPT !.raced = TRUE], q) BY Zenon DEF ReaderStates, SameWalk
    <3>4. LET x == [q EXCEPT !.raced = TRUE] IN x.raced = TRUE /\ x.pc = q.pc /\ x.total = q.total /\ x.seen = q.seen
      BY Zenon DEF ReaderStates
    <3> QED BY <2>1, <3>1, <3>2, <3>3, <3>4, Zenon
  <2>2. CASE ~Hit(q)
    <3>1. Seen(q) = q BY <2>2, Zenon
    <3>2. SameWalk(q, q) BY Zenon DEF SameWalk
    <3> QED BY <2>2, <3>1, <3>2, Zenon
  <2> QED BY <2>1, <2>2, Zenon
<1> HIDE DEF Seen, Hit
<1>5. AuditTypeOK' BY <1>1, <1>3, <1>4, Zenon DEF AuditInv, AuditTypeOK
<1>6. ASSUME NEW q \in ReaderStates
      PROVE  /\ Found(q) \subseteq Found(q)' /\ \A x \in Found(q) : entry'[x].time = entry[x].time
             /\ ~Selects(q, entry[e]) => Found(q)' = Found(q)
  <2>1. \A x \in Entries \ {e} : entry'[x] = entry[x] BY <1>1, Zenon DEF AuditInv, AuditTypeOK
  <2>2. entry'[e] = row BY <1>1, Zenon DEF AuditInv, AuditTypeOK
  <2>3. e \notin Found(q) BY <1>1, Zenon DEF Found
  <2>4. Found(q) \subseteq Found(q)' /\ \A x \in Found(q) : entry'[x].time = entry[x].time
    BY <2>1, <2>3, Zenon DEF Found
  <2>5. Selects(q, row) <=> Selects(q, entry[e]) BY <1>3, Zenon DEF Selects
  <2>6. ~Selects(q, entry[e]) => Found(q)' = Found(q) BY <2>1, <2>2, <2>3, <2>5 DEF Found
  <2> QED BY <2>4, <2>6, Zenon
<1>7. ASSUME NEW p \in ReaderStates, p \in Open' PROVE QueryInv(p)'
  <2>1. PICK r \in AuditReaders : p = Seen(reader[r]) BY <1>1, <1>7, Zenon DEF Open
  <2>2. PICK q \in ReaderStates : q = reader[r] BY Zenon DEF AuditInv, AuditTypeOK
  <2>3. QueryInv(q) /\ p = Seen(q) BY <2>1, <2>2, Zenon DEF AuditInv, Open
  <2>4. p.pc = "select" /\ p.orderly /\ ~p.raced => ~q.raced /\ Found(q)' = Found(q) BY <1>4, <1>6, <2>3, Zenon
  <2> QED BY <1>4, <1>6, <2>3, <2>4, QueryGrows, Zenon
<1>8. ASSUME NEW p \in ReaderStates, p = page' PROVE WalkInv(p)'
  <2>1. WalkInv(p) BY <1>1, <1>8, Zenon DEF AuditInv
  <2>2. \A r \in AuditReaders : SameWalk(reader'[r], reader[r]) BY <1>1, <1>4, Zenon DEF AuditInv, AuditTypeOK
  <2> QED BY <1>6, <2>1, <2>2, PageGrows, Zenon
<1> QED BY <1>5, <1>7, <1>8, Zenon DEF AuditInv

\* Nothing is logged and no page is open at the start.
LEMMA AuditInvInit == AuditInit => AuditInv
<1> SUFFICES ASSUME AuditInit PROVE AuditInv BY Zenon
<1>1. Cardinality(Entries) \in Nat BY AuditAssumption, FS_CardinalityType, Zenon
<1>2. clock \in Timestamps BY <1>1 DEF AuditInit, Timestamps
<1>3. AuditTypeOK BY <1>2, IdleQuery, Zenon DEF AuditInit, AuditTypeOK
<1>4. \A q \in ReaderStates : q \in Open => QueryInv(q) BY IdleQuery, Zenon DEF Open, AuditInit
<1>5. \A p \in ReaderStates : p = page => WalkInv(p) BY IdleQuery, Zenon DEF AuditInit, WalkInv
<1> QED BY <1>3, <1>4, <1>5, Zenon DEF AuditInv

\* Every step of the log, its queries and the page keeps the invariant.
LEMMA AuditInvStep == AuditInv /\ [AuditNext]_auditVars => AuditInv'
<1> SUFFICES ASSUME AuditInv, [AuditNext]_auditVars PROVE AuditInv' BY Zenon
<1>1. ASSUME NEW t \in Tenants, LogStart(t) PROVE AuditInv' BY <1>1, LogStartStep, Zenon
<1>2. ASSUME NEW e \in Entries, LogCommit(e) PROVE AuditInv' BY <1>2, LogCommitStep, Zenon
<1>3. ASSUME NEW f \in Filters \cap 0..2, EditFilters(f) PROVE AuditInv' BY <1>3, EditFiltersStep, Zenon
<1>4. ASSUME NEW r \in AuditReaders, NEW t \in Tenants, NEW f \in Filters,
             (\E n \in QueryLimits, o \in {0, 1} : Ask(r, t, f, n, o)) \/ AskExport(r, t, f)
      PROVE  AuditInv'
  BY <1>4, AskStep, Zenon
<1>5. ASSUME NEW r \in AuditReaders, (\E t \in Tenants : OpenPage(r, t)) \/ Resubmit(r) PROVE AuditInv'
  BY <1>5, WalkStep, Zenon
<1>6. ASSUME NEW r \in AuditReaders, NextPage(r) \/ PreviousPage(r) PROVE AuditInv' BY <1>6, TurnStep, Zenon
<1>7. ASSUME NEW r \in AuditReaders, NEW e \in AuditReaders, Submit(r, e) PROVE AuditInv' BY <1>7, SubmitStep, Zenon
<1>8. ASSUME NEW r \in AuditReaders, Count(r) \/ Select(r) \/ Show(r) \/ Fail(r) PROVE AuditInv'
  BY <1>8, CountStep, SelectStep, ShowStep, FailStep, Zenon
<1>9. CASE UNCHANGED auditVars
  <2>1. UNCHANGED <<entry, clock, reader, page>> BY <1>9, Zenon DEF auditVars
  <2>2. ASSUME NEW q \in ReaderStates, q \in Open' PROVE QueryInv(q)'
    <3>1. QueryInv(q) BY <2>1, <2>2, Zenon DEF Open, AuditInv
    <3> QED BY <2>1, <3>1, LogKept, Zenon
  <2>3. ASSUME NEW p \in ReaderStates, p = page' PROVE WalkInv(p)'
    <3>1. WalkInv(p) BY <2>1, <2>3, Zenon DEF AuditInv
    <3> QED BY <2>1, <3>1, AnsweredKept, Zenon DEF WalkInv, Loading, SameWalk
  <2>4. AuditTypeOK' BY <2>1, Zenon DEF AuditInv, AuditTypeOK
  <2> QED BY <2>2, <2>3, <2>4, Zenon DEF AuditInv
<1> QED BY <1>1, <1>2, <1>3, <1>4, <1>5, <1>6, <1>7, <1>8, <1>9, Zenon DEF AuditNext

\* What every query and the page satisfy, whatever is logged meanwhile (Log,
\* store.Query, Export, loadLogs, handlePageChange, handleFilterSubmit).
THEOREM AuditInvariance == AuditSpec => []AuditInv
  BY AuditInvInit, AuditInvStep, PTL DEF AuditSpec

\* Every query satisfies what queries do.
LEMMA OpenQuery ==
  ASSUME AuditInv, NEW r \in AuditReaders
  PROVE  reader[r] \in ReaderStates /\ QueryInv(reader[r])
  BY Zenon DEF AuditInv, AuditTypeOK, Open

\* Paging through to the end, one load after the other and none failing, shows every
\* entry that was there at the start and whose place is certain, however many
\* entries arrive in whatever order, unless one came between the last count and the
\* last select (store.Query, loadLogs, handlePageChange).
THEOREM PagesShowAll == AuditSpec => []PagingComplete
<1>1. ASSUME AuditInv PROVE PagingComplete
  <2>1. page \in ReaderStates /\ WalkInv(page) BY <1>1, Zenon DEF AuditInv, AuditTypeOK
  <2>2. page.offset \in Int /\ page.limit \in Int /\ page.total \in Nat BY <2>1, QueryNumbers, Zenon
  <2>3. page.offset + page.limit >= page.total => page.total <= page.offset + page.limit BY <2>2
  <2> QED BY <2>1, <2>3, Zenon DEF PagingComplete, WalkInv, Answered, AllShown
<1> QED BY <1>1, AuditInvariance, PTL

\* An export shorter than its limit holds every entry that was there when it
\* was asked for (Export).
THEOREM ExportsAreComplete == AuditSpec => []ExportComplete
<1>1. AuditInv => ExportComplete BY OpenQuery, Zenon DEF ExportComplete, QueryInv
<1> QED BY <1>1, AuditInvariance, PTL

\* Only a later page under all seven filters is refused (store.Query, itoa).
THEOREM RefusedAtTen == AuditSpec => []RefusedOnlyAtTen
<1>1. AuditInv => RefusedOnlyAtTen BY OpenQuery, Zenon DEF RefusedOnlyAtTen, QueryInv
<1> QED BY <1>1, AuditInvariance, PTL
-----------------------------------------------------------------------------
(* The rate limiter *)

\* The limiters that requests of address a may still draw on: the one in the
\* map and those fetched before the map was emptied.
Held(a) ==
  {l \in Limiters : ips[a] = l \/ \E q \in Requests : request[q].ip = a /\ request[q].limiter = l}

\* The tokens in their buckets.
Tokens(a) == {x \in Held(a) \X (1..Burst) : x[2] <= bucket[x[1]]}

\* The most limiters that were ever made for a: one, and one more after every
\* time the map was emptied.
Made(a) == IF ips[a] = None THEN resets ELSE resets + 1

\* A request holds a limiter from Lookup to Allow, and what is held is not
\* collected.
LimiterShape ==
  /\ ips \in [Addresses -> Limiters \cup {None}]
  /\ bucket \in [Limiters -> (0..Burst) \cup {None}]
  /\ request \in [Requests -> [pc : {"idle", "get", "allow"}, ip : Addresses \cup {None},
                               limiter : Limiters \cup {None}]]
  /\ time \in 0..MaxTime
  /\ admitted \in [Addresses -> Nat]
  /\ resets \in 0..MaxResets
  /\ \A q \in Requests : /\ request[q].pc = "get" => request[q].ip \in Addresses /\ request[q].limiter = None
                         /\ request[q].pc = "allow" => request[q].ip \in Addresses /\ request[q].limiter \in Limiters
  /\ \A a \in Addresses : \A l \in Held(a) : bucket[l] # None

\* What a has spent and could spend at once is within its budget.
WithinBudget(a) ==
  /\ IsFiniteSet(Held(a)) /\ Cardinality(Held(a)) <= Made(a)
  /\ admitted[a] + Cardinality(Tokens(a)) <= Made(a) * (Burst + Refill * time)

LimiterInv == LimiterShape /\ \A a \in Addresses : WithinBudget(a)

\* Tokens of finitely many limiters are finitely many.
LEMMA FiniteTokens ==
  ASSUME NEW H, IsFiniteSet(H), NEW T \in SUBSET (H \X (1..Burst))
  PROVE  IsFiniteSet(T) /\ Cardinality(T) \in Nat
<1>1. IsFiniteSet(1..Burst) BY FS_Interval, LimiterAssumption
<1>2. IsFiniteSet(H \X (1..Burst)) BY <1>1, FS_Product, Zenon
<1> QED BY <1>2, FS_Subset, FS_CardinalityType, Zenon

\* A union has at most as many elements as its parts together.
LEMMA UnionBound ==
  ASSUME NEW S, NEW T, IsFiniteSet(S), IsFiniteSet(T)
  PROVE  /\ IsFiniteSet(S \cup T)
         /\ Cardinality(S \cup T) <= Cardinality(S) + Cardinality(T)
<1>1. IsFiniteSet(S \cup T) /\ Cardinality(S \cup T) = Cardinality(S) + Cardinality(T) - Cardinality(S \cap T)
  BY FS_Union, Zenon
<1>2. Cardinality(S) \in Nat /\ Cardinality(T) \in Nat BY FS_CardinalityType, Zenon
<1>3. IsFiniteSet(S \cap T) BY FS_Intersection, Zenon
<1>4. Cardinality(S \cap T) \in Nat BY <1>3, FS_CardinalityType, Zenon
<1> QED BY <1>1, <1>2, <1>4

\* Products of naturals are naturals.
LEMMA ProductNat == ASSUME NEW m \in Nat, NEW x \in Nat PROVE m * x \in Nat
<1>1. m * x \in Int OBVIOUS
<1>2. m * x >= 0 OBVIOUS
<1> QED BY <1>1, <1>2

\* A larger number of limiters has a larger budget.
LEMMA BudgetGrows ==
  ASSUME NEW m \in Nat, NEW n \in Nat, NEW x \in Nat, m <= n
  PROVE  m * x \in Nat /\ m * x <= n * x
<1> DEFINE k == n - m
<1>1. k \in Nat /\ n = m + k OBVIOUS
<1> HIDE DEF k
<1>2. m * x \in Nat /\ k * x \in Nat BY <1>1, ProductNat, Zenon
<1>3. n * x = m * x + k * x BY <1>1
<1> QED BY <1>2, <1>3

\* Made counts.
LEMMA MadeNat == ASSUME LimiterShape, NEW a PROVE Made(a) \in Nat
<1>1. resets \in Nat BY LimiterAssumption DEF LimiterShape
<1> QED BY <1>1 DEF Made

LEMMA MadeNatNext == ASSUME LimiterShape', NEW a PROVE Made(a)' \in Nat
<1>1. resets' \in Nat BY LimiterAssumption DEF LimiterShape
<1>2. \A n \in Nat : n + 1 \in Nat OBVIOUS
<1> QED BY <1>1, <1>2, Zenon DEF Made

\* A budget is a number.
LEMMA BudgetNat == ASSUME LimiterShape, NEW a PROVE Made(a) * (Burst + Refill * time) \in Nat
<1>1. time \in Nat BY LimiterAssumption DEF LimiterShape
<1>2. Refill * time \in Nat BY <1>1, LimiterAssumption, ProductNat, Zenon
<1>3. Burst + Refill * time \in Nat BY <1>2, LimiterAssumption
<1> QED BY <1>3, MadeNat, ProductNat, Zenon

\* A step that adds no limiter and no token to an address's, spends none and
\* does not lower the number of limiters it had, keeps it within its budget.
LEMMA NoGain ==
  ASSUME LimiterInv, LimiterShape', NEW a \in Addresses,
         Held(a)' \subseteq Held(a), Tokens(a)' \subseteq Tokens(a),
         admitted'[a] = admitted[a], time' = time, Made(a) <= Made(a)'
  PROVE  WithinBudget(a)'
<1>1. WithinBudget(a) BY Zenon DEF LimiterInv
<1>2. IsFiniteSet(Held(a)') /\ Cardinality(Held(a)') <= Cardinality(Held(a)) /\ Cardinality(Held(a)') \in Nat
  BY <1>1, FS_Subset, FS_CardinalityType, Zenon DEF WithinBudget
<1>3. Cardinality(Held(a)) \in Nat BY <1>1, FS_CardinalityType, Zenon DEF WithinBudget
<1>4. Made(a) \in Nat /\ Made(a)' \in Nat
  BY MadeNat, MadeNatNext, Zenon DEF LimiterInv
<1>5. IsFiniteSet(Tokens(a)) /\ Cardinality(Tokens(a)) \in Nat
  BY <1>1, FiniteTokens, Zenon DEF WithinBudget, Tokens
<1>6. Cardinality(Tokens(a)') <= Cardinality(Tokens(a)) /\ Cardinality(Tokens(a)') \in Nat
  BY <1>5, FS_Subset, FS_CardinalityType, Zenon
<1> DEFINE x == Burst + Refill * time
<1>7. x \in Nat /\ x = (Burst + Refill * time)'
  <2>1. time \in Nat BY LimiterAssumption DEF LimiterInv, LimiterShape
  <2>2. Refill * time \in Nat BY <2>1, LimiterAssumption, ProductNat, Zenon
  <2> QED BY <2>2, LimiterAssumption
<1>8. admitted[a] \in Nat BY Zenon DEF LimiterInv, LimiterShape
<1>9. admitted[a] + Cardinality(Tokens(a)) <= Made(a) * x BY <1>1, Zenon DEF WithinBudget
<1> HIDE DEF x
<1>10. Made(a) * x <= Made(a)' * x /\ Made(a) * x \in Nat /\ Made(a)' * x \in Nat BY <1>4, <1>7, BudgetGrows
<1>11. admitted'[a] + Cardinality(Tokens(a)') <= Made(a)' * x BY <1>6, <1>5, <1>8, <1>9, <1>10
<1>12. Cardinality(Held(a)') <= Made(a)' BY <1>1, <1>2, <1>3, <1>4 DEF WithinBudget
<1> QED BY <1>2, <1>7, <1>11, <1>12, Zenon DEF WithinBudget

\* The runtime collects no limiter that is held.
LEMMA CollectKeeps ==
  ASSUME NEW b \in [Limiters -> (0..Burst) \cup {None}], NEW map, NEW reqs
  PROVE  /\ Collect(b, map, reqs) \in [Limiters -> (0..Burst) \cup {None}]
         /\ \A l \in Limiters : (\E a \in Addresses : map[a] = l) \/ (\E q \in Requests : reqs[q].limiter = l)
                                   => Collect(b, map, reqs)[l] = b[l]
  BY Zenon DEF Collect

\* A request that arrives holds nothing yet.
LEMMA EnterStep ==
  ASSUME LimiterInv, NEW q \in Requests, NEW a \in Addresses, Enter(q, a)
  PROVE  LimiterInv'
<1> DEFINE new == [pc |-> "get", ip |-> a, limiter |-> None]
<1>1. new \in [pc : {"idle", "get", "allow"}, ip : Addresses \cup {None}, limiter : Limiters \cup {None}]
  BY Zenon
<1>2. new.pc = "get" /\ new.ip = a /\ new.limiter = None BY Zenon
<1>3. request' = [request EXCEPT ![q] = new] /\ UNCHANGED <<ips, bucket, time, admitted, resets>>
  BY Zenon DEF Enter
<1> HIDE DEF new
<1>4. ASSUME NEW b \in Addresses PROVE Held(b)' \subseteq Held(b)
  BY <1>2, <1>3, LimiterAssumption, Zenon DEF Held, LimiterInv, LimiterShape
<1>5. LimiterShape'
  <2>1. \A b \in Addresses : \A l \in Held(b)' : bucket'[l] # None BY <1>3, <1>4, Zenon DEF LimiterInv, LimiterShape
  <2>2. \A r \in Requests :
          /\ request'[r].pc = "get" => request'[r].ip \in Addresses /\ request'[r].limiter = None
          /\ request'[r].pc = "allow" => request'[r].ip \in Addresses /\ request'[r].limiter \in Limiters
    BY <1>2, <1>3, Zenon DEF LimiterInv, LimiterShape
  <2>3. request' \in [Requests -> [pc : {"idle", "get", "allow"}, ip : Addresses \cup {None},
                                   limiter : Limiters \cup {None}]]
    BY <1>1, <1>3, Zenon DEF LimiterInv, LimiterShape
  <2> QED BY <1>3, <2>1, <2>2, <2>3, Zenon DEF LimiterInv, LimiterShape
<1>6. ASSUME NEW b \in Addresses PROVE WithinBudget(b)'
  <2>1. Tokens(b)' \subseteq Tokens(b) BY <1>3, <1>4, Zenon DEF Tokens
  <2>2. Made(b)' = Made(b) BY <1>3, Zenon DEF Made
  <2>3. Made(b) <= Made(b)' BY <2>2, MadeNat DEF LimiterInv
  <2> QED BY <1>3, <1>4, <1>5, <2>1, <2>3, NoGain, Zenon
<1> QED BY <1>5, <1>6, Zenon DEF LimiterInv

\* Emptying the map leaves an address at most the limiters its requests hold,
\* and allows it one more.
LEMMA CleanupStep == ASSUME LimiterInv, Cleanup PROVE LimiterInv'
<1>1. /\ ips' = [a \in Addresses |-> None] /\ bucket' = Collect(bucket, ips', request)
      /\ resets' = resets + 1 /\ resets < MaxResets /\ UNCHANGED <<request, time, admitted>>
  BY Zenon DEF Cleanup
<1>2. resets \in Nat /\ resets' \in Nat /\ resets' \in 0..MaxResets
  BY <1>1, LimiterAssumption DEF LimiterInv, LimiterShape
<1>3. ASSUME NEW b \in Addresses PROVE Held(b)' \subseteq Held(b)
  BY <1>1, LimiterAssumption, Zenon DEF Held
<1>4. bucket' \in [Limiters -> (0..Burst) \cup {None}] BY <1>1, CollectKeeps, Zenon DEF LimiterInv, LimiterShape
<1>5. ASSUME NEW b \in Addresses, NEW l \in Held(b)' PROVE bucket'[l] = bucket[l]
  <2>1. l \in Limiters /\ \E q \in Requests : request[q].limiter = l
    BY <1>1, LimiterAssumption, Zenon DEF Held
  <2> QED BY <1>1, <2>1, CollectKeeps DEF LimiterInv, LimiterShape
<1>6. LimiterShape'
  <2>1. \A b \in Addresses : \A l \in Held(b)' : bucket'[l] # None
    BY <1>3, <1>5, Zenon DEF LimiterInv, LimiterShape
  <2> QED BY <1>1, <1>2, <1>4, <2>1, Zenon DEF LimiterInv, LimiterShape
<1>7. ASSUME NEW b \in Addresses PROVE WithinBudget(b)'
  <2>1. Tokens(b)' \subseteq Tokens(b) BY <1>3, <1>5, Zenon DEF Tokens
  <2>2. Made(b)' = resets + 1 BY <1>1, Zenon DEF Made
  <2>3. Made(b) <= resets + 1 BY <1>2 DEF Made
  <2>4. Made(b) <= Made(b)' BY <2>2, <2>3, Zenon
  <2> QED BY <1>1, <1>3, <1>6, <2>1, <2>4, NoGain, Zenon
<1> QED BY <1>6, <1>7, Zenon DEF LimiterInv

\* A request that is let through spends a token its address had; one that is
\* refused spends none.
LEMMA AllowStep == ASSUME LimiterInv, NEW q \in Requests, Allow(q) PROVE LimiterInv'
<1>0. PICK l \in Limiters : request[q].limiter = l BY Zenon DEF Allow, LimiterInv, LimiterShape
<1>1. PICK a \in Addresses : request[q].ip = a BY Zenon DEF Allow, LimiterInv, LimiterShape
<1> DEFINE taken == IF bucket[l] > 0 THEN [bucket EXCEPT ![l] = @ - 1] ELSE bucket
<1>2. bucket[l] \in 0..Burst /\ l \in Held(a)
  BY <1>0, <1>1, Zenon DEF LimiterInv, LimiterShape, Held
<1>3. /\ request' = [request EXCEPT ![q] = RequestIdle] /\ UNCHANGED <<ips, time, resets>>
      /\ bucket' = Collect(taken, ips', request')
      /\ admitted' = IF bucket[l] > 0 THEN [admitted EXCEPT ![a] = @ + 1] ELSE admitted
  BY <1>0, <1>1, Zenon DEF Allow
<1>4. taken \in [Limiters -> (0..Burst) \cup {None}]
  BY <1>1, <1>2, LimiterAssumption DEF LimiterInv, LimiterShape
<1>5. ASSUME NEW m \in Limiters, bucket[m] # None
      PROVE  taken[m] \in 0..Burst /\ taken[m] <= bucket[m]
  BY <1>1, <1>2, <1>5, LimiterAssumption DEF LimiterInv, LimiterShape
<1>6. bucket[l] > 0 => taken[l] = bucket[l] - 1 BY <1>1, Zenon DEF LimiterInv, LimiterShape
<1> HIDE DEF taken
<1>7. RequestIdle \in [pc : {"idle", "get", "allow"}, ip : Addresses \cup {None}, limiter : Limiters \cup {None}]
      /\ RequestIdle.pc = "idle" /\ RequestIdle.ip = None /\ RequestIdle.limiter = None
  BY Zenon DEF RequestIdle
<1>8. ASSUME NEW b \in Addresses PROVE Held(b)' \subseteq Held(b)
  BY <1>3, <1>7, LimiterAssumption, Zenon DEF Held, LimiterInv, LimiterShape
<1>9. bucket' \in [Limiters -> (0..Burst) \cup {None}] BY <1>3, <1>4, CollectKeeps, Zenon
<1>10. ASSUME NEW b \in Addresses, NEW m \in Held(b)'
       PROVE  m \in Limiters /\ bucket[m] \in 0..Burst /\ bucket'[m] = taken[m]
  <2>1. m \in Held(b) BY <1>8, Zenon
  <2>2. m \in Limiters /\ ((\E c \in Addresses : ips'[c] = m) \/ (\E r \in Requests : request'[r].limiter = m))
    BY Zenon DEF Held
  <2>3. Collect(taken, ips', request')[m] = taken[m] BY <1>4, <2>2, CollectKeeps
  <2>4. bucket'[m] = taken[m] BY <1>3, <2>3, Zenon
  <2> QED BY <2>1, <2>2, <2>4, Zenon DEF LimiterInv, LimiterShape
<1>11. LimiterShape'
  <2>1. ASSUME NEW b \in Addresses, NEW m \in Held(b)' PROVE bucket'[m] # None
    <3>1. m \in Limiters /\ bucket[m] # None /\ bucket'[m] = taken[m] BY <1>10, LimiterAssumption, Zenon
    <3> QED BY <3>1, <1>5, LimiterAssumption, Zenon
  <2>2. \A r \in Requests :
          /\ request'[r].pc = "get" => request'[r].ip \in Addresses /\ request'[r].limiter = None
          /\ request'[r].pc = "allow" => request'[r].ip \in Addresses /\ request'[r].limiter \in Limiters
    BY <1>3, <1>7, Zenon DEF LimiterInv, LimiterShape
  <2>3. request' \in [Requests -> [pc : {"idle", "get", "allow"}, ip : Addresses \cup {None},
                                   limiter : Limiters \cup {None}]]
    BY <1>3, <1>7, Zenon DEF LimiterInv, LimiterShape
  <2>4. admitted' \in [Addresses -> Nat] BY <1>1, <1>3 DEF LimiterInv, LimiterShape
  <2> QED BY <1>3, <1>9, <2>1, <2>2, <2>3, <2>4, Zenon DEF LimiterInv, LimiterShape
<1>12. ASSUME NEW b \in Addresses PROVE Tokens(b)' \subseteq Tokens(b)
  <2> SUFFICES ASSUME NEW x \in Tokens(b)' PROVE x \in Tokens(b) BY Zenon
  <2>1. x \in Held(b)' \X (1..Burst) /\ x[2] <= bucket'[x[1]] BY Zenon DEF Tokens
  <2>2. x \in Held(b) \X (1..Burst) BY <2>1, <1>8, Zenon
  <2>3. x[1] \in Held(b)' /\ x[2] \in 1..Burst BY <2>1, Zenon
  <2>4. bucket[x[1]] \in 0..Burst /\ bucket'[x[1]] = taken[x[1]] /\ x[1] \in Limiters BY <2>3, <1>10, Zenon
  <2>5. taken[x[1]] \in 0..Burst /\ taken[x[1]] <= bucket[x[1]] BY <2>4, <1>5, LimiterAssumption, Zenon
  <2>6. x[2] <= bucket[x[1]] BY <2>1, <2>3, <2>4, <2>5, LimiterAssumption
  <2> QED BY <2>2, <2>6, Zenon DEF Tokens
<1>13. ASSUME NEW b \in Addresses PROVE Made(b)' = Made(b) BY <1>3, Zenon DEF Made
<1>14. ASSUME NEW b \in Addresses, admitted'[b] = admitted[b] PROVE WithinBudget(b)'
  <2>1. Made(b) <= Made(b)' BY <1>13, MadeNat DEF LimiterInv
  <2> QED BY <1>3, <1>8, <1>11, <1>12, <1>14, <2>1, NoGain, Zenon
<1>15. CASE ~(bucket[l] > 0) BY <1>3, <1>11, <1>14, <1>15, Zenon DEF LimiterInv
<1>16. CASE bucket[l] > 0
  <2> DEFINE spent == <<l, bucket[l]>>
  <2>1. spent \in Tokens(a) BY <1>2, <1>16, LimiterAssumption DEF Tokens
  <2>2. spent \notin Tokens(a)'
    <3> SUFFICES ASSUME spent \in Tokens(a)' PROVE FALSE BY Zenon
    <3>1. spent[1] = l /\ spent[2] = bucket[l] BY Zenon
    <3>2. l \in Held(a)' /\ bucket[l] <= bucket'[l] BY <3>1, Zenon DEF Tokens
    <3>3. bucket'[l] = bucket[l] - 1 BY <1>6, <1>10, <1>16, <3>2, <1>1, Zenon
    <3> QED BY <1>2, <3>2, <3>3, LimiterAssumption
  <2> HIDE DEF spent
  <2>3. WithinBudget(a) BY <1>1, Zenon DEF LimiterInv
  <2>4. IsFiniteSet(Held(a)') /\ Cardinality(Held(a)') <= Cardinality(Held(a))
    BY <1>1, <1>8, <2>3, FS_Subset, Zenon DEF WithinBudget
  <2>5. Cardinality(Held(a)) \in Nat /\ Cardinality(Held(a)') \in Nat
    BY <2>3, <2>4, FS_CardinalityType, Zenon DEF WithinBudget
  <2>6. IsFiniteSet(Tokens(a)) /\ Cardinality(Tokens(a)) \in Nat
    BY <2>3, FiniteTokens, Zenon DEF WithinBudget, Tokens
  <2>7. Tokens(a)' \subseteq Tokens(a) \ {spent} BY <1>1, <1>12, <2>2, Zenon
  <2>8. /\ IsFiniteSet(Tokens(a) \ {spent})
        /\ Cardinality(Tokens(a) \ {spent}) = Cardinality(Tokens(a)) - 1
    BY <2>1, <2>6, FS_RemoveElement, Zenon
  <2>9. Cardinality(Tokens(a)') <= Cardinality(Tokens(a)) - 1 /\ Cardinality(Tokens(a)') \in Nat
    BY <2>6, <2>7, <2>8, FS_Subset, FS_CardinalityType
  <2>10. admitted[a] \in Nat /\ admitted'[a] = admitted[a] + 1
    BY <1>1, <1>3, <1>16, Zenon DEF LimiterInv, LimiterShape
  <2> DEFINE budget == Made(a) * (Burst + Refill * time)
  <2>11. budget' = budget /\ Made(a)' = Made(a) BY <1>1, <1>3, <1>13, Zenon
  <2>12. admitted[a] + Cardinality(Tokens(a)) <= budget /\ Cardinality(Held(a)) <= Made(a)
    BY <2>3, Zenon DEF WithinBudget
  <2>13. budget \in Nat /\ Made(a) \in Nat BY BudgetNat, MadeNat, <1>1, Zenon DEF LimiterInv
  <2> HIDE DEF budget
  <2>14. admitted'[a] + Cardinality(Tokens(a)') <= budget' BY <2>6, <2>9, <2>10, <2>11, <2>12, <2>13
  <2>15. Cardinality(Held(a)') <= Made(a)' BY <2>4, <2>5, <2>11, <2>12, <2>13
  <2>16. WithinBudget(a)' BY <2>4, <2>14, <2>15, Zenon DEF WithinBudget, budget
  <2>17. \A b \in Addresses \ {a} : admitted'[b] = admitted[b] BY <1>1, <1>3, Zenon DEF LimiterInv, LimiterShape
  <2> QED BY <1>11, <1>14, <2>16, <2>17, Zenon DEF LimiterInv
<1> QED BY <1>15, <1>16, Zenon

\* A time step adds Refill for every limiter to a budget.
LEMMA TickBudget ==
  ASSUME NEW m \in Nat, NEW t \in Nat
  PROVE  m * (Burst + Refill * (t + 1)) = m * (Burst + Refill * t) + m * Refill
<1> DEFINE y == Refill * t
<1>1. y \in Nat BY LimiterAssumption, ProductNat, Zenon
<1>2. Refill * (t + 1) = y + Refill BY LimiterAssumption
<1> HIDE DEF y
<1>3. m * (Burst + (y + Refill)) = m * (Burst + y) + m * Refill BY <1>1, LimiterAssumption
<1> QED BY <1>2, <1>3, Zenon DEF y

\* A time step adds at most Refill tokens to a bucket, and an address has at
\* most Made(a) of them.
LEMMA TickStep == ASSUME LimiterInv, Tick PROVE LimiterInv'
<1>1. /\ time' = time + 1 /\ time < MaxTime /\ UNCHANGED <<ips, request, admitted, resets>>
      /\ bucket' = [l \in Limiters |-> IF bucket[l] = None THEN None
                      ELSE IF bucket[l] + Refill > Burst THEN Burst ELSE bucket[l] + Refill]
  BY Zenon DEF Tick
<1>2. time \in Nat /\ time' \in 0..MaxTime BY <1>1, LimiterAssumption DEF LimiterInv, LimiterShape
<1>3. ASSUME NEW b PROVE Held(b)' = Held(b) /\ Made(b)' = Made(b)
  BY <1>1, Zenon DEF Held, Made
<1>4. ASSUME NEW l \in Limiters, bucket[l] # None
      PROVE  bucket[l] \in 0..Burst /\ bucket'[l] \in 0..Burst /\ bucket'[l] <= bucket[l] + Refill
  <2>1. bucket[l] \in 0..Burst BY <1>4, Zenon DEF LimiterInv, LimiterShape
  <2> QED BY <1>1, <1>4, <2>1, LimiterAssumption
<1>5. bucket' \in [Limiters -> (0..Burst) \cup {None}]
  <2>1. \A l \in Limiters : bucket'[l] \in (0..Burst) \cup {None} BY <1>1, <1>4, Zenon
  <2> QED BY <1>1, <2>1, Zenon
<1>6. LimiterShape'
  <2>1. \A b \in Addresses : \A l \in Held(b)' : bucket'[l] # None
    BY <1>3, <1>4, LimiterAssumption DEF LimiterInv, LimiterShape, Held
  <2> QED BY <1>1, <1>2, <1>5, <2>1, Zenon DEF LimiterInv, LimiterShape
<1>7. ASSUME NEW a \in Addresses PROVE WithinBudget(a)'
  <2> DEFINE held == Held(a)
             room == held \X (1..Refill)
             gained == {x \in held \X (1..Burst) : bucket[x[1]] < x[2] /\ x[2] <= bucket[x[1]] + Refill}
             rank == [x \in gained |-> <<x[1], x[2] - bucket[x[1]]>>]
  <2>1. WithinBudget(a) BY Zenon DEF LimiterInv
  <2>2. IsFiniteSet(held) /\ Cardinality(held) <= Made(a) /\ Cardinality(held) \in Nat
    BY <2>1, FS_CardinalityType, Zenon DEF WithinBudget
  <2>3. \A l \in held : l \in Limiters /\ bucket[l] \in 0..Burst
    BY Zenon DEF LimiterInv, LimiterShape, Held
  <2>4. IsFiniteSet(1..Refill) /\ Cardinality(1..Refill) = Refill BY FS_Interval, LimiterAssumption
  <2>5. IsFiniteSet(room) /\ Cardinality(room) = Cardinality(held) * Refill BY <2>2, <2>4, FS_Product, Zenon
  <2>6. \A x \in gained : /\ x[1] \in held /\ x[2] \in 1..Burst /\ x = <<x[1], x[2]>>
                          /\ x[2] - bucket[x[1]] \in 1..Refill
    BY <2>3, LimiterAssumption
  <2>7. rank \in [gained -> room] BY <2>6, Zenon
  <2>8. ASSUME NEW x \in gained, NEW y \in gained, rank[x] = rank[y] PROVE x = y
    <3>1. x[1] = y[1] /\ x[2] - bucket[x[1]] = y[2] - bucket[y[1]] BY <2>8, Zenon
    <3>2. x[2] \in Int /\ y[2] \in Int /\ bucket[x[1]] \in Int BY <2>3, <2>6
    <3>3. x[2] = y[2] BY <3>1, <3>2
    <3> QED BY <2>6, <3>1, <3>3, Zenon
  <2>9. rank \in Injection(gained, room) BY <2>7, <2>8 DEF Injection, IsInjective
  <2> HIDE DEF rank
  <2>10. IsFiniteSet(gained) /\ Cardinality(gained) <= Cardinality(room) /\ Cardinality(gained) \in Nat
    BY <2>5, <2>9, FS_Injection, FS_CardinalityType, Zenon
  <2>11. Tokens(a)' \subseteq Tokens(a) \cup gained
    <3> SUFFICES ASSUME NEW x \in Tokens(a)' PROVE x \in Tokens(a) \cup gained BY Zenon
    <3>1. x \in held \X (1..Burst) /\ x[2] <= bucket'[x[1]] BY <1>3, Zenon DEF Tokens
    <3>2. x[1] \in held /\ x[2] \in 1..Burst BY <3>1, Zenon
    <3>3. /\ bucket[x[1]] \in 0..Burst /\ bucket'[x[1]] \in 0..Burst
          /\ bucket'[x[1]] <= bucket[x[1]] + Refill
      BY <1>4, <2>3, <3>2, LimiterAssumption, Zenon
    <3>4. x[2] <= bucket[x[1]] \/ (bucket[x[1]] < x[2] /\ x[2] <= bucket[x[1]] + Refill)
      BY <3>1, <3>2, <3>3, LimiterAssumption
    <3> QED BY <3>1, <3>4, Zenon DEF Tokens
  <2> HIDE DEF gained, room
  <2>12. IsFiniteSet(Tokens(a)) /\ Cardinality(Tokens(a)) \in Nat
    BY <2>1, FiniteTokens, Zenon DEF WithinBudget, Tokens
  <2>13. /\ IsFiniteSet(Tokens(a) \cup gained)
         /\ Cardinality(Tokens(a) \cup gained) <= Cardinality(Tokens(a)) + Cardinality(gained)
    BY <2>10, <2>12, UnionBound, Zenon
  <2>14. /\ Cardinality(Tokens(a)') <= Cardinality(Tokens(a)) + Cardinality(gained)
         /\ Cardinality(Tokens(a)') \in Nat
    BY <2>10, <2>11, <2>12, <2>13, FS_Subset, FS_CardinalityType
  <2>15. Made(a) \in Nat /\ Made(a) * Refill \in Nat /\ Cardinality(held) * Refill <= Made(a) * Refill
    BY <2>2, MadeNat, BudgetGrows, ProductNat, LimiterAssumption, Zenon DEF LimiterInv
  <2>16. Cardinality(gained) <= Made(a) * Refill
    BY <2>2, <2>5, <2>10, <2>15, ProductNat, LimiterAssumption
  <2> DEFINE budget == Made(a) * (Burst + Refill * time)
  <2>17. budget' = budget + Made(a) * Refill
    <3>1. budget' = Made(a) * (Burst + Refill * (time + 1)) BY <1>1, <1>3, Zenon
    <3> QED BY <1>2, <2>15, <3>1, TickBudget, Zenon
  <2>18. budget \in Nat BY BudgetNat, Zenon DEF LimiterInv
  <2>19. admitted[a] \in Nat /\ admitted'[a] = admitted[a] BY <1>1, Zenon DEF LimiterInv, LimiterShape
  <2>20. admitted[a] + Cardinality(Tokens(a)) <= budget BY <2>1, Zenon DEF WithinBudget
  <2> HIDE DEF budget
  <2>21. admitted'[a] + Cardinality(Tokens(a)') <= budget'
    BY <2>10, <2>12, <2>14, <2>15, <2>16, <2>17, <2>18, <2>19, <2>20
  <2> QED BY <1>3, <2>2, <2>21, Zenon DEF WithinBudget, budget
<1> QED BY <1>6, <1>7, Zenon DEF LimiterInv

\* GetLimiter returns the limiter of the map, or one that nothing refers to.
LEMMA LimiterGot ==
  ASSUME LimiterInv, NEW a \in Addresses, NEW l \in GetLimiter(a)
  PROVE  /\ l \in Limiters
         /\ ips[a] # None => l = ips[a] /\ l \in Held(a) /\ bucket[l] # None
         /\ ips[a] = None => bucket[l] = None /\ \A b \in Addresses : l \notin Held(b)
<1>1. CASE ips[a] # None
  BY <1>1, Zenon DEF GetLimiter, LimiterInv, LimiterShape, Held
<1>2. CASE ips[a] = None
  BY <1>2, Zenon DEF GetLimiter, NewLimiter, Draw, LimiterInv, LimiterShape
<1> QED BY <1>1, <1>2, Zenon

\* A lookup gives the request the limiter its address had, or makes the one
\* that the budget has room for.
LEMMA LookupStep == ASSUME LimiterInv, NEW q \in Requests, Lookup(q) PROVE LimiterInv'
<1>1. PICK a \in Addresses : request[q].ip = a BY Zenon DEF Lookup, LimiterInv, LimiterShape
<1>2. PICK l \in GetLimiter(a) :
        /\ ips' = [ips EXCEPT ![a] = l]
        /\ bucket' = IF bucket[l] = None THEN [bucket EXCEPT ![l] = Burst] ELSE bucket
        /\ request' = [request EXCEPT ![q].pc = "allow", ![q].limiter = l]
  BY <1>1, Zenon DEF Lookup
<1>3. UNCHANGED <<time, admitted, resets>> BY Zenon DEF Lookup
<1>4. /\ l \in Limiters
      /\ ips[a] # None => l = ips[a] /\ l \in Held(a) /\ bucket[l] # None
      /\ ips[a] = None => bucket[l] = None /\ \A b \in Addresses : l \notin Held(b)
  BY LimiterGot, Zenon
<1> DEFINE new == [request[q] EXCEPT !.pc = "allow", !.limiter = l]
<1>5. /\ new \in [pc : {"idle", "get", "allow"}, ip : Addresses \cup {None}, limiter : Limiters \cup {None}]
      /\ new.pc = "allow" /\ new.ip = a /\ new.limiter = l
  BY <1>1, <1>4, Zenon DEF LimiterInv, LimiterShape
<1>6. request' = [request EXCEPT ![q] = new] BY <1>2, Zenon DEF LimiterInv, LimiterShape
<1> HIDE DEF new
<1>7. ASSUME NEW b \in Addresses PROVE Held(b)' \subseteq Held(b) \cup {l} /\ (b # a => Held(b)' \subseteq Held(b))
  BY <1>2, <1>5, <1>6, Zenon DEF Held, LimiterInv, LimiterShape
<1>8. /\ bucket' \in [Limiters -> (0..Burst) \cup {None}]
      /\ bucket'[l] # None
      /\ \A m \in Limiters \ {l} : bucket'[m] = bucket[m]
  BY <1>2, <1>4, LimiterAssumption DEF LimiterInv, LimiterShape
<1>9. LimiterShape'
  <2>1. ASSUME NEW b \in Addresses, NEW m \in Held(b)' PROVE bucket'[m] # None
    <3>1. CASE m = l BY <1>8, <3>1, Zenon
    <3>2. CASE m # l
      <4>1. m \in Held(b) BY <1>7, <3>2, Zenon
      <4>2. m \in Limiters /\ bucket[m] # None BY <4>1, Zenon DEF Held, LimiterInv, LimiterShape
      <4> QED BY <1>8, <3>2, <4>2, Zenon
    <3> QED BY <3>1, <3>2, Zenon
  <2>2. \A r \in Requests :
          /\ request'[r].pc = "get" => request'[r].ip \in Addresses /\ request'[r].limiter = None
          /\ request'[r].pc = "allow" => request'[r].ip \in Addresses /\ request'[r].limiter \in Limiters
    BY <1>4, <1>5, <1>6, Zenon DEF LimiterInv, LimiterShape
  <2>3. request' \in [Requests -> [pc : {"idle", "get", "allow"}, ip : Addresses \cup {None},
                                   limiter : Limiters \cup {None}]]
    BY <1>5, <1>6, Zenon DEF LimiterInv, LimiterShape
  <2>4. ips' \in [Addresses -> Limiters \cup {None}] BY <1>2, <1>4, Zenon DEF LimiterInv, LimiterShape
  <2> QED BY <1>3, <1>8, <2>1, <2>2, <2>3, <2>4, Zenon DEF LimiterInv, LimiterShape
<1>10. ASSUME NEW b \in Addresses, Held(b)' \subseteq Held(b), Made(b)' = Made(b) PROVE WithinBudget(b)'
  <2>1. ASSUME NEW m \in Held(b) PROVE bucket'[m] = bucket[m]
    <3>1. m \in Limiters /\ bucket[m] # None BY Zenon DEF Held, LimiterInv, LimiterShape
    <3> QED BY <1>2, <1>8, <3>1, Zenon
  <2>2. Tokens(b)' \subseteq Tokens(b) BY <1>10, <2>1, Zenon DEF Tokens
  <2>3. Made(b) <= Made(b)' BY <1>10, MadeNat DEF LimiterInv
  <2> QED BY <1>3, <1>9, <1>10, <2>2, <2>3, NoGain, Zenon
<1>11. ASSUME NEW b \in Addresses, b # a PROVE WithinBudget(b)'
  <2>1. ips'[b] = ips[b] BY <1>2, <1>11, Zenon DEF LimiterInv, LimiterShape
  <2>2. Made(b)' = Made(b) BY <1>3, <2>1, Zenon DEF Made
  <2> QED BY <1>7, <1>10, <1>11, <2>2, Zenon
<1>12. WithinBudget(a)'
  <2>1. CASE ips[a] # None
    <3>1. Held(a)' \subseteq Held(a) BY <1>4, <1>7, <2>1, Zenon
    <3>2. ips'[a] = ips[a] BY <1>2, <1>4, <2>1, Zenon DEF LimiterInv, LimiterShape
    <3>3. Made(a)' = Made(a) BY <1>3, <3>2, Zenon DEF Made
    <3> QED BY <1>10, <3>1, <3>3, Zenon
  <2>2. CASE ips[a] = None
    <3>1. WithinBudget(a) BY Zenon DEF LimiterInv
    <3> DEFINE filled == {l} \X (1..Burst)
               x == Burst + Refill * time
    <3>2. IsFiniteSet(filled) /\ Cardinality(filled) = Burst
      <4>1. IsFiniteSet({l}) /\ Cardinality({l}) = 1 BY FS_Singleton, Zenon
      <4>2. IsFiniteSet(1..Burst) /\ Cardinality(1..Burst) = Burst BY FS_Interval, LimiterAssumption
      <4>3. IsFiniteSet(filled) /\ Cardinality(filled) = Cardinality({l}) * Cardinality(1..Burst)
        BY <4>1, <4>2, FS_Product, Zenon
      <4> QED BY <4>1, <4>2, <4>3, LimiterAssumption
    <3>3. IsFiniteSet(Held(a)) /\ Cardinality(Held(a)) \in Nat BY <3>1, FS_CardinalityType, Zenon DEF WithinBudget
    <3>4. IsFiniteSet(Held(a) \cup {l}) /\ Cardinality(Held(a) \cup {l}) <= Cardinality(Held(a)) + 1
      <4>1. IsFiniteSet({l}) /\ Cardinality({l}) = 1 BY FS_Singleton, Zenon
      <4> QED BY <3>3, <4>1, UnionBound, Zenon
    <3>5. IsFiniteSet(Held(a)') /\ Cardinality(Held(a)') <= Cardinality(Held(a)) + 1 /\ Cardinality(Held(a)') \in Nat
      BY <1>7, <3>3, <3>4, FS_Subset, FS_CardinalityType
    <3>6. Tokens(a)' \subseteq Tokens(a) \cup filled
      <4> SUFFICES ASSUME NEW y \in Tokens(a)', y[1] # l PROVE y \in Tokens(a)
        BY Zenon DEF Tokens
      <4>1. y \in Held(a)' \X (1..Burst) /\ y[2] <= bucket'[y[1]] BY Zenon DEF Tokens
      <4>2. y \in Held(a) \X (1..Burst) BY <1>7, <4>1, Zenon
      <4>3. bucket'[y[1]] = bucket[y[1]] BY <1>8, <4>2, Zenon DEF Held
      <4> QED BY <4>1, <4>2, <4>3, Zenon DEF Tokens
    <3> HIDE DEF filled
    <3>7. IsFiniteSet(Tokens(a)) /\ Cardinality(Tokens(a)) \in Nat
      BY <3>1, FiniteTokens, Zenon DEF WithinBudget, Tokens
    <3>8. /\ IsFiniteSet(Tokens(a) \cup filled)
          /\ Cardinality(Tokens(a) \cup filled) <= Cardinality(Tokens(a)) + Burst
      BY <3>2, <3>7, UnionBound, Zenon
    <3>9. Cardinality(Tokens(a)') <= Cardinality(Tokens(a)) + Burst /\ Cardinality(Tokens(a)') \in Nat
      BY <3>6, <3>7, <3>8, FS_Subset, FS_CardinalityType, LimiterAssumption
    <3>10. resets \in Nat BY LimiterAssumption DEF LimiterInv, LimiterShape
    <3>11. ips'[a] # None BY <1>2, <1>4, LimiterAssumption, Zenon DEF LimiterInv, LimiterShape
    <3>12. Made(a) = resets /\ Made(a)' = resets + 1 BY <1>3, <2>2, <3>11, Zenon DEF Made
    <3>13. time \in Nat BY LimiterAssumption DEF LimiterInv, LimiterShape
    <3>14. Refill * time \in Nat BY <3>13, LimiterAssumption, ProductNat, Zenon
    <3>15. x \in Nat /\ Burst <= x /\ x' = x BY <1>3, <3>14, LimiterAssumption
    <3>16. admitted[a] \in Nat /\ admitted'[a] = admitted[a] BY <1>3, Zenon DEF LimiterInv, LimiterShape
    <3>17. admitted[a] + Cardinality(Tokens(a)) <= resets * x /\ Cardinality(Held(a)) <= resets
      BY <3>1, <3>12, Zenon DEF WithinBudget
    <3> HIDE DEF x
    <3>18. (resets + 1) * x = resets * x + x /\ resets * x \in Nat BY <3>10, <3>15, ProductNat
    <3>19. admitted'[a] + Cardinality(Tokens(a)') <= (resets + 1) * x
      BY <3>7, <3>9, <3>15, <3>16, <3>17, <3>18, LimiterAssumption
    <3>20. admitted'[a] + Cardinality(Tokens(a)') <= Made(a)' * x' BY <3>12, <3>15, <3>19, Zenon
    <3>21. Cardinality(Held(a)') <= resets + 1 BY <3>3, <3>5, <3>10, <3>17
    <3> QED BY <3>5, <3>12, <3>20, <3>21, Zenon DEF WithinBudget, x
  <2> QED BY <2>1, <2>2, Zenon
<1> QED BY <1>9, <1>11, <1>12, Zenon DEF LimiterInv

\* At the start nothing is held and nothing was spent.
LEMMA LimiterInvInit == LimiterInit => LimiterInv
<1> SUFFICES ASSUME LimiterInit PROVE LimiterInv BY Zenon
<1>1. RequestIdle \in [pc : {"idle", "get", "allow"}, ip : Addresses \cup {None}, limiter : Limiters \cup {None}]
      /\ RequestIdle.pc = "idle" /\ RequestIdle.ip = None /\ RequestIdle.limiter = None
  BY Zenon DEF RequestIdle
<1>2. \A a \in Addresses : Held(a) = {}
  BY <1>1, LimiterAssumption, Zenon DEF Held, LimiterInit
<1>3. LimiterShape BY <1>1, <1>2, LimiterAssumption DEF LimiterShape, LimiterInit
<1>4. ASSUME NEW a \in Addresses PROVE WithinBudget(a)
  <2>1. Tokens(a) = {} /\ Held(a) = {} BY <1>2, Zenon DEF Tokens
  <2>2. Made(a) = 0 /\ admitted[a] = 0 /\ Burst + Refill * time \in Nat
    BY LimiterAssumption DEF Made, LimiterInit
  <2> QED BY <2>1, <2>2, FS_EmptySet DEF WithinBudget
<1> QED BY <1>3, <1>4, Zenon DEF LimiterInv

\* Every step keeps the budgets.
LEMMA LimiterInvStep == LimiterInv /\ [LimiterNext]_limiterVars => LimiterInv'
<1> SUFFICES ASSUME LimiterInv, [LimiterNext]_limiterVars PROVE LimiterInv' BY Zenon
<1>1. ASSUME NEW q \in Requests, NEW a \in Addresses, Enter(q, a) PROVE LimiterInv' BY <1>1, EnterStep, Zenon
<1>2. ASSUME NEW q \in Requests, Lookup(q) PROVE LimiterInv' BY <1>2, LookupStep, Zenon
<1>3. ASSUME NEW q \in Requests, Allow(q) PROVE LimiterInv' BY <1>3, AllowStep, Zenon
<1>4. CASE Tick BY <1>4, TickStep, Zenon
<1>5. CASE Cleanup BY <1>5, CleanupStep, Zenon
<1>6. CASE UNCHANGED limiterVars
  <2>1. UNCHANGED <<ips, bucket, request, time, admitted, resets>> BY <1>6, Zenon DEF limiterVars
  <2>2. LimiterShape' BY <2>1, Zenon DEF LimiterInv, LimiterShape, Held
  <2>3. ASSUME NEW a \in Addresses PROVE WithinBudget(a)'
    BY <2>1, Zenon DEF LimiterInv, WithinBudget, Held, Tokens, Made
  <2> QED BY <2>2, <2>3, Zenon DEF LimiterInv
<1> QED BY <1>1, <1>2, <1>3, <1>4, <1>5, <1>6, Zenon DEF LimiterNext

\* What an address was let through is within the budget of one limiter for
\* every time the map was emptied, and one.
LEMMA LimiterInvBounds == LimiterInv => LimiterTypeOK /\ RateBounded
<1> SUFFICES ASSUME LimiterInv PROVE LimiterTypeOK /\ RateBounded BY Zenon
<1> DEFINE x == Burst + Refill * time
           top == Burst + Refill * MaxTime
<1>1. resets \in Nat /\ time \in Nat /\ resets <= MaxResets /\ time <= MaxTime
  BY LimiterAssumption DEF LimiterInv, LimiterShape
<1>2. /\ Refill * time \in Nat /\ Refill * MaxTime \in Nat
      /\ time * Refill <= MaxTime * Refill /\ time * Refill = Refill * time /\ MaxTime * Refill = Refill * MaxTime
  BY <1>1, ProductNat, BudgetGrows, LimiterAssumption
<1>3. x \in Nat /\ top \in Nat /\ x <= top BY <1>2, LimiterAssumption
<1>4. ASSUME NEW a \in Addresses PROVE admitted[a] \in Nat /\ admitted[a] <= (resets + 1) * x
  <2>1. WithinBudget(a) BY Zenon DEF LimiterInv
  <2>2. Cardinality(Tokens(a)) \in Nat BY <2>1, FiniteTokens, Zenon DEF WithinBudget, Tokens
  <2>3. admitted[a] \in Nat BY Zenon DEF LimiterInv, LimiterShape
  <2>4. admitted[a] + Cardinality(Tokens(a)) <= Made(a) * x BY <2>1, Zenon DEF WithinBudget
  <2>5. Made(a) \in Nat /\ Made(a) <= resets + 1 BY <1>1 DEF Made
  <2> HIDE DEF x
  <2>6. Made(a) * x \in Nat /\ Made(a) * x <= (resets + 1) * x /\ (resets + 1) * x \in Nat
    BY <1>1, <1>3, <2>5, BudgetGrows, ProductNat
  <2> QED BY <2>2, <2>3, <2>4, <2>6
<1>5. RateBounded BY <1>4, Zenon DEF RateBounded
<1>6. (resets + 1) * x <= MaxAdmitted /\ (resets + 1) * x \in Nat /\ MaxAdmitted \in Nat
  <2>1. MaxAdmitted = (MaxResets + 1) * top BY Zenon DEF MaxAdmitted
  <2> HIDE DEF x, top
  <2>2. (resets + 1) * x <= (MaxResets + 1) * x /\ (resets + 1) * x \in Nat /\ (MaxResets + 1) * x \in Nat
    BY <1>1, <1>3, BudgetGrows, ProductNat, LimiterAssumption
  <2>3. x * (MaxResets + 1) <= top * (MaxResets + 1) BY <1>3, BudgetGrows, LimiterAssumption
  <2>4. (MaxResets + 1) * x <= (MaxResets + 1) * top /\ (MaxResets + 1) * top \in Nat
    BY <1>3, <2>3, ProductNat, LimiterAssumption
  <2> QED BY <2>1, <2>2, <2>4
<1> HIDE DEF x
<1>7. admitted \in [Addresses -> 0..MaxAdmitted]
  <2>1. \A a \in Addresses : admitted[a] \in 0..MaxAdmitted BY <1>4, <1>6
  <2> QED BY <2>1, Zenon DEF LimiterInv, LimiterShape
<1> QED BY <1>5, <1>7, Zenon DEF LimiterInv, LimiterShape, LimiterTypeOK

\* Whatever requests, refills and cleanups interleave, every address stays
\* within its budget (GetLimiter, RateLimitMiddleware, the cleanup goroutine).
THEOREM LimiterInvariance == LimiterSpec => []LimiterInv
<1> QED BY LimiterInvInit, LimiterInvStep, PTL DEF LimiterSpec

\* The requests of an address that were let through never exceed a full burst
\* and the refill of the elapsed time, once more for every time the map was
\* emptied, whatever the rate, the burst and the number of addresses, limiters
\* and goroutines (GetLimiter, RateLimitMiddleware).
THEOREM RateStaysBounded == LimiterSpec => []RateBounded
<1>1. LimiterInv => RateBounded BY LimiterInvBounds, Zenon
<1> QED BY <1>1, LimiterInvariance, PTL

\* The map, the buckets, the requests and the counts keep their shape
\* (IPRateLimiter).
THEOREM LimiterTypes == LimiterSpec => []LimiterTypeOK
<1>1. LimiterInv => LimiterTypeOK BY LimiterInvBounds, Zenon
<1> QED BY <1>1, LimiterInvariance, PTL
=============================================================================
