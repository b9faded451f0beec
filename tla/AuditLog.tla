------------------------------- MODULE AuditLog -------------------------------
(***************************************************************************)
(* The audit log of govsvc (internal/audit) and the admin console's page   *)
(* over it (web/admin/src/pages/AuditLogs.tsx).  An INSERT takes its       *)
(* timestamp when it starts and is visible when it commits, so entries may *)
(* appear below newer ones; a query counts and then selects, newest first, *)
(* with no order among equal timestamps.  The page asks again for each     *)
(* offset while entries arrive; its buttons and its form work while a load *)
(* is under way and after one that failed, and answers are shown in the    *)
(* order in which they come.                                               *)
(***************************************************************************)
EXTENDS Tenancy, Integers, FiniteSets, FiniteSetsExt

CONSTANTS
  Entries,         \* audit events, in the model also their ids
  AuditReaders,    \* goroutines: bound on the requests under way
  MaxLogTenants,   \* bound: tenants that have entries
  Filters,         \* bound: numbers of filters that are used
  QueryLimits,     \* bound: limits that clients of the API ask for
  PageLimit,       \* 50 in the code
  DefaultLimit,    \* 100
  MaxLimit,        \* 1000
  ExportLimit      \* 10000

VARIABLES
  entry,      \* audit_logs: id -> row or None; invisible until committed
  clock,      \* the latest timestamp taken
  reader,     \* per goroutine: its query
  page        \* a console page: what it asks for, the total and, as history, its walk

auditVars == <<entry, clock, reader, page>>

Timestamps == 0..Cardinality(Entries)

EntryRows == [tenant : Tenants, time : Timestamps, hit : BOOLEAN, visible : BOOLEAN]

\* A query and, of the walk through the pages that it belongs to: what was shown
\* (seen) of what could be seen at the start (owed), whether an entry came between
\* its two statements (raced), and whether one load followed the other (orderly).
\* Filters are known by their number.
ReaderStates ==
  [pc : {"idle", "count", "select", "answer", "refused", "page"}, op : {None, "page", "query", "export"},
   tenant : Tenants \cup {None}, filters : 0..7, limit : Int, offset : Int, total : 0..Cardinality(Entries),
   seen : SUBSET Entries, owed : SUBSET Entries, raced : BOOLEAN, orderly : BOOLEAN]

\* The log is finite, and seven fields can be asked for.  A page of the console is
\* within what a query returns at most; and nil is neither a row nor an operation.
ASSUME AuditAssumption ==
  /\ IsFiniteSet(Entries) /\ Filters \subseteq 0..7 /\ 0 \in Filters /\ QueryLimits \subseteq Int
  /\ MaxLimit \in Nat /\ PageLimit \in 1..MaxLimit /\ DefaultLimit \in Int
  /\ ExportLimit \in Nat \ {0}
  /\ None \notin EntryRows /\ None \notin {"page", "query", "export"}

ReaderIdle == [pc |-> "idle", op |-> None, tenant |-> None, filters |-> 0, limit |-> 0, offset |-> 0,
               total |-> 0, seen |-> {}, owed |-> {}, raced |-> FALSE, orderly |-> FALSE]

AuditTypeOK ==
  /\ entry \in [Entries -> EntryRows \cup {None}]
  /\ clock \in Timestamps
  /\ reader \in [AuditReaders -> ReaderStates]
  /\ page \in ReaderStates

AuditInit ==
  /\ entry = [e \in Entries |-> None]
  /\ clock = 0
  /\ reader = [r \in AuditReaders |-> ReaderIdle]
  /\ page = ReaderIdle

-----------------------------------------------------------------------------
(* Log *)

\* Log, after its checks and defaults: the INSERT starts.  Nothing in the
\* repository calls it; the callers are whoever uses the package.  Times are
\* ranks: bound, no more of them than entries.  Bound: a query finds nothing of
\* another tenant, so that the log need not hold entries of many.
LogStart(t) ==
  LET logged == {e \in Entries : entry[e] # None} IN
  /\ Cardinality({entry[e].tenant : e \in logged} \cup {t}) <= MaxLogTenants
  /\ \E e \in Draw(Entries \ logged), now \in {clock, clock + 1} \cap 0..Cardinality(logged), hit \in BOOLEAN :
       /\ clock' = now
       /\ entry' = [entry EXCEPT ![e] = [tenant |-> t, time |-> now, hit |-> hit, visible |-> FALSE]]
  /\ UNCHANGED <<reader, page>>

Selects(q, row) == row.tenant = q.tenant /\ (q.filters > 0 => row.hit)

\* The INSERT commits.  History: whether that falls between the two statements
\* of a query it matters to.
LogCommit(e) ==
  /\ entry[e] # None /\ ~entry[e].visible
  /\ entry' = [entry EXCEPT ![e].visible = TRUE]
  /\ reader' = [r \in AuditReaders |->
       IF reader[r].pc = "select" /\ reader[r].orderly /\ Selects(reader[r], entry[e])
       THEN [reader[r] EXCEPT !.raced = TRUE] ELSE reader[r]]
  /\ UNCHANGED <<clock, page>>

\* The rows a query finds now
Found(q) == {e \in Entries : entry[e] # None /\ entry[e].visible /\ Selects(q, entry[e])}

-----------------------------------------------------------------------------
(* Query *)

\* Mutant: the counter starts one too high.
FirstArgLate == 3

\* argIdx after the tenant
FirstArg == 2

\* itoa: a placeholder is one character, and past nine it is not a digit.
IsPlaceholder(i) == i <= 9

\* The placeholders of the count, one per filter
CountParses(q) == q.filters > 0 => IsPlaceholder(FirstArg + q.filters - 1)

\* service.Query's limit; a negative one passes and stands for none
EffectiveLimit(n) == IF n = 0 THEN DefaultLimit ELSE IF n > MaxLimit THEN MaxLimit ELSE n

\* Mutant: the export's limit is capped like a page's.
CappedLimit(q) == EffectiveLimit(IF q.op = "export" THEN ExportLimit ELSE q.limit)

\* The LIMIT of the statement; Export sets its own and goes to the store.
StatementLimit(q) == IF q.op = "export" THEN ExportLimit ELSE EffectiveLimit(q.limit)

\* The placeholders of the select, which follow: LIMIT, then OFFSET
SelectParses(q) ==
  LET afterFilters == FirstArg + q.filters
      afterLimit == IF StatementLimit(q) > 0 THEN afterFilters + 1 ELSE afterFilters IN
  /\ StatementLimit(q) > 0 => IsPlaceholder(afterFilters)
  /\ q.offset > 0 => IsPlaceholder(afterLimit)

\* Bound: queries change nothing that another could notice, so those of the API's
\* clients are looked at one at a time, and beside no page.
NothingOpen == page.pc = "idle" /\ \A r \in AuditReaders : reader[r].pc = "idle"

\* queryLogs and exportLogs for a client of the API; an export is asked for by
\* the console's button too.  Bound: one stands for every positive offset.  Owed is
\* what could be seen at this moment.
Ask(r, t, f, n, o) ==
  /\ NothingOpen
  /\ reader' = [reader EXCEPT ![r] = [ReaderIdle EXCEPT !.pc = "count", !.op = "query", !.tenant = t,
                                         !.filters = f, !.limit = n, !.offset = o]]
  /\ UNCHANGED <<entry, clock, page>>

AskExport(r, t, f) ==
  LET q == [ReaderIdle EXCEPT !.pc = "count", !.op = "export", !.tenant = t, !.filters = f, !.orderly = TRUE] IN
  /\ NothingOpen
  /\ reader' = [reader EXCEPT ![r] = [q EXCEPT !.owed = Found(q)]]
  /\ UNCHANGED <<entry, clock, page>>

\* SELECT COUNT(*)
Count(r) ==
  /\ reader[r].pc = "count"
  /\ reader' = [reader EXCEPT
       ![r].pc = IF CountParses(reader[r]) THEN "select" ELSE "refused",
       ![r].total = Cardinality(Found(reader[r])),
       ![r].raced = FALSE]
  /\ UNCHANGED <<entry, clock, page>>

\* Mutant: the offset is taken for a page number.
SkippedPages(q) == IF q.offset > 0 THEN q.offset * StatementLimit(q) ELSE 0

\* OFFSET: rows to skip
Skipped(q) == IF q.offset > 0 THEN q.offset ELSE 0

\* The answers to ORDER BY timestamp DESC with LIMIT and OFFSET: rows that tie
\* may come in any order, and differently in each query.
Pages(q) ==
  LET found == Found(q)
      NewestOf(part, whole) == \A x \in part, y \in whole \ part : entry[x].time >= entry[y].time
      skip == Min({Skipped(q), Cardinality(found)})
      rest == Cardinality(found) - skip
      size == IF StatementLimit(q) > 0 THEN Min({StatementLimit(q), rest}) ELSE rest IN
  {rows \in kSubset(size, found) :
     \E before \in kSubset(skip, found \ rows) :
       NewestOf(before, found) /\ NewestOf(rows, found \ before)}

\* SELECT
Select(r) ==
  LET q == reader[r] IN
  /\ q.pc = "select"
  /\ IF SelectParses(q)
     THEN \E rows \in Pages(q) :
            reader' = [reader EXCEPT ![r].pc = "answer", ![r].seen = IF q.orderly THEN @ \cup rows ELSE @]
     ELSE reader' = [reader EXCEPT ![r].pc = "refused"]
  /\ UNCHANGED <<entry, clock, page>>

Done(r) == reader' = [reader EXCEPT ![r] = ReaderIdle]

\* The answer arrives; the page shows it, whichever load it is of.
Show(r) ==
  LET q == reader[r] IN
  /\ q.pc = "answer"
  /\ Done(r)
  /\ IF q.op = "page"
     THEN page' = [page EXCEPT !.total = q.total, !.seen = q.seen, !.raced = q.raced]
     ELSE UNCHANGED page
  /\ UNCHANGED <<entry, clock>>

\* History: the walk is lost.
Astray(p) == [p EXCEPT !.seen = {}, !.owed = {}, !.raced = FALSE, !.orderly = FALSE]

\* A statement was refused or fails, or the answer is lost: the page goes on as it is.
Fail(r) ==
  /\ reader[r].pc # "idle"
  /\ reader' = [s \in AuditReaders |-> IF s = r THEN ReaderIdle ELSE Astray(reader[s])]
  /\ page' = Astray(page)
  /\ UNCHANGED <<entry, clock>>

-----------------------------------------------------------------------------
(* The console's page *)

Loading == \E r \in AuditReaders : reader[r].op = "page"

\* A walk from the first page: what it could see now is owed.
Walk(p) == [p EXCEPT !.seen = {}, !.owed = Found(p), !.raced = FALSE, !.orderly = TRUE]

\* The query for what a page asks for
Asked(p) == [p EXCEPT !.pc = "count", !.total = 0]

\* loadLogs with what the page p asks for: beside another load, the walk is lost.
Load(r, p) ==
  LET q == IF Loading THEN Astray(p) ELSE p IN
  /\ reader[r].pc = "idle"
  /\ page' = q
  /\ reader' = [s \in AuditReaders |-> IF s = r THEN Asked(q) ELSE Astray(reader[s])]
  /\ UNCHANGED <<entry, clock>>

\* The page is mounted: its effect loads.
OpenPage(r, t) ==
  /\ NothingOpen
  /\ Load(r, Walk([ReaderIdle EXCEPT !.pc = "page", !.op = "page", !.tenant = t, !.limit = PageLimit]))

\* handlePageChange: a new offset, and the load of the effect that depends on it
NextPage(r) ==
  /\ page.pc = "page" /\ page.offset + page.limit < page.total
  /\ Load(r, [page EXCEPT !.offset = @ + page.limit])

PreviousPage(r) ==
  /\ page.pc = "page" /\ page.offset > 0
  /\ Load(r, [page EXCEPT !.offset = @ - page.limit])

\* onChange of the two filters: nothing is loaded, and the next load uses them.
EditFilters(f) ==
  /\ page.pc = "page" /\ f # page.filters
  /\ page' = [Astray(page) EXCEPT !.filters = f]
  /\ reader' = [r \in AuditReaders |-> Astray(reader[r])]
  /\ UNCHANGED <<entry, clock>>

\* handleFilterSubmit on the first page: a load, and no effect since the offset stays.
Resubmit(r) ==
  /\ page.pc = "page" /\ page.offset = 0
  /\ Load(r, Walk(page))

\* handleFilterSubmit on a later page: a load with the offset as it was, and that of
\* the effect with the new one.
Submit(r, e) ==
  LET p == Astray(page) IN
  /\ page.pc = "page" /\ page.offset # 0
  /\ reader[r].pc = "idle" /\ reader[e].pc = "idle" /\ r # e
  /\ page' = [p EXCEPT !.offset = 0]
  /\ reader' = [s \in AuditReaders |->
       IF s = r THEN Asked(p) ELSE IF s = e THEN Asked([p EXCEPT !.offset = 0]) ELSE Astray(reader[s])]
  /\ UNCHANGED <<entry, clock>>

AuditNext ==
  \/ \E t \in Tenants : LogStart(t)
  \/ \E e \in Entries : LogCommit(e)
  \/ \E f \in Filters \cap 0..2 : EditFilters(f)
  \/ \E r \in AuditReaders :
       \/ \E t \in Tenants, f \in Filters, n \in QueryLimits, o \in {0, 1} : Ask(r, t, f, n, o)
       \/ \E t \in Tenants, f \in Filters : AskExport(r, t, f)
       \/ \E t \in Tenants : OpenPage(r, t)
       \/ NextPage(r) \/ PreviousPage(r) \/ Resubmit(r) \/ (\E e \in AuditReaders : Submit(r, e))
       \/ Count(r) \/ Select(r) \/ Show(r) \/ Fail(r)

AuditSpec == AuditInit /\ [][AuditNext]_auditVars

-----------------------------------------------------------------------------
(* Properties *)

\* Rows whose place in the order no tie leaves open
Placed(q, e) == \A x \in Found(q) \ {e} : entry[x].time # entry[e].time

\* Paging with the buttons from the first to the last page shows every entry that
\* was there at the start and shares its timestamp with no other, although entries
\* keep arriving above and, committed late, between the ones already shown; except
\* when one arrived between the count and the select of the last page, which ends
\* the paging with a total that is too small.  It takes a walk in which each load is
\* answered before the next and the filters stay: the page skips what a failed load
\* left out, and lets a late answer stand for a newer one (store.Query, loadLogs,
\* handlePageChange, handleFilterSubmit).
PagingComplete ==
  page.orderly /\ ~Loading /\ page.offset + page.limit >= page.total /\ ~page.raced =>
    \A e \in page.owed : Placed(page, e) => e \in page.seen

\* An export that comes out shorter than its limit holds every entry that was
\* there when it was asked for (Export).
ExportComplete ==
  \A r \in AuditReaders :
    reader[r].pc = "answer" /\ reader[r].op = "export" /\ Cardinality(reader[r].seen) < ExportLimit =>
      reader[r].owed \subseteq reader[r].seen

\* The placeholders run out for one kind of request only: a later page under
\* all seven filters.  Everything else is answered (store.Query, itoa).
RefusedOnlyAtTen ==
  \A r \in AuditReaders : reader[r].pc = "refused" => reader[r].filters = 7 /\ reader[r].offset > 0
====
