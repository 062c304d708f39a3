------------------------------- MODULE Traces -------------------------------
(***************************************************************************)
(* Execution history: the rows an invocation leaves behind, what the trace *)
(* list, the trace view and the execution list make of them, the rolling   *)
(* baseline that flags outliers, and everything that deletes rows again:   *)
(* retention, DELETE /executions, and the one-shot sweep of orphans at     *)
(* boot.                                                                   *)
(*                                                                         *)
(* An execution is a number, which is also its span id; its row is written *)
(* when it ends, so a callee's row is there before its caller's.  Time is  *)
(* a number of milliseconds, the resolution of julianday().  At most one   *)
(* row for each execution is in a child table.  Names, log lines and the   *)
(* JSON of the answers are left out.  One action is one SQL statement.     *)
(***************************************************************************)
EXTENDS Integers, Sequences, FiniteSets, SequencesExt, FiniteSetsExt

CONSTANTS
  Execs,        \* executions, numbers
  TraceIds,     \* trace ids, numbers: the list breaks ties by them
  ChildTables,  \* executionChildTables, a sequence without repetition
  DefaultPage,  \* rows of a page when the caller does not say
  MaxPage,      \* most rows of a page
  ProbeFactor,  \* pages the fast path of ListExecutions reads, 4
  Window,       \* baselineSamples
  MinSamples,   \* baselineMinForOutlier
  Retention,    \* age at which an execution expires
  BatchRows,    \* reclaimBatchRows
  MaxBatches,   \* reclaimMaxBatches
  MaxNow,       \* bound on the clock
  MaxRestarts   \* bound on restarts of the server

ASSUME TracesAssumption ==
  /\ Execs \subseteq Nat \ {0} /\ IsFiniteSet(Execs)
  /\ TraceIds \subseteq Nat \ {0} /\ IsFiniteSet(TraceIds)
  /\ ChildTables \in Seq(STRING) /\ IsInjective(ChildTables)
  /\ "user_spans" \in ToSet(ChildTables)
  /\ DefaultPage \in 1..MaxPage /\ MaxPage \in Nat
  /\ ProbeFactor \in Nat \ {0} /\ Window \in Nat \ {0} /\ MinSamples \in Nat
  /\ Retention \in Nat \ {0} /\ BatchRows \in Nat \ {0} /\ MaxBatches \in Nat \ {0}
  /\ MaxNow \in Nat /\ MaxRestarts \in Nat

\* No parent span, and the span of a caller outside this instance.
NoParent == 0
External == -1

\* Function ids in the functions table, and one that is deleted.
FnTable == {"f", "g"}
FnIds == FnTable \cup {"dropped"}

VARIABLES
  ex,        \* each execution and, once it is stored, its row
  children,  \* rows <<execution, table>> in the child tables
  inflight,  \* the ones still in the writer's telemetry queue
  uspan,     \* the user span of each execution
  verdict,   \* outlier updates still in the writer's queue
  ring,      \* the baseline of the function
  now,       \* the clock
  retention, \* the retention sweep
  deleter,   \* a DELETE of one or more executions
  walk,      \* a client that reads the trace list page by page
  reclaim,   \* the sweep of orphans at boot
  late,      \* child rows stored after their execution's were deleted
  restarts,  \* number of restarts
  doing      \* what clients and timers do in this behaviour

traceVars == <<ex, children, inflight, uspan, verdict, ring, now, retention, deleter,
               walk, reclaim, late, restarts, doing>>

Tables == ToSet(ChildTables)
NoExec == [st |-> "none", fn |-> "f", trace |-> 0, parent |-> NoParent, start |-> 0,
           dur |-> 0, failed |-> FALSE, cold |-> FALSE, outlier |-> FALSE]
ExecRows == [st : {"none", "running", "queued", "stored", "gone"}, fn : FnIds,
             trace : TraceIds \cup {0}, parent : Execs \cup {NoParent, External},
             start : 0..MaxNow, dur : 0..MaxNow, failed : BOOLEAN, cold : BOOLEAN, outlier : BOOLEAN]
NoSpan == [start |-> 0, dur |-> 0, failed |-> FALSE]
NoCursor == [kind |-> "none", at |-> 0, trace |-> 0]
NoWalk == [st |-> "idle", cursor |-> NoCursor, seen |-> <<>>, filter |-> {}, steady |-> {}, kept |-> {}]
NoVerdict == "none"
NoDelete == [x |-> 0, next |-> 0, todo |-> {}]
Activities == {"invoke", "telemetry", "retention", "delete", "restart", "walk", "legacy"}

Stored == {x \in Execs : ex[x].st = "stored"}
Unfinished == {x \in Execs : ex[x].st \in {"running", "queued"}}

----------------------------------------------------------------------------
(* The trace list, in SQL.                                                 *)

Rows(t) == {x \in Stored : ex[x].trace = t}
UserSpans(t) == {x \in Execs : <<x, "user_spans">> \in children /\ ex[x].trace = t}

Earlier(x, y) == ex[x].start < ex[y].start \/ (ex[x].start = ex[y].start /\ x <= y)
End(r) == r.start + r.dur

\* Mutant of LocalRoots: only rows without any parent are roots.
Parentless(t) == {x \in Rows(t) : ex[x].parent = NoParent}

\* local_roots: rows whose parent span is not in the trace.
LocalRoots(t) == {x \in Rows(t) : ex[x].parent \notin Rows(t)}

\* A trace is in the list when it has a local root.
IsListed(t) == LocalRoots(t) # {}

\* One row of summaries; key is started_jd, start is the root's started_at.
Summary(t) ==
  LET root == CHOOSE x \in LocalRoots(t) : \A y \in LocalRoots(t) : Earlier(x, y)
      all == {ex[x] : x \in Rows(t)} \cup {uspan[x] : x \in UserSpans(t)}
      errors == Cardinality({x \in Rows(t) : ex[x].failed}) + Cardinality({x \in UserSpans(t) : uspan[x].failed})
  IN [root |-> root, start |-> ex[root].start, parent |-> ex[root].parent,
      key |-> Min({ex[x].start : x \in Rows(t)}),
      dur |-> Max({End(r) : r \in all}) - Min({r.start : r \in all}),
      failed |-> errors > 0, errors |-> errors,
      outlier |-> \E x \in Rows(t) : ex[x].outlier,
      spans |-> Cardinality(Rows(t)) + Cardinality(UserSpans(t)),
      colds |-> Cardinality({x \in Rows(t) : ex[x].cold})]

\* Function, status, outlier_only, since and until, as the sets of values that
\* pass; a function matches when any execution of the trace is one of its own.
Matches(t, f) ==
  LET s == Summary(t)
  IN /\ \E x \in Rows(t) : ex[x].fn \in f.fns
     /\ s.failed \in f.failed /\ s.outlier \in f.outlier /\ s.key \in f.times

\* Mutant of Before: the comparison with the cursor has no tie-break.
BeforeTies(t, c) == c.kind = "none" \/ Summary(t).key < c.at

\* The rows after the cursor.  A legacy cursor is a timestamp alone.
Before(t, c) ==
  \/ c.kind = "none"
  \/ Summary(t).key < c.at
  \/ c.kind = "v1" /\ Summary(t).key = c.at /\ t < c.trace

\* ORDER BY started_jd DESC, trace_id DESC LIMIT n.
ListTraceSummaries(f, c, n) ==
  LET found == {t \in TraceIds : IsListed(t) /\ Matches(t, f) /\ Before(t, c)}
      newer(t, u) == Summary(t).key > Summary(u).key \/ (Summary(t).key = Summary(u).key /\ t > u)
      sorted == SetToSortSeq(found, newer)
  IN SubSeq(sorted, 1, Min({n, Len(sorted)}))

EncodeTraceCursor(t) == [kind |-> "v1", at |-> Summary(t).start, trace |-> t]

----------------------------------------------------------------------------
(* The trace view, in Go.                                                  *)

\* ListByTraceID: by started_at and id.
ListByTraceID(t) == SetToSortSeq(Rows(t), LAMBDA x, y : x # y /\ Earlier(x, y))

\* The first span without a local parent, or else the first.
ViewRoot(s) ==
  LET orphan == {i \in DOMAIN s : ex[s[i]].parent \notin ToSet(s)}
  IN IF orphan = {} THEN s[1] ELSE s[Min(orphan)]

\* buildTraceView over the rows, then over the user spans.
BuildTraceView(t) ==
  LET s == ListByTraceID(t)
      start == Min({ex[s[1]].start} \cup {uspan[x].start : x \in UserSpans(t)})
      zero == [end |-> 0, outlier |-> FALSE, failed |-> FALSE, errors |-> 0, colds |-> 0, spans |-> 0]
      row(v, x) == [end |-> Max({v.end, End(ex[x])}), outlier |-> v.outlier \/ ex[x].outlier,
                    failed |-> v.failed \/ ex[x].failed,
                    errors |-> v.errors + (IF ex[x].failed THEN 1 ELSE 0),
                    colds |-> v.colds + (IF ex[x].cold THEN 1 ELSE 0), spans |-> v.spans + 1]
      user(x, v) == [v EXCEPT !.end = Max({@, End(uspan[x])}), !.failed = @ \/ uspan[x].failed,
                              !.errors = @ + (IF uspan[x].failed THEN 1 ELSE 0), !.spans = @ + 1]
      v == FoldSet(user, FoldLeft(row, zero, s), UserSpans(t))
  IN [root |-> ViewRoot(s), parent |-> ex[ViewRoot(s)].parent, dur |-> v.end - start,
      failed |-> v.failed, errors |-> v.errors, outlier |-> v.outlier, spans |-> v.spans, colds |-> v.colds]

----------------------------------------------------------------------------
(* The execution list, for status = success and no other filter.           *)

\* ORDER BY started_at DESC over the rows S.
Newest(S) == SetToSortSeq(S, LAMBDA x, y : ex[x].start > ex[y].start \/ (ex[x].start = ex[y].start /\ x > y))
Succeeded(x) == ~ex[x].failed
ExactPage(n) == LET s == Newest({x \in Stored : Succeeded(x)}) IN SubSeq(s, 1, Min({n, Len(s)}))

\* Mutant of ProbeDecides: a full window counts as the whole table.
ProbeTrusted(recent, scanned, n) == Len(recent) = n \/ scanned <= n * ProbeFactor

\* The page is full, or the window held the whole table.
ProbeDecides(recent, scanned, n) == Len(recent) = n \/ scanned < n * ProbeFactor

\* ListExecutions: the successes among the newest rows, when that decides;
\* reading stops at the row that fills the page.
ListExecutions(n) ==
  LET s == Newest(Stored)
      probe == SubSeq(s, 1, Min({n * ProbeFactor, Len(s)}))
      good == SelectSeq(probe, Succeeded)
      recent == SubSeq(good, 1, Min({n, Len(good)}))
  IN IF ProbeDecides(recent, Len(probe), n) THEN recent ELSE ExactPage(n)

----------------------------------------------------------------------------
(* The baseline.                                                           *)

EmptyRing == [samples |-> <<>>, next |-> 1]

\* ringBuf.record.
Record(r, d) ==
  [samples |-> IF r.next > Len(r.samples) THEN Append(r.samples, d) ELSE [r.samples EXCEPT ![r.next] = d],
   next |-> (r.next % Window) + 1]

\* ringBuf.snapshot and percentileIndex.
P95(r) ==
  LET n == Len(r.samples)
  IN IF n = 0 THEN 0 ELSE SortSeq(r.samples, <)[((n - 1) * 95) \div 100 + 1]

Classify(r, d) == Len(r.samples) >= MinSamples /\ d > 2 * P95(r)

\* ObserveExecution: warm successes feed the baseline before they are judged.
Observe(r, failed, cold, d) == IF ~failed /\ ~cold THEN Record(r, d) ELSE r

\* ListBaselineSeed, newest first, and Warm, which feeds it in that order.
Warm ==
  LET s == Newest(Stored)
      recent == SubSeq(s, 1, Min({Window * 10, Len(s)}))
      seed == SelectSeq(recent, LAMBDA x : ~ex[x].failed /\ ~ex[x].cold)
  IN FoldLeft(LAMBDA r, x : Record(r, ex[x].dur), EmptyRing, SubSeq(seed, 1, Min({Window, Len(seed)})))

----------------------------------------------------------------------------
(* Writing history.                                                        *)

\* What a change of trace t means for the walk: a trace that changes is not
\* steady, and it is kept while rows are only added and it matches.
Changed(ts, added) ==
  \E f \in {walk.filter} :
    walk' = [walk EXCEPT !.steady = @ \ ts,
                         !.kept = {t \in @ : t \notin ts \/ (added /\ IsListed(t)' /\ Matches(t, f)')}]

\* An invocation begins: a root, a call from outside with a traceparent, or
\* work that another execution of the trace started.
BeginExecution(x, fn, t, p) ==
  /\ reclaim.st = "serving" /\ "invoke" \in doing /\ ex[x].st = "none"
  /\ p \in {NoParent, External} \/ (p \in Execs /\ ex[p].st # "none" /\ ex[p].trace = t)
  /\ ex' = [ex EXCEPT ![x] = [NoExec EXCEPT !.st = "running", !.fn = fn, !.trace = t,
                                            !.parent = p, !.start = now]]
  /\ UNCHANGED <<children, inflight, uspan, verdict, ring, now, retention, deleter, walk, reclaim, late, restarts, doing>>

\* The function ends a span or logs a line; the row is queued as telemetry.
EmitTelemetry(x, table, s, failed) ==
  /\ ex[x].st = "running" /\ "telemetry" \in doing /\ s \in ex[x].start..now
  /\ <<x, table>> \notin inflight \cup children
  /\ inflight' = inflight \cup {<<x, table>>}
  /\ uspan' = IF table = "user_spans"
              THEN [uspan EXCEPT ![x] = [start |-> s, dur |-> now - s, failed |-> failed]] ELSE uspan
  /\ UNCHANGED <<ex, children, verdict, ring, now, retention, deleter, walk, reclaim, late, restarts, doing>>

\* The invocation ends.  A direct one is judged before its row is queued; the
\* other entry points send the verdict after the row, by an update.
FinishExecution(x, failed, cold, direct) ==
  LET d == now - ex[x].start
      r == Observe(ring, failed, cold, d)
  IN /\ ex[x].st = "running"
     /\ ring' = r
     /\ ex' = [ex EXCEPT ![x].st = "queued", ![x].dur = d, ![x].failed = failed, ![x].cold = cold,
                         ![x].outlier = direct /\ Classify(r, d)]
     /\ verdict' = IF ~direct /\ (P95(r) > 0 \/ Classify(r, d))
                   THEN [verdict EXCEPT ![x] = IF Classify(r, d) THEN "outlier" ELSE "normal"] ELSE verdict
     /\ UNCHANGED <<children, inflight, uspan, now, retention, deleter, walk, reclaim, late, restarts, doing>>

\* The writer commits the row of x.
StoreExecution(x) ==
  /\ ex[x].st = "queued"
  /\ ex' = [ex EXCEPT ![x].st = "stored"]
  /\ UNCHANGED <<children, inflight, uspan, verdict, ring, now, retention, deleter, reclaim, late, restarts, doing>>
  /\ Changed({ex[x].trace}, TRUE)

\* UpdateOutlier, in another lane than the row: it may find no row to update.
UpdateOutlier(x) ==
  /\ verdict[x] # NoVerdict
  /\ verdict' = [verdict EXCEPT ![x] = NoVerdict]
  /\ UNCHANGED <<children, inflight, uspan, ring, now, retention, deleter, reclaim, late, restarts, doing>>
  /\ IF ex[x].st = "stored"
     THEN ex' = [ex EXCEPT ![x].outlier = verdict[x] = "outlier"] /\ Changed({ex[x].trace}, TRUE)
     ELSE UNCHANGED <<ex, walk>>

\* The statement of the table has been run for x by a deletion under way, or
\* the row of x is gone.
TableSwept(x, table) ==
  \/ ex[x].st = "gone"
  \/ deleter.x = x /\ \E i \in 1..deleter.next - 1 : ChildTables[i] = table

\* The telemetry writer commits a child row, or has dropped it.
StoreTelemetry(x, table, drop) ==
  /\ <<x, table>> \in inflight
  /\ inflight' = inflight \ {<<x, table>>}
  /\ UNCHANGED <<ex, uspan, verdict, ring, now, retention, deleter, reclaim, restarts, doing>>
  /\ IF drop THEN UNCHANGED <<children, late, walk>>
     ELSE /\ children' = children \cup {<<x, table>>}
          /\ late' = IF TableSwept(x, table) THEN late \cup {<<x, table>>} ELSE late
          /\ Changed({ex[x].trace}, TRUE)

\* Time passes.  Rows reach the database long before they expire.
TraceTick ==
  /\ now < MaxNow /\ now' = now + 1
  /\ \A x \in Execs : x \in Unfinished \/ (\E k \in inflight : k[1] = x) => now' - ex[x].start < Retention
  /\ UNCHANGED <<ex, children, inflight, uspan, verdict, ring, retention, deleter, walk, reclaim, late, restarts, doing>>

----------------------------------------------------------------------------
(* Deleting history.                                                       *)

\* Mutant of Expired: every statement asks for the time again.
ExpiredNow == {x \in Stored : ex[x].start < now - Retention}

\* Rows older than the one cutoff of this purge.
Expired == {x \in Stored : ex[x].start < retention.cutoff}

\* Drop the rows of S in a table or, after the last table, the executions.
DeleteStep(S, next) ==
  IF next <= Len(ChildTables)
  THEN /\ children' = children \ (S \X {ChildTables[next]})
       /\ UNCHANGED ex
       /\ Changed({ex[x].trace : x \in S}, FALSE)
  ELSE /\ ex' = [x \in Execs |-> IF x \in S THEN [ex[x] EXCEPT !.st = "gone"] ELSE ex[x]]
       /\ UNCHANGED children
       /\ Changed({ex[x].trace : x \in S}, FALSE)

\* purgeOnce starts and reads its cutoff.
PurgeStart ==
  /\ reclaim.st = "serving" /\ "retention" \in doing /\ retention.next = 0 /\ now > Retention
  /\ retention' = [next |-> 1, cutoff |-> now - Retention]
  /\ UNCHANGED <<ex, children, inflight, uspan, verdict, ring, now, deleter, walk, reclaim, late, restarts, doing>>

\* One statement of PurgeOldExecutions; an error ends the purge.
PurgeStatement(ok) ==
  /\ retention.next > 0
  /\ IF ok THEN DeleteStep(Expired, retention.next) ELSE UNCHANGED <<ex, children, walk>>
  /\ retention' = IF ok /\ retention.next <= Len(ChildTables)
                  THEN [retention EXCEPT !.next = @ + 1] ELSE [next |-> 0, cutoff |-> 0]
  /\ UNCHANGED <<inflight, uspan, verdict, ring, now, deleter, reclaim, late, restarts, doing>>

\* DELETE /executions/{id}, bulk-delete and the tools for them: rows that
\* somebody has seen, one after the other.
DeleteStart(S) ==
  /\ reclaim.st = "serving" /\ "delete" \in doing /\ deleter = NoDelete /\ S # {} /\ S \subseteq Stored
  /\ \E x \in S : deleter' = [x |-> x, next |-> 1, todo |-> S \ {x}]
  /\ UNCHANGED <<ex, children, inflight, uspan, verdict, ring, now, retention, walk, reclaim, late, restarts, doing>>

\* One statement of DeleteExecution; an error ends it for this row only.
DeleteStatement(ok) ==
  /\ deleter.next > 0
  /\ IF ok THEN DeleteStep({deleter.x} \cap Stored, deleter.next) ELSE UNCHANGED <<ex, children, walk>>
  /\ IF ok /\ deleter.next <= Len(ChildTables) THEN deleter' = [deleter EXCEPT !.next = @ + 1]
     ELSE IF deleter.todo = {} THEN deleter' = NoDelete
     ELSE \E y \in deleter.todo : deleter' = [x |-> y, next |-> 1, todo |-> deleter.todo \ {y}]
  /\ UNCHANGED <<inflight, uspan, verdict, ring, now, retention, reclaim, late, restarts, doing>>

\* Rows that the sweep at boot looks for in the table it has reached.
OrphanExecs == {x \in Stored : ex[x].fn \notin FnTable}
OrphanChildren(i) == {k \in children : k[2] = ChildTables[i] /\ ex[k[1]].st # "stored"}

\* Mutant of SweepOrder: the children are swept before the executions.
SweepChildrenFirst == [i \in 1..Len(ChildTables) + 1 |-> i % (Len(ChildTables) + 1)]

\* The order of the tables, where 0 stands for the executions.
SweepOrder == [i \in 1..Len(ChildTables) + 1 |-> i - 1]

\* One batch of deleteOrphansBatched.  A short batch ends the table; the last
\* batch of a boot leaves it unfinished.  The marker needs a clean pass.
ReclaimBatch ==
  LET i == SweepOrder[reclaim.pass]
      orphans == IF i = 0 THEN OrphanExecs ELSE OrphanChildren(i)
      n == Min({BatchRows, Cardinality(orphans)})
      over == n < BatchRows \/ reclaim.batch = MaxBatches
      clean == reclaim.clean /\ (over => n < BatchRows)
      last == over /\ reclaim.pass = Len(ChildTables) + 1
  IN /\ reclaim.st = "sweeping"
     /\ \E S \in kSubset(n, orphans) :
          IF i = 0 THEN /\ ex' = [x \in Execs |-> IF x \in S THEN [ex[x] EXCEPT !.st = "gone"] ELSE ex[x]]
                        /\ UNCHANGED children
          ELSE children' = children \ S /\ UNCHANGED ex
     /\ reclaim' = [st |-> IF last THEN "serving" ELSE "sweeping",
                    pass |-> IF last THEN 1 ELSE IF over THEN reclaim.pass + 1 ELSE reclaim.pass,
                    batch |-> IF over THEN 1 ELSE reclaim.batch + 1,
                    clean |-> last \/ clean, marker |-> last /\ clean]
     /\ UNCHANGED <<inflight, uspan, verdict, ring, now, retention, deleter, walk, late, restarts, doing>>

\* A statement of the sweep fails: boot goes on without the marker.
ReclaimFails ==
  /\ reclaim.st = "sweeping"
  /\ reclaim' = [st |-> "serving", pass |-> 1, batch |-> 1, clean |-> TRUE, marker |-> FALSE]
  /\ UNCHANGED <<ex, children, inflight, uspan, verdict, ring, now, retention, deleter, walk, late, restarts, doing>>

\* The server dies at any point and boots again.  What was not in the
\* database is lost; the baseline is warmed from what was.
TraceRestart ==
  /\ "restart" \in doing /\ restarts < MaxRestarts /\ restarts' = restarts + 1
  /\ ex' = [x \in Execs |-> IF x \in Unfinished THEN [ex[x] EXCEPT !.st = "gone"] ELSE ex[x]]
  /\ late' = late \cup {k \in children : k[1] \in Unfinished}
  /\ inflight' = {} /\ verdict' = [x \in Execs |-> NoVerdict] /\ ring' = Warm
  /\ retention' = [next |-> 0, cutoff |-> 0] /\ deleter' = NoDelete
  /\ reclaim' = [st |-> IF reclaim.marker THEN "serving" ELSE "sweeping", pass |-> 1, batch |-> 1,
                 clean |-> TRUE, marker |-> reclaim.marker]
  /\ UNCHANGED <<children, uspan, now, walk, doing>>

----------------------------------------------------------------------------
(* Reading the list page by page.                                          *)

\* GET /traces takes a limit in range, list_traces clamps it.
RestLimit(n) == IF n \in 1..MaxPage THEN n ELSE DefaultPage
McpLimit(n) == IF n <= 0 THEN DefaultPage ELSE Min({n, MaxPage})

\* A client starts, with no cursor or one from before cursors were opaque; a
\* cursor that DecodeTraceCursor does not accept is answered with 400.
WalkStart(f, c) ==
  /\ reclaim.st = "serving" /\ "walk" \in doing /\ walk.st = "idle"
  /\ LET due == {t \in TraceIds : IsListed(t) /\ Matches(t, f) /\ Before(t, c)}
     IN walk' = IF c.kind = "bad" THEN [NoWalk EXCEPT !.st = "refused"]
                ELSE [st |-> "reading", cursor |-> c, seen |-> <<>>, filter |-> f, steady |-> due, kept |-> due]
  /\ UNCHANGED <<ex, children, inflight, uspan, verdict, ring, now, retention, deleter, reclaim, late, restarts, doing>>

\* One page of n rows, and the cursor of the next if this one is full.
WalkPage(n) ==
  LET page == ListTraceSummaries(walk.filter, walk.cursor, n)
  IN /\ reclaim.st = "serving" /\ walk.st = "reading"
     /\ walk' = [walk EXCEPT !.seen = @ \o page,
                             !.st = IF Len(page) = n THEN "reading" ELSE "done",
                             !.cursor = IF Len(page) = n THEN EncodeTraceCursor(page[n]) ELSE @]
     /\ UNCHANGED <<ex, children, inflight, uspan, verdict, ring, now, retention, deleter, reclaim, late, restarts, doing>>

ListTraces(n) == WalkPage(RestLimit(n))
McpListTraces(n) == WalkPage(McpLimit(n))

----------------------------------------------------------------------------
(* The specification.                                                      *)

\* Everything, failures only, the traces of one function, outliers, and a
\* window of time.
AnyTrace == [fns |-> FnIds, failed |-> BOOLEAN, outlier |-> BOOLEAN, times |-> 0..MaxNow]
TraceFilters ==
  {AnyTrace, [AnyTrace EXCEPT !.failed = {TRUE}], [AnyTrace EXCEPT !.fns = {"g"}],
   [AnyTrace EXCEPT !.outlier = {TRUE}], [AnyTrace EXCEPT !.times = 0..MaxNow - 1]}
FirstCursors == {NoCursor, [NoCursor EXCEPT !.kind = "legacy", !.at = now], [NoCursor EXCEPT !.kind = "bad"]}

\* A database with these rows at time t; a legacy one has not been swept yet.
TraceStart(rows, kids, todo, t) ==
  /\ ex = rows /\ children = kids /\ inflight = {} /\ late = {}
  /\ uspan = [x \in Execs |-> [NoSpan EXCEPT !.start = rows[x].start]]
  /\ verdict = [x \in Execs |-> NoVerdict] /\ ring = EmptyRing /\ now = t
  /\ retention = [next |-> 0, cutoff |-> 0] /\ deleter = NoDelete
  /\ walk = NoWalk /\ restarts = 0 /\ doing = todo
  /\ reclaim = [st |-> IF "legacy" \in todo THEN "sweeping" ELSE "serving", pass |-> 1, batch |-> 1,
                clean |-> TRUE, marker |-> "legacy" \notin todo]

\* The history as it is found: of rows on their way none is old, and what was
\* swept before has no orphans.
TraceInit ==
  \E rows \in [Execs -> ExecRows], kids \in SUBSET (Execs \X Tables), todo \in SUBSET Activities, t \in 0..MaxNow :
    /\ \A x \in Execs :
         /\ End(rows[x]) <= t
         /\ rows[x].st \in {"running", "queued"} =>
              "legacy" \notin todo /\ rows[x].fn \in FnTable /\ t - rows[x].start < Retention
         /\ rows[x].st = "stored" /\ rows[x].fn \notin FnTable => "legacy" \in todo
    /\ \A k \in kids : rows[k[1]].st \in {"running", "queued", "stored"} \/ "legacy" \in todo
    /\ TraceStart(rows, kids, todo, t)

TraceNext ==
  \/ \E x \in Execs, fn \in FnTable, t \in TraceIds, p \in Execs \cup {NoParent, External} : BeginExecution(x, fn, t, p)
  \/ \E x \in Execs, k \in Tables, s \in 0..MaxNow, b \in BOOLEAN : EmitTelemetry(x, k, s, b)
  \/ \E x \in Execs, failed, cold, direct \in BOOLEAN : FinishExecution(x, failed, cold, direct)
  \/ \E x \in Execs : StoreExecution(x) \/ UpdateOutlier(x)
  \/ \E x \in Execs, k \in Tables, drop \in BOOLEAN : StoreTelemetry(x, k, drop)
  \/ TraceTick
  \/ PurgeStart \/ \E ok \in BOOLEAN : PurgeStatement(ok) \/ DeleteStatement(ok)
  \/ \E S \in SUBSET Execs : DeleteStart(S)
  \/ ReclaimBatch \/ ReclaimFails \/ TraceRestart
  \/ \E f \in TraceFilters, c \in FirstCursors : WalkStart(f, c)
  \/ \E n \in 0..MaxPage + 1 : ListTraces(n) \/ McpListTraces(n)

TraceSpec == TraceInit /\ [][TraceNext]_traceVars

----------------------------------------------------------------------------
(* Properties.                                                             *)

\* Every variable holds a value of its type.
TraceTypeOK ==
  /\ ex \in [Execs -> ExecRows]
  /\ children \cup inflight \cup late \subseteq Execs \X Tables
  /\ uspan \in [Execs -> [start : 0..MaxNow, dur : 0..MaxNow, failed : BOOLEAN]]
  /\ verdict \in [Execs -> {NoVerdict, "outlier", "normal"}]
  /\ Len(ring.samples) <= Window /\ ring.next \in 1..Window
  /\ now \in 0..MaxNow /\ restarts \in 0..MaxRestarts
  /\ retention.next \in 0..Len(ChildTables) + 1 /\ deleter.next \in 0..Len(ChildTables) + 1
  /\ walk.st \in {"idle", "reading", "done", "refused"} /\ ToSet(walk.seen) \subseteq TraceIds
  /\ walk.steady \subseteq walk.kept /\ walk.kept \subseteq TraceIds
  /\ reclaim.pass \in 1..Len(ChildTables) + 1 /\ reclaim.batch \in 1..MaxBatches

\* Two readings of the same rows say the same.  A trace with a row is in the
\* list, and the SQL of ListTraceSummaries and the Go of buildTraceView agree on
\* its root, duration, status, outlier flag and counts, whichever of its rows
\* have arrived or are already deleted.  The fast path of ListExecutions returns
\* a page the exact query returns.
ReadingsAgree ==
  /\ \A t \in TraceIds : Rows(t) # {} =>
       /\ IsListed(t)
       /\ LET v == BuildTraceView(t)  s == Summary(t) IN v = [f \in DOMAIN v |-> s[f]]
  /\ \A n \in 1..MaxPage :
       LET starts(s) == [i \in DOMAIN s |-> ex[s[i]].start]
       IN starts(ListExecutions(n)) = starts(ExactPage(n))

\* A client that follows next_cursor to the end has seen every trace that was
\* there when it started and lost no row since, also when a caller's row moves
\* the start of the trace in the meantime; and a trace that did not change it
\* has seen once.
WalkComplete ==
  walk.st = "done" =>
    /\ walk.kept \subseteq ToSet(walk.seen)
    /\ \A t \in walk.steady : Cardinality({i \in DOMAIN walk.seen : walk.seen[i] = t}) = 1

\* Deleting history strands nothing: once the marker of the sweep at boot is
\* set, no execution is without its function, and a child row without an
\* execution is one that was written after the deletion, or by an execution
\* the server died under.
NothingStranded ==
  reclaim.marker =>
    /\ OrphanExecs = {}
    /\ \A k \in children : k[1] \in Stored \cup Unfinished \/ k \in late

\* The history is read right and deleted right: all three of the above.
HistorySafe == ReadingsAgree /\ WalkComplete /\ NothingStranded
=============================================================================
