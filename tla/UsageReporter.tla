---------------------------- MODULE UsageReporter ----------------------------
(***************************************************************************)
(* The usage reporter (usage_report.py): an hourly job, one instance at a  *)
(* time, that reads the OK rows completed since its watermark from the job *)
(* table and pushes a meter event for each to Stripe.                      *)
(*                                                                         *)
(* Time is in ticks, several to a second: completed_at and the watermark   *)
(* have fractions, the bounds of the query and the event identifiers are   *)
(* cut to seconds.  A worker takes completed_at from its clock before it   *)
(* inserts the row, so rows do not appear in the order of their stamps.    *)
(***************************************************************************)
EXTENDS Integers, FiniteSets

CONSTANTS
    Jobs,
    Comp,           \* the jobs of comp users, who are never metered
    TicksPerSecond,
    MaxTime,        \* bound: ticks of the clock
    MaxRows,        \* bound: OK rows in all (a second handler writes one more)
    Lookback,       \* the window without a watermark (2 hours)
    MaxWindow,      \* max_window_hours
    NoTime,
    FaultKinds,     \* which faults this instance injects ...
    MaxFaults       \* ... and bound: how many of them

ASSUME JobsAssumption == Comp \subseteq Jobs
ASSUME TicksAssumption == TicksPerSecond \in Nat \ {0} /\ MaxTime \in Nat /\ NoTime \notin Int
ASSUME WindowAssumption == Lookback \in Nat \ {0} /\ MaxWindow \in Nat \ {0} /\ MaxRows \in Nat
ASSUME FaultsAssumption ==
    MaxFaults \in Nat /\ FaultKinds \subseteq {"crash", "watermark", "customers", "comp", "reject"}

VARIABLES
    now,        \* the clock
    stamped,    \* completed_at of the row a worker is about to insert, or NoTime
    rows,       \* the OK rows: job, stamp, and (history) when they were inserted
    phase,      \* the reporter: idle, query, map, push or commit
    start,      \* its window, from ...
    end,        \* ... to
    todo,       \* the records it still has to push
    customers,  \* the jobs whose subscription it has mapped to a customer
    watermark,  \* last_reported_utc, or NoTime
    metered,    \* the meter events Stripe has, by identifier
    passed,     \* history: the seconds that a window began after or ended in
    skipped,    \* history: the jobs of which a record was refused or not mapped
    faults      \* faults injected so far

workerVars   == <<stamped, rows>>
reporterVars == <<phase, start, end, todo, customers>>
billingVars  == <<watermark, metered, passed, skipped>>
vars == <<now, workerVars, reporterVars, billingVars, faults>>

-----------------------------------------------------------------------------
Times == 0 .. MaxTime

Second(t) == t \div TicksPerSecond

Row == [job : Jobs, stamp : Times, inserted : Times]

\* A meter event is known by its identifier, the job and the second of the row.
Event == [job : Jobs, second : Int]

\* Every variable has its type; the clock is ahead of everything it was read for.
TypeOK ==
    /\ now \in Times
    /\ stamped \in [Jobs -> Times \cup {NoTime}]
    /\ rows \subseteq Row
    /\ phase \in {"idle", "query", "map", "push", "commit"}
    /\ start \in Int /\ end \in Times
    /\ todo \subseteq Row
    /\ customers \subseteq Jobs
    /\ watermark \in Times \cup {NoTime}
    /\ metered \subseteq Event
    /\ passed \subseteq Int
    /\ skipped \subseteq Jobs
    /\ faults \in 0 .. MaxFaults

Init ==
    /\ now = 0
    /\ stamped = [j \in Jobs |-> NoTime]
    /\ rows = {}
    /\ phase = "idle" /\ start = 0 /\ end = 0 /\ todo = {} /\ customers = {}
    /\ watermark = NoTime /\ metered = {} /\ passed = {} /\ skipped = {}
    /\ faults = 0

Fault(kind) ==
    /\ kind \in FaultKinds
    /\ faults < MaxFaults
    /\ faults' = faults + 1

-----------------------------------------------------------------------------
(* The workers: process_canonize stamps the row, then inserts it.          *)

RowsOf(j) == {r \in rows : r.job = j}

Stamp(j) ==
    /\ stamped[j] = NoTime
    /\ Cardinality(rows) + Cardinality({i \in Jobs : stamped[i] # NoTime}) < MaxRows
    /\ stamped' = [stamped EXCEPT ![j] = now]
    /\ UNCHANGED <<now, rows, reporterVars, billingVars, faults>>

Insert(j) ==
    /\ stamped[j] # NoTime
    /\ rows' = rows \cup {[job |-> j, stamp |-> stamped[j], inserted |-> now]}
    /\ stamped' = [stamped EXCEPT ![j] = NoTime]
    /\ UNCHANGED <<now, reporterVars, billingVars, faults>>

-----------------------------------------------------------------------------
(* The reporter.                                                           *)

EndRun == phase' = "idle" /\ start' = 0 /\ end' = 0 /\ todo' = {} /\ customers' = {}

Larger(a, b) == IF a >= b THEN a ELSE b

\* compute_window
WindowStart(mark) ==
    Larger(IF mark = NoTime THEN now - Lookback ELSE mark, now - MaxWindow)

WindowEnd == now

\* The seconds after the watermark that a window with this start leaves out.
LeftOut(from) ==
    {Second(t) : t \in {u \in Times :
        /\ Second(u) <= Second(from)
        /\ watermark # NoTime => Second(u) > Second(watermark)}}

\* A watermark that cannot be read counts as none.
BeginRun ==
    /\ phase = "idle"
    /\ \E mark \in {watermark, NoTime} :
          /\ \/ mark = watermark /\ UNCHANGED faults
             \/ mark # watermark /\ Fault("watermark")
          /\ WindowStart(mark) < now
          /\ start' = WindowStart(mark)
          /\ passed' = passed \cup LeftOut(WindowStart(mark))
    /\ end' = WindowEnd
    /\ phase' = "query"
    /\ UNCHANGED <<now, workerVars, todo, customers, watermark, metered, skipped>>

\* The query compares text: "...:05.123+00:00" is less than "...:05Z".  So the
\* rows of the second in which a window starts are out, and those of the second
\* in which it ends are in.
InWindow(r) == Second(start) < Second(r.stamp) /\ Second(r.stamp) <= Second(end)

\* query_usage_from_jobs: one row of each job, the one inserted last.
Query ==
    /\ phase = "query"
    /\ LET found == {r \in rows : InWindow(r)}
       IN  \E R \in SUBSET found :
              /\ \A r \in found : \E q \in R : q.job = r.job /\ q.inserted >= r.inserted
              /\ \A q, r \in R : q.job = r.job => q = r
              /\ todo' = R
              /\ phase' = IF R = {} THEN "commit" ELSE "map"
    /\ UNCHANGED <<now, workerVars, start, end, customers, billingVars, faults>>

\* load_subscription_map: no customer at all if a table cannot be read, and the
\* comp users among them if UserConfig cannot.
LoadMap ==
    /\ phase = "map"
    /\ \/ customers' = Jobs \ Comp /\ UNCHANGED faults
       \/ customers' = {} /\ Fault("customers")
       \/ customers' = Jobs /\ Fault("comp")
    /\ phase' = "push"
    /\ UNCHANGED <<now, workerVars, start, end, todo, billingVars>>

\* Mutant: an identifier made of the window instead of the row.
WindowIdentifier(r) == [job |-> r.job, second |-> Second(end)]

EventIdentifier(r) == [job |-> r.job, second |-> Second(r.stamp)]

\* push_meter_events, one record at a time in the order of their stamps.  Stripe
\* ignores an identifier it knows; a record it refuses, or that has no customer,
\* is skipped.
Push ==
    /\ phase = "push"
    /\ \E r \in todo :
          /\ \A q \in todo : r.stamp <= q.stamp
          /\ \/ /\ r.job \in customers
                /\ metered' = metered \cup {EventIdentifier(r)}
                /\ UNCHANGED <<skipped, faults>>
             \/ /\ \/ r.job \in customers /\ Fault("reject")
                   \/ r.job \notin customers /\ UNCHANGED faults
                /\ skipped' = skipped \cup {r.job}
                /\ UNCHANGED metered
          /\ todo' = todo \ {r}
          /\ phase' = IF todo' = {} THEN "commit" ELSE "push"
    /\ UNCHANGED <<now, workerVars, start, end, customers, watermark, passed>>

\* Mutant: the watermark is the time at which the run ends.
CommitNow ==
    /\ phase = "commit"
    /\ watermark' = now
    /\ passed' = passed \cup {Second(end)}
    /\ EndRun
    /\ UNCHANGED <<now, workerVars, metered, skipped, faults>>

\* set_watermark
Commit ==
    /\ phase = "commit"
    /\ watermark' = end
    /\ passed' = passed \cup {Second(end)}
    /\ EndRun
    /\ UNCHANGED <<now, workerVars, metered, skipped, faults>>

\* The run fails: it is killed, or a call to a table or to Stripe raises.
Die ==
    /\ phase # "idle"
    /\ Fault("crash")
    /\ EndRun
    /\ UNCHANGED <<now, workerVars, billingVars>>

Tick ==
    /\ now < MaxTime
    /\ now' = now + 1
    /\ UNCHANGED <<workerVars, reporterVars, billingVars, faults>>

-----------------------------------------------------------------------------
Next ==
    \/ \E j \in Jobs : Stamp(j) \/ Insert(j)
    \/ BeginRun \/ Query \/ LoadMap \/ Push \/ Commit \/ Die \/ Tick

Spec == Init /\ [][Next]_vars

-----------------------------------------------------------------------------
(* Properties.                                                             *)

EventsOf(j) == {e \in metered : e.job = j}

\* A row is billed once, however often the reporter fails between the events
\* and the watermark and does a window again, and although windows overlap
\* after a watermark that could not be read: two events of a job mean that it
\* was completed twice.
RetriesBillOnce ==
    \A j \in Jobs : \A d, e \in EventsOf(j) :
        d # e => \E q, r \in RowsOf(j) : Second(q.stamp) # Second(r.stamp)

\* Windows leave no gap, whatever run fails at whatever point: once the watermark
\* is past a row, the job is billed.  Except for what the code lets go knowingly:
\* rows inserted after the second of their stamp, rows of a second in which a
\* window ended or which it began after (a watermark that could not be read, or
\* one that is too old), and records that were refused or have no customer.
Prompt(r) == Second(r.inserted) = Second(r.stamp) /\ Second(r.stamp) \notin passed

NoGap ==
    \A r \in rows :
        /\ watermark # NoTime /\ Second(r.stamp) <= Second(watermark)
        /\ Prompt(r) /\ r.job \notin skipped
        => EventsOf(r.job) # {}

=============================================================================
