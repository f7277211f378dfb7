---------------------------- MODULE AdminOverview ----------------------------
(***************************************************************************)
(* The administrators' overview (admin-overview-data.ts): the length of    *)
(* the stream of jobs, how many are in flight and how long the oldest has  *)
(* waited, read from Redis, and the jobs of the day, counted in the table, *)
(* while the gateway accepts and the workers end jobs.                     *)
(*                                                                         *)
(* The gateway acknowledges a job and leaves it in the stream, so that the *)
(* queue's length is that of all jobs since Redis last lost its data.  Its *)
(* entries have no input_bytes, so that their sum, the page's size of the  *)
(* queue, is 0 whatever is in it; it is left out.                          *)
(***************************************************************************)
EXTENDS Integers, Sequences, FiniteSets

CONSTANTS
    MaxQueued,      \* bound: jobs
    MaxLosses,      \* bound: losses of Redis
    MaxOverviews    \* bound: loads of the page

ASSUME OverviewAssumption == MaxQueued \in Nat /\ MaxLosses \in Nat /\ MaxOverviews \in Nat

VARIABLES
    row,            \* GwUserJobs: day and status of a job
    stream,         \* stream:convert: the jobs of its entries
    entry,          \* per job: not in the stream, waiting, pending, acknowledged
    group,          \* the consumer group exists
    view,           \* the load: where its two halves are, and what they read
    waited,         \* history: jobs that waited since the load began
    losses, overviews

overviewVars == <<row, stream, entry, group, view, waited, losses, overviews>>

Queued == 1 .. MaxQueued

NotViewed == [queue |-> "no", tables |-> "no", length |-> 0, inFlight |-> 0, oldest |-> 0,
              counted |-> {}, errors |-> 0,
              \* history: a half that failed; the jobs and errors there were
              noQueue |-> FALSE, noTables |-> FALSE, before |-> {}, failedBefore |-> {}]

InEntry(what) == {j \in Queued : entry[j] = what}
OfToday(what) == {j \in Queued : row[j].today /\ row[j].status \in what}
AnyStatus     == {"processing", "ok", "error"}

OverviewInit ==
    /\ row = [j \in Queued |-> [today |-> FALSE, status |-> "none"]]
    /\ stream = <<>>
    /\ entry = [j \in Queued |-> "none"]
    /\ group = TRUE
    /\ view = NotViewed
    /\ waited = {}
    /\ losses = 0 /\ overviews = 0

-----------------------------------------------------------------------------
(* The gateway and its workers.                                            *)

OnlyJobs == UNCHANGED <<view, losses, overviews>>

\* A job is recorded, now or on another day.
Recorded(j) ==
    /\ row[j].status = "none"
    /\ \E today \in BOOLEAN : row' = [row EXCEPT ![j] = [today |-> today, status |-> "processing"]]
    /\ OnlyJobs /\ UNCHANGED <<stream, entry, group, waited>>

\* XADD.
Enqueued(j) ==
    /\ row[j].status = "processing" /\ entry[j] = "none"
    /\ stream' = Append(stream, j)
    /\ entry' = [entry EXCEPT ![j] = "waiting"]
    /\ OnlyJobs /\ UNCHANGED <<row, group, waited>>

\* XREADGROUP.
Taken(j) ==
    /\ group /\ entry[j] = "waiting"
    /\ entry' = [entry EXCEPT ![j] = "pending"]
    /\ waited' = waited \ {j}
    /\ OnlyJobs /\ UNCHANGED <<row, stream, group>>

\* The job ends and is acknowledged: XACK, and no XDEL.
Acknowledged(j) ==
    /\ group /\ entry[j] = "pending"
    /\ entry' = [entry EXCEPT ![j] = "acked"]
    /\ \E s \in {"ok", "error"} : row' = [row EXCEPT ![j].status = s]
    /\ OnlyJobs /\ UNCHANGED <<stream, group, waited>>

\* Redis loses its data; the group comes back with the next worker.
Lost ==
    /\ losses < MaxLosses
    /\ losses' = losses + 1
    /\ stream' = <<>>
    /\ entry' = [j \in Queued |-> IF entry[j] = "none" THEN "none" ELSE "lost"]
    /\ group' = FALSE
    /\ waited' = {}
    /\ UNCHANGED <<row, view, overviews>>

GroupEnsured ==
    /\ ~group
    /\ group' = TRUE
    /\ OnlyJobs /\ UNCHANGED <<row, stream, entry, waited>>

-----------------------------------------------------------------------------
(* The page.                                                               *)

OnlyView == UNCHANGED <<row, stream, entry, group, waited, losses, overviews>>

\* getAdminOverview: both halves begin.
OpenOverview ==
    /\ view.queue = "no" /\ overviews < MaxOverviews
    /\ overviews' = overviews + 1
    /\ view' = [NotViewed EXCEPT !.queue = "length", !.tables = "jobs",
                                 !.before = OfToday(AnyStatus), !.failedBefore = OfToday({"error"})]
    /\ waited' = InEntry("waiting")
    /\ UNCHANGED <<row, stream, entry, group, losses>>

\* XLEN.
ReadLength ==
    /\ view.queue = "length"
    /\ view' = [view EXCEPT !.queue = "pending", !.length = Len(stream)]
    /\ OnlyView

\* XPENDING; without a group it fails, and nothing is in flight.
ReadPending ==
    /\ view.queue = "pending"
    /\ view' = [view EXCEPT !.queue = "oldest",
                            !.inFlight = IF group THEN Cardinality(InEntry("pending")) ELSE 0]
    /\ OnlyView

\* Mutant: the newest entry is read.
LastEntry == IF stream = <<>> THEN 0 ELSE stream[Len(stream)]

FirstEntry == IF stream = <<>> THEN 0 ELSE stream[1]

\* XRANGE from the beginning: the entry that is there longest, done or not.
ReadOldest ==
    /\ view.queue = "oldest"
    /\ view' = [view EXCEPT !.queue = "end", !.oldest = FirstEntry]
    /\ OnlyView

\* A read of Redis fails: its number stays 0.
QueueReadFails ==
    /\ view.queue \in {"length", "pending", "oldest"}
    /\ view' = [view EXCEPT
                   !.queue = CASE @ = "length" -> "pending" [] @ = "pending" -> "oldest" [] OTHER -> "end",
                   !.noQueue = TRUE]
    /\ OnlyView

\* getTableStats: the rows of the day are counted as the listing comes to them,
\* with those written since or without.
CountRow(j) ==
    /\ view.tables = "jobs" /\ j \in OfToday(AnyStatus) \ view.counted
    /\ view' = [view EXCEPT !.counted = @ \cup {j},
                            !.errors = IF row[j].status = "error" THEN @ + 1 ELSE @]
    /\ OnlyView

ListingEnds ==
    /\ view.tables = "jobs" /\ view.before \subseteq view.counted
    /\ view' = [view EXCEPT !.tables = "end"]
    /\ OnlyView

\* The listing fails: what was counted so far stays.
ListingFails ==
    /\ view.tables = "jobs"
    /\ view' = [view EXCEPT !.tables = "end", !.noTables = TRUE]
    /\ OnlyView

Shown == view.queue = "end" /\ view.tables = "end"

\* AdminOverviewContent is left.
LeaveOverview ==
    /\ Shown
    /\ view' = NotViewed
    /\ waited' = {}
    /\ UNCHANGED <<row, stream, entry, group, losses, overviews>>

OverviewNext ==
    \/ \E j \in Queued : Recorded(j) \/ Enqueued(j) \/ Taken(j) \/ Acknowledged(j) \/ CountRow(j)
    \/ Lost \/ GroupEnsured
    \/ OpenOverview \/ ReadLength \/ ReadPending \/ ReadOldest \/ QueueReadFails
    \/ ListingEnds \/ ListingFails \/ LeaveOverview

-----------------------------------------------------------------------------
\* Unless a read of them failed, the overview shows no less than there is: a
\* job that waited all along is in the queue's length and not older than its
\* oldest; the day's jobs and errors there were at the beginning are counted;
\* there are never more errors than jobs.
OverviewCovers ==
    Shown =>
        /\ ~view.noQueue =>
              /\ view.length >= Cardinality(waited)
              /\ \A i \in DOMAIN stream : stream[i] \in waited =>
                    \E k \in 1 .. i : stream[k] = view.oldest
        /\ ~view.noTables =>
              /\ Cardinality(view.counted) >= Cardinality(view.before)
              /\ view.errors >= Cardinality(view.failedBefore)
        /\ view.errors <= Cardinality(view.counted)
=============================================================================
