----------------------------- MODULE BillingPage -----------------------------
(***************************************************************************)
(* The usage on the user's billing page (user-page-data.ts): the sum of    *)
(* the counters the gateway keeps for the user's keys in Redis or, when    *)
(* none of them is there, of the bytes of the finished jobs in GwUserJobs. *)
(*                                                                         *)
(* Every read of a load is a step.  Between them the gateway charges,      *)
(* refunds and finishes jobs, keys and results are deleted, and Redis may  *)
(* lose its data.  The keys have no quota of their own, so the gateway     *)
(* never sets their counters from the table (Quota has those that do).     *)
(* The page sets counters too, but under what GwUserJobs holds as key_id,  *)
(* which is the name of the key and not its id: nobody reads those.        *)
(***************************************************************************)
EXTENDS Integers, FiniteSets

CONSTANTS
    Meters,         \* the user's keys, each with its counter
    NameOf,         \* their names; a deleted key's may be another's again
    Charges,        \* the jobs that end in the current period
    Earlier,        \* those of them that the previous period was charged for
    Nameless,       \* those whose key the gateway found no name of
    MeterOf,        \* the key of a job
    BytesOf,        \* its input_bytes
    UnitSize,       \* bytes of a unit: 100 000
    FreeUnits,      \* config.freeUnits
    NoValue,        \* a counter that is not there
    MaxUsageLoads,  \* bound: loads of the page
    MaxMishaps      \* bound: runs that fail, refunds and losses of Redis

ASSUME ChargesAssumption == MeterOf \in [Charges -> Meters] /\ BytesOf \in [Charges -> Nat \ {0}]
ASSUME UnitsAssumption == UnitSize \in Nat \ {0} /\ FreeUnits \in Nat /\ NoValue \notin Int
ASSUME UsageBoundsAssumption == MaxUsageLoads \in Nat /\ MaxMishaps \in Nat

VARIABLES
    listed,         \* the keys in ApiKeys
    charged,        \* the jobs the current period was charged for
    refunds,        \* how often a job's bytes were taken off again
    rowOf,          \* GwUserJobs: the status of the jobs, "none" if there is no row
    counter,        \* quota:<key>:<period> in Redis
    load,           \* the load of the page: at, and its local variables
    stats,          \* the cards of the page: units, rest of the free ones, cost
    finished,       \* history: the jobs whose row was "ok" once
    before,         \* history: those of the listed keys, and of this period, at
                    \* the start of the load
    unsure,         \* history: the load read a counter that was short or gone,
                    \* or rows without those of all finished jobs
    short,          \* history: keys whose counter may lack charges
    usageLoads, mishaps

jobVars   == <<listed, charged, refunds, rowOf, counter, finished, short, mishaps>>
loadVars  == <<load, stats, before, unsure, usageLoads>>
usageVars == <<jobVars, loadVars>>

\* input_bytes of jobs added up: their bytes, counted one by one.
Used(jobs)   == Cardinality(UNION {{j} \X (1 .. BytesOf[j]) : j \in jobs})

ChargedTo(k) == {j \in charged : MeterOf[j] = k}

NotLoading == [at |-> "no", left |-> {}, names |-> {}, hit |-> FALSE, total |-> 0]
Blank      == [units |-> 0, rest |-> 0, cost |-> 0]

UsageInit ==
    /\ listed = Meters
    /\ charged = {}
    /\ refunds = [j \in Charges |-> 0]
    /\ rowOf = [j \in Charges |-> IF j \in Earlier THEN "processing" ELSE "none"]
    /\ counter = [k \in Meters |-> NoValue]
    /\ load = NotLoading
    /\ stats = Blank
    /\ finished = {} /\ before = {} /\ unsure = FALSE /\ short = {}
    /\ usageLoads = 0 /\ mishaps = 0

-----------------------------------------------------------------------------
(* The gateway, the other pages and Redis.                                 *)

\* INCRBY and DECRBY count from 0 if there is no counter.
Counted(k, by) == counter' = [counter EXCEPT ![k] = IF @ = NoValue THEN by ELSE @ + by]

ShortIf(lacking, k) == short' = IF lacking THEN short \cup {k} ELSE short

\* A request is charged; it may end here.
Charge(j) ==
    LET k == MeterOf[j] IN
    /\ j \notin charged /\ j \notin Earlier
    /\ charged' = charged \cup {j}
    /\ Counted(k, BytesOf[j])
    /\ ShortIf(counter[k] = NoValue /\ ChargedTo(k) # {}, k)
    /\ UNCHANGED <<listed, refunds, rowOf, finished, mishaps, loadVars>>

Mishap == mishaps < MaxMishaps /\ mishaps' = mishaps + 1

SetRow(j, status) == rowOf' = [rowOf EXCEPT ![j] = status]

\* The job is created: its row is written.
CreateRow(j) ==
    /\ j \in charged /\ rowOf[j] = "none"
    /\ SetRow(j, "processing")
    /\ UNCHANGED <<listed, charged, refunds, counter, finished, short, mishaps, loadVars>>

\* A run of it ends well, the first or one after others that failed or after
\* the deletion of its result.
Converted(j) ==
    /\ rowOf[j] \notin {"none", "ok"}
    /\ SetRow(j, "ok")
    /\ finished' = finished \cup {j}
    /\ ShortIf(refunds[j] > 0, MeterOf[j])
    /\ UNCHANGED <<listed, charged, refunds, counter, mishaps, loadVars>>

\* A run of it fails, perhaps with its row at "ok" already.
Failed(j) ==
    /\ rowOf[j] \notin {"none", "error"}
    /\ Mishap
    /\ SetRow(j, "error")
    /\ UNCHANGED <<listed, charged, refunds, counter, finished, short, loadVars>>

\* A run that failed, with or without a trace in the row, is refunded: the job
\* may be so by each of its runs.
Refund(j) ==
    LET k == MeterOf[j] IN
    /\ j \in charged /\ rowOf[j] # "none"
    /\ Mishap
    /\ refunds' = [refunds EXCEPT ![j] = @ + 1]
    /\ Counted(k, -BytesOf[j])
    /\ ShortIf(counter[k] = NoValue \/ refunds[j] > 0 \/ j \in finished, k)
    /\ UNCHANGED <<listed, charged, rowOf, finished, loadVars>>

\* Its result is deleted, by the user or by the cleaner.
ResultDeleted(j) ==
    /\ rowOf[j] \notin {"none", "deleted"}
    /\ SetRow(j, "deleted")
    /\ UNCHANGED <<listed, charged, refunds, counter, finished, short, mishaps, loadVars>>

\* A key is deleted; its counter and the rows of its jobs stay.
KeyDeleted(k) ==
    /\ k \in listed
    /\ listed' = listed \ {k}
    /\ UNCHANGED <<charged, refunds, rowOf, counter, finished, short, mishaps, loadVars>>

\* Redis loses its data.
Flush ==
    /\ Mishap
    /\ counter' = [k \in Meters |-> NoValue]
    /\ UNCHANGED <<listed, charged, refunds, rowOf, finished, short, loadVars>>

-----------------------------------------------------------------------------
(* The load of the page.                                                   *)

\* BillingPage, getCurrentUsageUnits: the keys are listed, or the portal has
\* no Redis.
OpenBilling ==
    /\ load.at = "no"
    /\ usageLoads < MaxUsageLoads
    /\ usageLoads' = usageLoads + 1
    /\ \/ load' = [NotLoading EXCEPT !.at = "counters", !.left = listed]
       \/ load' = [NotLoading EXCEPT !.at = "rows"]
    /\ before' = {j \in charged \cap finished : MeterOf[j] \in listed}
    /\ unsure' = FALSE
    /\ UNCHANGED <<jobVars, stats>>

\* The anchor day is not read for an error: the page shows the period from the
\* first day of the month, of which nothing is known here.
OpenAstray ==
    /\ load.at = "no"
    /\ usageLoads < MaxUsageLoads
    /\ usageLoads' = usageLoads + 1
    /\ load' = [NotLoading EXCEPT !.at = "astray"]
    /\ stats' \in {Blank, [units |-> FreeUnits + 1, rest |-> 0, cost |-> 1]}
    /\ UNCHANGED <<jobVars, before, unsure>>

\* The counters are read one by one; one that is missing counts as 0.
GetCounter(k) ==
    /\ load.at = "counters" /\ k \in load.left
    /\ load' = [load EXCEPT !.left = @ \ {k},
                            !.hit = @ \/ counter[k] # NoValue,
                            !.total = IF counter[k] = NoValue THEN @ ELSE @ + counter[k]]
    /\ unsure' = (unsure \/ k \in short \/ (counter[k] = NoValue /\ ChargedTo(k) # {}))
    /\ UNCHANGED <<jobVars, stats, before, usageLoads>>

\* Mutant: the query forgets the status.
RowsOfAnyJob == {j \in Charges : rowOf[j] # "none" /\ j \notin Nameless}

\* The rows reconstructUsageFromTable adds up; it skips those without a name.
FinishedRows == {j \in Charges : rowOf[j] = "ok" /\ j \notin Nameless}

\* No counter at all: the bytes of the finished jobs, of every key.
ScanJobs ==
    /\ load.at = "rows" \/ (load.at = "counters" /\ load.left = {} /\ ~load.hit)
    /\ load' = [load EXCEPT
                   !.at = "seed",
                   !.names = IF load.at = "rows" THEN {} ELSE {NameOf[MeterOf[j]] : j \in FinishedRows},
                   !.total = Used(FinishedRows)]
    /\ unsure' = (\E j \in finished : rowOf[j] # "ok" \/ j \in Nameless)
    /\ UNCHANGED <<jobVars, stats, before, usageLoads>>

\* SET of a counter under the name of a key, where nobody looks.
SeedName(name) ==
    /\ load.at = "seed" /\ name \in load.names
    /\ load' = [load EXCEPT !.names = @ \ {name}]
    /\ UNCHANGED <<jobVars, stats, before, unsure, usageLoads>>

\* A unit that is begun counts; a counter below zero counts as 0.
UnitsOf(bytes) == IF bytes > 0 THEN (bytes + UnitSize - 1) \div UnitSize ELSE 0

\* calculateBilling.
Calculated(units) ==
    [units |-> units,
     rest  |-> IF units < FreeUnits THEN FreeUnits - units ELSE 0,
     cost  |-> IF units > FreeUnits THEN units - FreeUnits ELSE 0]

\* BillingPageContent, StatCards: the page is shown.
ShowStats ==
    /\ \/ load.at = "seed" /\ load.names = {}
       \/ load.at = "counters" /\ load.left = {} /\ load.hit
    /\ stats' = Calculated(UnitsOf(load.total))
    /\ load' = [NotLoading EXCEPT !.at = "shown"]
    /\ UNCHANGED <<jobVars, before, unsure, usageLoads>>

\* The page is left, or a call fails and an error is shown instead.
LeaveBilling ==
    /\ load.at # "no"
    /\ load' = NotLoading
    /\ stats' = Blank
    /\ before' = {} /\ unsure' = FALSE
    /\ UNCHANGED <<jobVars, usageLoads>>

UsageNext ==
    \/ \E j \in Charges : \/ Charge(j) \/ CreateRow(j) \/ Converted(j)
                          \/ Failed(j) \/ Refund(j) \/ ResultDeleted(j)
    \/ \E k \in Meters : KeyDeleted(k) \/ GetCounter(k)
    \/ \E name \in load.names : SeedName(name)
    \/ Flush \/ OpenBilling \/ OpenAstray \/ ScanJobs \/ ShowStats \/ LeaveBilling

-----------------------------------------------------------------------------
\* However jobs are charged, refunded, run again and deleted and counters lost
\* during the load, the page of the current period never shows more than the
\* bytes it was charged for or saw finished, but for the last unit, which is
\* only begun.  It shows at least what the user's finished jobs had used when it
\* was opened, with his free units used up accordingly; unless a counter it read
\* had begun anew after a loss, was missing with another there, or had a job
\* taken off twice or although it was finished, or the rows it read instead
\* lacked a finished job, for its deletion, a failure since or want of a name.
UsageShown ==
    load.at = "shown" =>
        /\ stats.units * UnitSize < Used(charged \cup finished) + UnitSize
        /\ ~unsure => /\ stats.units * UnitSize >= Used(before)
                      /\ Used(before) >= FreeUnits * UnitSize => stats.rest = 0
                      /\ Used(before) > FreeUnits * UnitSize => stats.cost > 0
=============================================================================
