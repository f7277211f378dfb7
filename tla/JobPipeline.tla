----------------------------- MODULE JobPipeline -----------------------------
(***************************************************************************)
(* The life of a conversion job, from POST /v1/canonize to the deletion of *)
(* its files, across every process that touches it: the gateway's accept,  *)
(* poll and delete handlers (handlers.py), the Redis stream with its       *)
(* consumer group (queue.py), the workers (worker.py, process_canonize.py),*)
(* the reconciliation sweep (sweep.py), the retention cleaner (cleanup.py) *)
(* and the append-only job table they share (jobs_table.py).               *)
(*                                                                         *)
(* A step ends where the code awaits or calls another service; between two *)
(* steps of one process every other process may run.  The quota of a job   *)
(* is one charge at accept and a count of refunds; how much is charged and *)
(* in which period is the business of the quota module, not of this one.   *)
(***************************************************************************)
EXTENDS Integers, FiniteSets

CONSTANTS
    Jobs,           \* the jobs that may be submitted
    Workers,        \* handler slots: one _handle_job task each, any process
    MaxCopies,      \* bound: stream entries of one job at the same time
    MaxDeliveries,  \* MAX_DELIVERIES of worker.py (5)
    OldJobs,        \* jobs that outlive SWEEP_STALE_THRESHOLD (10 minutes)
    DeletableJobs,  \* jobs whose owner may ask for DELETE
    FaultKinds,     \* which faults this instance injects ...
    MaxFaults,      \* ... and bound: how many of them in one behaviour
    MaxClock,       \* bound: how many retention periods may pass
    NoSlot          \* "this handler holds no stream entry"

Slots == Jobs \X (1 .. MaxCopies)
JobOf(s) == s[1]

AllFaults == {"crash", "flush", "lostbeat", "suspend", "blob", "report"}

ASSUME MaxCopiesAssumption == MaxCopies \in Nat \ {0}
ASSUME MaxDeliveriesAssumption == MaxDeliveries \in Nat \ {0}
ASSUME MaxFaultsAssumption == MaxFaults \in Nat
ASSUME MaxClockAssumption == MaxClock \in Nat \ {0}
ASSUME JobSetsAssumption == OldJobs \subseteq Jobs /\ DeletableJobs \subseteq Jobs
ASSUME FaultKindsAssumption == FaultKinds \subseteq AllFaults
ASSUME NoSlotAssumption == NoSlot \notin Slots

VARIABLES
    clock,      \* in retention periods (24 h); results and artefacts live one
    accept,     \* how far accept_canonize got for each job
    latest,     \* TableJobStore.get: the newest row of each job
    log,        \* every row ever appended to GwJobs for each job
    blobs,      \* which of {"input", "artefact"} the blob store holds
    entry,      \* stream:convert: "free", "new" or "pending" per slot
    delivered,  \* times_delivered of a pending entry
    result,     \* the job_result:* signal in Redis
    refunds,    \* how often the job's charge was refunded (2: twice or more)
    pc,         \* where each handler is in _handle_job
    task,       \* the stream entry the handler was given
    poison,     \* the entry came from XAUTOCLAIM over the delivery limit
    outcome,    \* what the handler is about to publish
    carry,      \* retention_expires of the row a failing handler has read
    deleting,   \* how far delete_result got for each job
    cleaning,   \* retention_expires of the row the cleaner works on
    suspended,  \* the account does not resolve to a UserContext
    faults      \* faults injected so far

queueVars   == <<entry, delivered>>
tableVars   == <<latest, log>>
handlerVars == <<pc, task, poison, outcome, carry>>
vars == <<clock, accept, tableVars, blobs, queueVars, result, refunds,
          handlerVars, deleting, cleaning, suspended, faults>>

-----------------------------------------------------------------------------
(* Values.  retention_expires is a clock reading, 0 while it is not set.   *)

NoExpiry == 0
Expiry   == 0 .. MaxClock + 1
Status   == {"processing", "ok", "error", "deleted"}
Row      == [status : Status, exp : Expiry]
NoRow    == [status |-> "absent", exp |-> NoExpiry]
NoScan   == -1

Signal   == [sig : {"none", "ok", "error"}, exp : Expiry]
NoSignal == [sig |-> "none", exp |-> NoExpiry]

Phases == {"idle", "check", "deadStore", "deadAck", "deadMark", "resolve", "fetch",
           "convert", "finish", "report", "markError", "store", "ack", "refund"}

\* Mutant: the filter forgets that an unset expiry is the empty string.
ExpiredWhenUnset(exp) == exp <= clock

Expired(exp) == exp # NoExpiry /\ exp <= clock
MinOf(a, b)  == IF a < b THEN a ELSE b

\* The rows of job j that a scan with a status filter returns.  The filter is
\* applied to every row of the log, not to the newest row of each job.
Scan(j, S) == {r \in log[j] : r.status \in S}

\* TableJobStore.create / update: one more row in the append-only log.
AppendRow(j, row) ==
    /\ latest' = [latest EXCEPT ![j] = row]
    /\ log'    = [log EXCEPT ![j] = @ \cup {row}]

\* RedisQueue.store_result: SET with the 24 h TTL.
Publish(j, sig) == result' = [result EXCEPT ![j] = [sig |-> sig, exp |-> clock + 1]]

\* A slot may carry a new stream entry only if no handler still refers to it:
\* the ids of a Redis stream are never used twice.
Unused(s) == entry[s] = "free" /\ \A w \in Workers : task[w] # s

Enqueue(j) ==
    \E s \in Slots :
        /\ JobOf(s) = j
        /\ Unused(s)
        /\ entry' = [entry EXCEPT ![s] = "new"]
        /\ UNCHANGED delivered

Fault(kind) ==
    /\ kind \in FaultKinds
    /\ faults < MaxFaults
    /\ faults' = faults + 1

-----------------------------------------------------------------------------
TypeOK ==
    /\ clock \in 1 .. MaxClock
    /\ accept \in [Jobs -> {"idle", "charged", "stored", "created", "accepted", "failed"}]
    /\ latest \in [Jobs -> Row \cup {NoRow}]
    /\ log \in [Jobs -> SUBSET Row]
    /\ blobs \in [Jobs -> SUBSET {"input", "artefact"}]
    /\ entry \in [Slots -> {"free", "new", "pending"}]
    /\ delivered \in [Slots -> 0 .. MaxDeliveries + 1]
    /\ result \in [Jobs -> Signal]
    /\ refunds \in [Jobs -> 0 .. 2]
    /\ pc \in [Workers -> Phases]
    /\ task \in [Workers -> Slots \cup {NoSlot}]
    /\ poison \in [Workers -> BOOLEAN]
    /\ outcome \in [Workers -> {"none", "ok", "error"}]
    /\ carry \in [Workers -> Expiry]
    /\ deleting \in [Jobs -> {"no", "purged", "broken", "done"}]
    /\ cleaning \in [Jobs -> Expiry \cup {NoScan}]
    /\ suspended \in BOOLEAN
    /\ faults \in 0 .. MaxFaults

Init ==
    /\ clock = 1
    /\ accept = [j \in Jobs |-> "idle"]
    /\ latest = [j \in Jobs |-> NoRow]
    /\ log = [j \in Jobs |-> {}]
    /\ blobs = [j \in Jobs |-> {}]
    /\ entry = [s \in Slots |-> "free"]
    /\ delivered = [s \in Slots |-> 0]
    /\ result = [j \in Jobs |-> NoSignal]
    /\ refunds = [j \in Jobs |-> 0]
    /\ pc = [w \in Workers |-> "idle"]
    /\ task = [w \in Workers |-> NoSlot]
    /\ poison = [w \in Workers |-> FALSE]
    /\ outcome = [w \in Workers |-> "none"]
    /\ carry = [w \in Workers |-> NoExpiry]
    /\ deleting = [j \in Jobs |-> "no"]
    /\ cleaning = [j \in Jobs |-> NoScan]
    /\ suspended = FALSE
    /\ faults = 0

-----------------------------------------------------------------------------
(* POST /v1/canonize: accept_canonize.  The charge comes first and nothing *)
(* takes it back when a later step fails.                                  *)

\* resolve, quota.check and quota.record.
AcceptCharge(j) ==
    /\ accept[j] = "idle"
    /\ ~suspended
    /\ accept' = [accept EXCEPT ![j] = "charged"]
    /\ UNCHANGED <<clock, tableVars, blobs, queueVars, result, refunds, handlerVars,
                   deleting, cleaning, suspended, faults>>

AcceptPutInput(j) ==
    /\ accept[j] = "charged"
    /\ accept' = [accept EXCEPT ![j] = "stored"]
    /\ blobs' = [blobs EXCEPT ![j] = @ \cup {"input"}]
    /\ UNCHANGED <<clock, tableVars, queueVars, result, refunds, handlerVars,
                   deleting, cleaning, suspended, faults>>

AcceptCreateRow(j) ==
    /\ accept[j] = "stored"
    /\ accept' = [accept EXCEPT ![j] = "created"]
    /\ AppendRow(j, [status |-> "processing", exp |-> NoExpiry])
    /\ UNCHANGED <<clock, blobs, queueVars, result, refunds, handlerVars,
                   deleting, cleaning, suspended, faults>>

\* enqueue and the 202 with the job id.
AcceptEnqueue(j) ==
    /\ accept[j] = "created"
    /\ accept' = [accept EXCEPT ![j] = "accepted"]
    /\ Enqueue(j)
    /\ UNCHANGED <<clock, tableVars, blobs, result, refunds, handlerVars,
                   deleting, cleaning, suspended, faults>>

\* The request dies between two of its steps: a crash of the gateway or an
\* exception of the store, the table or Redis.  The client has no job id.
AcceptDies(j) ==
    /\ accept[j] \in {"charged", "stored", "created"}
    /\ Fault("crash")
    /\ accept' = [accept EXCEPT ![j] = "failed"]
    /\ UNCHANGED <<clock, tableVars, blobs, queueVars, result, refunds, handlerVars,
                   deleting, cleaning, suspended>>

Accept(j) == AcceptCharge(j) \/ AcceptPutInput(j) \/ AcceptCreateRow(j) \/ AcceptEnqueue(j)

-----------------------------------------------------------------------------
(* The worker loop: RedisQueue.dequeue hands one stream entry to a handler.*)

Handled(s) == \E w \in Workers : task[w] = s

Begin(w, s, overLimit) ==
    /\ pc[w] = "idle"
    /\ pc' = [pc EXCEPT ![w] = "check"]
    /\ task' = [task EXCEPT ![w] = s]
    /\ poison' = [poison EXCEPT ![w] = overLimit]
    /\ UNCHANGED <<outcome, carry>>

\* Mutant: XREADGROUP NOACK, the entry never becomes pending.
DequeueNoAck(w, s) ==
    /\ entry[s] = "new"
    /\ Begin(w, s, FALSE)
    /\ entry' = [entry EXCEPT ![s] = "free"]
    /\ UNCHANGED <<delivered, clock, accept, tableVars, blobs, result, refunds,
                   deleting, cleaning, suspended, faults>>

\* XREADGROUP ">": an entry no consumer has seen.  Which of several fresh
\* entries comes first is left open.
DequeueFresh(w, s) ==
    /\ entry[s] = "new"
    /\ Begin(w, s, FALSE)
    /\ entry' = [entry EXCEPT ![s] = "pending"]
    /\ delivered' = [delivered EXCEPT ![s] = 1]
    /\ UNCHANGED <<clock, accept, tableVars, blobs, result, refunds,
                   deleting, cleaning, suspended, faults>>

\* XAUTOCLAIM: a pending entry nobody has touched for CLAIM_MIN_IDLE_MS: its
\* handler is gone, or (a fault) the heartbeats of a live handler were lost.
\* The delivery count saturates one above the limit: only > is ever asked.
Reclaim(w, s) ==
    /\ entry[s] = "pending"
    /\ \/ ~Handled(s) /\ UNCHANGED faults
       \/ Handled(s) /\ Fault("lostbeat")
    /\ Begin(w, s, delivered[s] + 1 > MaxDeliveries)
    /\ delivered' = [delivered EXCEPT ![s] = MinOf(@ + 1, MaxDeliveries + 1)]
    /\ UNCHANGED <<clock, accept, tableVars, blobs, entry, result, refunds,
                   deleting, cleaning, suspended>>

-----------------------------------------------------------------------------
(* _handle_job                                                             *)

JobAt(w) == JobOf(task[w])

Goto(w, phase) == pc' = [pc EXCEPT ![w] = phase]

\* The handler returns, dies or raises: the slot is free for another entry.
Release(w) ==
    /\ pc' = [pc EXCEPT ![w] = "idle"]
    /\ task' = [task EXCEPT ![w] = NoSlot]
    /\ poison' = [poison EXCEPT ![w] = FALSE]
    /\ outcome' = [outcome EXCEPT ![w] = "none"]
    /\ carry' = [carry EXCEPT ![w] = NoExpiry]

\* RedisQueue.acknowledge: XACK does not ask who owns the entry.
Acknowledge(s) ==
    /\ entry' = [entry EXCEPT ![s] = "free"]
    /\ delivered' = [delivered EXCEPT ![s] = 0]

\* Mutant: no idempotency guard.
CheckPoisonOnly(w) ==
    /\ pc[w] = "check"
    /\ Goto(w, IF poison[w] THEN "deadStore" ELSE "resolve")
    /\ UNCHANGED <<clock, accept, tableVars, blobs, queueVars, result, refunds, task, poison,
                   outcome, carry, deleting, cleaning, suspended, faults>>

\* The idempotency guard and the poison-pill guard.
CheckStatus(w) ==
    /\ pc[w] = "check"
    /\ \/ /\ latest[JobAt(w)].status \in {"ok", "deleted"}
          /\ Goto(w, "ack")
       \/ /\ latest[JobAt(w)].status \notin {"ok", "deleted"}
          /\ Goto(w, IF poison[w] THEN "deadStore" ELSE "resolve")
    /\ UNCHANGED <<clock, accept, tableVars, blobs, queueVars, result, refunds, task, poison,
                   outcome, carry, deleting, cleaning, suspended, faults>>

\* An account that does not resolve: the entry is acknowledged and dropped.
ResolveUser(w) ==
    /\ pc[w] = "resolve"
    /\ Goto(w, IF suspended THEN "ack" ELSE "fetch")
    /\ UNCHANGED <<clock, accept, tableVars, blobs, queueVars, result, refunds, task, poison,
                   outcome, carry, deleting, cleaning, suspended, faults>>

\* blobs.get and decrypt.  A missing or unreadable input is an error result,
\* but the job's row is left as it is.
FetchInput(w) ==
    /\ pc[w] = "fetch"
    /\ \/ /\ "input" \in blobs[JobAt(w)]
          /\ Goto(w, "convert")
          /\ UNCHANGED <<outcome, faults>>
       \/ /\ \/ "input" \notin blobs[JobAt(w)] /\ UNCHANGED faults
             \/ "input" \in blobs[JobAt(w)] /\ Fault("blob")
          /\ Goto(w, "store")
          /\ outcome' = [outcome EXCEPT ![w] = "error"]
    /\ UNCHANGED <<clock, accept, tableVars, blobs, queueVars, result, refunds, task, poison,
                   carry, deleting, cleaning, suspended>>

\* canonize and the puts of the artefacts, the markdown last.
Convert(w) ==
    /\ pc[w] = "convert"
    /\ blobs' = [blobs EXCEPT ![JobAt(w)] = @ \cup {"artefact"}]
    /\ Goto(w, "finish")
    /\ UNCHANGED <<clock, accept, tableVars, queueVars, result, refunds, task, poison,
                   outcome, carry, deleting, cleaning, suspended, faults>>

\* Mutant: the update of the row is forgotten.
MarkOkNowhere(w) ==
    /\ pc[w] = "finish"
    /\ Goto(w, "report")
    /\ UNCHANGED <<clock, accept, tableVars, blobs, queueVars, result, refunds, task, poison,
                   outcome, carry, deleting, cleaning, suspended, faults>>

\* Mutant: the retention is added twice.
MarkOkForTwoPeriods(w) ==
    /\ pc[w] = "finish"
    /\ AppendRow(JobAt(w), [status |-> "ok", exp |-> clock + 2])
    /\ Goto(w, "report")
    /\ UNCHANGED <<clock, accept, blobs, queueVars, result, refunds, task, poison,
                   outcome, carry, deleting, cleaning, suspended, faults>>

\* The row becomes OK whatever the newest row says by now.
MarkOk(w) ==
    /\ pc[w] = "finish"
    /\ AppendRow(JobAt(w), [status |-> "ok", exp |-> clock + 1])
    /\ Goto(w, "report")
    /\ UNCHANGED <<clock, accept, blobs, queueVars, result, refunds, task, poison,
                   outcome, carry, deleting, cleaning, suspended, faults>>

Report(w) ==
    /\ pc[w] = "report"
    /\ Goto(w, "store")
    /\ outcome' = [outcome EXCEPT ![w] = "ok"]
    /\ UNCHANGED <<clock, accept, tableVars, blobs, queueVars, result, refunds, task, poison,
                   carry, deleting, cleaning, suspended, faults>>

\* _mark_error reads the row when the conversion or a put has failed, or (a
\* fault) the index row or the telemetry event after the OK row has ...
Fail(w) ==
    /\ \/ pc[w] \in {"convert", "finish"} /\ UNCHANGED faults
       \/ pc[w] = "report" /\ Fault("report")
    /\ Goto(w, "markError")
    /\ carry' = [carry EXCEPT ![w] = latest[JobAt(w)].exp]
    /\ UNCHANGED <<clock, accept, tableVars, blobs, queueVars, result, refunds, task, poison,
                   outcome, deleting, cleaning, suspended>>

\* ... and writes it back as failed, whatever has been written meanwhile.
MarkError(w) ==
    /\ pc[w] = "markError"
    /\ AppendRow(JobAt(w), [status |-> "error", exp |-> carry[w]])
    /\ Goto(w, "store")
    /\ outcome' = [outcome EXCEPT ![w] = "error"]
    /\ carry' = [carry EXCEPT ![w] = NoExpiry]
    /\ UNCHANGED <<clock, accept, blobs, queueVars, result, refunds, task, poison,
                   deleting, cleaning, suspended, faults>>

StoreResult(w) ==
    /\ pc[w] = "store"
    /\ Publish(JobAt(w), outcome[w])
    /\ Goto(w, "ack")
    /\ UNCHANGED <<clock, accept, tableVars, blobs, queueVars, refunds, task, poison,
                   outcome, carry, deleting, cleaning, suspended, faults>>

\* Mutant: a failed job is left unacknowledged, for a retry.
AckUnlessFailed(w) ==
    /\ pc[w] = "ack"
    /\ \/ /\ outcome[w] = "error"
          /\ Goto(w, "refund")
          /\ UNCHANGED <<task, poison, outcome, carry, queueVars>>
       \/ /\ outcome[w] # "error"
          /\ Acknowledge(task[w])
          /\ Release(w)
    /\ UNCHANGED <<clock, accept, tableVars, blobs, result, refunds,
                   deleting, cleaning, suspended, faults>>

AckEntry(w) ==
    /\ pc[w] = "ack"
    /\ Acknowledge(task[w])
    /\ \/ /\ outcome[w] = "error"
          /\ Goto(w, "refund")
          /\ UNCHANGED <<task, poison, outcome, carry>>
       \/ /\ outcome[w] # "error"
          /\ Release(w)
    /\ UNCHANGED <<clock, accept, tableVars, blobs, result, refunds,
                   deleting, cleaning, suspended, faults>>

\* quota.refund of the recorded charge, after the acknowledgement.
Refund(w) ==
    /\ pc[w] = "refund"
    /\ refunds' = [refunds EXCEPT ![JobAt(w)] = MinOf(@ + 1, 2)]
    /\ Release(w)
    /\ UNCHANGED <<clock, accept, tableVars, blobs, queueVars, result,
                   deleting, cleaning, suspended, faults>>

\* _dead_letter: publish the failure ...
DeadLetterStore(w) ==
    /\ pc[w] = "deadStore"
    /\ Publish(JobAt(w), "error")
    /\ Goto(w, "deadAck")
    /\ UNCHANGED <<clock, accept, tableVars, blobs, queueVars, refunds, task, poison,
                   outcome, carry, deleting, cleaning, suspended, faults>>

\* ... acknowledge and read the row ...
DeadLetterAck(w) ==
    /\ pc[w] = "deadAck"
    /\ Acknowledge(task[w])
    /\ \/ /\ latest[JobAt(w)].status \in {"ok", "deleted"}
          /\ Release(w)
       \/ /\ latest[JobAt(w)].status \notin {"ok", "deleted"}
          /\ Goto(w, "deadMark")
          /\ carry' = [carry EXCEPT ![w] = latest[JobAt(w)].exp]
          /\ UNCHANGED <<task, poison, outcome>>
    /\ UNCHANGED <<clock, accept, tableVars, blobs, result, refunds,
                   deleting, cleaning, suspended, faults>>

\* ... and write it back as failed.  Nothing is refunded.
DeadLetterMark(w) ==
    /\ pc[w] = "deadMark"
    /\ AppendRow(JobAt(w), [status |-> "error", exp |-> carry[w]])
    /\ Release(w)
    /\ UNCHANGED <<clock, accept, blobs, queueVars, result, refunds,
                   deleting, cleaning, suspended, faults>>

\* The worker process dies, or a step raises out of dispatch_job: the entry
\* stays pending, the row stays as the last step left it.
HandlerDies(w) ==
    /\ pc[w] # "idle"
    /\ Fault("crash")
    /\ Release(w)
    /\ UNCHANGED <<clock, accept, tableVars, blobs, queueVars, result, refunds,
                   deleting, cleaning, suspended>>

Handle(w) ==
    \/ CheckStatus(w) \/ ResolveUser(w) \/ FetchInput(w) \/ Convert(w) \/ MarkOk(w)
    \/ Report(w) \/ Fail(w) \/ MarkError(w) \/ StoreResult(w) \/ AckEntry(w) \/ Refund(w)
    \/ DeadLetterStore(w) \/ DeadLetterAck(w) \/ DeadLetterMark(w)

-----------------------------------------------------------------------------
(* DELETE /v1/canonize/{job_id}: delete_result, one successful call a job. *)

DeletePurge(j) ==
    /\ j \in DeletableJobs
    /\ accept[j] = "accepted"
    /\ ~suspended
    /\ deleting[j] \in {"no", "broken"}
    /\ latest[j].status # "deleted"
    /\ deleting' = [deleting EXCEPT ![j] = "purged"]
    /\ blobs' = [blobs EXCEPT ![j] = {}]
    /\ UNCHANGED <<clock, accept, tableVars, queueVars, result, refunds, handlerVars,
                   cleaning, suspended, faults>>

\* mark_deleted reads the newest row again and brings its expiry forward.
DeleteMark(j) ==
    /\ deleting[j] = "purged"
    /\ deleting' = [deleting EXCEPT ![j] = "done"]
    /\ AppendRow(j, [status |-> "deleted",
                     exp |-> IF Expired(latest[j].exp) THEN latest[j].exp ELSE clock])
    /\ UNCHANGED <<clock, accept, blobs, queueVars, result, refunds, handlerVars,
                   cleaning, suspended, faults>>

\* A blob that another process deleted first, or a crash: the call fails with
\* the files gone and the row unmarked; the client may try again.
DeleteDies(j) ==
    /\ deleting[j] = "purged"
    /\ Fault("crash")
    /\ deleting' = [deleting EXCEPT ![j] = "broken"]
    /\ UNCHANGED <<clock, accept, tableVars, blobs, queueVars, result, refunds, handlerVars,
                   cleaning, suspended>>

-----------------------------------------------------------------------------
(* The retention cleaner: run_cleanup.  Both passes scan rows, not jobs.   *)

\* Mutant: every job with a retention matches, expired or not.
CleanRetained(j) ==
    /\ cleaning[j] = NoScan
    /\ \E r \in Scan(j, {"processing", "ok", "error"}) :
          /\ r.exp # NoExpiry
          /\ cleaning' = [cleaning EXCEPT ![j] = r.exp]
    /\ blobs' = [blobs EXCEPT ![j] = {}]
    /\ UNCHANGED <<clock, accept, tableVars, queueVars, result, refunds, handlerVars,
                   deleting, suspended, faults>>

CleanExpired(j) ==
    /\ cleaning[j] = NoScan
    /\ \E r \in Scan(j, {"processing", "ok", "error"}) :
          /\ Expired(r.exp)
          /\ cleaning' = [cleaning EXCEPT ![j] = r.exp]
    /\ blobs' = [blobs EXCEPT ![j] = {}]
    /\ UNCHANGED <<clock, accept, tableVars, queueVars, result, refunds, handlerVars,
                   deleting, suspended, faults>>

\* The scanned row goes back as DELETED, without reading the job again.
CleanMark(j) ==
    /\ cleaning[j] # NoScan
    /\ cleaning' = [cleaning EXCEPT ![j] = NoScan]
    /\ AppendRow(j, [status |-> "deleted", exp |-> cleaning[j]])
    /\ UNCHANGED <<clock, accept, blobs, queueVars, result, refunds, handlerVars,
                   deleting, suspended, faults>>

CleanDies(j) ==
    /\ cleaning[j] # NoScan
    /\ Fault("crash")
    /\ cleaning' = [cleaning EXCEPT ![j] = NoScan]
    /\ UNCHANGED <<clock, accept, tableVars, blobs, queueVars, result, refunds, handlerVars,
                   deleting, suspended>>

\* Mutant: the second pass looks at the newest row of each job only.
CleanNewestDeleted(j) ==
    /\ cleaning[j] = NoScan
    /\ latest[j].status = "deleted"
    /\ blobs' = [blobs EXCEPT ![j] = {}]
    /\ UNCHANGED <<clock, accept, tableVars, queueVars, result, refunds, handlerVars,
                   deleting, cleaning, suspended, faults>>

\* The second pass: the files of deleted jobs are deleted again.
CleanDeleted(j) ==
    /\ cleaning[j] = NoScan
    /\ Scan(j, {"deleted"}) # {}
    /\ blobs' = [blobs EXCEPT ![j] = {}]
    /\ UNCHANGED <<clock, accept, tableVars, queueVars, result, refunds, handlerVars,
                   deleting, cleaning, suspended, faults>>

Clean(j) == CleanExpired(j) \/ CleanMark(j) \/ CleanDeleted(j)

-----------------------------------------------------------------------------
(* The reconciliation sweep: _sweep_once, for one of the jobs it lists.    *)

\* Mutant: the sweep lists the wrong status.
SweepFailed(j) ==
    /\ j \in OldJobs
    /\ Scan(j, {"error"}) # {}
    /\ Enqueue(j)
    /\ UNCHANGED <<clock, accept, tableVars, blobs, result, refunds, handlerVars,
                   deleting, cleaning, suspended, faults>>

Sweep(j) ==
    /\ j \in OldJobs
    /\ Scan(j, {"processing"}) # {}
    /\ Enqueue(j)
    /\ UNCHANGED <<clock, accept, tableVars, blobs, result, refunds, handlerVars,
                   deleting, cleaning, suspended, faults>>

-----------------------------------------------------------------------------
(* The environment.                                                        *)

\* A retention period passes.  A handler that has published a row or a signal
\* returns within seconds, so it does not sleep through one.
Tick ==
    /\ clock < MaxClock
    /\ \A w \in Workers : pc[w] \notin {"report", "markError", "store", "ack", "refund",
                                         "deadAck", "deadMark"}
    /\ clock' = clock + 1
    /\ result' = [j \in Jobs |-> IF result[j].exp <= clock + 1 THEN NoSignal ELSE result[j]]
    /\ UNCHANGED <<accept, tableVars, blobs, queueVars, refunds, handlerVars,
                   deleting, cleaning, suspended, faults>>

\* Redis loses its data: the stream with its pending list, and the signals.
LoseRedis ==
    /\ Fault("flush")
    /\ entry' = [s \in Slots |-> "free"]
    /\ delivered' = [s \in Slots |-> 0]
    /\ result' = [j \in Jobs |-> NoSignal]
    /\ UNCHANGED <<clock, accept, tableVars, blobs, refunds, handlerVars,
                   deleting, cleaning, suspended>>

\* The account is blocked, delinquent or loses its key mapping ...
Suspend ==
    /\ ~suspended
    /\ Fault("suspend")
    /\ suspended' = TRUE
    /\ UNCHANGED <<clock, accept, tableVars, blobs, queueVars, result, refunds, handlerVars,
                   deleting, cleaning>>

\* ... and comes back.
Reinstate ==
    /\ suspended
    /\ suspended' = FALSE
    /\ UNCHANGED <<clock, accept, tableVars, blobs, queueVars, result, refunds, handlerVars,
                   deleting, cleaning, faults>>

-----------------------------------------------------------------------------
Next ==
    \/ \E j \in Jobs : \/ Accept(j) \/ AcceptDies(j)
                       \/ DeletePurge(j) \/ DeleteMark(j) \/ DeleteDies(j)
                       \/ Clean(j) \/ CleanDies(j)
                       \/ Sweep(j)
    \/ \E w \in Workers, s \in Slots : DequeueFresh(w, s) \/ Reclaim(w, s)
    \/ \E w \in Workers : Handle(w) \/ HandlerDies(w)
    \/ Tick \/ LoseRedis \/ Suspend \/ Reinstate

Spec == Init /\ [][Next]_vars

\* Every process that has work and is not stopped by a fault goes on: request
\* handlers and the cleaner run to their end, the sweep runs every 5 minutes,
\* the worker loop polls forever and serves a fresh entry or an abandoned one
\* that comes up again and again.  Clients owe nothing, except that a request
\* that was charged is being served.
Fairness ==
    /\ \A j \in Jobs :
          /\ WF_vars(AcceptPutInput(j) \/ AcceptCreateRow(j) \/ AcceptEnqueue(j))
          /\ WF_vars(DeleteMark(j))
          /\ WF_vars(CleanExpired(j) \/ CleanMark(j))
          /\ WF_vars(CleanDeleted(j))
          /\ WF_vars(Sweep(j))
    /\ \A s \in Slots :
          /\ SF_vars(\E w \in Workers : DequeueFresh(w, s))
          /\ SF_vars(\E w \in Workers : ~Handled(s) /\ Reclaim(w, s))
    /\ \A w \in Workers : WF_vars(Handle(w))
    /\ WF_vars(Reinstate)

FairSpec == Spec /\ Fairness

-----------------------------------------------------------------------------
(* What a client sees: the status codes of poll_result.                    *)

Retained(j) ==
    latest[j] # NoRow /\ latest[j].status # "deleted" /\ ~Expired(latest[j].exp)

PollStatus(j) ==
    CASE latest[j] = NoRow                              -> 404
      [] latest[j] # NoRow /\ ~Retained(j)              -> 410
      [] Retained(j) /\ result[j].sig = "none"          -> 202
      [] Retained(j) /\ result[j].sig = "error"         -> 500
      [] Retained(j) /\ result[j].sig = "ok"            -> 200

\* The job has a stream entry or a handler at work on it.
Live(j) == \E s \in Slots : JobOf(s) = j /\ (entry[s] # "free" \/ Handled(s))

Settled(j) == latest[j].status \in {"ok", "error", "deleted"}

-----------------------------------------------------------------------------
(* Safety.                                                                 *)

\* A client is told "ok" only after the table has recorded the job as OK, so
\* that losing Redis loses no more than the signal (process_canonize updates
\* the row, _handle_job stores the result afterwards).  Holds under every
\* fault, duplicate delivery and DELETE.
OkSignalIsBacked ==
    \A j \in Jobs : result[j].sig = "ok" => Scan(j, {"ok"}) # {}

\* As long as a job is PROCESSING, and its owner did not ask for DELETE, its
\* input is there to be read, however often the cleaner runs: no scan of
\* run_cleanup may match a job that no handler has finished.
UnfinishedInputKept ==
    \A j \in Jobs :
        latest[j].status = "processing" /\ deleting[j] = "no" => "input" \in blobs[j]

\* One charge is refunded at most once (worker.py refunds after the ack, so
\* that a redelivered entry cannot refund again).
RefundAtMostOnce == \A j \in Jobs : refunds[j] <= 1

\* The charge of a job that ends OK stays: no redelivery turns a refunded
\* failure into a success.
RefundedIsNotOk == \A j \in Jobs : refunds[j] > 0 => latest[j].status # "ok"

\* While polling answers 200, the artefact it lists can be downloaded: the
\* cleaner may not match the job too early.  Unless the owner asked for the files
\* to be deleted, or the job was completed twice and an older row expires first.
OneExpiry(j) == Cardinality({r.exp : r \in log[j]} \ {NoExpiry}) = 1
ServedResultExists ==
    \A j \in Jobs :
        PollStatus(j) = 200 /\ OneExpiry(j) /\ deleting[j] = "no" => "artefact" \in blobs[j]

\* A client that was told "ok" is never told "error" afterwards: a redelivery
\* after the result was stored stops at the idempotency guard.
OkSignalIsFinal ==
    [][\A j \in Jobs : result[j].sig = "ok" => result'[j].sig # "error"]_vars

\* At-least-once delivery: the last stream entry of a job is gone, and its
\* last handler has returned, only once there is an outcome: a settled row or
\* an error signal.
LeavesQueueWithOutcome ==
    [][\A j \in Jobs : Live(j) /\ ~Live(j)' => Settled(j)' \/ result'[j].sig = "error"]_vars

-----------------------------------------------------------------------------
(* Liveness.                                                               *)

\* Every accepted job is settled in the end, whatever crashes, lost Redis
\* data and suspensions happened on the way, unless its owner asks for DELETE: a
\* DELETE that fails between the files and the row leaves the job PROCESSING.
EveryJobSettles ==
    \A j \in Jobs : accept[j] = "accepted" ~> Settled(j) \/ deleting[j] # "no"

\* The files of a job that was deleted, or whose retention has passed, are
\* gone for good in the end, even if a handler put some of them back.
Doomed(j) == \E r \in log[j] : r.status = "deleted" \/ Expired(r.exp)
DoomedFilesGo == \A j \in Jobs : [](Doomed(j) => <>[](blobs[j] = {}))

=============================================================================
