-------------------------------- MODULE Quota --------------------------------
(***************************************************************************)
(* QuotaService (quota.py) as accept_canonize and the worker use it: the   *)
(* check of a request against the account's allowance and its key's quota, *)
(* the charge of both counters, and the refund of a failed job.  Counters  *)
(* live in Redis, per billing period, and are rebuilt from the job table   *)
(* when they are missing.                                                  *)
(*                                                                         *)
(* Every call to Redis or to the table is a step of its own, and requests  *)
(* of several gateway processes interleave.  One account with its keys is  *)
(* modelled: accounts share no counter.  Comp accounts are never checked   *)
(* and are left out.  What a counter holds is kept as the set of requests  *)
(* added to it and the number of times each was taken off it, its value is *)
(* the difference in bytes; so the model can say whose bytes it counts.    *)
(***************************************************************************)
EXTENDS Integers, FiniteSets

CONSTANTS
    Requests,       \* POST requests; an admitted one is a job
    Keys,           \* the account's API keys (sub_id)
    Account,        \* names the account's own counter
    KeyOf,          \* the key a request comes with
    SizeOf,         \* its content length
    MaxSize,        \* MAX_FILE_SIZE
    FreeBytes,      \* UserContext.free_bytes, or NoLimit
    PaidEnabled,    \* UserContext.paid_enabled
    CapBytes,       \* UserContext.cap_bytes, or NoLimit
    KeyLimit,       \* the quota in force for each key, or NoLimit
    NoLimit,
    Warm,           \* the counters of the first period exist at the start
    MaxRejected,    \* max_rejected of QuotaService (50)
    MaxConcurrent,  \* bound: requests being checked or charged at a time
    MaxPeriod,      \* bound: billing periods that begin
    FaultKinds,     \* which faults this instance injects ...
    MaxFaults       \* ... and bound: how many of them

Counters == Keys \cup {Account}

ASSUME KeysAssumption == Account \notin Keys /\ KeyOf \in [Requests -> Keys]
ASSUME PeriodAssumption == MaxPeriod \in Nat \ {0}
ASSUME SizesAssumption == MaxSize \in Nat \ {0} /\ SizeOf \in [Requests -> 1 .. MaxSize]
ASSUME LimitsAssumption ==
    /\ MaxRejected \in Nat \ {0} /\ MaxConcurrent \in Nat \ {0}
    /\ CapBytes \in Nat \cup {NoLimit}
ASSUME FaultsAssumption ==
    MaxFaults \in Nat /\ FaultKinds \subseteq {"crash", "flush", "scan", "rerun", "report"}

VARIABLES
    period,     \* the current billing period
    pc,         \* where each request, and then its job, is
    pinned,     \* the period accept_canonize charges (JobMeta.period_start)
    checked,    \* the period check reads the counters of
    scope,      \* the counter being checked
    found,      \* the jobs a reconstruction has found
    usage,      \* the counters in Redis, per period
    rejected,   \* sub:*:rejected, per key
    expiring,   \* ... has a TTL
    completed,  \* the period of the job's last OK row, 0: none
    working,    \* the handlers (or their queue entries) a job has
    dueKey,     \* ... and those that have yet to refund its key ...
    dueAccount, \* ... and its account
    booked,     \* history: the requests charged to each counter
    returned,   \* history: how often each request was refunded to each counter
    cut,        \* history: the requests a process has died or given up on
    faults,     \* faults injected so far
    losses      \* history: how often Redis has lost its counters

redisVars == <<usage, rejected, expiring>>
jobVars   == <<completed, working, dueKey, dueAccount, cut>>
bookVars  == <<booked, returned>>
localVars == <<pinned, checked, scope, found>>
faultVars == <<faults, losses>>
vars == <<period, pc, localVars, redisVars, jobVars, bookVars, faultVars>>

-----------------------------------------------------------------------------
(* Values.                                                                 *)

NoRefund  == [r \in Requests |-> 0]
NoCounter == [set |-> FALSE, plus |-> {}, minus |-> NoRefund]
Counter   == [set : BOOLEAN, plus : SUBSET Requests, minus : [Requests -> Nat]]
Holding(plus, minus) == [set |-> TRUE, plus |-> plus, minus |-> minus]
OneMore(times, r)    == [times EXCEPT ![r] = @ + 1]
OneLess(times, r)    == [times EXCEPT ![r] = @ - 1]

\* Sizes added up, byte by byte: of a set of <<request, time>>, as a request may
\* be refunded several times, and of a set of requests.
BytesOf(P)     == Cardinality(UNION {{x} \X (1 .. SizeOf[x[1]]) : x \in P})
Bytes(S)       == BytesOf(S \X {1})
Refunds(times) == UNION {{r} \X (1 .. times[r]) : r \in Requests}
Value(c)       == Bytes(c.plus) - BytesOf(Refunds(c.minus))

Over(total, limit) == limit # NoLimit /\ total > limit

\* Mutant: what has been used is compared, not what it would become.
UsedOnly(r, used) == used

Projected(r, used) == used + SizeOf[r]

\* Mutant: the reconstruction forgets the status filter.
RowsOfAnyStatus(c, p) ==
    {r \in Requests : (c = Account \/ KeyOf[r] = c) /\ pinned[r] >= p /\ r \in booked[Account]}

\* The rows _reconstruct sums up: OK, completed in the period or later.
Rows(c, p) ==
    {r \in Requests : (c = Account \/ KeyOf[r] = c) /\ completed[r] # 0 /\ completed[r] >= p}

Fault(kind) ==
    /\ kind \in FaultKinds
    /\ faults < MaxFaults
    /\ faults' = faults + 1
    /\ losses' = IF kind = "flush" THEN losses + 1 ELSE losses

Goto(r, where) == pc' = [pc EXCEPT ![r] = where]

Places == {"idle", "rejections", "read", "scan", "restore", "reject", "rejectTtl", "refused",
           "recordKey", "recordAccount", "create", "accepted", "ok", "dead"}

\* The gateway is at work on the request, and may yet charge it.
InFlight == {r \in Requests : pc[r] \in {"rejections", "read", "scan", "restore", "reject",
                                         "rejectTtl", "recordKey", "recordAccount"}}

-----------------------------------------------------------------------------
\* Every variable has its type.
TypeOK ==
    /\ period \in 1 .. MaxPeriod
    /\ pc \in [Requests -> Places]
    /\ pinned \in [Requests -> 1 .. MaxPeriod]
    /\ checked \in [Requests -> 1 .. MaxPeriod]
    /\ scope \in [Requests -> Counters]
    /\ found \in [Requests -> SUBSET Requests]
    /\ usage \in [Counters -> [1 .. MaxPeriod -> Counter]]
    /\ rejected \in [Keys -> Nat]
    /\ expiring \in [Keys -> BOOLEAN]
    /\ completed \in [Requests -> 0 .. MaxPeriod]
    /\ working \in [Requests -> Nat]
    /\ dueKey \in [Requests -> Nat]
    /\ dueAccount \in [Requests -> Nat]
    /\ booked \in [Counters -> SUBSET Requests]
    /\ returned \in [Counters -> [Requests -> Nat]]
    /\ cut \in SUBSET Requests
    /\ faults \in 0 .. MaxFaults
    /\ losses \in Nat

Init ==
    /\ period = 1
    /\ pc = [r \in Requests |-> "idle"]
    /\ pinned = [r \in Requests |-> 1]
    /\ checked = [r \in Requests |-> 1]
    /\ scope = [r \in Requests |-> Account]
    /\ found = [r \in Requests |-> {}]
    /\ usage = [c \in Counters |-> [p \in 1 .. MaxPeriod |->
                   IF Warm /\ p = 1 THEN Holding({}, NoRefund) ELSE NoCounter]]
    /\ rejected = [k \in Keys |-> 0]
    /\ expiring = [k \in Keys |-> FALSE]
    /\ completed = [r \in Requests |-> 0]
    /\ working = NoRefund
    /\ dueKey = NoRefund
    /\ dueAccount = NoRefund
    /\ booked = [c \in Counters |-> {}]
    /\ returned = [c \in Counters |-> NoRefund]
    /\ cut = {}
    /\ faults = 0
    /\ losses = 0

-----------------------------------------------------------------------------
(* QuotaService.check                                                      *)

PeriodNow == period

\* accept_canonize pins the period and calls check.
Arrive(r) ==
    /\ pc[r] = "idle"
    /\ Cardinality(InFlight) < MaxConcurrent
    /\ Goto(r, "rejections")
    /\ pinned' = [pinned EXCEPT ![r] = PeriodNow]
    /\ UNCHANGED <<period, checked, scope, found, redisVars, jobVars, bookVars, faultVars>>

\* Mutant: no rate limit.
CheckNoRejections(r) ==
    /\ pc[r] = "rejections"
    /\ Goto(r, "read")
    /\ checked' = [checked EXCEPT ![r] = PeriodNow]
    /\ UNCHANGED <<period, pinned, scope, found, redisVars, jobVars, bookVars, faultVars>>

\* A key with too many rejections is refused; check then takes the period of
\* its own from the clock.
CheckRejections(r) ==
    /\ pc[r] = "rejections"
    /\ \/ /\ rejected[KeyOf[r]] >= MaxRejected
          /\ Goto(r, "refused")
          /\ UNCHANGED checked
       \/ /\ rejected[KeyOf[r]] < MaxRejected
          /\ Goto(r, "read")
          /\ checked' = [checked EXCEPT ![r] = PeriodNow]
    /\ UNCHANGED <<period, pinned, scope, found, redisVars, jobVars, bookVars, faultVars>>

\* The usage of the counter is known: refuse at the free line, reject over
\* the cap or the key's quota, go on from the account to its key, or admit.
FreeLine(total) == ~PaidEnabled /\ Over(total, FreeBytes)

Decide(r, used) ==
    LET total == Projected(r, used)
        limit == KeyLimit[KeyOf[r]]
    IN  \/ /\ scope[r] = Account
           /\ FreeLine(total)
           /\ Goto(r, "refused") /\ UNCHANGED scope
        \/ /\ scope[r] = Account
           /\ ~FreeLine(total) /\ Over(total, CapBytes)
           /\ Goto(r, "reject") /\ UNCHANGED scope
        \/ /\ scope[r] = Account
           /\ ~FreeLine(total) /\ ~Over(total, CapBytes)
           /\ \/ limit # NoLimit /\ Goto(r, "read") /\ scope' = [scope EXCEPT ![r] = KeyOf[r]]
              \/ limit = NoLimit /\ Goto(r, "recordKey") /\ UNCHANGED scope
        \/ /\ scope[r] # Account
           /\ Goto(r, IF Over(total, limit) THEN "reject" ELSE "recordKey")
           /\ UNCHANGED scope

\* GET of the counter.
ReadUsage(r) ==
    /\ pc[r] = "read"
    /\ LET c == usage[scope[r]][checked[r]]
       IN  \/ c.set /\ Decide(r, Value(c))
           \/ ~c.set /\ Goto(r, "scan") /\ UNCHANGED scope
    /\ UNCHANGED <<period, pinned, checked, found, redisVars, jobVars, bookVars, faultVars>>

\* The counter is missing: _reconstruct sums up the job table.  A scan that
\* fails (a fault) counts as zero, and zero is not written back.
ScanTable(r) ==
    /\ pc[r] = "scan"
    /\ \E S \in {Rows(scope[r], checked[r]), {}} :
          /\ \/ S = Rows(scope[r], checked[r]) /\ UNCHANGED faultVars
             \/ S # Rows(scope[r], checked[r]) /\ Fault("scan")
          /\ found' = [found EXCEPT ![r] = S]
          /\ \/ S = {} /\ Decide(r, 0)
             \/ S # {} /\ Goto(r, "restore") /\ UNCHANGED scope
    /\ UNCHANGED <<period, pinned, checked, redisVars, jobVars, bookVars>>

\* SET of what was found, whatever the counter holds by now.
RestoreUsage(r) ==
    /\ pc[r] = "restore"
    /\ usage' = [usage EXCEPT ![scope[r]][checked[r]] = Holding(found[r], NoRefund)]
    /\ Decide(r, Bytes(found[r]))
    /\ found' = [found EXCEPT ![r] = {}]
    /\ UNCHANGED <<period, pinned, checked, rejected, expiring, jobVars, bookVars, faultVars>>

\* _incr_rejected: INCR ...
CountRejection(r) ==
    /\ pc[r] = "reject"
    /\ rejected' = [rejected EXCEPT ![KeyOf[r]] = @ + 1]
    /\ Goto(r, "rejectTtl")
    /\ UNCHANGED <<period, localVars, usage, expiring, jobVars, bookVars, faultVars>>

\* Mutant: the TTL is set by the first rejection only.
ExpireFirstRejection(r) ==
    /\ pc[r] = "rejectTtl"
    /\ expiring' = [expiring EXCEPT ![KeyOf[r]] = @ \/ rejected[KeyOf[r]] = 1]
    /\ Goto(r, "refused")
    /\ UNCHANGED <<period, localVars, usage, rejected, jobVars, bookVars, faultVars>>

\* ... and EXPIRE, which does nothing when the counter is gone by now.
ExpireRejection(r) ==
    /\ pc[r] = "rejectTtl"
    /\ expiring' = [expiring EXCEPT ![KeyOf[r]] = rejected[KeyOf[r]] > 0]
    /\ Goto(r, "refused")
    /\ UNCHANGED <<period, localVars, usage, rejected, jobVars, bookVars, faultVars>>

-----------------------------------------------------------------------------
(* QuotaService.record and refund: INCRBY and DECRBY of the two counters,  *)
(* one after the other, in the period that was pinned.  Redis creates a    *)
(* counter that is missing.  Their EXPIREs last until the period is over   *)
(* (BillingPeriod) and nobody reads the counter of a period that is over.  *)

Add(c, r) ==
    /\ usage' = [usage EXCEPT ![c][pinned[r]] = Holding(@.plus \cup {r}, @.minus)]
    /\ booked' = [booked EXCEPT ![c] = @ \cup {r}]

\* Mutant: the refund takes the period from the clock.
RefundPeriodNow(r) == period

RefundPeriod(r) == pinned[r]

\* DECRBY: each time it is called.
Subtract(c, r) ==
    /\ usage' = [usage EXCEPT ![c][RefundPeriod(r)] = Holding(@.plus, OneMore(@.minus, r))]
    /\ returned' = [returned EXCEPT ![c] = OneMore(@, r)]

RecordKey(r) ==
    /\ pc[r] = "recordKey"
    /\ Add(KeyOf[r], r)
    /\ Goto(r, "recordAccount")
    /\ UNCHANGED <<period, localVars, rejected, expiring, jobVars, returned, faultVars>>

RecordAccount(r) ==
    /\ pc[r] = "recordAccount"
    /\ Add(Account, r)
    /\ Goto(r, "create")
    /\ UNCHANGED <<period, localVars, rejected, expiring, jobVars, returned, faultVars>>

\* A handler whose job has failed refunds the key, then the account.
RefundKey(r) ==
    /\ dueKey[r] > 0
    /\ Subtract(KeyOf[r], r)
    /\ dueKey' = OneLess(dueKey, r)
    /\ dueAccount' = OneMore(dueAccount, r)
    /\ UNCHANGED <<period, pc, localVars, rejected, expiring, completed, working, cut, booked, faultVars>>

RefundAccount(r) ==
    /\ dueAccount[r] > 0
    /\ Subtract(Account, r)
    /\ dueAccount' = OneLess(dueAccount, r)
    /\ UNCHANGED <<period, pc, localVars, rejected, expiring, completed, working, dueKey, cut, booked,
                   faultVars>>

-----------------------------------------------------------------------------
(* The job, as far as it decides on refunds (JobPipeline has the rest).    *)
(* pc is "ok" while its newest row is an OK row.                           *)

\* accept_canonize stores the input, writes the row and enqueues the job, well
\* after the charge.
CreateJob(r) ==
    /\ pc[r] = "create"
    /\ Goto(r, "accepted")
    /\ working' = OneMore(working, r)
    /\ UNCHANGED <<period, localVars, redisVars, completed, dueKey, dueAccount, cut, bookVars, faultVars>>

\* The entry is delivered again, or the sweep finds the row of PROCESSING and
\* enqueues the job once more, although it has failed or is being worked on.  A
\* handler skips a job whose newest row is OK.
Rerun(r) ==
    /\ pc[r] = "accepted"
    /\ Fault("rerun")
    /\ working' = OneMore(working, r)
    /\ UNCHANGED <<period, pc, localVars, redisVars, completed, dueKey, dueAccount, cut, bookVars>>

\* process_canonize writes the OK row ...
JobOk(r) ==
    /\ working[r] > 0
    /\ completed' = [completed EXCEPT ![r] = period]
    /\ Goto(r, "ok")
    /\ UNCHANGED <<period, localVars, redisVars, working, dueKey, dueAccount, cut, bookVars, faultVars>>

\* ... and returns, as a handler does that finds it.
Returns(r) ==
    /\ working[r] > 0 /\ pc[r] = "ok"
    /\ working' = OneLess(working, r)
    /\ UNCHANGED <<period, pc, localVars, redisVars, completed, dueKey, dueAccount, cut, bookVars, faultVars>>

\* The job fails, before an OK row or (a fault) after one: an error row becomes
\* the newest, except for an input that cannot be read, and a refund is due.
JobFails(r) ==
    /\ working[r] > 0
    /\ \/ pc[r] = "accepted" /\ UNCHANGED faultVars
       \/ pc[r] = "ok" /\ Fault("report")
    /\ pc' \in {pc, [pc EXCEPT ![r] = "accepted"]}
    /\ working' = OneLess(working, r)
    /\ dueKey' = OneMore(dueKey, r)
    /\ UNCHANGED <<period, localVars, redisVars, completed, dueAccount, cut, bookVars>>

\* The gateway dies, or the upload raises, before the job exists.
GatewayDies(r) ==
    /\ r \in InFlight \/ pc[r] = "create"
    /\ Fault("crash")
    /\ Goto(r, "dead")
    /\ cut' = cut \cup {r}
    /\ UNCHANGED <<period, localVars, redisVars, completed, working, dueKey, dueAccount, bookVars>>

\* A handler dies, is dead-lettered or does not find the account, with the job
\* unfinished or before one of its refunds.
HandlerDies(r) ==
    /\ Fault("crash")
    /\ \/ working[r] > 0 /\ working' = OneLess(working, r) /\ UNCHANGED <<dueKey, dueAccount>>
       \/ dueKey[r] > 0 /\ dueKey' = OneLess(dueKey, r) /\ UNCHANGED <<working, dueAccount>>
       \/ dueAccount[r] > 0 /\ dueAccount' = OneLess(dueAccount, r) /\ UNCHANGED <<working, dueKey>>
    /\ cut' = cut \cup {r}
    /\ UNCHANGED <<period, pc, localVars, redisVars, completed, bookVars>>

-----------------------------------------------------------------------------
(* The environment.                                                        *)

NextPeriod ==
    /\ period < MaxPeriod
    /\ period' = period + 1
    /\ UNCHANGED <<pc, localVars, redisVars, jobVars, bookVars, faultVars>>

\* The TTL of a rejection counter runs out.
RejectionsExpire(k) ==
    /\ expiring[k]
    /\ rejected' = [rejected EXCEPT ![k] = 0]
    /\ expiring' = [expiring EXCEPT ![k] = FALSE]
    /\ UNCHANGED <<period, pc, localVars, usage, jobVars, bookVars, faultVars>>

LoseRedis ==
    /\ Fault("flush")
    /\ usage' = [c \in Counters |-> [p \in 1 .. MaxPeriod |-> NoCounter]]
    /\ rejected' = [k \in Keys |-> 0]
    /\ expiring' = [k \in Keys |-> FALSE]
    /\ UNCHANGED <<period, pc, localVars, jobVars, bookVars>>

-----------------------------------------------------------------------------
Check(r)  == \/ CheckRejections(r) \/ ReadUsage(r) \/ ScanTable(r) \/ RestoreUsage(r)
             \/ CountRejection(r) \/ ExpireRejection(r)
Charge(r) == RecordKey(r) \/ RecordAccount(r) \/ RefundKey(r) \/ RefundAccount(r)
Job(r)    == \/ CreateJob(r) \/ Rerun(r) \/ JobOk(r) \/ Returns(r) \/ JobFails(r)
             \/ GatewayDies(r) \/ HandlerDies(r)

Next ==
    \/ \E r \in Requests : Arrive(r) \/ Check(r) \/ Charge(r) \/ Job(r)
    \/ \E k \in Keys : RejectionsExpire(k)
    \/ NextPeriod \/ LoseRedis

Spec == Init /\ [][Next]_vars

\* A request that is being served is served to its end, and a TTL runs out.
Fairness ==
    /\ \A r \in Requests : WF_vars(Check(r) \/ Charge(r))
    /\ \A k \in Keys : WF_vars(RejectionsExpire(k))

FairSpec == Spec /\ Fairness

-----------------------------------------------------------------------------
(* Properties.                                                             *)

\* The requests charged to counter c in period p, and those not refunded.
Charges(c, p) == {r \in booked[c] : pinned[r] = p}
Ledger(c, p)  == {r \in Charges(c, p) : returned[c][r] = 0}

\* A counter never counts bytes that were not used: what it holds and was never
\* taken off it is a charge of that period that stands, or a job that was
\* completed in it.  In spite of lost counters, reconstructions that race with
\* charges and refunds, crashes, failed scans, and jobs that run again.
NeverOvercounted ==
    \A c \in Counters, p \in 1 .. MaxPeriod :
        LET u == usage[c][p] IN
        \A r \in u.plus : u.minus[r] = 0 => r \in Ledger(c, p) \/ completed[r] >= p

\* The two properties that follow are about the first period, whose counters
\* exist from the start, as long as Redis does not lose them.
NothingLost == Warm /\ losses = 0

\* What was refunded to the account beyond the charge: a job that fails and runs
\* again may be refunded each time.
Excess == BytesOf({x \in Refunds(returned[Account]) : pinned[x[1]] = 1 /\ x[2] > 1})

\* The check and the charge are not one step, so requests that are checked at
\* the same time can together exceed the cap; but by no more than the requests
\* that were in flight beside the last one and what was refunded beyond the
\* charges, and not at all one by one.  Of the requests that are checked in the
\* period they are charged to, that is.
CapOvershootBounded ==
    NothingLost /\ CapBytes # NoLimit =>
        Bytes({r \in Ledger(Account, 1) : checked[r] = 1})
            <= CapBytes + (MaxConcurrent - 1) * MaxSize + Excess

\* Failures cost nothing: when nothing is under way, the counters hold no more
\* than the jobs charged to the period that are OK, although refunds may come
\* after the period is over; but for those a process died or gave up on.  And
\* they hold exactly that unless a job was refunded twice, or was refunded and is
\* OK all the same.
AtRest ==
    \A r \in Requests :
        /\ pc[r] \in {"idle", "refused", "accepted", "ok", "dead"}
        /\ working[r] = 0 /\ dueKey[r] = 0 /\ dueAccount[r] = 0
Settled(r, c) ==
    /\ r \notin cut
    /\ returned[c][r] = 0 \/ (returned[c][r] = 1 /\ completed[r] = 0)
CountersBalance ==
    NothingLost /\ AtRest =>
        \A c \in Counters :
            LET used == {r \in Charges(c, 1) : completed[r] # 0}
            IN  /\ Value(usage[c][1]) <= Bytes(used \cup (Charges(c, 1) \cap cut))
                /\ (\A r \in Charges(c, 1) : Settled(r, c)) => Value(usage[c][1]) = Bytes(used)

\* The rate limit holds although the count is read and written apart: only
\* the requests already in flight can push it further.
RejectionsBounded == \A k \in Keys : rejected[k] <= MaxRejected + MaxConcurrent - 1

\* A key that was refused for too many rejections is served again in the end,
\* even if a request died between the INCR and the EXPIRE.
LockoutEnds == \A k \in Keys : rejected[k] >= MaxRejected ~> rejected[k] < MaxRejected

=============================================================================
