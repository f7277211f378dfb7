----------------------------- MODULE QuotaProofs -----------------------------
(* Proofs about Quota, for any requests, keys, sizes, limits and faults.   *)
EXTENDS Quota, FiniteSetTheorems, TLAPS

-----------------------------------------------------------------------------
(* Type correctness.                                                       *)

\* The keys of requests have counters, and there is a first period.
LEMMA Domains ==
    /\ MaxPeriod \in Nat /\ MaxPeriod >= 1 /\ MaxFaults \in Nat
    /\ Account \in Counters
    /\ \A r \in Requests : KeyOf[r] \in Keys /\ KeyOf[r] \in Counters /\ KeyOf[r] # Account
  BY PeriodAssumption, FaultsAssumption, KeysAssumption DEF Counters

\* The initial state is well typed.
LEMMA TypeInit == Init => TypeOK
  BY Domains DEF Init, TypeOK, Places, Counter, NoCounter, NoRefund, Holding

\* Whatever the decision, only the place and the scope of the request change.
LEMMA TypeDecide ==
    ASSUME TypeOK, NEW r \in Requests, NEW used, Decide(r, used)
    PROVE  pc' \in [Requests -> Places] /\ scope' \in [Requests -> Counters]
  BY Domains DEF TypeOK, Decide, Goto, Places

\* Every step of a check keeps the types.
LEMMA TypeCheck == ASSUME TypeOK, NEW r \in Requests, Check(r) PROVE TypeOK'
  <1> USE Domains
  <1>1. CASE CheckRejections(r)
    <2>1. pc' \in [Requests -> Places]
      BY <1>1 DEF TypeOK, CheckRejections, Goto, Places
    <2>2. checked' \in [Requests -> 1 .. MaxPeriod]
      BY <1>1 DEF TypeOK, CheckRejections, PeriodNow
    <2> QED BY <1>1, <2>1, <2>2 DEF TypeOK, CheckRejections, redisVars, jobVars, bookVars, faultVars
  <1>2. CASE ReadUsage(r)
    <2>1. pc' \in [Requests -> Places] /\ scope' \in [Requests -> Counters]
      <3>1. CASE Decide(r, Value(usage[scope[r]][checked[r]]))
        BY <3>1, TypeDecide
      <3>2. CASE Goto(r, "scan") /\ UNCHANGED scope
        BY <3>2 DEF TypeOK, Goto, Places
      <3> QED BY <1>2, <3>1, <3>2 DEF ReadUsage
    <2> QED BY <1>2, <2>1 DEF TypeOK, ReadUsage, redisVars, jobVars, bookVars, faultVars
  <1>3. CASE ScanTable(r)
    <2>1. PICK S \in {Rows(scope[r], checked[r]), {}} :
             /\ \/ S = Rows(scope[r], checked[r]) /\ UNCHANGED faultVars
                \/ S # Rows(scope[r], checked[r]) /\ Fault("scan")
             /\ found' = [found EXCEPT ![r] = S]
             /\ \/ S = {} /\ Decide(r, 0)
                \/ S # {} /\ Goto(r, "restore") /\ UNCHANGED scope
      BY <1>3 DEF ScanTable
    <2>2. pc' \in [Requests -> Places] /\ scope' \in [Requests -> Counters]
      <3>1. CASE Decide(r, 0)
        BY <3>1, TypeDecide
      <3>2. CASE Goto(r, "restore") /\ UNCHANGED scope
        BY <3>2 DEF TypeOK, Goto, Places
      <3> QED BY <2>1, <3>1, <3>2
    <2>3. S \subseteq Requests
      BY DEF Rows
    <2>4. faults' \in 0 .. MaxFaults /\ losses' \in Nat
      BY <2>1 DEF TypeOK, Fault, faultVars
    <2> QED BY <1>3, <2>1, <2>2, <2>3, <2>4 DEF TypeOK, ScanTable, redisVars, jobVars, bookVars, faultVars
  <1>4. CASE RestoreUsage(r)
    <2>1. pc' \in [Requests -> Places] /\ scope' \in [Requests -> Counters]
      BY <1>4, TypeDecide DEF RestoreUsage
    <2> QED BY <1>4, <2>1 DEF TypeOK, RestoreUsage, Holding, NoRefund, Counter, jobVars, bookVars,
               faultVars
  <1>5. CASE CountRejection(r)
    <2>1. pc' \in [Requests -> Places] /\ rejected' \in [Keys -> Nat]
      BY <1>5 DEF TypeOK, CountRejection, Goto, Places
    <2> QED BY <1>5, <2>1 DEF TypeOK, CountRejection, localVars, jobVars, bookVars, faultVars
  <1>6. CASE ExpireRejection(r)
    <2>1. pc' \in [Requests -> Places] /\ expiring' \in [Keys -> BOOLEAN]
      BY <1>6 DEF TypeOK, ExpireRejection, Goto, Places
    <2> QED BY <1>6, <2>1 DEF TypeOK, ExpireRejection, localVars, jobVars, bookVars, faultVars
  <1> QED BY <1>1, <1>2, <1>3, <1>4, <1>5, <1>6 DEF Check

\* Counting one more or one less.
LEMMA TypeTimes ==
    ASSUME NEW times \in [Requests -> Nat], NEW r \in Requests
    PROVE  /\ OneMore(times, r) \in [Requests -> Nat]
           /\ OneMore(times, r)[r] = times[r] + 1
           /\ \A q \in Requests \ {r} : OneMore(times, r)[q] = times[q]
           /\ times[r] > 0 => /\ OneLess(times, r) \in [Requests -> Nat]
                              /\ OneLess(times, r)[r] = times[r] - 1
           /\ \A q \in Requests \ {r} : OneLess(times, r)[q] = times[q]
  BY DEF OneMore, OneLess

\* The types of what a job keeps.
LEMMA JobTypes ==
    ASSUME TypeOK
    PROVE  /\ pc \in [Requests -> Places] /\ completed \in [Requests -> 0 .. MaxPeriod]
           /\ working \in [Requests -> Nat] /\ dueKey \in [Requests -> Nat]
           /\ dueAccount \in [Requests -> Nat] /\ cut \in SUBSET Requests
           /\ period \in 1 .. MaxPeriod
  BY DEF TypeOK

\* The types of what a counter and its books hold.
LEMMA CounterTypes ==
    ASSUME TypeOK
    PROVE  /\ \A c \in Counters : \A p \in 1 .. MaxPeriod :
                 /\ usage[c][p] \in Counter
                 /\ usage[c][p].plus \subseteq Requests /\ usage[c][p].minus \in [Requests -> Nat]
           /\ \A c \in Counters : booked[c] \subseteq Requests /\ returned[c] \in [Requests -> Nat]
           /\ \A c \in Counters : \A r \in Requests : returned[c][r] \in Nat
  <1>1. \A c \in Counters : \A p \in 1 .. MaxPeriod : usage[c][p] \in Counter
    BY DEF TypeOK
  <1>2. \A u \in Counter : u.plus \subseteq Requests /\ u.minus \in [Requests -> Nat]
    BY DEF Counter
  <1>3. \A c \in Counters : booked[c] \subseteq Requests /\ returned[c] \in [Requests -> Nat]
    BY DEF TypeOK
  <1> QED BY <1>1, <1>2, <1>3

\* A charge adds to one counter and to its book.
LEMMA TypeAdd ==
    ASSUME TypeOK, NEW r \in Requests, NEW c \in Counters, Add(c, r)
    PROVE  /\ usage' \in [Counters -> [1 .. MaxPeriod -> Counter]]
           /\ booked' \in [Counters -> SUBSET Requests]
  BY DEF TypeOK, Add, Holding, Counter

\* A refund takes off one counter and is entered in its book.
LEMMA TypeSubtract ==
    ASSUME TypeOK, NEW r \in Requests, NEW c \in Counters, Subtract(c, r)
    PROVE  /\ usage' \in [Counters -> [1 .. MaxPeriod -> Counter]]
           /\ returned' \in [Counters -> [Requests -> Nat]]
  <1>1. \A d \in Counters, p \in 1 .. MaxPeriod :
          Holding(usage[d][p].plus, OneMore(usage[d][p].minus, r)) \in Counter
    <2> TAKE d \in Counters, p \in 1 .. MaxPeriod
    <2>1. usage[d][p].plus \in SUBSET Requests /\ OneMore(usage[d][p].minus, r) \in [Requests -> Nat]
      BY CounterTypes, TypeTimes
    <2> QED BY <2>1 DEF Holding, Counter
  <1>2. usage' \in [Counters -> [1 .. MaxPeriod -> Counter]]
    BY <1>1 DEF TypeOK, Subtract, RefundPeriod
  <1>3. returned' \in [Counters -> [Requests -> Nat]]
    BY TypeTimes DEF TypeOK, Subtract
  <1> QED BY <1>2, <1>3

\* Every charge and refund keeps the types.
LEMMA TypeCharge == ASSUME TypeOK, NEW r \in Requests, Charge(r) PROVE TypeOK'
  <1> USE Domains
  <1>1. CASE RecordKey(r)
    BY <1>1, TypeAdd DEF RecordKey, TypeOK, Goto, Places, localVars, jobVars, faultVars
  <1>2. CASE RecordAccount(r)
    BY <1>2, TypeAdd DEF RecordAccount, TypeOK, Goto, Places, localVars, jobVars, faultVars
  <1>3. CASE RefundKey(r)
    <2>1. dueKey' \in [Requests -> Nat] /\ dueAccount' \in [Requests -> Nat]
      BY <1>3, TypeTimes DEF RefundKey, TypeOK
    <2> QED BY <1>3, <2>1, TypeSubtract DEF RefundKey, TypeOK, localVars, faultVars
  <1>4. CASE RefundAccount(r)
    <2>1. dueAccount' \in [Requests -> Nat]
      BY <1>4, TypeTimes DEF RefundAccount, TypeOK
    <2> QED BY <1>4, <2>1, TypeSubtract DEF RefundAccount, TypeOK, localVars, faultVars
  <1> QED BY <1>1, <1>2, <1>3, <1>4 DEF Charge

\* Every step of a job keeps the types.
LEMMA TypeJob == ASSUME TypeOK, NEW r \in Requests, Job(r) PROVE TypeOK'
  <1>1. faults' \in 0 .. MaxFaults /\ losses' \in Nat
    BY FaultsAssumption DEF Job, CreateJob, Rerun, JobOk, Returns, JobFails, GatewayDies, HandlerDies, Fault,
           faultVars, TypeOK
  <1>2. pc' \in [Requests -> Places]
    BY DEF Job, CreateJob, Rerun, JobOk, Returns, JobFails, GatewayDies, HandlerDies, Goto, Places, TypeOK
  <1>3. completed' \in [Requests -> 0 .. MaxPeriod]
    <2>1. period \in 0 .. MaxPeriod /\ completed \in [Requests -> 0 .. MaxPeriod]
      BY JobTypes, Domains
    <2> QED BY <2>1 DEF Job, CreateJob, Rerun, JobOk, Returns, JobFails, GatewayDies, HandlerDies
  <1>4. cut' \in SUBSET Requests
    BY DEF Job, CreateJob, Rerun, JobOk, Returns, JobFails, GatewayDies, HandlerDies, TypeOK
  <1>5. /\ working' \in [Requests -> Nat] /\ dueKey' \in [Requests -> Nat]
        /\ dueAccount' \in [Requests -> Nat]
    <2> USE TypeTimes DEF TypeOK
    <2>1. CASE CreateJob(r)   BY <2>1 DEF CreateJob
    <2>2. CASE Rerun(r)       BY <2>2 DEF Rerun
    <2>3. CASE JobOk(r)       BY <2>3 DEF JobOk
    <2>4. CASE Returns(r)     BY <2>4 DEF Returns
    <2>5. CASE JobFails(r)    BY <2>5 DEF JobFails
    <2>6. CASE GatewayDies(r) BY <2>6 DEF GatewayDies
    <2>7. CASE HandlerDies(r)
      <3>1. \/ working[r] > 0 /\ working' = OneLess(working, r) /\ UNCHANGED <<dueKey, dueAccount>>
            \/ dueKey[r] > 0 /\ dueKey' = OneLess(dueKey, r) /\ UNCHANGED <<working, dueAccount>>
            \/ dueAccount[r] > 0 /\ dueAccount' = OneLess(dueAccount, r) /\ UNCHANGED <<working, dueKey>>
        BY <2>7 DEF HandlerDies
      <3>2. CASE working[r] > 0 /\ working' = OneLess(working, r) /\ UNCHANGED <<dueKey, dueAccount>>
        BY <3>2
      <3>3. CASE dueKey[r] > 0 /\ dueKey' = OneLess(dueKey, r) /\ UNCHANGED <<working, dueAccount>>
        BY <3>3
      <3>4. CASE dueAccount[r] > 0 /\ dueAccount' = OneLess(dueAccount, r) /\ UNCHANGED <<working, dueKey>>
        BY <3>4
      <3> QED BY <3>1, <3>2, <3>3, <3>4
    <2> QED BY <2>1, <2>2, <2>3, <2>4, <2>5, <2>6, <2>7 DEF Job
  <1>6. UNCHANGED <<period, localVars, redisVars, bookVars>>
    BY DEF Job, CreateJob, Rerun, JobOk, Returns, JobFails, GatewayDies, HandlerDies
  <1> QED BY <1>1, <1>2, <1>3, <1>4, <1>5, <1>6 DEF TypeOK, localVars, redisVars, bookVars

\* Every step keeps the types.
LEMMA TypeStep == TypeOK /\ [Next]_vars => TypeOK'
  <1> SUFFICES ASSUME TypeOK, [Next]_vars PROVE TypeOK'
    OBVIOUS
  <1> USE Domains
  <1>1. ASSUME NEW r \in Requests, Arrive(r) PROVE TypeOK'
    BY <1>1 DEF TypeOK, Arrive, PeriodNow, Goto, Places, redisVars, jobVars, bookVars, faultVars
  <1>2. ASSUME NEW r \in Requests, Job(r) PROVE TypeOK'
    BY <1>2, TypeJob
  <1>3. ASSUME NEW k \in Keys, RejectionsExpire(k) PROVE TypeOK'
    BY <1>3 DEF TypeOK, RejectionsExpire, localVars, jobVars, bookVars, faultVars
  <1>4. CASE NextPeriod
    BY <1>4 DEF TypeOK, NextPeriod, localVars, redisVars, jobVars, bookVars, faultVars
  <1>5. CASE LoseRedis
    BY <1>5 DEF TypeOK, LoseRedis, Fault, NoCounter, NoRefund, Counter, localVars, jobVars, bookVars, faultVars
  <1>6. CASE UNCHANGED vars
    BY <1>6 DEF TypeOK, vars, localVars, redisVars, jobVars, bookVars, faultVars
  <1> QED BY <1>1, <1>2, <1>3, <1>4, <1>5, <1>6, TypeCheck, TypeCharge DEF Next

\* Every variable keeps its type, in every behaviour.
THEOREM QuotaTypeCorrect == Spec => []TypeOK
  BY TypeInit, TypeStep, PTL DEF Spec

-----------------------------------------------------------------------------
(* No counter counts what was not used.                                    *)

\* Where a request may be once a counter was charged for it, and once its job exists.
ChargedPlaces == {"recordAccount", "create", "accepted", "ok", "dead"}
JobPlaces     == {"accepted", "ok"}

\* What a counter holds was charged in that period or is a completed job; and
\* it was taken off again if it has been refunded.
HeldInv ==
    \A c \in Counters, p \in 1 .. MaxPeriod : \A r \in usage[c][p].plus :
        /\ completed[r] >= p \/ (r \in booked[c] /\ pinned[r] = p)
        /\ returned[c][r] > 0 => completed[r] >= p \/ usage[c][p].minus[r] > 0

\* What a reconstruction has found is completed in the period it looked at.
FoundInv ==
    \A r \in Requests : pc[r] = "restore" =>
        \A q \in found[r] : completed[q] >= checked[r]

\* Requests are charged once they are admitted; they have handlers and refunds
\* once their job exists; and no job completes in the future.
PlaceInv ==
    \A r \in Requests :
        /\ completed[r] <= period
        /\ \A c \in Counters :
              /\ r \in booked[c] => pc[r] \in ChargedPlaces
              /\ returned[c][r] > 0 => pc[r] \in JobPlaces
        /\ working[r] + dueKey[r] + dueAccount[r] > 0 => pc[r] \in JobPlaces

LedgerInv == HeldInv /\ FoundInv /\ PlaceInv

\* A decision leads neither into a reconstruction nor past the first charge.
LEMMA DecideTo ==
    ASSUME TypeOK, NEW r \in Requests, NEW used, Decide(r, used)
    PROVE  \E where \in {"refused", "reject", "read", "recordKey"} : pc' = [pc EXCEPT ![r] = where]
  BY DEF Decide, Goto

\* A step of a request that is not charged yet, that leaves the books and what
\* others have found alone.
LEMMA LedgerMove ==
    ASSUME TypeOK, LedgerInv, NEW r \in Requests, NEW where \in Places \ {"restore"},
           pc[r] \notin ChargedPlaces,
           pc' = [pc EXCEPT ![r] = where],
           \A q \in Requests \ {r} : found'[q] = found[q] /\ checked'[q] = checked[q],
           UNCHANGED <<period, pinned, usage, jobVars, booked, returned>>
    PROVE  LedgerInv'
  <1>1. HeldInv'
    BY DEF LedgerInv, HeldInv, jobVars
  <1>2. FoundInv'
    BY DEF LedgerInv, FoundInv, TypeOK, jobVars
  <1>3. PlaceInv'
    BY DEF LedgerInv, PlaceInv, TypeOK, ChargedPlaces, JobPlaces, jobVars
  <1> QED BY <1>1, <1>2, <1>3 DEF LedgerInv

\* Every step of a check keeps the ledger.
LEMMA LedgerCheck == ASSUME TypeOK, LedgerInv, NEW r \in Requests, Check(r) PROVE LedgerInv'
  <1>1. CASE CheckRejections(r)
    <2>1. \A q \in Requests \ {r} : found'[q] = found[q] /\ checked'[q] = checked[q]
      BY <1>1 DEF CheckRejections, TypeOK
    <2>2. \E where \in {"refused", "read"} : pc' = [pc EXCEPT ![r] = where]
      BY <1>1 DEF CheckRejections, Goto
    <2> QED BY <1>1, <2>1, <2>2, LedgerMove DEF CheckRejections, Places, ChargedPlaces, redisVars,
               jobVars, bookVars
  <1>2. CASE ReadUsage(r)
    <2>1. \E where \in {"refused", "reject", "read", "recordKey", "scan"} :
             pc' = [pc EXCEPT ![r] = where]
      BY <1>2, DecideTo DEF ReadUsage, Goto
    <2> QED BY <1>2, <2>1, LedgerMove DEF ReadUsage, Places, ChargedPlaces, redisVars, jobVars, bookVars, faultVars
  <1>3. CASE ScanTable(r)
    <2>1. PICK S \in {Rows(scope[r], checked[r]), {}} :
             /\ found' = [found EXCEPT ![r] = S]
             /\ \/ S = {} /\ Decide(r, 0)
                \/ S # {} /\ Goto(r, "restore") /\ UNCHANGED scope
      BY <1>3 DEF ScanTable
    <2>2. pc[r] \notin ChargedPlaces
      BY <1>3 DEF ScanTable, ChargedPlaces
    <2>3. CASE Decide(r, 0)
      <3>1. \A q \in Requests \ {r} : found'[q] = found[q] /\ checked'[q] = checked[q]
        BY <1>3, <2>1 DEF ScanTable, TypeOK
      <3> QED BY <1>3, <2>2, <2>3, <3>1, DecideTo, LedgerMove DEF ScanTable, Places, redisVars, jobVars, bookVars, faultVars
    <2>4. CASE Goto(r, "restore")
      <3>1. \A q \in S : completed[q] >= checked[r]
        BY DEF Rows
      <3>2. FoundInv'
        BY <1>3, <2>1, <2>4, <3>1 DEF ScanTable, Goto, LedgerInv, FoundInv, TypeOK, jobVars, bookVars
      <3>3. HeldInv'
        BY <1>3 DEF ScanTable, LedgerInv, HeldInv, redisVars, jobVars, bookVars, faultVars
      <3>4. PlaceInv'
        BY <1>3, <2>2, <2>4 DEF ScanTable, Goto, LedgerInv, PlaceInv, TypeOK, ChargedPlaces,
                                JobPlaces, jobVars, bookVars
      <3> QED BY <3>2, <3>3, <3>4 DEF LedgerInv
    <2> QED BY <2>1, <2>3, <2>4
  <1>4. CASE RestoreUsage(r)
    <2>1. PICK where \in {"refused", "reject", "read", "recordKey"} : pc' = [pc EXCEPT ![r] = where]
      BY <1>4, DecideTo DEF RestoreUsage
    <2>2. HeldInv'
      <3>1. \A q \in found[r] : completed[q] >= checked[r]
        BY <1>4 DEF RestoreUsage, LedgerInv, FoundInv
      <3> SUFFICES ASSUME NEW c \in Counters, NEW p \in 1 .. MaxPeriod, NEW q \in usage'[c][p].plus
                   PROVE  /\ completed[q] >= p \/ (q \in booked[c] /\ pinned[q] = p)
                          /\ returned[c][q] > 0 => completed[q] >= p \/ usage'[c][p].minus[q] > 0
        BY <1>4 DEF HeldInv, RestoreUsage, jobVars, bookVars
      <3>2. CASE c = scope[r] /\ p = checked[r]
        <4>1. usage'[c][p] = Holding(found[r], NoRefund)
          BY <1>4, <3>2 DEF RestoreUsage, TypeOK
        <4> QED BY <3>1, <3>2, <4>1 DEF Holding
      <3>3. CASE ~(c = scope[r] /\ p = checked[r])
        <4>1. usage'[c][p] = usage[c][p]
          BY <1>4, <3>3 DEF RestoreUsage, TypeOK
        <4> QED BY <4>1 DEF LedgerInv, HeldInv
      <3> QED BY <3>2, <3>3
    <2>3. FoundInv'
      BY <1>4, <2>1 DEF RestoreUsage, LedgerInv, FoundInv, TypeOK, jobVars, bookVars
    <2>4. PlaceInv'
      BY <1>4, <2>1 DEF RestoreUsage, LedgerInv, PlaceInv, TypeOK, ChargedPlaces, JobPlaces,
                        jobVars, bookVars
    <2> QED BY <2>2, <2>3, <2>4 DEF LedgerInv
  <1>5. CASE CountRejection(r)
    BY <1>5, LedgerMove DEF CountRejection, Goto, Places, ChargedPlaces, localVars, jobVars, bookVars, faultVars
  <1>6. CASE ExpireRejection(r)
    BY <1>6, LedgerMove DEF ExpireRejection, Goto, Places, ChargedPlaces, localVars, jobVars, bookVars, faultVars
  <1> QED BY <1>1, <1>2, <1>3, <1>4, <1>5, <1>6 DEF Check

\* A refund of either counter.
Refund(r) == RefundKey(r) \/ RefundAccount(r)

\* A refund is entered in one book, for one request.
LEMMA SubtractElsewhere ==
    ASSUME TypeOK, NEW r \in Requests, NEW c \in Counters, Subtract(c, r)
    PROVE  /\ \A d \in Counters : \A q \in Requests :
                 d # c \/ q # r => returned'[d][q] = returned[d][q]
           /\ returned'[c][r] = returned[c][r] + 1
  <1>1. returned' = [returned EXCEPT ![c] = OneMore(@, r)] /\ returned[c] \in [Requests -> Nat]
    BY CounterTypes DEF Subtract
  <1>2. returned'[c] = OneMore(returned[c], r) /\ \A d \in Counters \ {c} : returned'[d] = returned[d]
    BY <1>1 DEF TypeOK
  <1> QED BY <1>1, <1>2, TypeTimes

\* Every charge and refund keeps the ledger.
LEMMA LedgerCharge == ASSUME TypeOK, LedgerInv, NEW r \in Requests, Charge(r) PROVE LedgerInv'
  <1> USE Domains
  <1>1. FoundInv'
    BY DEF Charge, RecordKey, RecordAccount, RefundKey, RefundAccount, Goto, LedgerInv, FoundInv,
           TypeOK, localVars, jobVars
  <1>2. PlaceInv'
    <2> USE DEF Goto, LedgerInv, PlaceInv, TypeOK, ChargedPlaces, JobPlaces
    <2>1. CASE RecordKey(r)
      BY <2>1 DEF RecordKey, Add, jobVars
    <2>2. CASE RecordAccount(r)
      BY <2>2 DEF RecordAccount, Add, jobVars
    <2>3. CASE Refund(r)
      <3>1. pc[r] \in JobPlaces /\ UNCHANGED <<period, pc, completed, working, booked>>
        BY <2>3, JobTypes DEF Refund, RefundKey, RefundAccount
      <3>2. PICK c \in Counters : Subtract(c, r)
        BY <2>3 DEF Refund, RefundKey, RefundAccount
      <3>3. \A q \in Requests \ {r} :
               /\ dueKey'[q] = dueKey[q] /\ dueAccount'[q] = dueAccount[q]
               /\ \A d \in Counters : returned'[d][q] = returned[d][q]
        <4> TAKE q \in Requests \ {r}
        <4>1. \A times \in [Requests -> Nat] : OneMore(times, r)[q] = times[q] /\ OneLess(times, r)[q] = times[q]
          BY DEF OneMore, OneLess
        <4>2. dueKey'[q] = dueKey[q] /\ dueAccount'[q] = dueAccount[q]
          BY <2>3, <4>1, JobTypes DEF Refund, RefundKey, RefundAccount
        <4>3. \A d \in Counters : returned'[d][q] = returned[d][q]
          <5> HIDE DEF TypeOK, LedgerInv, PlaceInv
          <5>1. q \in Requests /\ q # r
            OBVIOUS
          <5> QED BY <3>2, <5>1, SubtractElsewhere
        <4> QED BY <4>2, <4>3
      <3> QED BY <3>1, <3>3
    <2> QED BY <2>1, <2>2, <2>3 DEF Charge, Refund
  <1>3. HeldInv'
    <2>1. ASSUME NEW c \in Counters, returned[c][r] = 0, Add(c, r),
                 UNCHANGED <<pinned, completed, returned>>
          PROVE  HeldInv'
      <3>1. /\ \A d \in Counters : booked[d] \subseteq booked'[d]
            /\ r \in booked'[c]
        BY <2>1 DEF TypeOK, Add
      <3> SUFFICES ASSUME NEW d \in Counters, NEW p \in 1 .. MaxPeriod, NEW q \in usage'[d][p].plus
                   PROVE  /\ completed[q] >= p \/ (q \in booked'[d] /\ pinned[q] = p)
                          /\ returned[d][q] > 0 => completed[q] >= p \/ usage'[d][p].minus[q] > 0
        BY <2>1 DEF HeldInv
      <3>2. CASE d = c /\ p = pinned[r]
        <4>1. usage'[d][p] = Holding(usage[d][p].plus \cup {r}, usage[d][p].minus)
          BY <2>1, <3>2 DEF Add, TypeOK
        <4>2. q = r \/ q \in usage[d][p].plus
          BY <4>1 DEF Holding
        <4> QED BY <2>1, <3>1, <3>2, <4>1, <4>2 DEF Holding, LedgerInv, HeldInv
      <3>3. CASE ~(d = c /\ p = pinned[r])
        <4>1. usage'[d][p] = usage[d][p]
          BY <2>1, <3>3 DEF Add, TypeOK
        <4> QED BY <3>1, <4>1 DEF LedgerInv, HeldInv
      <3> QED BY <3>2, <3>3
    <2>2. CASE RecordKey(r)
      <3>1. returned[KeyOf[r]][r] = 0
        BY <2>2, CounterTypes DEF RecordKey, LedgerInv, PlaceInv, JobPlaces
      <3> QED BY <2>1, <2>2, <3>1 DEF RecordKey, localVars, jobVars
    <2>3. CASE RecordAccount(r)
      <3>1. returned[Account][r] = 0
        BY <2>3, CounterTypes DEF RecordAccount, LedgerInv, PlaceInv, JobPlaces
      <3> QED BY <2>1, <2>3, <3>1 DEF RecordAccount, localVars, jobVars
    <2>4. ASSUME NEW c \in Counters, Subtract(c, r), UNCHANGED <<pinned, completed, booked>>
          PROVE  HeldInv'
      <3> SUFFICES ASSUME NEW d \in Counters, NEW p \in 1 .. MaxPeriod, NEW q \in usage'[d][p].plus
                   PROVE  /\ completed[q] >= p \/ (q \in booked[d] /\ pinned[q] = p)
                          /\ returned'[d][q] > 0 => completed[q] >= p \/ usage'[d][p].minus[q] > 0
        BY <2>4 DEF HeldInv
      <3>1. CASE d = c /\ p = pinned[r]
        <4>1. usage'[d][p] = Holding(usage[d][p].plus, OneMore(usage[d][p].minus, r))
          BY <2>4, <3>1 DEF Subtract, RefundPeriod, TypeOK
        <4>2. q \in usage[d][p].plus /\ q \in Requests
          BY <4>1, CounterTypes DEF Holding
        <4>3. usage[d][p].minus \in [Requests -> Nat]
          BY DEF TypeOK, Counter
        <4>4. CASE q = r
          <5>1. usage'[d][p].minus[q] > 0
            BY <4>1, <4>3, <4>4, TypeTimes DEF Holding
          <5> QED BY <4>2, <5>1 DEF LedgerInv, HeldInv
        <4>5. CASE q # r
          <5>1. usage'[d][p].minus[q] = usage[d][p].minus[q]
            BY <4>1, <4>2, <4>3, <4>5, TypeTimes DEF Holding
          <5>2. returned'[d][q] = returned[d][q]
            BY <2>4, <4>2, <4>5, SubtractElsewhere
          <5> QED BY <4>2, <5>1, <5>2 DEF LedgerInv, HeldInv
        <4> QED BY <4>4, <4>5
      <3>2. CASE ~(d = c /\ p = pinned[r])
        <4>1. usage'[d][p] = usage[d][p]
          BY <2>4, <3>2 DEF Subtract, RefundPeriod, TypeOK
        <4>2. q \in usage[d][p].plus /\ q \in Requests
          BY <4>1, CounterTypes
        <4>3. completed[q] >= p \/ (q \in booked[d] /\ pinned[q] = p)
          BY <4>2 DEF LedgerInv, HeldInv
        <4>4. CASE d # c \/ q # r
          <5>1. returned'[d][q] = returned[d][q]
            BY <2>4, <4>2, <4>4, SubtractElsewhere
          <5> QED BY <4>1, <4>2, <5>1 DEF LedgerInv, HeldInv
        <4>5. CASE d = c /\ q = r
          BY <3>2, <4>3, <4>5
        <4> QED BY <4>4, <4>5
      <3> QED BY <3>1, <3>2
    <2>5. CASE RefundKey(r)
      BY <2>4, <2>5 DEF RefundKey, localVars
    <2>6. CASE RefundAccount(r)
      BY <2>4, <2>6 DEF RefundAccount, localVars
    <2> QED BY <2>2, <2>3, <2>5, <2>6 DEF Charge
  <1> QED BY <1>1, <1>2, <1>3 DEF LedgerInv

\* Every step of a job keeps the ledger.
LEMMA LedgerJob == ASSUME TypeOK, LedgerInv, NEW r \in Requests, Job(r) PROVE LedgerInv'
  <1>1. /\ \A q \in Requests : completed'[q] >= completed[q] /\ completed'[q] <= period /\ completed'[q] \in Int
        /\ UNCHANGED <<period, localVars, redisVars, bookVars>>
    <2>1. /\ completed \in [Requests -> 0 .. MaxPeriod] /\ period \in 1 .. MaxPeriod
          /\ \A q \in Requests : completed[q] <= period
      BY JobTypes DEF LedgerInv, PlaceInv
    <2> QED BY <2>1, Domains DEF Job, CreateJob, Rerun, JobOk, Returns, JobFails, GatewayDies, HandlerDies
  <1>2. HeldInv'
    <2> SUFFICES ASSUME NEW c \in Counters, NEW p \in 1 .. MaxPeriod, NEW q \in usage[c][p].plus
                 PROVE  /\ completed'[q] >= p \/ (q \in booked[c] /\ pinned[q] = p)
                        /\ returned[c][q] > 0 => completed'[q] >= p \/ usage[c][p].minus[q] > 0
      BY <1>1 DEF HeldInv, localVars, redisVars, bookVars
    <2>1. q \in Requests
      BY CounterTypes
    <2>2. completed[q] \in Int /\ completed'[q] >= completed[q] /\ completed'[q] \in Int
      BY <1>1, <2>1, JobTypes
    <2>3. completed[q] >= p => completed'[q] >= p
      BY <2>2
    <2> QED BY <2>3 DEF LedgerInv, HeldInv
  <1>3. FoundInv'
    <2>1. \A q \in Requests : pc'[q] = "restore" => pc[q] = "restore"
      BY DEF Job, CreateJob, Rerun, JobOk, Returns, JobFails, GatewayDies, HandlerDies, Goto, TypeOK
    <2> SUFFICES ASSUME NEW o \in Requests, pc[o] = "restore", NEW q \in found[o]
                 PROVE  completed'[q] >= checked[o]
      BY <1>1, <2>1 DEF FoundInv, localVars
    <2>2. q \in Requests /\ checked[o] \in Int
      BY DEF TypeOK
    <2>3. completed[q] \in Int /\ completed'[q] >= completed[q] /\ completed'[q] \in Int
      BY <1>1, <2>2, JobTypes
    <2>4. completed[q] >= checked[o]
      BY DEF LedgerInv, FoundInv
    <2> QED BY <2>2, <2>3, <2>4
  <1>4. PlaceInv'
    <2>1. ASSUME NEW q \in Requests, q # r
          PROVE  /\ pc'[q] = pc[q] /\ working'[q] = working[q] /\ dueKey'[q] = dueKey[q]
                 /\ dueAccount'[q] = dueAccount[q]
      <3>1. pc'[q] = pc[q]
        BY <2>1, JobTypes DEF Job, CreateJob, Rerun, JobOk, Returns, JobFails, GatewayDies, HandlerDies, Goto
      <3>2. \A times \in [Requests -> Nat] : OneMore(times, r)[q] = times[q] /\ OneLess(times, r)[q] = times[q]
        BY <2>1, TypeTimes
      <3>3. /\ working' \in {working, OneMore(working, r), OneLess(working, r)}
            /\ dueKey' \in {dueKey, OneMore(dueKey, r), OneLess(dueKey, r)}
            /\ dueAccount' \in {dueAccount, OneLess(dueAccount, r)}
        BY DEF Job, CreateJob, Rerun, JobOk, Returns, JobFails, GatewayDies, HandlerDies
      <3> QED BY <3>1, <3>2, <3>3, JobTypes
    <2>2. /\ pc[r] \in ChargedPlaces => pc'[r] \in ChargedPlaces
          /\ pc[r] \in JobPlaces => pc'[r] \in JobPlaces
          /\ working[r] + dueKey[r] + dueAccount[r] > 0 => pc[r] \in JobPlaces
      BY DEF Job, CreateJob, Rerun, JobOk, Returns, JobFails, GatewayDies, HandlerDies, Goto, TypeOK,
             ChargedPlaces, JobPlaces, LedgerInv, PlaceInv, InFlight
    <2>3. working'[r] + dueKey'[r] + dueAccount'[r] > 0 => pc'[r] \in JobPlaces
      <3> USE TypeTimes DEF TypeOK, Goto, JobPlaces
      <3>1. CASE CreateJob(r)   BY <3>1 DEF CreateJob
      <3>2. CASE Rerun(r)       BY <3>2 DEF Rerun
      <3>3. CASE JobOk(r)       BY <3>3 DEF JobOk
      <3>4. CASE Returns(r)     BY <3>4 DEF Returns
      <3>5. CASE JobFails(r)    BY <3>5 DEF JobFails
      <3>6. CASE GatewayDies(r)
        <4>1. pc[r] \notin JobPlaces /\ UNCHANGED <<working, dueKey, dueAccount>>
          BY <3>6 DEF GatewayDies, InFlight
        <4> QED BY <2>2, <4>1
      <3>7. CASE HandlerDies(r)
        <4>1. working[r] + dueKey[r] + dueAccount[r] > 0 /\ pc' = pc
          BY <3>7 DEF HandlerDies
        <4> QED BY <2>2, <4>1
      <3> QED BY <3>1, <3>2, <3>3, <3>4, <3>5, <3>6, <3>7 DEF Job
    <2> QED BY <1>1, <2>1, <2>2, <2>3 DEF LedgerInv, PlaceInv, bookVars
  <1> QED BY <1>2, <1>3, <1>4 DEF LedgerInv

\* Every step keeps the ledger.
LEMMA LedgerStep == TypeOK /\ LedgerInv /\ [Next]_vars => LedgerInv'
  <1> SUFFICES ASSUME TypeOK, LedgerInv, [Next]_vars PROVE LedgerInv'
    OBVIOUS
  <1> USE Domains DEF LedgerInv
  <1>1. ASSUME NEW r \in Requests, Arrive(r) PROVE LedgerInv'
    <2>1. r \notin UNION {booked[c] : c \in Counters}
      BY <1>1 DEF Arrive, PlaceInv, ChargedPlaces
    <2>2. HeldInv'
      <3> SUFFICES ASSUME NEW c \in Counters, NEW p \in 1 .. MaxPeriod, NEW q \in usage[c][p].plus
                   PROVE  /\ completed[q] >= p \/ (q \in booked[c] /\ pinned'[q] = p)
                          /\ returned[c][q] > 0 => completed[q] >= p \/ usage[c][p].minus[q] > 0
        BY <1>1 DEF HeldInv, Arrive, redisVars, jobVars, bookVars
      <3>1. q \in booked[c] => pinned'[q] = pinned[q]
        BY <1>1, <2>1, CounterTypes DEF Arrive, TypeOK
      <3> QED BY <3>1 DEF HeldInv
    <2>3. FoundInv' /\ PlaceInv'
      BY <1>1 DEF Arrive, Goto, FoundInv, PlaceInv, TypeOK, ChargedPlaces, JobPlaces, jobVars, bookVars
    <2> QED BY <2>2, <2>3
  <1>2. ASSUME NEW r \in Requests, Job(r) PROVE LedgerInv'
    BY <1>2, LedgerJob
  <1>4. ASSUME NEW k \in Keys, RejectionsExpire(k) PROVE LedgerInv'
    BY <1>4 DEF RejectionsExpire, HeldInv, FoundInv, PlaceInv, localVars, jobVars, bookVars, faultVars
  <1>5. CASE NextPeriod
    BY <1>5 DEF NextPeriod, HeldInv, FoundInv, PlaceInv, TypeOK, localVars, redisVars, jobVars, bookVars, faultVars
  <1>6. CASE LoseRedis
    BY <1>6 DEF LoseRedis, NoCounter, HeldInv, FoundInv, PlaceInv, localVars, jobVars, bookVars, faultVars
  <1>7. CASE UNCHANGED vars
    BY <1>7 DEF vars, HeldInv, FoundInv, PlaceInv, localVars, redisVars, jobVars, bookVars, faultVars
  <1> QED BY <1>1, <1>2, <1>4, <1>5, <1>6, <1>7, LedgerCheck, LedgerCharge DEF Next

\* No counter ever holds bytes that were neither charged to its period and left
\* standing nor used by a completed job: customers are not refused for bytes they
\* did not use, whatever is lost, raced or retried.
THEOREM NothingOvercounted == Spec => []NeverOvercounted
  <1>1. Init => LedgerInv
    BY Domains DEF Init, LedgerInv, HeldInv, FoundInv, PlaceInv, NoCounter, NoRefund, Holding
  <1>2. TypeOK /\ LedgerInv => NeverOvercounted
    <2> SUFFICES ASSUME TypeOK, LedgerInv, NEW c \in Counters, NEW p \in 1 .. MaxPeriod,
                        NEW r \in usage[c][p].plus, usage[c][p].minus[r] = 0
                 PROVE  r \in Ledger(c, p) \/ completed[r] >= p
      BY DEF NeverOvercounted
    <2>1. r \in Requests /\ returned[c][r] \in Nat
      BY CounterTypes
    <2>2. completed[r] >= p \/ (r \in booked[c] /\ pinned[r] = p)
      BY DEF LedgerInv, HeldInv
    <2>3. returned[c][r] > 0 => completed[r] >= p
      BY DEF LedgerInv, HeldInv
    <2> QED BY <2>1, <2>2, <2>3 DEF Ledger, Charges
  <1> QED BY <1>1, <1>2, TypeInit, TypeStep, LedgerStep, PTL DEF Spec

-----------------------------------------------------------------------------
(* The rate limit of rejections.                                           *)

\* The requests of a key that have passed its rate limit and may yet be rejected.
Passed(k) == {r \in Requests : KeyOf[r] = k /\ pc[r] \in {"read", "scan", "restore", "reject"}}

\* Requests in flight are within the bound of the instance.
FlightInv == IsFiniteSet(InFlight) /\ Cardinality(InFlight) <= MaxConcurrent

\* With everything that may yet be counted the count stays below the bound: a
\* request passes while the count is below the limit, together with the others
\* that are in flight.
RejectInv ==
    /\ FlightInv
    /\ \A k \in Keys : rejected[k] + Cardinality(Passed(k)) <= MaxRejected + MaxConcurrent - 1

\* What has passed is in flight.
LEMMA PassedInFlight == \A k : Passed(k) \subseteq InFlight
  BY DEF Passed, InFlight

\* The numbers that are compared are numbers.
LEMMA PassedCounted ==
    ASSUME FlightInv, NEW k
    PROVE  /\ IsFiniteSet(Passed(k)) /\ Cardinality(Passed(k)) \in Nat
           /\ Cardinality(Passed(k)) <= MaxConcurrent
  <1>1. IsFiniteSet(Passed(k)) /\ Cardinality(Passed(k)) <= Cardinality(InFlight)
    BY PassedInFlight, FS_Subset DEF FlightInv
  <1>2. Cardinality(Passed(k)) \in Nat /\ Cardinality(InFlight) \in Nat
    BY <1>1, FS_CardinalityType DEF FlightInv
  <1> QED BY <1>1, <1>2, LimitsAssumption DEF FlightInv

\* Steps that take nothing into flight and let nothing pass the limit.
LEMMA RejectKept ==
    ASSUME TypeOK, TypeOK', RejectInv,
           InFlight' \subseteq InFlight,
           \A k \in Keys : Passed(k)' \subseteq Passed(k) /\ rejected'[k] \in {0, rejected[k]}
    PROVE  RejectInv'
  <1>1. IsFiniteSet(InFlight') /\ Cardinality(InFlight') <= Cardinality(InFlight)
    BY FS_Subset DEF RejectInv, FlightInv
  <1>2. Cardinality(InFlight') \in Nat /\ Cardinality(InFlight) \in Nat
    BY <1>1, FS_CardinalityType DEF RejectInv, FlightInv
  <1>3. FlightInv'
    BY <1>1, <1>2, LimitsAssumption DEF RejectInv, FlightInv
  <1>4. ASSUME NEW k \in Keys
        PROVE  rejected'[k] + Cardinality(Passed(k)') <= MaxRejected + MaxConcurrent - 1
    <2>1. /\ IsFiniteSet(Passed(k)) /\ Cardinality(Passed(k)) \in Nat
      BY PassedCounted DEF RejectInv
    <2>2. /\ IsFiniteSet(Passed(k)') /\ Cardinality(Passed(k)') <= Cardinality(Passed(k))
      BY <1>4, <2>1, FS_Subset
    <2>3. Cardinality(Passed(k)') \in Nat
      BY <2>2, FS_CardinalityType
    <2>4. rejected[k] \in Nat /\ rejected'[k] \in Nat /\ rejected'[k] <= rejected[k]
      <3>1. rejected[k] \in Nat
        BY DEF TypeOK
      <3>2. rejected'[k] \in {0, rejected[k]}
        BY <1>4
      <3> QED BY <3>1, <3>2
    <2>5. rejected[k] + Cardinality(Passed(k)) <= MaxRejected + MaxConcurrent - 1
      BY DEF RejectInv
    <2> QED BY <2>1, <2>2, <2>3, <2>4, <2>5, LimitsAssumption
  <1> QED BY <1>3, <1>4 DEF RejectInv

\* Where one request has moved on, that has not come into flight or past the limit.
LEMMA RejectMove ==
    ASSUME TypeOK, TypeOK', RejectInv, NEW r \in Requests, NEW where,
           pc' = [pc EXCEPT ![r] = where], UNCHANGED rejected,
           \/ where \notin {"rejections", "read", "scan", "restore", "reject", "rejectTtl",
                            "recordKey", "recordAccount"}
           \/ pc[r] \in {"read", "scan", "restore", "reject"}
           \/ pc[r] \in {"rejections", "rejectTtl", "recordKey", "recordAccount"}
                 /\ where \notin {"read", "scan", "restore", "reject"}
    PROVE  RejectInv'
  <1>1. InFlight' \subseteq InFlight
    BY DEF InFlight, TypeOK
  <1>2. \A k \in Keys : Passed(k)' \subseteq Passed(k)
    BY DEF Passed, TypeOK
  <1> QED BY <1>1, <1>2, RejectKept

\* Every step of a check keeps the bound.
LEMMA RejectCheck == ASSUME TypeOK, TypeOK', RejectInv, NEW r \in Requests, Check(r) PROVE RejectInv'
  <1>1. CASE CheckRejections(r)
    <2>1. CASE pc' = [pc EXCEPT ![r] = "refused"]
      BY <1>1, <2>1, RejectMove DEF CheckRejections, redisVars
    <2>2. CASE pc' = [pc EXCEPT ![r] = "read"] /\ rejected[KeyOf[r]] < MaxRejected
      <3>1. InFlight' = InFlight
        BY <1>1, <2>2 DEF CheckRejections, InFlight, TypeOK
      <3>2. FlightInv'
        BY <3>1 DEF RejectInv, FlightInv
      <3>3. ASSUME NEW k \in Keys
            PROVE  rejected'[k] + Cardinality(Passed(k)') <= MaxRejected + MaxConcurrent - 1
        <4>1. Cardinality(Passed(k)') \in Nat /\ Cardinality(Passed(k)') <= MaxConcurrent
          <5>1. IsFiniteSet(Passed(k)') /\ Cardinality(Passed(k)') <= Cardinality(InFlight')
            BY <3>2, FS_Subset, PassedInFlight DEF Passed, InFlight, FlightInv
          <5>2. Cardinality(Passed(k)') \in Nat /\ Cardinality(InFlight') \in Nat
            BY <3>2, <5>1, FS_CardinalityType DEF FlightInv
          <5> QED BY <3>2, <5>1, <5>2, LimitsAssumption DEF FlightInv
        <4>2. CASE k = KeyOf[r]
          <5>1. rejected'[k] = rejected[k] /\ rejected[k] \in Nat /\ rejected[k] < MaxRejected
            BY <1>1, <2>2, <4>2 DEF CheckRejections, redisVars, TypeOK
          <5> QED BY <4>1, <5>1, LimitsAssumption
        <4>3. CASE k # KeyOf[r]
          <5>1. Passed(k)' = Passed(k)
            BY <2>2, <4>3 DEF Passed, TypeOK
          <5>2. rejected' = rejected
            BY <1>1 DEF CheckRejections, redisVars
          <5> QED BY <5>1, <5>2 DEF RejectInv
        <4> QED BY <4>2, <4>3
      <3> QED BY <3>2, <3>3 DEF RejectInv
    <2> QED BY <1>1, <2>1, <2>2 DEF CheckRejections, Goto
  <1>2. CASE ReadUsage(r)
    <2>1. \E where : pc' = [pc EXCEPT ![r] = where]
      BY <1>2, DecideTo DEF ReadUsage, Goto
    <2> QED BY <1>2, <2>1, RejectMove DEF ReadUsage, redisVars
  <1>3. CASE ScanTable(r)
    <2>1. \E where : pc' = [pc EXCEPT ![r] = where]
      BY <1>3, DecideTo DEF ScanTable, Goto
    <2> QED BY <1>3, <2>1, RejectMove DEF ScanTable, redisVars
  <1>4. CASE RestoreUsage(r)
    <2>1. \E where : pc' = [pc EXCEPT ![r] = where]
      BY <1>4, DecideTo DEF RestoreUsage
    <2> QED BY <1>4, <2>1, RejectMove DEF RestoreUsage
  <1>5. CASE CountRejection(r)
    <2> DEFINE k0 == KeyOf[r]
    <2>1. InFlight' = InFlight
      BY <1>5 DEF CountRejection, Goto, InFlight, TypeOK
    <2>2. FlightInv'
      BY <2>1 DEF RejectInv, FlightInv
    <2>3. ASSUME NEW k \in Keys
          PROVE  rejected'[k] + Cardinality(Passed(k)') <= MaxRejected + MaxConcurrent - 1
      <3>1. CASE k = k0
        <4>1. Passed(k)' = Passed(k) \ {r} /\ r \in Passed(k)
          BY <1>5, <3>1 DEF CountRejection, Goto, Passed, TypeOK
        <4>2. IsFiniteSet(Passed(k)) /\ Cardinality(Passed(k)) \in Nat
          BY PassedCounted DEF RejectInv
        <4>3. Cardinality(Passed(k)') = Cardinality(Passed(k)) - 1
          BY <4>1, <4>2, FS_RemoveElement
        <4>4. rejected'[k] = rejected[k] + 1 /\ rejected[k] \in Nat
          BY <1>5, <3>1 DEF CountRejection, TypeOK
        <4>5. rejected[k] + Cardinality(Passed(k)) <= MaxRejected + MaxConcurrent - 1
          BY DEF RejectInv
        <4> QED BY <4>2, <4>3, <4>4, <4>5, LimitsAssumption
      <3>2. CASE k # k0
        <4>1. Passed(k)' = Passed(k)
          BY <1>5, <3>2 DEF CountRejection, Goto, Passed, TypeOK
        <4>2. rejected'[k] = rejected[k]
          BY <1>5, <3>2 DEF CountRejection, TypeOK
        <4> QED BY <4>1, <4>2 DEF RejectInv
      <3> QED BY <3>1, <3>2
    <2> QED BY <2>2, <2>3 DEF RejectInv
  <1>6. CASE ExpireRejection(r)
    BY <1>6, RejectMove DEF ExpireRejection, Goto
  <1> QED BY <1>1, <1>2, <1>3, <1>4, <1>5, <1>6 DEF Check

\* Every step keeps the bound.
LEMMA RejectStep == TypeOK /\ TypeOK' /\ RejectInv /\ [Next]_vars => RejectInv'
  <1> SUFFICES ASSUME TypeOK, TypeOK', RejectInv, [Next]_vars PROVE RejectInv'
    OBVIOUS
  <1>1. ASSUME NEW r \in Requests, Arrive(r) PROVE RejectInv'
    <2>1. InFlight' = InFlight \cup {r} /\ r \notin InFlight
      BY <1>1 DEF Arrive, Goto, InFlight, TypeOK
    <2>2. IsFiniteSet(InFlight') /\ Cardinality(InFlight') = Cardinality(InFlight) + 1
      BY <2>1, FS_AddElement DEF RejectInv, FlightInv
    <2>3. Cardinality(InFlight) \in Nat /\ Cardinality(InFlight) < MaxConcurrent
      BY <1>1, FS_CardinalityType DEF Arrive, RejectInv, FlightInv
    <2>4. FlightInv'
      BY <2>2, <2>3, LimitsAssumption DEF FlightInv
    <2>5. \A k \in Keys : Passed(k)' = Passed(k)
      BY <1>1 DEF Arrive, Goto, Passed, TypeOK
    <2>6. rejected' = rejected
      BY <1>1 DEF Arrive, redisVars
    <2> QED BY <2>4, <2>5, <2>6 DEF RejectInv
  <1>2. ASSUME NEW r \in Requests, Charge(r) PROVE RejectInv'
    <2>1. CASE RecordKey(r)
      BY <2>1, RejectMove DEF RecordKey, Goto
    <2>2. CASE RecordAccount(r)
      BY <2>2, RejectMove DEF RecordAccount, Goto
    <2>3. CASE RefundKey(r) \/ RefundAccount(r)
      BY <2>3, RejectKept DEF RefundKey, RefundAccount, InFlight, Passed
    <2> QED BY <1>2, <2>1, <2>2, <2>3 DEF Charge
  <1>3. ASSUME NEW r \in Requests, Job(r) PROVE RejectInv'
    <2>1. \A q \in Requests : pc'[q] # pc[q] => pc'[q] \in {"accepted", "ok", "dead"}
      BY <1>3 DEF Job, CreateJob, Rerun, JobOk, Returns, JobFails, GatewayDies, HandlerDies, Goto, TypeOK
    <2>2. rejected' = rejected
      BY <1>3 DEF Job, CreateJob, Rerun, JobOk, Returns, JobFails, GatewayDies, HandlerDies, redisVars
    <2>3. InFlight' \subseteq InFlight /\ \A k \in Keys : Passed(k)' \subseteq Passed(k)
      BY <2>1 DEF InFlight, Passed
    <2> QED BY <2>2, <2>3, RejectKept
  <1>4. ASSUME pc' = pc, \A k \in Keys : rejected'[k] \in {0, rejected[k]} PROVE RejectInv'
    BY <1>4, RejectKept DEF InFlight, Passed
  <1>5. ASSUME NEW k \in Keys, RejectionsExpire(k) PROVE RejectInv'
    BY <1>4, <1>5 DEF RejectionsExpire, TypeOK
  <1>6. CASE NextPeriod
    BY <1>4, <1>6 DEF NextPeriod, redisVars
  <1>7. CASE LoseRedis
    BY <1>4, <1>7 DEF LoseRedis
  <1>8. CASE UNCHANGED vars
    BY <1>4, <1>8 DEF vars, redisVars
  <1> QED BY <1>1, <1>2, <1>3, <1>5, <1>6, <1>7, <1>8, RejectCheck DEF Next

\* At first nothing is in flight and nothing is counted.
LEMMA RejectInit == Init => RejectInv
  <1> SUFFICES ASSUME Init PROVE RejectInv
    OBVIOUS
  <1>1. InFlight = {} /\ \A k \in Keys : Passed(k) = {}
    BY DEF Init, InFlight, Passed
  <1>2. Cardinality({}) = 0 /\ IsFiniteSet({})
    BY FS_EmptySet
  <1>3. \A k \in Keys : rejected[k] = 0
    BY DEF Init
  <1> QED BY <1>1, <1>2, <1>3, LimitsAssumption DEF RejectInv, FlightInv

\* The rejections of a key are never counted further than the limit and the
\* requests that were in flight allow, however the count is read, raised,
\* expired and lost apart.
THEOREM RejectionsAreBounded == Spec => []RejectionsBounded
  <1>1. TypeOK /\ RejectInv => RejectionsBounded
    <2> SUFFICES ASSUME TypeOK, RejectInv, NEW k \in Keys
                 PROVE  rejected[k] <= MaxRejected + MaxConcurrent - 1
      BY DEF RejectionsBounded
    <2>1. Cardinality(Passed(k)) \in Nat
      BY PassedCounted DEF RejectInv
    <2>2. rejected[k] \in Nat /\ rejected[k] + Cardinality(Passed(k)) <= MaxRejected + MaxConcurrent - 1
      BY DEF RejectInv, TypeOK
    <2> QED BY <2>1, <2>2, LimitsAssumption
  <1> QED BY <1>1, RejectInit, TypeInit, TypeStep, RejectStep, PTL DEF Spec

-----------------------------------------------------------------------------
(* Sums of sizes.                                                          *)

Pile(P) == UNION {{x} \X (1 .. SizeOf[x[1]]) : x \in P}

\* What is summed up: charges and refunds of requests.
Entries == Requests \X Nat

\* The bytes of finitely many entries are a number, at most MaxSize for each.
LEMMA BytesBound ==
    ASSUME NEW P, P \subseteq Entries, IsFiniteSet(P)
    PROVE  /\ IsFiniteSet(Pile(P)) /\ BytesOf(P) \in Nat
           /\ Cardinality(P) \in Nat /\ BytesOf(P) <= Cardinality(P) * MaxSize
  <1>1. MaxSize \in Nat /\ MaxSize >= 1 /\ \A x \in P : SizeOf[x[1]] \in 1 .. MaxSize
    BY SizesAssumption DEF Entries
  <1>2. Pile(P) \subseteq P \X (1 .. MaxSize)
    BY <1>1 DEF Pile
  <1>3. IsFiniteSet(1 .. MaxSize) /\ Cardinality(1 .. MaxSize) = MaxSize
    BY <1>1, FS_Interval
  <1>4. /\ IsFiniteSet(P \X (1 .. MaxSize))
        /\ Cardinality(P \X (1 .. MaxSize)) = Cardinality(P) * MaxSize
    BY <1>3, FS_Product
  <1>5. IsFiniteSet(Pile(P)) /\ Cardinality(Pile(P)) <= Cardinality(P) * MaxSize
    BY <1>2, <1>4, FS_Subset
  <1>6. Cardinality(Pile(P)) \in Nat /\ Cardinality(P) \in Nat
    BY <1>5, FS_CardinalityType
  <1>7. BytesOf(P) = Cardinality(Pile(P))
    BY DEF BytesOf, Pile
  <1> QED BY <1>5, <1>6, <1>7

\* Fewer entries have fewer bytes.
LEMMA BytesSubset ==
    ASSUME NEW P, P \subseteq Entries, IsFiniteSet(P), NEW T, T \subseteq P
    PROVE  BytesOf(T) <= BytesOf(P)
  <1>1. Pile(T) \subseteq Pile(P)
    BY DEF Pile
  <1>2. Cardinality(Pile(T)) <= Cardinality(Pile(P))
    BY <1>1, BytesBound, FS_Subset
  <1> QED BY <1>2 DEF BytesOf, Pile

\* Bytes that are put together are at most the sum.
LEMMA BytesUnion ==
    ASSUME NEW S, S \subseteq Entries, IsFiniteSet(S), NEW T, T \subseteq Entries, IsFiniteSet(T)
    PROVE  /\ IsFiniteSet(S \cup T)
           /\ BytesOf(S \cup T) <= BytesOf(S) + BytesOf(T)
  <1>1. IsFiniteSet(S \cup T)
    BY FS_Union
  <1>2. Pile(S \cup T) = Pile(S) \cup Pile(T)
    BY DEF Pile
  <1>3. IsFiniteSet(Pile(S)) /\ IsFiniteSet(Pile(T))
    BY BytesBound
  <1>4. Cardinality(Pile(S) \cup Pile(T))
          = Cardinality(Pile(S)) + Cardinality(Pile(T)) - Cardinality(Pile(S) \cap Pile(T))
    BY <1>3, FS_Union
  <1>5. IsFiniteSet(Pile(S) \cap Pile(T))
    BY <1>3, FS_Intersection
  <1>6. /\ Cardinality(Pile(S)) \in Nat /\ Cardinality(Pile(T)) \in Nat
        /\ Cardinality(Pile(S) \cap Pile(T)) \in Nat
    BY <1>3, <1>5, FS_CardinalityType
  <1>7. BytesOf(S) = Cardinality(Pile(S)) /\ BytesOf(T) = Cardinality(Pile(T))
    BY DEF BytesOf, Pile
  <1>8. BytesOf(S \cup T) = Cardinality(Pile(S) \cup Pile(T))
    BY <1>2 DEF BytesOf, Pile
  <1>9. BytesOf(S \cup T) = BytesOf(S) + BytesOf(T) - Cardinality(Pile(S) \cap Pile(T))
    BY <1>4, <1>7, <1>8
  <1>10. BytesOf(S) \in Nat /\ BytesOf(T) \in Nat
    BY <1>6, <1>7
  <1> HIDE DEF BytesOf, Pile
  <1> QED BY <1>1, <1>6, <1>9, <1>10

\* Bytes that are taken off a sum they are part of.
LEMMA BytesDifference ==
    ASSUME NEW P, P \subseteq Entries, IsFiniteSet(P), NEW T, T \subseteq P
    PROVE  BytesOf(P \ T) = BytesOf(P) - BytesOf(T)
  <1>1. Pile(P \ T) = Pile(P) \ Pile(T) /\ Pile(P) \cap Pile(T) = Pile(T)
    BY DEF Pile
  <1>2. IsFiniteSet(Pile(P))
    BY BytesBound
  <1>3. Cardinality(Pile(P) \ Pile(T)) = Cardinality(Pile(P)) - Cardinality(Pile(P) \cap Pile(T))
    BY <1>2, FS_Difference
  <1> QED BY <1>1, <1>3 DEF BytesOf, Pile

\* Finitely many requests, each charged once.
LEMMA ChargesFinite ==
    ASSUME NEW S, S \subseteq Requests, IsFiniteSet(S)
    PROVE  /\ S \X {1} \subseteq Entries /\ IsFiniteSet(S \X {1})
           /\ Cardinality(S \X {1}) = Cardinality(S)
           /\ Bytes(S) \in Nat
  <1>1. IsFiniteSet({1}) /\ Cardinality({1}) = 1 /\ Cardinality(S) \in Nat
    BY FS_Singleton, FS_CardinalityType
  <1>2. IsFiniteSet(S \X {1}) /\ Cardinality(S \X {1}) = Cardinality(S) * 1
    BY <1>1, FS_Product
  <1>3. S \X {1} \subseteq Entries
    BY DEF Entries
  <1> QED BY <1>1, <1>2, <1>3, BytesBound DEF Bytes

\* One request has its size.
LEMMA BytesOne == ASSUME NEW r \in Requests PROVE Bytes({r}) = SizeOf[r]
  <1>1. SizeOf[r] \in Nat /\ SizeOf[r] >= 1
    BY SizesAssumption
  <1>2. {r} \X {1} = {<<r, 1>>}
    OBVIOUS
  <1>3. Pile({<<r, 1>>}) = {<<r, 1>>} \X (1 .. SizeOf[r])
    BY DEF Pile
  <1>4. IsFiniteSet(1 .. SizeOf[r]) /\ Cardinality(1 .. SizeOf[r]) = SizeOf[r]
    BY <1>1, FS_Interval
  <1>5. IsFiniteSet({<<r, 1>>}) /\ Cardinality({<<r, 1>>}) = 1
    BY FS_Singleton
  <1>6. Cardinality({<<r, 1>>} \X (1 .. SizeOf[r])) = 1 * SizeOf[r]
    BY <1>4, <1>5, FS_Product
  <1>7. Bytes({r}) = Cardinality(Pile({<<r, 1>>}))
    BY <1>2 DEF Bytes, BytesOf, Pile
  <1>8. Cardinality({<<r, 1>>} \X (1 .. SizeOf[r])) = SizeOf[r]
    BY <1>1, <1>6
  <1> QED BY <1>3, <1>7, <1>8

\* The refunds are entries; one more refund is one more entry.
LEMMA RefundsEntries ==
    ASSUME NEW times \in [Requests -> Nat]
    PROVE  /\ Refunds(times) \subseteq Entries
           /\ \A r \in Requests, n \in Nat : <<r, n>> \in Refunds(times) <=> n \in 1 .. times[r]
           /\ \A r \in Requests :
                 Refunds(OneMore(times, r)) = Refunds(times) \cup {<<r, times[r] + 1>>}
  <1>1. Refunds(times) \subseteq Entries
    BY DEF Refunds, Entries
  <1>2. \A r \in Requests, n \in Nat : <<r, n>> \in Refunds(times) <=> n \in 1 .. times[r]
    BY DEF Refunds
  <1>3. ASSUME NEW r \in Requests
        PROVE  Refunds(OneMore(times, r)) = Refunds(times) \cup {<<r, times[r] + 1>>}
    <2>1. OneMore(times, r) \in [Requests -> Nat]
      BY TypeTimes
    <2>2. Refunds(OneMore(times, r)) \subseteq Entries
      BY <2>1 DEF Refunds, Entries
    <2>3. ASSUME NEW q \in Requests, NEW n \in Nat
          PROVE  <<q, n>> \in Refunds(OneMore(times, r))
                    <=> <<q, n>> \in Refunds(times) \cup {<<r, times[r] + 1>>}
      <3>1. <<q, n>> \in Refunds(OneMore(times, r)) <=> n \in 1 .. OneMore(times, r)[q]
        BY DEF Refunds
      <3>2. CASE q = r
        <4>1. n \in 1 .. OneMore(times, r)[q] <=> n \in 1 .. times[r] \/ n = times[r] + 1
          BY <3>2, TypeTimes
        <4>2. n \in 1 .. times[r] <=> <<q, n>> \in Refunds(times)
          BY <1>2, <3>2
        <4>3. n = times[r] + 1 <=> <<q, n>> = <<r, times[r] + 1>>
          BY <3>2
        <4> QED BY <3>1, <4>1, <4>2, <4>3
      <3>3. CASE q # r
        BY <1>2, <3>1, <3>3, TypeTimes
      <3> QED BY <3>2, <3>3
    <2>4. Refunds(times) \cup {<<r, times[r] + 1>>} \subseteq Entries
      BY <1>1 DEF Entries
    <2> QED BY <2>2, <2>3, <2>4 DEF Entries
  <1> QED BY <1>1, <1>2, <1>3

-----------------------------------------------------------------------------
(* The ledger of the first period, and the cap.                            *)

\* Requests that a charge is still due to, and those that were charged.
BeforeCharge == {"idle", "rejections", "read", "scan", "restore", "reject", "rejectTtl", "refused",
                 "recordKey"}
AfterCharge  == {"create", "accepted", "ok"}
Coming       == BeforeCharge \cup {"recordAccount", "create"}

Pays(r, c) == c = Account \/ c = KeyOf[r]

\* Where a request is tells which of its two counters were charged for it, unless
\* it died: then nothing was refunded that was not charged.
Charged(r) ==
    /\ \A c \in Counters :
          /\ r \in booked[c] => Pays(r, c)
          /\ returned[c][r] > 0 => r \in booked[c]
          /\ pc[r] \in BeforeCharge => r \notin booked[c]
          /\ pc[r] \in AfterCharge /\ Pays(r, c) => r \in booked[c]
    /\ pc[r] = "recordAccount" => r \notin booked[Account] /\ r \in booked[KeyOf[r]]
    /\ pc[r] \in {"idle", "rejections"} => scope[r] = Account
    /\ pc[r] \in Coming \cup {"dead"} => working[r] = 0 /\ dueKey[r] = 0 /\ dueAccount[r] = 0
    /\ dueAccount[r] > 0 => returned[KeyOf[r]][r] > 0

\* A request that was charged has a future: its job is being made or worked on, is
\* OK or refunded, or a refund is coming; or somebody gave it up.
Accounted(r) ==
    \/ r \in cut
    \/ pc[r] \in Coming
    \/ working[r] > 0 \/ completed[r] # 0 \/ dueKey[r] > 0
    \/ /\ returned[KeyOf[r]][r] > 0
       /\ dueAccount[r] > 0 \/ returned[Account][r] > 0

\* What is OK has an OK row.
OkInv == \A r \in Requests : pc[r] = "ok" => completed[r] # 0

BooksInv ==
    /\ OkInv
    /\ \A c \in Counters : IsFiniteSet(booked[c]) /\ IsFiniteSet(Refunds(returned[c]))
    /\ \A r \in Requests : Charged(r) /\ Accounted(r)

\* As long as Redis loses nothing the counters of the first period are there and
\* hold what the books say, so that nobody reconstructs them.
InPeriodOne(S)  == {r \in S : pinned[r] = 1}
OfPeriodOne(times) == [r \in Requests |-> IF pinned[r] = 1 THEN times[r] ELSE 0]
WarmInv ==
    NothingLost =>
        /\ \A c \in Counters :
              usage[c][1] = Holding(InPeriodOne(booked[c]), OfPeriodOne(returned[c]))
        /\ \A r \in Requests : pc[r] \in {"scan", "restore"} => checked[r] # 1

\* What was checked against the cap in the first period and is charged to it, or
\* will be.
Admitted(r) ==
    \/ pc[r] \in {"recordKey", "recordAccount"}
    \/ pc[r] \in {"read", "scan", "restore"} /\ scope[r] # Account
Committed ==
    {r \in Requests : /\ pinned[r] = 1 /\ checked[r] = 1
                      /\ Admitted(r) \/ (r \in booked[Account] /\ returned[Account][r] = 0)}

CapInv ==
    NothingLost /\ CapBytes # NoLimit =>
        Bytes(Committed) <= CapBytes + (MaxConcurrent - 1) * MaxSize + Excess

\* A step of a check that leaves the books alone.
LEMMA BooksMove ==
    ASSUME TypeOK, BooksInv, NEW r \in Requests, NEW where \in BeforeCharge,
           pc' = [pc EXCEPT ![r] = where],
           UNCHANGED <<booked, returned, jobVars>>,
           \A q \in Requests \ {r} : scope'[q] = scope[q],
           pc[r] \in BeforeCharge,
           where \in {"idle", "rejections"} => scope'[r] = Account
    PROVE  BooksInv'
  <1>1. ASSUME NEW q \in Requests, q # r PROVE Charged(q)' /\ Accounted(q)'
    <2>1. pc'[q] = pc[q] /\ scope'[q] = scope[q]
      BY <1>1 DEF TypeOK
    <2>2. Charged(q) /\ Accounted(q)
      BY DEF BooksInv
    <2>3. Charged(q)'
      BY <2>1, <2>2 DEF Charged, Pays, jobVars
    <2>4. Accounted(q)'
      BY <2>1, <2>2 DEF Accounted, jobVars
    <2> QED BY <2>3, <2>4
  <1>2. Charged(r)' /\ Accounted(r)'
    <2>1. pc'[r] = where
      BY DEF TypeOK
    <2>2. Charged(r)
      BY DEF BooksInv
    <2>3. Charged(r)'
      BY <2>1, <2>2 DEF Charged, Pays, BeforeCharge, AfterCharge, Coming, jobVars
    <2>4. Accounted(r)'
      BY <2>1 DEF Accounted, Coming
    <2> QED BY <2>3, <2>4
  <1>3. OkInv'
    BY DEF BooksInv, OkInv, BeforeCharge, TypeOK, jobVars
  <1> QED BY <1>1, <1>2, <1>3 DEF BooksInv, jobVars

\* Where a decision leads to, and what becomes of the scope.
LEMMA DecideMoves ==
    ASSUME TypeOK, NEW r \in Requests, NEW used, Decide(r, used)
    PROVE  /\ \E where \in {"refused", "reject", "read", "recordKey"} : pc' = [pc EXCEPT ![r] = where]
           /\ \A q \in Requests \ {r} : scope'[q] = scope[q]
  BY DEF Decide, Goto, TypeOK

\* Every step of a check keeps the books.
LEMMA BooksCheck == ASSUME TypeOK, BooksInv, NEW r \in Requests, Check(r) PROVE BooksInv'
  <1>1. CASE CheckRejections(r)
    <2>1. \E where \in {"refused", "read"} : pc' = [pc EXCEPT ![r] = where]
      BY <1>1 DEF CheckRejections, Goto
    <2> QED BY <1>1, <2>1, BooksMove DEF CheckRejections, BeforeCharge, bookVars
  <1>2. CASE ReadUsage(r)
    <2>1. /\ \E where \in {"refused", "reject", "read", "recordKey", "scan"} :
                pc' = [pc EXCEPT ![r] = where]
          /\ \A q \in Requests \ {r} : scope'[q] = scope[q]
      <3>1. CASE Decide(r, Value(usage[scope[r]][checked[r]]))
        BY <3>1, DecideMoves
      <3>2. CASE Goto(r, "scan") /\ UNCHANGED scope
        BY <3>2 DEF Goto
      <3> QED BY <1>2, <3>1, <3>2 DEF ReadUsage
    <2> QED BY <1>2, <2>1, BooksMove DEF ReadUsage, BeforeCharge, bookVars
  <1>3. CASE ScanTable(r)
    <2>1. /\ \E where \in {"refused", "reject", "read", "recordKey", "restore"} :
                pc' = [pc EXCEPT ![r] = where]
          /\ \A q \in Requests \ {r} : scope'[q] = scope[q]
      <3>1. CASE Decide(r, 0)
        BY <3>1, DecideMoves
      <3>2. CASE Goto(r, "restore") /\ UNCHANGED scope
        BY <3>2 DEF Goto
      <3> QED BY <1>3, <3>1, <3>2 DEF ScanTable
    <2> QED BY <1>3, <2>1, BooksMove DEF ScanTable, BeforeCharge, bookVars
  <1>4. CASE RestoreUsage(r)
    <2>1. Decide(r, Bytes(found[r]))
      BY <1>4 DEF RestoreUsage
    <2> QED BY <1>4, <2>1, DecideMoves, BooksMove DEF RestoreUsage, BeforeCharge, bookVars
  <1>5. CASE CountRejection(r)
    BY <1>5, BooksMove DEF CountRejection, Goto, BeforeCharge, localVars, bookVars
  <1>6. CASE ExpireRejection(r)
    BY <1>6, BooksMove DEF ExpireRejection, Goto, BeforeCharge, localVars, bookVars
  <1> QED BY <1>1, <1>2, <1>3, <1>4, <1>5, <1>6 DEF Check

\* A charge is entered in the books.
LEMMA BooksEntered ==
    ASSUME TypeOK, BooksInv, NEW c \in Counters, NEW r \in Requests, Add(c, r)
    PROVE  /\ \A d \in Counters : IsFiniteSet(booked'[d])
           /\ \A q \in Requests, d \in Counters :
                 q \in booked'[d] <=> q \in booked[d] \/ (q = r /\ d = c)
  <1>1. ASSUME NEW d \in Counters PROVE IsFiniteSet(booked'[d])
    <2>1. IsFiniteSet(booked[d])
      BY DEF BooksInv
    <2>2. booked'[d] = booked[d] \/ booked'[d] = booked[d] \cup {r}
      BY DEF TypeOK, Add
    <2> QED BY <2>1, <2>2, FS_AddElement
  <1>2. \A q \in Requests, d \in Counters :
           q \in booked'[d] <=> q \in booked[d] \/ (q = r /\ d = c)
    BY DEF TypeOK, Add
  <1> QED BY <1>1, <1>2

\* A refund is entered in the books.
LEMMA BooksReturned ==
    ASSUME TypeOK, BooksInv, NEW c \in Counters, NEW r \in Requests, Subtract(c, r)
    PROVE  /\ \A d \in Counters : IsFiniteSet(Refunds(returned'[d]))
           /\ \A q \in Requests, d \in Counters :
                 returned'[d][q] = IF q = r /\ d = c THEN returned[d][q] + 1 ELSE returned[d][q]
  <1>1. \A d \in Counters : returned'[d] = IF d = c THEN OneMore(returned[d], r) ELSE returned[d]
    BY DEF Subtract, TypeOK
  <1>2. \A d \in Counters : returned[d] \in [Requests -> Nat]
    BY DEF TypeOK
  <1>3. ASSUME NEW d \in Counters PROVE IsFiniteSet(Refunds(returned'[d]))
    <2>1. IsFiniteSet(Refunds(returned[d]))
      BY DEF BooksInv
    <2>2. CASE d = c
      <3>1. Refunds(returned'[d]) = Refunds(returned[d]) \cup {<<r, returned[d][r] + 1>>}
        BY <1>1, <1>2, <2>2, RefundsEntries
      <3> QED BY <2>1, <3>1, FS_AddElement
    <2>3. CASE d # c
      BY <1>1, <2>1, <2>3
    <2> QED BY <2>2, <2>3
  <1>4. \A q \in Requests, d \in Counters :
           returned'[d][q] = IF q = r /\ d = c THEN returned[d][q] + 1 ELSE returned[d][q]
    BY <1>1, <1>2, TypeTimes
  <1> QED BY <1>3, <1>4

\* Every charge and refund keeps the books.
LEMMA BooksCharge == ASSUME TypeOK, BooksInv, NEW r \in Requests, Charge(r) PROVE BooksInv'
  <1> USE Domains
  <1>1. CASE RecordKey(r) \/ RecordAccount(r)
    <2>1. PICK c \in Counters : Add(c, r) /\ c = IF RecordKey(r) THEN KeyOf[r] ELSE Account
      BY <1>1 DEF RecordKey, RecordAccount
    <2>2. /\ \A d \in Counters : IsFiniteSet(booked'[d])
          /\ \A q \in Requests, d \in Counters :
                 q \in booked'[d] <=> q \in booked[d] \/ (q = r /\ d = c)
      BY <2>1, BooksEntered
    <2>3. UNCHANGED <<localVars, jobVars, returned>>
      BY <1>1 DEF RecordKey, RecordAccount
    <2>4. ASSUME NEW q \in Requests, q # r PROVE Charged(q)' /\ Accounted(q)'
      <3>1. pc'[q] = pc[q]
        BY <1>1, <2>4 DEF RecordKey, RecordAccount, Goto, TypeOK
      <3>2. Charged(q) /\ Accounted(q)
        BY DEF BooksInv
      <3>3. Charged(q)'
        BY <2>2, <2>3, <2>4, <3>1, <3>2 DEF Charged, Pays, jobVars, localVars
      <3>4. Accounted(q)'
        BY <2>3, <3>1, <3>2 DEF Accounted, jobVars
      <3> QED BY <3>3, <3>4
    <2>5. Accounted(r)'
      <3>1. pc'[r] \in {"recordAccount", "create"}
        BY <1>1 DEF RecordKey, RecordAccount, Goto, TypeOK
      <3> QED BY <3>1 DEF Accounted, Coming
    <2>6. Charged(r)'
      <3>1. Charged(r)
        BY DEF BooksInv
      <3>2. CASE RecordKey(r)
        <4>1. c = KeyOf[r] /\ pc[r] = "recordKey" /\ pc'[r] = "recordAccount"
          BY <2>1, <3>2 DEF RecordKey, Goto, TypeOK
        <4> QED BY <2>2, <2>3, <3>1, <4>1 DEF Charged, Pays, BeforeCharge, AfterCharge, Coming, localVars, jobVars
      <3>3. CASE RecordAccount(r)
        <4>1. c = Account /\ pc[r] = "recordAccount" /\ pc'[r] = "create"
          BY <2>1, <3>3 DEF RecordAccount, RecordKey, Goto, TypeOK
        <4> QED BY <2>2, <2>3, <3>1, <4>1 DEF Charged, Pays, BeforeCharge, AfterCharge, Coming, localVars, jobVars
      <3> QED BY <1>1, <3>2, <3>3
    <2>7. OkInv'
      BY <1>1, <2>3 DEF BooksInv, OkInv, RecordKey, RecordAccount, Goto, TypeOK, jobVars
    <2> QED BY <2>2, <2>3, <2>4, <2>5, <2>6, <2>7 DEF BooksInv
  <1>2. CASE RefundKey(r)
    <2>1. /\ \A d \in Counters : IsFiniteSet(Refunds(returned'[d]))
          /\ \A q \in Requests, d \in Counters : returned'[d][q] =
                IF q = r /\ d = KeyOf[r] THEN returned[d][q] + 1 ELSE returned[d][q]
      BY <1>2, BooksReturned DEF RefundKey
    <2>2. /\ UNCHANGED <<pc, localVars, completed, working, cut, booked>>
          /\ \A q \in Requests \ {r} : dueKey'[q] = dueKey[q] /\ dueAccount'[q] = dueAccount[q]
          /\ dueAccount'[r] > 0 /\ dueKey[r] > 0
      <3>1. dueAccount[r] + 1 > 0
        BY JobTypes
      <3> QED BY <1>2, <3>1, JobTypes, TypeTimes DEF RefundKey
    <2>3. \A q \in Requests, d \in Counters : returned[d][q] \in Nat
      BY DEF TypeOK
    <2>4. ASSUME NEW q \in Requests PROVE Charged(q)' /\ Accounted(q)'
      <3>1. Charged(q) /\ Accounted(q)
        BY DEF BooksInv
      <3>2. CASE q = r
        <4>1. pc[r] \notin Coming /\ r \in booked[KeyOf[r]]
          <5>1. pc[r] \notin Coming \cup {"dead"}
            BY <2>2, <3>1, <3>2 DEF Charged, TypeOK
          <5>2. pc[r] \in AfterCharge
            BY <5>1 DEF Coming, AfterCharge, BeforeCharge, TypeOK, Places
          <5> QED BY <3>1, <3>2, <5>1, <5>2 DEF Charged, Pays
        <4>2. Charged(r)'
          BY <2>1, <2>2, <2>3, <3>1, <3>2, <4>1 DEF Charged, Pays, Coming, localVars
        <4>3. Accounted(r)'
          BY <2>1, <2>2, <2>3 DEF Accounted
        <4> QED BY <3>2, <4>2, <4>3
      <3>3. CASE q # r
        <4>1. Charged(q)'
          BY <2>1, <2>2, <3>1, <3>3 DEF Charged, Pays, localVars
        <4>2. Accounted(q)'
          BY <2>1, <2>2, <3>1, <3>3 DEF Accounted
        <4> QED BY <4>1, <4>2
      <3> QED BY <3>2, <3>3
    <2> QED BY <2>1, <2>2, <2>4 DEF BooksInv, OkInv
  <1>3. CASE RefundAccount(r)
    <2>1. /\ \A d \in Counters : IsFiniteSet(Refunds(returned'[d]))
          /\ \A q \in Requests, d \in Counters : returned'[d][q] =
                IF q = r /\ d = Account THEN returned[d][q] + 1 ELSE returned[d][q]
      BY <1>3, BooksReturned DEF RefundAccount
    <2>2. /\ UNCHANGED <<pc, localVars, completed, working, dueKey, cut, booked>>
          /\ \A q \in Requests \ {r} : dueAccount'[q] = dueAccount[q]
          /\ dueAccount[r] > 0
      BY <1>3, TypeTimes DEF RefundAccount, TypeOK
    <2>3. \A q \in Requests, d \in Counters : returned[d][q] \in Nat
      BY DEF TypeOK
    <2>4. ASSUME NEW q \in Requests PROVE Charged(q)' /\ Accounted(q)'
      <3>1. Charged(q) /\ Accounted(q)
        BY DEF BooksInv
      <3>2. CASE q = r
        <4>1. pc[r] \notin Coming /\ r \in booked[Account]
          <5>1. pc[r] \notin Coming \cup {"dead"}
            BY <2>2, <3>1, <3>2 DEF Charged, TypeOK
          <5>2. pc[r] \in AfterCharge
            BY <5>1 DEF Coming, AfterCharge, BeforeCharge, TypeOK, Places
          <5> QED BY <3>1, <3>2, <5>1, <5>2 DEF Charged, Pays
        <4>2. Charged(r)'
          BY <2>1, <2>2, <2>3, <3>1, <3>2, <4>1 DEF Charged, Pays, Coming, localVars
        <4>3. Accounted(r)'
          BY <2>1, <2>2, <2>3, <3>1, <3>2, <4>1 DEF Accounted
        <4> QED BY <3>2, <4>2, <4>3
      <3>3. CASE q # r
        <4>1. Charged(q)'
          BY <2>1, <2>2, <3>1, <3>3 DEF Charged, Pays, localVars
        <4>2. Accounted(q)'
          BY <2>1, <2>2, <3>1, <3>3 DEF Accounted
        <4> QED BY <4>1, <4>2
      <3> QED BY <3>2, <3>3
    <2> QED BY <2>1, <2>2, <2>4 DEF BooksInv, OkInv
  <1> QED BY <1>1, <1>2, <1>3 DEF Charge

\* Every step of a job keeps the books.
LEMMA BooksJob == ASSUME TypeOK, BooksInv, NEW r \in Requests, Job(r) PROVE BooksInv'
  <1> USE Domains
  <1>1. UNCHANGED <<localVars, bookVars>>
    BY DEF Job, CreateJob, Rerun, JobOk, Returns, JobFails, GatewayDies, HandlerDies
  <1>2. ASSUME NEW q \in Requests, q # r PROVE Charged(q)' /\ Accounted(q)'
    <2>1. /\ pc'[q] = pc[q] /\ working'[q] = working[q] /\ dueKey'[q] = dueKey[q]
          /\ dueAccount'[q] = dueAccount[q] /\ completed'[q] = completed[q] /\ (q \in cut' <=> q \in cut)
      <3>1. pc'[q] = pc[q] /\ completed'[q] = completed[q] /\ (q \in cut' <=> q \in cut)
        BY <1>2, JobTypes DEF Job, CreateJob, Rerun, JobOk, Returns, JobFails, GatewayDies, HandlerDies, Goto
      <3>2. \A times \in [Requests -> Nat] : OneMore(times, r)[q] = times[q] /\ OneLess(times, r)[q] = times[q]
        BY <1>2 DEF OneMore, OneLess
      <3>3. /\ working' \in {working, OneMore(working, r), OneLess(working, r)}
            /\ dueKey' \in {dueKey, OneMore(dueKey, r), OneLess(dueKey, r)}
            /\ dueAccount' \in {dueAccount, OneLess(dueAccount, r)}
        BY DEF Job, CreateJob, Rerun, JobOk, Returns, JobFails, GatewayDies, HandlerDies
      <3> QED BY <3>1, <3>2, <3>3, JobTypes
    <2>2. Charged(q) /\ Accounted(q)
      BY DEF BooksInv
    <2>3. Charged(q)'
      BY <1>1, <2>1, <2>2 DEF Charged, Pays, localVars, bookVars
    <2>4. Accounted(q)'
      BY <1>1, <2>1, <2>2 DEF Accounted, bookVars
    <2> QED BY <2>3, <2>4
  <1>3. Charged(r) /\ Accounted(r)
    BY DEF BooksInv
  <1>4. Charged(r)'
    <2>1. CASE CreateJob(r)
      <3>1. pc[r] = "create" /\ pc'[r] = "accepted" /\ UNCHANGED <<dueKey, dueAccount>>
        BY <2>1 DEF CreateJob, Goto, TypeOK
      <3> QED BY <1>1, <1>3, <3>1 DEF Charged, Pays, BeforeCharge, AfterCharge, Coming, localVars, bookVars
    <2>2. CASE GatewayDies(r)
      <3>1. pc[r] \in Coming \cup {"dead"} /\ pc'[r] = "dead" /\ UNCHANGED <<working, dueKey, dueAccount>>
        BY <2>2 DEF GatewayDies, Goto, InFlight, Coming, BeforeCharge, TypeOK
      <3> QED BY <1>1, <1>3, <3>1 DEF Charged, Pays, BeforeCharge, AfterCharge, Coming, localVars, bookVars
    <2>3. CASE Rerun(r) \/ JobOk(r) \/ Returns(r) \/ JobFails(r) \/ HandlerDies(r)
      <3>1. pc[r] \notin Coming \cup {"dead"}
        <4>1. Rerun(r) \/ working[r] > 0 \/ dueKey[r] > 0 \/ dueAccount[r] > 0
          BY <2>3 DEF JobOk, Returns, JobFails, HandlerDies
        <4>2. Rerun(r) => pc[r] \notin Coming \cup {"dead"}
          BY DEF Rerun, Coming, BeforeCharge
        <4> QED BY <1>3, <4>1, <4>2 DEF Charged, TypeOK
      <3>2. pc[r] \in {"accepted", "ok"} /\ pc'[r] \in {"accepted", "ok"}
        <4>1. pc[r] \in {"accepted", "ok"}
          BY <3>1 DEF Coming, BeforeCharge, TypeOK, Places
        <4> QED BY <2>3, <4>1 DEF Rerun, JobOk, Returns, JobFails, HandlerDies, Goto, TypeOK
      <3>3. dueAccount'[r] > 0 => dueAccount[r] > 0
        BY <2>3, TypeTimes DEF Rerun, JobOk, Returns, JobFails, HandlerDies, TypeOK
      <3> QED BY <1>1, <1>3, <3>2, <3>3 DEF Charged, Pays, BeforeCharge, AfterCharge, Coming, localVars, bookVars
    <2> QED BY <2>1, <2>2, <2>3 DEF Job
  <1>5. Accounted(r)'
    <2>1. CASE CreateJob(r)
      <3>1. working'[r] > 0
        <4>1. working'[r] = working[r] + 1 /\ working[r] \in Nat
          BY <2>1, JobTypes, TypeTimes DEF CreateJob
        <4> QED BY <4>1
      <3> QED BY <3>1 DEF Accounted
    <2>2. CASE Rerun(r)
      <3>1. working'[r] > 0
        <4>1. working'[r] = working[r] + 1 /\ working[r] \in Nat
          BY <2>2, JobTypes, TypeTimes DEF Rerun
        <4> QED BY <4>1
      <3> QED BY <3>1 DEF Accounted
    <2>3. CASE JobOk(r)
      <3>1. completed'[r] # 0
        BY <2>3 DEF JobOk, TypeOK
      <3> QED BY <3>1 DEF Accounted
    <2>4. CASE Returns(r)
      <3>1. completed'[r] # 0
        BY <2>4 DEF Returns, BooksInv, OkInv
      <3> QED BY <3>1 DEF Accounted
    <2>5. CASE JobFails(r)
      <3>1. dueKey'[r] > 0
        <4>1. dueKey'[r] = dueKey[r] + 1 /\ dueKey[r] \in Nat
          BY <2>5, JobTypes, TypeTimes DEF JobFails
        <4> QED BY <4>1
      <3> QED BY <3>1 DEF Accounted
    <2>6. CASE GatewayDies(r) \/ HandlerDies(r)
      BY <2>6 DEF GatewayDies, HandlerDies, Accounted
    <2> QED BY <2>1, <2>2, <2>3, <2>4, <2>5, <2>6 DEF Job
  <1>6. OkInv'
    <2>1. \A q \in Requests : pc'[q] = "ok" => pc[q] = "ok" \/ completed'[q] # 0
      <3>1. CASE JobOk(r)
        BY <3>1, JobTypes DEF JobOk, Goto
      <3>2. CASE CreateJob(r) \/ Rerun(r) \/ Returns(r) \/ JobFails(r) \/ GatewayDies(r) \/ HandlerDies(r)
        BY <3>2, JobTypes DEF CreateJob, Rerun, Returns, JobFails, GatewayDies, HandlerDies, Goto
      <3> QED BY <3>1, <3>2 DEF Job
    <2>2. \A q \in Requests : completed[q] # 0 => completed'[q] # 0
      BY DEF Job, CreateJob, Rerun, JobOk, Returns, JobFails, GatewayDies, HandlerDies, TypeOK
    <2> QED BY <2>1, <2>2 DEF BooksInv, OkInv
  <1> QED BY <1>1, <1>2, <1>4, <1>5, <1>6 DEF BooksInv, bookVars

\* Every step keeps the books.
LEMMA BooksStep == TypeOK /\ BooksInv /\ [Next]_vars => BooksInv'
  <1> SUFFICES ASSUME TypeOK, BooksInv, [Next]_vars PROVE BooksInv'
    OBVIOUS
  <1>1. ASSUME NEW r \in Requests, Arrive(r) PROVE BooksInv'
    <2>1. scope'[r] = Account
      BY <1>1 DEF Arrive, BooksInv, Charged
    <2> QED BY <1>1, <2>1, BooksMove DEF Arrive, Goto, BeforeCharge, bookVars
  <1>2. ASSUME UNCHANGED <<pc, scope, jobVars, bookVars>> PROVE BooksInv'
    BY <1>2 DEF BooksInv, OkInv, Charged, Accounted, Pays, jobVars, bookVars
  <1>3. ASSUME NEW k \in Keys, RejectionsExpire(k) PROVE BooksInv'
    BY <1>2, <1>3 DEF RejectionsExpire, localVars
  <1>4. CASE NextPeriod
    BY <1>2, <1>4 DEF NextPeriod, localVars
  <1>5. CASE LoseRedis
    BY <1>2, <1>5 DEF LoseRedis, localVars
  <1>6. CASE UNCHANGED vars
    BY <1>2, <1>6 DEF vars, localVars
  <1> QED BY <1>1, <1>3, <1>4, <1>5, <1>6, BooksCheck, BooksCharge, BooksJob DEF Next

\* At first nothing is charged.
LEMMA BooksInit == Init => BooksInv
  <1> SUFFICES ASSUME Init PROVE BooksInv
    OBVIOUS
  <1>1. \A c \in Counters : returned[c] = NoRefund /\ booked[c] = {}
    BY DEF Init
  <1>2. Refunds(NoRefund) = {}
    BY DEF Refunds, NoRefund
  <1>3. \A r \in Requests : Charged(r) /\ Accounted(r)
    BY <1>1 DEF Init, Charged, Accounted, Pays, AfterCharge, BeforeCharge, Coming, NoRefund
  <1> QED BY <1>1, <1>2, <1>3, FS_EmptySet DEF Init, BooksInv, OkInv

\* Steps that leave the counters and the books of charged requests alone, and
\* begin no reconstruction of the first period.
LEMMA WarmKept ==
    ASSUME TypeOK, BooksInv, WarmInv, NothingLost' => NothingLost,
           UNCHANGED <<usage, booked, returned>>,
           \A q \in Requests : pinned'[q] = pinned[q] \/ pc[q] = "idle",
           \A q \in Requests : pc'[q] \in {"scan", "restore"} =>
               \/ checked'[q] # 1
               \/ pc[q] \in {"scan", "restore"} /\ checked'[q] = checked[q]
    PROVE  WarmInv'
  <1> SUFFICES ASSUME NothingLost' PROVE WarmInv'
    BY DEF WarmInv
  <1>1. ASSUME NEW c \in Counters
        PROVE  /\ InPeriodOne(booked[c])' = InPeriodOne(booked[c])
               /\ OfPeriodOne(returned[c])' = OfPeriodOne(returned[c])
    <2>1. \A q \in booked[c] : q \in Requests /\ pc[q] # "idle"
      BY DEF TypeOK, BooksInv, Charged, BeforeCharge
    <2>2. \A q \in Requests : pc[q] = "idle" => returned[c][q] = 0
      BY DEF TypeOK, BooksInv, Charged, BeforeCharge
    <2>3. \A q \in Requests : (IF pinned'[q] = 1 THEN returned[c][q] ELSE 0)
                               = (IF pinned[q] = 1 THEN returned[c][q] ELSE 0)
      BY <2>2
    <2>4. OfPeriodOne(returned[c])' = OfPeriodOne(returned[c])
      BY <2>3 DEF OfPeriodOne
    <2> QED BY <2>1, <2>4 DEF InPeriodOne
  <1> QED BY <1>1 DEF WarmInv

\* Every step of a check leaves the counters of the first period as they are.
LEMMA WarmCheck ==
    ASSUME TypeOK, BooksInv, WarmInv, NEW r \in Requests, Check(r)
    PROVE  WarmInv'
  <1> USE Domains
  <1>1. CASE CheckRejections(r)
    BY <1>1, WarmKept DEF CheckRejections, Goto, NothingLost, redisVars, bookVars, faultVars, TypeOK
  <1>2. CASE ReadUsage(r)
    <2>1. CASE Decide(r, Value(usage[scope[r]][checked[r]]))
      BY <1>2, <2>1, DecideMoves, WarmKept DEF ReadUsage, NothingLost, redisVars, bookVars, faultVars, TypeOK
    <2>2. CASE ~usage[scope[r]][checked[r]].set /\ Goto(r, "scan")
      <3>1. CASE ~NothingLost
        BY <1>2, <3>1 DEF ReadUsage, WarmInv, NothingLost, faultVars
      <3>2. CASE NothingLost
        <4>1. checked[r] # 1
          <5>1. ASSUME NEW c \in Counters PROVE usage[c][1].set
            <6>1. usage[c][1] = Holding(InPeriodOne(booked[c]), OfPeriodOne(returned[c]))
              BY <3>2 DEF WarmInv
            <6> QED BY <6>1 DEF Holding
          <5>2. scope[r] \in Counters
            BY DEF TypeOK
          <5> QED BY <2>2, <5>1, <5>2
        <4> QED BY <1>2, <2>2, <3>2, <4>1, WarmKept DEF ReadUsage, Goto, redisVars, bookVars, TypeOK
      <3> QED BY <3>1, <3>2
    <2> QED BY <1>2, <2>1, <2>2 DEF ReadUsage
  <1>3. CASE ScanTable(r)
    <2>1. NothingLost' => NothingLost
      BY <1>3 DEF ScanTable, NothingLost, Fault, faultVars, TypeOK
    <2>2. \E where : pc' = [pc EXCEPT ![r] = where]
      BY <1>3, DecideMoves DEF ScanTable, Goto
    <2> QED BY <1>3, <2>1, <2>2, WarmKept DEF ScanTable, redisVars, bookVars, TypeOK
  <1>4. CASE RestoreUsage(r)
    <2> SUFFICES ASSUME NothingLost' PROVE WarmInv'
      BY DEF WarmInv
    <2>1. NothingLost
      BY <1>4 DEF RestoreUsage, NothingLost, faultVars
    <2>2. checked[r] # 1
      BY <1>4, <2>1 DEF RestoreUsage, WarmInv
    <2>3. \A c \in Counters : usage'[c][1] = usage[c][1]
      BY <1>4, <2>2 DEF RestoreUsage, TypeOK
    <2>4. \E where \in {"refused", "reject", "read", "recordKey"} : pc' = [pc EXCEPT ![r] = where]
      BY <1>4, DecideMoves DEF RestoreUsage
    <2>5. \A q \in Requests : pc'[q] \in {"scan", "restore"} => checked'[q] # 1
      BY <1>4, <2>1, <2>4 DEF RestoreUsage, WarmInv, TypeOK
    <2>6. \A c \in Counters : /\ InPeriodOne(booked[c])' = InPeriodOne(booked[c])
                              /\ OfPeriodOne(returned[c])' = OfPeriodOne(returned[c])
      BY <1>4 DEF RestoreUsage, InPeriodOne, OfPeriodOne, bookVars
    <2> QED BY <2>1, <2>3, <2>5, <2>6 DEF WarmInv
  <1>5. CASE CountRejection(r)
    BY <1>5, WarmKept DEF CountRejection, Goto, NothingLost, localVars, bookVars, faultVars, TypeOK
  <1>6. CASE ExpireRejection(r)
    BY <1>6, WarmKept DEF ExpireRejection, Goto, NothingLost, localVars, bookVars, faultVars, TypeOK
  <1> QED BY <1>1, <1>2, <1>3, <1>4, <1>5, <1>6 DEF Check

\* Charges and refunds go to the counters and to the books alike.
LEMMA WarmCharge ==
    ASSUME TypeOK, BooksInv, WarmInv, NEW r \in Requests, Charge(r)
    PROVE  WarmInv'
  <1> USE Domains
  <1>1. /\ UNCHANGED <<pinned, checked>> /\ NothingLost' = NothingLost
        /\ \A q \in Requests : pc'[q] \in {"scan", "restore"} => pc[q] \in {"scan", "restore"}
    BY DEF Charge, RecordKey, RecordAccount, RefundKey, RefundAccount, Goto, localVars, faultVars,
           NothingLost, TypeOK
  <1>2. ASSUME NEW c \in Counters, Add(c, r), UNCHANGED returned
        PROVE  WarmInv'
    <2>1. ASSUME NothingLost', NEW d \in Counters
          PROVE  usage'[d][1] = Holding(InPeriodOne(booked[d])', OfPeriodOne(returned[d])')
      <3>1. usage[d][1] = Holding(InPeriodOne(booked[d]), OfPeriodOne(returned[d]))
        BY <1>1, <2>1 DEF WarmInv
      <3>2. OfPeriodOne(returned[d])' = OfPeriodOne(returned[d])
        BY <1>1, <1>2 DEF OfPeriodOne
      <3>3. CASE d = c /\ pinned[r] = 1
        <4>1. usage'[d][1] = Holding(usage[d][1].plus \cup {r}, usage[d][1].minus)
          BY <1>2, <3>3 DEF Add, TypeOK
        <4>2. booked'[d] = booked[d] \cup {r}
          BY <1>2, <3>3 DEF Add, TypeOK
        <4>3. InPeriodOne(booked[d])' = InPeriodOne(booked[d]) \cup {r}
          BY <1>1, <3>3, <4>2 DEF InPeriodOne
        <4> QED BY <3>1, <3>2, <4>1, <4>3 DEF Holding
      <3>4. CASE ~(d = c /\ pinned[r] = 1)
        <4>1. usage'[d][1] = usage[d][1]
          BY <1>2, <3>4 DEF Add, TypeOK
        <4>2. InPeriodOne(booked[d])' = InPeriodOne(booked[d])
          BY <1>1, <1>2, <3>4 DEF Add, InPeriodOne, TypeOK
        <4> QED BY <3>1, <3>2, <4>1, <4>2
      <3> QED BY <3>3, <3>4
    <2> QED BY <1>1, <2>1 DEF WarmInv
  <1>3. ASSUME NEW c \in Counters, Subtract(c, r), UNCHANGED booked
        PROVE  WarmInv'
    <2>1. ASSUME NothingLost', NEW d \in Counters
          PROVE  usage'[d][1] = Holding(InPeriodOne(booked[d])', OfPeriodOne(returned[d])')
      <3>1. usage[d][1] = Holding(InPeriodOne(booked[d]), OfPeriodOne(returned[d]))
        BY <1>1, <2>1 DEF WarmInv
      <3>2. InPeriodOne(booked[d])' = InPeriodOne(booked[d])
        BY <1>1, <1>3 DEF InPeriodOne
      <3>3. returned[d] \in [Requests -> Nat]
        BY DEF TypeOK
      <3>4. CASE d = c /\ pinned[r] = 1
        <4>1. usage'[d][1] = Holding(usage[d][1].plus, OneMore(usage[d][1].minus, r))
          BY <1>3, <3>4 DEF Subtract, RefundPeriod, TypeOK
        <4>2. returned'[d] = OneMore(returned[d], r)
          BY <1>3, <3>4 DEF Subtract, TypeOK
        <4>3. OfPeriodOne(returned[d])' = OneMore(OfPeriodOne(returned[d]), r)
          BY <1>1, <3>3, <3>4, <4>2 DEF OfPeriodOne, OneMore
        <4> QED BY <3>1, <3>2, <4>1, <4>3 DEF Holding
      <3>5. CASE ~(d = c /\ pinned[r] = 1)
        <4>1. usage'[d][1] = usage[d][1]
          BY <1>3, <3>5 DEF Subtract, RefundPeriod, TypeOK
        <4>2. \A q \in Requests : pinned[q] = 1 => returned'[d][q] = returned[d][q]
          BY <1>3, <3>5, BooksReturned
        <4>3. OfPeriodOne(returned[d])' = OfPeriodOne(returned[d])
          BY <1>1, <4>2 DEF OfPeriodOne
        <4> QED BY <3>1, <3>2, <4>1, <4>3
      <3> QED BY <3>4, <3>5
    <2> QED BY <1>1, <2>1 DEF WarmInv
  <1>4. CASE RecordKey(r)
    BY <1>2, <1>4 DEF RecordKey
  <1>5. CASE RecordAccount(r)
    BY <1>2, <1>5 DEF RecordAccount
  <1>6. CASE RefundKey(r)
    BY <1>3, <1>6 DEF RefundKey
  <1>7. CASE RefundAccount(r)
    BY <1>3, <1>7 DEF RefundAccount
  <1> QED BY <1>4, <1>5, <1>6, <1>7 DEF Charge

\* Every step leaves the counters of the first period in agreement with the books.
LEMMA WarmStep == TypeOK /\ BooksInv /\ WarmInv /\ [Next]_vars => WarmInv'
  <1> SUFFICES ASSUME TypeOK, BooksInv, WarmInv, [Next]_vars PROVE WarmInv'
    OBVIOUS
  <1>1. ASSUME NEW r \in Requests, Arrive(r) PROVE WarmInv'
    BY <1>1, WarmKept DEF Arrive, Goto, NothingLost, redisVars, bookVars, faultVars, TypeOK
  <1>2. ASSUME NEW r \in Requests, Job(r) PROVE WarmInv'
    <2>1. UNCHANGED <<localVars, redisVars, bookVars>> /\ (NothingLost' => NothingLost)
      BY <1>2 DEF Job, CreateJob, Rerun, JobOk, Returns, JobFails, GatewayDies, HandlerDies, Fault, faultVars,
                  NothingLost, TypeOK
    <2>2. \A q \in Requests : pc'[q] \in {"scan", "restore"} => pc[q] \in {"scan", "restore"}
      BY <1>2 DEF Job, CreateJob, Rerun, JobOk, Returns, JobFails, GatewayDies, HandlerDies, Goto, TypeOK
    <2> QED BY <2>1, <2>2, WarmKept DEF localVars, redisVars, bookVars
  <1>4. ASSUME NEW k \in Keys, RejectionsExpire(k) PROVE WarmInv'
    BY <1>4, WarmKept DEF RejectionsExpire, NothingLost, localVars, bookVars, faultVars, TypeOK
  <1>5. CASE NextPeriod
    BY <1>5, WarmKept DEF NextPeriod, NothingLost, localVars, redisVars, bookVars, faultVars, TypeOK
  <1>6. CASE LoseRedis
    BY <1>6 DEF LoseRedis, Fault, NothingLost, WarmInv, TypeOK
  <1>7. CASE UNCHANGED vars
    BY <1>7, WarmKept DEF vars, NothingLost, localVars, redisVars, bookVars, faultVars, TypeOK
  <1> QED BY <1>1, <1>2, <1>4, <1>5, <1>6, <1>7, WarmCheck, WarmCharge DEF Next

\* At first the counters are there and hold nothing.
LEMMA WarmInit == Init => WarmInv
  <1> SUFFICES ASSUME Init, NothingLost PROVE WarmInv
    BY DEF WarmInv
  <1>1. ASSUME NEW c \in Counters
        PROVE  usage[c][1] = Holding(InPeriodOne(booked[c]), OfPeriodOne(returned[c]))
    <2>1. usage[c][1] = Holding({}, NoRefund)
      BY Domains DEF Init, NothingLost
    <2>2. InPeriodOne(booked[c]) = {}
      BY DEF Init, InPeriodOne
    <2>3. returned[c] = NoRefund
      BY DEF Init
    <2>4. OfPeriodOne(NoRefund) = NoRefund
      BY DEF OfPeriodOne, NoRefund
    <2> QED BY <2>1, <2>2, <2>3, <2>4
  <1> QED BY <1>1 DEF Init, WarmInv

\* The value of a counter of the first period: what the books say.
LEMMA ValueBooked ==
    ASSUME TypeOK, BooksInv, WarmInv, NothingLost, NEW c \in Counters,
           NEW In, In = InPeriodOne(booked[c]), NEW Out, Out = Refunds(OfPeriodOne(returned[c]))
    PROVE  /\ In \subseteq Requests /\ IsFiniteSet(In)
           /\ Out \subseteq Entries /\ IsFiniteSet(Out)
           /\ \A r \in Requests, n \in Nat : <<r, n>> \in Out <=> pinned[r] = 1 /\ n \in 1 .. returned[c][r]
           /\ Bytes(In) \in Nat /\ BytesOf(Out) \in Nat
           /\ Value(usage[c][1]) = Bytes(In) - BytesOf(Out)
  <1>1. booked[c] \subseteq Requests /\ IsFiniteSet(booked[c]) /\ In \subseteq booked[c]
    BY DEF TypeOK, BooksInv, InPeriodOne
  <1>2. In \subseteq Requests /\ IsFiniteSet(In)
    BY <1>1, FS_Subset
  <1>3. returned[c] \in [Requests -> Nat] /\ OfPeriodOne(returned[c]) \in [Requests -> Nat]
    BY DEF TypeOK, OfPeriodOne
  <1>4. \A r \in Requests, n \in Nat : <<r, n>> \in Out <=> n \in 1 .. OfPeriodOne(returned[c])[r]
    BY <1>3, RefundsEntries
  <1>5. \A r \in Requests, n \in Nat : <<r, n>> \in Out <=> pinned[r] = 1 /\ n \in 1 .. returned[c][r]
    <2>1. \A r \in Requests : OfPeriodOne(returned[c])[r] = IF pinned[r] = 1 THEN returned[c][r] ELSE 0
      BY DEF OfPeriodOne
    <2>2. \A r \in Requests, n \in Nat :
             n \in 1 .. OfPeriodOne(returned[c])[r] <=> pinned[r] = 1 /\ n \in 1 .. returned[c][r]
      BY <1>3, <2>1
    <2> QED BY <1>4, <2>2
  <1>6. Out \subseteq Entries
    BY <1>3, RefundsEntries
  <1>7. Out \subseteq Refunds(returned[c])
    <2> SUFFICES ASSUME NEW x \in Out PROVE x \in Refunds(returned[c])
      OBVIOUS
    <2>1. PICK r \in Requests, n \in Nat : x = <<r, n>>
      BY <1>6 DEF Entries
    <2> QED BY <1>3, <1>5, <2>1, RefundsEntries
  <1>8. IsFiniteSet(Out)
    BY <1>7, FS_Subset DEF BooksInv
  <1>9. Bytes(In) \in Nat /\ BytesOf(Out) \in Nat
    BY <1>2, <1>6, <1>8, ChargesFinite, BytesBound
  <1>10. Value(usage[c][1]) = Bytes(In) - BytesOf(Out)
    <2>1. usage[c][1] = Holding(In, OfPeriodOne(returned[c]))
      BY DEF WarmInv
    <2> QED BY <2>1 DEF Value, Holding
  <1> QED BY <1>2, <1>5, <1>6, <1>8, <1>9, <1>10

\* Failures cost nothing: at rest the counters hold no more than the jobs charged
\* to the period that are OK or were given up, although refunds may come after
\* the period is over; and exactly the jobs that are OK unless one was given up,
\* refunded twice, or refunded and OK.
THEOREM CountersAreBalanced == Spec => []CountersBalance
  <1>1. TypeOK /\ BooksInv /\ WarmInv => CountersBalance
    <2> SUFFICES ASSUME TypeOK, BooksInv, WarmInv, NothingLost, AtRest, NEW c \in Counters
                 PROVE  LET used == {r \in Charges(c, 1) : completed[r] # 0}
                        IN  /\ Value(usage[c][1]) <= Bytes(used \cup (Charges(c, 1) \cap cut))
                            /\ (\A r \in Charges(c, 1) : Settled(r, c)) => Value(usage[c][1]) = Bytes(used)
      BY DEF CountersBalance
    <2> DEFINE In == InPeriodOne(booked[c])
               Out == Refunds(OfPeriodOne(returned[c]))
               used == {r \in Charges(c, 1) : completed[r] # 0}
               kept == used \cup (Charges(c, 1) \cap cut)
    <2>1. In = Charges(c, 1)
      BY DEF InPeriodOne, Charges
    <2>2. /\ In \subseteq Requests /\ IsFiniteSet(In)
          /\ Out \subseteq Entries /\ IsFiniteSet(Out)
          /\ \A r \in Requests, n \in Nat : <<r, n>> \in Out <=> pinned[r] = 1 /\ n \in 1 .. returned[c][r]
          /\ Bytes(In) \in Nat /\ BytesOf(Out) \in Nat
          /\ Value(usage[c][1]) = Bytes(In) - BytesOf(Out)
      BY ValueBooked
    <2>3. \A r \in Requests : returned[c][r] \in Nat
      BY DEF TypeOK
    <2>4. ASSUME NEW r \in In PROVE r \in kept \/ returned[c][r] > 0
      <3>1. /\ Charged(r) /\ Accounted(r) /\ r \in Requests /\ r \in booked[c]
            /\ working[r] = 0 /\ dueKey[r] = 0 /\ dueAccount[r] = 0
            /\ pc[r] \in {"idle", "refused", "accepted", "ok", "dead"}
        BY <2>2 DEF BooksInv, AtRest, InPeriodOne
      <3>2. pc[r] \notin Coming /\ Pays(r, c)
        BY <3>1 DEF Charged, Coming, BeforeCharge
      <3>3. r \in cut \/ completed[r] # 0 \/ (returned[KeyOf[r]][r] > 0 /\ returned[Account][r] > 0)
        BY <3>1, <3>2 DEF Accounted
      <3>4. CASE r \in cut \/ completed[r] # 0
        BY <2>1, <3>4
      <3>5. CASE returned[KeyOf[r]][r] > 0 /\ returned[Account][r] > 0
        BY <3>2, <3>5 DEF Pays
      <3> QED BY <3>3, <3>4, <3>5
    <2>5. kept \subseteq In /\ used \subseteq In
      BY <2>1
    <2>6. /\ (In \ kept) \X {1} \subseteq Out
          /\ (\A r \in In : Settled(r, c)) => Out = (In \ used) \X {1}
      <3>1. (In \ kept) \X {1} \subseteq Out
        <4> SUFFICES ASSUME NEW r \in In \ kept PROVE <<r, 1>> \in Out
          OBVIOUS
        <4>1. returned[c][r] > 0 /\ pinned[r] = 1 /\ r \in Requests
          BY <2>2, <2>4 DEF InPeriodOne
        <4>2. 1 \in 1 .. returned[c][r]
          BY <2>3, <4>1
        <4> QED BY <2>2, <4>1, <4>2
      <3>2. ASSUME \A r \in In : Settled(r, c) PROVE Out = (In \ used) \X {1}
        <4>1. ASSUME NEW r \in Requests, NEW n \in Nat
              PROVE  <<r, n>> \in Out <=> r \in In \ used /\ n = 1
          <5>1. CASE r \notin In
            <6>1. returned[c][r] = 0 \/ pinned[r] # 1
              BY <2>3, <5>1 DEF BooksInv, Charged, InPeriodOne
            <6> QED BY <2>2, <5>1, <6>1
          <5>2. CASE r \in In
            <6>1. Settled(r, c) /\ pinned[r] = 1
              BY <3>2, <5>2 DEF InPeriodOne
            <6>2. r \notin kept => returned[c][r] = 1
              BY <2>4, <5>2, <6>1 DEF Settled
            <6>3. r \in used => returned[c][r] = 0
              BY <6>1 DEF Settled
            <6>4. r \in kept <=> r \in used
              BY <6>1 DEF Settled
            <6>5. <<r, n>> \in Out <=> n \in 1 .. returned[c][r]
              BY <2>2, <6>1
            <6>6. CASE r \in used
              BY <6>3, <6>5, <6>6
            <6>7. CASE r \notin used
              <7>1. returned[c][r] = 1
                BY <6>2, <6>4, <6>7
              <7> HIDE DEF Out, used, In
              <7> QED BY <5>2, <6>5, <6>7, <7>1
            <6> QED BY <6>6, <6>7
          <5> QED BY <5>1, <5>2
        <4>2. (In \ used) \X {1} \subseteq Requests \X Nat
          BY <2>2
        <4> HIDE DEF Out, used, In
        <4> QED BY <2>2, <4>1, <4>2 DEF Entries
      <3> QED BY <3>1, <3>2
    <2> HIDE DEF In, Out, used, kept
    <2>7. ASSUME NEW S, S \subseteq In PROVE Bytes(In \ S) = Bytes(In) - Bytes(S) /\ Bytes(S) \in Nat
      <3>1. In \X {1} \subseteq Entries /\ IsFiniteSet(In \X {1}) /\ S \X {1} \subseteq In \X {1}
        BY <2>2, <2>7, ChargesFinite
      <3>2. (In \X {1}) \ (S \X {1}) = (In \ S) \X {1}
        OBVIOUS
      <3>3. Bytes(In \ S) = Bytes(In) - Bytes(S)
        BY <3>1, <3>2, BytesDifference DEF Bytes
      <3>4. IsFiniteSet(S) /\ S \subseteq Requests
        BY <2>2, <2>7, FS_Subset
      <3> QED BY <3>3, <3>4, ChargesFinite
    <2>8. Value(usage[c][1]) <= Bytes(kept)
      <3>1. Bytes(In \ kept) <= BytesOf(Out)
        BY <2>2, <2>6, BytesSubset DEF Bytes
      <3>2. Bytes(In \ kept) = Bytes(In) - Bytes(kept) /\ Bytes(kept) \in Nat
        BY <2>5, <2>7
      <3> QED BY <2>2, <3>1, <3>2
    <2>9. (\A r \in In : Settled(r, c)) => Value(usage[c][1]) = Bytes(used)
      <3> SUFFICES ASSUME \A r \in In : Settled(r, c) PROVE Value(usage[c][1]) = Bytes(used)
        OBVIOUS
      <3>1. BytesOf(Out) = Bytes(In \ used)
        BY <2>6 DEF Bytes
      <3>2. Bytes(In \ used) = Bytes(In) - Bytes(used) /\ Bytes(used) \in Nat
        BY <2>5, <2>7
      <3> QED BY <2>2, <3>1, <3>2
    <2> QED BY <2>1, <2>8, <2>9 DEF used, kept
  <1> QED BY <1>1, TypeInit, TypeStep, BooksInit, BooksStep, WarmInit, WarmStep, PTL DEF Spec

-----------------------------------------------------------------------------
(* The cap.                                                                *)

\* What is committed is among the books and the requests in flight, which are few.
LEMMA CommittedFinite ==
    ASSUME TypeOK, BooksInv, FlightInv
    PROVE  Committed \subseteq Requests /\ IsFiniteSet(Committed)
  <1>1. IsFiniteSet(booked[Account])
    BY Domains DEF BooksInv
  <1>2. IsFiniteSet(InFlight \cup booked[Account])
    BY <1>1, FS_Union DEF FlightInv
  <1>3. Committed \subseteq InFlight \cup booked[Account]
    BY DEF Committed, Admitted, InFlight
  <1> QED BY <1>2, <1>3, FS_Subset DEF Committed

\* What was refunded beyond the charges is a number that only grows.
Grows == Excess \in Nat /\ Excess' \in Nat /\ Excess <= Excess'

\* Refunds are never taken back, and what is refunded keeps its period.
LEMMA ExcessGrows ==
    ASSUME TypeOK, TypeOK', BooksInv, BooksInv', [Next]_vars
    PROVE  Grows
  <1> USE Domains
  <1> DEFINE Out(ret, pin) == {x \in Refunds(ret) : pin[x[1]] = 1 /\ x[2] > 1}
  <1>1. ASSUME NEW q \in Requests
        PROVE  /\ returned'[Account][q] >= returned[Account][q]
               /\ returned[Account][q] > 0 => pinned'[q] = pinned[q]
    <2>1. CASE UNCHANGED returned /\ (pinned'[q] = pinned[q] \/ pc[q] = "idle")
      <3>1. pc[q] = "idle" => returned[Account][q] = 0
        BY DEF BooksInv, Charged, BeforeCharge, TypeOK
      <3> QED BY <2>1, <3>1 DEF TypeOK
    <2>2. ASSUME NEW r \in Requests, NEW c \in Counters, Subtract(c, r), UNCHANGED pinned
          PROVE  returned'[Account][q] >= returned[Account][q] /\ pinned' = pinned
      <3>1. returned[Account][q] \in Nat
        BY DEF TypeOK
      <3> QED BY <2>2, <3>1, BooksReturned
    <2>3. ASSUME NEW r \in Requests, RefundKey(r) \/ RefundAccount(r)
          PROVE  returned'[Account][q] >= returned[Account][q] /\ pinned' = pinned
      BY <2>2, <2>3 DEF RefundKey, RefundAccount, localVars
    <2>4. ASSUME NEW r \in Requests, Arrive(r) PROVE UNCHANGED returned /\ (pinned'[q] = pinned[q] \/ pc[q] = "idle")
      BY <2>4 DEF Arrive, TypeOK, bookVars
    <2>5. ASSUME NEW r \in Requests, Check(r) \/ RecordKey(r) \/ RecordAccount(r)
          PROVE  UNCHANGED <<returned, pinned>>
      BY <2>5 DEF Check, CheckRejections, ReadUsage, ScanTable, RestoreUsage, CountRejection,
                  ExpireRejection, RecordKey, RecordAccount, bookVars, localVars
    <2>6. ASSUME NEW r \in Requests, Job(r) PROVE UNCHANGED <<returned, pinned>>
      BY <2>6 DEF Job, CreateJob, Rerun, JobOk, Returns, JobFails, GatewayDies, HandlerDies, bookVars, localVars
    <2>7. ASSUME NEW k \in Keys, RejectionsExpire(k) PROVE UNCHANGED <<returned, pinned>>
      BY <2>7 DEF RejectionsExpire, bookVars, localVars
    <2>8. CASE NextPeriod \/ LoseRedis \/ UNCHANGED vars
      BY <2>1, <2>8 DEF NextPeriod, LoseRedis, vars, bookVars, localVars
    <2> QED BY <2>1, <2>3, <2>4, <2>5, <2>6, <2>7, <2>8 DEF Next, Charge, TypeOK
  <1>2. returned[Account] \in [Requests -> Nat] /\ returned'[Account] \in [Requests -> Nat]
    BY DEF TypeOK
  <1>3. Out(returned[Account], pinned) \subseteq Out(returned'[Account], pinned')
    <2> SUFFICES ASSUME NEW x \in Out(returned[Account], pinned) PROVE x \in Out(returned'[Account], pinned')
      OBVIOUS
    <2>1. PICK q \in Requests, n \in Nat : x = <<q, n>>
      BY <1>2, RefundsEntries DEF Entries
    <2>2. n \in 1 .. returned[Account][q] /\ n > 1 /\ pinned[q] = 1
      BY <1>2, <2>1, RefundsEntries
    <2>3. returned[Account][q] \in Nat /\ returned'[Account][q] \in Nat
      BY <1>2
    <2>4. n \in 1 .. returned'[Account][q] /\ pinned'[q] = 1
      BY <1>1, <2>2, <2>3
    <2> QED BY <1>2, <2>1, <2>2, <2>4, RefundsEntries
  <1>4. /\ Out(returned[Account], pinned) \subseteq Entries
        /\ Out(returned'[Account], pinned') \subseteq Entries
    BY <1>2, RefundsEntries
  <1>5. IsFiniteSet(Out(returned[Account], pinned)) /\ IsFiniteSet(Out(returned'[Account], pinned'))
    <2>1. IsFiniteSet(Refunds(returned[Account])) /\ IsFiniteSet(Refunds(returned'[Account]))
      BY DEF BooksInv
    <2> QED BY <2>1, FS_Subset
  <1>6. Excess = BytesOf(Out(returned[Account], pinned)) /\ Excess' = BytesOf(Out(returned'[Account], pinned'))
    BY DEF Excess, BytesOf
  <1> HIDE DEF Out
  <1> QED BY <1>3, <1>4, <1>5, <1>6, BytesBound, BytesSubset DEF Grows

\* Steps that commit nothing more.
LEMMA CapKept ==
    ASSUME TypeOK, BooksInv, FlightInv, CapInv, Grows, NothingLost' => NothingLost,
           Committed' \subseteq Committed
    PROVE  CapInv'
  <1> SUFFICES ASSUME NothingLost', CapBytes # NoLimit
               PROVE  Bytes(Committed') <= CapBytes + (MaxConcurrent - 1) * MaxSize + Excess'
    BY DEF CapInv, Bytes, BytesOf
  <1>1. Bytes(Committed') <= Bytes(Committed) /\ Bytes(Committed) \in Nat /\ Bytes(Committed') \in Nat
    <2>1. IsFiniteSet(Committed') /\ Committed' \subseteq Requests
      BY CommittedFinite, FS_Subset
    <2>2. Committed' \X {1} \subseteq Committed \X {1}
      OBVIOUS
    <2> QED BY <2>1, <2>2, CommittedFinite, ChargesFinite, BytesSubset DEF Bytes
  <1>3. Bytes(Committed) <= CapBytes + (MaxConcurrent - 1) * MaxSize + Excess
    BY DEF CapInv
  <1>4. CapBytes + (MaxConcurrent - 1) * MaxSize \in Int
    BY LimitsAssumption, SizesAssumption
  <1> QED BY <1>1, <1>3, <1>4 DEF Grows

\* Where one request has moved on that is not admitted by it.
LEMMA CapMove ==
    ASSUME TypeOK, BooksInv, FlightInv, CapInv, Grows, NothingLost' => NothingLost,
           NEW r \in Requests, NEW where, pc' = [pc EXCEPT ![r] = where],
           UNCHANGED <<booked, returned>>,
           \A q \in Requests \ {r} :
              scope'[q] = scope[q] /\ pinned'[q] = pinned[q] /\ checked'[q] = checked[q],
           r \in Committed' => r \in Committed
    PROVE  CapInv'
  <1>1. \A q \in Requests \ {r} : pc'[q] = pc[q]
    BY DEF TypeOK
  <1>2. Committed' \subseteq Committed
    BY <1>1 DEF Committed, Admitted
  <1> QED BY <1>2, CapKept

\* The value of the account's counter and the excess make up what stands.
LEMMA ValueStanding ==
    ASSUME TypeOK, BooksInv, WarmInv, NothingLost,
           NEW Standing, Standing = {r \in booked[Account] : pinned[r] = 1 /\ returned[Account][r] = 0}
    PROVE  /\ Standing \subseteq Requests /\ IsFiniteSet(Standing) /\ Bytes(Standing) \in Nat
           /\ Value(usage[Account][1]) \in Int /\ Excess \in Nat
           /\ Bytes(Standing) = Value(usage[Account][1]) + Excess
  <1> USE Domains
  <1> DEFINE In == InPeriodOne(booked[Account])
             Out == Refunds(OfPeriodOne(returned[Account]))
             Back == {r \in In : returned[Account][r] > 0}
             More == {x \in Refunds(returned[Account]) : pinned[x[1]] = 1 /\ x[2] > 1}
  <1>1. /\ In \subseteq Requests /\ IsFiniteSet(In)
        /\ Out \subseteq Entries /\ IsFiniteSet(Out)
        /\ \A r \in Requests, n \in Nat :
              <<r, n>> \in Out <=> pinned[r] = 1 /\ n \in 1 .. returned[Account][r]
        /\ Bytes(In) \in Nat /\ BytesOf(Out) \in Nat
        /\ Value(usage[Account][1]) = Bytes(In) - BytesOf(Out)
    BY ValueBooked
  <1>2. returned[Account] \in [Requests -> Nat]
    BY DEF TypeOK
  <1>3. Standing = In \ Back
    BY <1>1, <1>2 DEF InPeriodOne
  <1>4. ASSUME NEW r \in Requests, NEW n \in Nat
        PROVE  /\ <<r, n>> \in Back \X {1} => <<r, n>> \in Out
               /\ <<r, n>> \in More <=> <<r, n>> \in Out \ (Back \X {1})
    <2>1. <<r, n>> \in More <=> n \in 1 .. returned[Account][r] /\ pinned[r] = 1 /\ n > 1
      BY <1>2, RefundsEntries
    <2>2. <<r, n>> \in Out <=> pinned[r] = 1 /\ n \in 1 .. returned[Account][r]
      BY <1>1
    <2>3. returned[Account][r] \in Nat
      BY <1>2
    <2>4. r \in Back <=> r \in booked[Account] /\ pinned[r] = 1 /\ returned[Account][r] > 0
      BY DEF InPeriodOne
    <2>5. returned[Account][r] > 0 => r \in booked[Account]
      BY DEF BooksInv, Charged
    <2>6. <<r, n>> \in Back \X {1} <=> r \in Back /\ n = 1
      OBVIOUS
    <2> HIDE DEF Out, Back, More
    <2> QED BY <2>1, <2>2, <2>3, <2>4, <2>5, <2>6
  <1>5. More \subseteq Entries /\ Back \X {1} \subseteq Entries
    BY <1>1, <1>2, RefundsEntries DEF Entries
  <1> HIDE DEF In, Out, More
  <1>6. Back \X {1} \subseteq Out /\ More = Out \ (Back \X {1})
    <2> HIDE DEF Back
    <2> QED BY <1>1, <1>4, <1>5 DEF Entries
  <1>7. Back \subseteq In
    OBVIOUS
  <1> HIDE DEF Back
  <1>8. BytesOf(More) = BytesOf(Out) - Bytes(Back)
    BY <1>1, <1>6, BytesDifference DEF Bytes
  <1>9. Bytes(Standing) = Bytes(In) - Bytes(Back)
    <2>1. In \X {1} \subseteq Entries /\ IsFiniteSet(In \X {1}) /\ Back \X {1} \subseteq In \X {1}
      BY <1>1, <1>7, ChargesFinite
    <2>2. (In \X {1}) \ (Back \X {1}) = Standing \X {1}
      BY <1>3
    <2> QED BY <2>1, <2>2, BytesDifference DEF Bytes
  <1>10. IsFiniteSet(Standing) /\ IsFiniteSet(Back) /\ IsFiniteSet(More)
    BY <1>1, <1>3, <1>6, <1>7, FS_Subset
  <1>11. Bytes(Standing) \in Nat /\ Bytes(Back) \in Nat /\ BytesOf(More) \in Nat
    <2>1. Standing \subseteq Requests /\ Back \subseteq Requests
      BY <1>1, <1>3, <1>7
    <2> QED BY <1>5, <1>10, <2>1, ChargesFinite, BytesBound
  <1>12. Excess = BytesOf(More)
    BY DEF Excess, More
  <1> QED BY <1>1, <1>3, <1>8, <1>9, <1>10, <1>11, <1>12

\* A request passes the check of the account only while its bytes and those that
\* stand in the counter are within the cap; the others that were let in beside
\* it are in flight.
LEMMA CapPassed ==
    ASSUME TypeOK, BooksInv, FlightInv, WarmInv, NothingLost, CapBytes # NoLimit, Grows,
           NEW r \in InFlight, checked[r] = 1,
           Projected(r, Value(usage[Account][1])) <= CapBytes,
           Committed' \subseteq Committed \cup {r}
    PROVE  Bytes(Committed') <= CapBytes + (MaxConcurrent - 1) * MaxSize + Excess'
  <1> USE Domains
  <1> DEFINE Standing == {q \in booked[Account] : pinned[q] = 1 /\ returned[Account][q] = 0}
             Others == InFlight \ {r}
  <1>1. /\ r \in Requests /\ InFlight \subseteq Requests /\ SizeOf[r] \in 1 .. MaxSize
        /\ MaxSize \in Nat /\ CapBytes \in Nat /\ MaxConcurrent \in Nat \ {0}
    BY SizesAssumption, LimitsAssumption DEF InFlight
  <1>2. /\ Standing \subseteq Requests /\ IsFiniteSet(Standing) /\ Bytes(Standing) \in Nat
        /\ Value(usage[Account][1]) \in Int /\ Excess \in Nat
        /\ Bytes(Standing) = Value(usage[Account][1]) + Excess
    BY ValueStanding
  <1>3. Committed' \subseteq (Standing \cup {r}) \cup Others
    BY DEF Committed, Admitted, InFlight
  <1> HIDE DEF Standing
  <1>4. Bytes(Standing) + SizeOf[r] <= CapBytes + Excess
    BY <1>1, <1>2 DEF Projected
  <1>5. /\ IsFiniteSet(Others) /\ Others \subseteq Requests
        /\ Cardinality(Others) = Cardinality(InFlight) - 1 /\ Cardinality(InFlight) \in Nat
    BY <1>1, FS_RemoveElement, FS_CardinalityType DEF FlightInv
  <1>6. Cardinality(Others) \in Nat /\ Cardinality(Others) <= MaxConcurrent - 1
    BY <1>1, <1>5, FS_CardinalityType DEF FlightInv
  <1> HIDE DEF Others
  <1>7. /\ Others \X {1} \subseteq Entries /\ IsFiniteSet(Others \X {1})
        /\ Cardinality(Others \X {1}) = Cardinality(Others)
    BY <1>5, ChargesFinite
  <1>8. BytesOf(Others \X {1}) \in Nat /\ BytesOf(Others \X {1}) <= Cardinality(Others) * MaxSize
    BY <1>7, BytesBound
  <1>9. BytesOf(Others \X {1}) <= (MaxConcurrent - 1) * MaxSize
    <2>1. Cardinality(Others) * MaxSize <= (MaxConcurrent - 1) * MaxSize
      <3>1. \A i, j, m \in Nat : i <= j => i * m <= j * m
        OBVIOUS
      <3>2. MaxConcurrent - 1 \in Nat
        BY <1>1
      <3> QED BY <1>1, <1>6, <3>1, <3>2
    <2>2. Cardinality(Others) * MaxSize \in Int /\ (MaxConcurrent - 1) * MaxSize \in Int
      BY <1>1, <1>6
    <2> QED BY <1>8, <2>1, <2>2
  <1>10. /\ Standing \X {1} \subseteq Entries /\ IsFiniteSet(Standing \X {1})
         /\ {r} \X {1} \subseteq Entries /\ IsFiniteSet({r} \X {1}) /\ BytesOf({r} \X {1}) = SizeOf[r]
    BY <1>1, <1>2, ChargesFinite, BytesOne, FS_Singleton DEF Bytes
  <1> DEFINE Two == (Standing \X {1}) \cup ({r} \X {1})
             All == Two \cup (Others \X {1})
  <1>11. IsFiniteSet(Two) /\ Two \subseteq Entries /\ BytesOf(Two) <= Bytes(Standing) + SizeOf[r]
    BY <1>10, BytesUnion DEF Bytes
  <1>12. Committed' \X {1} \subseteq All
    BY <1>3
  <1> HIDE DEF Two
  <1>13. IsFiniteSet(All) /\ All \subseteq Entries /\ BytesOf(All) <= BytesOf(Two) + BytesOf(Others \X {1})
    BY <1>7, <1>11, BytesUnion
  <1> HIDE DEF All
  <1>14. Bytes(Committed') <= BytesOf(All)
    BY <1>12, <1>13, BytesSubset DEF Bytes
  <1>15. BytesOf(Two) \in Nat /\ BytesOf(All) \in Nat /\ Bytes(Committed') \in Nat
    <2>1. IsFiniteSet(Committed' \X {1}) /\ Committed' \X {1} \subseteq Entries
      BY <1>12, <1>13, FS_Subset
    <2> QED BY <2>1, <1>11, <1>13, BytesBound DEF Bytes
  <1>16. (MaxConcurrent - 1) * MaxSize \in Int
    BY <1>1
  <1> QED BY <1>1, <1>2, <1>4, <1>8, <1>9, <1>11, <1>13, <1>14, <1>15, <1>16 DEF Grows

\* A decision on the account that admits a request to the charge, or to the quota
\* of its key, has found it within the cap; one that is on the key already was
\* committed before.
LEMMA DecideWithin ==
    ASSUME TypeOK, NEW r \in Requests, NEW used, Decide(r, used), pc[r] \in {"read", "scan", "restore"},
           scope[r] = Account, CapBytes # NoLimit, Projected(r, used) \in Int, Admitted(r)'
    PROVE  Projected(r, used) <= CapBytes
  <1>1. CASE FreeLine(Projected(r, used)) \/ Over(Projected(r, used), CapBytes)
    <2>1. pc'[r] \in {"refused", "reject"}
      BY <1>1, Domains DEF Decide, Goto, TypeOK
    <2> QED BY <2>1 DEF Admitted
  <1>2. CASE ~Over(Projected(r, used), CapBytes)
    BY <1>2, LimitsAssumption DEF Over
  <1> QED BY <1>1, <1>2

\* Every step of a check keeps what is committed within the bound.
LEMMA CapCheck ==
    ASSUME TypeOK, BooksInv, FlightInv, WarmInv, CapInv, Grows, NEW r \in Requests, Check(r)
    PROVE  CapInv'
  <1> USE Domains
  <1>0. NothingLost' => NothingLost
    BY DEF Check, CheckRejections, ReadUsage, ScanTable, RestoreUsage, CountRejection,
           ExpireRejection, Fault, faultVars, NothingLost, TypeOK
  <1>1. CASE CheckRejections(r)
    <2>1. Account = scope[r]
      BY <1>1 DEF CheckRejections, BooksInv, Charged
    <2>2. \E where \in {"refused", "read"} : pc' = [pc EXCEPT ![r] = where]
      BY <1>1 DEF CheckRejections, Goto
    <2>3. r \notin booked[Account]
      BY <1>1 DEF CheckRejections, BooksInv, Charged, BeforeCharge
    <2>4. r \notin Committed'
      BY <1>1, <2>1, <2>2, <2>3 DEF CheckRejections, Committed, Admitted, TypeOK, bookVars
    <2> QED BY <1>0, <1>1, <2>2, <2>4, CapMove DEF CheckRejections, TypeOK, bookVars
  <1>2. ASSUME NEW used, Decide(r, used), pc[r] \in {"read", "scan", "restore"},
               UNCHANGED <<pinned, checked, booked, returned>>,
               scope[r] = Account /\ NothingLost /\ checked[r] = 1
                  => used = Value(usage[Account][1])
        PROVE  CapInv'
    <2>1. \E where \in {"refused", "reject", "read", "recordKey"} : pc' = [pc EXCEPT ![r] = where]
      BY <1>2, DecideMoves
    <2>2. \A q \in Requests \ {r} : scope'[q] = scope[q]
      BY <1>2, DecideMoves
    <2>3. CASE r \in Committed' => r \in Committed
      BY <1>0, <1>2, <2>1, <2>2, <2>3, CapMove
    <2>4. CASE r \in Committed' /\ r \notin Committed
      <3> SUFFICES ASSUME NothingLost', CapBytes # NoLimit
                   PROVE  Bytes(Committed') <= CapBytes + (MaxConcurrent - 1) * MaxSize + Excess'
        BY DEF CapInv, Bytes, BytesOf
      <3>1. r \notin booked[Account]
        BY <1>2 DEF BooksInv, Charged, BeforeCharge
      <3>2. pinned[r] = 1 /\ checked[r] = 1 /\ Admitted(r)'
        BY <1>2, <2>4, <3>1 DEF Committed
      <3>3. scope[r] = Account
        BY <1>2, <2>4, <3>2 DEF Committed, Admitted
      <3>4. used = Value(usage[Account][1])
        BY <1>0, <1>2, <3>2, <3>3
      <3>5. r \in InFlight
        BY <1>2 DEF InFlight
      <3>6. \A q \in Requests \ {r} : pc'[q] = pc[q]
        BY <2>1 DEF TypeOK
      <3>7. Committed' \subseteq Committed \cup {r}
        BY <1>2, <2>2, <3>6 DEF Committed, Admitted
      <3>8. Projected(r, used) \in Int
        <4>1. Value(usage[Account][1]) \in Int
          BY <1>0, ValueStanding
        <4>2. SizeOf[r] \in Int
          BY SizesAssumption
        <4> QED BY <3>4, <4>1, <4>2 DEF Projected
      <3>9. Projected(r, used) <= CapBytes
        BY <1>2, <3>2, <3>3, <3>8, DecideWithin
      <3> QED BY <1>0, <3>2, <3>4, <3>5, <3>7, <3>9, CapPassed
    <2> QED BY <2>3, <2>4
  <1>3. CASE ReadUsage(r)
    <2>1. CASE Decide(r, Value(usage[scope[r]][checked[r]]))
      BY <1>2, <1>3, <2>1 DEF ReadUsage, bookVars
    <2>2. CASE Goto(r, "scan") /\ UNCHANGED scope
      <3>1. r \in Committed' => r \in Committed
        BY <1>3, <2>2 DEF ReadUsage, Goto, Committed, Admitted, TypeOK, bookVars
      <3> QED BY <1>0, <1>3, <2>2, <3>1, CapMove DEF ReadUsage, Goto, bookVars
    <2> QED BY <1>3, <2>1, <2>2 DEF ReadUsage
  <1>4. CASE ScanTable(r)
    <2>1. CASE Decide(r, 0)
      <3>1. NothingLost => checked[r] # 1
        BY <1>4 DEF ScanTable, WarmInv
      <3> QED BY <1>2, <1>4, <2>1, <3>1 DEF ScanTable, bookVars
    <2>2. CASE Goto(r, "restore") /\ UNCHANGED scope
      <3>1. r \in Committed' => r \in Committed
        BY <1>4, <2>2 DEF ScanTable, Goto, Committed, Admitted, TypeOK, bookVars
      <3> QED BY <1>0, <1>4, <2>2, <3>1, CapMove DEF ScanTable, Goto, bookVars
    <2> QED BY <1>4, <2>1, <2>2 DEF ScanTable
  <1>5. CASE RestoreUsage(r)
    <2>1. NothingLost => checked[r] # 1
      BY <1>5 DEF RestoreUsage, WarmInv
    <2> QED BY <1>2, <1>5, <2>1 DEF RestoreUsage, bookVars
  <1>6. CASE CountRejection(r)
    <2>1. r \in Committed' => r \in Committed
      BY <1>6 DEF CountRejection, Goto, Committed, Admitted, TypeOK, localVars, bookVars
    <2> QED BY <1>0, <1>6, <2>1, CapMove DEF CountRejection, Goto, localVars, bookVars
  <1>7. CASE ExpireRejection(r)
    <2>1. r \in Committed' => r \in Committed
      BY <1>7 DEF ExpireRejection, Goto, Committed, Admitted, TypeOK, localVars, bookVars
    <2> QED BY <1>0, <1>7, <2>1, CapMove DEF ExpireRejection, Goto, localVars, bookVars
  <1> QED BY <1>1, <1>3, <1>4, <1>5, <1>6, <1>7 DEF Check

\* Charges and refunds commit nothing more.
LEMMA CapCharge ==
    ASSUME TypeOK, BooksInv, FlightInv, CapInv, Grows, NEW r \in Requests, Charge(r)
    PROVE  CapInv'
  <1> USE Domains
  <1>1. NothingLost' = NothingLost /\ UNCHANGED <<pinned, checked, scope>>
    BY DEF Charge, RecordKey, RecordAccount, RefundKey, RefundAccount, faultVars, localVars, NothingLost
  <1>2. ASSUME NEW q \in Requests, q \in Committed' PROVE q \in Committed
    <2>1. CASE RecordKey(r)
      <3>1. q \in booked'[Account] <=> q \in booked[Account]
        BY <2>1, BooksEntered DEF RecordKey
      <3>2. Admitted(q)' => Admitted(q)
        BY <1>1, <2>1 DEF RecordKey, Goto, Admitted, TypeOK
      <3> QED BY <1>1, <1>2, <2>1, <3>1, <3>2 DEF RecordKey, Committed
    <2>2. CASE RecordAccount(r)
      <3>1. q \in booked'[Account] => q \in booked[Account] \/ Admitted(q)
        BY <2>2, BooksEntered DEF RecordAccount, Admitted
      <3>2. Admitted(q)' => Admitted(q)
        BY <1>1, <2>2 DEF RecordAccount, Goto, Admitted, TypeOK
      <3> QED BY <1>1, <1>2, <2>2, <3>1, <3>2 DEF RecordAccount, Committed
    <2>3. CASE RefundKey(r) \/ RefundAccount(r)
      <3>1. PICK c \in Counters : Subtract(c, r)
        BY <2>3 DEF RefundKey, RefundAccount
      <3>2. returned'[Account][q] = 0 => returned[Account][q] = 0
        <4>1. returned[Account][q] \in Nat
          BY DEF TypeOK
        <4> QED BY <3>1, <4>1, BooksReturned
      <3>3. UNCHANGED <<pc, booked>>
        BY <2>3 DEF RefundKey, RefundAccount
      <3> QED BY <1>1, <1>2, <3>2, <3>3 DEF Committed, Admitted
    <2> QED BY <2>1, <2>2, <2>3 DEF Charge
  <1>3. Committed' \subseteq Committed
    BY <1>2 DEF Committed
  <1> QED BY <1>1, <1>3, CapKept

\* Every step keeps what is committed within the bound.
LEMMA CapStep ==
    /\ TypeOK /\ TypeOK' /\ BooksInv /\ BooksInv' /\ FlightInv /\ WarmInv /\ CapInv
    /\ [Next]_vars
    => CapInv'
  <1> SUFFICES ASSUME TypeOK, TypeOK', BooksInv, BooksInv', FlightInv, WarmInv, CapInv, [Next]_vars
               PROVE  CapInv'
    OBVIOUS
  <1> USE Domains
  <1>0. Grows
    BY ExcessGrows
  <1>1. ASSUME NEW r \in Requests, Arrive(r) PROVE CapInv'
    <2>1. r \notin booked[Account]
      BY <1>1 DEF Arrive, BooksInv, Charged, BeforeCharge
    <2>2. r \notin Committed'
      BY <1>1, <2>1 DEF Arrive, Goto, Committed, Admitted, TypeOK, bookVars
    <2> QED BY <1>0, <1>1, <2>2, CapMove DEF Arrive, Goto, NothingLost, faultVars, bookVars, TypeOK
  <1>2. ASSUME NEW r \in Requests, Job(r) PROVE CapInv'
    <2>1. UNCHANGED <<localVars, bookVars>> /\ (NothingLost' => NothingLost)
      BY <1>2 DEF Job, CreateJob, Rerun, JobOk, Returns, JobFails, GatewayDies, HandlerDies, Fault, faultVars,
                  NothingLost, TypeOK
    <2>2. \A q \in Requests : pc'[q] # pc[q] => pc'[q] \in {"accepted", "ok", "dead"}
      BY <1>2 DEF Job, CreateJob, Rerun, JobOk, Returns, JobFails, GatewayDies, HandlerDies, Goto, TypeOK
    <2>3. Committed' \subseteq Committed
      BY <2>1, <2>2 DEF Committed, Admitted, localVars, bookVars
    <2> QED BY <1>0, <2>1, <2>3, CapKept
  <1>5. ASSUME UNCHANGED <<pc, localVars, booked, returned>>, NothingLost' => NothingLost PROVE CapInv'
    <2>1. Committed' = Committed
      BY <1>5 DEF Committed, Admitted, localVars
    <2> QED BY <1>0, <1>5, <2>1, CapKept
  <1>6. ASSUME NEW k \in Keys, RejectionsExpire(k) PROVE CapInv'
    BY <1>5, <1>6 DEF RejectionsExpire, NothingLost, faultVars, bookVars
  <1>7. CASE NextPeriod
    BY <1>5, <1>7 DEF NextPeriod, NothingLost, faultVars, bookVars
  <1>8. CASE LoseRedis
    BY <1>5, <1>8 DEF LoseRedis, Fault, NothingLost, bookVars, TypeOK
  <1>9. CASE UNCHANGED vars
    BY <1>5, <1>9 DEF vars, NothingLost, faultVars, bookVars
  <1> QED BY <1>0, <1>1, <1>2, <1>6, <1>7, <1>8, <1>9, CapCheck, CapCharge DEF Next

\* At first nothing is committed.
LEMMA CapInit == Init => CapInv
  <1> SUFFICES ASSUME Init, CapBytes # NoLimit
               PROVE  Bytes(Committed) <= CapBytes + (MaxConcurrent - 1) * MaxSize + Excess
    BY DEF CapInv
  <1>1. Committed = {}
    BY Domains DEF Init, Committed, Admitted
  <1>2. BytesOf({}) = 0
    <2>1. Pile({}) = {}
      BY DEF Pile
    <2> QED BY <2>1, FS_EmptySet DEF BytesOf, Pile
  <1>3. Bytes({}) = 0
    <2>1. {} \X {1} = {}
      OBVIOUS
    <2> QED BY <1>2, <2>1 DEF Bytes
  <1>4. Excess = 0
    <2>1. Refunds(returned[Account]) = {}
      BY Domains DEF Init, Refunds, NoRefund
    <2>2. {x \in Refunds(returned[Account]) : pinned[x[1]] = 1 /\ x[2] > 1} = {}
      BY <2>1
    <2> QED BY <1>2, <2>2 DEF Excess
  <1>5. CapBytes \in Nat /\ MaxConcurrent - 1 \in Nat /\ MaxSize \in Nat
    BY LimitsAssumption, SizesAssumption
  <1>6. (MaxConcurrent - 1) * MaxSize \in Nat
    BY <1>5
  <1> QED BY <1>1, <1>3, <1>4, <1>5, <1>6

\* The requests that are checked at the same time exceed the cap together, but by
\* no more than those in flight beside the last one could bring and what was
\* refunded beyond the charges.
THEOREM CapIsBounded == Spec => []CapOvershootBounded
  <1>1. TypeOK /\ BooksInv /\ RejectInv /\ WarmInv /\ CapInv => CapOvershootBounded
    <2> SUFFICES ASSUME TypeOK, BooksInv, FlightInv, WarmInv, CapInv, NothingLost, CapBytes # NoLimit
                 PROVE  Bytes({r \in Ledger(Account, 1) : checked[r] = 1})
                            <= CapBytes + (MaxConcurrent - 1) * MaxSize + Excess
      BY DEF CapOvershootBounded, RejectInv
    <2> DEFINE S == {r \in Ledger(Account, 1) : checked[r] = 1}
    <2>1. S \subseteq Committed
      BY Domains DEF Ledger, Charges, Committed, TypeOK
    <2>2. S \subseteq Requests /\ IsFiniteSet(S) /\ S \X {1} \subseteq Committed \X {1}
      BY <2>1, CommittedFinite, FS_Subset
    <2> HIDE DEF S
    <2>3. Bytes(S) <= Bytes(Committed) /\ Bytes(S) \in Nat /\ Bytes(Committed) \in Nat
      BY <2>2, CommittedFinite, ChargesFinite, BytesSubset DEF Bytes
    <2>4. Bytes(Committed) <= CapBytes + (MaxConcurrent - 1) * MaxSize + Excess
      BY DEF CapInv
    <2>5. CapBytes + (MaxConcurrent - 1) * MaxSize \in Int /\ Excess \in Nat
      <3>1. CapBytes \in Nat /\ MaxConcurrent \in Nat /\ MaxSize \in Nat
        BY LimitsAssumption, SizesAssumption
      <3>2. (MaxConcurrent - 1) * MaxSize \in Int
        BY <3>1
      <3>3. Excess \in Nat
        BY ValueStanding
      <3> QED BY <3>1, <3>2, <3>3
    <2>6. Bytes(S) <= CapBytes + (MaxConcurrent - 1) * MaxSize + Excess
      BY <2>3, <2>4, <2>5
    <2> QED BY <2>6 DEF S
  <1>2. RejectInv => FlightInv
    BY DEF RejectInv
  <1> QED BY <1>1, <1>2, TypeInit, TypeStep, RejectInit, RejectStep, BooksInit, BooksStep,
             WarmInit, WarmStep, CapInit, CapStep, PTL DEF Spec

=============================================================================
