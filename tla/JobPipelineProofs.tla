-------------------------- MODULE JobPipelineProofs --------------------------
(* Proofs about JobPipeline, for any jobs, handlers and fault budgets.     *)
(* Types, the backing of an "ok" signal, the input of unfinished jobs and  *)
(* what polling offers for download hold under every fault; the ledger and *)
(* what is said last need single delivery (NoDuplicates), and telling every*)
(* client something needs the stream and the account too (NothingLost).    *)
EXTENDS JobPipeline, FiniteSetTheorems, TLAPS

-----------------------------------------------------------------------------
(* Type correctness.                                                       *)

\* Type correctness needs to know that a handler at work holds a stream entry.
HandlersHoldEntries == \A w \in Workers : pc[w] = "idle" <=> task[w] = NoSlot

TypeInv == TypeOK /\ HandlersHoldEntries

\* The first component of a slot is its job.
LEMMA SlotJob == \A s \in Slots : JobOf(s) \in Jobs
  BY DEF Slots, JobOf

\* The bounds on the constants that the arithmetic below needs.
LEMMA Bounds ==
    /\ MaxClock \in Nat /\ MaxClock >= 1
    /\ MaxDeliveries \in Nat
    /\ MaxFaults \in Nat
    /\ NoSlot \notin Slots
  BY MaxClockAssumption, MaxDeliveriesAssumption, MaxFaultsAssumption, NoSlotAssumption

\* The initial state is well typed.
LEMMA TypeInit == Init => TypeInv
  <1> SUFFICES ASSUME Init PROVE TypeInv
    OBVIOUS
  <1> USE Bounds DEF Init
  <1>1. NoRow \in Row \cup {NoRow} /\ NoSignal \in Signal /\ NoExpiry \in Expiry
    BY DEF NoSignal, Signal, Expiry, NoExpiry
  <1>2. latest \in [Jobs -> Row \cup {NoRow}] /\ result \in [Jobs -> Signal]
    BY <1>1
  <1>3. carry \in [Workers -> Expiry] /\ cleaning \in [Jobs -> Expiry \cup {NoScan}]
    BY <1>1
  <1>4. poison \in [Workers -> BOOLEAN] /\ suspended \in BOOLEAN
    OBVIOUS
  <1>5. /\ clock \in 1 .. MaxClock /\ faults \in 0 .. MaxFaults
        /\ delivered \in [Slots -> 0 .. MaxDeliveries + 1] /\ refunds \in [Jobs -> 0 .. 2]
    OBVIOUS
  <1>6. /\ log \in [Jobs -> SUBSET Row] /\ blobs \in [Jobs -> SUBSET {"input", "artefact"}]
        /\ pc \in [Workers -> Phases] /\ task \in [Workers -> Slots \cup {NoSlot}]
        /\ outcome \in [Workers -> {"none", "ok", "error"}]
    BY DEF Phases
  <1>7. HandlersHoldEntries
    BY DEF HandlersHoldEntries
  <1> QED BY <1>2, <1>3, <1>4, <1>5, <1>6, <1>7 DEF TypeInv, TypeOK

\* Every step of the gateway's accept handler keeps the types.
LEMMA TypeAccept ==
    ASSUME TypeInv, NEW j \in Jobs, Accept(j) \/ AcceptDies(j)
    PROVE  TypeInv'
  <1> USE Bounds, SlotJob DEF TypeInv, TypeOK, HandlersHoldEntries
  <1>1. CASE AcceptCharge(j)
    BY <1>1 DEF AcceptCharge, tableVars, queueVars, handlerVars
  <1>2. CASE AcceptPutInput(j)
    BY <1>2 DEF AcceptPutInput, tableVars, queueVars, handlerVars
  <1>3. CASE AcceptCreateRow(j)
    BY <1>3 DEF AcceptCreateRow, AppendRow, Row, Status, Expiry, NoExpiry, queueVars, handlerVars
  <1>4. CASE AcceptEnqueue(j)
    BY <1>4 DEF AcceptEnqueue, Enqueue, tableVars, handlerVars
  <1>5. CASE AcceptDies(j)
    BY <1>5 DEF AcceptDies, Fault, tableVars, queueVars, handlerVars
  <1> QED BY <1>1, <1>2, <1>3, <1>4, <1>5 DEF Accept

\* Taking an entry from the stream keeps the types.
LEMMA TypeDequeue ==
    ASSUME TypeInv, NEW w \in Workers, NEW s \in Slots, DequeueFresh(w, s) \/ Reclaim(w, s)
    PROVE  TypeInv'
  <1> USE Bounds, SlotJob DEF TypeInv, TypeOK, HandlersHoldEntries, Begin, Phases
  <1>1. CASE DequeueFresh(w, s)
    BY <1>1 DEF DequeueFresh, tableVars
  <1>2. CASE Reclaim(w, s)
    BY <1>2 DEF Reclaim, Fault, MinOf, tableVars
  <1> QED BY <1>1, <1>2

\* Releasing a handler keeps the types of what it holds.
LEMMA TypeRelease ==
    ASSUME TypeInv, NEW w \in Workers, Release(w)
    PROVE  /\ pc' \in [Workers -> Phases] /\ task' \in [Workers -> Slots \cup {NoSlot}]
           /\ poison' \in [Workers -> BOOLEAN]
           /\ outcome' \in [Workers -> {"none", "ok", "error"}]
           /\ carry' \in [Workers -> Expiry]
           /\ HandlersHoldEntries'
  BY Bounds DEF TypeInv, TypeOK, HandlersHoldEntries, Release, Phases, Expiry, NoExpiry

\* Every step of a handler, its death included, keeps the types.
LEMMA TypeHandle ==
    ASSUME TypeInv, NEW w \in Workers, Handle(w) \/ HandlerDies(w)
    PROVE  TypeInv'
  <1>0. pc[w] # "idle" => task[w] \in Slots /\ JobAt(w) \in Jobs
    BY SlotJob DEF TypeInv, TypeOK, HandlersHoldEntries, JobAt
  <1> USE Bounds, <1>0 DEF TypeInv, TypeOK, HandlersHoldEntries, Phases
  <1>1. CASE CheckStatus(w)
    BY <1>1 DEF CheckStatus, Goto, tableVars, queueVars
  <1>2. CASE ResolveUser(w)
    BY <1>2 DEF ResolveUser, Goto, tableVars, queueVars
  <1>3. CASE FetchInput(w)
    BY <1>3 DEF FetchInput, Fault, Goto, tableVars, queueVars
  <1>4. CASE Convert(w)
    BY <1>4 DEF Convert, Goto, tableVars, queueVars
  <1>5. CASE MarkOk(w)
    BY <1>5 DEF MarkOk, AppendRow, Row, Status, Expiry, Goto, queueVars
  <1>6. CASE Report(w)
    BY <1>6 DEF Report, Goto, tableVars, queueVars
  <1>7. CASE MarkError(w)
    BY <1>7 DEF MarkError, AppendRow, Row, NoExpiry, Status, Expiry, Goto, queueVars
  <1>8. CASE StoreResult(w)
    BY <1>8 DEF StoreResult, Publish, Signal, Expiry, Goto, tableVars, queueVars
  <1>9. CASE AckEntry(w)
    <2> USE <1>9 DEF AckEntry, Acknowledge, tableVars
    <2>1. CASE outcome[w] = "error"
      BY <2>1 DEF Goto
    <2>2. CASE outcome[w] # "error"
      BY <2>2, TypeRelease
    <2> QED BY <2>1, <2>2
  <1>10. CASE Refund(w)
    BY <1>10 DEF Refund, MinOf, Release, NoExpiry, Expiry, tableVars, queueVars
  <1>11. CASE DeadLetterStore(w)
    BY <1>11 DEF DeadLetterStore, Publish, Signal, Expiry, Goto, tableVars, queueVars
  <1>12. CASE DeadLetterAck(w)
    <2> USE <1>12 DEF DeadLetterAck, Acknowledge, tableVars, Expiry, NoExpiry
    <2>1. CASE latest[JobAt(w)].status \in {"ok", "deleted"}
      BY <2>1, TypeRelease
    <2>2. CASE latest[JobAt(w)].status \notin {"ok", "deleted"}
      BY <2>2 DEF Goto, Row, NoRow
    <2> QED BY <2>1, <2>2
  <1>13. CASE DeadLetterMark(w)
    BY <1>13 DEF DeadLetterMark, AppendRow, Release, Row, Status, NoExpiry, Expiry, queueVars
  <1>14. CASE HandlerDies(w)
    BY <1>14 DEF HandlerDies, Fault, Release, NoExpiry, Expiry, tableVars, queueVars
  <1>15. CASE Fail(w)
    BY <1>15 DEF Fail, Row, NoRow, NoExpiry, Expiry, Fault, Goto, tableVars, queueVars
  <1> QED BY <1>1, <1>2, <1>3, <1>4, <1>5, <1>6, <1>7, <1>8, <1>9, <1>10, <1>11, <1>12,
             <1>13, <1>14, <1>15 DEF Handle

\* Deleting, cleaning and sweeping keep the types.
LEMMA TypeUpkeep ==
    ASSUME TypeInv, NEW j \in Jobs,
           \/ DeletePurge(j) \/ DeleteMark(j) \/ DeleteDies(j)
           \/ Clean(j) \/ CleanDies(j) \/ Sweep(j)
    PROVE  TypeInv'
  <1> USE Bounds DEF TypeInv, TypeOK, HandlersHoldEntries, handlerVars
  <1>1. CASE DeletePurge(j)
    BY <1>1 DEF DeletePurge, tableVars, queueVars
  <1>2. CASE DeleteMark(j)
    BY <1>2 DEF DeleteMark, AppendRow, Row, NoRow, NoExpiry, Status, Expiry, Expired, queueVars
  <1>3. CASE DeleteDies(j)
    BY <1>3 DEF DeleteDies, Fault, tableVars, queueVars
  <1>4. CASE CleanExpired(j)
    BY <1>4 DEF CleanExpired, Scan, Row, tableVars, queueVars
  <1>5. CASE CleanMark(j)
    BY <1>5 DEF CleanMark, AppendRow, Row, Status, queueVars
  <1>6. CASE CleanDies(j)
    BY <1>6 DEF CleanDies, Fault, tableVars, queueVars
  <1>7. CASE CleanDeleted(j)
    BY <1>7 DEF CleanDeleted, tableVars, queueVars
  <1>8. CASE Sweep(j)
    BY <1>8 DEF Sweep, Enqueue, tableVars
  <1> QED BY <1>1, <1>2, <1>3, <1>4, <1>5, <1>6, <1>7, <1>8 DEF Clean

\* The environment keeps the types.
LEMMA TypeEnvironment ==
    ASSUME TypeInv, Tick \/ LoseRedis \/ Suspend \/ Reinstate
    PROVE  TypeInv'
  <1> USE Bounds DEF TypeInv, TypeOK, HandlersHoldEntries, handlerVars
  <1>0. NoSignal \in Signal
    BY DEF NoSignal, NoExpiry, Signal, Expiry
  <1>1. CASE Tick
    BY <1>0, <1>1 DEF Tick, tableVars, queueVars
  <1>2. CASE LoseRedis
    BY <1>0, <1>2 DEF LoseRedis, Fault, tableVars
  <1>3. CASE Suspend
    BY <1>3 DEF Suspend, Fault, tableVars, queueVars
  <1>4. CASE Reinstate
    BY <1>4 DEF Reinstate, tableVars, queueVars
  <1> QED BY <1>1, <1>2, <1>3, <1>4

\* Every step keeps the types.
LEMMA TypeStep == TypeInv /\ [Next]_vars => TypeInv'
  <1> SUFFICES ASSUME TypeInv, [Next]_vars PROVE TypeInv'
    OBVIOUS
  <1>1. CASE Next
    BY <1>1, TypeAccept, TypeDequeue, TypeHandle, TypeUpkeep, TypeEnvironment DEF Next
  <1>2. CASE UNCHANGED vars
    BY <1>2 DEF vars, tableVars, queueVars, handlerVars, TypeInv, TypeOK, HandlersHoldEntries,
                Signal, Expiry
  <1> QED BY <1>1, <1>2

\* Type correctness: every variable of the pipeline keeps its type.
THEOREM TypeCorrect == Spec => []TypeOK
  <1>1. TypeInv => TypeOK
    BY DEF TypeInv
  <1> QED BY <1>1, TypeInit, TypeStep, PTL DEF Spec

-----------------------------------------------------------------------------
(* A row, once written, is there for every later scan.                     *)

\* The job table is append-only: no step of any process removes a row.
LEMMA LogGrows ==
    ASSUME TypeInv, [Next]_vars, NEW j \in Jobs
    PROVE  log[j] \subseteq log'[j]
  <1>0. log \in [Jobs -> SUBSET Row]
    BY DEF TypeInv, TypeOK
  <1>1. ASSUME NEW i \in Jobs, NEW row, AppendRow(i, row)
        PROVE  log[j] \subseteq log'[j]
    BY <1>0, <1>1 DEF AppendRow
  <1>2. CASE log' = log
    BY <1>2
  <1>3. ASSUME NEW i \in Jobs, Accept(i) \/ AcceptDies(i)
        PROVE  log[j] \subseteq log'[j]
    BY <1>1, <1>2, <1>3 DEF Accept, AcceptCharge, AcceptPutInput, AcceptCreateRow, AcceptEnqueue,
                            AcceptDies, tableVars
  <1>4. ASSUME NEW i \in Jobs, \/ DeletePurge(i) \/ DeleteMark(i) \/ DeleteDies(i)
                               \/ Clean(i) \/ CleanDies(i) \/ Sweep(i)
        PROVE  log[j] \subseteq log'[j]
    BY <1>1, <1>2, <1>4 DEF DeletePurge, DeleteMark, DeleteDies, Clean, CleanExpired, CleanMark,
                            CleanDeleted, CleanDies, Sweep, tableVars
  <1>5. ASSUME NEW w \in Workers, Handle(w) \/ HandlerDies(w)
        PROVE  log[j] \subseteq log'[j]
    <2>1. pc[w] # "idle" => JobAt(w) \in Jobs
      BY SlotJob, Bounds DEF TypeInv, TypeOK, HandlersHoldEntries, JobAt
    <2>2. CASE MarkOk(w) \/ MarkError(w) \/ DeadLetterMark(w)
      BY <2>1, <2>2, <1>1 DEF MarkOk, MarkError, DeadLetterMark
    <2>3. CASE ~(MarkOk(w) \/ MarkError(w) \/ DeadLetterMark(w))
      BY <2>3, <1>2, <1>5 DEF Handle, CheckStatus, ResolveUser, FetchInput, Convert, Report, Fail,
            StoreResult, AckEntry, Refund, DeadLetterStore, DeadLetterAck, HandlerDies, tableVars
    <2> QED BY <2>2, <2>3
  <1>6. ASSUME NEW w \in Workers, NEW s \in Slots, DequeueFresh(w, s) \/ Reclaim(w, s)
        PROVE  log[j] \subseteq log'[j]
    BY <1>2, <1>6 DEF DequeueFresh, Reclaim, tableVars
  <1>7. CASE Tick \/ LoseRedis \/ Suspend \/ Reinstate
    BY <1>2, <1>7 DEF Tick, LoseRedis, Suspend, Reinstate, tableVars
  <1>8. CASE UNCHANGED vars
    BY <1>2, <1>8 DEF vars, tableVars
  <1> QED BY <1>3, <1>4, <1>5, <1>6, <1>7, <1>8 DEF Next

-----------------------------------------------------------------------------
(* "ok" is only ever said of a job that the table knows to be OK.          *)

HasOkRow(j) == \E r \in log[j] : r.status = "ok"

OkInv ==
    /\ \A j \in Jobs : result[j].sig = "ok" => HasOkRow(j)
    /\ \A w \in Workers : /\ pc[w] = "report" => HasOkRow(JobAt(w))
                          /\ outcome[w] = "ok" => pc[w] \in {"store", "ack"} /\ HasOkRow(JobAt(w))

\* The steps of one handler keep OkInv.
LEMMA OkHandle ==
    ASSUME TypeInv, OkInv, NEW w \in Workers, Handle(w) \/ HandlerDies(w),
           \A j \in Jobs : HasOkRow(j) => HasOkRow(j)'
    PROVE  OkInv'
  <1>0. \A v \in Workers : pc[v] # "idle" => JobAt(v) \in Jobs
    BY SlotJob, Bounds DEF TypeInv, TypeOK, HandlersHoldEntries, JobAt
  <1>1. /\ pc \in [Workers -> Phases] /\ outcome \in [Workers -> {"none", "ok", "error"}]
        /\ task \in [Workers -> Slots \cup {NoSlot}] /\ result \in [Jobs -> Signal]
        /\ log \in [Jobs -> SUBSET Row]
    BY DEF TypeInv, TypeOK
  <1>2. \A v \in Workers : outcome[v] = "ok" \/ pc[v] = "report" => pc[v] # "idle"
    BY DEF OkInv
  <1>3. CASE MarkOk(w)
    <2>0. JobAt(w) \in Jobs /\ JobAt(w)' = JobAt(w)
      BY <1>0, <1>3 DEF MarkOk, JobAt
    <2>1. [status |-> "ok", exp |-> clock + 1] \in log'[JobAt(w)]
      BY <2>0, <1>1, <1>3 DEF MarkOk, AppendRow
    <2>2. HasOkRow(JobAt(w))'
      BY <2>0, <2>1 DEF HasOkRow
    <2> QED BY <2>0, <2>2, <1>0, <1>1, <1>2, <1>3 DEF OkInv, MarkOk, Goto, JobAt
  <1>4. CASE StoreResult(w) \/ DeadLetterStore(w)
    BY <1>0, <1>1, <1>2, <1>4 DEF OkInv, StoreResult, DeadLetterStore, Publish, Goto, JobAt
  <1>5. CASE Refund(w) \/ HandlerDies(w) \/ DeadLetterMark(w)
    BY <1>0, <1>1, <1>2, <1>5 DEF OkInv, Refund, HandlerDies, DeadLetterMark, Release, JobAt
  <1>6. CASE AckEntry(w) \/ DeadLetterAck(w)
    BY <1>0, <1>1, <1>2, <1>6 DEF OkInv, AckEntry, DeadLetterAck, Release, Goto, JobAt
  <1>7. CASE CheckStatus(w) \/ ResolveUser(w) \/ Convert(w)
    BY <1>0, <1>1, <1>2, <1>7 DEF OkInv, CheckStatus, ResolveUser, Convert, Goto, JobAt
  <1>8. CASE FetchInput(w) \/ Report(w) \/ Fail(w) \/ MarkError(w)
    BY <1>0, <1>1, <1>2, <1>8 DEF OkInv, FetchInput, Report, Fail, MarkError, Goto, JobAt
  <1> QED BY <1>3, <1>4, <1>5, <1>6, <1>7, <1>8 DEF Handle

\* Every step keeps OkInv.
LEMMA OkStep == TypeInv /\ OkInv /\ [Next]_vars => OkInv'
  <1> SUFFICES ASSUME TypeInv, OkInv, [Next]_vars PROVE OkInv'
    OBVIOUS
  <1>0. \A j \in Jobs : HasOkRow(j) => HasOkRow(j)'
    BY LogGrows DEF HasOkRow
  <1>1. \A v \in Workers : outcome[v] = "ok" \/ pc[v] = "report" => JobAt(v) \in Jobs
    BY SlotJob, Bounds DEF TypeInv, TypeOK, HandlersHoldEntries, JobAt, OkInv
  <1>2. CASE UNCHANGED handlerVars /\ UNCHANGED result
    BY <1>0, <1>1, <1>2 DEF OkInv, handlerVars, JobAt
  <1>3. ASSUME NEW w \in Workers, NEW s \in Slots, DequeueFresh(w, s) \/ Reclaim(w, s)
        PROVE  OkInv'
    BY <1>0, <1>1, <1>3 DEF OkInv, DequeueFresh, Reclaim, Begin, JobAt, TypeInv, TypeOK
  <1>4. ASSUME NEW w \in Workers, Handle(w) \/ HandlerDies(w)
        PROVE  OkInv'
    BY <1>0, <1>4, OkHandle
  <1>5. CASE Tick \/ LoseRedis
    BY <1>0, <1>1, <1>5 DEF OkInv, Tick, LoseRedis, NoSignal, handlerVars, JobAt
  <1>6. ASSUME NEW j \in Jobs, \/ Accept(j) \/ AcceptDies(j) \/ DeletePurge(j) \/ DeleteMark(j)
                               \/ DeleteDies(j) \/ Clean(j) \/ CleanDies(j) \/ Sweep(j)
        PROVE  UNCHANGED handlerVars /\ UNCHANGED result
    BY <1>6 DEF Accept, AcceptCharge, AcceptPutInput, AcceptCreateRow, AcceptEnqueue, AcceptDies,
                DeletePurge, DeleteMark, DeleteDies, Clean, CleanExpired, CleanMark, CleanDeleted,
                CleanDies, Sweep
  <1>7. Suspend \/ Reinstate \/ UNCHANGED vars => UNCHANGED handlerVars /\ UNCHANGED result
    BY DEF Suspend, Reinstate, vars, handlerVars
  <1> QED BY <1>2, <1>3, <1>4, <1>5, <1>6, <1>7 DEF Next

\* A job whose signal says "ok" has an OK row, under every fault, duplicate
\* delivery and DELETE: the row is written before the result is stored, and
\* rows are never removed.
THEOREM OkSignalBacked == Spec => []OkSignalIsBacked
  <1>1. Init => OkInv
    BY DEF Init, OkInv, NoSignal
  <1>2. TypeInv /\ OkInv => OkSignalIsBacked
    BY DEF OkInv, HasOkRow, OkSignalIsBacked, Scan
  <1> QED BY <1>1, <1>2, TypeInit, TypeStep, OkStep, PTL DEF Spec

-----------------------------------------------------------------------------
(* The input of an unfinished job stays.                                   *)

\* Only a job with a row has a history, a DELETE or a cleaner at work on it;
\* while it is PROCESSING its history holds nothing the cleaner's scans match.
KeepJob(j) ==
    /\ accept[j] \in {"idle", "charged", "stored"} => latest[j] = NoRow
    /\ accept[j] \in {"created", "accepted"} => latest[j] # NoRow
    /\ accept[j] = "stored" => "input" \in blobs[j]
    /\ latest[j] = NoRow => log[j] = {} /\ deleting[j] = "no" /\ cleaning[j] = NoScan
    /\ latest[j].status = "processing" =>
          /\ \A r \in log[j] : r.status = "processing" /\ r.exp = NoExpiry
          /\ deleting[j] = "no" => "input" \in blobs[j]

\* Nor has a job without a row a stream entry or a handler.
KeepInv ==
    /\ \A j \in Jobs : KeepJob(j)
    /\ \A s \in Slots : entry[s] # "free" => latest[JobOf(s)] # NoRow
    /\ \A w \in Workers : pc[w] # "idle" => latest[JobAt(w)] # NoRow

\* The steps of a handler only take a job out of PROCESSING.
LEMMA KeepHandle ==
    ASSUME TypeInv, KeepInv, NEW w \in Workers, Handle(w) \/ HandlerDies(w)
    PROVE  KeepInv'
  <1>0. /\ latest \in [Jobs -> Row \cup {NoRow}] /\ log \in [Jobs -> SUBSET Row]
        /\ blobs \in [Jobs -> SUBSET {"input", "artefact"}]
        /\ entry \in [Slots -> {"free", "new", "pending"}]
        /\ pc \in [Workers -> Phases] /\ task \in [Workers -> Slots \cup {NoSlot}]
    BY DEF TypeInv, TypeOK
  <1>1. \A v \in Workers : pc[v] # "idle" => JobAt(v) \in Jobs
    BY SlotJob, Bounds DEF TypeInv, TypeOK, HandlersHoldEntries, JobAt
  <1>2. pc[w] # "idle" /\ UNCHANGED <<accept, deleting, cleaning>>
    BY DEF Handle, CheckStatus, ResolveUser, FetchInput, Convert, MarkOk, Report, Fail, MarkError,
           StoreResult, AckEntry, Refund, DeadLetterStore, DeadLetterAck, DeadLetterMark, HandlerDies
  <1>3. \A v \in Workers : pc'[v] # "idle" => pc[v] # "idle" /\ task'[v] = task[v]
    BY <1>0, <1>2 DEF Handle, CheckStatus, ResolveUser, FetchInput, Convert, MarkOk, Report, Fail, MarkError,
           StoreResult, AckEntry, Refund, DeadLetterStore, DeadLetterAck, DeadLetterMark, HandlerDies,
           Goto, Release
  <1>4. \A s \in Slots : entry'[s] # "free" => entry[s] # "free"
    BY <1>0 DEF Handle, CheckStatus, ResolveUser, FetchInput, Convert, MarkOk, Report, Fail, MarkError,
           StoreResult, AckEntry, Refund, DeadLetterStore, DeadLetterAck, DeadLetterMark, HandlerDies,
           Acknowledge, queueVars
  <1>5. \A j \in Jobs : KeepJob(j)' /\ (latest[j] # NoRow => latest'[j] # NoRow)
    <2>1. CASE UNCHANGED <<tableVars, blobs>>
      BY <1>2, <2>1 DEF KeepInv, KeepJob, tableVars
    <2>2. CASE Convert(w)
      BY <1>0, <1>1, <1>2, <2>2 DEF KeepInv, KeepJob, Convert, tableVars
    <2>3. CASE MarkOk(w) \/ MarkError(w) \/ DeadLetterMark(w)
      BY <1>0, <1>1, <1>2, <2>3 DEF KeepInv, KeepJob, MarkOk, MarkError, DeadLetterMark, AppendRow, NoRow
    <2> QED BY <2>1, <2>2, <2>3 DEF Handle, CheckStatus, ResolveUser, FetchInput, Report, Fail,
               StoreResult, AckEntry, Refund, DeadLetterStore, DeadLetterAck, HandlerDies
  <1>6. \A v \in Workers : pc'[v] # "idle" => latest'[JobAt(v)'] # NoRow
    BY <1>1, <1>3, <1>5 DEF KeepInv, JobAt
  <1> QED BY <1>4, <1>5, <1>6, SlotJob DEF KeepInv

\* Deleting and cleaning only ever take the files of a job that is past
\* PROCESSING or that its owner asked to delete; a sweep only repeats a job.
LEMMA KeepUpkeep ==
    ASSUME TypeInv, KeepInv, NEW i \in Jobs,
           \/ DeletePurge(i) \/ DeleteMark(i) \/ DeleteDies(i)
           \/ Clean(i) \/ CleanDies(i) \/ Sweep(i)
    PROVE  KeepInv'
  <1>0. /\ latest \in [Jobs -> Row \cup {NoRow}] /\ log \in [Jobs -> SUBSET Row]
        /\ blobs \in [Jobs -> SUBSET {"input", "artefact"}]
        /\ entry \in [Slots -> {"free", "new", "pending"}]
        /\ deleting \in [Jobs -> {"no", "purged", "broken", "done"}]
        /\ cleaning \in [Jobs -> Expiry \cup {NoScan}]
    BY DEF TypeInv, TypeOK
  <1>1. UNCHANGED <<accept, handlerVars>>
    BY DEF DeletePurge, DeleteMark, DeleteDies, Clean, CleanExpired, CleanMark, CleanDeleted,
           CleanDies, Sweep
  <1>2. \A j \in Jobs : KeepJob(j)' /\ (latest[j] # NoRow => latest'[j] # NoRow)
    <2>1. CASE DeletePurge(i) \/ DeleteDies(i)
      BY <1>0, <1>1, <2>1 DEF KeepInv, KeepJob, DeletePurge, DeleteDies, tableVars
    <2>2. CASE DeleteMark(i)
      BY <1>0, <1>1, <2>2 DEF KeepInv, KeepJob, DeleteMark, AppendRow, NoRow
    <2>3. CASE CleanExpired(i)
      BY <1>0, <1>1, <2>3 DEF KeepInv, KeepJob, CleanExpired, Scan, Expired, tableVars
    <2>4. CASE CleanMark(i)
      BY <1>0, <1>1, <2>4 DEF KeepInv, KeepJob, CleanMark, AppendRow, NoRow
    <2>5. CASE CleanDies(i) \/ Sweep(i)
      BY <1>0, <1>1, <2>5 DEF KeepInv, KeepJob, CleanDies, Sweep, tableVars
    <2>6. CASE CleanDeleted(i)
      BY <1>0, <1>1, <2>6 DEF KeepInv, KeepJob, CleanDeleted, Scan, tableVars
    <2> QED BY <2>1, <2>2, <2>3, <2>4, <2>5, <2>6 DEF Clean
  <1>3. \A s \in Slots : entry'[s] # "free" => entry[s] # "free" \/ latest[JobOf(s)] # NoRow
    <2>1. CASE Sweep(i)
      BY <1>0, <2>1 DEF KeepInv, KeepJob, Sweep, Enqueue, Scan
    <2>2. CASE UNCHANGED entry
      BY <2>2
    <2> QED BY <2>1, <2>2 DEF DeletePurge, DeleteMark, DeleteDies, Clean, CleanExpired, CleanMark,
               CleanDeleted, CleanDies, queueVars
  <1>4. \A v \in Workers : pc'[v] # "idle" => pc[v] # "idle" /\ JobAt(v)' = JobAt(v) /\ JobAt(v) \in Jobs
    BY <1>1, SlotJob, Bounds DEF TypeInv, TypeOK, HandlersHoldEntries, JobAt, handlerVars
  <1> QED BY <1>2, <1>3, <1>4, SlotJob DEF KeepInv

\* Accepting a job builds its history up in the order of the code.
LEMMA KeepAccept ==
    ASSUME TypeInv, KeepInv, NEW i \in Jobs, Accept(i) \/ AcceptDies(i)
    PROVE  KeepInv'
  <1>0. /\ latest \in [Jobs -> Row \cup {NoRow}] /\ log \in [Jobs -> SUBSET Row]
        /\ blobs \in [Jobs -> SUBSET {"input", "artefact"}]
        /\ entry \in [Slots -> {"free", "new", "pending"}]
        /\ accept \in [Jobs -> {"idle", "charged", "stored", "created", "accepted", "failed"}]
    BY DEF TypeInv, TypeOK
  <1>1. UNCHANGED <<deleting, cleaning, handlerVars>>
    BY DEF Accept, AcceptCharge, AcceptPutInput, AcceptCreateRow, AcceptEnqueue, AcceptDies
  <1>2. \A j \in Jobs : KeepJob(j)' /\ (latest[j] # NoRow => latest'[j] # NoRow)
    <2>1. CASE AcceptCharge(i) \/ AcceptEnqueue(i) \/ AcceptDies(i)
      BY <1>0, <1>1, <2>1 DEF KeepInv, KeepJob, AcceptCharge, AcceptEnqueue, AcceptDies, tableVars
    <2>2. CASE AcceptPutInput(i)
      BY <1>0, <1>1, <2>2 DEF KeepInv, KeepJob, AcceptPutInput, tableVars
    <2>3. CASE AcceptCreateRow(i)
      BY <1>0, <1>1, <2>3 DEF KeepInv, KeepJob, AcceptCreateRow, AppendRow, NoRow
    <2> QED BY <2>1, <2>2, <2>3 DEF Accept
  <1>3. \A s \in Slots : entry'[s] # "free" => entry[s] # "free" \/ latest[JobOf(s)] # NoRow
    <2>1. CASE AcceptEnqueue(i)
      BY <1>0, <2>1 DEF KeepInv, KeepJob, AcceptEnqueue, Enqueue
    <2>2. CASE UNCHANGED entry
      BY <2>2
    <2> QED BY <2>1, <2>2 DEF Accept, AcceptCharge, AcceptPutInput, AcceptCreateRow, AcceptDies,
               queueVars
  <1>4. \A v \in Workers : pc'[v] # "idle" => pc[v] # "idle" /\ JobAt(v)' = JobAt(v) /\ JobAt(v) \in Jobs
    BY <1>1, SlotJob, Bounds DEF TypeInv, TypeOK, HandlersHoldEntries, JobAt, handlerVars
  <1> QED BY <1>2, <1>3, <1>4, SlotJob DEF KeepInv

\* Every step keeps KeepInv.
LEMMA KeepStep == TypeInv /\ KeepInv /\ [Next]_vars => KeepInv'
  <1> SUFFICES ASSUME TypeInv, KeepInv, [Next]_vars PROVE KeepInv'
    OBVIOUS
  <1>1. ASSUME NEW w \in Workers, NEW s \in Slots, DequeueFresh(w, s) \/ Reclaim(w, s)
        PROVE  KeepInv'
    BY <1>1, SlotJob DEF DequeueFresh, Reclaim, Begin, KeepInv, KeepJob, JobAt, TypeInv, TypeOK,
                tableVars
  <1>2. CASE Tick \/ LoseRedis \/ Suspend \/ Reinstate
    BY <1>2 DEF Tick, LoseRedis, Suspend, Reinstate, KeepInv, KeepJob, JobAt, tableVars, queueVars,
                handlerVars
  <1>3. CASE UNCHANGED vars
    BY <1>3 DEF vars, KeepInv, KeepJob, JobAt, tableVars, queueVars, handlerVars
  <1> QED BY <1>1, <1>2, <1>3, KeepAccept, KeepHandle, KeepUpkeep DEF Next

\* The input of a job that is still PROCESSING is there to be read unless its
\* owner asked for DELETE: neither pass of the cleaner can match such a job.
THEOREM InputKept == Spec => []UnfinishedInputKept
  <1>1. Init => KeepInv
    BY Bounds DEF Init, KeepInv, KeepJob, NoRow
  <1>2. KeepInv => UnfinishedInputKept
    BY DEF KeepInv, KeepJob, UnfinishedInputKept
  <1> QED BY <1>1, <1>2, TypeInit, TypeStep, KeepStep, PTL DEF Spec

-----------------------------------------------------------------------------
(* Handlers at work.                                                       *)

Busy(s) == entry[s] # "free" \/ Handled(s)

\* A handler at work holds a slot, and its job is one of the jobs.
LEMMA AtWork ==
    ASSUME TypeInv, NEW w \in Workers, pc[w] # "idle"
    PROVE  task[w] \in Slots /\ task[w] # NoSlot /\ JobAt(w) \in Jobs /\ Busy(task[w])
  BY SlotJob, Bounds DEF TypeInv, TypeOK, HandlersHoldEntries, JobAt, Busy, Handled

\* A handler's step never makes a slot busy, never moves another handler and
\* keeps its own slot until it is idle.
LEMMA HandleFrame ==
    ASSUME TypeInv, NEW w \in Workers, Handle(w) \/ HandlerDies(w)
    PROVE  /\ pc[w] # "idle"
           /\ UNCHANGED accept
           /\ \A s \in Slots : entry'[s] \in {entry[s], "free"}
           /\ \A v \in Workers : v # w => pc'[v] = pc[v] /\ task'[v] = task[v] /\ outcome'[v] = outcome[v]
           /\ task'[w] \in {task[w], NoSlot}
           /\ pc'[w] # "idle" => task'[w] = task[w]
           /\ \A j \in Jobs : j # JobAt(w) => latest'[j] = latest[j]
           /\ ~Refund(w) => UNCHANGED refunds
  <1>0. /\ pc \in [Workers -> Phases] /\ task \in [Workers -> Slots \cup {NoSlot}]
        /\ outcome \in [Workers -> {"none", "ok", "error"}]
        /\ entry \in [Slots -> {"free", "new", "pending"}]
        /\ latest \in [Jobs -> Row \cup {NoRow}]
    BY DEF TypeInv, TypeOK
  <1>1. CASE CheckStatus(w) \/ ResolveUser(w) \/ FetchInput(w) \/ Convert(w) \/ Fail(w)
    BY <1>0, <1>1 DEF CheckStatus, ResolveUser, FetchInput, Convert, Fail, Goto, tableVars, queueVars
  <1>2. CASE MarkOk(w) \/ MarkError(w)
    BY <1>0, <1>2 DEF MarkOk, MarkError, Goto, AppendRow, queueVars
  <1>3. CASE Report(w) \/ StoreResult(w) \/ DeadLetterStore(w)
    BY <1>0, <1>3 DEF Report, StoreResult, DeadLetterStore, Goto, tableVars, queueVars
  <1>4. CASE AckEntry(w) \/ DeadLetterAck(w)
    BY <1>0, <1>4 DEF AckEntry, DeadLetterAck, Acknowledge, Goto, Release, tableVars
  <1>5. CASE Refund(w) \/ HandlerDies(w)
    BY <1>0, <1>5 DEF Refund, HandlerDies, Release, tableVars, queueVars
  <1>6. CASE DeadLetterMark(w)
    BY <1>0, <1>6 DEF DeadLetterMark, Release, AppendRow, queueVars
  <1> QED BY <1>1, <1>2, <1>3, <1>4, <1>5, <1>6 DEF Handle

-----------------------------------------------------------------------------
(* What polling answers 200 for can be downloaded.                         *)

\* A row of the job has this expiry.
OkUntil(j, exp) == \E r \in log[j] : r.status = "ok" /\ r.exp = exp

\* All rows of the job that have an expiry have the same.
SameExpiry(j) == \A r, q \in log[j] : r.exp # NoExpiry /\ q.exp # NoExpiry => r.exp = q.exp

\* No row of the job has expired.
NothingExpired(j) == \A r \in log[j] : ~Expired(r.exp)

\* A signal lives as long as the row it was published for.
SignalsOfRows ==
    /\ \A j \in Jobs : result[j].sig = "ok" => OkUntil(j, result[j].exp) /\ clock < result[j].exp
    /\ \A w \in Workers :
          /\ outcome[w] = "ok" => pc[w] \in {"store", "ack"}
          /\ pc[w] = "report" \/ outcome[w] = "ok" => OkUntil(JobAt(w), clock + 1)

\* Only rows that have expired are marked as deleted, unless on request.
DeletedExpired ==
    \A j \in Jobs :
        /\ cleaning[j] # NoScan => Expired(cleaning[j])
        /\ deleting[j] = "no" => \A r \in log[j] : r.status = "deleted" => Expired(r.exp)

\* The files of a finished conversion stay until a row of the job expires.
ArtefactsKept ==
    /\ \A j \in Jobs : \A r \in log[j] :
          /\ deleting[j] = "no" /\ SameExpiry(j)
          /\ r.status = "ok" /\ clock < r.exp
          => "artefact" \in blobs[j]
    /\ \A w \in Workers :
          pc[w] = "finish" /\ deleting[JobAt(w)] = "no" /\ NothingExpired(JobAt(w))
             => "artefact" \in blobs[JobAt(w)]

ServedInv == SignalsOfRows /\ DeletedExpired /\ ArtefactsKept

\* What a step adds to the history of a job.
LEMMA RowsAdded ==
    ASSUME TypeInv, [Next]_vars, NEW j \in Jobs, NEW r \in log'[j], r \notin log[j]
    PROVE  \/ r.status \in {"processing", "error"}
           \/ r.status = "deleted" /\ (deleting'[j] # "no" \/ (cleaning[j] # NoScan /\ r.exp = cleaning[j]))
           \/ r.status = "ok" /\ \E w \in Workers : MarkOk(w) /\ JobAt(w) = j /\ r.exp = clock + 1
  <1>0. /\ log \in [Jobs -> SUBSET Row]
        /\ deleting \in [Jobs -> {"no", "purged", "broken", "done"}]
        /\ log' # log
    BY DEF TypeInv, TypeOK
  <1>1. ASSUME NEW i, NEW row, AppendRow(i, row)
        PROVE  i = j /\ r = row
    BY <1>0, <1>1 DEF AppendRow
  <1>2. ASSUME NEW i \in Jobs, Accept(i) \/ AcceptDies(i)
        PROVE  r.status = "processing"
    <2>1. AcceptCreateRow(i)
      BY <1>0, <1>2 DEF Accept, AcceptCharge, AcceptPutInput, AcceptEnqueue, AcceptDies, tableVars
    <2> QED BY <1>1, <2>1 DEF AcceptCreateRow
  <1>3. ASSUME NEW i \in Jobs, DeletePurge(i) \/ DeleteMark(i) \/ DeleteDies(i)
        PROVE  r.status = "deleted" /\ deleting'[j] # "no"
    <2>1. DeleteMark(i)
      BY <1>0, <1>3 DEF DeletePurge, DeleteDies, tableVars
    <2> QED BY <1>0, <1>1, <2>1 DEF DeleteMark
  <1>4. ASSUME NEW i \in Jobs, Clean(i) \/ CleanDies(i) \/ Sweep(i)
        PROVE  r.status = "deleted" /\ cleaning[j] # NoScan /\ r.exp = cleaning[j]
    <2>1. CleanMark(i)
      BY <1>0, <1>4 DEF Clean, CleanExpired, CleanDeleted, CleanDies, Sweep, tableVars
    <2> QED BY <1>1, <2>1 DEF CleanMark
  <1>5. ASSUME NEW w \in Workers, Handle(w) \/ HandlerDies(w)
        PROVE  \/ r.status = "error"
               \/ r.status = "ok" /\ MarkOk(w) /\ JobAt(w) = j /\ r.exp = clock + 1
    <2>1. MarkOk(w) \/ MarkError(w) \/ DeadLetterMark(w)
      BY <1>0, <1>5 DEF Handle, CheckStatus, ResolveUser, FetchInput, Convert, Report, Fail,
            StoreResult, AckEntry, Refund, DeadLetterStore, DeadLetterAck, HandlerDies, tableVars
    <2>2. CASE MarkOk(w)
      BY <1>1, <2>2 DEF MarkOk
    <2>3. CASE MarkError(w) \/ DeadLetterMark(w)
      BY <1>1, <2>3 DEF MarkError, DeadLetterMark
    <2> QED BY <2>1, <2>2, <2>3
  <1>6. ASSUME NEW w \in Workers, NEW s \in Slots, DequeueFresh(w, s) \/ Reclaim(w, s)
        PROVE  FALSE
    BY <1>0, <1>6 DEF DequeueFresh, Reclaim, tableVars
  <1>7. ~(Tick \/ LoseRedis \/ Suspend \/ Reinstate \/ UNCHANGED vars)
    BY <1>0 DEF Tick, LoseRedis, Suspend, Reinstate, vars, tableVars
  <1> QED BY <1>2, <1>3, <1>4, <1>5, <1>6, <1>7 DEF Next

\* What a step takes away of a job's files.
LEMMA FilesTaken ==
    ASSUME TypeInv, [Next]_vars, NEW j \in Jobs,
           "artefact" \in blobs[j], "artefact" \notin blobs'[j]
    PROVE  \/ deleting'[j] # "no"
           \/ \E r \in log[j] : Expired(r.exp) \/ r.status = "deleted"
  <1>0. /\ blobs \in [Jobs -> SUBSET {"input", "artefact"}]
        /\ deleting \in [Jobs -> {"no", "purged", "broken", "done"}]
        /\ blobs' # blobs
    BY DEF TypeInv, TypeOK
  <1>2. ASSUME NEW i \in Jobs, Accept(i) \/ AcceptDies(i)
        PROVE  FALSE
    BY <1>0, <1>2 DEF Accept, AcceptCharge, AcceptPutInput, AcceptCreateRow, AcceptEnqueue,
                      AcceptDies
  <1>3. ASSUME NEW i \in Jobs, DeletePurge(i) \/ DeleteMark(i) \/ DeleteDies(i)
        PROVE  deleting'[j] # "no"
    BY <1>0, <1>3 DEF DeletePurge, DeleteMark, DeleteDies
  <1>4. ASSUME NEW i \in Jobs, Clean(i) \/ CleanDies(i) \/ Sweep(i)
        PROVE  \E r \in log[j] : Expired(r.exp) \/ r.status = "deleted"
    <2>1. i = j /\ (CleanExpired(i) \/ CleanDeleted(i))
      BY <1>0, <1>4 DEF Clean, CleanExpired, CleanMark, CleanDeleted, CleanDies, Sweep
    <2> QED BY <2>1 DEF CleanExpired, CleanDeleted, Scan
  <1>5. ASSUME NEW w \in Workers, Handle(w) \/ HandlerDies(w)
        PROVE  FALSE
    <2>1. Convert(w)
      BY <1>0, <1>5 DEF Handle, CheckStatus, ResolveUser, FetchInput, MarkOk, Report, Fail, MarkError,
           StoreResult, AckEntry, Refund, DeadLetterStore, DeadLetterAck, DeadLetterMark, HandlerDies
    <2> QED BY <1>0, <2>1 DEF Convert
  <1>6. ASSUME NEW w \in Workers, NEW s \in Slots, DequeueFresh(w, s) \/ Reclaim(w, s)
        PROVE  FALSE
    BY <1>0, <1>6 DEF DequeueFresh, Reclaim
  <1>7. ~(Tick \/ LoseRedis \/ Suspend \/ Reinstate \/ UNCHANGED vars)
    BY <1>0 DEF Tick, LoseRedis, Suspend, Reinstate, vars
  <1> QED BY <1>2, <1>3, <1>4, <1>5, <1>6, <1>7 DEF Next

\* A DELETE is never taken back, time moves on, and the cleaner picks up only
\* what has expired.
LEMMA StepFrame ==
    ASSUME TypeInv, [Next]_vars, NEW j \in Jobs
    PROVE  /\ deleting'[j] = "no" => deleting[j] = "no"
           /\ clock \in Nat /\ clock' \in Nat /\ clock <= clock'
           /\ cleaning'[j] \in {cleaning[j], NoScan} \/ Expired(cleaning'[j])
  <1>0. /\ deleting \in [Jobs -> {"no", "purged", "broken", "done"}]
        /\ cleaning \in [Jobs -> Expiry \cup {NoScan}]
        /\ clock \in Nat
    BY Bounds DEF TypeInv, TypeOK
  <1>1. CASE UNCHANGED <<clock, deleting, cleaning>>
    BY <1>0, <1>1
  <1>2. ASSUME NEW i \in Jobs, Accept(i) \/ AcceptDies(i) \/ Sweep(i)
        PROVE  UNCHANGED <<clock, deleting, cleaning>>
    BY <1>2 DEF Accept, AcceptCharge, AcceptPutInput, AcceptCreateRow, AcceptEnqueue, AcceptDies, Sweep
  <1>3. ASSUME NEW i \in Jobs, DeletePurge(i) \/ DeleteMark(i) \/ DeleteDies(i)
        PROVE  /\ deleting'[j] = "no" => deleting[j] = "no"
               /\ UNCHANGED <<clock, cleaning>>
    BY <1>0, <1>3 DEF DeletePurge, DeleteMark, DeleteDies
  <1>4. ASSUME NEW i \in Jobs, Clean(i) \/ CleanDies(i)
        PROVE  /\ cleaning'[j] \in {cleaning[j], NoScan} \/ Expired(cleaning'[j])
               /\ UNCHANGED <<clock, deleting>>
    BY <1>0, <1>4 DEF Clean, CleanExpired, CleanMark, CleanDeleted, CleanDies
  <1>5. ASSUME NEW w \in Workers, Handle(w) \/ HandlerDies(w)
        PROVE  UNCHANGED <<clock, deleting, cleaning>>
    BY <1>5 DEF Handle, CheckStatus, ResolveUser, FetchInput, Convert, MarkOk, Report, Fail, MarkError,
           StoreResult, AckEntry, Refund, DeadLetterStore, DeadLetterAck, DeadLetterMark, HandlerDies
  <1>6. ASSUME NEW w \in Workers, NEW s \in Slots, DequeueFresh(w, s) \/ Reclaim(w, s)
        PROVE  UNCHANGED <<clock, deleting, cleaning>>
    BY <1>6 DEF DequeueFresh, Reclaim
  <1>7. LoseRedis \/ Suspend \/ Reinstate \/ UNCHANGED vars => UNCHANGED <<clock, deleting, cleaning>>
    BY DEF LoseRedis, Suspend, Reinstate, vars
  <1>8. Tick => clock' = clock + 1 /\ UNCHANGED <<deleting, cleaning>>
    BY DEF Tick
  <1> QED BY <1>0, <1>1, <1>2, <1>3, <1>4, <1>5, <1>6, <1>7, <1>8 DEF Next

\* A row that has expired stays expired.
LEMMA ExpiredStays ==
    ASSUME TypeInv, [Next]_vars, NEW exp, Expired(exp), exp \in Expiry, NEW j \in Jobs
    PROVE  Expired(exp)'
  BY StepFrame, Bounds DEF Expired, Expiry

\* A handler whose conversion is done has been at it.
LEMMA FinishStays ==
    ASSUME TypeInv, [Next]_vars, NEW w \in Workers, pc'[w] = "finish", ~Convert(w)
    PROVE  pc[w] = "finish" /\ JobAt(w)' = JobAt(w)
  <1>0. pc \in [Workers -> Phases] /\ task \in [Workers -> Slots \cup {NoSlot}]
    BY DEF TypeInv, TypeOK
  <1>1. CASE UNCHANGED handlerVars
    BY <1>1 DEF handlerVars, JobAt
  <1>2. ASSUME NEW j \in Jobs, \/ Accept(j) \/ AcceptDies(j) \/ DeletePurge(j) \/ DeleteMark(j)
                               \/ DeleteDies(j) \/ Clean(j) \/ CleanDies(j) \/ Sweep(j)
        PROVE  UNCHANGED handlerVars
    BY <1>2 DEF Accept, AcceptCharge, AcceptPutInput, AcceptCreateRow, AcceptEnqueue, AcceptDies,
                DeletePurge, DeleteMark, DeleteDies, Clean, CleanExpired, CleanMark, CleanDeleted,
                CleanDies, Sweep
  <1>3. Tick \/ LoseRedis \/ Suspend \/ Reinstate \/ UNCHANGED vars => UNCHANGED handlerVars
    BY DEF Tick, LoseRedis, Suspend, Reinstate, vars, handlerVars
  <1>4. ASSUME NEW v \in Workers, NEW s \in Slots, DequeueFresh(v, s) \/ Reclaim(v, s)
        PROVE  pc[w] = "finish" /\ JobAt(w)' = JobAt(w)
    BY <1>0, <1>4 DEF DequeueFresh, Reclaim, Begin, JobAt
  <1>5. ASSUME NEW v \in Workers, Handle(v) \/ HandlerDies(v)
        PROVE  pc[w] = "finish" /\ JobAt(w)' = JobAt(w)
    <2>1. CASE v # w
      <3>1. pc'[w] = pc[w] /\ task'[w] = task[w]
        BY <1>5, <2>1, HandleFrame
      <3> QED BY <3>1 DEF JobAt
    <2>2. CASE v = w
      BY <1>0, <1>5, <2>2 DEF Handle, CheckStatus, ResolveUser, FetchInput, MarkOk, Report, Fail, MarkError,
           StoreResult, AckEntry, Refund, DeadLetterStore, DeadLetterAck, DeadLetterMark, HandlerDies,
           Goto, Release, JobAt
    <2> QED BY <2>1, <2>2
  <1> QED BY <1>1, <1>2, <1>3, <1>4, <1>5 DEF Next

\* The steps keep DeletedExpired, ...
LEMMA DeletedStep ==
    ASSUME TypeInv, TypeInv', DeletedExpired, [Next]_vars
    PROVE  DeletedExpired'
  <1> SUFFICES ASSUME NEW j \in Jobs
               PROVE  /\ cleaning'[j] # NoScan => Expired(cleaning[j])'
                      /\ deleting'[j] = "no" =>
                            \A r \in log'[j] : r.status = "deleted" => Expired(r.exp)'
    BY DEF DeletedExpired
  <1>1. /\ cleaning[j] \in Expiry \cup {NoScan} /\ cleaning'[j] \in Expiry \cup {NoScan}
        /\ \A r \in log[j] : r.exp \in Expiry
    BY DEF TypeInv, TypeOK, Row
  <1>2. /\ cleaning[j] # NoScan => Expired(cleaning[j])
        /\ deleting[j] = "no" => \A r \in log[j] : r.status = "deleted" => Expired(r.exp)
    BY DEF DeletedExpired
  <1>3. \A exp \in Expiry : Expired(exp) => Expired(exp)'
    BY ExpiredStays
  <1>4. cleaning'[j] # NoScan => Expired(cleaning[j])'
    <2>1. cleaning'[j] \in {cleaning[j], NoScan} \/ Expired(cleaning'[j])
      BY StepFrame
    <2>2. cleaning'[j] # NoScan => Expired(cleaning'[j])
      BY <1>2, <2>1
    <2> QED BY <1>1, <1>3, <2>2 DEF Expired
  <1>5. ASSUME deleting'[j] = "no", NEW r \in log'[j], r.status = "deleted"
        PROVE  Expired(r.exp)'
    <2>1. CASE r \in log[j]
      <3>1. Expired(r.exp)
        BY <1>2, <1>5, <2>1, StepFrame
      <3> QED BY <1>1, <1>3, <2>1, <3>1
    <2>2. CASE r \notin log[j]
      <3>1. cleaning[j] # NoScan /\ r.exp = cleaning[j]
        BY <1>5, <2>2, RowsAdded
      <3> QED BY <1>1, <1>2, <1>3, <3>1
    <2> QED BY <2>1, <2>2
  <1> QED BY <1>4, <1>5

\* ... ArtefactsKept ...
LEMMA ArtefactsStep ==
    ASSUME TypeInv, TypeInv', DeletedExpired, ArtefactsKept, [Next]_vars
    PROVE  ArtefactsKept'
  <1>0. /\ clock \in Nat /\ \A j \in Jobs : log[j] \subseteq Row /\ log[j] \subseteq log'[j]
        /\ \A j \in Jobs : deleting'[j] = "no" => deleting[j] = "no"
        /\ \A j \in Jobs : \A exp \in Expiry : Expired(exp) => Expired(exp)'
        /\ Expiry \subseteq Int
    <2>1. clock \in Nat /\ \A j \in Jobs : log[j] \subseteq Row
      BY Bounds DEF TypeInv, TypeOK
    <2>2. \A j \in Jobs : log[j] \subseteq log'[j]
      BY LogGrows
    <2>3. \A j \in Jobs : deleting'[j] = "no" => deleting[j] = "no"
      BY StepFrame
    <2>4. \A j \in Jobs : \A exp \in Expiry : Expired(exp) => Expired(exp)'
      BY ExpiredStays
    <2>5. Expiry \subseteq Int
      BY Bounds DEF Expiry
    <2> QED BY <2>1, <2>2, <2>3, <2>4, <2>5
  \* Files go only if a row of the job has expired.
  <1>1. ASSUME NEW j \in Jobs, deleting'[j] = "no", "artefact" \in blobs[j],
               NothingExpired(j)
        PROVE  "artefact" \in blobs'[j]
    <2>1. \A r \in log[j] : r.status = "deleted" => Expired(r.exp)
      BY <1>0, <1>1 DEF DeletedExpired
    <2> QED BY <1>1, <2>1, FilesTaken DEF NothingExpired
  <1>2. ASSUME NEW j \in Jobs, NEW r \in log'[j], deleting'[j] = "no", SameExpiry(j)',
               r.status = "ok", clock' < r.exp
        PROVE  "artefact" \in blobs'[j]
    <2>1. clock < r.exp /\ r.exp # NoExpiry
      <3>1. clock <= clock' /\ clock' \in Nat
        BY StepFrame
      <3>2. r.exp \in Int
        BY <1>2 DEF TypeInv, TypeOK, Row, Expiry
      <3> QED BY <1>0, <1>2, <3>1, <3>2 DEF NoExpiry
    <2>2. NothingExpired(j)
      <3> SUFFICES ASSUME NEW q \in log[j], Expired(q.exp) PROVE FALSE
        BY DEF NothingExpired
      <3>1. q.exp = r.exp
        BY <1>0, <1>2, <2>1 DEF SameExpiry, Expired
      <3>2. q.exp \in Int
        BY <1>0 DEF Row
      <3> QED BY <1>0, <2>1, <3>1, <3>2 DEF Expired
    <2>3. CASE r \in log[j]
      <3>1. SameExpiry(j)
        BY <1>0, <1>2 DEF SameExpiry
      <3>2. "artefact" \in blobs[j]
        BY <1>0, <1>2, <2>1, <2>3, <3>1 DEF ArtefactsKept
      <3> QED BY <1>1, <1>2, <2>2, <3>2
    <2>4. CASE r \notin log[j]
      <3>1. PICK w \in Workers : MarkOk(w) /\ JobAt(w) = j
        BY <1>2, <2>4, RowsAdded
      <3>2. "artefact" \in blobs[j]
        BY <1>0, <1>2, <2>2, <3>1 DEF MarkOk, ArtefactsKept
      <3> QED BY <3>1, <3>2 DEF MarkOk
    <2> QED BY <2>3, <2>4
  <1>3. ASSUME NEW w \in Workers, pc'[w] = "finish", deleting'[JobAt(w)'] = "no",
               NothingExpired(JobAt(w))'
        PROVE  "artefact" \in blobs'[JobAt(w)']
    <2>1. CASE Convert(w)
      <3>1. JobAt(w) \in Jobs /\ JobAt(w)' = JobAt(w)
        BY <2>1, SlotJob, Bounds DEF Convert, TypeInv, TypeOK, HandlersHoldEntries, JobAt
      <3> QED BY <2>1, <3>1 DEF Convert, TypeInv, TypeOK
    <2>2. CASE ~Convert(w)
      <3>1. pc[w] = "finish" /\ JobAt(w)' = JobAt(w)
        BY <1>3, <2>2, FinishStays
      <3>2. JobAt(w) \in Jobs
        BY <3>1, SlotJob, Bounds DEF TypeInv, TypeOK, HandlersHoldEntries, JobAt
      <3>3. NothingExpired(JobAt(w))
        BY <1>0, <1>3, <3>1, <3>2 DEF NothingExpired, Row
      <3>4. "artefact" \in blobs[JobAt(w)]
        BY <1>0, <1>3, <3>1, <3>2, <3>3 DEF ArtefactsKept
      <3> QED BY <1>1, <1>3, <3>1, <3>2, <3>3, <3>4
    <2> QED BY <2>1, <2>2
  <1> QED BY <1>2, <1>3 DEF ArtefactsKept

\* ... and SignalsOfRows: a row and its signal are written before time passes.
LEMMA SignalsHandle ==
    ASSUME TypeInv, SignalsOfRows, NEW w \in Workers, Handle(w) \/ HandlerDies(w),
           \A j \in Jobs : \A exp : OkUntil(j, exp) => OkUntil(j, exp)'
    PROVE  SignalsOfRows'
  <1>0. \A v \in Workers : pc[v] # "idle" => JobAt(v) \in Jobs
    BY SlotJob, Bounds DEF TypeInv, TypeOK, HandlersHoldEntries, JobAt
  <1>1. /\ pc \in [Workers -> Phases] /\ outcome \in [Workers -> {"none", "ok", "error"}]
        /\ task \in [Workers -> Slots \cup {NoSlot}] /\ result \in [Jobs -> Signal]
        /\ log \in [Jobs -> SUBSET Row] /\ clock \in Nat
    BY Bounds DEF TypeInv, TypeOK
  <1>2. \A v \in Workers : outcome[v] = "ok" \/ pc[v] = "report" => pc[v] # "idle"
    BY DEF SignalsOfRows
  <1>3. CASE MarkOk(w)
    <2>0. JobAt(w) \in Jobs /\ JobAt(w)' = JobAt(w)
      BY <1>0, <1>3 DEF MarkOk, JobAt
    <2>1. [status |-> "ok", exp |-> clock + 1] \in log'[JobAt(w)]
      BY <2>0, <1>1, <1>3 DEF MarkOk, AppendRow
    <2>2. OkUntil(JobAt(w), clock + 1)'
      BY <2>0, <2>1, <1>3 DEF OkUntil, MarkOk
    <2> QED BY <2>0, <2>2, <1>0, <1>1, <1>2, <1>3 DEF SignalsOfRows, MarkOk, Goto, JobAt
  <1>4. CASE StoreResult(w) \/ DeadLetterStore(w)
    BY <1>0, <1>1, <1>2, <1>4 DEF SignalsOfRows, StoreResult, DeadLetterStore, Publish, Goto, JobAt
  <1>5. CASE Refund(w) \/ HandlerDies(w) \/ DeadLetterMark(w)
    BY <1>0, <1>1, <1>2, <1>5 DEF SignalsOfRows, Refund, HandlerDies, DeadLetterMark, Release, JobAt
  <1>6. CASE AckEntry(w) \/ DeadLetterAck(w)
    BY <1>0, <1>1, <1>2, <1>6 DEF SignalsOfRows, AckEntry, DeadLetterAck, Release, Goto, JobAt
  <1>7. CASE CheckStatus(w) \/ ResolveUser(w) \/ Convert(w)
    BY <1>0, <1>1, <1>2, <1>7 DEF SignalsOfRows, CheckStatus, ResolveUser, Convert, Goto, JobAt
  <1>8. CASE FetchInput(w) \/ Report(w) \/ Fail(w) \/ MarkError(w)
    BY <1>0, <1>1, <1>2, <1>8 DEF SignalsOfRows, FetchInput, Report, Fail, MarkError, Goto, JobAt
  <1> QED BY <1>3, <1>4, <1>5, <1>6, <1>7, <1>8 DEF Handle

\* Every step keeps the signals in line with the rows.
LEMMA SignalsStep == TypeInv /\ SignalsOfRows /\ [Next]_vars => SignalsOfRows'
  <1> SUFFICES ASSUME TypeInv, SignalsOfRows, [Next]_vars PROVE SignalsOfRows'
    OBVIOUS
  <1>0. \A j \in Jobs : \A exp : OkUntil(j, exp) => OkUntil(j, exp)'
    BY LogGrows DEF OkUntil
  <1>1. \A v \in Workers : outcome[v] = "ok" \/ pc[v] = "report" => JobAt(v) \in Jobs
    BY SlotJob, Bounds DEF TypeInv, TypeOK, HandlersHoldEntries, JobAt, SignalsOfRows
  <1>2. CASE UNCHANGED <<handlerVars, result, clock>>
    BY <1>0, <1>1, <1>2 DEF SignalsOfRows, handlerVars, JobAt
  <1>3. ASSUME NEW w \in Workers, NEW s \in Slots, DequeueFresh(w, s) \/ Reclaim(w, s)
        PROVE  SignalsOfRows'
    BY <1>0, <1>1, <1>3 DEF SignalsOfRows, DequeueFresh, Reclaim, Begin, JobAt, TypeInv, TypeOK
  <1>4. ASSUME NEW w \in Workers, Handle(w) \/ HandlerDies(w)
        PROVE  SignalsOfRows'
    BY <1>0, <1>4, SignalsHandle
  <1>5. CASE LoseRedis
    BY <1>0, <1>1, <1>5 DEF SignalsOfRows, LoseRedis, NoSignal, handlerVars, JobAt
  <1>6. CASE Tick
    <2>1. \A v \in Workers : pc[v] # "report" /\ outcome[v] # "ok"
      BY <1>6 DEF Tick, SignalsOfRows
    <2>2. UNCHANGED handlerVars /\ clock' = clock + 1
      BY <1>6 DEF Tick
    <2>3. \A j \in Jobs : result'[j].sig = "ok" => result'[j] = result[j] /\ ~(result[j].exp <= clock + 1)
      BY <1>6 DEF Tick, NoSignal
    <2>4. \A j \in Jobs : result[j].exp \in Int
      BY Bounds DEF TypeInv, TypeOK, Signal, Expiry
    <2>5. clock \in Int
      BY Bounds DEF TypeInv, TypeOK
    <2> QED BY <1>0, <2>1, <2>2, <2>3, <2>4, <2>5 DEF SignalsOfRows, handlerVars
  <1>7. ASSUME NEW j \in Jobs, \/ Accept(j) \/ AcceptDies(j) \/ DeletePurge(j) \/ DeleteMark(j)
                               \/ DeleteDies(j) \/ Clean(j) \/ CleanDies(j) \/ Sweep(j)
        PROVE  UNCHANGED <<handlerVars, result, clock>>
    BY <1>7 DEF Accept, AcceptCharge, AcceptPutInput, AcceptCreateRow, AcceptEnqueue, AcceptDies,
                DeletePurge, DeleteMark, DeleteDies, Clean, CleanExpired, CleanMark, CleanDeleted,
                CleanDies, Sweep
  <1>8. Suspend \/ Reinstate \/ UNCHANGED vars => UNCHANGED <<handlerVars, result, clock>>
    BY DEF Suspend, Reinstate, vars, handlerVars
  <1> QED BY <1>2, <1>3, <1>4, <1>5, <1>6, <1>7, <1>8 DEF Next

\* A job with one expiry has rows of the same expiry.
LEMMA OneExpirySame ==
    ASSUME TypeInv, NEW j \in Jobs, OneExpiry(j)
    PROVE  SameExpiry(j)
  <1> DEFINE S == {r.exp : r \in log[j]} \ {NoExpiry}
  <1>1. S \subseteq 0 .. MaxClock + 1
    BY DEF TypeInv, TypeOK, Row, Expiry
  <1>2. IsFiniteSet(S)
    <2>1. IsFiniteSet(0 .. MaxClock + 1)
      <3>1. 0 \in Int /\ MaxClock + 1 \in Int
        BY Bounds
      <3> QED BY <3>1, FS_Interval
    <2> QED BY <1>1, <2>1, FS_Subset
  <1>3. Cardinality(S) = 1
    BY DEF OneExpiry
  <1>4. \E x : S = {x}
    BY <1>2, <1>3, FS_Singleton
  <1> QED BY <1>4 DEF SameExpiry

\* While polling answers 200 the artefact can be downloaded, unless the owner
\* asked for DELETE or the job was completed twice: what the cleaner matches
\* has outlived the signal.
THEOREM ServedKept == Spec => []ServedResultExists
  <1>1. Init => ServedInv
    BY DEF Init, ServedInv, SignalsOfRows, DeletedExpired, ArtefactsKept, NoSignal
  <1>2. TypeInv /\ ServedInv => ServedResultExists
    <2> SUFFICES ASSUME TypeInv, ServedInv, NEW j \in Jobs, PollStatus(j) = 200, OneExpiry(j),
                        deleting[j] = "no"
                 PROVE  "artefact" \in blobs[j]
      BY DEF ServedResultExists
    <2>1. result[j].sig = "ok"
      BY DEF PollStatus, TypeInv, TypeOK, Signal
    <2>2. PICK r \in log[j] : r.status = "ok" /\ clock < r.exp
      BY <2>1 DEF ServedInv, SignalsOfRows, OkUntil
    <2> QED BY <2>2, OneExpirySame DEF ServedInv, ArtefactsKept
  <1>3. TypeInv /\ TypeInv' /\ ServedInv /\ [Next]_vars => ServedInv'
    BY SignalsStep, DeletedStep, ArtefactsStep DEF ServedInv
  <1> QED BY <1>1, <1>2, <1>3, TypeInit, TypeStep, PTL DEF Spec

-----------------------------------------------------------------------------
(* The ledger: a charge is refunded at most once, and never for a job that *)
(* ends OK, as long as no job has two stream entries or two handlers: no   *)
(* job outlives the sweep's threshold and no live handler loses its        *)
(* heartbeats.  Crashes, redeliveries, dead letters, a lost Redis, DELETE  *)
(* and the cleaner are all allowed.                                        *)

NoDuplicates == OldJobs = {} /\ "lostbeat" \notin FaultKinds

\* One stream entry and one handler per job, and only of an accepted job.
OneDelivery ==
    /\ \A s, t \in Slots : JobOf(s) = JobOf(t) /\ Busy(s) /\ Busy(t) => s = t
    /\ \A s \in Slots : Busy(s) => accept[JobOf(s)] = "accepted"
    /\ \A v, w \in Workers : task[v] = task[w] /\ task[v] # NoSlot => v = w
    /\ \A w \in Workers : pc[w] # "idle" => entry[task[w]] # "new"

\* The refund is the last thing that happens to a job, and it happens to a
\* job whose handler has seen it fail.
Ledger ==
    /\ \A s \in Slots : Busy(s) => refunds[JobOf(s)] = 0
    /\ \A j \in Jobs :
          /\ accept[j] # "accepted" => refunds[j] = 0
          /\ refunds[j] <= 1
          /\ refunds[j] > 0 => latest[j].status # "ok"
    /\ \A w \in Workers :
          /\ pc[w] = "refund" => entry[task[w]] = "free" /\ outcome[w] = "error"
          /\ outcome[w] = "error" => pc[w] \in {"store", "ack", "refund"}
          /\ pc[w] \in {"resolve", "fetch", "convert", "finish"} \/ outcome[w] = "error" =>
                latest[JobAt(w)].status # "ok"

\* So a handler's step keeps the job with one delivery.
LEMMA OneHandle ==
    ASSUME TypeInv, TypeInv', OneDelivery, NEW w \in Workers, Handle(w) \/ HandlerDies(w)
    PROVE  OneDelivery' /\ \A s \in Slots : Busy(s)' => Busy(s)
  <1>1. \A s \in Slots : Busy(s)' => Busy(s)
    BY HandleFrame, Bounds DEF Busy, Handled
  <1>2. \A v, x \in Workers : task'[v] = task'[x] /\ task'[v] # NoSlot => v = x
    BY HandleFrame DEF OneDelivery
  <1>3. \A v \in Workers : pc'[v] # "idle" => entry'[task'[v]] # "new"
    BY HandleFrame, AtWork DEF OneDelivery
  <1> QED BY <1>1, <1>2, <1>3, HandleFrame DEF OneDelivery

\* ... and the ledger right.
LEMMA LedgerHandle ==
    ASSUME TypeInv, TypeInv', OneDelivery, Ledger, NEW w \in Workers, Handle(w) \/ HandlerDies(w)
    PROVE  Ledger'
  <1>0. /\ pc \in [Workers -> Phases] /\ task \in [Workers -> Slots \cup {NoSlot}]
        /\ outcome \in [Workers -> {"none", "ok", "error"}]
        /\ entry \in [Slots -> {"free", "new", "pending"}]
        /\ latest \in [Jobs -> Row \cup {NoRow}]
        /\ refunds \in [Jobs -> 0 .. 2]
    BY DEF TypeInv, TypeOK
  <1>1. /\ task[w] \in Slots /\ task[w] # NoSlot /\ JobAt(w) \in Jobs /\ Busy(task[w])
        /\ accept[JobAt(w)] = "accepted" /\ refunds[JobAt(w)] = 0
    BY HandleFrame, AtWork DEF OneDelivery, Ledger, JobAt
  <1>2. \A v \in Workers : v # w /\ pc[v] # "idle" => JobAt(v) # JobAt(w)
    BY <1>1, AtWork DEF OneDelivery, JobAt
  \* Only the last step of a handler refunds, and it leaves no slot behind.
  <1>3. CASE Refund(w)
    <2>1. entry[task[w]] = "free" /\ latest[JobAt(w)].status # "ok" /\ UNCHANGED <<entry, latest>>
      BY <1>0, <1>3 DEF Refund, Ledger, queueVars, tableVars
    <2>2. refunds' = [refunds EXCEPT ![JobAt(w)] = 1]
      BY <1>0, <1>1, <1>3 DEF Refund, MinOf
    <2>3. task'[w] = NoSlot /\ pc'[w] = "idle" /\ outcome'[w] = "none"
      BY <1>0, <1>3 DEF Refund, Release
    <2>4. ASSUME NEW s \in Slots, Busy(s)' PROVE Busy(s) /\ JobOf(s) # JobAt(w)
      <3>1. Busy(s)
        BY <2>4, OneHandle
      <3>2. s # task[w]
        BY <2>1, <2>3, <2>4, <1>1, HandleFrame DEF Busy, Handled, OneDelivery
      <3> QED BY <1>1, <3>1, <3>2 DEF OneDelivery, JobAt
    <2>5. \A s \in Slots : Busy(s)' => refunds'[JobOf(s)] = 0
      BY <1>0, <2>2, <2>4, SlotJob DEF Ledger
    <2>6. \A j \in Jobs : /\ accept'[j] # "accepted" => refunds'[j] = 0
                          /\ refunds'[j] <= 1
                          /\ refunds'[j] > 0 => latest'[j].status # "ok"
      BY <1>0, <1>1, <2>1, <2>2, HandleFrame DEF Ledger
    <2>7. \A v \in Workers : v # w => JobAt(v)' = JobAt(v) /\ entry'[task'[v]] = entry[task[v]]
      BY <2>1, HandleFrame DEF JobAt
    <2> QED BY <2>1, <2>3, <2>5, <2>6, <2>7, HandleFrame DEF Ledger
  <1>4. CASE ~Refund(w)
    <2>1. UNCHANGED <<accept, refunds>>
      BY <1>4, HandleFrame
    <2>2. \A s \in Slots : Busy(s)' => refunds'[JobOf(s)] = 0
      BY <2>1, OneHandle DEF Ledger
    <2>3. \A j \in Jobs : /\ accept'[j] # "accepted" => refunds'[j] = 0
                          /\ refunds'[j] <= 1
                          /\ refunds'[j] > 0 => latest'[j].status # "ok"
      BY <1>1, <2>1, HandleFrame DEF Ledger
    \* The other handlers work on other jobs and see nothing of this step.
    <2>4. ASSUME NEW v \in Workers, v # w
          PROVE  /\ pc'[v] = "refund" => entry'[task'[v]] = "free" /\ outcome'[v] = "error"
                 /\ outcome'[v] = "error" => pc'[v] \in {"store", "ack", "refund"}
                 /\ pc'[v] \in {"resolve", "fetch", "convert", "finish"} \/ outcome'[v] = "error" =>
                       latest'[JobAt(v)'].status # "ok"
      <3>1. pc'[v] = pc[v] /\ task'[v] = task[v] /\ outcome'[v] = outcome[v] /\ JobAt(v)' = JobAt(v)
        BY <2>4, HandleFrame DEF JobAt
      <3>2. pc[v] # "idle" => latest'[JobAt(v)] = latest[JobAt(v)] /\ task[v] \in Slots
        BY <1>2, <2>4, HandleFrame, AtWork
      <3> QED BY <3>1, <3>2, HandleFrame DEF Ledger
    \* This handler.
    <2>5. /\ pc'[w] = "refund" => entry'[task'[w]] = "free" /\ outcome'[w] = "error"
          /\ outcome'[w] = "error" => pc'[w] \in {"store", "ack", "refund"}
          /\ pc'[w] \in {"resolve", "fetch", "convert", "finish"} \/ outcome'[w] = "error" =>
                latest'[JobAt(w)'].status # "ok"
      <3>1. CASE CheckStatus(w) \/ ResolveUser(w) \/ Convert(w) \/ FetchInput(w)
        BY <1>0, <3>1 DEF CheckStatus, ResolveUser, Convert, FetchInput, Goto, Ledger, JobAt, tableVars
      <3>2. CASE MarkOk(w) \/ Report(w) \/ Fail(w)
        BY <1>0, <3>2 DEF MarkOk, Report, Fail, Goto, Ledger
      <3>3. CASE MarkError(w)
        BY <1>0, <1>1, <3>3 DEF MarkError, AppendRow, Goto, JobAt
      <3>4. CASE StoreResult(w) \/ DeadLetterStore(w)
        BY <1>0, <3>4 DEF StoreResult, DeadLetterStore, Goto, Ledger, JobAt, tableVars
      <3>5. CASE AckEntry(w)
        BY <1>0, <1>1, <3>5 DEF AckEntry, Acknowledge, Goto, Release, Ledger, JobAt, tableVars
      <3>6. CASE DeadLetterAck(w)
        BY <1>0, <3>6 DEF DeadLetterAck, Goto, Release, Ledger
      <3>7. CASE DeadLetterMark(w) \/ HandlerDies(w)
        BY <1>0, <3>7 DEF DeadLetterMark, HandlerDies, Release
      <3> QED BY <1>4, <3>1, <3>2, <3>3, <3>4, <3>5, <3>6, <3>7 DEF Handle
    <2> QED BY <2>2, <2>3, <2>4, <2>5 DEF Ledger
  <1> QED BY <1>3, <1>4

-----------------------------------------------------------------------------
\* A step that moves no handler, adds no stream entry, refunds nothing and
\* records no job as OK keeps the invariant.
LEMMA LedgerQuiet ==
    ASSUME TypeInv, OneDelivery, Ledger, UNCHANGED <<refunds, handlerVars>>,
           \A s \in Slots : entry'[s] \in {entry[s], "free"},
           \A j \in Jobs : accept'[j] = "accepted" <=> accept[j] = "accepted",
           \A j \in Jobs : latest'[j].status = "ok" => latest[j].status = "ok"
    PROVE  OneDelivery' /\ Ledger'
  <1>1. \A s \in Slots : Busy(s)' => Busy(s)
    BY DEF Busy, Handled, handlerVars
  <1>2. \A w \in Workers : pc[w] # "idle" => task[w] \in Slots /\ JobAt(w) \in Jobs /\ JobAt(w)' = JobAt(w)
    BY AtWork DEF JobAt, handlerVars
  <1>3. OneDelivery'
    BY <1>1, <1>2, SlotJob DEF OneDelivery, handlerVars
  <1>4. \A w \in Workers : outcome[w] = "error" => pc[w] # "idle"
    BY DEF Ledger
  <1> QED BY <1>1, <1>2, <1>3, <1>4, SlotJob DEF Ledger, handlerVars

\* A handler that begins takes the only entry of a job that has no handler.
LEMMA LedgerDequeue ==
    ASSUME NoDuplicates, TypeInv, OneDelivery, Ledger, NEW w \in Workers, NEW s \in Slots,
           DequeueFresh(w, s) \/ Reclaim(w, s)
    PROVE  OneDelivery' /\ Ledger'
  <1>0. /\ pc \in [Workers -> Phases] /\ task \in [Workers -> Slots \cup {NoSlot}]
        /\ entry \in [Slots -> {"free", "new", "pending"}]
        /\ \A v \in Workers : pc[v] = "idle" <=> task[v] = NoSlot
    BY DEF TypeInv, TypeOK, HandlersHoldEntries
  <1>1. ~Handled(s) /\ Busy(s)
    <2>1. CASE DequeueFresh(w, s)
      BY <1>0, <2>1, Bounds DEF DequeueFresh, Handled, OneDelivery, Busy
    <2>2. CASE Reclaim(w, s)
      BY <2>2 DEF Reclaim, Fault, NoDuplicates, Busy
    <2> QED BY <2>1, <2>2
  <1>2. /\ pc[w] = "idle" /\ task' = [task EXCEPT ![w] = s] /\ pc' = [pc EXCEPT ![w] = "check"]
        /\ UNCHANGED <<outcome, accept, refunds, latest>>
    BY DEF DequeueFresh, Reclaim, Begin, tableVars
  <1>3. entry' = [entry EXCEPT ![s] = "pending"]
    BY <1>0 DEF DequeueFresh, Reclaim
  <1>4. \A t \in Slots : Busy(t)' => Busy(t)
    BY <1>0, <1>1, <1>2, <1>3, Bounds DEF Busy, Handled
  <1>5. \A v \in Workers : v # w => task'[v] = task[v] /\ pc'[v] = pc[v] /\ task[v] # s
    BY <1>0, <1>1, <1>2 DEF Handled
  <1>6. \A v \in Workers : pc[v] # "idle" => task[v] \in Slots
    BY AtWork
  <1>7. OneDelivery'
    BY <1>0, <1>1, <1>2, <1>3, <1>4, <1>5, <1>6, Bounds DEF OneDelivery
  <1>8. pc'[w] = "check" /\ outcome'[w] # "error"
    BY <1>0, <1>2 DEF Ledger
  <1>9. \A v \in Workers : v # w => JobAt(v)' = JobAt(v) /\ entry'[task'[v]] = entry[task[v]]
    BY <1>0, <1>3, <1>5, <1>6 DEF JobAt
  <1> QED BY <1>2, <1>4, <1>5, <1>7, <1>8, <1>9 DEF Ledger

\* The enqueue of an accepted job gives it its only stream entry.
LEMMA LedgerEnqueue ==
    ASSUME TypeInv, OneDelivery, Ledger, NEW j \in Jobs, AcceptEnqueue(j)
    PROVE  OneDelivery' /\ Ledger'
  <1>0. /\ entry \in [Slots -> {"free", "new", "pending"}]
        /\ accept \in [Jobs -> {"idle", "charged", "stored", "created", "accepted", "failed"}]
    BY DEF TypeInv, TypeOK
  <1>1. PICK s \in Slots : JobOf(s) = j /\ Unused(s) /\ entry' = [entry EXCEPT ![s] = "new"]
    BY DEF AcceptEnqueue, Enqueue
  <1>2. /\ UNCHANGED <<refunds, handlerVars, latest>>
        /\ accept[j] = "created" /\ accept' = [accept EXCEPT ![j] = "accepted"]
    BY DEF AcceptEnqueue, tableVars
  <1>3. \A t \in Slots : (Busy(t)' => Busy(t) \/ t = s) /\ (Busy(t) => JobOf(t) # j)
    BY <1>0, <1>1, <1>2 DEF Busy, Handled, OneDelivery, handlerVars
  <1>4. \A v \in Workers : task[v] # s
    BY <1>1 DEF Unused
  <1>5. \A v \in Workers : pc[v] # "idle" => task[v] \in Slots /\ JobAt(v)' = JobAt(v)
    BY <1>2, AtWork DEF JobAt, handlerVars
  <1>6. OneDelivery'
    BY <1>0, <1>1, <1>2, <1>3, <1>4, <1>5, SlotJob DEF OneDelivery, handlerVars
  <1>7. \A t \in Slots : Busy(t)' => refunds'[JobOf(t)] = 0
    BY <1>1, <1>2, <1>3 DEF Ledger
  <1>8. \A v \in Workers : outcome[v] = "error" => pc[v] # "idle"
    BY DEF Ledger
  <1> QED BY <1>0, <1>1, <1>2, <1>4, <1>5, <1>6, <1>7, <1>8 DEF Ledger, handlerVars

\* Every step of every process keeps the invariant.
LEMMA LedgerStep ==
    ASSUME NoDuplicates
    PROVE  TypeInv /\ TypeInv' /\ OneDelivery /\ Ledger /\ [Next]_vars => OneDelivery' /\ Ledger'
  <1> SUFFICES ASSUME TypeInv, TypeInv', OneDelivery, Ledger, [Next]_vars
               PROVE  OneDelivery' /\ Ledger'
    OBVIOUS
  <1>0. /\ latest \in [Jobs -> Row \cup {NoRow}] /\ entry \in [Slots -> {"free", "new", "pending"}]
        /\ accept \in [Jobs -> {"idle", "charged", "stored", "created", "accepted", "failed"}]
    BY DEF TypeInv, TypeOK
  <1>1. ASSUME NEW j \in Jobs, AcceptCharge(j) \/ AcceptPutInput(j) \/ AcceptCreateRow(j) \/ AcceptDies(j)
        PROVE  OneDelivery' /\ Ledger'
    BY <1>0, <1>1, LedgerQuiet DEF AcceptCharge, AcceptPutInput, AcceptCreateRow, AcceptDies, AppendRow,
                                   tableVars, queueVars
  <1>2. ASSUME NEW j \in Jobs, DeletePurge(j) \/ DeleteMark(j) \/ DeleteDies(j) \/ Clean(j) \/ CleanDies(j)
        PROVE  OneDelivery' /\ Ledger'
    BY <1>0, <1>2, LedgerQuiet DEF DeletePurge, DeleteMark, DeleteDies, Clean, CleanExpired, CleanMark,
                                   CleanDeleted, CleanDies, AppendRow, tableVars, queueVars
  <1>3. \A j \in Jobs : ~Sweep(j)
    BY DEF Sweep, NoDuplicates
  <1>4. Tick \/ LoseRedis \/ Suspend \/ Reinstate => OneDelivery' /\ Ledger'
    BY <1>0, LedgerQuiet DEF Tick, LoseRedis, Suspend, Reinstate, tableVars, queueVars
  <1>5. UNCHANGED vars => OneDelivery' /\ Ledger'
    BY <1>0, LedgerQuiet DEF vars, tableVars, queueVars
  <1> QED BY <1>1, <1>2, <1>3, <1>4, <1>5, LedgerEnqueue, LedgerDequeue, OneHandle, LedgerHandle
          DEF Next, Accept

\* The ledger holds from the first state on.
LEMMA LedgerInvariance ==
    ASSUME NoDuplicates
    PROVE  Spec => [](OneDelivery /\ Ledger)
  <1>1. Init => OneDelivery /\ Ledger
    BY Bounds DEF Init, OneDelivery, Ledger, Busy, Handled
  <1> QED BY <1>1, TypeInit, TypeStep, LedgerStep, PTL DEF Spec

\* Without duplicate deliveries a charge is refunded at most once: the refund
\* comes after the acknowledgement, so no crash can make a second delivery
\* find it undone.
THEOREM LedgerSound ==
    ASSUME NoDuplicates
    PROVE  Spec => []RefundAtMostOnce
  <1>1. Ledger => RefundAtMostOnce
    BY DEF Ledger, RefundAtMostOnce
  <1> QED BY <1>1, LedgerInvariance, PTL

\* Nor does a job whose charge was refunded ever end OK.
THEOREM RefundSound ==
    ASSUME NoDuplicates
    PROVE  Spec => []RefundedIsNotOk
  <1>1. Ledger => RefundedIsNotOk
    BY DEF Ledger, RefundedIsNotOk
  <1> QED BY <1>1, LedgerInvariance, PTL

-----------------------------------------------------------------------------
(* What is said last: "ok" is final, and no job leaves the queue untold.   *)

\* Once a job is said to be OK its row is OK, or deleted, and a handler that
\* is given it again stops at the guard.
FinalInv ==
    /\ \A j \in Jobs : result[j].sig = "ok" =>
          accept[j] = "accepted" /\ latest[j].status \in {"ok", "deleted"}
    /\ \A w \in Workers :
          /\ pc[w] = "report" \/ outcome[w] = "ok" => latest[JobAt(w)].status \in {"ok", "deleted"}
          /\ pc[w] # "idle" /\ result[JobAt(w)].sig = "ok"
                => pc[w] \in {"check", "ack"} /\ outcome[w] # "error"


\* A handler's step sees only its own job.
LEMMA OwnJob ==
    ASSUME TypeInv, OneDelivery, NEW w \in Workers, pc[w] # "idle"
    PROVE  /\ JobAt(w) \in Jobs /\ accept[JobAt(w)] = "accepted"
           /\ \A v \in Workers : v # w /\ pc[v] # "idle" => JobAt(v) # JobAt(w)
  BY AtWork DEF OneDelivery, JobAt

\* So it cannot take back what was said of another job, nor of its own.
LEMMA FinalHandle ==
    ASSUME TypeInv, OkInv, OneDelivery, Ledger, FinalInv,
           NEW w \in Workers, Handle(w) \/ HandlerDies(w)
    PROVE  /\ FinalInv'
           /\ \A j \in Jobs : result[j].sig = "ok" => result'[j].sig # "error"
  <1>0. /\ pc \in [Workers -> Phases] /\ task \in [Workers -> Slots \cup {NoSlot}]
        /\ outcome \in [Workers -> {"none", "ok", "error"}]
        /\ latest \in [Jobs -> Row \cup {NoRow}] /\ result \in [Jobs -> Signal]
    BY DEF TypeInv, TypeOK
  <1> DEFINE J == JobAt(w)
  <1>1. /\ J \in Jobs /\ accept[J] = "accepted" /\ pc[w] # "idle"
        /\ \A v \in Workers : v # w /\ pc[v] # "idle" => JobAt(v) \in Jobs /\ JobAt(v) # J
    BY HandleFrame, OwnJob
  <1>2. /\ outcome[w] = "ok" => pc[w] \in {"store", "ack"}
        /\ outcome[w] = "error" => pc[w] \in {"store", "ack", "refund"}
        /\ pc[w] = "report" \/ outcome[w] = "ok" => latest[J].status \in {"ok", "deleted"}
        /\ result[J].sig = "ok" => /\ pc[w] \in {"check", "ack"} /\ outcome[w] # "error"
                                   /\ latest[J].status \in {"ok", "deleted"}
    BY <1>1 DEF OkInv, Ledger, FinalInv
  \* What this step does to its job and its handler.
  <1>3. /\ result'[J].sig = "ok" => latest'[J].status \in {"ok", "deleted"}
        /\ pc'[w] = "report" \/ outcome'[w] = "ok" => latest'[J].status \in {"ok", "deleted"}
        /\ pc'[w] # "idle" /\ result'[J].sig = "ok" => pc'[w] \in {"check", "ack"} /\ outcome'[w] # "error"
        /\ result[J].sig = "ok" => result'[J].sig # "error"
        /\ \A j \in Jobs : j # J => result'[j] = result[j]
    <2>1. CASE CheckStatus(w) \/ ResolveUser(w) \/ Convert(w) \/ FetchInput(w)
      BY <1>0, <1>1, <1>2, <2>1 DEF CheckStatus, ResolveUser, Convert, FetchInput, Goto, tableVars
    <2>2. CASE MarkOk(w) \/ MarkError(w)
      BY <1>0, <1>1, <1>2, <2>2 DEF MarkOk, MarkError, AppendRow, Goto
    <2>3. CASE Report(w) \/ Fail(w)
      BY <1>0, <1>1, <1>2, <2>3 DEF Report, Fail, Goto, tableVars
    <2>4. CASE StoreResult(w) \/ DeadLetterStore(w)
      BY <1>0, <1>1, <1>2, <2>4 DEF StoreResult, DeadLetterStore, Publish, Goto, tableVars
    <2>5. CASE AckEntry(w) \/ DeadLetterAck(w)
      BY <1>0, <1>1, <1>2, <2>5 DEF AckEntry, DeadLetterAck, Goto, Release, tableVars
    <2>6. CASE Refund(w) \/ HandlerDies(w)
      BY <1>0, <1>1, <1>2, <2>6 DEF Refund, HandlerDies, Release, tableVars
    <2>7. CASE DeadLetterMark(w)
      BY <1>0, <1>1, <1>2, <2>7 DEF DeadLetterMark, Release, AppendRow
    <2> QED BY <2>1, <2>2, <2>3, <2>4, <2>5, <2>6, <2>7 DEF Handle
  <1>4. /\ accept' = accept
        /\ \A v \in Workers : v # w => pc'[v] = pc[v] /\ task'[v] = task[v] /\ outcome'[v] = outcome[v]
        /\ pc'[w] # "idle" => task'[w] = task[w]
        /\ \A j \in Jobs : j # J => latest'[j] = latest[j]
    BY HandleFrame
  <1>5. \A j \in Jobs : result'[j].sig = "ok" =>
           accept'[j] = "accepted" /\ latest'[j].status \in {"ok", "deleted"}
    BY <1>1, <1>3, <1>4 DEF FinalInv
  <1>6. ASSUME NEW v \in Workers
        PROVE  /\ pc'[v] = "report" \/ outcome'[v] = "ok" => latest'[JobAt(v)'].status \in {"ok", "deleted"}
               /\ pc'[v] # "idle" /\ result'[JobAt(v)'].sig = "ok"
                     => pc'[v] \in {"check", "ack"} /\ outcome'[v] # "error"
    <2>1. CASE v # w
      <3>1. JobAt(v)' = JobAt(v) /\ pc'[v] = pc[v] /\ outcome'[v] = outcome[v]
        BY <1>4, <2>1 DEF JobAt
      <3>2. pc[v] # "idle" => latest'[JobAt(v)] = latest[JobAt(v)] /\ result'[JobAt(v)] = result[JobAt(v)]
        BY <1>1, <1>3, <1>4, <2>1
      <3>3. outcome[v] = "ok" => pc[v] # "idle"
        BY DEF OkInv
      <3> QED BY <3>1, <3>2, <3>3 DEF FinalInv
    <2>2. CASE v = w
      <3>1. pc'[w] # "idle" => JobAt(w)' = J
        BY <1>4 DEF JobAt
      <3>2. pc'[w] = "idle" => outcome'[w] # "ok"
        BY <1>0, <1>1, <1>2 DEF Handle, CheckStatus, ResolveUser, FetchInput, Convert, MarkOk, Report,
           Fail, MarkError, StoreResult, AckEntry, Refund, DeadLetterStore, DeadLetterAck, DeadLetterMark,
           HandlerDies, Goto, Release
      <3> QED BY <1>3, <2>2, <3>1, <3>2
    <2> QED BY <2>1, <2>2
  <1>7. \A j \in Jobs : result[j].sig = "ok" => result'[j].sig # "error"
    BY <1>3
  <1> QED BY <1>5, <1>6, <1>7 DEF FinalInv

\* Other steps drop signals, but never turn one into another.
LEMMA FinalStep ==
    ASSUME TypeInv, OkInv, OneDelivery, Ledger, FinalInv, [Next]_vars
    PROVE  /\ FinalInv'
           /\ \A j \in Jobs : result[j].sig = "ok" => result'[j].sig # "error"
  <1>0. /\ pc \in [Workers -> Phases] /\ task \in [Workers -> Slots \cup {NoSlot}]
        /\ outcome \in [Workers -> {"none", "ok", "error"}]
        /\ latest \in [Jobs -> Row \cup {NoRow}] /\ result \in [Jobs -> Signal]
        /\ accept \in [Jobs -> {"idle", "charged", "stored", "created", "accepted", "failed"}]
    BY DEF TypeInv, TypeOK
  <1>1. \A v \in Workers : pc[v] = "report" \/ outcome[v] = "ok" => pc[v] # "idle"
    BY DEF OkInv
  <1>2. \A v \in Workers : pc[v] # "idle" => JobAt(v) \in Jobs
    BY OwnJob
  \* Steps that leave the handlers alone.
  <1>3. ASSUME UNCHANGED handlerVars,
               \A j \in Jobs : result'[j] = result[j] \/ result'[j].sig = "none",
               \A j \in Jobs : accept[j] = "accepted" => accept'[j] = "accepted",
               \A j \in Jobs : accept[j] = "accepted" /\ latest[j].status \in {"ok", "deleted"}
                  => latest'[j].status \in {"ok", "deleted"}
        PROVE  /\ FinalInv'
               /\ \A j \in Jobs : result[j].sig = "ok" => result'[j].sig # "error"
    <2>1. \A v \in Workers : pc[v] # "idle" => accept[JobAt(v)] = "accepted"
      BY OwnJob
    <2>2. \A v \in Workers : JobAt(v)' = JobAt(v) /\ pc'[v] = pc[v] /\ outcome'[v] = outcome[v]
      BY <1>3 DEF handlerVars, JobAt
    <2>3. \A j \in Jobs : result'[j].sig = "ok" => result[j].sig = "ok"
      BY <1>3
    <2>4. \A j \in Jobs : result'[j].sig = "ok" =>
             accept'[j] = "accepted" /\ latest'[j].status \in {"ok", "deleted"}
      BY <1>3, <2>3 DEF FinalInv
    <2>5. ASSUME NEW v \in Workers
          PROVE  /\ pc'[v] = "report" \/ outcome'[v] = "ok" => latest'[JobAt(v)'].status \in {"ok", "deleted"}
                 /\ pc'[v] # "idle" /\ result'[JobAt(v)'].sig = "ok"
                       => pc'[v] \in {"check", "ack"} /\ outcome'[v] # "error"
      BY <1>1, <1>2, <1>3, <2>1, <2>2, <2>3 DEF FinalInv
    <2>6. \A j \in Jobs : result[j].sig = "ok" => result'[j].sig # "error"
      BY <1>3
    <2> QED BY <2>4, <2>5, <2>6 DEF FinalInv
  <1>4. ASSUME NEW i \in Jobs, Accept(i) \/ AcceptDies(i)
        PROVE  /\ UNCHANGED <<handlerVars, result>>
               /\ \A j \in Jobs : accept[j] = "accepted" => accept'[j] = "accepted" /\ latest'[j] = latest[j]
    BY <1>0, <1>4 DEF Accept, AcceptCharge, AcceptPutInput, AcceptCreateRow, AcceptEnqueue, AcceptDies,
                      AppendRow, tableVars
  <1>5. ASSUME NEW i \in Jobs, \/ DeletePurge(i) \/ DeleteMark(i) \/ DeleteDies(i)
                               \/ Clean(i) \/ CleanDies(i) \/ Sweep(i)
        PROVE  /\ UNCHANGED <<handlerVars, result, accept>>
               /\ \A j \in Jobs : latest'[j] = latest[j] \/ latest'[j].status = "deleted"
    BY <1>0, <1>5 DEF DeletePurge, DeleteMark, DeleteDies, Clean, CleanExpired, CleanMark, CleanDeleted,
                      CleanDies, Sweep, AppendRow, tableVars
  <1>6. CASE Tick \/ LoseRedis \/ Suspend \/ Reinstate \/ UNCHANGED vars
    <2>1. UNCHANGED <<handlerVars, accept, latest>>
      BY <1>6 DEF Tick, LoseRedis, Suspend, Reinstate, vars, tableVars
    <2>2. \A j \in Jobs : result'[j] = result[j] \/ result'[j].sig = "none"
      BY <1>6 DEF Tick, LoseRedis, Suspend, Reinstate, vars, NoSignal
    <2> QED BY <1>3, <2>1, <2>2
  <1>7. ASSUME NEW w \in Workers, NEW s \in Slots, DequeueFresh(w, s) \/ Reclaim(w, s)
        PROVE  /\ FinalInv'
               /\ \A j \in Jobs : result[j].sig = "ok" => result'[j].sig # "error"
    <2>1. /\ UNCHANGED <<accept, latest, result, outcome>>
          /\ pc'[w] = "check" /\ outcome[w] = "none"
          /\ \A v \in Workers : v # w => pc'[v] = pc[v] /\ task'[v] = task[v]
      BY <1>0, <1>7 DEF DequeueFresh, Reclaim, Begin, tableVars, OkInv, Ledger
    <2>2. \A v \in Workers : v # w => JobAt(v)' = JobAt(v)
      BY <2>1 DEF JobAt
    <2>3. \A j \in Jobs : result[j].sig = "ok" => result'[j].sig # "error"
      BY <2>1
    <2> QED BY <2>1, <2>2, <2>3 DEF FinalInv
  <1> QED BY <1>3, <1>4, <1>5, <1>6, <1>7, FinalHandle DEF Next

\* A client that was told "ok" is not told "error" afterwards: whoever is
\* given the job again stops at the guard.
THEOREM OkStaysFinal ==
    ASSUME NoDuplicates
    PROVE  Spec => OkSignalIsFinal
  <1>1. Init => FinalInv
    BY Bounds DEF Init, FinalInv, NoSignal
  <1>2. TypeInv /\ OkInv /\ OneDelivery /\ Ledger /\ FinalInv /\ [Next]_vars
           => /\ FinalInv'
              /\ [\A j \in Jobs : result[j].sig = "ok" => result'[j].sig # "error"]_vars
    BY FinalStep
  <1>3. Init => OkInv
    BY DEF Init, OkInv, NoSignal
  <1> QED BY <1>1, <1>2, <1>3, TypeInit, TypeStep, OkStep, LedgerInvariance, PTL
          DEF Spec, OkSignalIsFinal

-----------------------------------------------------------------------------
(* At-least-once delivery: no job leaves the queue untold, as long as the  *)
(* stream and the account stay and no job is delivered twice at a time.    *)

\* No fault takes the stream, the signals or the account away.
NothingLost == NoDuplicates /\ FaultKinds \cap {"flush", "suspend"} = {}

\* The client can learn how the job ended.
Told(j) == Settled(j) \/ result[j].sig = "error"

\* A handler acknowledges an entry when its job has an outcome, and then only
\* refunds, or marks what was dead-lettered.
OutcomeInv ==
    /\ ~suspended
    /\ \A w \in Workers :
          /\ pc[w] = "store" => outcome[w] # "none"
          /\ pc[w] = "report" \/ outcome[w] = "ok" => Settled(JobAt(w))
          /\ pc[w] \in {"ack", "refund", "deadAck", "deadMark"} => Told(JobAt(w))
          /\ pc[w] # "idle" /\ entry[task[w]] = "free" => pc[w] \in {"refund", "deadMark"}

\* The row of a job is written as PROCESSING once, and settled for good.
LEMMA SettledStays ==
    ASSUME TypeInv, KeepInv, [Next]_vars
    PROVE  \A j \in Jobs : Settled(j) => Settled(j)'
  <1>0. latest \in [Jobs -> Row \cup {NoRow}]
    BY DEF TypeInv, TypeOK
  <1>1. ASSUME NEW i \in Jobs, Accept(i) \/ AcceptDies(i)
        PROVE  \A j \in Jobs : Settled(j) => Settled(j)'
    <2>1. CASE AcceptCreateRow(i)
      <3>1. latest[i] = NoRow
        BY <2>1 DEF AcceptCreateRow, KeepInv, KeepJob
      <3>2. \A j \in Jobs : j # i => latest'[j] = latest[j]
        BY <1>0, <2>1 DEF AcceptCreateRow, AppendRow
      <3> QED BY <3>1, <3>2 DEF Settled, NoRow
    <2>2. CASE AcceptCharge(i) \/ AcceptPutInput(i) \/ AcceptEnqueue(i) \/ AcceptDies(i)
      BY <2>2 DEF AcceptCharge, AcceptPutInput, AcceptEnqueue, AcceptDies, tableVars, Settled
    <2> QED BY <1>1, <2>1, <2>2 DEF Accept
  <1>2. ASSUME NEW i \in Jobs, \/ DeletePurge(i) \/ DeleteMark(i) \/ DeleteDies(i)
                               \/ Clean(i) \/ CleanDies(i) \/ Sweep(i)
        PROVE  \A j \in Jobs : Settled(j) => Settled(j)'
    <2>1. \A j \in Jobs : latest'[j] = latest[j] \/ latest'[j].status = "deleted"
      BY <1>0, <1>2 DEF DeletePurge, DeleteMark, DeleteDies, Clean, CleanExpired, CleanMark, CleanDeleted,
                        CleanDies, Sweep, AppendRow, tableVars
    <2> QED BY <2>1 DEF Settled
  <1>3. ASSUME NEW w \in Workers, Handle(w) \/ HandlerDies(w)
        PROVE  \A j \in Jobs : Settled(j) => Settled(j)'
    <2>1. CASE MarkOk(w) \/ MarkError(w) \/ DeadLetterMark(w)
      <3>1. \A j \in Jobs : latest'[j] = latest[j] \/ latest'[j].status \in {"ok", "error"}
        BY <1>0, <2>1 DEF MarkOk, MarkError, DeadLetterMark, AppendRow
      <3> QED BY <3>1 DEF Settled
    <2>2. CASE UNCHANGED latest
      BY <2>2 DEF Settled
    <2> QED BY <1>3, <2>1, <2>2 DEF Handle, CheckStatus, ResolveUser, FetchInput, Convert, Report, Fail,
           StoreResult, AckEntry, Refund, DeadLetterStore, DeadLetterAck, HandlerDies, tableVars
  <1>4. CASE Tick \/ LoseRedis \/ Suspend \/ Reinstate \/ UNCHANGED vars
    BY <1>4 DEF Tick, LoseRedis, Suspend, Reinstate, vars, tableVars, Settled
  <1>5. ASSUME NEW w \in Workers, NEW s \in Slots, DequeueFresh(w, s) \/ Reclaim(w, s)
        PROVE  \A j \in Jobs : Settled(j) => Settled(j)'
    BY <1>5 DEF DequeueFresh, Reclaim, tableVars, Settled
  <1> QED BY <1>1, <1>2, <1>3, <1>4, <1>5 DEF Next

\* A handler keeps its word to its own job, and its entry until it has.
LEMMA OutcomeHandle ==
    ASSUME TypeInv, TypeInv', OkInv, OkInv', KeepInv, OneDelivery, OutcomeInv,
           NEW w \in Workers, Handle(w) \/ HandlerDies(w)
    PROVE  /\ OutcomeInv'
           /\ \A j \in Jobs : Live(j) /\ ~Live(j)' => Told(j)'
  <1>0. /\ pc \in [Workers -> Phases] /\ task \in [Workers -> Slots \cup {NoSlot}]
        /\ outcome \in [Workers -> {"none", "ok", "error"}]
        /\ entry \in [Slots -> {"free", "new", "pending"}]
        /\ latest \in [Jobs -> Row \cup {NoRow}] /\ result \in [Jobs -> Signal]
    BY DEF TypeInv, TypeOK
  <1> DEFINE J == JobAt(w)
  <1>1. /\ J \in Jobs /\ task[w] \in Slots /\ pc[w] # "idle"
        /\ \A v \in Workers : v # w /\ pc[v] # "idle" => JobAt(v) \in Jobs /\ JobAt(v) # J
        /\ \A v \in Workers : v # w /\ pc[v] # "idle" => task[v] \in Slots /\ task[v] # task[w]
    BY HandleFrame, OwnJob, AtWork DEF OneDelivery
  <1>2. /\ ~suspended
        /\ pc[w] = "store" => outcome[w] # "none"
        /\ pc[w] = "report" \/ outcome[w] = "ok" => Settled(J)
        /\ pc[w] \in {"ack", "refund", "deadAck", "deadMark"} => Told(J)
        /\ entry[task[w]] = "free" => pc[w] \in {"refund", "deadMark"}
    BY <1>1 DEF OutcomeInv
  <1> DEFINE SettledNext == latest'[J].status \in {"ok", "error", "deleted"}
             ToldNext == SettledNext \/ result'[J].sig = "error"
  <1>3. Settled(J) => SettledNext
    BY <1>1, SettledStays DEF Next, Settled
  <1> DEFINE Kept ==
           /\ pc'[w] = "store" => outcome'[w] # "none"
           /\ pc'[w] = "report" \/ outcome'[w] = "ok" => SettledNext
           /\ pc'[w] \in {"ack", "refund", "deadAck", "deadMark"} => ToldNext
           /\ entry'[task[w]] = "free" => pc'[w] \in {"refund", "deadMark"} \/ (pc'[w] = "idle" /\ ToldNext)
           /\ \A j \in Jobs : j # J => result'[j] = result[j]
           /\ \A s \in Slots : s # task[w] => entry'[s] = entry[s]
           /\ UNCHANGED suspended
  <1>4. Kept
    <2>1. CASE CheckStatus(w) \/ ResolveUser(w) \/ Convert(w) \/ FetchInput(w) \/ Fail(w)
      BY <1>0, <1>1, <1>2, <1>3, <2>1 DEF CheckStatus, ResolveUser, Convert, FetchInput, Fail, Goto,
         tableVars, queueVars, Settled, Told
    <2>2. CASE MarkOk(w) \/ MarkError(w)
      BY <1>0, <1>1, <1>2, <1>3, <2>2 DEF MarkOk, MarkError, AppendRow, Goto, queueVars, Settled, Told
    <2>3. CASE Report(w)
      BY <1>0, <1>1, <1>2, <1>3, <2>3 DEF Report, Goto, tableVars, queueVars, Settled, Told
    <2>4. CASE StoreResult(w) \/ DeadLetterStore(w)
      BY <1>0, <1>1, <1>2, <1>3, <2>4 DEF StoreResult, DeadLetterStore, Publish, Goto, tableVars,
         queueVars, Settled, Told
    <2>5. CASE AckEntry(w) \/ DeadLetterAck(w)
      BY <1>0, <1>1, <1>2, <1>3, <2>5 DEF AckEntry, DeadLetterAck, Acknowledge, Goto, Release, tableVars,
         Settled, Told
    <2>6. CASE Refund(w) \/ HandlerDies(w)
      BY <1>0, <1>1, <1>2, <1>3, <2>6 DEF Refund, HandlerDies, Release, tableVars, queueVars, Settled, Told
    <2>7. CASE DeadLetterMark(w)
      BY <1>0, <1>1, <1>2, <1>3, <2>7 DEF DeadLetterMark, Release, AppendRow, queueVars, Settled, Told
    <2> QED BY <1>2, <2>1, <2>2, <2>3, <2>4, <2>5, <2>6, <2>7 DEF Handle
  <1>5. /\ \A v \in Workers : v # w => pc'[v] = pc[v] /\ task'[v] = task[v] /\ outcome'[v] = outcome[v]
        /\ pc'[w] # "idle" => task'[w] = task[w]
        /\ \A j \in Jobs : j # J => latest'[j] = latest[j]
    BY HandleFrame
  <1>6. ASSUME NEW v \in Workers
        PROVE  /\ pc'[v] = "store" => outcome'[v] # "none"
               /\ pc'[v] = "report" \/ outcome'[v] = "ok" => Settled(JobAt(v))'
               /\ pc'[v] \in {"ack", "refund", "deadAck", "deadMark"} => Told(JobAt(v))'
               /\ pc'[v] # "idle" /\ entry'[task'[v]] = "free" => pc'[v] \in {"refund", "deadMark"}
    <2>1. (outcome[v] = "ok" => pc[v] # "idle") /\ (outcome'[v] = "ok" => pc'[v] # "idle")
      BY DEF OkInv
    <2>2. CASE v # w
      <3>1. pc'[v] = pc[v] /\ task'[v] = task[v] /\ outcome'[v] = outcome[v] /\ JobAt(v)' = JobAt(v)
        BY <1>5, <2>2 DEF JobAt
      <3>2. pc[v] # "idle" => /\ latest'[JobAt(v)] = latest[JobAt(v)] /\ result'[JobAt(v)] = result[JobAt(v)]
                              /\ entry'[task[v]] = entry[task[v]]
        BY <1>1, <1>4, <1>5, <2>2
      <3>3. pc[v] # "idle" => (Settled(JobAt(v)) => Settled(JobAt(v))') /\ (Told(JobAt(v)) => Told(JobAt(v))')
        BY <3>1, <3>2 DEF Settled, Told
      <3> QED BY <2>1, <3>1, <3>2, <3>3 DEF OutcomeInv
    <2>3. CASE v = w
      <3>1. pc'[w] # "idle" => /\ task'[w] = task[w]
                               /\ SettledNext => Settled(JobAt(w))'
                               /\ ToldNext => Told(JobAt(w))'
        BY <1>5 DEF JobAt, Settled, Told
      <3> QED BY <1>4, <2>1, <2>3, <3>1
    <2> QED BY <2>2, <2>3
  <1>7. ASSUME NEW j \in Jobs, Live(j), ~Live(j)'
        PROVE  Told(j)'
    <2>1. PICK s \in Slots : JobOf(s) = j /\ (entry[s] # "free" \/ Handled(s))
      BY <1>7 DEF Live
    <2>2. entry'[s] = "free" /\ \A v \in Workers : task'[v] # s
      BY <1>7, <2>1 DEF Live, Handled
    <2>3. s = task[w]
      <3>1. SUFFICES ASSUME s # task[w] PROVE FALSE
        OBVIOUS
      <3>2. entry[s] = "free"
        BY <1>4, <2>2, <3>1
      <3>3. PICK v \in Workers : task[v] = s
        BY <2>1, <3>2 DEF Handled
      <3> QED BY <1>5, <2>2, <3>1, <3>3
    <2>4. j = J /\ pc'[w] = "idle"
      BY <1>5, <2>1, <2>2, <2>3 DEF JobAt
    <2>5. ToldNext
      BY <1>4, <2>2, <2>3, <2>4
    <2> QED BY <2>4, <2>5 DEF Told, Settled
  <1> QED BY <1>2, <1>4, <1>6, <1>7 DEF OutcomeInv

\* No other step ends a delivery, takes a signal from a job that is being
\* acknowledged, or writes to the row of a job that has none yet.
LEMMA OutcomeStep ==
    ASSUME NothingLost, TypeInv, TypeInv', OkInv, OkInv', KeepInv, OneDelivery, OutcomeInv, [Next]_vars
    PROVE  /\ OutcomeInv'
           /\ \A j \in Jobs : Live(j) /\ ~Live(j)' => Told(j)'
  <1>0. /\ pc \in [Workers -> Phases] /\ task \in [Workers -> Slots \cup {NoSlot}]
        /\ outcome \in [Workers -> {"none", "ok", "error"}]
        /\ entry \in [Slots -> {"free", "new", "pending"}]
        /\ result \in [Jobs -> Signal]
    BY DEF TypeInv, TypeOK
  <1>1. /\ \A v \in Workers : pc[v] # "idle" => JobAt(v) \in Jobs /\ task[v] \in Slots
        /\ \A v \in Workers : outcome[v] = "ok" => pc[v] # "idle"
    BY AtWork DEF OkInv
  <1>2. \A j \in Jobs : Settled(j) => Settled(j)'
    BY SettledStays
  \* Steps that leave the handlers alone and the entries in the stream.
  <1>3. ASSUME UNCHANGED <<handlerVars, suspended>>,
               \A s \in Slots : entry[s] # "free" => entry'[s] # "free",
               \/ UNCHANGED result
               \/ \A w \in Workers : pc[w] \notin {"ack", "refund", "deadAck", "deadMark"}
        PROVE  /\ OutcomeInv'
               /\ \A j \in Jobs : Live(j) /\ ~Live(j)' => Told(j)'
    <2>1. \A v \in Workers : JobAt(v)' = JobAt(v) /\ pc'[v] = pc[v] /\ outcome'[v] = outcome[v]
                              /\ task'[v] = task[v]
      BY <1>3 DEF handlerVars, JobAt
    <2>2. ASSUME NEW v \in Workers, pc[v] # "idle", Settled(JobAt(v)) PROVE Settled(JobAt(v))'
      BY <1>1, <1>2, <2>1, <2>2 DEF Settled
    <2>3. ASSUME NEW v \in Workers, pc[v] \in {"ack", "refund", "deadAck", "deadMark"} PROVE Told(JobAt(v))'
      BY <1>1, <1>3, <2>1, <2>2, <2>3 DEF Told, OutcomeInv
    <2>4. ASSUME NEW v \in Workers, pc[v] # "idle", entry'[task[v]] = "free" PROVE pc[v] \in {"refund", "deadMark"}
      BY <1>1, <1>3, <2>4 DEF OutcomeInv
    <2>5. OutcomeInv'
      BY <1>1, <1>3, <2>1, <2>2, <2>3, <2>4 DEF OutcomeInv
    <2>6. \A j \in Jobs : Live(j) => Live(j)'
      BY <1>3, <2>1 DEF Live, Handled
    <2> QED BY <2>5, <2>6
  <1>4. ASSUME NEW i \in Jobs, Accept(i) \/ AcceptDies(i)
        PROVE  /\ UNCHANGED <<handlerVars, suspended, result>>
               /\ \A s \in Slots : entry[s] # "free" => entry'[s] # "free"
    BY <1>0, <1>4 DEF Accept, AcceptCharge, AcceptPutInput, AcceptCreateRow, AcceptEnqueue, AcceptDies,
                      Enqueue, queueVars
  <1>5. ASSUME NEW i \in Jobs, \/ DeletePurge(i) \/ DeleteMark(i) \/ DeleteDies(i)
                               \/ Clean(i) \/ CleanDies(i) \/ Sweep(i)
        PROVE  /\ UNCHANGED <<handlerVars, suspended, result>>
               /\ \A s \in Slots : entry[s] # "free" => entry'[s] # "free"
    BY <1>0, <1>5 DEF DeletePurge, DeleteMark, DeleteDies, Clean, CleanExpired, CleanMark, CleanDeleted,
                      CleanDies, Sweep, Enqueue, queueVars
  <1>6. CASE Tick \/ LoseRedis \/ Suspend \/ Reinstate \/ UNCHANGED vars
    <2>1. ~LoseRedis /\ ~Suspend /\ ~Reinstate
      BY DEF NothingLost, LoseRedis, Suspend, Reinstate, Fault, OutcomeInv
    <2> QED BY <1>3, <1>6, <2>1 DEF Tick, vars, queueVars
  <1>7. ASSUME NEW w \in Workers, NEW s \in Slots, DequeueFresh(w, s) \/ Reclaim(w, s)
        PROVE  /\ OutcomeInv'
               /\ \A j \in Jobs : Live(j) /\ ~Live(j)' => Told(j)'
    <2>1. /\ UNCHANGED <<suspended, result, outcome, latest>>
          /\ pc[w] = "idle" /\ pc'[w] = "check" /\ task'[w] = s /\ outcome[w] # "ok"
          /\ entry'[s] # "free" /\ \A t \in Slots : t # s => entry'[t] = entry[t]
          /\ \A v \in Workers : v # w => pc'[v] = pc[v] /\ task'[v] = task[v]
      BY <1>0, <1>1, <1>7 DEF DequeueFresh, Reclaim, Begin, tableVars
    <2>2. ASSUME NEW v \in Workers
          PROVE  /\ pc'[v] = "store" => outcome'[v] # "none"
                 /\ pc'[v] = "report" \/ outcome'[v] = "ok" => Settled(JobAt(v))'
                 /\ pc'[v] \in {"ack", "refund", "deadAck", "deadMark"} => Told(JobAt(v))'
                 /\ pc'[v] # "idle" /\ entry'[task'[v]] = "free" => pc'[v] \in {"refund", "deadMark"}
      <3>1. CASE v = w
        BY <2>1, <3>1
      <3>2. CASE v # w
        <4>1. pc'[v] = pc[v] /\ task'[v] = task[v] /\ outcome'[v] = outcome[v]
          BY <2>1, <3>2
        <4>2. (Settled(JobAt(v)) => Settled(JobAt(v))') /\ (Told(JobAt(v)) => Told(JobAt(v))')
          BY <2>1, <4>1 DEF JobAt, Settled, Told
        <4>3. pc[v] # "idle" /\ entry'[task[v]] = "free" => entry[task[v]] = "free"
          BY <1>1, <2>1
        <4> QED BY <4>1, <4>2, <4>3 DEF OutcomeInv
      <3> QED BY <3>1, <3>2
    <2>3. ASSUME NEW j \in Jobs, Live(j) PROVE Live(j)'
      <3>1. PICK t \in Slots : JobOf(t) = j /\ (entry[t] # "free" \/ Handled(t))
        BY <2>3 DEF Live
      <3>2. CASE t = s
        BY <2>1, <3>1, <3>2 DEF Live
      <3>3. CASE t # s /\ entry[t] # "free"
        BY <2>1, <3>1, <3>3 DEF Live
      <3>4. CASE Handled(t)
        <4>1. PICK v \in Workers : task[v] = t
          BY <3>4 DEF Handled
        <4>2. v # w
          BY <2>1, <4>1, Bounds DEF TypeInv, HandlersHoldEntries
        <4>3. Handled(t)'
          BY <2>1, <4>1, <4>2 DEF Handled
        <4> QED BY <3>1, <4>3 DEF Live
      <3> QED BY <3>1, <3>2, <3>3, <3>4
    <2> QED BY <2>1, <2>2, <2>3 DEF OutcomeInv
  <1>8. ASSUME NEW w \in Workers, Handle(w) \/ HandlerDies(w)
        PROVE  /\ OutcomeInv'
               /\ \A j \in Jobs : Live(j) /\ ~Live(j)' => Told(j)'
    BY <1>8, OutcomeHandle
  <1> QED BY <1>3, <1>4, <1>5, <1>6, <1>7, <1>8 DEF Next

\* The last stream entry of a job is gone, and its last handler has returned,
\* only once the job is settled or its error was published.
THEOREM NoneLeftUntold ==
    ASSUME NothingLost
    PROVE  Spec => LeavesQueueWithOutcome
  <1>1. Init => OutcomeInv /\ OkInv /\ KeepInv
    BY DEF Init, OutcomeInv, OkInv, KeepInv, KeepJob, NoSignal, NoRow
  <1>2. TypeInv /\ TypeInv' /\ OkInv /\ OkInv' /\ KeepInv /\ OneDelivery /\ OutcomeInv /\ [Next]_vars
           => /\ OutcomeInv'
              /\ [\A j \in Jobs : Live(j) /\ ~Live(j)' => Settled(j)' \/ result'[j].sig = "error"]_vars
    BY OutcomeStep DEF Told
  <1>3. NoDuplicates
    BY DEF NothingLost
  <1> QED BY <1>1, <1>2, <1>3, TypeInit, TypeStep, OkStep, KeepStep, LedgerInvariance, PTL
          DEF Spec, LeavesQueueWithOutcome

=============================================================================
