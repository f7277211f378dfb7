------------------------- MODULE UsageReporterProofs -------------------------
(* Proofs about UsageReporter, for any jobs, clock, windows and faults.    *)
EXTENDS UsageReporter, TLAPS

\* Later ticks are of the same second or of a later one.
LEMMA SecondMonotone == \A a, b \in Int : a <= b => Second(a) <= Second(b)
  BY TicksAssumption DEF Second

\* Seconds are integers.
LEMMA SecondType == \A a \in Int : Second(a) \in Int
  BY TicksAssumption DEF Second

\* Ticks before the epoch are of seconds before it.
LEMMA SecondSign == \A a \in Int : (a >= 0 => Second(a) >= 0) /\ (a < 0 => Second(a) < 0)
  BY TicksAssumption DEF Second

-----------------------------------------------------------------------------
(* Type correctness.                                                       *)

\* The bounds on the constants that the arithmetic below needs.
LEMMA Bounds ==
    /\ TicksPerSecond \in Nat \ {0} /\ MaxTime \in Nat /\ NoTime \notin Int
    /\ Lookback \in Nat \ {0} /\ MaxWindow \in Nat \ {0}
    /\ MaxFaults \in Nat /\ Comp \subseteq Jobs
  BY TicksAssumption, WindowAssumption, FaultsAssumption, JobsAssumption

\* The initial state is well typed.
LEMMA TypeInit == Init => TypeOK
  BY Bounds DEF Init, TypeOK, Times

\* Every step keeps the types.
LEMMA TypeStep == TypeOK /\ [Next]_vars => TypeOK'
  <1> SUFFICES ASSUME TypeOK, [Next]_vars PROVE TypeOK'
    OBVIOUS
  <1> USE Bounds DEF Times, workerVars, reporterVars, billingVars
  <1>1. ASSUME NEW j \in Jobs, Stamp(j) PROVE TypeOK'
    BY <1>1 DEF TypeOK, Stamp
  <1>2. ASSUME NEW j \in Jobs, Insert(j) PROVE TypeOK'
    BY <1>2 DEF TypeOK, Insert, Row
  <1>3. CASE BeginRun
    <2>1. PICK mark \in {watermark, NoTime} :
             /\ UNCHANGED faults \/ Fault("watermark")
             /\ start' = WindowStart(mark)
      BY <1>3 DEF BeginRun
    <2>2. WindowStart(mark) \in Int
      BY DEF WindowStart, Larger, TypeOK
    <2>3. faults' \in 0 .. MaxFaults
      BY <2>1 DEF TypeOK, Fault
    <2>4. passed' \subseteq Int
      <3>1. \A from : LeftOut(from) \subseteq Int
        BY SecondType DEF LeftOut
      <3> QED BY <1>3, <3>1 DEF BeginRun, TypeOK
    <2> QED BY <1>3, <2>1, <2>2, <2>3, <2>4 DEF TypeOK, BeginRun, WindowEnd
  <1>4. CASE Query
    BY <1>4 DEF TypeOK, Query
  <1>5. CASE LoadMap
    BY <1>5 DEF TypeOK, LoadMap, Fault
  <1>6. CASE Push
    <2>1. \A r \in Row : EventIdentifier(r) \in Event /\ r.job \in Jobs
      BY SecondType DEF EventIdentifier, Event, Row
    <2> QED BY <1>6, <2>1 DEF TypeOK, Push, Fault
  <1>7. CASE Commit
    <2>1. end \in Int
      BY DEF TypeOK
    <2>2. Second(end) \in Int
      BY <2>1, SecondType
    <2>3. passed' \subseteq Int
      BY <1>7, <2>2 DEF TypeOK, Commit
    <2> QED BY <1>7, <2>3 DEF TypeOK, Commit, EndRun
  <1>8. CASE Die
    BY <1>8 DEF TypeOK, Die, EndRun, Fault
  <1>9. CASE Tick
    BY <1>9 DEF TypeOK, Tick
  <1>10. CASE UNCHANGED vars
    BY <1>10 DEF TypeOK, vars
  <1> QED BY <1>1, <1>2, <1>3, <1>4, <1>5, <1>6, <1>7, <1>8, <1>9, <1>10 DEF Next

\* Every variable of the reporter keeps its type.
THEOREM ReporterTypeCorrect == Spec => []TypeOK
  BY TypeInit, TypeStep, PTL DEF Spec

-----------------------------------------------------------------------------
(* No row is billed twice.                                                 *)

\* Every event is the event of a row, and so are the ones still to be pushed.
EventsInv ==
    /\ todo \subseteq rows
    /\ \A e \in metered : \E r \in rows : e = EventIdentifier(r)

\* Every step keeps EventsInv.
LEMMA EventsStep == EventsInv /\ [Next]_vars => EventsInv'
  <1> SUFFICES ASSUME EventsInv, [Next]_vars PROVE EventsInv'
    OBVIOUS
  <1> USE DEF EventsInv, EventIdentifier, workerVars, reporterVars, billingVars
  <1>1. ASSUME NEW j \in Jobs, Stamp(j) \/ Insert(j) PROVE EventsInv'
    BY <1>1 DEF Stamp, Insert
  <1>2. CASE BeginRun \/ LoadMap \/ Tick \/ UNCHANGED vars
    BY <1>2 DEF BeginRun, LoadMap, Tick, vars
  <1>3. CASE Query
    BY <1>3 DEF Query
  <1>4. CASE Push
    BY <1>4 DEF Push
  <1>5. CASE Commit \/ Die
    BY <1>5 DEF Commit, Die, EndRun
  <1> QED BY <1>1, <1>2, <1>3, <1>4, <1>5 DEF Next

\* Two events of a job are events of two rows of it, whatever run is repeated, and
\* even if the watermark is lost: a retry never bills a row again.
THEOREM NothingBilledTwice == Spec => []RetriesBillOnce
  <1>1. Init => EventsInv
    BY DEF Init, EventsInv
  <1>2. EventsInv => RetriesBillOnce
    BY DEF EventsInv, RetriesBillOnce, EventsOf, RowsOf, EventIdentifier
  <1> QED BY <1>1, <1>2, EventsStep, PTL DEF Spec

-----------------------------------------------------------------------------
(* Windows leave no gap.                                                   *)

\* A row is stamped, inserted and looked for in this order.
ClockInv ==
    /\ \A j \in Jobs : stamped[j] # NoTime => stamped[j] <= now
    /\ \A r \in rows : r.stamp <= r.inserted /\ r.inserted <= now
    /\ watermark # NoTime => watermark <= now /\ Second(watermark) \in passed

\* What lies before a window is reported or was left out.
WindowInv ==
    phase # "idle" =>
        /\ end <= now
        /\ \A t \in Times : Second(t) <= Second(start) =>
              Second(t) \in passed \/ (watermark # NoTime /\ Second(t) <= Second(watermark))

\* Once the query is made, a row of the window is billed or will be.
Timely(r) == Prompt(r) /\ Second(r.stamp) # Second(end) /\ InWindow(r) /\ r.job \notin skipped

CoverInv ==
    /\ phase \in {"map", "push", "commit"} =>
          \A r \in rows : Timely(r) => EventsOf(r.job) # {} \/ \E q \in todo : q.job = r.job
    /\ phase \in {"idle", "commit"} => todo = {}

GapInv == ClockInv /\ WindowInv /\ CoverInv /\ NoGap

\* What the worker and the clock do disturbs no window: a row that is inserted
\* now is not Prompt unless it is of the second that is running.
LEMMA GapWorker ==
    ASSUME TypeOK, GapInv, NEW j \in Jobs, Stamp(j) \/ Insert(j)
    PROVE  GapInv'
  <1> USE DEF workerVars, reporterVars, billingVars
  <1>1. CASE Stamp(j)
    <2>1. ClockInv'
      BY <1>1, Bounds DEF Stamp, GapInv, ClockInv, TypeOK, Times
    <2> QED BY <1>1, <2>1 DEF Stamp, GapInv, WindowInv, CoverInv, NoGap, Timely, Prompt, InWindow,
                              EventsOf
  <1>2. CASE Insert(j)
    <2>a. PICK new : new = [job |-> j, stamp |-> stamped[j], inserted |-> now]
      OBVIOUS
    <2>1. /\ stamped[j] \in Times /\ stamped[j] <= now /\ rows' = rows \cup {new}
          /\ new.job = j /\ new.stamp = stamped[j] /\ new.inserted = now
      BY <1>2, <2>a DEF Insert, GapInv, ClockInv, TypeOK
    <2>2. ClockInv'
      BY <1>2, <2>1, Bounds DEF Insert, GapInv, ClockInv, TypeOK, Times
    <2>3. WindowInv'
      BY <1>2 DEF Insert, GapInv, WindowInv
    <2>4. Second(now) \in Int /\ Second(stamped[j]) \in Int
      BY <2>1, SecondType DEF TypeOK, Times
    <2>5. CoverInv'
      <3>1. phase # "idle" => ~Timely(new)'
        <4> SUFFICES ASSUME phase # "idle", Timely(new)' PROVE FALSE
          OBVIOUS
        <4>1. Second(now) = Second(stamped[j])
          BY <1>2, <2>1 DEF Timely, Prompt, Insert
        <4>2. Second(stamped[j]) <= Second(end) /\ Second(stamped[j]) # Second(end)
          BY <1>2, <2>1 DEF Timely, InWindow, Insert
        <4>3. end \in Int /\ now \in Int /\ end <= now
          BY DEF GapInv, WindowInv, TypeOK, Times
        <4>4. Second(end) <= Second(now) /\ Second(end) \in Int
          BY <4>3, SecondMonotone, SecondType
        <4> QED BY <2>4, <4>1, <4>2, <4>4
      <3>2. \A r \in rows : Timely(r)' => Timely(r)
        BY <1>2 DEF Insert, Timely, Prompt, InWindow
      <3> QED BY <1>2, <2>1, <3>1, <3>2 DEF Insert, GapInv, CoverInv, EventsOf
    <2>6. NoGap'
      <3>1. watermark # NoTime /\ Second(stamped[j]) <= Second(watermark) => ~Prompt(new)'
        <4> SUFFICES ASSUME watermark # NoTime, Second(stamped[j]) <= Second(watermark), Prompt(new)'
                     PROVE  FALSE
          OBVIOUS
        <4>1. Second(now) = Second(stamped[j]) /\ Second(stamped[j]) \notin passed
          BY <1>2, <2>1 DEF Prompt, Insert
        <4>2. watermark \in Int /\ now \in Int /\ watermark <= now /\ Second(watermark) \in passed
          BY DEF GapInv, ClockInv, TypeOK, Times
        <4>3. Second(watermark) <= Second(now) /\ Second(watermark) \in Int
          BY <4>2, SecondMonotone, SecondType
        <4> QED BY <2>4, <4>1, <4>2, <4>3
      <3> QED BY <1>2, <2>1, <3>1 DEF Insert, GapInv, NoGap, Prompt, EventsOf
    <2> QED BY <2>2, <2>3, <2>5, <2>6 DEF GapInv
  <1> QED BY <1>1, <1>2

\* The steps of the reporter keep its windows without a gap.
LEMMA GapReporter ==
    ASSUME TypeOK, GapInv, BeginRun \/ Query \/ LoadMap \/ Push \/ Commit \/ Die
    PROVE  GapInv'
  <1> USE DEF workerVars, reporterVars, billingVars
  <1>1. CASE BeginRun
    <2>1. PICK from \in Int : start' = from /\ passed' = passed \cup LeftOut(from)
      <3>1. \A mark \in {watermark, NoTime} : WindowStart(mark) \in Int
        BY Bounds DEF WindowStart, Larger, TypeOK, Times
      <3> QED BY <1>1, <3>1 DEF BeginRun
    <2>2. \A s \in Times : Second(s) <= Second(from) =>
             Second(s) \in passed' \/ (watermark # NoTime /\ Second(s) <= Second(watermark))
      <3> SUFFICES ASSUME NEW s \in Times, Second(s) <= Second(from), Second(s) \notin passed'
                   PROVE  watermark # NoTime /\ Second(s) <= Second(watermark)
        OBVIOUS
      <3>1. Second(s) \notin LeftOut(from)
        BY <2>1
      <3>2. watermark # NoTime /\ ~(Second(s) > Second(watermark))
        BY <3>1 DEF LeftOut
      <3> QED BY <3>2, SecondType DEF TypeOK, Times
    <2>3. WindowInv'
      BY <1>1, <2>1, <2>2 DEF BeginRun, WindowEnd, WindowInv, TypeOK, Times
    <2>4. ClockInv'
      BY <1>1, <2>1 DEF BeginRun, GapInv, ClockInv
    <2>5. CoverInv'
      BY <1>1 DEF BeginRun, GapInv, CoverInv
    <2>6. NoGap'
      BY <1>1, <2>1 DEF BeginRun, GapInv, NoGap, Prompt, EventsOf
    <2> QED BY <2>3, <2>4, <2>5, <2>6 DEF GapInv
  <1>2. CASE Query
    <2>1. PICK R \in SUBSET {r \in rows : InWindow(r)} :
             /\ \A r \in rows : InWindow(r) => \E q \in R : q.job = r.job
             /\ todo' = R
             /\ phase' = IF R = {} THEN "commit" ELSE "map"
      BY <1>2 DEF Query
    <2>2. CoverInv'
      BY <1>2, <2>1 DEF Query, CoverInv, Timely, InWindow
    <2>3. ClockInv' /\ WindowInv' /\ NoGap'
      BY <1>2, <2>1 DEF Query, GapInv, ClockInv, WindowInv, NoGap, Prompt, EventsOf
    <2> QED BY <2>2, <2>3 DEF GapInv
  <1>3. CASE LoadMap
    BY <1>3 DEF LoadMap, GapInv, ClockInv, WindowInv, CoverInv, NoGap, Timely, Prompt,
                InWindow, EventsOf
  <1>4. CASE Push
    <2>1. PICK r \in todo :
             /\ \/ metered' = metered \cup {EventIdentifier(r)} /\ skipped' = skipped
                \/ metered' = metered /\ skipped' = skipped \cup {r.job}
             /\ todo' = todo \ {r}
             /\ phase' = IF todo' = {} THEN "commit" ELSE "push"
      BY <1>4 DEF Push
    <2>2. r \in Row
      BY DEF TypeOK
    <2>3. \A j \in Jobs : EventsOf(j) \subseteq EventsOf(j)'
      BY <2>1 DEF EventsOf
    <2>4. r.job \notin skipped' => EventsOf(r.job)' # {}
      <3>1. EventIdentifier(r).job = r.job
        BY DEF EventIdentifier
      <3> QED BY <2>1, <3>1 DEF EventsOf
    <2>5. ClockInv' /\ WindowInv'
      BY <1>4, <2>1 DEF Push, GapInv, ClockInv, WindowInv
    <2>6. CoverInv'
      BY <1>4, <2>1, <2>2, <2>3, <2>4 DEF Push, GapInv, CoverInv, Timely, Prompt, InWindow, TypeOK, Row
    <2>7. NoGap'
      BY <1>4, <2>1, <2>3 DEF Push, GapInv, NoGap, Prompt, TypeOK, Row
    <2> QED BY <2>5, <2>6, <2>7 DEF GapInv
  <1>5. CASE Commit
    <2>1. /\ watermark' = end /\ passed' = passed \cup {Second(end)} /\ todo = {}
          /\ phase' = "idle" /\ todo' = {} /\ rows' = rows /\ metered' = metered /\ now' = now
          /\ skipped' = skipped
      BY <1>5 DEF Commit, EndRun, GapInv, CoverInv
    <2>2. end \in Int /\ now \in Int /\ end <= now /\ end # NoTime
      BY <1>5, Bounds DEF Commit, GapInv, WindowInv, TypeOK, Times
    <2>3. ClockInv' /\ WindowInv' /\ CoverInv'
      BY <1>5, <2>1, <2>2 DEF Commit, GapInv, ClockInv, WindowInv, CoverInv
    <2>4. ASSUME NEW r \in rows, Second(r.stamp) <= Second(end), Prompt(r)', r.job \notin skipped
          PROVE  EventsOf(r.job)' # {}
      <3>1. Prompt(r) /\ Second(r.stamp) # Second(end)
        BY <2>1, <2>4 DEF Prompt
      <3>2. r.stamp \in Int /\ r.stamp >= 0 /\ Second(r.stamp) \in Int /\ Second(r.stamp) >= 0
        BY SecondType, SecondSign DEF TypeOK, Row, Times
      <3>3. EventsOf(r.job)' = EventsOf(r.job)
        BY <2>1 DEF EventsOf
      <3>4. CASE InWindow(r)
        BY <1>5, <2>1, <2>4, <3>1, <3>3, <3>4 DEF Commit, GapInv, CoverInv, Timely
      <3>5. CASE ~InWindow(r)
        <4>1. start \in Int /\ Second(start) \in Int
          BY SecondType DEF TypeOK
        <4>2. Second(r.stamp) <= Second(start)
          BY <2>4, <3>2, <3>5, <4>1 DEF InWindow
        <4>3. r.stamp \in Times
          BY DEF TypeOK, Row
        <4>4. Second(r.stamp) \notin passed
          BY <3>1 DEF Prompt
        <4>5. watermark # NoTime /\ Second(r.stamp) <= Second(watermark)
          BY <1>5, <4>2, <4>3, <4>4 DEF Commit, GapInv, WindowInv
        <4> QED BY <2>4, <3>1, <3>3, <4>5 DEF GapInv, NoGap
      <3> QED BY <3>4, <3>5
    <2>5. NoGap'
      BY <2>1, <2>4 DEF NoGap
    <2> QED BY <2>3, <2>5 DEF GapInv
  <1>6. CASE Die
    BY <1>6 DEF Die, EndRun, GapInv, ClockInv, WindowInv, CoverInv, NoGap, Prompt, EventsOf
  <1> QED BY <1>1, <1>2, <1>3, <1>4, <1>5, <1>6

\* Every step keeps GapInv.
LEMMA GapStep == TypeOK /\ GapInv /\ [Next]_vars => GapInv'
  <1> SUFFICES ASSUME TypeOK, GapInv, [Next]_vars PROVE GapInv'
    OBVIOUS
  <1> USE DEF workerVars, reporterVars, billingVars
  <1>1. CASE Tick
    <2>1. ClockInv' /\ WindowInv'
      BY <1>1, Bounds DEF Tick, GapInv, ClockInv, WindowInv, TypeOK, Times, Row
    <2> QED BY <1>1, <2>1 DEF Tick, GapInv, CoverInv, NoGap, Timely, Prompt, InWindow, EventsOf
  <1>2. CASE UNCHANGED vars
    BY <1>2 DEF vars, GapInv, ClockInv, WindowInv, CoverInv, NoGap, Timely, Prompt, InWindow, EventsOf
  <1> QED BY <1>1, <1>2, GapWorker, GapReporter DEF Next

\* Whenever and however often runs of the reporter fail, no job whose row was
\* inserted in the second of its stamp falls between two windows, unless the code
\* itself lets it go (NoGap says where).
THEOREM NothingLeftOut == Spec => []NoGap
  <1>1. Init => GapInv
    BY DEF Init, GapInv, ClockInv, WindowInv, CoverInv, NoGap
  <1>2. GapInv => NoGap
    BY DEF GapInv
  <1>3. TypeOK /\ GapInv /\ [Next]_vars => GapInv'
    BY GapStep
  <1> QED BY <1>1, <1>2, <1>3, TypeInit, TypeStep, PTL DEF Spec

=============================================================================
