---------------------------- MODULE BillingPeriod ----------------------------
(***************************************************************************)
(* The billing period of an account: the calendar arithmetic of quota.py   *)
(* (gateway) and of billing-period.ts (portal), and the time to live that  *)
(* record and refund give a usage counter.  Time advances by days, and a   *)
(* charge is pinned to a period on one day and may be recorded on the      *)
(* next.                                                                   *)
(***************************************************************************)
EXTENDS Integers

CONSTANTS
    Anchors,    \* billing anchor days
    FirstYear,  \* the first day is the last of November of this year
    LastYear    \* bound: time stops at the end of this year

ASSUME AnchorsAssumption == Anchors \subseteq 1 .. 31
ASSUME YearsAssumption == FirstYear \in Nat \ {0} /\ LastYear \in Nat

VARIABLES
    anchor,     \* the account's billing anchor day
    today,      \* the date, UTC
    pinned,     \* the period of a charge under way, or NoPeriod
    counter,    \* the period whose counter was charged last, or NoPeriod
    left        \* full days that this counter lives on

vars == <<anchor, today, pinned, counter, left>>

-----------------------------------------------------------------------------
(* Dates.                                                                  *)

Date(y, m, d) == [year |-> y, month |-> m, day |-> d]

Leap(y) == y % 4 = 0 /\ (y % 100 # 0 \/ y % 400 = 0)

LastDay(y, m) ==
    IF m = 2 THEN (IF Leap(y) THEN 29 ELSE 28) ELSE IF m \in {4, 6, 9, 11} THEN 30 ELSE 31

Dates == {x \in [year : Nat, month : 1 .. 12, day : 1 .. 31] : x.day <= LastDay(x.year, x.month)}

NoPeriod == Date(0, 1, 1)

AtOrAfter(a, b) ==
    \/ a.year > b.year
    \/ a.year = b.year /\ a.month > b.month
    \/ a.year = b.year /\ a.month = b.month /\ a.day >= b.day

Tomorrow(x) ==
    IF x.day < LastDay(x.year, x.month) THEN [x EXCEPT !.day = @ + 1]
    ELSE IF x.month < 12 THEN Date(x.year, x.month + 1, 1)
    ELSE Date(x.year + 1, 1, 1)

\* The days from a date to a later one that is at most a month and a bit away.
DaysTo(a, b) ==
    IF a.month = b.month THEN b.day - a.day
    ELSE LastDay(a.year, a.month) - a.day + b.day

Smaller(a, b) == IF a <= b THEN a ELSE b

-----------------------------------------------------------------------------
(* quota.py                                                                *)

AnchorDate(y, m, a) == Date(y, m, Smaller(a, LastDay(y, m)))

\* Mutant: a period begins after its anchor day.
PeriodStartAfter(a, x) ==
    IF AtOrAfter(AnchorDate(x.year, x.month, a), x)
    THEN IF x.month = 1 THEN AnchorDate(x.year - 1, 12, a)
         ELSE AnchorDate(x.year, x.month - 1, a)
    ELSE AnchorDate(x.year, x.month, a)

\* current_period_start
PeriodStart(a, x) ==
    LET thisMonth == AnchorDate(x.year, x.month, a)
    IN  IF AtOrAfter(x, thisMonth) THEN thisMonth
        ELSE IF x.month = 1 THEN AnchorDate(x.year - 1, 12, a)
        ELSE AnchorDate(x.year, x.month - 1, a)

NextPeriodStart(a, x) ==
    LET thisMonth == AnchorDate(x.year, x.month, a)
    IN  IF ~AtOrAfter(x, thisMonth) THEN thisMonth
        ELSE IF x.month = 12 THEN AnchorDate(x.year + 1, 1, a)
        ELSE AnchorDate(x.year, x.month + 1, a)

\* Mutant: the days that are left of the month.
DaysOfMonth(a, x) == LastDay(x.year, x.month) - x.day + 1

\* period_ttl, in days
PeriodTtl(a, x) ==
    LET remaining == DaysTo(x, NextPeriodStart(a, x))
    IN  IF remaining < 1 THEN 1 ELSE remaining

-----------------------------------------------------------------------------
(* billing-period.ts: months count from 0, and day 0 of the month after is  *)
(* the last day of a month.                                                *)

\* Mutant: JavaScript's month taken for the month.
PortalClampShifted(y, m, a) == Date(y, m + 1, Smaller(a, LastDay(y, m)))

PortalClamp(y, m, a) == Date(y, m + 1, Smaller(a, LastDay(y, m + 1)))

PortalPeriodStart(a, x) ==
    LET month == x.month - 1
        thisMonth == PortalClamp(x.year, month, a)
    IN  IF AtOrAfter(x, thisMonth) THEN thisMonth
        ELSE IF month = 0 THEN PortalClamp(x.year - 1, 11, a)
        ELSE PortalClamp(x.year, month - 1, a)

-----------------------------------------------------------------------------
Init ==
    /\ anchor \in Anchors
    /\ today = Date(FirstYear, 11, 30)
    /\ pinned = NoPeriod
    /\ counter = NoPeriod
    /\ left = 0

NextDay ==
    /\ today # Date(LastYear, 12, 31)
    /\ today' = Tomorrow(today)
    /\ left' = IF left = 0 THEN 0 ELSE left - 1
    /\ UNCHANGED <<anchor, pinned, counter>>

\* accept_canonize pins the period ...
Pin ==
    /\ pinned = NoPeriod
    /\ pinned' = PeriodStart(anchor, today)
    /\ UNCHANGED <<anchor, today, counter, left>>

\* ... and record charges its counter, with the TTL as of now.
Record ==
    /\ pinned # NoPeriod
    /\ counter' = pinned
    /\ left' = PeriodTtl(anchor, today)
    /\ pinned' = NoPeriod
    /\ UNCHANGED <<anchor, today>>

\* refund: DECRBY creates the counter again if it has expired.
Refund ==
    /\ counter # NoPeriod
    /\ left' = PeriodTtl(anchor, today)
    /\ UNCHANGED <<anchor, today, pinned, counter>>

Next == NextDay \/ Pin \/ Record \/ Refund

Spec == Init /\ [][Next]_vars

-----------------------------------------------------------------------------
(* Properties.                                                             *)

\* The period starts on the last anchor date that is not in the future, where
\* the anchor date of a month is its anchor day or, in a shorter month, its last
\* day.
IsAnchorDate(x) ==
    \/ x.day = anchor
    \/ x.day < anchor /\ Tomorrow(x).day = 1

MonthBefore(x) == IF x.month = 1 THEN Date(x.year - 1, 12, 1) ELSE Date(x.year, x.month - 1, 1)

StartIsLatestAnchorDate ==
    LET s == PeriodStart(anchor, today) IN
    /\ s \in Dates /\ IsAnchorDate(s) /\ AtOrAfter(today, s)
    /\ \A month \in {today, MonthBefore(today)} : \A d \in 1 .. LastDay(month.year, month.month) :
          LET x == [month EXCEPT !.day = d]
          IN  IsAnchorDate(x) => AtOrAfter(s, x) \/ ~AtOrAfter(today, x)

\* A new period begins with the day that has come, so a counter is never taken
\* up again once its period is over, and lasts a month: 28 to 31 days.
PeriodsAdvance ==
    [][LET s == PeriodStart(anchor, today)
           n == PeriodStart(anchor, today')
       IN  s # n => n = today' /\ DaysTo(s, n) \in 28 .. 31]_vars

\* The counter of the current period does not expire before the period ends,
\* whenever in the period it was charged or refunded.
CounterOutlivesPeriod == counter = PeriodStart(anchor, today) => left >= 1

\* billing-period.ts: "Must match gateway/app/quota.py current_period_start()
\* exactly".  The portal shows usage of the period that the gateway charges.
PortalAgrees == PortalPeriodStart(anchor, today) = PeriodStart(anchor, today)

=============================================================================
