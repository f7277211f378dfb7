------------------------- MODULE BillingPeriodProofs -------------------------
(* Proofs about BillingPeriod, for every anchor day and every date.        *)
EXTENDS BillingPeriod, TLAPS

\* A month has 28 to 31 days, December and January have 31.
LEMMA MonthLength ==
    \A y \in Nat, m \in 1 .. 12 :
        /\ LastDay(y, m) \in 28 .. 31
        /\ m \in {1, 12} => LastDay(y, m) = 31
  BY DEF LastDay

\* What the calendar has of every record of a year, a month and a day.
LEMMA DateParts ==
    \A x \in Dates : /\ x.year \in Nat /\ x.month \in 1 .. 12 /\ x.day \in 1 .. 31
                     /\ x.day <= LastDay(x.year, x.month)
                     /\ x = Date(x.year, x.month, x.day)
  BY DEF Dates, Date

\* The day after a date is a date.
LEMMA TomorrowIsDate == \A x \in Dates : Tomorrow(x) \in Dates
  <1> SUFFICES ASSUME NEW x \in Dates PROVE Tomorrow(x) \in Dates
    OBVIOUS
  <1> USE DateParts, MonthLength DEF Tomorrow, Date
  <1>1. CASE x.day < LastDay(x.year, x.month)
    BY <1>1 DEF Dates
  <1>2. CASE ~(x.day < LastDay(x.year, x.month)) /\ x.month < 12
    BY <1>2 DEF Dates
  <1>3. CASE ~(x.day < LastDay(x.year, x.month)) /\ ~(x.month < 12)
    BY <1>3 DEF Dates
  <1> QED BY <1>1, <1>2, <1>3

\* Every month has one anchor date, and it is a date.
LEMMA AnchorDateIsDate ==
    \A y \in Nat, m \in 1 .. 12, a \in 1 .. 31 : AnchorDate(y, m, a) \in Dates
  BY MonthLength DEF AnchorDate, Smaller, Date, Dates

\* The portal computes the same date of a month, counting its months from 0.
LEMMA PortalClampAgrees ==
    \A y \in Nat, m \in 1 .. 12, a \in 1 .. 31 : PortalClamp(y, m - 1, a) = AnchorDate(y, m, a)
  BY DEF PortalClamp, AnchorDate

-----------------------------------------------------------------------------
\* The part of the types that the calendar needs; it does not depend on counters.
Clock == anchor \in Anchors /\ today \in Dates /\ today.year >= 1

\* The first day is a date.
LEMMA ClockInit == Init => Clock
  BY YearsAssumption, MonthLength DEF Init, Clock, Dates, Date, LastDay

\* The day after a date is one.
LEMMA ClockStep == Clock /\ [Next]_vars => Clock'
  <1>1. \A x \in Dates : Tomorrow(x).year >= x.year
    BY DateParts DEF Tomorrow, Date
  <1> QED BY <1>1, TomorrowIsDate, DateParts DEF Clock, Next, NextDay, Pin, Record, Refund, vars

\* The portal and the gateway agree on the billing period of every account on
\* every day.
THEOREM PortalMatchesGateway == Spec => []PortalAgrees
  <1>1. Clock => PortalAgrees
    <2> SUFFICES ASSUME Clock PROVE PortalPeriodStart(anchor, today) = PeriodStart(anchor, today)
      BY DEF PortalAgrees
    <2>1. anchor \in 1 .. 31 /\ today.year \in Nat /\ today.month \in 1 .. 12
      BY AnchorsAssumption, DateParts DEF Clock
    <2>2. PortalClamp(today.year, today.month - 1, anchor) = AnchorDate(today.year, today.month, anchor)
      BY <2>1, PortalClampAgrees
    <2>3. CASE today.month = 1
      <3>1. PortalClamp(today.year - 1, 11, anchor) = AnchorDate(today.year - 1, 12, anchor)
        BY DEF PortalClamp, AnchorDate
      <3> QED BY <2>1, <2>2, <2>3, <3>1 DEF PortalPeriodStart, PeriodStart
    <2>4. CASE today.month # 1
      <3>1. PortalClamp(today.year, today.month - 1 - 1, anchor)
              = AnchorDate(today.year, today.month - 1, anchor)
        BY <2>1, <2>4, PortalClampAgrees
      <3> QED BY <2>1, <2>2, <2>4, <3>1 DEF PortalPeriodStart, PeriodStart
    <2> QED BY <2>3, <2>4
  <1> QED BY <1>1, ClockInit, ClockStep, PTL DEF Spec

-----------------------------------------------------------------------------
\* A date is an anchor date just when it is the anchor date of its month.
LEMMA AnchorDateOfMonth ==
    ASSUME Clock, NEW x \in Dates
    PROVE  IsAnchorDate(x) <=> x = AnchorDate(x.year, x.month, anchor)
  <1> USE DateParts, MonthLength, AnchorsAssumption DEF Clock
  <1>1. Tomorrow(x).day = 1 <=> x.day = LastDay(x.year, x.month)
    BY DEF Tomorrow, Date
  <1>2. x = AnchorDate(x.year, x.month, anchor)
           <=> x.day = Smaller(anchor, LastDay(x.year, x.month))
    BY DEF AnchorDate, Date
  <1> QED BY <1>1, <1>2 DEF IsAnchorDate, Smaller

\* The billing period starts on the latest anchor date that is not in the future,
\* for every anchor day and on every day: in particular no charge goes to a period
\* that has not begun, or to one that is over.
THEOREM PeriodStartIsLatest == Spec => []StartIsLatestAnchorDate
  <1>1. Clock => StartIsLatestAnchorDate
    <2> SUFFICES ASSUME Clock PROVE StartIsLatestAnchorDate
      OBVIOUS
    <2> DEFINE b == MonthBefore(today)
               this == AnchorDate(today.year, today.month, anchor)
               last == AnchorDate(b.year, b.month, anchor)
               s == PeriodStart(anchor, today)
    <2>1. /\ anchor \in 1 .. 31 /\ today.year \in Nat \ {0} /\ today.month \in 1 .. 12
          /\ today.day \in 1 .. 31
      BY AnchorsAssumption, DateParts DEF Clock
    <2>2. /\ b.year \in Nat /\ b.month \in 1 .. 12
          /\ \/ b.year < today.year
             \/ b.year = today.year /\ b.month < today.month
      BY <2>1 DEF MonthBefore, Date
    <2>3. this \in Dates /\ last \in Dates
      BY <2>1, <2>2, AnchorDateIsDate
    <2>4. /\ this.year = today.year /\ this.month = today.month
          /\ last.year = b.year /\ last.month = b.month
      BY DEF AnchorDate, Date
    <2>5. s = IF AtOrAfter(today, this) THEN this ELSE last
      BY <2>1 DEF PeriodStart, MonthBefore, Date
    <2>6. AtOrAfter(today, last)
      BY <2>1, <2>2, <2>4 DEF AtOrAfter
    <2>7. s \in Dates /\ AtOrAfter(today, s)
      BY <2>3, <2>5, <2>6
    <2>8. IsAnchorDate(s)
      BY <2>3, <2>4, <2>5, AnchorDateOfMonth
    <2>9. ASSUME NEW month \in {today, b}, NEW d \in 1 .. LastDay(month.year, month.month),
                 IsAnchorDate([month EXCEPT !.day = d])
          PROVE  AtOrAfter(s, [month EXCEPT !.day = d]) \/ ~AtOrAfter(today, [month EXCEPT !.day = d])
      <3> DEFINE x == [month EXCEPT !.day = d]
      <3>1. month = Date(month.year, month.month, month.day)
        BY DateParts DEF Clock, MonthBefore, Date
      <3>2. x = Date(month.year, month.month, d) /\ x \in Dates
        BY <2>1, <2>2, <3>1, MonthLength DEF Date, Dates
      <3>3. x = AnchorDate(month.year, month.month, anchor)
        BY <2>9, <3>2, AnchorDateOfMonth DEF Date
      <3>4. x = this \/ x = last
        BY <3>3
      <3>5. AtOrAfter(this, this) /\ AtOrAfter(last, last) /\ AtOrAfter(this, last)
        BY <2>1, <2>2, <2>3, <2>4, DateParts DEF AtOrAfter
      <3> QED BY <2>5, <3>4, <3>5
    <2> HIDE DEF b, s
    <2> QED BY <2>7, <2>8, <2>9 DEF StartIsLatestAnchorDate, b, s
  <1> QED BY <1>1, ClockInit, ClockStep, PTL DEF Spec

-----------------------------------------------------------------------------
(* The order of dates.                                                     *)

\* The calendar orders any two dates.
LEMMA DatesOrdered ==
    \A x, y, z \in Dates :
        /\ AtOrAfter(x, x)
        /\ AtOrAfter(x, y) /\ AtOrAfter(y, z) => AtOrAfter(x, z)
        /\ AtOrAfter(x, y) /\ AtOrAfter(y, x) => x = y
  BY DateParts DEF AtOrAfter

\* Tomorrow is later than today.
LEMMA TomorrowIsLater == \A x \in Dates : ~AtOrAfter(x, Tomorrow(x))
  BY DateParts, MonthLength DEF AtOrAfter, Tomorrow, Date

-----------------------------------------------------------------------------
(* How periods follow each other.                                          *)

\* The day of a month on which its period begins.
AnchorDay(y, m, a) == Smaller(a, LastDay(y, m))

\* It is one of the month's.
LEMMA AnchorDayInMonth ==
    ASSUME NEW y \in Nat, NEW m \in 1 .. 12, NEW a \in 1 .. 31
    PROVE  /\ AnchorDay(y, m, a) \in 1 .. LastDay(y, m)
           /\ AnchorDate(y, m, a) = Date(y, m, AnchorDay(y, m, a))
  BY MonthLength DEF AnchorDay, Smaller, AnchorDate

\* The first of the month after.
MonthAfter(x) == IF x.month = 12 THEN Date(x.year + 1, 1, 1) ELSE Date(x.year, x.month + 1, 1)

\* The period of a day begins this month or the month before, by the day's
\* place in the month.
LEMMA PeriodOfDay ==
    ASSUME NEW x \in Dates, x.year >= 1, NEW a \in 1 .. 31
    PROVE  /\ x.day >= AnchorDay(x.year, x.month, a) =>
                 /\ PeriodStart(a, x) = AnchorDate(x.year, x.month, a)
                 /\ NextPeriodStart(a, x) = AnchorDate(MonthAfter(x).year, MonthAfter(x).month, a)
           /\ x.day < AnchorDay(x.year, x.month, a) =>
                 /\ PeriodStart(a, x) = AnchorDate(MonthBefore(x).year, MonthBefore(x).month, a)
                 /\ NextPeriodStart(a, x) = AnchorDate(x.year, x.month, a)
  <1>1. /\ x.year \in Nat /\ x.month \in 1 .. 12 /\ x.day \in 1 .. 31
        /\ x.day <= LastDay(x.year, x.month)
    BY DateParts
  <1>2. /\ AnchorDay(x.year, x.month, a) \in Nat
        /\ AnchorDate(x.year, x.month, a) = Date(x.year, x.month, AnchorDay(x.year, x.month, a))
    <2>1. LastDay(x.year, x.month) \in 28 .. 31
      BY <1>1, MonthLength
    <2>2. /\ AnchorDay(x.year, x.month, a) \in 1 .. LastDay(x.year, x.month)
          /\ AnchorDate(x.year, x.month, a) = Date(x.year, x.month, AnchorDay(x.year, x.month, a))
      BY <1>1, AnchorDayInMonth
    <2> QED BY <2>1, <2>2
  <1>3. AtOrAfter(x, AnchorDate(x.year, x.month, a)) <=> x.day >= AnchorDay(x.year, x.month, a)
    BY <1>1, <1>2 DEF AtOrAfter, Date
  <1>4. MonthBefore(x).year = (IF x.month = 1 THEN x.year - 1 ELSE x.year)
    BY DEF MonthBefore, Date
  <1>5. MonthBefore(x).month = (IF x.month = 1 THEN 12 ELSE x.month - 1)
    BY DEF MonthBefore, Date
  <1>6. \A y, m : Date(y, m, 1).year = y /\ Date(y, m, 1).month = m
    BY DEF Date
  <1> QED BY <1>1, <1>2, <1>3, <1>4, <1>5, <1>6 DEF PeriodStart, NextPeriodStart, MonthAfter

\* A period begins in a year in which there are users.
LEMMA PeriodIsDate ==
    ASSUME NEW x \in Dates, x.year >= 1, NEW a \in 1 .. 31
    PROVE  /\ PeriodStart(a, x) \in Dates
           /\ AtOrAfter(x, PeriodStart(a, x))
           /\ PeriodStart(a, x) # NoPeriod
  <1>1. /\ x.year \in Nat /\ x.month \in 1 .. 12 /\ x.day \in 1 .. 31
    BY DateParts
  <1> DEFINE this == AnchorDate(x.year, x.month, a)
  <1>2. CASE AtOrAfter(x, this)
    <2>1. PeriodStart(a, x) = this
      BY <1>2 DEF PeriodStart
    <2>2. this \in Dates
      BY <1>1, AnchorDateIsDate
    <2>3. this # NoPeriod
      BY <1>1 DEF AnchorDate, NoPeriod, Date
    <2> QED BY <1>2, <2>1, <2>2, <2>3
  <1>3. CASE ~AtOrAfter(x, this) /\ x.month = 1
    <2>1. PeriodStart(a, x) = AnchorDate(x.year - 1, 12, a)
      BY <1>3 DEF PeriodStart
    <2>2. AnchorDate(x.year - 1, 12, a) \in Dates
      BY <1>1, AnchorDateIsDate
    <2>3. AnchorDate(x.year - 1, 12, a) # NoPeriod /\ AtOrAfter(x, AnchorDate(x.year - 1, 12, a))
      BY <1>1 DEF AnchorDate, NoPeriod, Date, AtOrAfter
    <2> QED BY <2>1, <2>2, <2>3
  <1>4. CASE ~AtOrAfter(x, this) /\ x.month # 1
    <2>1. PeriodStart(a, x) = AnchorDate(x.year, x.month - 1, a)
      BY <1>4 DEF PeriodStart
    <2>2. AnchorDate(x.year, x.month - 1, a) \in Dates
      BY <1>1, <1>4, AnchorDateIsDate
    <2>3. AnchorDate(x.year, x.month - 1, a) # NoPeriod /\ AtOrAfter(x, AnchorDate(x.year, x.month - 1, a))
      BY <1>1, <1>4 DEF AnchorDate, NoPeriod, Date, AtOrAfter
    <2> QED BY <2>1, <2>2, <2>3
  <1> QED BY <1>2, <1>3, <1>4

\* Days of the calendar's dates.
LEMMA DaysToDate ==
    \A y1, m1, d1, y2, m2, d2 :
        DaysTo(Date(y1, m1, d1), Date(y2, m2, d2))
          = IF m1 = m2 THEN d2 - d1 ELSE LastDay(y1, m1) - d1 + d2
  BY DEF DaysTo, Date

\* A month's distance is 28 to 31 days, from one anchor day to the next.
LEMMA MonthApart ==
    ASSUME NEW y \in Nat, NEW m \in 1 .. 12, NEW z \in Nat, NEW n \in 1 .. 12, NEW a \in 1 .. 31
    PROVE  LastDay(y, m) - AnchorDay(y, m, a) + AnchorDay(z, n, a) \in 28 .. 31
  <1>1. LastDay(y, m) \in 28 .. 31 /\ LastDay(z, n) \in 28 .. 31
    BY MonthLength
  <1>2. /\ AnchorDay(y, m, a) = IF a <= LastDay(y, m) THEN a ELSE LastDay(y, m)
        /\ AnchorDay(z, n, a) = IF a <= LastDay(z, n) THEN a ELSE LastDay(z, n)
    BY DEF AnchorDay, Smaller
  <1> QED BY <1>1, <1>2

\* Overnight the period stays and has a day less, or another begins that is 28
\* to 31 days after it; it has a day to go at least.
Passes(a, x) ==
    /\ DaysTo(x, NextPeriodStart(a, x)) \in Nat \ {0}
    /\ PeriodStart(a, x) # PeriodStart(a, Tomorrow(x)) =>
          /\ PeriodStart(a, Tomorrow(x)) = Tomorrow(x)
          /\ DaysTo(PeriodStart(a, x), Tomorrow(x)) \in 28 .. 31
    /\ PeriodStart(a, x) = PeriodStart(a, Tomorrow(x)) =>
          DaysTo(Tomorrow(x), NextPeriodStart(a, Tomorrow(x))) = DaysTo(x, NextPeriodStart(a, x)) - 1

\* So it is for every anchor day and every date.
LEMMA Overnight == ASSUME NEW x \in Dates, x.year >= 1, NEW a \in 1 .. 31 PROVE Passes(a, x)
  <1> DEFINE t == Tomorrow(x)
             y == x.year
             m == x.month
             d == x.day
             by == MonthBefore(x).year
             bm == MonthBefore(x).month
             fy == MonthAfter(x).year
             fm == MonthAfter(x).month
             L == LastDay(y, m)
             A == AnchorDay(y, m, a)
             B == AnchorDay(by, bm, a)
             F == AnchorDay(fy, fm, a)
  <1>1. /\ y \in Nat /\ y >= 1 /\ m \in 1 .. 12 /\ d \in 1 .. L /\ L \in 28 .. 31
        /\ x = Date(y, m, d)
    BY DateParts, MonthLength
  <1>2. /\ by \in Nat /\ bm \in 1 .. 12 /\ bm # m
        /\ fy \in Nat /\ fy >= 1 /\ fm \in 1 .. 12 /\ fm # m
    BY <1>1 DEF MonthBefore, MonthAfter, Date
  <1>3. /\ A \in 1 .. L /\ AnchorDate(y, m, a) = Date(y, m, A)
        /\ B \in 1 .. LastDay(by, bm) /\ AnchorDate(by, bm, a) = Date(by, bm, B)
        /\ F \in 1 .. LastDay(fy, fm) /\ AnchorDate(fy, fm, a) = Date(fy, fm, F)
    BY <1>1, <1>2, AnchorDayInMonth
  <1>4. t \in Dates
    BY TomorrowIsDate
  <1>5. \A u, v, w : Date(u, v, w).year = u /\ Date(u, v, w).month = v /\ Date(u, v, w).day = w
    BY DEF Date
  \* What PeriodOfDay says of today ...
  <1>6. /\ d >= A => PeriodStart(a, x) = Date(y, m, A) /\ NextPeriodStart(a, x) = Date(fy, fm, F)
        /\ d < A => PeriodStart(a, x) = Date(by, bm, B) /\ NextPeriodStart(a, x) = Date(y, m, A)
    BY <1>3, PeriodOfDay
  <1>7. CASE d < L
    <2>1. t = Date(y, m, d + 1)
      BY <1>1, <1>7 DEF Tomorrow, Date
    <2>2. t.year = y /\ t.month = m /\ t.day = d + 1 /\ t.year >= 1
      BY <1>1, <1>5, <2>1
    <2>3. /\ MonthBefore(t).year = by /\ MonthBefore(t).month = bm
          /\ MonthAfter(t).year = fy /\ MonthAfter(t).month = fm
      BY <2>2 DEF MonthBefore, MonthAfter
    <2>4. /\ t.day >= AnchorDay(t.year, t.month, a) =>
                /\ PeriodStart(a, t) = AnchorDate(t.year, t.month, a)
                /\ NextPeriodStart(a, t) = AnchorDate(MonthAfter(t).year, MonthAfter(t).month, a)
          /\ t.day < AnchorDay(t.year, t.month, a) =>
                /\ PeriodStart(a, t) = AnchorDate(MonthBefore(t).year, MonthBefore(t).month, a)
                /\ NextPeriodStart(a, t) = AnchorDate(t.year, t.month, a)
      BY <1>4, <2>2, PeriodOfDay
    \* ... and of tomorrow.
    <2>5. /\ d + 1 >= A => PeriodStart(a, t) = Date(y, m, A) /\ NextPeriodStart(a, t) = Date(fy, fm, F)
          /\ d + 1 < A => PeriodStart(a, t) = Date(by, bm, B) /\ NextPeriodStart(a, t) = Date(y, m, A)
      BY <1>3, <2>2, <2>3, <2>4
    <2>6. CASE d >= A
      <3>1. /\ DaysTo(Date(y, m, d), Date(fy, fm, F)) = L - d + F
            /\ DaysTo(Date(y, m, d + 1), Date(fy, fm, F)) = L - (d + 1) + F
        BY <1>2, DaysToDate
      <3>2. d + 1 >= A /\ L - d + F \in Nat \ {0} /\ L - (d + 1) + F = (L - d + F) - 1
        BY <1>1, <1>2, <1>3, <1>7, <2>6, MonthLength
      <3> HIDE DEF y, m, d, by, bm, fy, fm, t, A, B, F, L
      <3>3. x = Date(y, m, d)
        BY <1>1
      <3> QED BY <1>6, <2>1, <2>5, <2>6, <3>1, <3>2, <3>3 DEF Passes, t
    <2>7. CASE d + 1 < A
      <3>1. /\ DaysTo(Date(y, m, d), Date(y, m, A)) = A - d
            /\ DaysTo(Date(y, m, d + 1), Date(y, m, A)) = A - (d + 1)
        BY DaysToDate
      <3>2. d < A /\ A - d \in Nat \ {0} /\ A - (d + 1) = (A - d) - 1
        BY <1>1, <1>3, <2>7
      <3> HIDE DEF y, m, d, by, bm, fy, fm, t, A, B, F, L
      <3>3. x = Date(y, m, d)
        BY <1>1
      <3> QED BY <1>6, <2>1, <2>5, <2>7, <3>1, <3>2, <3>3 DEF Passes, t
    <2>8. CASE d + 1 = A
      <3>1. /\ DaysTo(Date(y, m, d), Date(y, m, A)) = A - d
            /\ DaysTo(Date(by, bm, B), Date(y, m, A)) = LastDay(by, bm) - B + A
        BY <1>2, DaysToDate
      <3>2. d < A /\ A - d \in Nat \ {0} /\ d + 1 >= A
        BY <1>1, <1>3, <2>8
      <3>3. LastDay(by, bm) - B + A \in 28 .. 31
        BY <1>1, <1>2, MonthApart
      <3>4. Date(by, bm, B) # Date(y, m, A)
        BY <1>2, <1>5
      <3> HIDE DEF y, m, d, by, bm, fy, fm, t, A, B, F, L
      <3>5. x = Date(y, m, d)
        BY <1>1
      <3> QED BY <1>6, <2>1, <2>5, <2>8, <3>1, <3>2, <3>3, <3>4, <3>5 DEF Passes, t
    <2> QED BY <1>1, <1>3, <2>6, <2>7, <2>8
  <1>8. CASE d = L
    <2>1. t = Date(fy, fm, 1)
      BY <1>1, <1>8 DEF Tomorrow, MonthAfter, Date
    <2>2. t.year = fy /\ t.month = fm /\ t.day = 1 /\ t.year >= 1
      BY <1>2, <1>5, <2>1
    <2>3. MonthBefore(t).year = y /\ MonthBefore(t).month = m
      BY <1>1, <2>2 DEF MonthBefore, MonthAfter, Date
    <2>4. /\ t.day >= AnchorDay(t.year, t.month, a) => PeriodStart(a, t) = AnchorDate(t.year, t.month, a)
          /\ t.day < AnchorDay(t.year, t.month, a) =>
                /\ PeriodStart(a, t) = AnchorDate(MonthBefore(t).year, MonthBefore(t).month, a)
                /\ NextPeriodStart(a, t) = AnchorDate(t.year, t.month, a)
      BY <1>4, <2>2, PeriodOfDay
    <2>5. /\ 1 >= F => PeriodStart(a, t) = Date(fy, fm, F)
          /\ 1 < F => PeriodStart(a, t) = Date(y, m, A) /\ NextPeriodStart(a, t) = Date(fy, fm, F)
      BY <1>3, <2>2, <2>3, <2>4
    <2>6. /\ DaysTo(Date(y, m, d), Date(fy, fm, F)) = F
          /\ DaysTo(Date(fy, fm, 1), Date(fy, fm, F)) = F - 1
          /\ DaysTo(Date(y, m, A), Date(fy, fm, F)) = L - A + F
      <3>1. DaysTo(Date(y, m, d), Date(fy, fm, F)) = L - d + F
        BY <1>2, DaysToDate
      <3>2. L - d + F = F
        BY <1>1, <1>2, <1>3, <1>8, MonthLength
      <3>3. DaysTo(Date(fy, fm, 1), Date(fy, fm, F)) = F - 1
        BY DaysToDate
      <3>4. DaysTo(Date(y, m, A), Date(fy, fm, F)) = L - A + F
        BY <1>2, DaysToDate
      <3> QED BY <3>1, <3>2, <3>3, <3>4
    <2>7. d >= A /\ F \in Nat \ {0}
      BY <1>1, <1>2, <1>3, <1>8, MonthLength
    <2>8. L - A + F \in 28 .. 31
      BY <1>1, <1>2, MonthApart
    <2>9. Date(y, m, A) # Date(fy, fm, F)
      BY <1>2, <1>5
    <2>10. x = Date(y, m, d)
      BY <1>1
    <2> HIDE DEF y, m, d, by, bm, fy, fm, t, A, B, F, L
    <2>11. CASE F = 1
      BY <1>6, <2>1, <2>5, <2>6, <2>7, <2>8, <2>9, <2>10, <2>11 DEF Passes, t
    <2>12. CASE F > 1
      BY <1>6, <2>1, <2>5, <2>6, <2>7, <2>10, <2>12 DEF Passes, t
    <2> QED BY <2>7, <2>11, <2>12
  <1> QED BY <1>1, <1>7, <1>8

-----------------------------------------------------------------------------
\* A period begins with its day, and 28 to 31 days after the one before, for
\* every anchor day and on every day; so no counter of an earlier period is
\* charged again.
THEOREM PeriodsFollow == Spec => PeriodsAdvance
  <1> DEFINE Step == LET s == PeriodStart(anchor, today)
                         n == PeriodStart(anchor, today')
                     IN  s # n => n = today' /\ DaysTo(s, n) \in 28 .. 31
  <1>1. Clock /\ [Next]_vars => [Step]_vars
    <2> SUFFICES ASSUME Clock, Next PROVE Step
      BY DEF vars
    <2>1. anchor \in 1 .. 31
      BY AnchorsAssumption DEF Clock
    <2>2. CASE NextDay
      <3>1. Passes(anchor, today)
        BY <2>1, Overnight DEF Clock
      <3>2. today' = Tomorrow(today)
        BY <2>2 DEF NextDay
      <3> QED BY <3>1, <3>2 DEF Passes
    <2>3. CASE Pin \/ Record \/ Refund
      BY <2>3 DEF Pin, Record, Refund
    <2> QED BY <2>2, <2>3 DEF Next
  <1> QED BY <1>1, ClockInit, ClockStep, PTL DEF Spec, PeriodsAdvance

-----------------------------------------------------------------------------
(* The life of a counter.                                                  *)

\* No period is charged that has not begun.
NotAhead(p) == p = NoPeriod \/ (p \in Dates /\ AtOrAfter(PeriodStart(anchor, today), p))

CounterInv ==
    /\ Clock
    /\ left \in Nat
    /\ NotAhead(pinned) /\ NotAhead(counter)
    /\ counter = PeriodStart(anchor, today) => left >= DaysTo(today, NextPeriodStart(anchor, today))

\* There is no counter at first.
LEMMA CounterInit == Init => CounterInv
  <1> SUFFICES ASSUME Init PROVE CounterInv
    OBVIOUS
  <1>1. Clock /\ anchor \in 1 .. 31
    BY ClockInit, AnchorsAssumption DEF Clock
  <1>2. PeriodStart(anchor, today) # NoPeriod
    BY <1>1, PeriodIsDate DEF Clock
  <1> QED BY <1>1, <1>2 DEF Init, CounterInv, NotAhead

\* Every step keeps the counter alive to the end of its period.
LEMMA CounterStep == CounterInv /\ [Next]_vars => CounterInv'
  <1> SUFFICES ASSUME CounterInv, [Next]_vars PROVE CounterInv'
    OBVIOUS
  <1>1. Clock' /\ Clock
    BY ClockStep DEF CounterInv
  <1>2. anchor' = anchor /\ anchor \in 1 .. 31
    BY AnchorsAssumption DEF Clock, CounterInv, Next, NextDay, Pin, Record, Refund, vars
  <1> DEFINE s == PeriodStart(anchor, today)
             n == PeriodStart(anchor, Tomorrow(today))
  <1>3. /\ s \in Dates /\ s # NoPeriod /\ AtOrAfter(today, s)
        /\ Passes(anchor, today)
    BY <1>1, <1>2, PeriodIsDate, Overnight DEF Clock
  <1>4. CASE NextDay
    <2>1. today' = Tomorrow(today) /\ UNCHANGED <<pinned, counter>>
      BY <1>4 DEF NextDay
    <2>2. n \in Dates
      BY <1>1, <1>2, <2>1, PeriodIsDate DEF Clock
    <2>3. n # s => n = Tomorrow(today)
      BY <1>3 DEF Passes
    <2>4. Tomorrow(today) \in Dates /\ ~AtOrAfter(today, Tomorrow(today))
      BY <1>1, TomorrowIsDate, TomorrowIsLater DEF Clock
    <2>5. AtOrAfter(n, s) /\ (n # s => ~AtOrAfter(s, n))
      <3>1. CASE n = s
        BY <1>3, <3>1, DatesOrdered
      <3>2. CASE n # s
        <4>1. AtOrAfter(Tomorrow(today), today)
          BY <1>1, DateParts, MonthLength DEF Clock, AtOrAfter, Tomorrow, Date
        <4>2. AtOrAfter(Tomorrow(today), s)
          BY <1>1, <1>3, <2>4, <4>1, DatesOrdered DEF Clock
        <4>3. ~AtOrAfter(s, Tomorrow(today))
          BY <1>1, <1>3, <2>4, DatesOrdered DEF Clock
        <4> QED BY <2>3, <3>2, <4>2, <4>3
      <3> QED BY <3>1, <3>2
    <2> HIDE DEF n, s
    <2>6. PeriodStart(anchor, today)' = n
      BY <1>2, <2>1 DEF n
    <2>7. \A p : p = NoPeriod \/ (p \in Dates /\ AtOrAfter(s, p))
                 => p = NoPeriod \/ (p \in Dates /\ AtOrAfter(n, p))
      BY <1>3, <2>2, <2>5, DatesOrdered
    <2>8. NotAhead(pinned)' /\ NotAhead(counter)'
      BY <2>1, <2>6, <2>7 DEF CounterInv, NotAhead, s
    <2>9. left' \in Nat /\ left' >= left - 1 /\ left \in Nat
      BY <1>4 DEF NextDay, CounterInv
    <2>10. ASSUME counter = n
           PROVE  left' >= DaysTo(Tomorrow(today), NextPeriodStart(anchor, Tomorrow(today)))
      <3>1. n # NoPeriod
        BY <1>1, <1>2, <2>1, PeriodIsDate DEF Clock, n
      <3>2. AtOrAfter(s, n)
        BY <2>10, <3>1 DEF CounterInv, NotAhead, s
      <3>3. s = n
        BY <2>5, <3>2
      <3>4. /\ DaysTo(today, NextPeriodStart(anchor, today)) \in Nat \ {0}
            /\ DaysTo(Tomorrow(today), NextPeriodStart(anchor, Tomorrow(today)))
                 = DaysTo(today, NextPeriodStart(anchor, today)) - 1
        BY <1>3, <3>3 DEF Passes, n, s
      <3>5. left >= DaysTo(today, NextPeriodStart(anchor, today))
        BY <2>10, <3>3 DEF CounterInv, s
      <3> QED BY <2>9, <3>4, <3>5
    <2> QED BY <1>1, <1>2, <2>1, <2>6, <2>8, <2>9, <2>10 DEF CounterInv
  <1>5. /\ DaysTo(today, NextPeriodStart(anchor, today)) \in Nat \ {0}
        /\ PeriodTtl(anchor, today) \in Nat
        /\ PeriodTtl(anchor, today) >= DaysTo(today, NextPeriodStart(anchor, today))
    <2>1. DaysTo(today, NextPeriodStart(anchor, today)) \in Nat \ {0}
      BY <1>3 DEF Passes
    <2> QED BY <2>1 DEF PeriodTtl
  <1>6. CASE Pin
    <2>1. AtOrAfter(s, s)
      BY <1>3, DatesOrdered
    <2>2. NotAhead(pinned)' /\ NotAhead(counter)'
      BY <1>3, <1>6, <2>1 DEF Pin, NotAhead, CounterInv
    <2> QED BY <1>1, <1>6, <2>2 DEF Pin, CounterInv
  <1>7. CASE Record
    <2>1. NotAhead(pinned)' /\ NotAhead(counter)'
      BY <1>7 DEF Record, NotAhead, CounterInv
    <2>2. left' = PeriodTtl(anchor, today) /\ UNCHANGED <<anchor, today>>
      BY <1>7 DEF Record
    <2> QED BY <1>1, <1>5, <2>1, <2>2 DEF CounterInv
  <1>8. CASE Refund
    <2>1. NotAhead(pinned)' /\ NotAhead(counter)'
      BY <1>8 DEF Refund, NotAhead, CounterInv
    <2>2. left' = PeriodTtl(anchor, today) /\ UNCHANGED <<anchor, today>>
      BY <1>8 DEF Refund
    <2> QED BY <1>1, <1>5, <2>1, <2>2 DEF CounterInv
  <1>9. CASE UNCHANGED vars
    BY <1>1, <1>9 DEF vars, CounterInv, NotAhead
  <1> QED BY <1>4, <1>6, <1>7, <1>8, <1>9 DEF Next

\* The counter of the current period outlives it, whenever in the period it was
\* charged or refunded, for every anchor day: usage is not forgotten before the
\* period ends.
THEOREM CounterLivesOn == Spec => []CounterOutlivesPeriod
  <1>1. CounterInv => CounterOutlivesPeriod
    <2> SUFFICES ASSUME CounterInv, counter = PeriodStart(anchor, today) PROVE left >= 1
      BY DEF CounterOutlivesPeriod
    <2>1. anchor \in 1 .. 31
      BY AnchorsAssumption DEF Clock, CounterInv
    <2>2. DaysTo(today, NextPeriodStart(anchor, today)) \in Nat \ {0}
      BY <2>1, Overnight DEF Clock, CounterInv, Passes
    <2>3. left \in Nat /\ left >= DaysTo(today, NextPeriodStart(anchor, today))
      BY DEF CounterInv
    <2> QED BY <2>2, <2>3
  <1> QED BY <1>1, CounterInit, CounterStep, PTL DEF Spec

=============================================================================
