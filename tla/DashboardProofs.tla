--------------------------- MODULE DashboardProofs ---------------------------
(* Proofs about Dashboard: the flame graph of the trace viewer is sound    *)
(* for traces of any number of spans, of any lengths; the list of jobs is  *)
(* whole, whatever requests overtake each other; the keys of a user are    *)
(* limited and named apart, and the editors of their limits show them; the *)
(* gateway enforces the limit of a key.                                    *)
EXTENDS Dashboard, FiniteSetTheorems, TLAPS

-----------------------------------------------------------------------------
(* The inductive invariant.                                                *)

Bar == [row : Nat, parent : Nat, start : Nat, end : Nat]

LayoutType ==
    /\ bars \in Seq(Bar)
    /\ rowEnds \in Seq(Nat)
    /\ path \in Seq(Nat)

\* Every bar has a row, which does not end before the bar does.
RowsHoldBars ==
    \A i \in DOMAIN bars :
        /\ bars[i].row \in 1 .. Len(rowEnds)
        /\ bars[i].end <= rowEnds[bars[i].row]

\* The spans being walked have rows.
PathHasRows == \A i \in DOMAIN path : path[i] \in 1 .. Len(rowEnds)

LayoutInv ==
    /\ LayoutType
    /\ RowsHoldBars
    /\ PathHasRows
    /\ FlameSound

-----------------------------------------------------------------------------
\* Lengths of spans are numbers.
LEMMA TimesAreNat == Times \subseteq Nat
  BY TraceAssumption DEF Times

\* No trace has been laid out.
LEMMA LayoutInit == TraceInit => LayoutInv
  BY DEF TraceInit, LayoutInv, LayoutType, RowsHoldBars, PathHasRows, FlameSound, Bar

\* A bar that is laid goes to a row whose last bar has ended, below its parent's.
LEMMA LayKeeps ==
    ASSUME LayoutInv, NEW start \in Nat, NEW duration \in Nat, NEW parent \in 1 .. Len(rowEnds),
           Lay(start, duration, parent)
    PROVE  LayoutInv'
  <1> DEFINE end == start + duration
  <1>1. PICK r \in 1 .. Len(rowEnds) + 1 :
           /\ Assigned(start, parent + 1, r)
           /\ rowEnds' = Ends(r, end)
           /\ bars' = Append(bars, [row |-> r, parent |-> parent, start |-> start, end |-> end])
           /\ path' = Append(path, r)
    BY DEF Lay
  <1>2. /\ bars \in Seq(Bar) /\ rowEnds \in Seq(Nat) /\ path \in Seq(Nat)
        /\ end \in Nat /\ end >= start /\ Len(rowEnds) \in Nat /\ parent \in Nat
    BY DEF LayoutInv, LayoutType
  <1>3. \/ /\ r \in parent + 1 .. Len(rowEnds) /\ rowEnds[r] <= start
        \/ r = Len(rowEnds) + 1
    BY <1>1, <1>2 DEF Assigned, FreeRows
  <1>4. parent < r
    BY <1>2, <1>3
  <1>5. /\ rowEnds' \in Seq(Nat)
        /\ Len(rowEnds') >= Len(rowEnds)
        /\ r \in 1 .. Len(rowEnds')
        /\ rowEnds'[r] = end
        /\ \A q \in 1 .. Len(rowEnds) : q # r => rowEnds'[q] = rowEnds[q]
        /\ r \in 1 .. Len(rowEnds) => rowEnds[r] <= start
    <2> HIDE DEF end
    <2>0. /\ rowEnds \in Seq(Nat) /\ end \in Nat /\ Len(rowEnds) \in Nat
          /\ rowEnds' = Ends(r, end)
      BY <1>1, <1>2
    <2>1. CASE r \in 1 .. Len(rowEnds)
      <3>1. rowEnds' = [rowEnds EXCEPT ![r] = end]
        BY <2>0, <2>1 DEF Ends
      <3>2. rowEnds[r] <= start
        BY <1>3, <2>0, <2>1
      <3> QED
        BY <2>0, <2>1, <3>1, <3>2
    <2>2. CASE r = Len(rowEnds) + 1
      <3>1. rowEnds' = Append(rowEnds, end)
        BY <2>0, <2>2 DEF Ends
      <3>2. rowEnds' \in Seq(Nat) /\ Len(rowEnds') = Len(rowEnds) + 1
        BY <2>0, <3>1
      <3>3. rowEnds'[Len(rowEnds) + 1] = end
        BY <2>0, <3>1
      <3>4. ASSUME NEW q \in 1 .. Len(rowEnds) PROVE rowEnds'[q] = rowEnds[q]
        BY <2>0, <3>1
      <3>5. r \notin 1 .. Len(rowEnds)
        BY <2>0, <2>2
      <3> QED
        BY <2>0, <2>2, <3>2, <3>3, <3>4, <3>5
    <2>3. r \in 1 .. Len(rowEnds) \/ r = Len(rowEnds) + 1
      <3>1. r \in 1 .. Len(rowEnds) + 1
        BY <1>1
      <3> QED
        BY <2>0, <3>1
    <2> QED
      BY <2>1, <2>2, <2>3
  <1> DEFINE new == [row |-> r, parent |-> parent, start |-> start, end |-> end]
  <1>6. new \in Bar
    BY <1>1, <1>2 DEF Bar
  <1>7. /\ bars' \in Seq(Bar)
        /\ Len(bars') = Len(bars) + 1
        /\ DOMAIN bars' = DOMAIN bars \cup {Len(bars) + 1}
        /\ \A i \in DOMAIN bars : bars'[i] = bars[i] /\ i < Len(bars) + 1
        /\ bars'[Len(bars) + 1] = new
    BY <1>1, <1>2, <1>6
  <1>8. \A i \in DOMAIN bars : bars[i].row \in Nat /\ bars[i].end \in Nat
    <2>1. \A i \in DOMAIN bars : bars[i] \in Bar
      BY <1>2
    <2>2. \A b \in Bar : b.row \in Nat /\ b.end \in Nat
      BY DEF Bar
    <2> QED BY <2>1, <2>2
  <1>b. /\ 1 .. Len(rowEnds) \subseteq 1 .. Len(rowEnds')
        /\ \A q \in 1 .. Len(rowEnds) : rowEnds[q] <= rowEnds'[q]
        /\ \A q \in 1 .. Len(rowEnds) : rowEnds[q] \in Nat /\ rowEnds'[q] \in Nat
    <2>1. Len(rowEnds') \in Nat
      BY <1>5
    <2>2. 1 .. Len(rowEnds) \subseteq 1 .. Len(rowEnds')
      BY <2>1, <1>2, <1>5
    <2>3. \A q \in 1 .. Len(rowEnds) : rowEnds[q] \in Nat
      BY <1>2
    <2>4. \A q \in 1 .. Len(rowEnds) : rowEnds[q] <= rowEnds'[q] /\ rowEnds'[q] \in Nat
      <3> TAKE q \in 1 .. Len(rowEnds)
      <3>1. CASE q = r
        <4>1. rowEnds'[q] = end /\ rowEnds[q] <= start /\ rowEnds[q] \in Nat
          BY <3>1, <2>3, <1>5
        <4>2. end \in Nat /\ end >= start
          BY <1>2
        <4> QED BY <4>1, <4>2
      <3>2. CASE q # r
        <4>1. rowEnds'[q] = rowEnds[q]
          BY <3>2, <1>5
        <4> QED BY <4>1, <2>3
      <3> QED BY <3>1, <3>2
    <2> QED BY <2>2, <2>3, <2>4
  <1>a. ASSUME NEW i \in DOMAIN bars' PROVE i \in DOMAIN bars \/ i = Len(bars) + 1
    BY <1>7
  <1> HIDE DEF new, end
  <1>9. new.row = r /\ new.end = end /\ new.start = start /\ new.parent = parent
    BY DEF new
  <1>10. LayoutType'
    BY <1>1, <1>2, <1>5, <1>7 DEF LayoutType
  <1>11. RowsHoldBars'
    <2> SUFFICES ASSUME NEW i \in DOMAIN bars'
                 PROVE  bars'[i].row \in 1 .. Len(rowEnds') /\ bars'[i].end <= rowEnds'[bars'[i].row]
      BY DEF RowsHoldBars
    <2>1. CASE i = Len(bars) + 1
      <3>1. bars'[i].row = r /\ bars'[i].end = end
        BY <2>1, <1>7, <1>9
      <3>2. end \in Nat /\ end <= end
        BY <1>2
      <3>3. r \in 1 .. Len(rowEnds') /\ rowEnds'[r] = end
        BY <1>5
      <3> QED BY <3>1, <3>2, <3>3
    <2>2. CASE i \in DOMAIN bars
      <3>1. bars[i].row \in 1 .. Len(rowEnds) /\ bars[i].end <= rowEnds[bars[i].row]
        BY <2>2 DEF LayoutInv, RowsHoldBars
      <3>2. bars[i].row \in 1 .. Len(rowEnds') /\ rowEnds[bars[i].row] <= rowEnds'[bars[i].row]
        BY <3>1, <1>b
      <3>3. bars[i].end \in Nat /\ rowEnds[bars[i].row] \in Nat /\ rowEnds'[bars[i].row] \in Nat
        BY <2>2, <3>1, <1>8, <1>b
      <3>4. bars[i].end <= rowEnds'[bars[i].row]
        <4>1. \A x, y, z \in Nat : x <= y /\ y <= z => x <= z
          OBVIOUS
        <4>2. bars[i].end <= rowEnds[bars[i].row] /\ rowEnds[bars[i].row] <= rowEnds'[bars[i].row]
          BY <3>1, <3>2
        <4> QED BY <3>3, <4>1, <4>2
      <3> QED BY <3>2, <3>4, <2>2, <1>7
    <2> QED BY <2>1, <2>2, <1>a
  <1>12. PathHasRows'
    <2> SUFFICES ASSUME NEW i \in DOMAIN path' PROVE path'[i] \in 1 .. Len(rowEnds')
      BY DEF PathHasRows
    <2>1. CASE i = Len(path) + 1
      BY <2>1, <1>1, <1>2, <1>5
    <2>2. CASE i \in DOMAIN path
      <3>1. path'[i] = path[i]
        BY <2>2, <1>1, <1>2
      <3> QED BY <3>1, <2>2, <1>b DEF LayoutInv, PathHasRows
    <2>3. i \in DOMAIN path \/ i = Len(path) + 1
      <3>1. path' = Append(path, r) /\ path \in Seq(Nat) /\ r \in Nat
        BY <1>1, <1>2
      <3> QED BY <3>1
    <2> QED BY <2>1, <2>2, <2>3
  <1>13. FlameSound'
    <2>1. ASSUME NEW i \in DOMAIN bars', NEW j \in DOMAIN bars', i < j, bars'[i].row = bars'[j].row
          PROVE  bars'[i].end <= bars'[j].start
      <3>1. i \in DOMAIN bars
        BY <2>1, <1>2, <1>7
      <3>2. CASE j \in DOMAIN bars
        BY <2>1, <3>1, <3>2, <1>7 DEF LayoutInv, FlameSound
      <3>3. CASE j = Len(bars) + 1
        <4>1. bars[i].row = r /\ bars[i].row \in 1 .. Len(rowEnds) /\ bars[i].end <= rowEnds[bars[i].row]
          BY <2>1, <3>1, <3>3, <1>7, <1>9 DEF LayoutInv, RowsHoldBars
        <4>2. rowEnds[r] <= start /\ rowEnds[r] \in Nat /\ bars[i].end \in Nat
          BY <4>1, <3>1, <1>5, <1>8, <1>b
        <4>3. bars[i].end <= start
          BY <4>1, <4>2
        <4> QED BY <4>3, <3>1, <3>3, <1>7, <1>9
      <3> QED BY <2>1, <3>2, <3>3, <1>a
    <2>2. ASSUME NEW i \in DOMAIN bars'
          PROVE  bars'[i].parent < bars'[i].row
      <3>1. CASE i \in DOMAIN bars
        BY <3>1, <1>7 DEF LayoutInv, FlameSound
      <3>2. CASE i = Len(bars) + 1
        BY <3>2, <1>4, <1>7, <1>9
      <3> QED BY <2>2, <3>1, <3>2, <1>a
    <2> QED BY <2>1, <2>2 DEF FlameSound
  <1> QED BY <1>10, <1>11, <1>12, <1>13 DEF LayoutInv

\* The layout of another trace begins with its root.
LEMMA ShowTraceKeeps == LayoutInv /\ ShowTrace => LayoutInv'
  <1> SUFFICES ASSUME ShowTrace PROVE LayoutInv'
    OBVIOUS
  <1>1. PICK start \in Times, duration \in Times :
           /\ rowEnds' = <<start + duration>>
           /\ bars' = <<[row |-> 1, parent |-> 0, start |-> start, end |-> start + duration]>>
           /\ path' = <<1>>
    BY DEF ShowTrace
  <1>2. start \in Nat /\ duration \in Nat /\ start + duration \in Nat
    BY TimesAreNat
  <1>3. [row |-> 1, parent |-> 0, start |-> start, end |-> start + duration] \in Bar
    BY <1>2 DEF Bar
  <1>4. LayoutType'
    BY <1>1, <1>2, <1>3 DEF LayoutType
  <1>5. /\ DOMAIN bars' = {1} /\ bars'[1].row = 1 /\ bars'[1].parent = 0
        /\ bars'[1].end = start + duration
        /\ Len(rowEnds') = 1 /\ rowEnds'[1] = start + duration
        /\ DOMAIN path' = {1} /\ path'[1] = 1
    BY <1>1
  <1>6. RowsHoldBars'
    BY <1>2, <1>5 DEF RowsHoldBars
  <1>7. PathHasRows'
    BY <1>5 DEF PathHasRows
  <1>8. FlameSound'
    BY <1>5 DEF FlameSound
  <1> QED BY <1>4, <1>6, <1>7, <1>8 DEF LayoutInv

\* What leaves the layout as it is keeps the invariant.
LEMMA LayoutKept == LayoutInv /\ UNCHANGED <<bars, rowEnds, path>> => LayoutInv'
  BY DEF LayoutInv, LayoutType, RowsHoldBars, PathHasRows, FlameSound

\* Every step of the viewer keeps the invariant.
LEMMA LayoutNext == LayoutInv /\ [TraceNext]_traceVars => LayoutInv'
  <1> SUFFICES ASSUME LayoutInv, [TraceNext]_traceVars PROVE LayoutInv'
    OBVIOUS
  <1>1. CASE WalkChild
    <2>1. PICK start \in Times, duration \in Times : Lay(start, duration, path[Len(path)])
      BY <1>1 DEF WalkChild
    <2>2. Len(path) \in DOMAIN path
      BY <1>1 DEF WalkChild, LayoutInv, LayoutType
    <2>3. path[Len(path)] \in 1 .. Len(rowEnds)
      BY <2>2 DEF LayoutInv, PathHasRows
    <2> QED BY <2>1, <2>3, LayKeeps, TimesAreNat
  <1>2. CASE Leave
    <2>1. /\ path' = SubSeq(path, 1, Len(path) - 1) /\ bars' = bars /\ rowEnds' = rowEnds
          /\ path \in Seq(Nat) /\ path # <<>>
      BY <1>2 DEF Leave, LayoutInv, LayoutType
    <2>2. Len(path) - 1 \in Nat
      BY <2>1
    <2>3. path' \in Seq(Nat) /\ \A i \in DOMAIN path' : i \in DOMAIN path /\ path'[i] = path[i]
      BY <2>1, <2>2
    <2>4. PathHasRows'
      BY <2>1, <2>3 DEF LayoutInv, PathHasRows
    <2> QED BY <2>1, <2>3, <2>4 DEF LayoutInv, LayoutType, RowsHoldBars, FlameSound
  <1>3. CASE ParseText
    <2>1. ShowTrace \/ KeepTrace
      BY <1>3 DEF ParseText, Parse
    <2> QED BY <2>1, ShowTraceKeeps, LayoutKept DEF KeepTrace
  <1>4. ASSUME NEW t \in {"trace", "junk"}, Paste(t) PROVE LayoutInv'
    BY <1>4, LayoutKept DEF Paste, KeepTrace
  <1>5. ASSUME NEW t \in {"trace", "junk"}, ReadFile(t) PROVE LayoutInv'
    <2>1. ShowTrace \/ KeepTrace
      BY <1>5 DEF ReadFile, Parse
    <2> QED BY <2>1, ShowTraceKeeps, LayoutKept DEF KeepTrace
  <1>6. ASSUME NEW l \in Lookups, FetchJob(l) PROVE LayoutInv'
    BY <1>6, LayoutKept DEF FetchJob, KeepTrace
  <1>7. ASSUME NEW l \in Lookups, FindTrace(l) PROVE LayoutInv'
    BY <1>7, LayoutKept DEF FindTrace, KeepTrace
  <1>8. ASSUME NEW l \in Lookups, FetchAnswered(l) PROVE LayoutInv'
    <2>1. ShowTrace \/ KeepTrace
      BY <1>8 DEF FetchAnswered, Parse
    <2> QED BY <2>1, ShowTraceKeeps, LayoutKept DEF KeepTrace
  <1>9. ASSUME NEW i \in DOMAIN bars, ZoomIn(i) PROVE LayoutInv'
    BY <1>9, LayoutKept DEF ZoomIn, OnlyZoom
  <1>10. CASE ZoomOut
    BY <1>10, LayoutKept DEF ZoomOut, OnlyZoom
  <1>11. CASE ResetZoom
    BY <1>11, LayoutKept DEF ResetZoom, OnlyZoom
  <1>12. CASE UNCHANGED traceVars
    BY <1>12, LayoutKept DEF traceVars
  <1> QED
    BY <1>1, <1>2, <1>3, <1>4, <1>5, <1>6, <1>7, <1>8, <1>9, <1>10, <1>11, <1>12 DEF TraceNext

-----------------------------------------------------------------------------
\* The bars of a flame graph can be told apart and read as a tree, whatever
\* the trace: two bars in a row do not overlap, and a span is below its parent.
THEOREM FlameAlwaysSound == Spec => []FlameSound
  <1>1. Init => LayoutInv
    BY LayoutInit DEF Init
  <1>2. LayoutInv /\ [Next]_vars => LayoutInv'
    BY LayoutNext DEF Next, vars
  <1>3. LayoutInv => FlameSound
    BY DEF LayoutInv
  <1> QED BY <1>1, <1>2, <1>3, PTL DEF Spec

-----------------------------------------------------------------------------
(* The list of the jobs page.                                              *)

JobStatus == {"processing", "ok", "late", "error", "deleted"}
JobEntry  == [id : Nat, status : {"ok", "processing", "error", "expired", "deleted"}]

\* Rows in the order of the list, and what comes after them.
Whole(s, next) ==
    /\ s \in Seq(JobEntry) /\ next \in Nat
    /\ \A i \in 1 .. Len(s) : s[i].id = next + Len(s) - i + 1
    /\ s = <<>> => next = 0

ListInv ==
    /\ index \in Seq(JobStatus)
    /\ mixed \in BOOLEAN
    /\ DOMAIN poll = Polls
    /\ \A p \in Polls : poll[p].at = "read" => Whole(poll[p].rows, poll[p].next)
    /\ DOMAIN more = DOMAIN Idle /\ more.at \in {"idle", "sent", "read"}
    /\ ~mixed =>
          /\ Whole(requests, cursor)
          /\ more.at = "sent" => more.from = cursor /\ cursor # 0
          /\ more.at = "read" =>
                Whole(more.rows, more.next) /\ more.next + Len(more.rows) = cursor

\* A page of the index is whole, and ends where it was asked to begin.
LEMMA PageIsWhole ==
    ASSUME NEW from \in Nat
    PROVE  /\ Whole(PageFrom(from).rows, PageFrom(from).next)
           /\ PageFrom(from).next + Len(PageFrom(from).rows) = from
  <1> DEFINE last == IF from > JobPageSize THEN from - JobPageSize + 1 ELSE 1
             n == from - last + 1
             row(i) == [id |-> from - i + 1, status |-> RowStatus(index[from - i + 1])]
             s == [i \in 1 .. n |-> row(i)]
  <1>1. /\ last \in Nat /\ n \in Nat /\ last >= 1 /\ n + last = from + 1
        /\ n = 0 => last = 1
        /\ n <= from
    BY JobsAssumption
  <1>2. PageFrom(from) = [rows |-> s, next |-> last - 1]
    BY DEF PageFrom
  <1>3. \A t : RowStatus(t) \in {"ok", "processing", "error", "expired", "deleted"}
    BY DEF RowStatus, Parsed
  <1>4. \A i \in 1 .. n : row(i) \in JobEntry /\ row(i).id = from - i + 1
    BY <1>1, <1>3 DEF JobEntry
  <1> HIDE DEF row, last, n
  <1>5. s \in Seq(JobEntry) /\ Len(s) = n /\ \A i \in 1 .. n : s[i] = row(i)
    BY <1>1, <1>4
  <1> HIDE DEF s
  <1>6. s = <<>> => n = 0
    BY <1>5
  <1>7. \A i \in 1 .. Len(s) : s[i].id = (last - 1) + Len(s) - i + 1
    BY <1>1, <1>4, <1>5
  <1>8. Whole(s, last - 1) /\ (last - 1) + Len(s) = from
    BY <1>1, <1>5, <1>6, <1>7 DEF Whole
  <1> QED BY <1>2, <1>8

\* So is the answer to a request for the list, from its start or from its rest.
LEMMA ListIsWhole ==
    ASSUME index \in Seq(JobStatus), NEW from \in Nat
    PROVE  /\ Whole(List(from).rows, List(from).next)
           /\ from # 0 => List(from).next + Len(List(from).rows) = from
  <1>1. Len(index) \in Nat
    OBVIOUS
  <1>2. CASE from = 0
    BY <1>1, <1>2, PageIsWhole DEF List
  <1>3. CASE from # 0
    BY <1>3, PageIsWhole DEF List
  <1> QED BY <1>2, <1>3

\* The rest, put after the rows it is the rest of.
LEMMA WholeAppended ==
    ASSUME NEW s, NEW c, Whole(s, c), NEW t, NEW n, Whole(t, n), n + Len(t) = c
    PROVE  Whole(s \o t, n)
  <1>1. /\ s \in Seq(JobEntry) /\ t \in Seq(JobEntry) /\ n \in Nat /\ c \in Nat
        /\ Len(s) \in Nat /\ Len(t) \in Nat
    BY DEF Whole
  <1>2. /\ s \o t \in Seq(JobEntry) /\ Len(s \o t) = Len(s) + Len(t)
        /\ \A i \in 1 .. Len(s) + Len(t) : (s \o t)[i] = IF i <= Len(s) THEN s[i] ELSE t[i - Len(s)]
    BY <1>1
  <1>3. ASSUME NEW i \in 1 .. Len(s \o t) PROVE (s \o t)[i].id = n + Len(s \o t) - i + 1
    <2>1. CASE i <= Len(s)
      <3>1. s[i].id = c + Len(s) - i + 1
        BY <1>1, <1>2, <2>1 DEF Whole
      <3> QED BY <1>1, <1>2, <2>1, <3>1
    <2>2. CASE i > Len(s)
      <3>1. i - Len(s) \in 1 .. Len(t)
        BY <1>1, <1>2, <2>2
      <3>2. t[i - Len(s)].id = n + Len(t) - (i - Len(s)) + 1
        BY <3>1 DEF Whole
      <3> QED BY <1>1, <1>2, <2>2, <3>1, <3>2
    <2> QED BY <1>1, <1>2, <2>1, <2>2
  <1>4. s \o t = <<>> => n = 0
    <2> SUFFICES ASSUME s \o t = <<>> PROVE n = 0
      OBVIOUS
    <2>1. Len(s \o t) = 0
      OBVIOUS
    <2>2. Len(t) = 0
      BY <1>1, <1>2, <2>1
    <2>3. t = <<>>
      BY <1>1, <2>2
    <2> QED BY <2>3 DEF Whole
  <1> QED BY <1>1, <1>2, <1>3, <1>4 DEF Whole

\* Rows keep their place when one of them is marked.
LEMMA WholeMarked ==
    ASSUME NEW s, NEW c, Whole(s, c), NEW id
    PROVE  Whole([i \in DOMAIN s |-> IF s[i].id = id THEN [s[i] EXCEPT !.status = "expired"] ELSE s[i]], c)
  <1> DEFINE t == [i \in DOMAIN s |-> IF s[i].id = id THEN [s[i] EXCEPT !.status = "expired"] ELSE s[i]]
  <1>1. s \in Seq(JobEntry) /\ DOMAIN s = 1 .. Len(s) /\ Len(s) \in Nat /\ c \in Nat
    BY DEF Whole
  <1>2. \A i \in 1 .. Len(s) : s[i] \in JobEntry
    BY <1>1
  <1>3. \A i \in 1 .. Len(s) : t[i] \in JobEntry /\ t[i].id = s[i].id
    BY <1>1, <1>2 DEF JobEntry
  <1>4. DOMAIN t = 1 .. Len(s)
    BY <1>1
  <1>5. t \in Seq(JobEntry) /\ Len(t) = Len(s)
    <2>1. t = [i \in 1 .. Len(s) |-> t[i]]
      BY <1>1
    <2> HIDE DEF t
    <2> QED BY <1>1, <1>3, <2>1
  <1> HIDE DEF t
  <1>6. t = <<>> => s = <<>>
    BY <1>1, <1>5
  <1>7. Whole(t, c)
    BY <1>1, <1>3, <1>5, <1>6 DEF Whole
  <1> QED BY <1>7 DEF t

\* The page begins with the first page of the list.
LEMMA ListInit == JobsInit => ListInv
  <1> SUFFICES ASSUME JobsInit PROVE ListInv
    OBVIOUS
  <1>1. index \in Seq(JobStatus)
    <2>1. PICK n \in 0 .. MaxOldJobs : index \in [1 .. n -> {"processing", "ok"}]
      BY DEF JobsInit
    <2>2. n \in Nat
      BY <2>1, JobsAssumption
    <2>3. \A i \in 1 .. n : index[i] \in JobStatus
      BY <2>1 DEF JobStatus
    <2> QED BY <2>1, <2>2, <2>3
  <1>2. Whole(requests, cursor)
    BY <1>1, ListIsWhole DEF JobsInit
  <1> QED BY <1>1, <1>2 DEF JobsInit, ListInv, Idle

\* Nothing of the list changes.
LEMMA ListKept ==
    ASSUME ListInv, index' \in Seq(JobStatus), UNCHANGED <<requests, cursor, poll, more, mixed>>
    PROVE  ListInv'
  BY DEF ListInv, Whole

\* A refresh is sent.
LEMMA ListAsked ==
    ASSUME ListInv, index' \in Seq(JobStatus), UNCHANGED <<requests, cursor, more, mixed>>,
           NEW p \in Polls, NEW r, poll' = [poll EXCEPT ![p] = r],
           r.at = "read" => Whole(r.rows, r.next)
    PROVE  ListInv'
  <1>1. DOMAIN poll' = Polls
    BY DEF ListInv
  <1>2. ASSUME NEW q \in Polls, poll'[q].at = "read" PROVE Whole(poll'[q].rows, poll'[q].next)
    BY <1>2 DEF ListInv
  <1> QED BY <1>1, <1>2 DEF ListInv, Whole

\* Every step keeps the list and what is on its way to it whole.
LEMMA ListNext == ListInv /\ [JobsNext]_jobsVars => ListInv'
  <1> SUFFICES ASSUME ListInv, [JobsNext]_jobsVars PROVE ListInv'
    OBVIOUS
  <1>0. index \in Seq(JobStatus)
    BY DEF ListInv
  <1>1. \A i, s : s \in JobStatus => [index EXCEPT ![i] = s] \in Seq(JobStatus)
    <2>1. PICK n \in Nat : index \in [1 .. n -> JobStatus]
      BY <1>0
    <2>2. ASSUME NEW i, NEW s \in JobStatus PROVE [index EXCEPT ![i] = s] \in Seq(JobStatus)
      <3> DEFINE t == [index EXCEPT ![i] = s]
      <3>1. t \in [1 .. n -> JobStatus]
        BY <2>1
      <3> HIDE DEF t
      <3>2. t \in Seq(JobStatus)
        BY <3>1
      <3> QED BY <3>2 DEF t
    <2> QED BY <2>2
  <1>2. ASSUME NEW i \in Jobs, Finish(i) \/ Lapse(i) PROVE ListInv'
    <2>1. PICK s \in JobStatus : index' = [index EXCEPT ![i] = s]
      BY <1>2, OutcomesAssumption DEF Finish, Lapse, JobStatus
    <2>2. index' \in Seq(JobStatus)
      BY <1>1, <2>1
    <2> QED BY <1>2, <2>2, ListKept DEF Finish, Lapse, OnlyIndex
  <1>3. ASSUME NEW p \in Polls, Poll(p) PROVE ListInv'
    <2>1. [Idle EXCEPT !.at = "sent"].at # "read"
      BY DEF Idle
    <2> QED BY <1>0, <1>3, <2>1, ListAsked DEF Poll, Ask
  <1>4. ASSUME NEW p \in Polls, ReadPoll(p) PROVE ListInv'
    <2>1. Whole(List(0).rows, List(0).next)
      BY <1>0, ListIsWhole
    <2> DEFINE r == [at |-> "read", from |-> 0, rows |-> List(0).rows, next |-> List(0).next]
    <2>2. r.rows = List(0).rows /\ r.next = List(0).next
      OBVIOUS
    <2>3. poll' = [poll EXCEPT ![p] = r] /\ UNCHANGED <<index, requests, cursor, more, mixed>>
      BY <1>4 DEF ReadPoll
    <2> HIDE DEF r
    <2> QED BY <1>0, <2>1, <2>2, <2>3, ListAsked
  <1>5. ASSUME NEW p \in Polls, FailPoll(p) PROVE ListInv'
    <2>1. Idle.at # "read"
      BY DEF Idle
    <2> QED BY <1>0, <1>5, <2>1, ListAsked DEF FailPoll
  <1>6. ASSUME NEW p \in Polls, Refresh(p) PROVE ListInv'
    <2>1. Whole(poll[p].rows, poll[p].next)
      BY <1>6 DEF Refresh, ListInv
    <2>2. /\ requests' = poll[p].rows /\ cursor' = poll[p].next
          /\ mixed' = (more.at # "idle") /\ UNCHANGED <<index, more>>
          /\ poll' = [poll EXCEPT ![p] = Idle]
      BY <1>6 DEF Refresh
    <2>3. DOMAIN poll' = Polls
      BY <2>2 DEF ListInv
    <2>4. ASSUME NEW q \in Polls, poll'[q].at = "read" PROVE Whole(poll'[q].rows, poll'[q].next)
      <3>1. q # p
        BY <2>2, <2>4 DEF Idle, ListInv
      <3> QED BY <2>2, <2>4, <3>1 DEF ListInv
    <2>5. Whole(requests', cursor')
      BY <2>1, <2>2
    <2> QED BY <2>2, <2>3, <2>4, <2>5 DEF ListInv, Whole
  <1>7. ASSUME NEW p \in Polls, SubmitAccepted(p) PROVE ListInv'
    <2>1. [Idle EXCEPT !.at = "sent"].at # "read"
      BY DEF Idle
    <2>2. index' \in Seq(JobStatus)
      BY <1>0, <1>7 DEF SubmitAccepted, JobStatus
    <2> QED BY <1>7, <2>1, <2>2, ListAsked DEF SubmitAccepted, Ask, OnlyUpload
  <1>8. ASSUME UNCHANGED <<index, requests, cursor, poll, mixed>>, more'.at \in {"idle", "sent", "read"},
               DOMAIN more' = DOMAIN Idle,
               ~mixed =>
                   /\ more'.at = "sent" => more'.from = cursor /\ cursor # 0
                   /\ more'.at = "read" =>
                         Whole(more'.rows, more'.next) /\ more'.next + Len(more'.rows) = cursor
        PROVE  ListInv'
    BY <1>8 DEF ListInv, Whole
  <1>9. CASE LoadMore
    BY <1>8, <1>9 DEF LoadMore, Idle
  <1>10. CASE ReadMore
    <2>1. more' = [more EXCEPT !.at = "read", !.rows = List(more.from).rows, !.next = List(more.from).next]
      BY <1>10 DEF ReadMore
    <2>2. more'.at = "read" /\ UNCHANGED <<index, requests, cursor, poll, mixed>>
      BY <1>10 DEF ReadMore, ListInv, Idle
    <2>3. more.at = "sent" /\ DOMAIN more' = DOMAIN Idle
      BY <1>10, <2>1 DEF ReadMore, ListInv
    <2>4. more'.rows = List(more.from).rows /\ more'.next = List(more.from).next
      BY <2>1 DEF ListInv, Idle
    <2>5. ~mixed => more.from = cursor /\ cursor # 0 /\ cursor \in Nat
      BY <2>3 DEF ListInv, Whole
    <2>6. ~mixed => Whole(more'.rows, more'.next) /\ more'.next + Len(more'.rows) = cursor
      BY <1>0, <2>4, <2>5, ListIsWhole
    <2> QED BY <1>8, <2>2, <2>3, <2>6
  <1>11. CASE AppendMore
    <2>1. /\ more.at = "read" /\ requests' = requests \o more.rows /\ cursor' = more.next
          /\ more' = Idle /\ UNCHANGED <<index, poll, mixed>>
      BY <1>11 DEF AppendMore
    <2>2. ~mixed => Whole(requests', cursor')
      BY <2>1, WholeAppended DEF ListInv
    <2>3. more'.at = "idle"
      BY <2>1 DEF Idle
    <2> QED BY <2>1, <2>2, <2>3 DEF ListInv, Whole
  <1>12. CASE FailMore
    BY <1>8, <1>12 DEF FailMore, Idle
  <1>13. CASE ResolveKeys \/ SelectKey \/ ChooseFile \/ SubmitFile
    BY <1>0, <1>13, ListKept DEF ResolveKeys, SelectKey, ChooseFile, SubmitFile, OnlyUpload
  <1>14. CASE SubmitFailed
    <2>1. index' \in Seq(JobStatus)
      BY <1>0, <1>14 DEF SubmitFailed, JobStatus
    <2> QED BY <1>14, <2>1, ListKept DEF SubmitFailed, OnlyUpload
  <1>15. ASSUME NEW i \in DOMAIN requests, Delete(requests[i]) PROVE ListInv'
    BY <1>0, <1>15, ListKept DEF Delete
  <1>16. CASE ServeDelete
    <2>1. index' \in Seq(JobStatus)
      BY <1>1, <1>16 DEF ServeDelete, JobStatus
    <2> QED BY <1>16, <2>1, ListKept DEF ServeDelete
  <1>17. CASE DeleteFailed
    BY <1>0, <1>17, ListKept DEF DeleteFailed
  <1>18. CASE DeleteAnswered
    <2>1. /\ requests' = [i \in DOMAIN requests |->
                            IF requests[i].id = removal.id THEN [requests[i] EXCEPT !.status = "expired"]
                                                           ELSE requests[i]]
          /\ UNCHANGED <<index, cursor, poll, more, mixed>>
      BY <1>18 DEF DeleteAnswered
    <2>2. ~mixed => Whole(requests', cursor)
      BY <2>1, WholeMarked DEF ListInv
    <2> QED BY <2>1, <2>2 DEF ListInv, Whole
  <1>19. CASE UNCHANGED jobsVars
    BY <1>0, <1>19, ListKept DEF jobsVars
  <1> QED BY <1>2, <1>3, <1>4, <1>5, <1>6, <1>7, <1>9, <1>10, <1>11, <1>12, <1>13, <1>14,
             <1>15, <1>16, <1>17, <1>18, <1>19 DEF JobsNext

\* The list has neither gaps nor doubles and goes on where it ends, for any
\* number of jobs, of rows to a page and of requests that overtake each other.
THEOREM ListIsKeptWhole == Spec => []ListWhole
  <1>1. Init => ListInv
    BY ListInit DEF Init, JobsUntouched
  <1>2. ListInv /\ [Next]_vars => ListInv'
    BY ListNext DEF Next, vars
  <1>3. ListInv => ListWhole
    <2> SUFFICES ASSUME ListInv, ~mixed
                 PROVE  /\ \A i \in 1 .. Len(requests) - 1 : requests[i].id = requests[i + 1].id + 1
                        /\ cursor = IF requests = <<>> THEN 0 ELSE requests[Len(requests)].id - 1
      BY DEF ListWhole
    <2>1. Whole(requests, cursor)
      BY DEF ListInv
    <2>2. requests \in Seq(JobEntry) /\ cursor \in Nat /\ Len(requests) \in Nat
      BY <2>1 DEF Whole
    <2>3. ASSUME NEW i \in 1 .. Len(requests) - 1 PROVE requests[i].id = requests[i + 1].id + 1
      <3>1. i \in 1 .. Len(requests) /\ i + 1 \in 1 .. Len(requests)
        BY <2>2
      <3>2. /\ requests[i].id = cursor + Len(requests) - i + 1
            /\ requests[i + 1].id = cursor + Len(requests) - (i + 1) + 1
        BY <2>1, <3>1 DEF Whole
      <3> QED BY <2>2, <3>1, <3>2
    <2>4. CASE requests = <<>>
      BY <2>1, <2>3, <2>4 DEF Whole
    <2>5. CASE requests # <<>>
      <3>1. Len(requests) \in 1 .. Len(requests)
        BY <2>2, <2>5
      <3>2. requests[Len(requests)].id = cursor + Len(requests) - Len(requests) + 1
        BY <2>1, <3>1 DEF Whole
      <3>3. cursor = requests[Len(requests)].id - 1
        BY <2>2, <3>2
      <3> QED BY <2>3, <2>5, <3>3
    <2> QED BY <2>4, <2>5
  <1> QED BY <1>1, <1>2, <1>3, PTL DEF Spec

-----------------------------------------------------------------------------
(* The types of the keys page.                                             *)

Text    == [value : Nat \cup {None}, unit : {"MB", "GB"}]
Control == [rotate : {"idle", "busy", "done"}, timers : Nat, editing : BOOLEAN, saving : BOOLEAN,
            text : Text, typed : BOOLEAN]
Request == {r \in [op : {"none", "create", "rotate", "remove", "limit"}, key : KeyIds \cup {None},
                   name : KeyNames \cup {None}, limit : Nat \cup {None}, by : {"page", "gone", "other"},
                   at : {"idle", "sent", "checked", "read", "ok", "refused", "lost"}] :
               /\ r.op = "rotate" => r.key \in KeyIds
               /\ r.at = "checked" => r.op = "create" /\ r.name \in KeyNames
               /\ r.at = "read" => r.op = "rotate" /\ r.name \in KeyNames}
Rows    == [KeyIds -> {None} \cup Row]

KeysTyped ==
    /\ rows \in Rows /\ shown \in Rows
    /\ controls \in [KeyIds -> Control]
    /\ call \in [KeyCalls -> Request]
    /\ overlaps \in Nat

\* A limit is shown as a text.
LEMMA TextOfLimit == ASSUME NEW l \in Nat \cup {None} PROVE Display(l) \in Text
  <1>1. PerGB \in Nat /\ PerGB >= 1
    BY MaxKeysAssumption
  <1>2. CASE l = None
    BY <1>2 DEF Display, Text
  <1>3. CASE l # None
    <2>1. l \in Nat
      BY <1>3
    <2>2. (2 * l + PerGB) \div (2 * PerGB) \in Nat
      <3> DEFINE a == 2 * l + PerGB
                 b == 2 * PerGB
      <3>1. a \in Nat /\ b \in Nat /\ b > 0
        BY <1>1, <2>1
      <3> HIDE DEF a, b
      <3>2. a \div b \in Nat
        BY <3>1
      <3> QED BY <3>2 DEF a, b
    <2> DEFINE gb == (2 * l + PerGB) \div (2 * PerGB)
    <2>3. Display(l) = IF l >= PerGB THEN [value |-> gb, unit |-> "GB"] ELSE [value |-> l, unit |-> "MB"]
      BY <1>3 DEF Display
    <2> HIDE DEF gb
    <2> QED BY <2>1, <2>2, <2>3 DEF Text, gb
  <1> QED BY <1>2, <1>3

\* A text means a limit.
LEMMA LimitOfText == ASSUME NEW t \in Text PROVE Meant(t) \in Nat \cup {None}
  <1>1. PerGB \in Nat
    BY MaxKeysAssumption
  <1>2. CASE t.value = None
    BY <1>2 DEF Meant
  <1>3. CASE t.value # None
    <2>1. t.value \in Nat
      BY <1>3 DEF Text
    <2>2. t.value * PerGB \in Nat /\ t.value * 1 \in Nat
      BY <1>1, <2>1
    <2> QED BY <1>3, <2>2 DEF Meant
  <1> QED BY <1>2, <1>3

\* What is mounted, or is not, is a control.
LEMMA ControlsTyped ==
    ASSUME NEW l \in Nat \cup {None}, NEW r, r.limit = l
    PROVE  Fresh(r) \in Control /\ Unmounted \in Control
  <1>1. Display(l) \in Text /\ Display(None) \in Text
    BY TextOfLimit
  <1>2. Fresh(r) = [rotate |-> "idle", timers |-> 0, editing |-> FALSE, saving |-> FALSE,
                    text |-> Display(l), typed |-> FALSE]
    BY DEF Fresh
  <1>3. Unmounted = [rotate |-> "idle", timers |-> 0, editing |-> FALSE, saving |-> FALSE,
                     text |-> Display(None), typed |-> FALSE]
    BY DEF Unmounted
  <1> QED BY <1>1, <1>2, <1>3 DEF Control

\* The slot of no request.
LEMMA NoCallTyped == NoCall \in Request
  BY DEF NoCall, Request

\* At first nothing is under way, but for a rotation.
LEMMA FirstCalls ==
    ASSUME KeysInit, NEW c \in KeyCalls
    PROVE  call[c].op \in {"none", "rotate"} /\ call[c].at \in {"idle", "sent"}
  <1>1. \A k : LET r == [NoCall EXCEPT !.op = "rotate", !.key = k, !.at = "sent"]
              IN  r.op = "rotate" /\ r.at = "sent"
    BY DEF NoCall
  <1>2. NoCall.op = "none" /\ NoCall.at = "idle"
    BY DEF NoCall
  <1>3. CASE call = [d \in KeyCalls |-> NoCall]
    BY <1>2, <1>3
  <1>4. ASSUME NEW k,
               call = [d \in KeyCalls |->
                          IF d = 1 THEN [NoCall EXCEPT !.op = "rotate", !.key = k, !.at = "sent"] ELSE NoCall]
        PROVE  call[c].op \in {"none", "rotate"} /\ call[c].at \in {"idle", "sent"}
    BY <1>1, <1>2, <1>4
  <1> QED BY <1>3, <1>4 DEF KeysInit, Opening

\* The rows the page begins with.
LEMMA KeysStart == KeysInit => KeysTyped
  <1> SUFFICES ASSUME KeysInit PROVE KeysTyped
    OBVIOUS
  <1>1. Unmounted \in Control
    <2>1. [limit |-> None].limit = None
      OBVIOUS
    <2> QED BY <2>1, ControlsTyped
  <1>2. rows \in Rows
    BY DEF KeysInit, Rows, Row
  <1>3. call \in [KeyCalls -> Request]
    <2>1. \A k \in KeyIds : [NoCall EXCEPT !.op = "rotate", !.key = k, !.at = "sent"] \in Request
      BY DEF NoCall, Request
    <2>2. CASE call = [c \in KeyCalls |-> NoCall]
      BY <2>2, NoCallTyped
    <2>3. ASSUME NEW k \in KeyIds,
                 call = [c \in KeyCalls |->
                            IF c = 1 THEN [NoCall EXCEPT !.op = "rotate", !.key = k, !.at = "sent"] ELSE NoCall]
          PROVE  call \in [KeyCalls -> Request]
      BY <2>1, <2>3, NoCallTyped
    <2> QED BY <2>2, <2>3 DEF KeysInit, Opening, Kept
  <1> QED BY <1>1, <1>2, <1>3 DEF KeysInit, KeysTyped

\* A page that is rendered.
LEMMA RenderedTyped ==
    ASSUME KeysTyped, NEW r \in Rows, NEW w, NEW o, NEW remounted, Rendered(r, w, o, remounted)
    PROVE  shown' \in Rows /\ controls' \in [KeyIds -> Control] /\ call' \in [KeyCalls -> Request]
  <1> DEFINE stay == (Mounted(r, w, o) \cap OnPage) \ remounted
             come == Mounted(r, w, o) \ stay
  <1>1. \A k \in come : k \in KeyIds /\ r[k] \in Row
    BY DEF Mounted, Kept, Rows
  <1>2. \A k \in come : Fresh(r[k]) \in Control
    BY <1>1, ControlsTyped DEF Row
  <1>3. Unmounted \in Control
    <2>1. [limit |-> None].limit = None
      OBVIOUS
    <2> QED BY <2>1, ControlsTyped
  <1>4. controls' = [k \in KeyIds |-> IF k \in stay THEN controls[k]
                                     ELSE IF k \in come THEN Fresh(r[k]) ELSE Unmounted]
    BY DEF Rendered
  <1>5. \A c \in KeyCalls : [call[c] EXCEPT !.by = "gone"] \in Request
    BY DEF KeysTyped, Request
  <1>6. call' = [c \in KeyCalls |->
                   IF call[c].by = "page" /\ call[c].op # "create" /\ call[c].key \notin stay
                   THEN [call[c] EXCEPT !.by = "gone"] ELSE call[c]]
    BY DEF Rendered
  <1> HIDE DEF stay, come
  <1>7. controls' \in [KeyIds -> Control]
    BY <1>2, <1>3, <1>4 DEF KeysTyped
  <1>8. call' \in [KeyCalls -> Request]
    BY <1>5, <1>6 DEF KeysTyped
  <1> QED BY <1>7, <1>8 DEF Rendered

\* A request that is sent.
LEMMA SentTyped ==
    ASSUME KeysTyped, NEW c \in KeyCalls, NEW op \in {"create", "rotate", "remove", "limit"},
           NEW key \in KeyIds \cup {None}, NEW name \in KeyNames \cup {None},
           NEW limit \in Nat \cup {None}, NEW by \in {"page", "other"},
           op = "rotate" => key \in KeyIds,
           Send(c, op, key, name, limit, by)
    PROVE  call' \in [KeyCalls -> Request] /\ UNCHANGED <<rows, shown, overlaps>>
  <1> DEFINE r == [op |-> op, key |-> key, name |-> name, limit |-> limit, by |-> by, at |-> "sent"]
  <1>1. r \in Request
    BY DEF Request
  <1>2. call' = [call EXCEPT ![c] = r] /\ UNCHANGED <<rows, shown, overlaps>>
    BY DEF Send
  <1> HIDE DEF r
  <1> QED BY <1>1, <1>2 DEF KeysTyped

\* A request that gets on.
LEMMA ReachTyped ==
    ASSUME KeysTyped, NEW c \in KeyCalls, NEW at \in {"checked", "ok", "refused", "lost"}, Reach(c, at),
           at = "checked" => call[c].op = "create" /\ call[c].name \in KeyNames
    PROVE  call' \in [KeyCalls -> Request]
  <1>1. [call[c] EXCEPT !.at = at] \in Request
    BY DEF KeysTyped, Request
  <1>2. call' = [call EXCEPT ![c] = [call[c] EXCEPT !.at = at]]
    BY DEF Reach
  <1> QED BY <1>1, <1>2 DEF KeysTyped

\* Every step keeps the types.
LEMMA KeysTypedStep == ASSUME KeysTyped, KeysNext PROVE KeysTyped'
  <1>0. KeysTyped
    OBVIOUS
  <1>1. CASE RenderRows
    BY <1>1, RenderedTyped DEF RenderRows, KeysTyped
  <1>2. CASE Resize
    BY <1>2, RenderedTyped DEF Resize, KeysTyped
  <1>3. CASE ReloadKeys
    <2>1. \A k \in KeyIds : rows[k] # None => Fresh(rows[k]) \in Control
      BY ControlsTyped DEF KeysTyped, Rows, Row
    <2>2. Unmounted \in Control
      <3>1. [limit |-> None].limit = None
        OBVIOUS
      <3> QED BY <3>1, ControlsTyped
    <2>3. controls' = [k \in KeyIds |-> IF rows[k] # None THEN Fresh(rows[k]) ELSE Unmounted]
      BY <1>3 DEF ReloadKeys
    <2>4. controls' \in [KeyIds -> Control]
      BY <2>1, <2>2, <2>3
    <2>5. \A c \in KeyCalls : [call[c] EXCEPT !.by = "other"] \in Request
      BY DEF KeysTyped, Request
    <2>6. call' = [c \in KeyCalls |-> IF call[c] = NoCall THEN NoCall ELSE [call[c] EXCEPT !.by = "other"]]
      BY <1>3 DEF ReloadKeys
    <2>7. call' \in [KeyCalls -> Request]
      BY <2>5, <2>6, NoCallTyped
    <2> QED BY <1>3, <2>4, <2>7 DEF ReloadKeys, KeysTyped
  <1>4. CASE EditName \/ CloseCard
    BY <1>4 DEF EditName, CloseCard, KeysTyped
  <1>5. ASSUME NEW k \in KeyIds, Toggle(k) PROVE KeysTyped'
    BY <1>5, RenderedTyped DEF Toggle, KeysTyped
  <1>6. ASSUME controls' \in [KeyIds -> Control], UNCHANGED <<rows, shown, call, overlaps>>
        PROVE  KeysTyped'
    BY <1>6 DEF KeysTyped
  <1>7. ASSUME NEW k \in KeyIds, RotateTimer(k) PROVE KeysTyped'
    <2>1. [controls[k] EXCEPT !.rotate = "idle", !.timers = @ - 1] \in Control
      BY <1>7 DEF RotateTimer, KeysTyped, Control
    <2>2. controls' = [controls EXCEPT ![k] = [controls[k] EXCEPT !.rotate = "idle", !.timers = @ - 1]]
      BY <1>7 DEF RotateTimer, KeysTyped
    <2> QED BY <1>6, <1>7, <2>1, <2>2 DEF RotateTimer, KeysTyped
  <1>8. ASSUME NEW k \in KeyIds, OpenEditor(k) PROVE KeysTyped'
    <2>1. [controls[k] EXCEPT !.editing = TRUE] \in Control
      BY DEF KeysTyped, Control
    <2>2. controls' = [controls EXCEPT ![k] = [controls[k] EXCEPT !.editing = TRUE]]
      BY <1>8 DEF OpenEditor
    <2> QED BY <1>6, <1>8, <2>1, <2>2 DEF OpenEditor, OnlyEditor, KeysTyped
  <1>9. ASSUME NEW k \in KeyIds, NEW t \in Typed, Type(k, t) PROVE KeysTyped'
    <2>1. t \in Text
      BY TypedAssumption DEF Text
    <2>2. [controls[k] EXCEPT !.text = t, !.typed = TRUE] \in Control
      BY <2>1 DEF KeysTyped, Control
    <2>3. controls' = [controls EXCEPT ![k] = [controls[k] EXCEPT !.text = t, !.typed = TRUE]]
      BY <1>9 DEF Type, KeysTyped
    <2> QED BY <1>6, <1>9, <2>2, <2>3 DEF Type, OnlyEditor, KeysTyped
  <1>10. ASSUME NEW k \in KeyIds, Cancel(k) PROVE KeysTyped'
    <2>1. shown[k] \in Row
      BY <1>10 DEF Cancel, Editing, OnPage, Mounted, Kept, KeysTyped, Rows
    <2>2. Display(shown[k].limit) \in Text
      BY <2>1, TextOfLimit DEF Row
    <2> DEFINE reset == Display(shown[k].limit)
    <2>3. controls' = [controls EXCEPT ![k] = [controls[k] EXCEPT !.text = reset, !.editing = FALSE, !.typed = FALSE]]
      BY <1>10 DEF Cancel, KeysTyped
    <2> HIDE DEF reset
    <2>4. [controls[k] EXCEPT !.text = reset, !.editing = FALSE, !.typed = FALSE] \in Control
      BY <2>2 DEF KeysTyped, Control, reset
    <2> QED BY <1>6, <1>10, <2>3, <2>4 DEF Cancel, OnlyEditor, KeysTyped
  <1>11. ASSUME NEW c \in KeyCalls, Create(c) PROVE KeysTyped'
    <2>1. form.name \in KeyNames
      BY <1>11 DEF Create, CanCreate, ValidName
    <2> QED BY <1>11, <2>1, SentTyped DEF Create, KeysTyped
  <1>12. ASSUME NEW c \in KeyCalls, Elsewhere(c) PROVE KeysTyped'
    <2>1. \A t \in Typed : Meant(t) \in Nat \cup {None}
      BY LimitOfText, TypedAssumption DEF Text
    <2>2. \/ \E n \in KeyNames : Send(c, "create", None, n, None, "other")
          \/ \E k \in KeyIds : Send(c, "remove", k, None, None, "other")
          \/ \E k \in KeyIds, t \in Typed : Send(c, "limit", k, None, Meant(t), "other")
      BY <1>12 DEF Elsewhere, Kept
    <2>3. call' \in [KeyCalls -> Request] /\ UNCHANGED <<rows, shown, overlaps>>
      BY <2>1, <2>2, SentTyped
    <2> QED BY <1>12, <2>3 DEF Elsewhere, KeysTyped
  <1>13. ASSUME NEW c \in KeyCalls, CheckCreate(c) PROVE KeysTyped'
    <2>1. call' \in [KeyCalls -> Request]
      BY <1>13, ReachTyped DEF CheckCreate, ValidName
    <2>2. overlaps' \in Nat
      BY <1>13 DEF CheckCreate, KeysTyped
    <2> QED BY <1>13, <2>1, <2>2 DEF CheckCreate, OnlyServer, KeysTyped
  <1>14. ASSUME NEW c \in KeyCalls, Serve(c) PROVE KeysTyped'
    <2>1. call' \in [KeyCalls -> Request]
      BY <1>14, ReachTyped DEF Serve
    <2>2. rows' \in Rows
      <3> DEFINE k == call[c].key
      <3>1. rows' = rows \/ rows' = [rows EXCEPT ![k] = None]
             \/ (rows[k] # None /\ rows' = [rows EXCEPT ![k].limit = call[c].limit])
        BY <1>14 DEF Serve
      <3>2. CASE rows' = rows \/ rows' = [rows EXCEPT ![k] = None]
        BY <3>2 DEF KeysTyped, Rows
      <3>3. CASE rows[k] # None /\ rows' = [rows EXCEPT ![k].limit = call[c].limit]
        <4>1. call[c].limit \in Nat \cup {None}
          BY DEF KeysTyped, Request
        <4>2. k \in KeyIds => [rows[k] EXCEPT !.limit = call[c].limit] \in Row
          BY <3>3, <4>1 DEF KeysTyped, Rows, Row
        <4>3. rows' = [rows EXCEPT ![k] = [rows[k] EXCEPT !.limit = call[c].limit]]
          BY <3>3
        <4> HIDE DEF k
        <4> QED BY <4>2, <4>3 DEF KeysTyped, Rows
      <3> QED BY <3>1, <3>2, <3>3
    <2> QED BY <1>14, <2>1, <2>2 DEF Serve, OnlyServer, KeysTyped
  <1>25. ASSUME NEW c \in KeyCalls, ReadRotate(c) PROVE KeysTyped'
    <2> DEFINE k == call[c].key
               r == [call[c] EXCEPT !.name = rows[k].name, !.limit = rows[k].limit, !.at = "read"]
    <2>1. call[c] \in Request /\ call[c].op = "rotate" /\ k \in KeyIds
      BY <1>25 DEF KeysTyped, Request, ReadRotate
    <2>2. CASE rows[k] # None
      <3>1. rows[k] \in Row
        BY <2>1, <2>2 DEF KeysTyped, Rows
      <3>2. r \in Request
        BY <2>1, <3>1 DEF Request, Row
      <3>3. call' = [call EXCEPT ![c] = r]
        BY <1>25, <2>2 DEF ReadRotate, KeysTyped
      <3> HIDE DEF r, k
      <3>4. call' \in [KeyCalls -> Request]
        BY <3>2, <3>3 DEF KeysTyped
      <3> QED BY <1>25, <3>4 DEF ReadRotate, OnlyServer, KeysTyped
    <2>3. CASE rows[k] = None
      <3>1. call' \in [KeyCalls -> Request]
        BY <1>25, <2>3, ReachTyped DEF ReadRotate
      <3> QED BY <1>25, <3>1 DEF ReadRotate, OnlyServer, KeysTyped
    <2> QED BY <2>2, <2>3
  <1>26. ASSUME NEW c \in KeyCalls, WriteRotate(c) PROVE KeysTyped'
    <2>1. call' \in [KeyCalls -> Request]
      BY <1>26, ReachTyped DEF WriteRotate
    <2>2. call[c].name \in KeyNames /\ \A d \in KeyCalls : call[d].limit \in Nat \cup {None}
      BY <1>26 DEF KeysTyped, Request, WriteRotate
    <2>3. \A l \in LeftLimits(call[c].key) : [name |-> call[c].name, limit |-> l] \in Row
      BY <2>2 DEF LeftLimits, Row
    <2>4. rows' \in Rows
      <3>1. CASE rows' = rows
        BY <3>1 DEF KeysTyped
      <3>2. ASSUME NEW l \in LeftLimits(call[c].key),
                   rows' = [rows EXCEPT ![call[c].key] = [name |-> call[c].name, limit |-> l]]
            PROVE  rows' \in Rows
        <4> DEFINE r == [name |-> call[c].name, limit |-> l]
        <4>1. r \in Row /\ rows' = [rows EXCEPT ![call[c].key] = r]
          BY <2>3, <3>2
        <4> HIDE DEF r
        <4> QED BY <4>1 DEF KeysTyped, Rows
      <3> QED BY <1>26, <3>1, <3>2 DEF WriteRotate
    <2>5. overlaps' \in Nat
      BY <1>26 DEF WriteRotate, KeysTyped
    <2> QED BY <1>26, <2>1, <2>4, <2>5 DEF WriteRotate, OnlyServer, KeysTyped
  <1>27. ASSUME NEW c \in KeyCalls, AnsweredEarly(c) PROVE KeysTyped'
    <2>1. [call[c] EXCEPT !.by = "other"] \in Request
      BY DEF KeysTyped, Request
    <2>2. call' = [call EXCEPT ![c] = [call[c] EXCEPT !.by = "other"]]
      BY <1>27 DEF AnsweredEarly
    <2>3. call' \in [KeyCalls -> Request]
      BY <2>1, <2>2 DEF KeysTyped
    <2> DEFINE k == call[c].key
    <2>4. controls' = controls \/ controls' = [controls EXCEPT ![k] = [controls[k] EXCEPT !.rotate = "idle"]]
      BY <1>27 DEF AnsweredEarly
    <2> HIDE DEF k
    <2>5. k \in KeyIds => [controls[k] EXCEPT !.rotate = "idle"] \in Control
      BY DEF KeysTyped, Control
    <2>6. controls' \in [KeyIds -> Control]
      BY <2>4, <2>5 DEF KeysTyped
    <2> QED BY <1>27, <2>3, <2>6 DEF AnsweredEarly, KeysTyped
  <1>15. ASSUME NEW c \in KeyCalls, FailCall(c) PROVE KeysTyped'
    <2>1. call' \in [KeyCalls -> Request]
      BY <1>15, ReachTyped DEF FailCall
    <2> QED BY <1>15, <2>1 DEF FailCall, OnlyServer, KeysTyped
  <1>16. ASSUME NEW c \in KeyCalls, NEW op, Answered(c, op) PROVE call' \in [KeyCalls -> Request] /\ UNCHANGED <<rows, shown, overlaps>>
    BY <1>16, NoCallTyped DEF Answered, KeysTyped
  <1>17. ASSUME NEW c \in KeyCalls, CreateAnswered(c) PROVE KeysTyped'
    BY <1>16, <1>17 DEF CreateAnswered, KeysTyped
  <1>18. ASSUME NEW c \in KeyCalls, RotateAnswered(c) PROVE KeysTyped'
    <2> DEFINE k == call[c].key
    <2>1. \/ controls' = controls
          \/ controls' = [controls EXCEPT ![k] = [controls[k] EXCEPT !.rotate = "idle"]]
          \/ controls' = [controls EXCEPT ![k] = [controls[k] EXCEPT !.rotate = "done", !.timers = @ + 1]]
      BY <1>18 DEF RotateAnswered, KeysTyped
    <2> HIDE DEF k
    <2>2. ASSUME k \in KeyIds
          PROVE  /\ [controls[k] EXCEPT !.rotate = "idle"] \in Control
                 /\ [controls[k] EXCEPT !.rotate = "done", !.timers = @ + 1] \in Control
      <3>1. controls[k] \in Control
        BY <2>2 DEF KeysTyped
      <3>2. controls[k].timers + 1 \in Nat
        BY <3>1 DEF Control
      <3>3. [controls[k] EXCEPT !.rotate = "idle"] \in Control
        BY <3>1 DEF Control
      <3>4. [controls[k] EXCEPT !.rotate = "done", !.timers = @ + 1] \in Control
        BY <3>1, <3>2 DEF Control
      <3> QED BY <3>3, <3>4
    <2>3. controls' \in [KeyIds -> Control]
      BY <2>1, <2>2 DEF KeysTyped
    <2> QED BY <1>16, <1>18, <2>3 DEF RotateAnswered, KeysTyped
  <1>19. ASSUME NEW c \in KeyCalls, RemoveAnswered(c) PROVE KeysTyped'
    BY <1>16, <1>19 DEF RemoveAnswered, KeysTyped
  <1>20. ASSUME NEW c \in KeyCalls, SaveAnswered(c) PROVE KeysTyped'
    <2> DEFINE k == call[c].key
               typed == controls[k].typed /\ call[c].at # "ok"
               new == [controls[k] EXCEPT !.saving = FALSE, !.editing = FALSE, !.typed = typed]
    <2>1. \/ controls' = controls
          \/ controls' = [controls EXCEPT ![k] = new]
      BY <1>20 DEF SaveAnswered, KeysTyped
    <2> HIDE DEF k, new, typed
    <2>2. ASSUME k \in KeyIds PROVE new \in Control
      <3>1. controls[k] \in Control
        BY <2>2 DEF KeysTyped
      <3>2. typed \in BOOLEAN
        BY DEF typed
      <3> QED BY <3>1, <3>2 DEF Control, new
    <2>3. controls' \in [KeyIds -> Control]
      BY <2>1, <2>2 DEF KeysTyped
    <2> QED BY <1>16, <1>20, <2>3 DEF SaveAnswered, KeysTyped
  <1>21. ASSUME NEW c \in KeyCalls, NEW k \in KeyIds, Rotate(c, k) PROVE KeysTyped'
    <2>1. call' \in [KeyCalls -> Request] /\ UNCHANGED <<rows, shown, overlaps>>
      BY <1>21, SentTyped DEF Rotate
    <2>2. [controls[k] EXCEPT !.rotate = "busy"] \in Control
      BY DEF KeysTyped, Control
    <2>3. controls' = [controls EXCEPT ![k] = [controls[k] EXCEPT !.rotate = "busy"]]
      BY <1>21 DEF Rotate
    <2> QED BY <2>1, <2>2, <2>3 DEF KeysTyped
  <1>22. ASSUME NEW c \in KeyCalls, NEW k \in KeyIds, Remove(c, k) PROVE KeysTyped'
    BY <1>22, SentTyped DEF Remove, KeysTyped
  <1>23. ASSUME NEW c \in KeyCalls, NEW k \in KeyIds, Save(c, k) PROVE KeysTyped'
    <2>1. Meant(controls[k].text) \in Nat \cup {None}
      BY LimitOfText DEF KeysTyped, Control
    <2>2. call' \in [KeyCalls -> Request] /\ UNCHANGED <<rows, shown, overlaps>>
      BY <1>23, <2>1, SentTyped DEF Save
    <2>3. [controls[k] EXCEPT !.saving = TRUE] \in Control
      BY DEF KeysTyped, Control
    <2>4. controls' = [controls EXCEPT ![k] = [controls[k] EXCEPT !.saving = TRUE]]
      BY <1>23 DEF Save
    <2> QED BY <2>2, <2>3, <2>4 DEF KeysTyped
  <1>24. ASSUME NEW c \in KeyCalls, NEW k \in KeyIds, WriteCreate(c, k) PROVE KeysTyped'
    <2>1. call' \in [KeyCalls -> Request]
      BY <1>24, ReachTyped DEF WriteCreate
    <2>2. rows' \in Rows
      <3> DEFINE r == [name |-> call[c].name, limit |-> None]
      <3>1. r \in Row
        BY <1>24 DEF WriteCreate, KeysTyped, Request, Row
      <3>2. rows' = [rows EXCEPT ![k] = r]
        BY <1>24 DEF WriteCreate
      <3> HIDE DEF r
      <3> QED BY <3>1, <3>2 DEF KeysTyped, Rows
    <2> QED BY <1>24, <2>1, <2>2 DEF WriteCreate, OnlyServer, KeysTyped
  <1> QED BY <1>1, <1>2, <1>3, <1>4, <1>5, <1>7, <1>8, <1>9, <1>10, <1>11, <1>12, <1>13, <1>14,
             <1>15, <1>17, <1>18, <1>19, <1>20, <1>21, <1>22, <1>23, <1>24, <1>25, <1>26, <1>27 DEF KeysNext

-----------------------------------------------------------------------------
(* The number of keys and their names.                                     *)

NamesDiffer(r) == \A j, k \in Kept(r) : j # k => r[j].name # r[k].name

\* There is room for what has passed the check, but for one key an overlap; without
\* one, the only creation that has passed it has a name of its own.
RoomInv ==
    /\ IsFiniteSet(Kept(rows))
    /\ Cardinality(Kept(rows)) + Cardinality(Checked) <= MaxKeys + overlaps
    /\ overlaps = 0 =>
          /\ NamesDiffer(rows)
          /\ \A c \in Checked : ValidName(call[c].name, rows)
          /\ \A c, d \in Checked : c = d

\* The requests are finitely many.
LEMMA CheckedFinite == ASSUME NEW S \in SUBSET KeyCalls PROVE IsFiniteSet(S) /\ Cardinality(S) \in Nat
  <1>1. IsFiniteSet(KeyCalls)
    BY FS_Interval, KeySlotsAssumption DEF KeyCalls
  <1> QED BY <1>1, FS_Subset, FS_CardinalityType

\* The page begins with at most one key.
LEMMA RoomStart == KeysInit => RoomInv
  <1> SUFFICES ASSUME KeysInit PROVE RoomInv
    OBVIOUS
  <1>1. MaxKeys \in Nat
    BY MaxKeysAssumption
  <1>2. Checked = {}
    BY FirstCalls DEF Checked
  <1>3. Kept(rows) = {} \/ (MaxKeys > 0 /\ \E k \in KeyIds : Kept(rows) = {k})
    BY DEF KeysInit
  <1>4. IsFiniteSet(Kept(rows)) /\ Cardinality(Kept(rows)) <= MaxKeys
    <2>1. CASE Kept(rows) = {}
      BY <1>1, <2>1, FS_EmptySet
    <2>2. ASSUME MaxKeys > 0, NEW k \in KeyIds, Kept(rows) = {k}
          PROVE  IsFiniteSet(Kept(rows)) /\ Cardinality(Kept(rows)) <= MaxKeys
      <3>1. IsFiniteSet({k}) /\ Cardinality({k}) = 1
        BY FS_Singleton
      <3> QED BY <1>1, <2>2, <3>1
    <2> QED BY <1>3, <2>1, <2>2
  <1>5. NamesDiffer(rows)
    BY <1>3 DEF NamesDiffer
  <1>6. Cardinality(Checked) = 0 /\ Cardinality(Kept(rows)) \in Nat /\ overlaps = 0
    BY <1>2, <1>4, FS_EmptySet, FS_CardinalityType DEF KeysInit
  <1>7. Cardinality(Kept(rows)) + Cardinality(Checked) <= MaxKeys + overlaps
    BY <1>1, <1>4, <1>6
  <1> QED BY <1>2, <1>4, <1>5, <1>7 DEF RoomInv

\* No other creation passes the check, and no key is added or gets another name.
NothingNew ==
    /\ overlaps' = overlaps
    /\ \A c \in KeyCalls : call'[c].at = "checked" => call[c].at = "checked" /\ call'[c].name = call[c].name
    /\ \A k \in KeyIds : rows'[k] # None => rows[k] # None /\ rows'[k].name = rows[k].name

\* So there is room still.
LEMMA RoomKept == ASSUME overlaps \in Nat, RoomInv, NothingNew PROVE RoomInv'
  <1>1. Kept(rows') \subseteq Kept(rows) /\ Checked' \subseteq Checked /\ Checked \subseteq KeyCalls
    BY DEF Kept, Checked, NothingNew
  <1>2. /\ IsFiniteSet(Kept(rows')) /\ IsFiniteSet(Kept(rows))
        /\ Cardinality(Kept(rows')) <= Cardinality(Kept(rows))
    BY <1>1, FS_Subset DEF RoomInv
  <1>3. Cardinality(Kept(rows')) \in Nat /\ Cardinality(Kept(rows)) \in Nat /\ MaxKeys \in Nat
    BY <1>2, FS_CardinalityType, MaxKeysAssumption
  <1>4. /\ Cardinality(Checked') <= Cardinality(Checked)
        /\ Cardinality(Checked') \in Nat /\ Cardinality(Checked) \in Nat
    BY <1>1, CheckedFinite, FS_Subset
  <1>5. overlaps' = overlaps
    BY DEF NothingNew
  <1>6. Cardinality(Kept(rows')) + Cardinality(Checked') <= MaxKeys + overlaps'
    <2>1. Cardinality(Kept(rows)) + Cardinality(Checked) <= MaxKeys + overlaps
      BY DEF RoomInv
    <2> QED BY <1>2, <1>3, <1>4, <1>5, <2>1
  <1>7. \A k \in Kept(rows') : k \in Kept(rows) /\ rows'[k].name = rows[k].name
    BY DEF Kept, NothingNew
  <1>8. \A c \in Checked' : c \in Checked /\ call'[c].name = call[c].name
    BY DEF Checked, NothingNew
  <1>9. ASSUME overlaps = 0
        PROVE  /\ NamesDiffer(rows')
               /\ \A c \in Checked' : ValidName(call'[c].name, rows')
               /\ \A c, d \in Checked' : c = d
    <2>1. /\ NamesDiffer(rows) /\ \A c \in Checked : ValidName(call[c].name, rows)
          /\ \A c, d \in Checked : c = d
      BY <1>9 DEF RoomInv
    <2>2. NamesDiffer(rows')
      BY <1>7, <2>1 DEF NamesDiffer
    <2>3. \A c \in Checked' : ValidName(call'[c].name, rows')
      BY <1>7, <1>8, <2>1 DEF ValidName
    <2> QED BY <1>8, <2>1, <2>2, <2>3
  <1> QED BY <1>2, <1>5, <1>6, <1>9 DEF RoomInv

\* Requests that are sent, answered or left behind are not of those.
LEMMA SendsNothingNew ==
    ASSUME KeysTyped, NEW c \in KeyCalls, NEW r, r.at # "checked", call' = [call EXCEPT ![c] = r],
           UNCHANGED <<rows, overlaps>>
    PROVE  NothingNew
  BY DEF NothingNew, KeysTyped

\* Nor is a page that is rendered.
LEMMA RendersNothingNew ==
    ASSUME KeysTyped, NEW r, NEW w, NEW o, NEW remounted, Rendered(r, w, o, remounted),
           UNCHANGED <<rows, overlaps>>
    PROVE  NothingNew
  <1>1. \A c \in KeyCalls : [call[c] EXCEPT !.by = "gone"].at = call[c].at
                            /\ [call[c] EXCEPT !.by = "gone"].name = call[c].name
    BY DEF KeysTyped, Request
  <1>2. \A c \in KeyCalls : call'[c] = call[c] \/ call'[c] = [call[c] EXCEPT !.by = "gone"]
    BY DEF Rendered
  <1> QED BY <1>1, <1>2 DEF NothingNew

\* Every step keeps the room for what has passed the check.
LEMMA RoomStep == ASSUME KeysTyped, RoomInv, KeysNext PROVE RoomInv'
  <1>0. overlaps \in Nat /\ MaxKeys \in Nat
    BY MaxKeysAssumption DEF KeysTyped
  <1>1. CASE RenderRows
    BY <1>1, RendersNothingNew, RoomKept, <1>0 DEF RenderRows
  <1>2. CASE Resize
    BY <1>2, RendersNothingNew, RoomKept, <1>0 DEF Resize
  <1>3. CASE ReloadKeys
    <2>1. \A c \in KeyCalls : [call[c] EXCEPT !.by = "other"].at = call[c].at
                              /\ [call[c] EXCEPT !.by = "other"].name = call[c].name
      BY DEF KeysTyped, Request
    <2>2. \A c \in KeyCalls : call'[c] = NoCall \/ call'[c] = [call[c] EXCEPT !.by = "other"]
      BY <1>3 DEF ReloadKeys
    <2>3. NoCall.at # "checked"
      BY DEF NoCall
    <2>4. NothingNew
      BY <1>3, <2>1, <2>2, <2>3 DEF ReloadKeys, NothingNew
    <2> QED BY <2>4, RoomKept, <1>0
  <1>4. ASSUME UNCHANGED <<rows, call, overlaps>> PROVE RoomInv'
    <2>1. NothingNew
      BY <1>4 DEF NothingNew
    <2> QED BY <2>1, RoomKept, <1>0
  <1>5. CASE EditName \/ CloseCard
    BY <1>4, <1>5 DEF EditName, CloseCard
  <1>6. ASSUME NEW k \in KeyIds, Toggle(k) PROVE RoomInv'
    BY <1>6, RendersNothingNew, RoomKept, <1>0 DEF Toggle
  <1>7. ASSUME NEW k \in KeyIds, RotateTimer(k) \/ OpenEditor(k) \/ Cancel(k) PROVE RoomInv'
    BY <1>4, <1>7 DEF RotateTimer, OpenEditor, Cancel, OnlyEditor
  <1>8. ASSUME NEW k \in KeyIds, NEW t \in Typed, Type(k, t) PROVE RoomInv'
    BY <1>4, <1>8 DEF Type, OnlyEditor
  <1>9. ASSUME NEW c \in KeyCalls, NEW op, NEW key, NEW name, NEW limit, NEW by,
               Send(c, op, key, name, limit, by)
        PROVE  RoomInv'
    <2> DEFINE r == [op |-> op, key |-> key, name |-> name, limit |-> limit, by |-> by, at |-> "sent"]
    <2>1. r.at # "checked"
      OBVIOUS
    <2>2. call' = [call EXCEPT ![c] = r] /\ UNCHANGED <<rows, overlaps>>
      BY <1>9 DEF Send
    <2> HIDE DEF r
    <2> QED BY <2>1, <2>2, SendsNothingNew, RoomKept, <1>0
  <1>10. ASSUME NEW c \in KeyCalls, Create(c) PROVE RoomInv'
    BY <1>9, <1>10 DEF Create
  <1>11. ASSUME NEW c \in KeyCalls, Elsewhere(c) PROVE RoomInv'
    BY <1>9, <1>11 DEF Elsewhere
  <1>12. ASSUME NEW c \in KeyCalls, NEW k \in KeyIds, Rotate(c, k) \/ Remove(c, k) \/ Save(c, k)
         PROVE  RoomInv'
    BY <1>9, <1>12 DEF Rotate, Remove, Save
  <1>13. ASSUME NEW c \in KeyCalls, NEW op, Answered(c, op) PROVE RoomInv'
    <2>1. NoCall.at # "checked"
      BY DEF NoCall
    <2> QED BY <1>13, <2>1, SendsNothingNew, RoomKept, <1>0 DEF Answered
  <1>14. ASSUME NEW c \in KeyCalls,
                CreateAnswered(c) \/ RotateAnswered(c) \/ RemoveAnswered(c) \/ SaveAnswered(c)
         PROVE  RoomInv'
    BY <1>13, <1>14 DEF CreateAnswered, RotateAnswered, RemoveAnswered, SaveAnswered
  <1>15. \A c \in KeyCalls : \A at : Reach(c, at) => call' = [call EXCEPT ![c] = [call[c] EXCEPT !.at = at]]
    BY DEF Reach
  <1>16. \A c \in KeyCalls : \A at : [call[c] EXCEPT !.at = at].at = at
                                 /\ [call[c] EXCEPT !.at = at].name = call[c].name
    BY DEF KeysTyped, Request
  <1>17. ASSUME NEW c \in KeyCalls, FailCall(c) PROVE RoomInv'
    <2>1. PICK at \in {"refused", "lost"} : Reach(c, at) /\ UNCHANGED <<rows, overlaps>>
      BY <1>17 DEF FailCall
    <2> DEFINE r == [call[c] EXCEPT !.at = at]
    <2>2. call' = [call EXCEPT ![c] = r] /\ r.at # "checked"
      BY <1>15, <1>16, <2>1
    <2> HIDE DEF r
    <2>3. NothingNew
      BY <2>1, <2>2, SendsNothingNew
    <2> QED BY <2>3, RoomKept, <1>0
  <1>18. ASSUME NEW c \in KeyCalls, Serve(c) PROVE RoomInv'
    <2>1. PICK at \in {"ok", "refused"} : Reach(c, at)
      BY <1>18 DEF Serve
    <2>2. call' = [call EXCEPT ![c] = [call[c] EXCEPT !.at = at]]
      BY <1>15, <2>1
    <2>3. \A d \in KeyCalls : call'[d].at = "checked" => call[d].at = "checked" /\ call'[d].name = call[d].name
      BY <1>16, <2>2 DEF KeysTyped
    <2>4. \A k \in KeyIds : rows'[k] # None => rows[k] # None /\ rows'[k].name = rows[k].name
      <3> DEFINE k0 == call[c].key
      <3>1. rows' = rows \/ rows' = [rows EXCEPT ![k0] = None]
             \/ (rows[k0] # None /\ rows' = [rows EXCEPT ![k0].limit = call[c].limit])
        BY <1>18 DEF Serve
      <3>2. CASE rows' = rows \/ rows' = [rows EXCEPT ![k0] = None]
        BY <3>2 DEF KeysTyped, Rows
      <3>3. CASE rows[k0] # None /\ rows' = [rows EXCEPT ![k0].limit = call[c].limit]
        <4>1. rows' = [rows EXCEPT ![k0] = [rows[k0] EXCEPT !.limit = call[c].limit]]
          BY <3>3
        <4>2. k0 \in KeyIds => [rows[k0] EXCEPT !.limit = call[c].limit].name = rows[k0].name
          BY <3>3 DEF KeysTyped, Rows, Row
        <4> HIDE DEF k0
        <4> QED BY <3>3, <4>1, <4>2 DEF KeysTyped, Rows
      <3> QED BY <3>1, <3>2, <3>3
    <2>5. NothingNew
      BY <1>18, <2>3, <2>4 DEF Serve, NothingNew
    <2> QED BY <1>0, <2>5, RoomKept
  <1>21. ASSUME NEW c \in KeyCalls, ReadRotate(c) PROVE RoomInv'
    <2>1. PICK r : r.at # "checked" /\ call' = [call EXCEPT ![c] = r]
      <3>1. CASE rows[call[c].key] = None
        <4> DEFINE r == [call[c] EXCEPT !.at = "refused"]
        <4>1. call' = [call EXCEPT ![c] = r] /\ r.at # "checked"
          BY <1>15, <1>16, <1>21, <3>1 DEF ReadRotate
        <4> HIDE DEF r
        <4> QED BY <4>1
      <3>2. CASE rows[call[c].key] # None
        <4> DEFINE k == call[c].key
                   r == [call[c] EXCEPT !.name = rows[k].name, !.limit = rows[k].limit, !.at = "read"]
        <4>1. call' = [call EXCEPT ![c] = r]
          BY <1>21, <3>2 DEF ReadRotate
        <4>2. r.at = "read"
          BY DEF KeysTyped, Request
        <4> HIDE DEF r
        <4> QED BY <4>1, <4>2
      <3> QED BY <3>1, <3>2
    <2>2. NothingNew
      BY <1>21, <2>1, SendsNothingNew DEF ReadRotate
    <2> QED BY <1>0, <2>2, RoomKept
  <1>22. ASSUME NEW c \in KeyCalls, AnsweredEarly(c) PROVE RoomInv'
    <2>1. call' = [call EXCEPT ![c] = [call[c] EXCEPT !.by = "other"]] /\ UNCHANGED <<rows, overlaps>>
      BY <1>22 DEF AnsweredEarly
    <2>2. /\ [call[c] EXCEPT !.by = "other"].at = call[c].at
          /\ [call[c] EXCEPT !.by = "other"].name = call[c].name
      BY DEF KeysTyped, Request
    <2>3. NothingNew
      BY <2>1, <2>2 DEF NothingNew, KeysTyped
    <2> QED BY <1>0, <2>3, RoomKept
  <1>23. ASSUME NEW c \in KeyCalls, NEW k, Checked' \subseteq Checked, rows[k] = None,
                \A j \in KeyIds : j # k => rows'[j] = rows[j]
         PROVE  /\ IsFiniteSet(Kept(rows'))
                /\ Cardinality(Kept(rows')) \in Nat /\ Cardinality(Kept(rows)) \in Nat
                /\ Cardinality(Kept(rows')) <= Cardinality(Kept(rows)) + 1
                /\ Cardinality(Checked') \in Nat /\ Cardinality(Checked) \in Nat
                /\ Cardinality(Checked') <= Cardinality(Checked)
                /\ IsFiniteSet(Checked)
    <2>1. k \notin Kept(rows) /\ Kept(rows') \subseteq Kept(rows) \cup {k}
      BY <1>23 DEF Kept
    <2>2. /\ IsFiniteSet(Kept(rows) \cup {k})
          /\ Cardinality(Kept(rows) \cup {k}) = Cardinality(Kept(rows)) + 1
          /\ Cardinality(Kept(rows)) \in Nat
      BY <2>1, FS_AddElement, FS_CardinalityType DEF RoomInv
    <2>3. /\ IsFiniteSet(Kept(rows'))
          /\ Cardinality(Kept(rows')) <= Cardinality(Kept(rows)) + 1
          /\ Cardinality(Kept(rows')) \in Nat
      BY <2>1, <2>2, FS_Subset, FS_CardinalityType
    <2>4. Checked \subseteq KeyCalls /\ IsFiniteSet(Checked)
      BY CheckedFinite DEF Checked
    <2> QED BY <1>23, <2>2, <2>3, <2>4, CheckedFinite, FS_Subset
  <1>24. ASSUME NEW c \in KeyCalls, WriteRotate(c) PROVE RoomInv'
    <2>1. call' = [call EXCEPT ![c] = [call[c] EXCEPT !.at = "ok"]]
      BY <1>15, <1>24 DEF WriteRotate
    <2>2. \A d \in KeyCalls : call'[d].at = "checked" => call[d].at = "checked" /\ call'[d].name = call[d].name
      BY <1>16, <2>1 DEF KeysTyped
    <2> DEFINE k == call[c].key
    <2>3. CASE UNCHANGED <<rows, overlaps>>
      <3>1. NothingNew
        BY <2>2, <2>3 DEF NothingNew
      <3> QED BY <1>0, <3>1, RoomKept
    <2>4. ASSUME NEW l, rows' = [rows EXCEPT ![k] = [name |-> call[c].name, limit |-> l]],
                 rows[k] = None, overlaps' = overlaps + 1
          PROVE  RoomInv'
      <3>1. \A j \in KeyIds : j # k => rows'[j] = rows[j]
        BY <2>4 DEF KeysTyped, Rows
      <3>2. Checked' \subseteq Checked
        BY <2>2 DEF Checked
      <3> HIDE DEF k
      <3>3. /\ IsFiniteSet(Kept(rows'))
            /\ Cardinality(Kept(rows')) \in Nat /\ Cardinality(Kept(rows)) \in Nat
            /\ Cardinality(Kept(rows')) <= Cardinality(Kept(rows)) + 1
            /\ Cardinality(Checked') \in Nat /\ Cardinality(Checked) \in Nat
            /\ Cardinality(Checked') <= Cardinality(Checked)
        BY <1>23, <2>4, <3>1, <3>2
      <3>4. Cardinality(Kept(rows)) + Cardinality(Checked) <= MaxKeys + overlaps
        BY DEF RoomInv
      <3>5. Cardinality(Kept(rows')) + Cardinality(Checked') <= MaxKeys + overlaps'
        BY <1>0, <2>4, <3>3, <3>4
      <3>6. overlaps' # 0
        BY <1>0, <2>4
      <3> QED BY <3>3, <3>5, <3>6 DEF RoomInv
    <2> QED BY <1>24, <2>3, <2>4 DEF WriteRotate
  <1>19. ASSUME NEW c \in KeyCalls, CheckCreate(c) PROVE RoomInv'
    <2>1. rows' = rows
      BY <1>19 DEF CheckCreate
    <2>2. CASE ValidName(call[c].name, rows) /\ HasRoom
      <3>1. /\ call' = [call EXCEPT ![c] = [call[c] EXCEPT !.at = "checked"]]
            /\ overlaps' = IF Checked = {} THEN overlaps ELSE overlaps + 1
            /\ call[c].at = "sent"
        BY <1>15, <1>19, <2>2 DEF CheckCreate
      <3>2. call'[c].at = "checked" /\ call'[c].name = call[c].name
        BY <1>16, <3>1 DEF KeysTyped
      <3>3. \A d \in KeyCalls : d # c => call'[d] = call[d]
        BY <3>1 DEF KeysTyped
      <3>4. Checked' = Checked \cup {c} /\ c \notin Checked
        BY <3>1, <3>2, <3>3 DEF Checked
      <3>5. /\ Cardinality(Checked') = Cardinality(Checked) + 1
            /\ Cardinality(Checked) \in Nat
            /\ Checked = {} => Cardinality(Checked) = 0
        <4>1. Checked \subseteq KeyCalls
          BY DEF Checked
        <4> QED BY <3>4, <4>1, CheckedFinite, FS_AddElement, FS_EmptySet
      <3>6. Kept(rows') = Kept(rows) /\ Cardinality(Kept(rows)) \in Nat /\ Cardinality(Kept(rows)) < MaxKeys
        BY <2>1, <2>2, FS_CardinalityType DEF Kept, HasRoom, RoomInv
      <3>7. Cardinality(Kept(rows')) + Cardinality(Checked') <= MaxKeys + overlaps'
        <4>1. Cardinality(Kept(rows)) + Cardinality(Checked) <= MaxKeys + overlaps
          BY DEF RoomInv
        <4> QED BY <1>0, <3>1, <3>5, <3>6, <4>1
      <3>8. ASSUME overlaps' = 0
            PROVE  /\ NamesDiffer(rows')
                   /\ \A d \in Checked' : ValidName(call'[d].name, rows')
                   /\ \A d, e \in Checked' : d = e
        <4>1. Checked = {} /\ overlaps = 0
          BY <1>0, <3>1, <3>8
        <4>2. NamesDiffer(rows) /\ Checked' = {c}
          BY <3>4, <4>1 DEF RoomInv
        <4> QED BY <2>1, <2>2, <3>2, <4>2
      <3> QED BY <3>6, <3>7, <3>8 DEF RoomInv
    <2>3. CASE ~(ValidName(call[c].name, rows) /\ HasRoom)
      <3>1. Reach(c, "refused") /\ UNCHANGED <<rows, overlaps>>
        BY <1>19, <2>3 DEF CheckCreate
      <3> DEFINE r == [call[c] EXCEPT !.at = "refused"]
      <3>2. call' = [call EXCEPT ![c] = r] /\ r.at # "checked"
        BY <1>15, <1>16, <3>1
      <3> HIDE DEF r
      <3>3. NothingNew
        BY <3>1, <3>2, SendsNothingNew
      <3> QED BY <1>0, <3>3, RoomKept
    <2> QED BY <2>2, <2>3
  <1>20. ASSUME NEW c \in KeyCalls, NEW k \in KeyIds, WriteCreate(c, k) PROVE RoomInv'
    <2> DEFINE r == [name |-> call[c].name, limit |-> None]
    <2>1. /\ call[c].at = "checked" /\ rows[k] = None /\ overlaps' = overlaps
          /\ rows' = [rows EXCEPT ![k] = r]
          /\ call' = [call EXCEPT ![c] = [call[c] EXCEPT !.at = "ok"]]
      BY <1>15, <1>20 DEF WriteCreate, Unknown
    <2>2. /\ rows'[k] = r /\ r.name = call[c].name
          /\ \A j \in KeyIds : j # k => rows'[j] = rows[j]
      BY <2>1 DEF KeysTyped, Rows
    <2>3. call'[c].at = "ok" /\ \A d \in KeyCalls : d # c => call'[d] = call[d]
      BY <1>16, <2>1 DEF KeysTyped
    <2> HIDE DEF r
    <2>4. c \in Checked /\ Checked' = Checked \ {c}
      BY <2>1, <2>3 DEF Checked
    <2>5. /\ IsFiniteSet(Kept(rows'))
          /\ Cardinality(Kept(rows')) \in Nat /\ Cardinality(Kept(rows)) \in Nat
          /\ Cardinality(Kept(rows')) <= Cardinality(Kept(rows)) + 1
          /\ Cardinality(Checked') \in Nat /\ Cardinality(Checked) \in Nat
          /\ IsFiniteSet(Checked)
      BY <1>23, <2>1, <2>2, <2>4
    <2>6. Cardinality(Checked') = Cardinality(Checked) - 1
      BY <2>4, <2>5, FS_RemoveElement
    <2>7. Cardinality(Kept(rows')) + Cardinality(Checked') <= MaxKeys + overlaps'
      <3>1. Cardinality(Kept(rows)) + Cardinality(Checked) <= MaxKeys + overlaps
        BY DEF RoomInv
      <3> QED BY <1>0, <2>1, <2>5, <2>6, <3>1
    <2>8. ASSUME overlaps = 0
          PROVE  NamesDiffer(rows') /\ Checked' = {}
      <3>1. ValidName(call[c].name, rows) /\ NamesDiffer(rows) /\ \A d, e \in Checked : d = e
        BY <2>4, <2>8 DEF RoomInv
      <3>2. \A j \in Kept(rows) : rows[j].name # call[c].name
        BY <3>1 DEF ValidName
      <3>3. \A j \in Kept(rows') : j = k \/ (j \in Kept(rows) /\ rows'[j] = rows[j] /\ j # k)
        BY <2>2 DEF Kept
      <3>4. NamesDiffer(rows')
        BY <2>2, <3>1, <3>2, <3>3 DEF NamesDiffer
      <3> QED BY <2>4, <3>1, <3>4
    <2> QED BY <2>1, <2>5, <2>7, <2>8 DEF RoomInv
  <1> QED BY <1>1, <1>2, <1>3, <1>5, <1>6, <1>7, <1>8, <1>10, <1>11, <1>12, <1>14, <1>17, <1>18,
             <1>19, <1>20, <1>21, <1>22, <1>24 DEF KeysNext

-----------------------------------------------------------------------------
(* The editors of the limits.                                              *)

\* A save of the page whose editor waits for it.
Saves(c) == call[c].op = "limit" /\ call[c].by = "page"

\* What nobody typed is the limit.
Untyped ==
    \A k \in OnPage \ strays :
        rows[k] # None /\ ~controls[k].typed => Meant(controls[k].text) = rows[k].limit

\* An editor waits for one save, of its text; the limit is that if it succeeded.
SavesOwn ==
    \A c \in KeyCalls : Saves(c) =>
        /\ call[c].key \in OnPage
        /\ controls[call[c].key].saving
        /\ call[c].limit = Meant(controls[call[c].key].text)
        /\ call[c].at = "ok" =>
              \/ rows[call[c].key] = None
              \/ call[c].key \in strays
              \/ rows[call[c].key].limit = call[c].limit

OneSave == \A c, d \in KeyCalls : Saves(c) /\ Saves(d) /\ call[c].key = call[d].key => c = d

EditInv == Untyped /\ SavesOwn /\ OneSave

\* At first every row is what the editors of its page will show.
LEMMA EditStart == KeysInit => EditInv
  <1> SUFFICES ASSUME KeysInit PROVE EditInv
    OBVIOUS
  <1>1. \A c \in KeyCalls : call[c].op # "limit"
    BY FirstCalls
  <1>2. ASSUME NEW k \in OnPage, rows[k] # None PROVE Meant(controls[k].text) = rows[k].limit
    <2>1. controls[k].text = Display(None) /\ rows[k].limit = None
      BY <1>2 DEF KeysInit, Unmounted, OnPage, Mounted, Kept
    <2>2. Meant(Display(None)) = None
      BY DEF Meant, Display
    <2> QED BY <2>1, <2>2
  <1> QED BY <1>1, <1>2 DEF EditInv, Untyped, SavesOwn, OneSave, Saves

\* A page that is rendered: what stays is as it was, what comes is fresh.
LEMMA EditRendered ==
    ASSUME KeysTyped, EditInv, NEW r \in Rows, NEW w, NEW o, NEW remounted,
           Rendered(r, w, o, remounted), rows' = rows
    PROVE  EditInv'
  <1> DEFINE stay == (Mounted(r, w, o) \cap OnPage) \ remounted
             come == Mounted(r, w, o) \ stay
  <1>1. OnPage' = Mounted(r, w, o)
    BY DEF Rendered, OnPage, Mounted, Kept
  <1>2. /\ controls' = [k \in KeyIds |-> IF k \in stay THEN controls[k]
                                        ELSE IF k \in come THEN Fresh(r[k]) ELSE Unmounted]
        /\ call' = [c \in KeyCalls |->
                      IF call[c].by = "page" /\ call[c].op # "create" /\ call[c].key \notin stay
                      THEN [call[c] EXCEPT !.by = "gone"] ELSE call[c]]
        /\ strays' = strays \cup {k \in come : rows[k] # None /\ Meant(Display(r[k].limit)) # rows[k].limit}
    BY DEF Rendered
  <1>3. stay \subseteq OnPage /\ stay \cup come = Mounted(r, w, o) /\ Mounted(r, w, o) \subseteq KeyIds
    BY DEF Mounted, Kept
  <1> HIDE DEF stay, come
  <1>4. \A k \in stay : controls'[k] = controls[k]
    BY <1>2, <1>3
  <1>5. \A k \in come \ stay : controls'[k] = Fresh(r[k])
    BY <1>2, <1>3
  <1>6. ASSUME NEW k \in OnPage', k \notin strays', rows'[k] # None, ~controls'[k].typed
        PROVE  Meant(controls'[k].text) = rows'[k].limit
    <2>1. CASE k \in stay
      BY <1>2, <1>3, <1>4, <1>6, <2>1 DEF EditInv, Untyped
    <2>2. CASE k \notin stay
      <3>1. k \in come
        BY <1>1, <1>3, <1>6, <2>2
      <3>2. controls'[k].text = Display(r[k].limit)
        <4>1. controls'[k] = Fresh(r[k])
          BY <1>5, <2>2, <3>1
        <4>2. Fresh(r[k]).text = Display(r[k].limit)
          BY DEF Fresh
        <4> QED BY <4>1, <4>2
      <3>3. Meant(Display(r[k].limit)) = rows[k].limit
        BY <1>2, <1>6, <3>1
      <3> QED BY <3>2, <3>3
    <2> QED BY <2>1, <2>2
  <1>7. \A c \in KeyCalls : [call[c] EXCEPT !.by = "gone"].by = "gone"
    BY DEF KeysTyped, Request
  <1>8. ASSUME NEW c \in KeyCalls, Saves(c)'
        PROVE  call'[c] = call[c] /\ Saves(c) /\ call[c].key \in stay
    <2>1. call'[c].by # "gone"
      BY <1>8 DEF Saves
    <2>2. ~(call[c].by = "page" /\ call[c].op # "create" /\ call[c].key \notin stay)
      BY <1>2, <1>7, <2>1
    <2>3. call'[c] = call[c]
      BY <1>2, <2>2
    <2> QED BY <1>8, <2>2, <2>3 DEF Saves
  <1>9. SavesOwn'
    <2> SUFFICES ASSUME NEW c \in KeyCalls, Saves(c)'
                 PROVE  /\ call'[c].key \in OnPage'
                        /\ controls'[call'[c].key].saving
                        /\ call'[c].limit = Meant(controls'[call'[c].key].text)
                        /\ call'[c].at = "ok" =>
                              \/ rows'[call'[c].key] = None
                              \/ call'[c].key \in strays'
                              \/ rows'[call'[c].key].limit = call'[c].limit
      BY DEF SavesOwn, Meant
    <2>1. call'[c] = call[c] /\ Saves(c) /\ call[c].key \in stay
      BY <1>8
    <2>2. controls'[call[c].key] = controls[call[c].key] /\ call[c].key \in OnPage'
      BY <1>1, <1>3, <1>4, <2>1
    <2>3. strays \subseteq strays'
      BY <1>2
    <2> QED BY <2>1, <2>2, <2>3 DEF EditInv, SavesOwn
  <1>10. OneSave'
    BY <1>8 DEF EditInv, OneSave
  <1> QED BY <1>6, <1>9, <1>10 DEF EditInv, Untyped, Meant

\* A step that leaves the rows, the page and the editors as they are, and sends or
\* answers a request that is none of theirs.
LEMMA EditKept ==
    ASSUME EditInv, UNCHANGED <<rows, shown, wide, opened, strays>>,
           \A k \in OnPage : /\ controls'[k].saving = controls[k].saving
                             /\ controls'[k].text = controls[k].text
                             /\ controls'[k].typed = controls[k].typed,
           \A c \in KeyCalls : Saves(c)' =>
               /\ Saves(c) /\ call'[c].key = call[c].key /\ call'[c].limit = call[c].limit
               /\ call'[c].at = "ok" => call[c].at = "ok"
    PROVE  EditInv'
  <1>1. OnPage' = OnPage
    BY DEF OnPage, Mounted, Kept
  <1>2. Untyped'
    BY <1>1 DEF EditInv, Untyped, Meant
  <1>3. SavesOwn'
    <2> SUFFICES ASSUME NEW c \in KeyCalls, Saves(c)'
                 PROVE  /\ call'[c].key \in OnPage'
                        /\ controls'[call'[c].key].saving
                        /\ call'[c].limit = Meant(controls'[call'[c].key].text)
                        /\ call'[c].at = "ok" =>
                              \/ rows'[call'[c].key] = None
                              \/ call'[c].key \in strays'
                              \/ rows'[call'[c].key].limit = call'[c].limit
      BY DEF SavesOwn, Meant
    <2> QED BY <1>1 DEF EditInv, SavesOwn
  <1>4. OneSave'
    BY DEF EditInv, OneSave
  <1> QED BY <1>2, <1>3, <1>4 DEF EditInv

\* Every step keeps them so.
LEMMA EditStep == ASSUME KeysTyped, EditInv, KeysNext PROVE EditInv'
  <1>1. CASE RenderRows
    BY <1>1, EditRendered DEF RenderRows, KeysTyped
  <1>2. CASE Resize
    BY <1>2, EditRendered DEF Resize, KeysTyped
  <1>3. ASSUME NEW k \in KeyIds, Toggle(k) PROVE EditInv'
    BY <1>3, EditRendered DEF Toggle, KeysTyped
  <1>4. CASE ReloadKeys
    <2>1. \A c \in KeyCalls : [call[c] EXCEPT !.by = "other"].by = "other"
      BY DEF KeysTyped, Request
    <2>2. \A c \in KeyCalls : call'[c] = NoCall \/ call'[c] = [call[c] EXCEPT !.by = "other"]
      BY <1>4 DEF ReloadKeys
    <2>3. ASSUME NEW c \in KeyCalls PROVE ~Saves(c)'
      <3>1. CASE call'[c] = NoCall
        BY <3>1 DEF Saves, NoCall
      <3>2. CASE call'[c] = [call[c] EXCEPT !.by = "other"]
        BY <2>1, <3>2 DEF Saves
      <3> QED BY <2>2, <3>1, <3>2
    <2>4. OnPage' = Kept(rows) /\ rows' = rows
      BY <1>4 DEF ReloadKeys, OnPage, Mounted, Kept
    <2>5. ASSUME NEW k \in Kept(rows), k \notin strays' PROVE Meant(controls'[k].text) = rows[k].limit
      <3>1. controls'[k] = Fresh(rows[k])
        BY <1>4 DEF ReloadKeys, Kept
      <3>2. Fresh(rows[k]).text = Display(rows[k].limit)
        BY DEF Fresh
      <3>3. Meant(Display(rows[k].limit)) = rows[k].limit
        BY <1>4, <2>5 DEF ReloadKeys
      <3> QED BY <3>1, <3>2, <3>3
    <2> QED BY <2>3, <2>4, <2>5 DEF EditInv, Untyped, SavesOwn, OneSave, Meant
  <1>5. CASE EditName \/ CloseCard
    BY <1>5, EditKept DEF EditName, CloseCard, Saves
  <1>6. ASSUME NEW k \in KeyIds, RotateTimer(k) PROVE EditInv'
    <2>1. controls' = [controls EXCEPT ![k] = [controls[k] EXCEPT !.rotate = "idle", !.timers = @ - 1]]
      BY <1>6 DEF RotateTimer, KeysTyped
    <2>2. \A j \in KeyIds : /\ controls'[j].saving = controls[j].saving
                            /\ controls'[j].text = controls[j].text
                            /\ controls'[j].typed = controls[j].typed
      BY <2>1 DEF KeysTyped, Control
    <2> QED BY <1>6, <2>2, EditKept DEF RotateTimer, Saves, OnPage, Mounted, Kept
  <1>7. ASSUME NEW k \in KeyIds, OpenEditor(k) PROVE EditInv'
    <2>1. controls' = [controls EXCEPT ![k] = [controls[k] EXCEPT !.editing = TRUE]]
      BY <1>7 DEF OpenEditor
    <2>2. \A j \in KeyIds : /\ controls'[j].saving = controls[j].saving
                            /\ controls'[j].text = controls[j].text
                            /\ controls'[j].typed = controls[j].typed
      BY <2>1 DEF KeysTyped, Control
    <2> QED BY <1>7, <2>2, EditKept DEF OpenEditor, OnlyEditor, Saves, OnPage, Mounted, Kept
  <1>8. ASSUME NEW k \in OnPage, NEW row, controls' = [controls EXCEPT ![k] = row],
               ~controls[k].saving, UNCHANGED <<rows, shown, wide, opened, call>>,
               strays \subseteq strays', row.typed \/ k \in strays' \/ rows[k] = None
                                         \/ Meant(row.text) = rows[k].limit
        PROVE  EditInv'
    <2>1. OnPage' = OnPage /\ OnPage \subseteq KeyIds
      BY <1>8 DEF OnPage, Mounted, Kept
    <2>2. controls'[k] = row /\ \A j \in KeyIds : j # k => controls'[j] = controls[j]
      BY <1>8, <2>1 DEF KeysTyped
    <2>3. \A c \in KeyCalls : Saves(c)' = Saves(c) /\ (Saves(c) => call[c].key # k)
      BY <1>8 DEF EditInv, SavesOwn, Saves
    <2>4. Untyped'
      BY <1>8, <2>1, <2>2 DEF EditInv, Untyped, Meant
    <2>5. SavesOwn'
      <3> SUFFICES ASSUME NEW c \in KeyCalls, Saves(c)'
                   PROVE  /\ call'[c].key \in OnPage'
                          /\ controls'[call'[c].key].saving
                          /\ call'[c].limit = Meant(controls'[call'[c].key].text)
                          /\ call'[c].at = "ok" =>
                                \/ rows'[call'[c].key] = None
                                \/ call'[c].key \in strays'
                                \/ rows'[call'[c].key].limit = call'[c].limit
        BY DEF SavesOwn, Meant
      <3>1. Saves(c) /\ call[c].key # k
        BY <2>3
      <3> QED BY <1>8, <2>1, <2>2, <3>1 DEF EditInv, SavesOwn
    <2>6. OneSave'
      BY <1>8, <2>3 DEF EditInv, OneSave
    <2> QED BY <2>4, <2>5, <2>6 DEF EditInv
  <1>9. ASSUME NEW k \in KeyIds, NEW t \in Typed, Type(k, t) PROVE EditInv'
    <2> DEFINE row == [controls[k] EXCEPT !.text = t, !.typed = TRUE]
    <2>1. row.typed
      BY DEF KeysTyped, Control
    <2>2. controls' = [controls EXCEPT ![k] = row]
      BY <1>9 DEF Type, KeysTyped
    <2> HIDE DEF row
    <2> QED BY <1>8, <1>9, <2>1, <2>2 DEF Type, Editing, OnlyEditor
  <1>10. ASSUME NEW k \in KeyIds, Cancel(k) PROVE EditInv'
    <2> DEFINE reset == Display(shown[k].limit)
               row == [controls[k] EXCEPT !.text = reset, !.editing = FALSE, !.typed = FALSE]
    <2>1. row.text = reset
      BY DEF KeysTyped, Control
    <2>2. controls' = [controls EXCEPT ![k] = row]
      BY <1>10 DEF Cancel, KeysTyped
    <2>3. strays' = IF rows[k] # None /\ Meant(reset) # rows[k].limit THEN strays \cup {k} ELSE strays
      BY <1>10 DEF Cancel
    <2> HIDE DEF row, reset
    <2> QED BY <1>8, <1>10, <2>1, <2>2, <2>3 DEF Cancel, Editing, OnlyEditor
  <1>11. ASSUME NEW c \in KeyCalls, NEW r, call' = [call EXCEPT ![c] = r],
                r.op # "limit" \/ r.by # "page",
                UNCHANGED <<rows, shown, wide, opened, strays>>,
                \A k \in OnPage : /\ controls'[k].saving = controls[k].saving
                                  /\ controls'[k].text = controls[k].text
                                  /\ controls'[k].typed = controls[k].typed
         PROVE  EditInv'
    <2>1. \A d \in KeyCalls : Saves(d)' => call'[d] = call[d]
      BY <1>11 DEF Saves, KeysTyped
    <2> QED BY <1>11, <2>1, EditKept DEF Saves
  <1>12. ASSUME NEW c \in KeyCalls, NEW op, NEW key, NEW name, NEW limit, NEW by,
                Send(c, op, key, name, limit, by), op # "limit" \/ by # "page", UNCHANGED strays,
                \A k \in OnPage : /\ controls'[k].saving = controls[k].saving
                                  /\ controls'[k].text = controls[k].text
                                  /\ controls'[k].typed = controls[k].typed
         PROVE  EditInv'
    <2> DEFINE r == [op |-> op, key |-> key, name |-> name, limit |-> limit, by |-> by, at |-> "sent"]
    <2>1. (r.op # "limit" \/ r.by # "page") /\ call' = [call EXCEPT ![c] = r]
      BY <1>12 DEF Send
    <2> HIDE DEF r
    <2> QED BY <1>11, <1>12, <2>1 DEF Send
  <1>13. ASSUME NEW c \in KeyCalls, Create(c) PROVE EditInv'
    BY <1>12, <1>13 DEF Create
  <1>14. ASSUME NEW c \in KeyCalls, Elsewhere(c) PROVE EditInv'
    BY <1>12, <1>14 DEF Elsewhere
  <1>15. ASSUME NEW c \in KeyCalls, NEW k \in KeyIds, Rotate(c, k) PROVE EditInv'
    <2>1. controls' = [controls EXCEPT ![k] = [controls[k] EXCEPT !.rotate = "busy"]]
      BY <1>15 DEF Rotate
    <2>2. \A j \in KeyIds : /\ controls'[j].saving = controls[j].saving
                            /\ controls'[j].text = controls[j].text
                            /\ controls'[j].typed = controls[j].typed
      BY <2>1 DEF KeysTyped, Control
    <2> QED BY <1>12, <1>15, <2>2 DEF Rotate, OnPage, Mounted, Kept
  <1>16. ASSUME NEW c \in KeyCalls, NEW k \in KeyIds, Remove(c, k) PROVE EditInv'
    BY <1>12, <1>16 DEF Remove
  <1>17. ASSUME NEW c \in KeyCalls, NEW k \in KeyIds, Save(c, k) PROVE EditInv'
    <2> DEFINE r == [op |-> "limit", key |-> k, name |-> None, limit |-> Meant(controls[k].text),
                     by |-> "page", at |-> "sent"]
               row == [controls[k] EXCEPT !.saving = TRUE]
    <2>1. /\ r.key = k /\ r.limit = Meant(controls[k].text) /\ r.at = "sent"
          /\ row.saving /\ row.text = controls[k].text /\ row.typed = controls[k].typed
      BY DEF KeysTyped, Control
    <2>2. /\ call' = [call EXCEPT ![c] = r] /\ controls' = [controls EXCEPT ![k] = row]
          /\ k \in OnPage /\ ~controls[k].saving
          /\ UNCHANGED <<rows, shown, wide, opened, strays>>
      BY <1>17 DEF Save, Send, Editing
    <2> HIDE DEF r, row
    <2>3. OnPage' = OnPage /\ OnPage \subseteq KeyIds
      BY <2>2 DEF OnPage, Mounted, Kept
    <2>4. /\ controls'[k] = row /\ \A j \in KeyIds : j # k => controls'[j] = controls[j]
          /\ call'[c] = r /\ \A d \in KeyCalls : d # c => call'[d] = call[d]
      BY <2>2 DEF KeysTyped
    <2>5. \A d \in KeyCalls : d # c /\ Saves(d)' => Saves(d) /\ call[d].key # k
      BY <2>2, <2>4 DEF EditInv, SavesOwn, Saves
    <2>6. Untyped'
      BY <2>1, <2>2, <2>3, <2>4 DEF EditInv, Untyped, Meant
    <2>7. SavesOwn'
      <3> SUFFICES ASSUME NEW d \in KeyCalls, Saves(d)'
                   PROVE  /\ call'[d].key \in OnPage'
                          /\ controls'[call'[d].key].saving
                          /\ call'[d].limit = Meant(controls'[call'[d].key].text)
                          /\ call'[d].at = "ok" =>
                                \/ rows'[call'[d].key] = None
                                \/ call'[d].key \in strays'
                                \/ rows'[call'[d].key].limit = call'[d].limit
        BY DEF SavesOwn, Meant
      <3>1. CASE d = c
        BY <2>1, <2>2, <2>3, <2>4, <3>1
      <3>2. CASE d # c
        BY <2>2, <2>3, <2>4, <2>5, <3>2 DEF EditInv, SavesOwn
      <3> QED BY <3>1, <3>2
    <2>8. OneSave'
      BY <2>1, <2>4, <2>5 DEF EditInv, OneSave
    <2> QED BY <2>6, <2>7, <2>8 DEF EditInv
  <1>18. ASSUME NEW c \in KeyCalls, NEW at, Reach(c, at)
         PROVE  /\ call'[c].at = at /\ call'[c].op = call[c].op /\ call'[c].by = call[c].by
                /\ call'[c].key = call[c].key /\ call'[c].limit = call[c].limit
                /\ \A d \in KeyCalls : d # c => call'[d] = call[d]
    <2>1. call' = [call EXCEPT ![c] = [call[c] EXCEPT !.at = at]]
      BY <1>18 DEF Reach
    <2>2. call'[c] = [call[c] EXCEPT !.at = at] /\ \A d \in KeyCalls : d # c => call'[d] = call[d]
      BY <2>1 DEF KeysTyped
    <2>3. call[c] \in Request
      BY DEF KeysTyped
    <2> QED BY <2>2, <2>3 DEF Request
  <1>20. ASSUME NEW c \in KeyCalls, NEW at, Reach(c, at), at # "ok" \/ call[c].op # "limit",
                UNCHANGED <<rows, shown, wide, opened, controls, strays>>
         PROVE  EditInv'
    <2>1. /\ call'[c].at = at /\ call'[c].op = call[c].op /\ call'[c].by = call[c].by
          /\ call'[c].key = call[c].key /\ call'[c].limit = call[c].limit
          /\ \A d \in KeyCalls : d # c => call'[d] = call[d]
      BY <1>18, <1>20
    <2>2. \A d \in KeyCalls : Saves(d)' =>
               /\ Saves(d) /\ call'[d].key = call[d].key /\ call'[d].limit = call[d].limit
               /\ call'[d].at = "ok" => call[d].at = "ok"
      BY <1>20, <2>1 DEF Saves
    <2> QED BY <1>20, <2>2, EditKept
  <1>21. ASSUME NEW c \in KeyCalls, CheckCreate(c) PROVE EditInv'
    BY <1>20, <1>21 DEF CheckCreate, OnlyServer
  <1>22. ASSUME NEW c \in KeyCalls, FailCall(c) PROVE EditInv'
    BY <1>20, <1>22 DEF FailCall, OnlyServer
  <1>23. ASSUME UNCHANGED <<shown, wide, opened, controls>>,
                NEW k, \A j \in OnPage : j # k => rows'[j] = rows[j] /\ (j \in strays => j \in strays'),
                k \in OnPage /\ k \notin strays' /\ rows'[k] # None /\ ~controls[k].typed =>
                    Meant(controls[k].text) = rows'[k].limit,
                \A c \in KeyCalls : Saves(c)' =>
                    /\ Saves(c) /\ call'[c].key = call[c].key /\ call'[c].limit = call[c].limit
                    /\ call'[c].at = "ok" => \/ call[c].at = "ok" /\ call[c].key # k
                                             \/ rows'[call[c].key] = None
                                             \/ call[c].key \in strays'
                                             \/ rows'[call[c].key].limit = call[c].limit
         PROVE  EditInv'
    <2>1. OnPage' = OnPage
      BY <1>23 DEF OnPage, Mounted, Kept
    <2>2. Untyped'
      BY <1>23, <2>1 DEF EditInv, Untyped, Meant
    <2>3. SavesOwn'
      <3> SUFFICES ASSUME NEW c \in KeyCalls, Saves(c)'
                   PROVE  /\ call'[c].key \in OnPage'
                          /\ controls'[call'[c].key].saving
                          /\ call'[c].limit = Meant(controls'[call'[c].key].text)
                          /\ call'[c].at = "ok" =>
                                \/ rows'[call'[c].key] = None
                                \/ call'[c].key \in strays'
                                \/ rows'[call'[c].key].limit = call'[c].limit
        BY DEF SavesOwn, Meant
      <3>1. Saves(c) /\ call'[c].key = call[c].key /\ call'[c].limit = call[c].limit
        BY <1>23
      <3>2. /\ call[c].key \in OnPage /\ controls[call[c].key].saving
            /\ call[c].limit = Meant(controls[call[c].key].text)
            /\ call[c].at = "ok" => \/ rows[call[c].key] = None
                                    \/ call[c].key \in strays
                                    \/ rows[call[c].key].limit = call[c].limit
        BY <3>1 DEF EditInv, SavesOwn
      <3>3. call'[c].at = "ok" => \/ rows'[call[c].key] = None
                                  \/ call[c].key \in strays'
                                  \/ rows'[call[c].key].limit = call[c].limit
        BY <1>23, <3>2
      <3> QED BY <1>23, <2>1, <3>1, <3>2, <3>3
    <2>4. OneSave'
      BY <1>23 DEF EditInv, OneSave
    <2> QED BY <2>2, <2>3, <2>4 DEF EditInv
  <1>24. ASSUME NEW c \in KeyCalls, NEW k \in KeyIds, WriteCreate(c, k) PROVE EditInv'
    <2>1. /\ k \notin OnPage /\ call[c].op = "create" /\ Reach(c, "ok")
          /\ strays' = strays \ {k} /\ UNCHANGED <<shown, wide, opened, controls>>
      BY <1>24 DEF WriteCreate, Unknown, KeysTyped, Request, OnlyServer, OnPage, Mounted, Kept
    <2>2. \A j \in KeyIds : j # k => rows'[j] = rows[j]
      BY <1>24 DEF WriteCreate, KeysTyped, Rows
    <2>3. OnPage \subseteq KeyIds
      BY DEF OnPage, Mounted, Kept
    <2>4. \A d \in KeyCalls : Saves(d)' => call'[d] = call[d] /\ Saves(d) /\ call[d].key # k
      BY <1>18, <2>1 DEF Saves, EditInv, SavesOwn
    <2> QED BY <1>23, <2>1, <2>2, <2>3, <2>4
  <1>25. ASSUME NEW c \in KeyCalls, Serve(c) PROVE EditInv'
    <2> DEFINE k == call[c].key
    <2>1. UNCHANGED <<shown, wide, opened, controls>>
      BY <1>25 DEF Serve, OnlyServer
    <2>2. CASE UNCHANGED <<rows, strays>> /\ (Reach(c, "refused") \/ (Reach(c, "ok") /\ call[c].op # "limit"))
      BY <1>20, <2>1, <2>2
    <2>3. OnPage \subseteq KeyIds
      BY DEF OnPage, Mounted, Kept
    <2>4. CASE Reach(c, "ok") /\ call[c].op = "remove" /\ rows' = [rows EXCEPT ![k] = None] /\ strays' = strays
      <3>1. \A j \in KeyIds : rows'[j] = IF j = k THEN None ELSE rows[j]
        BY <2>4 DEF KeysTyped, Rows
      <3>2. \A d \in KeyCalls : Saves(d)' => call'[d] = call[d] /\ Saves(d) /\ call[d].key \in KeyIds
        BY <1>18, <2>3, <2>4 DEF Saves, EditInv, SavesOwn
      <3> HIDE DEF k
      <3> QED BY <1>23, <2>1, <2>3, <2>4, <3>1, <3>2
    <2>5. CASE /\ Reach(c, "ok") /\ call[c].op = "limit" /\ rows[k] # None
               /\ rows' = [rows EXCEPT ![k].limit = call[c].limit]
               /\ strays' = IF call[c].by # "page" THEN strays \cup {k} ELSE strays
      <3>1. /\ \A j \in KeyIds : j # k => rows'[j] = rows[j]
            /\ k \in KeyIds => rows'[k].limit = call[c].limit
        BY <2>5 DEF KeysTyped, Rows, Row
      <3>2. /\ call'[c].op = call[c].op /\ call'[c].by = call[c].by
            /\ call'[c].key = call[c].key /\ call'[c].limit = call[c].limit
            /\ \A d \in KeyCalls : d # c => call'[d] = call[d]
        BY <1>18, <2>5
      <3>3. CASE call[c].by # "page"
        <4>1. \A d \in KeyCalls : Saves(d)' => call'[d] = call[d] /\ Saves(d)
          BY <3>2, <3>3 DEF Saves
        <4>2. k \in strays' /\ strays \subseteq strays'
          BY <2>5, <3>3
        <4>3. ASSUME NEW d \in KeyCalls, Saves(d)'
              PROVE  /\ Saves(d) /\ call'[d].key = call[d].key /\ call'[d].limit = call[d].limit
                     /\ call'[d].at = "ok" => \/ call[d].at = "ok" /\ call[d].key # k
                                              \/ rows'[call[d].key] = None
                                              \/ call[d].key \in strays'
                                              \/ rows'[call[d].key].limit = call[d].limit
          BY <4>1, <4>2, <4>3
        <4> HIDE DEF k
        <4> QED BY <1>23, <2>1, <2>3, <3>1, <4>2, <4>3
      <3>4. CASE call[c].by = "page"
        <4>1. Saves(c) /\ strays' = strays
          BY <2>5, <3>4 DEF Saves
        <4>2. /\ k \in OnPage /\ call[c].limit = Meant(controls[k].text)
              /\ \A d \in KeyCalls : d # c /\ Saves(d) => call[d].key # k
          BY <4>1 DEF EditInv, SavesOwn, OneSave
        <4>3. ASSUME NEW d \in KeyCalls, Saves(d)'
              PROVE  /\ Saves(d) /\ call'[d].key = call[d].key /\ call'[d].limit = call[d].limit
                     /\ call'[d].at = "ok" => \/ call[d].at = "ok" /\ call[d].key # k
                                              \/ rows'[call[d].key] = None
                                              \/ call[d].key \in strays'
                                              \/ rows'[call[d].key].limit = call[d].limit
          <5>1. CASE d = c
            BY <2>3, <3>1, <3>2, <4>1, <4>2, <5>1
          <5>2. CASE d # c
            <6>1. call'[d] = call[d] /\ Saves(d)
              BY <3>2, <4>3, <5>2 DEF Saves
            <6> QED BY <4>2, <5>2, <6>1
          <5> QED BY <5>1, <5>2
        <4>4. rows'[k].limit = call[c].limit
          BY <2>3, <3>1, <4>2
        <4> HIDE DEF k
        <4> QED BY <1>23, <2>1, <2>3, <3>1, <4>1, <4>2, <4>3, <4>4
      <3> QED BY <3>3, <3>4
    <2>6. CASE Reach(c, "ok") /\ rows[k] = None /\ UNCHANGED <<rows, strays>>
      <3>1. call'[c].key = call[c].key /\ call'[c].limit = call[c].limit
            /\ call'[c].op = call[c].op /\ call'[c].by = call[c].by
            /\ \A d \in KeyCalls : d # c => call'[d] = call[d]
        BY <1>18, <2>6
      <3>2. ASSUME NEW d \in KeyCalls, Saves(d)'
            PROVE  /\ Saves(d) /\ call'[d].key = call[d].key /\ call'[d].limit = call[d].limit
                   /\ call'[d].at = "ok" => \/ call[d].at = "ok" /\ call[d].key # k
                                            \/ rows'[call[d].key] = None
                                            \/ call[d].key \in strays'
                                            \/ rows'[call[d].key].limit = call[d].limit
        <4>1. CASE d = c
          BY <2>6, <3>1, <3>2, <4>1 DEF Saves
        <4>2. CASE d # c
          BY <2>6, <3>1, <3>2, <4>2 DEF Saves
        <4> QED BY <4>1, <4>2
      <3>3. k \in OnPage /\ rows'[k] # None => FALSE
        BY <2>6
      <3>4. \A j \in OnPage : j # k => rows'[j] = rows[j] /\ (j \in strays => j \in strays')
        BY <2>6
      <3> HIDE DEF k
      <3> QED BY <1>23, <2>1, <3>2, <3>3, <3>4
    <2> QED BY <1>25, <2>2, <2>4, <2>5, <2>6 DEF Serve
  <1>30. ASSUME NEW c \in KeyCalls, ReadRotate(c) PROVE EditInv'
    <2>1. CASE Reach(c, "refused") /\ UNCHANGED <<rows, strays>>
      BY <1>20, <1>30, <2>1 DEF ReadRotate, OnlyServer
    <2> DEFINE k == call[c].key
               r == [call[c] EXCEPT !.name = rows[k].name, !.limit = rows[k].limit, !.at = "read"]
    <2>2. CASE call' = [call EXCEPT ![c] = r]
      <3>1. r.op # "limit"
        BY <1>30 DEF KeysTyped, Request, ReadRotate
      <3> HIDE DEF r
      <3> QED BY <1>11, <1>30, <2>2, <3>1 DEF ReadRotate, OnlyServer
    <2> QED BY <1>30, <2>1, <2>2 DEF ReadRotate
  <1>31. ASSUME NEW c \in KeyCalls, WriteRotate(c) PROVE EditInv'
    <2> DEFINE k == call[c].key
    <2>1. call[c].op = "rotate" /\ k \in KeyIds
      BY <1>31 DEF WriteRotate, KeysTyped, Request
    <2>2. UNCHANGED <<shown, wide, opened, controls>>
      BY <1>31 DEF WriteRotate, OnlyServer
    <2>3. CASE UNCHANGED <<rows, strays>>
      BY <1>20, <1>31, <2>1, <2>2, <2>3 DEF WriteRotate
    <2>4. ASSUME NEW l, rows' = [rows EXCEPT ![k] = [name |-> call[c].name, limit |-> l]],
                 strays' = strays \cup {k}
          PROVE  EditInv'
      <3>1. \A j \in KeyIds : j # k => rows'[j] = rows[j]
        BY <2>4 DEF KeysTyped, Rows
      <3>2. OnPage \subseteq KeyIds
        BY DEF OnPage, Mounted, Kept
      <3>3. \A d \in KeyCalls : Saves(d)' => call'[d] = call[d] /\ Saves(d)
        BY <1>18, <1>31, <2>1 DEF WriteRotate, Saves
      <3> HIDE DEF k
      <3> QED BY <1>23, <2>2, <2>4, <3>1, <3>2, <3>3
    <2> QED BY <1>31, <2>3, <2>4 DEF WriteRotate
  <1>32. ASSUME NEW c \in KeyCalls, AnsweredEarly(c) PROVE EditInv'
    <2> DEFINE r == [call[c] EXCEPT !.by = "other"]
               k == call[c].key
    <2>1. r.by = "other" /\ call' = [call EXCEPT ![c] = r]
      BY <1>32 DEF AnsweredEarly, KeysTyped, Request
    <2>2. controls' = controls \/ controls' = [controls EXCEPT ![k] = [controls[k] EXCEPT !.rotate = "idle"]]
      BY <1>32 DEF AnsweredEarly
    <2> HIDE DEF r, k
    <2>3. \A j \in KeyIds : /\ controls'[j].saving = controls[j].saving
                            /\ controls'[j].text = controls[j].text
                            /\ controls'[j].typed = controls[j].typed
      BY <2>2 DEF KeysTyped, Control
    <2> QED BY <1>11, <1>32, <2>1, <2>3 DEF AnsweredEarly, OnPage, Mounted, Kept
  <1>26. NoCall.op # "limit"
    BY DEF NoCall
  <1>27. ASSUME NEW c \in KeyCalls, CreateAnswered(c) \/ RemoveAnswered(c) PROVE EditInv'
    BY <1>11, <1>26, <1>27 DEF CreateAnswered, RemoveAnswered, Answered
  <1>28. ASSUME NEW c \in KeyCalls, RotateAnswered(c) PROVE EditInv'
    <2> DEFINE k == call[c].key
    <2>1. \/ controls' = controls
          \/ controls' = [controls EXCEPT ![k] = [controls[k] EXCEPT !.rotate = "idle"]]
          \/ controls' = [controls EXCEPT ![k] = [controls[k] EXCEPT !.rotate = "done", !.timers = @ + 1]]
      BY <1>28 DEF RotateAnswered, KeysTyped
    <2> HIDE DEF k
    <2>2. \A j \in KeyIds : /\ controls'[j].saving = controls[j].saving
                            /\ controls'[j].text = controls[j].text
                            /\ controls'[j].typed = controls[j].typed
      <3>1. CASE controls' = controls
        BY <3>1
      <3>2. CASE controls' = [controls EXCEPT ![k] = [controls[k] EXCEPT !.rotate = "idle"]]
        BY <3>2 DEF KeysTyped, Control
      <3>3. CASE controls' = [controls EXCEPT ![k] = [controls[k] EXCEPT !.rotate = "done", !.timers = @ + 1]]
        BY <3>3 DEF KeysTyped, Control
      <3> QED BY <2>1, <3>1, <3>2, <3>3
    <2> QED BY <1>11, <1>26, <1>28, <2>2 DEF RotateAnswered, Answered, OnPage, Mounted, Kept
  <1>29. ASSUME NEW c \in KeyCalls, SaveAnswered(c) PROVE EditInv'
    <2> DEFINE k == call[c].key
               typed == controls[k].typed /\ call[c].at # "ok"
               row == [controls[k] EXCEPT !.saving = FALSE, !.editing = FALSE, !.typed = typed]
    <2>1. /\ call' = [call EXCEPT ![c] = NoCall] /\ call[c].op = "limit"
          /\ UNCHANGED <<rows, shown, wide, opened, strays>>
      BY <1>29 DEF SaveAnswered, Answered
    <2>2. CASE controls' = controls
      BY <1>11, <1>26, <2>1, <2>2
    <2>3. CASE call[c].by = "page" /\ controls' = [controls EXCEPT ![k] = row]
      <3>1. Saves(c)
        BY <2>1, <2>3 DEF Saves
      <3>2. /\ k \in OnPage /\ call[c].limit = Meant(controls[k].text)
            /\ call[c].at = "ok" => rows[k] = None \/ k \in strays \/ rows[k].limit = call[c].limit
            /\ \A d \in KeyCalls : d # c /\ Saves(d) => call[d].key # k
        BY <3>1 DEF EditInv, SavesOwn, OneSave
      <3>3. OnPage' = OnPage /\ OnPage \subseteq KeyIds
        BY <2>1 DEF OnPage, Mounted, Kept
      <3>4. row.text = controls[k].text /\ row.typed = typed
        BY <3>2, <3>3 DEF KeysTyped, Control
      <3>5. typed <=> controls[k].typed /\ call[c].at # "ok"
        OBVIOUS
      <3> HIDE DEF k, typed, row
      <3>6. /\ controls'[k] = row /\ \A j \in KeyIds : j # k => controls'[j] = controls[j]
            /\ call'[c] = NoCall /\ \A d \in KeyCalls : d # c => call'[d] = call[d]
        BY <2>1, <2>3, <3>2, <3>3 DEF KeysTyped
      <3>7. ~row.typed /\ rows[k] # None /\ k \notin strays => Meant(row.text) = rows[k].limit
        BY <3>2, <3>4, <3>5 DEF EditInv, Untyped
      <3>8. Untyped'
        BY <2>1, <3>3, <3>6, <3>7 DEF EditInv, Untyped, Meant
      <3>9. \A d \in KeyCalls : Saves(d)' => d # c /\ Saves(d) /\ call'[d] = call[d] /\ call[d].key # k
        BY <1>26, <3>2, <3>6 DEF Saves
      <3>10. SavesOwn'
        <4> SUFFICES ASSUME NEW d \in KeyCalls, Saves(d)'
                     PROVE  /\ call'[d].key \in OnPage'
                            /\ controls'[call'[d].key].saving
                            /\ call'[d].limit = Meant(controls'[call'[d].key].text)
                            /\ call'[d].at = "ok" =>
                                  \/ rows'[call'[d].key] = None
                                  \/ call'[d].key \in strays'
                                  \/ rows'[call'[d].key].limit = call'[d].limit
          BY DEF SavesOwn, Meant
        <4> QED BY <2>1, <3>3, <3>6, <3>9 DEF EditInv, SavesOwn
      <3>11. OneSave'
        BY <3>9 DEF EditInv, OneSave
      <3> QED BY <3>8, <3>10, <3>11 DEF EditInv
    <2>4. controls' = controls \/ (call[c].by = "page" /\ controls' = [controls EXCEPT ![k] = row])
      BY <1>29 DEF SaveAnswered, KeysTyped
    <2> QED BY <2>2, <2>3, <2>4
  <1> QED BY <1>1, <1>2, <1>3, <1>4, <1>5, <1>6, <1>7, <1>9, <1>10, <1>13, <1>14, <1>15, <1>16,
             <1>17, <1>21, <1>22, <1>24, <1>25, <1>27, <1>28, <1>29, <1>30, <1>31, <1>32 DEF KeysNext

-----------------------------------------------------------------------------
KeysPageInv == KeysTyped /\ RoomInv /\ EditInv

\* KeysPageInv holds throughout, on whatever page the tab is.
LEMMA KeysPageInvariance == Spec => []KeysPageInv
  <1>1. Init => KeysPageInv
    BY KeysStart, RoomStart, EditStart DEF Init, KeysUntouched, KeysPageInv
  <1>2. KeysPageInv /\ [Next]_vars => KeysPageInv'
    <2> SUFFICES ASSUME KeysPageInv, [Next]_vars PROVE KeysPageInv'
      OBVIOUS
    <2>1. CASE KeysNext
      <3>1. KeysTyped' /\ RoomInv' /\ EditInv'
        BY <2>1, KeysTypedStep, RoomStep, EditStep DEF KeysPageInv
      <3> QED BY <3>1 DEF KeysPageInv
    <2>2. CASE UNCHANGED keysVars
      <3>1. /\ UNCHANGED <<rows, shown, wide, opened, controls, call, overlaps, strays>>
        BY <2>2 DEF keysVars
      <3>2. KeysTyped'
        BY <3>1 DEF KeysPageInv, KeysTyped
      <3>3. RoomInv'
        BY <3>1, RoomKept DEF KeysPageInv, KeysTyped, NothingNew
      <3>4. EditInv'
        BY <3>1, EditKept DEF KeysPageInv, Saves
      <3> QED BY <3>2, <3>3, <3>4 DEF KeysPageInv
    <2> QED BY <2>1, <2>2 DEF Next, vars
  <1> QED BY <1>1, <1>2, PTL DEF Spec

\* A user has at most one key too many for each overlap of two creations, or of a
\* rotation and a deletion of its key, and no two of one name without one, for any
\* limit and any number of tabs and of requests.
THEOREM KeysAreLimited == Spec => []KeyLimitKept
  <1>1. KeysPageInv => KeyLimitKept
    <2> SUFFICES ASSUME KeysPageInv PROVE KeyLimitKept
      OBVIOUS
    <2>1. /\ Cardinality(Kept(rows)) \in Nat /\ Cardinality(Checked) \in Nat
          /\ MaxKeys \in Nat /\ overlaps \in Nat
      BY CheckedFinite, FS_CardinalityType, MaxKeysAssumption DEF KeysPageInv, RoomInv, KeysTyped, Checked
    <2>2. Cardinality(Kept(rows)) + Cardinality(Checked) <= MaxKeys + overlaps
      BY DEF KeysPageInv, RoomInv
    <2>3. Cardinality(Kept(rows)) <= MaxKeys + overlaps
      BY <2>1, <2>2
    <2> QED BY <2>3 DEF KeysPageInv, RoomInv, KeyLimitKept, NamesDiffer
  <1> QED BY <1>1, KeysPageInvariance, PTL

\* A limit that nobody typed is the limit of its key, for any limits and keys and
\* any size of a gigabyte.
THEOREM UntypedLimitsHold == Spec => []UntypedLimitHolds
  <1>1. KeysPageInv => UntypedLimitHolds
    BY DEF KeysPageInv, EditInv, Untyped, UntypedLimitHolds
  <1> QED BY <1>1, KeysPageInvariance, PTL
-----------------------------------------------------------------------------
(* The limit of a key.                                                     *)

SetterType  == [at : {"idle", "table", "redis"}, limit : LimitValues, was : LimitValues,
                alone : BOOLEAN]
CheckerType == [at : {"idle", "table", "fill", "decided"}, limit : LimitValues]

LimitsTyped ==
    /\ limitRow \in LimitValues \cup {NoSubscription}
    /\ limitCopy \in [limit : LimitValues, left : 0 .. Lasting]
    /\ setting \in [Setters -> SetterType]
    /\ checking \in [Checkers -> CheckerType]
    /\ overtaken \in [LimitValues -> 0 .. LimitTTL]
    /\ amiss \in BOOLEAN

\* A call that is alone is the only one, and what it wrote is in the table;
\* unless something is amiss, a call is alone.
CallsAlone ==
    \A s \in Setters :
        /\ setting[s].alone =>
              /\ \A t \in Setters : t # s => setting[t].at = "idle"
              /\ setting[s].at = "redis" => limitRow = setting[s].limit
        /\ setting[s].at # "idle" /\ ~amiss => setting[s].alone

\* The copy is of the limit in force, or will not outlive the check that
\* brought it back by more than LimitTTL.
CopyGood ==
    ~amiss /\ limitCopy.left > 0 =>
        \/ InForce(limitCopy.limit)
        \/ limitCopy.left + overtaken[limitCopy.limit] <= LimitTTL

\* So will that be of which a check has it in hand.
HandGood ==
    ~amiss => \A c \in Checkers : checking[c].at = "fill" =>
        InForce(checking[c].limit) \/ overtaken[checking[c].limit] = 0

LimitsInv == LimitsTyped /\ CallsAlone /\ CopyGood /\ HandGood

\* The constants, and what copies and calls are made of.
LEMMA LimitValuesTyped ==
    /\ LimitTTL \in Nat /\ LimitTTL >= 1 /\ LimitUnit \in Nat /\ LimitUnit >= 1
    /\ Lasting = LimitTTL + 1 /\ NoLimit = 0
    /\ LimitValues \subseteq Nat /\ NoLimit \in LimitValues
    /\ \A q \in LimitValues : q # NoLimit => q >= 1
    /\ NoSubscription \notin LimitValues
  BY LimitsAssumption DEF Lasting, NoLimit, LimitValues, NoSubscription

\* So are a copy, a call and a check.
LEMMA LimitRecords ==
    /\ NoCopy \in [limit : LimitValues, left : 0 .. Lasting]
    /\ NotSetting \in SetterType /\ NotChecking \in CheckerType
    /\ \A q \in LimitValues : CopyOf(q) \in [limit : LimitValues, left : 0 .. Lasting]
  BY LimitValuesTyped DEF NoCopy, NotSetting, NotChecking, SetterType, CheckerType, CopyOf

\* The limit of the table is one.
LEMMA LimitOfRow ==
    ASSUME LimitsTyped
    PROVE  LimitOf(limitRow) \in LimitValues /\ (limitRow \in LimitValues => LimitOf(limitRow) = limitRow)
  BY LimitValuesTyped DEF LimitsTyped, LimitOf

\* At first there is no limit, no copy and no call.
LEMMA LimitsStarted == LimitsInit => LimitsInv
  <1> SUFFICES ASSUME LimitsInit PROVE LimitsInv
    OBVIOUS
  <1>1. LimitsTyped
    <2>1. limitRow \in LimitValues /\ amiss \in BOOLEAN
      BY LimitValuesTyped DEF LimitsInit
    <2>2. setting \in [Setters -> SetterType] /\ checking \in [Checkers -> CheckerType]
      BY LimitRecords DEF LimitsInit
    <2>3. overtaken \in [LimitValues -> 0 .. LimitTTL]
      BY LimitValuesTyped DEF LimitsInit
    <2>4. limitCopy \in [limit : LimitValues, left : 0 .. Lasting]
      BY LimitRecords DEF LimitsInit
    <2> QED BY <2>1, <2>2, <2>3, <2>4 DEF LimitsTyped
  <1>2. CallsAlone
    BY DEF LimitsInit, CallsAlone, NotSetting
  <1>3. limitCopy.left = 0 /\ 0 \in Nat
    BY DEF LimitsInit, NoCopy
  <1>4. CopyGood
    BY <1>3 DEF CopyGood
  <1>5. HandGood
    BY DEF LimitsInit, HandGood, NotChecking
  <1> QED BY <1>1, <1>2, <1>4, <1>5 DEF LimitsInv

\* What the calls of setQuota do to one another.
LEMMA JoinedTyped ==
    ASSUME LimitsTyped
    PROVE  /\ Joined \in [Setters -> SetterType]
           /\ \A s \in Setters : /\ Joined[s].at = setting[s].at /\ Joined[s].was = setting[s].was
                                 /\ Joined[s].alone = FALSE
  <1>1. \A s \in Setters : setting[s] \in SetterType
    BY DEF LimitsTyped
  <1> QED BY <1>1 DEF Joined, SetterType

\* A call begins: it disturbs those at work, and changes nothing else.
LEMMA BeginKeeps ==
    ASSUME LimitsInv, NEW s \in Setters, NEW q \in LimitValues, BeginQuota(s, q)
    PROVE  LimitsInv'
  <1> DEFINE others == {t \in Setters : AtWorkOn(t)}
             start == [at |-> "table", limit |-> q, was |-> NoLimit, alone |-> (others = {})]
  <1>1. /\ LimitsTyped /\ setting' = [Joined EXCEPT ![s] = start]
        /\ amiss' = (amiss \/ others # {})
        /\ setting[s].at = "idle"
        /\ UNCHANGED <<limitRow, limitCopy, checking, overtaken>>
    BY DEF BeginQuota, LimitsInv, NotSetting
  <1>2. start \in SetterType
    BY LimitValuesTyped DEF SetterType
  <1>3. /\ setting' \in [Setters -> SetterType]
        /\ setting'[s] = start
        /\ \A t \in Setters : t # s => /\ setting'[t].at = setting[t].at
                                       /\ setting'[t].was = setting[t].was
                                       /\ setting'[t].alone = FALSE
    BY <1>1, <1>2, JoinedTyped
  <1>4. start.at = "table" /\ (start.alone <=> others = {})
    OBVIOUS
  <1> HIDE DEF start
  <1>5. LimitsTyped'
    <2>1. amiss' \in BOOLEAN
      BY <1>1
    <2> QED BY <1>1, <1>3, <2>1 DEF LimitsTyped
  <1>6. \A t \in Setters : setting[t].at # "idle" => t \in others
    BY DEF AtWorkOn
  <1>7. CallsAlone'
    <2> SUFFICES ASSUME NEW t \in Setters
                 PROVE  /\ setting'[t].alone =>
                              /\ \A u \in Setters : u # t => setting'[u].at = "idle"
                              /\ setting'[t].at = "redis" => limitRow' = setting'[t].limit
                        /\ setting'[t].at # "idle" /\ ~amiss' => setting'[t].alone
      BY DEF CallsAlone
    <2>1. CASE t = s
      BY <1>1, <1>3, <1>4, <1>6, <2>1
    <2>2. CASE t # s
      BY <1>1, <1>3, <1>6, <2>2
    <2> QED BY <2>1, <2>2
  <1>8. ~amiss' => ~amiss
    BY <1>1
  <1>9. \A v : InForce(v) => InForce(v)'
    <2> SUFFICES ASSUME NEW v, InForce(v), v # LimitOf(limitRow) PROVE InForce(v)'
      BY <1>1 DEF InForce
    <2>1. PICK t \in Setters : setting[t].at = "redis" /\ setting[t].was = v
      BY DEF InForce
    <2>2. t # s
      BY <1>1, <2>1
    <2> QED BY <1>3, <2>1, <2>2 DEF InForce
  <1>10. CopyGood'
    BY <1>1, <1>8, <1>9 DEF LimitsInv, CopyGood
  <1>11. HandGood'
    BY <1>1, <1>8, <1>9 DEF LimitsInv, HandGood
  <1> QED BY <1>5, <1>7, <1>10, <1>11 DEF LimitsInv

\* The table has the new limit: the one it had is in force till the call ends.
LEMMA WriteKeeps ==
    ASSUME LimitsInv, NEW s \in Setters, WriteLimit(s)
    PROVE  LimitsInv'
  <1>1. /\ LimitsTyped /\ CallsAlone /\ setting[s] \in SetterType
        /\ setting[s].at = "table" /\ limitRow' = setting[s].limit
        /\ setting' = [setting EXCEPT ![s].at = "redis", ![s].was = LimitOf(limitRow)]
        /\ UNCHANGED <<limitCopy, checking, overtaken, amiss>>
    BY DEF WriteLimit, LimitsInv, LimitsTyped
  <1>2. /\ setting' \in [Setters -> SetterType]
        /\ setting'[s].at = "redis" /\ setting'[s].was = LimitOf(limitRow)
        /\ setting'[s].limit = setting[s].limit /\ setting'[s].alone = setting[s].alone
        /\ \A t \in Setters : t # s => setting'[t] = setting[t]
    <2>1. setting'[s] = [setting[s] EXCEPT !.at = "redis", !.was = LimitOf(limitRow)]
      BY <1>1 DEF LimitsTyped
    <2>2. LimitOf(limitRow) \in LimitValues
      BY <1>1, LimitOfRow
    <2>3. setting'[s] \in SetterType
      <3> DEFINE start == setting[s]
      <3>1. start \in SetterType /\ setting'[s] = [start EXCEPT !.at = "redis", !.was = LimitOf(limitRow)]
        BY <1>1, <2>1
      <3> HIDE DEF start
      <3> QED BY <2>2, <3>1 DEF SetterType
    <2>4. \A t \in Setters : t # s => setting'[t] = setting[t]
      BY <1>1 DEF LimitsTyped
    <2>5. setting' \in [Setters -> SetterType]
      BY <1>1, <2>3 DEF LimitsTyped
    <2> QED BY <1>1, <2>1, <2>4, <2>5 DEF SetterType
  <1>3. LimitsTyped'
    BY <1>1, <1>2 DEF LimitsTyped, SetterType
  <1>4. CallsAlone'
    <2> SUFFICES ASSUME NEW t \in Setters
                 PROVE  /\ setting'[t].alone =>
                              /\ \A u \in Setters : u # t => setting'[u].at = "idle"
                              /\ setting'[t].at = "redis" => limitRow' = setting'[t].limit
                        /\ setting'[t].at # "idle" /\ ~amiss' => setting'[t].alone
      BY DEF CallsAlone
    <2>1. CASE t = s
      BY <1>1, <1>2, <2>1 DEF CallsAlone
    <2>2. CASE t # s
      BY <1>1, <1>2, <2>2 DEF CallsAlone
    <2> QED BY <2>1, <2>2
  <1>5. ASSUME ~amiss, NEW v, InForce(v) PROVE InForce(v)'
    <2>1. \A t \in Setters : t # s => setting[t].at = "idle"
      BY <1>1, <1>5 DEF CallsAlone
    <2>2. v = LimitOf(limitRow)
      BY <1>1, <1>5, <2>1 DEF InForce
    <2> QED BY <1>2, <2>2 DEF InForce
  <1>6. CopyGood'
    BY <1>1, <1>5 DEF LimitsInv, CopyGood
  <1>7. HandGood'
    BY <1>1, <1>5 DEF LimitsInv, HandGood
  <1> QED BY <1>3, <1>4, <1>6, <1>7 DEF LimitsInv

\* A call ends well: if nothing is amiss, Redis has what it wrote.
LEMMA CopyKeeps ==
    ASSUME LimitsInv, NEW s \in Setters, CopyLimit(s)
    PROVE  LimitsInv'
  <1>1. /\ LimitsTyped /\ CallsAlone /\ setting[s] \in SetterType
        /\ setting[s].at = "redis" /\ limitCopy' = CopyOf(setting[s].limit)
        /\ setting' = [setting EXCEPT ![s] = NotSetting]
        /\ amiss' = (amiss /\ ~setting[s].alone)
        /\ overtaken' = [q \in LimitValues |-> IF q \in InHand THEN 0 ELSE overtaken[q]]
        /\ UNCHANGED <<limitRow, checking>>
    BY DEF CopyLimit, Succeed, LimitsInv, LimitsTyped
  <1>2. setting[s].limit \in LimitValues /\ setting[s].alone \in BOOLEAN
    BY <1>1 DEF SetterType
  <1>3. /\ setting' \in [Setters -> SetterType]
        /\ setting'[s].at = "idle" /\ setting'[s].alone = FALSE
        /\ \A t \in Setters : t # s => setting'[t] = setting[t]
    BY <1>1, LimitRecords DEF LimitsTyped, NotSetting
  <1>4. LimitsTyped'
    <2>1. limitCopy' \in [limit : LimitValues, left : 0 .. Lasting]
      BY <1>1, <1>2, LimitRecords
    <2>2. overtaken' \in [LimitValues -> 0 .. LimitTTL]
      BY <1>1, LimitValuesTyped DEF LimitsTyped
    <2>3. amiss' \in BOOLEAN
      BY <1>1
    <2> QED BY <1>1, <1>3, <2>1, <2>2, <2>3 DEF LimitsTyped
  <1>5. ~amiss' => setting[s].alone
    BY <1>1 DEF CallsAlone
  <1>6. CallsAlone'
    <2> SUFFICES ASSUME NEW t \in Setters
                 PROVE  /\ setting'[t].alone =>
                              /\ \A u \in Setters : u # t => setting'[u].at = "idle"
                              /\ setting'[t].at = "redis" => limitRow' = setting'[t].limit
                        /\ setting'[t].at # "idle" /\ ~amiss' => setting'[t].alone
      BY DEF CallsAlone
    <2>1. CASE t = s
      BY <1>3, <2>1
    <2>2. CASE t # s
      BY <1>1, <1>3, <1>5, <2>2 DEF CallsAlone
    <2> QED BY <2>1, <2>2
  <1>7. CopyGood'
    <2> SUFFICES ASSUME ~amiss', limitCopy'.left > 0 PROVE InForce(limitCopy.limit)'
      BY DEF CopyGood
    <2>1. limitRow = setting[s].limit
      BY <1>1, <1>5 DEF CallsAlone
    <2>2. LimitOf(limitRow) = setting[s].limit
      BY <1>1, <1>2, <2>1, LimitOfRow
    <2>3. limitCopy'.limit = setting[s].limit
      BY <1>1 DEF CopyOf, NoCopy
    <2> QED BY <1>1, <2>2, <2>3 DEF InForce
  <1>8. HandGood'
    <2> SUFFICES ASSUME NEW c \in Checkers, checking[c].at = "fill"
                 PROVE  overtaken'[checking[c].limit] = 0
      BY <1>1 DEF HandGood
    <2>1. checking[c].limit \in LimitValues
      BY <1>1 DEF LimitsTyped, CheckerType
    <2>2. checking[c].limit \in InHand
      BY DEF InHand
    <2> QED BY <1>1, <2>1, <2>2
  <1> QED BY <1>4, <1>6, <1>7, <1>8 DEF LimitsInv

\* A call fails, or the subscription goes: something is amiss.
LEMMA AmissKeeps ==
    ASSUME LimitsInv,
           \/ \E s \in Setters : WriteLimitFails(s) \/ CopyLimitFails(s)
           \/ DropSubscription
    PROVE  LimitsInv'
  <1>1. LimitsTyped /\ CallsAlone
    BY DEF LimitsInv
  <1>2. ASSUME NEW s \in Setters, WriteLimitFails(s) \/ CopyLimitFails(s)
        PROVE  LimitsInv'
    <2>1. /\ setting[s].at # "idle" /\ setting[s] \in SetterType
          /\ setting' = [setting EXCEPT ![s] = NotSetting] /\ amiss' = TRUE
          /\ limitRow' \in {limitRow, setting[s].limit}
          /\ limitCopy' \in {limitCopy, CopyOf(setting[s].limit)}
          /\ UNCHANGED <<checking, overtaken>>
      BY <1>1, <1>2 DEF WriteLimitFails, CopyLimitFails, GiveUp, LimitsTyped
    <2>2. setting[s].limit \in LimitValues
      BY <2>1 DEF SetterType
    <2>3. /\ setting' \in [Setters -> SetterType]
          /\ setting'[s].at = "idle" /\ setting'[s].alone = FALSE
          /\ \A t \in Setters : t # s => setting'[t] = setting[t]
      BY <1>1, <2>1, LimitRecords DEF LimitsTyped, NotSetting
    <2>4. LimitsTyped'
      <3>1. limitCopy' \in [limit : LimitValues, left : 0 .. Lasting]
        BY <1>1, <2>1, <2>2, LimitRecords DEF LimitsTyped
      <3>2. limitRow' \in LimitValues \cup {NoSubscription}
        BY <1>1, <2>1, <2>2 DEF LimitsTyped
      <3> QED BY <1>1, <2>1, <2>3, <3>1, <3>2 DEF LimitsTyped
    <2>5. CallsAlone'
      <3> SUFFICES ASSUME NEW t \in Setters, setting'[t].alone
                   PROVE  FALSE
        BY <2>1 DEF CallsAlone
      <3>1. t # s /\ setting[t].alone
        BY <2>3
      <3> QED BY <1>1, <2>1, <3>1 DEF CallsAlone
    <2>6. ~(~amiss')
      BY <2>1
    <2> QED BY <2>4, <2>5, <2>6 DEF LimitsInv, CopyGood, HandGood
  <1>3. CASE DropSubscription
    <2>1. /\ setting' = Joined /\ amiss' = TRUE /\ limitRow' = NoSubscription
          /\ UNCHANGED <<limitCopy, checking, overtaken>>
      BY <1>3 DEF DropSubscription
    <2>2. LimitsTyped'
      <3>1. setting' \in [Setters -> SetterType]
        BY <1>1, <2>1, JoinedTyped
      <3>2. limitRow' \in LimitValues \cup {NoSubscription} /\ amiss' \in BOOLEAN
        BY <2>1
      <3> QED BY <1>1, <2>1, <3>1, <3>2 DEF LimitsTyped
    <2>3. \A s \in Setters : setting'[s].alone = FALSE
      BY <1>1, <2>1, JoinedTyped
    <2>4. CallsAlone'
      BY <2>1, <2>3 DEF CallsAlone
    <2>5. ~(~amiss')
      BY <2>1
    <2> QED BY <2>2, <2>4, <2>5 DEF LimitsInv, CopyGood, HandGood
  <1> QED BY <1>2, <1>3

\* The calls and the table as they are.
LEMMA CallsFrame ==
    ASSUME UNCHANGED <<limitRow, setting, amiss>>
    PROVE  /\ CallsAlone => CallsAlone'
           /\ \A q : InForce(q)' <=> InForce(q)
  BY DEF CallsAlone, InForce

\* A check reads the copy, or the table, and fills Redis.
LEMMA CheckKeeps ==
    ASSUME LimitsInv, NEW c \in Checkers,
           LookUpLimit(c) \/ ReadLimit(c) \/ FillLimit(c) \/ EndCheck(c)
    PROVE  LimitsInv'
  <1>1. /\ LimitsTyped /\ UNCHANGED <<limitRow, setting, amiss>>
        /\ LimitOf(limitRow) \in LimitValues /\ checking[c] \in CheckerType
    BY LimitOfRow DEF LookUpLimit, ReadLimit, FillLimit, EndCheck, OnlyCheck, LimitsInv, LimitsTyped
  <1>2. CallsAlone' /\ \A q : InForce(q)' <=> InForce(q)
    BY <1>1, CallsFrame DEF LimitsInv
  <1>3. CASE LookUpLimit(c)
    <2>1. /\ \/ checking' = [checking EXCEPT ![c] = [at |-> "decided", limit |-> limitCopy.limit]]
             \/ checking' = [checking EXCEPT ![c] = [at |-> "table", limit |-> NoLimit]]
          /\ UNCHANGED <<limitCopy, overtaken>>
      BY <1>3 DEF LookUpLimit
    <2>2. LimitsTyped'
      BY <1>1, <2>1, LimitValuesTyped DEF LimitsTyped, CheckerType
    <2>3. \A d \in Checkers : checking'[d].at = "fill" => checking'[d] = checking[d]
      BY <1>1, <2>1 DEF LimitsTyped
    <2>4. CopyGood' /\ HandGood'
      BY <1>1, <1>2, <2>1, <2>3 DEF LimitsInv, CopyGood, HandGood
    <2> QED BY <1>2, <2>2, <2>4 DEF LimitsInv
  <1>4. CASE ReadLimit(c)
    <2>1. PICK q \in LimitValues :
             /\ checking' = [checking EXCEPT ![c] = [at |-> "fill", limit |-> q]]
             /\ limitCopy' = limitCopy
             /\ \/ q = LimitOf(limitRow) /\ UNCHANGED overtaken
                \/ q = NoLimit /\ overtaken' = [overtaken EXCEPT ![NoLimit] = 0]
      BY <1>1, <1>4, LimitValuesTyped DEF ReadLimit
    <2>2. /\ overtaken' \in [LimitValues -> 0 .. LimitTTL]
          /\ \A v \in LimitValues : overtaken'[v] <= overtaken[v]
          /\ \A v \in LimitValues : overtaken[v] = 0 => overtaken'[v] = 0
          /\ q = LimitOf(limitRow) \/ overtaken'[q] = 0
      BY <1>1, <2>1, LimitValuesTyped DEF LimitsTyped
    <2>3. LimitsTyped'
      BY <1>1, <2>1, <2>2 DEF LimitsTyped, CheckerType
    <2>4. CopyGood'
      <3>1. limitCopy.limit \in LimitValues /\ limitCopy.left \in Nat
        BY <1>1, LimitValuesTyped DEF LimitsTyped
      <3>2. /\ overtaken[limitCopy.limit] \in Nat /\ overtaken'[limitCopy.limit] \in Nat
            /\ overtaken'[limitCopy.limit] <= overtaken[limitCopy.limit]
        <4>1. /\ overtaken[limitCopy.limit] \in 0 .. LimitTTL
              /\ overtaken'[limitCopy.limit] \in 0 .. LimitTTL
          BY <1>1, <2>2, <3>1 DEF LimitsTyped
        <4>2. overtaken'[limitCopy.limit] <= overtaken[limitCopy.limit]
          BY <2>2, <3>1
        <4> QED BY <4>1, <4>2, LimitValuesTyped
      <3>3. limitCopy.left + overtaken[limitCopy.limit] <= LimitTTL
               => limitCopy.left + overtaken'[limitCopy.limit] <= LimitTTL
        BY <3>1, <3>2, LimitValuesTyped
      <3>4. amiss' = amiss /\ limitCopy' = limitCopy
        BY <1>1, <2>1
      <3> QED BY <1>2, <3>3, <3>4 DEF LimitsInv, CopyGood
    <2>5. HandGood'
      <3> SUFFICES ASSUME ~amiss, NEW d \in Checkers, checking'[d].at = "fill"
                   PROVE  InForce(checking'[d].limit) \/ overtaken'[checking'[d].limit] = 0
        BY <1>1, <1>2 DEF HandGood
      <3>1. CASE d = c
        <4>1. checking'[d].limit = q
          BY <1>1, <2>1, <3>1 DEF LimitsTyped
        <4> QED BY <2>2, <4>1 DEF InForce
      <3>2. CASE d # c
        <4>1. checking'[d] = checking[d] /\ checking[d].limit \in LimitValues
          BY <1>1, <2>1, <3>2 DEF LimitsTyped, CheckerType
        <4> QED BY <2>2, <4>1 DEF LimitsInv, HandGood
      <3> QED BY <3>1, <3>2
    <2> QED BY <1>2, <2>3, <2>4, <2>5 DEF LimitsInv
  <1>5. CASE FillLimit(c)
    <2>1. /\ limitCopy' = [limit |-> checking[c].limit, left |-> LimitTTL]
          /\ checking' = [checking EXCEPT ![c].at = "decided"]
          /\ overtaken' = overtaken /\ checking[c].at = "fill"
      BY <1>5 DEF FillLimit
    <2>2. checking[c].limit \in LimitValues
      BY <1>1 DEF CheckerType
    <2>3. LimitsTyped'
      <3>1. limitCopy' \in [limit : LimitValues, left : 0 .. Lasting]
        BY <2>1, <2>2, LimitValuesTyped
      <3>2. checking' \in [Checkers -> CheckerType]
        BY <1>1, <2>1 DEF LimitsTyped, CheckerType
      <3> QED BY <1>1, <2>1, <3>1, <3>2 DEF LimitsTyped
    <2>4. CopyGood'
      <3>1. limitCopy'.limit = checking[c].limit /\ limitCopy'.left = LimitTTL
        BY <2>1
      <3>2. overtaken[checking[c].limit] = 0 => LimitTTL + overtaken[checking[c].limit] <= LimitTTL
        BY LimitValuesTyped
      <3> QED BY <1>1, <1>2, <2>1, <3>1, <3>2 DEF LimitsInv, CopyGood, HandGood
    <2>5. \A d \in Checkers : checking'[d].at = "fill" => checking'[d] = checking[d]
      BY <1>1, <2>1 DEF LimitsTyped, CheckerType
    <2>6. HandGood'
      BY <1>1, <1>2, <2>1, <2>5 DEF LimitsInv, HandGood
    <2> QED BY <1>2, <2>3, <2>4, <2>6 DEF LimitsInv
  <1>6. CASE EndCheck(c)
    <2>1. checking' = [checking EXCEPT ![c] = NotChecking] /\ UNCHANGED <<limitCopy, overtaken>>
      BY <1>6 DEF EndCheck
    <2>2. LimitsTyped'
      BY <1>1, <2>1, LimitRecords DEF LimitsTyped
    <2>3. \A d \in Checkers : checking'[d].at = "fill" => checking'[d] = checking[d]
      BY <1>1, <2>1 DEF LimitsTyped, NotChecking
    <2>4. CopyGood' /\ HandGood'
      BY <1>1, <1>2, <2>1, <2>3 DEF LimitsInv, CopyGood, HandGood
    <2> QED BY <1>2, <2>2, <2>4 DEF LimitsInv
  <1> QED BY <1>3, <1>4, <1>5, <1>6

\* Redis loses the copy, or an hour passes.
LEMMA ClockKeeps ==
    ASSUME LimitsInv, LoseCopy \/ HourPasses
    PROVE  LimitsInv'
  <1>1. LimitsTyped /\ UNCHANGED <<limitRow, setting, amiss, checking>>
    BY DEF LoseCopy, HourPasses, OnlyCheck, LimitsInv
  <1>2. CallsAlone' /\ \A q : InForce(q)' <=> InForce(q)
    BY <1>1, CallsFrame DEF LimitsInv
  <1>3. NoCopy.left = 0 /\ NoCopy \in [limit : LimitValues, left : 0 .. Lasting]
    BY LimitRecords DEF NoCopy
  <1>4. CASE LoseCopy
    <2>1. limitCopy' = NoCopy /\ overtaken' = overtaken
      BY <1>4 DEF LoseCopy
    <2>2. LimitsTyped'
      BY <1>1, <1>3, <2>1 DEF LimitsTyped
    <2>3. CopyGood'
      BY <1>3, <2>1 DEF CopyGood
    <2>4. HandGood'
      BY <1>1, <1>2, <2>1 DEF LimitsInv, HandGood
    <2> QED BY <1>2, <2>2, <2>3, <2>4 DEF LimitsInv
  <1>5. CASE HourPasses
    <2>1. /\ limitCopy.limit \in LimitValues /\ limitCopy.left \in 0 .. Lasting
          /\ overtaken[limitCopy.limit] \in 0 .. LimitTTL
      BY <1>1 DEF LimitsTyped
    <2>2. \A q \in LimitValues :
             overtaken'[q] = IF overtaken[q] < LimitTTL THEN overtaken[q] + 1 ELSE LimitTTL
      BY <1>5 DEF HourPasses
    <2>3. \/ limitCopy.left = Lasting /\ limitCopy' = limitCopy
          \/ /\ limitCopy.left \in 2 .. LimitTTL
             /\ limitCopy'.limit = limitCopy.limit /\ limitCopy'.left = limitCopy.left - 1
             /\ limitCopy' \in [limit : LimitValues, left : 0 .. Lasting]
          \/ limitCopy' = NoCopy
      <3>1. CASE limitCopy.left = Lasting
        BY <1>5, <3>1, LimitValuesTyped DEF HourPasses
      <3>2. CASE limitCopy.left \in 2 .. LimitTTL
        <4>1. limitCopy' = [limitCopy EXCEPT !.left = @ - 1]
          BY <1>5, <3>2, LimitValuesTyped DEF HourPasses
        <4> QED BY <1>1, <3>2, <4>1, LimitValuesTyped DEF LimitsTyped
      <3>3. CASE limitCopy.left # Lasting /\ limitCopy.left \notin 2 .. LimitTTL
        BY <1>5, <3>3 DEF HourPasses
      <3> QED BY <3>1, <3>2, <3>3
    <2>4. LimitsTyped'
      <3>1. overtaken' \in [LimitValues -> 0 .. LimitTTL]
        <4>1. \A q \in LimitValues : overtaken[q] \in 0 .. LimitTTL
          BY <1>1 DEF LimitsTyped
        <4> QED BY <1>5, <4>1, LimitValuesTyped DEF HourPasses
      <3>2. limitCopy' \in [limit : LimitValues, left : 0 .. Lasting]
        BY <1>1, <1>3, <2>3 DEF LimitsTyped
      <3> QED BY <1>1, <3>1, <3>2 DEF LimitsTyped
    <2>5. CopyGood'
      <3> SUFFICES ASSUME ~amiss, limitCopy'.left > 0, ~InForce(limitCopy'.limit)
                   PROVE  limitCopy'.left + overtaken'[limitCopy'.limit] <= LimitTTL
        BY <1>1, <1>2 DEF CopyGood
      <3>1. CASE limitCopy' = NoCopy
        BY <1>3, <3>1
      <3>2. CASE limitCopy' = limitCopy /\ limitCopy.left = Lasting
        <4>1. Lasting + overtaken[limitCopy.limit] <= LimitTTL
          BY <2>1, <3>2 DEF LimitsInv, CopyGood
        <4> QED BY <2>1, <4>1, LimitValuesTyped
      <3>3. CASE /\ limitCopy.left \in 2 .. LimitTTL
                 /\ limitCopy'.limit = limitCopy.limit /\ limitCopy'.left = limitCopy.left - 1
        <4>1. limitCopy.left > 0
          BY <3>3, LimitValuesTyped
        <4>2. limitCopy.left + overtaken[limitCopy.limit] <= LimitTTL
          BY <3>3, <4>1 DEF LimitsInv, CopyGood
        <4>3. overtaken'[limitCopy.limit] = overtaken[limitCopy.limit] + 1
          <5> DEFINE l == limitCopy.left
                     o == overtaken[limitCopy.limit]
          <5>1. l \in 2 .. LimitTTL /\ o \in 0 .. LimitTTL /\ l + o <= LimitTTL
            BY <2>1, <3>3, <4>2
          <5> HIDE DEF l, o
          <5>2. o < LimitTTL
            BY <5>1, LimitValuesTyped
          <5> QED BY <2>1, <2>2, <5>2 DEF o
        <4> QED BY <2>1, <3>3, <4>2, <4>3, LimitValuesTyped
      <3> QED BY <2>3, <3>1, <3>2, <3>3
    <2>6. HandGood'
      BY <1>5, <1>1 DEF HourPasses, HandGood
    <2> QED BY <1>2, <2>4, <2>5, <2>6 DEF LimitsInv
  <1> QED BY <1>4, <1>5

\* The invariant holds of every state.
LEMMA LimitsInvariance == Spec => []LimitsInv
  <1>1. Init => LimitsInv
    BY LimitsStarted DEF Init
  <1>2. LimitsInv /\ [Next]_vars => LimitsInv'
    <2> SUFFICES ASSUME LimitsInv, [Next]_vars PROVE LimitsInv'
      OBVIOUS
    <2>1. CASE LimitsNext
      BY <2>1, BeginKeeps, WriteKeeps, CopyKeeps, AmissKeeps, CheckKeeps, ClockKeeps DEF LimitsNext
    <2>2. CASE UNCHANGED limitVars
      BY <2>2 DEF limitVars, LimitsInv, LimitsTyped, CallsAlone, CopyGood, HandGood, InForce
    <2> QED BY <2>1, <2>2 DEF Next, vars
  <1> QED BY <1>1, <1>2, PTL DEF Spec

\* A limit is shown rounded up, by less than a unit.
LEMMA ShownClose ==
    ASSUME NEW q \in LimitValues
    PROVE  /\ (q = NoLimit) = (ShownLimit(q) = NoLimit)
           /\ q <= ShownLimit(q) /\ ShownLimit(q) < q + LimitUnit
  <1>1. LimitUnit \in Nat /\ LimitUnit >= 1 /\ q \in Nat /\ NoLimit = 0
    BY LimitValuesTyped
  <1>2. CASE q = NoLimit
    BY <1>1, <1>2 DEF ShownLimit
  <1>3. CASE q # NoLimit
    <2> DEFINE sum == q + LimitUnit - 1
               n == sum \div LimitUnit
               r == sum % LimitUnit
    <2>1. sum \in Nat /\ q >= 1
      BY <1>1, <1>3
    <2> HIDE DEF sum
    <2>2. /\ n \in Int /\ r \in Int
          /\ sum = LimitUnit * n + r
          /\ 0 <= r /\ r < LimitUnit
      BY <1>1, <2>1
    <2>3. ShownLimit(q) = n * LimitUnit
      BY <1>3 DEF ShownLimit, sum
    <2> HIDE DEF n, r
    <2>4. n * LimitUnit = LimitUnit * n /\ LimitUnit * n \in Int
      BY <1>1, <2>2
    <2>5. ShownLimit(q) = q + LimitUnit - 1 - r
      BY <1>1, <2>2, <2>3, <2>4 DEF sum
    <2> QED BY <1>1, <1>3, <2>1, <2>2, <2>5
  <1> QED BY <1>2, <1>3

\* A check that decides has a limit in force, or one brought back less than
\* LimitTTL ago.
LEMMA DecidedInForce ==
    ASSUME LimitsInv, [LimitsNext]_limitVars, NEW c \in Checkers, Decides(c), ~amiss
    PROVE  /\ checking'[c].limit \in LimitValues
           /\ InForce(checking'[c].limit) \/ overtaken[checking'[c].limit] < LimitTTL
  <1>1. LimitsTyped /\ checking[c] \in CheckerType
    BY DEF LimitsInv, LimitsTyped
  <1>2. LookUpLimit(c) \/ FillLimit(c)
    <2>1. ASSUME NEW d \in Checkers, LookUpLimit(d) \/ ReadLimit(d) \/ FillLimit(d) \/ EndCheck(d)
          PROVE  LookUpLimit(c) \/ FillLimit(c)
      <3>1. d = c
        <4>1. d # c => checking'[c] = checking[c]
          BY <1>1, <2>1 DEF LookUpLimit, ReadLimit, FillLimit, EndCheck, LimitsTyped
        <4> QED BY <4>1 DEF Decides
      <3>2. ~ReadLimit(c) /\ ~EndCheck(c)
        BY <1>1 DEF ReadLimit, EndCheck, Decides, NotChecking, LimitsTyped
      <3> QED BY <2>1, <3>1, <3>2
    <2>2. ASSUME checking' = checking PROVE FALSE
      BY <2>2 DEF Decides
    <2>3. ASSUME NEW s \in Setters,
                 \/ \E q \in LimitValues : BeginQuota(s, q)
                 \/ WriteLimit(s) \/ WriteLimitFails(s) \/ CopyLimit(s) \/ CopyLimitFails(s)
          PROVE  checking' = checking
      BY <2>3 DEF BeginQuota, WriteLimit, WriteLimitFails, CopyLimit, CopyLimitFails, GiveUp, Succeed
    <2>4. DropSubscription \/ LoseCopy \/ HourPasses \/ UNCHANGED limitVars => checking' = checking
      BY DEF DropSubscription, LoseCopy, HourPasses, limitVars
    <2> QED BY <2>1, <2>2, <2>3, <2>4 DEF LimitsNext
  <1>3. CASE LookUpLimit(c)
    <2>1. limitCopy.left > 0 /\ checking'[c].limit = limitCopy.limit
      BY <1>1, <1>3 DEF LookUpLimit, Decides, LimitsTyped
    <2>2. limitCopy.limit \in LimitValues /\ limitCopy.left \in Nat /\ overtaken[limitCopy.limit] \in Nat
      <3>1. limitCopy.limit \in LimitValues /\ limitCopy.left \in 0 .. Lasting
        BY <1>1 DEF LimitsTyped
      <3>2. overtaken[limitCopy.limit] \in 0 .. LimitTTL
        BY <1>1, <3>1 DEF LimitsTyped
      <3> QED BY <3>1, <3>2, LimitValuesTyped
    <2>3. limitCopy.left + overtaken[limitCopy.limit] <= LimitTTL => overtaken[limitCopy.limit] < LimitTTL
      BY <2>1, <2>2, LimitValuesTyped
    <2> QED BY <2>1, <2>2, <2>3 DEF LimitsInv, CopyGood
  <1>4. CASE FillLimit(c)
    <2>1. checking[c].at = "fill" /\ checking'[c].limit = checking[c].limit
      BY <1>1, <1>4 DEF FillLimit, LimitsTyped, CheckerType
    <2>2. checking[c].limit \in LimitValues
      BY <1>1 DEF CheckerType
    <2>3. overtaken[checking[c].limit] = 0 => overtaken[checking[c].limit] < LimitTTL
      BY LimitValuesTyped
    <2> QED BY <2>1, <2>2, <2>3 DEF LimitsInv, HandGood
  <1> QED BY <1>2, <1>3, <1>4

\* The gateway enforces the limit that is in force, as the page shows it but
\* for a unit, unless a check that a call has overtaken brought another back
\* less than LimitTTL ago; for any limits, number of calls and of checks, and
\* whatever else one of them does between the steps of another.
THEOREM LimitsEnforced == Spec => LimitEnforced
  <1> DEFINE Enforced(c) ==
                 LET enforced == checking'[c].limit
                     onPage   == ShownLimit(LimitOf(limitRow))
                 IN  /\ InForce(enforced) \/ overtaken[enforced] < LimitTTL
                     /\ Undisturbed =>
                           /\ (enforced = NoLimit) = (onPage = NoLimit)
                           /\ enforced <= onPage /\ onPage < enforced + LimitUnit
  <1>1. ASSUME LimitsInv, [Next]_vars, NEW c \in Checkers, Decides(c), ~amiss
        PROVE  Enforced(c)
    <2>1. [LimitsNext]_limitVars
      BY <1>1 DEF Next, vars
    <2>2. /\ checking'[c].limit \in LimitValues
          /\ InForce(checking'[c].limit) \/ overtaken[checking'[c].limit] < LimitTTL
      BY <1>1, <2>1, DecidedInForce
    <2>3. Undisturbed => checking'[c].limit = LimitOf(limitRow)
      <3>1. Undisturbed => overtaken[checking'[c].limit] = LimitTTL
        BY <2>2 DEF Undisturbed
      <3>2. LimitTTL \in Nat /\ ~(LimitTTL < LimitTTL)
        BY LimitValuesTyped
      <3> QED BY <2>2, <3>1, <3>2 DEF Undisturbed, InForce
    <2>4. LimitOf(limitRow) \in LimitValues
      BY <1>1, LimitOfRow DEF LimitsInv
    <2> QED BY <2>2, <2>3, <2>4, ShownClose
  <1>2. LimitsInv /\ [Next]_vars =>
           [\A c \in Checkers : Decides(c) /\ ~amiss => Enforced(c)]_limitVars
    BY <1>1
  <1> QED BY <1>2, LimitsInvariance, PTL DEF Spec, LimitEnforced
==============================================================================
