------------------------------ MODULE TraceView ------------------------------
(***************************************************************************)
(* The trace viewer of the administrators: loading the trace of a job      *)
(* (job-trace-viewer, job-trace), laying its spans out as the bars of a    *)
(* flame graph (flattenSpans in lib/pure/trace) and zooming (trace-flame). *)
(*                                                                         *)
(* The walk over the tree of spans is a step per span; the tree is chosen  *)
(* on the way, so that the bars are those of any trace.  Rows are counted  *)
(* from 1.                                                                 *)
(***************************************************************************)
EXTENDS Integers, Sequences

CONSTANTS
    Lookups,        \* requests for the trace of a job in flight at a time
    MaxTime,        \* offsets and durations of spans, in ms
    MaxSpans,       \* bound: spans of a trace
    MaxLoads,       \* bound: traces loaded
    MaxZoom         \* bound: depth of the zoom

ASSUME TraceAssumption ==
    MaxTime \in Nat /\ MaxSpans \in Nat /\ MaxLoads \in Nat /\ MaxZoom \in Nat

VARIABLES
    text,           \* the text area: "trace", or "junk" that does not parse
    error,          \* a message is shown
    loading,        \* the button "Load trace" waits
    lookup,         \* the requests: idle, sent, or their result
    bars,           \* the bars laid out so far: row, parent's row, start, end
    rowEnds,        \* per row, the end of its last bar
    path,           \* the rows of the spans being walked, root first
    zoom,           \* the interval in sight
    zoomStack,
    loads

traceVars == <<text, error, loading, lookup, bars, rowEnds, path, zoom, zoomStack, loads>>

Times    == 0 .. MaxTime
NoZoom   == [from |-> 0, to |-> 0]

TraceInit ==
    /\ text = "junk"
    /\ error = FALSE
    /\ loading = FALSE
    /\ lookup = [l \in Lookups |-> "idle"]
    /\ bars = <<>>
    /\ rowEnds = <<>>
    /\ path = <<>>
    /\ zoom = NoZoom
    /\ zoomStack = <<>>
    /\ loads = 0

-----------------------------------------------------------------------------
(* The layout.                                                             *)

\* Mutant: a bar goes in the first row that is free, be it its parent's or not.
AnyFreeRow(start, minRow) == {r \in 1 .. Len(rowEnds) : rowEnds[r] <= start}

\* The rows from minRow on whose last bar has ended.
FreeRows(start, minRow) == {r \in minRow .. Len(rowEnds) : rowEnds[r] <= start}

\* assignRow: the first free row, or a new one.
Assigned(start, minRow, r) ==
    LET free == FreeRows(start, minRow) IN
    \/ r \in free /\ \A q \in free : r <= q
    \/ free = {} /\ r = Len(rowEnds) + 1

Ends(r, end) == IF r > Len(rowEnds) THEN Append(rowEnds, end) ELSE [rowEnds EXCEPT ![r] = end]

\* walk: a span gets its row, and its children rows after it.
Lay(start, duration, parent) ==
    \E r \in 1 .. Len(rowEnds) + 1 :
        /\ Assigned(start, parent + 1, r)
        /\ rowEnds' = Ends(r, start + duration)
        /\ bars' = Append(bars, [row |-> r, parent |-> parent, start |-> start, end |-> start + duration])
        /\ path' = Append(path, r)

OnlyLayout == UNCHANGED <<text, error, loading, lookup, zoom, zoomStack, loads>>

\* The next child of the span at the end of the path.
WalkChild ==
    /\ path # <<>> /\ Len(bars) < MaxSpans
    /\ \E start, duration \in Times : Lay(start, duration, path[Len(path)])
    /\ OnlyLayout

\* A span has no more children.
Leave ==
    /\ path # <<>>
    /\ path' = SubSeq(path, 1, Len(path) - 1)
    /\ UNCHANGED <<bars, rowEnds>>
    /\ OnlyLayout

Walking == path # <<>>

-----------------------------------------------------------------------------
(* The viewer.  A parsed trace replaces the one before: the layout begins  *)
(* with its root.  The flame graph stays mounted, with its zoom.           *)

ShowTrace ==
    \E start, duration \in Times :
        /\ rowEnds' = <<start + duration>>
        /\ bars' = <<[row |-> 1, parent |-> 0, start |-> start, end |-> start + duration]>>
        /\ path' = <<1>>
        /\ zoom' = IF bars = <<>> THEN [from |-> 0, to |-> duration] ELSE zoom
        /\ UNCHANGED zoomStack
KeepTrace == UNCHANGED <<bars, rowEnds, path, zoom, zoomStack>>

\* tryParse; cleared is the message after a success.
Parse(t, cleared) ==
    IF t = "trace" THEN ShowTrace /\ error' = cleared ELSE KeepTrace /\ error' = TRUE

Load == ~Walking /\ loads < MaxLoads /\ loads' = loads + 1

\* Text is typed or pasted.
Paste(t) ==
    /\ ~Walking /\ text # t
    /\ text' = t
    /\ KeepTrace /\ UNCHANGED <<error, loading, lookup, loads>>

\* handleParse.
ParseText == Load /\ Parse(text, FALSE) /\ UNCHANGED <<text, loading, lookup>>

\* handleFile, when the file has been read.
ReadFile(t) == Load /\ text' = t /\ Parse(t, FALSE) /\ UNCHANGED <<loading, lookup>>

\* handleFetchJob: the button waits for an answer, the Enter key does not.
FetchJob(l) ==
    /\ Load
    /\ lookup[l] = "idle"
    /\ lookup' = [lookup EXCEPT ![l] = "sent"]
    /\ loading' = TRUE /\ error' = FALSE
    /\ KeepTrace /\ UNCHANGED text

\* getJobTrace: the newest event of the job that has steps, if any.
FindTrace(l) ==
    /\ lookup[l] = "sent"
    /\ \E found \in {"trace", "junk", "none"} : lookup' = [lookup EXCEPT ![l] = found]
    /\ KeepTrace /\ UNCHANGED <<text, error, loading, loads>>

\* An answer is shown, whichever job was asked for last.
FetchAnswered(l) ==
    /\ ~Walking
    /\ lookup[l] \notin {"idle", "sent"}
    /\ IF lookup[l] = "none"
       THEN KeepTrace /\ error' = TRUE /\ UNCHANGED text
       ELSE Parse(lookup[l], error) /\ text' = lookup[l]
    /\ lookup' = [lookup EXCEPT ![l] = "idle"]
    /\ loading' = FALSE
    /\ UNCHANGED loads

-----------------------------------------------------------------------------
(* The zoom.                                                               *)

OnlyZoom == UNCHANGED <<text, error, loading, lookup, bars, rowEnds, path, loads>>

\* A bar is drawn when it is in sight; the narrowest is widened.
InSight(bar) == bar.end >= zoom.from /\ bar.start <= zoom.to

\* handleBarClick.
ZoomIn(i) ==
    /\ ~Walking /\ Len(zoomStack) < MaxZoom
    /\ InSight(bars[i]) /\ bars[i].end > bars[i].start
    /\ zoomStack' = Append(zoomStack, zoom)
    /\ zoom' = [from |-> bars[i].start, to |-> bars[i].end]
    /\ OnlyZoom

\* handleZoomOut.
ZoomOut ==
    /\ ~Walking /\ zoomStack # <<>>
    /\ zoom' = zoomStack[Len(zoomStack)]
    /\ zoomStack' = SubSeq(zoomStack, 1, Len(zoomStack) - 1)
    /\ OnlyZoom

\* handleReset.
ResetZoom ==
    /\ ~Walking /\ zoomStack # <<>>
    /\ zoom' = [from |-> 0, to |-> bars[1].end - bars[1].start]
    /\ zoomStack' = <<>>
    /\ OnlyZoom

TraceNext ==
    \/ WalkChild \/ Leave
    \/ ParseText \/ ZoomOut \/ ResetZoom
    \/ \E t \in {"trace", "junk"} : Paste(t) \/ ReadFile(t)
    \/ \E l \in Lookups : FetchJob(l) \/ FindTrace(l) \/ FetchAnswered(l)
    \/ \E i \in DOMAIN bars : ZoomIn(i)

-----------------------------------------------------------------------------
\* The bars of a trace can be told apart and read as a tree: two bars in one
\* row do not overlap, and a span's bar is below its parent's, for children
\* that overlap, outlive their parent or have no duration at all.
FlameSound ==
    /\ \A i, j \in DOMAIN bars :
          i < j /\ bars[i].row = bars[j].row => bars[i].end <= bars[j].start
    /\ \A i \in DOMAIN bars : bars[i].parent < bars[i].row
=============================================================================
