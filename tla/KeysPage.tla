------------------------------ MODULE KeysPage ------------------------------
(***************************************************************************)
(* The API keys page of the portal: the form that creates a key, the table *)
(* of keys with its buttons and the editor of a limit, and the requests    *)
(* they send (create-key-form, key-actions, quota-editor, use-key-actions, *)
(* key-table), against a server that other tabs of the user reach too.     *)
(*                                                                         *)
(* A request is a step each way; after one that succeeded the page asks for*)
(* the rows again (router.refresh), and meanwhile shows old ones.  What    *)
(* becomes of the secrets of a key is the subject of KeyAccess.            *)
(***************************************************************************)
EXTENDS Integers, FiniteSets

CONSTANTS
    KeyIds,         \* ids the server may generate
    KeyNames,       \* valid names, equal if they differ in case only
    KeySlots,       \* requests in flight at a time
    None,
    MaxKeys,        \* UserConfig.maxKeys
    PerGB,          \* megabytes to a gigabyte: 1000
    Typed,          \* what people type into a limit: [value, unit]
    MaxKeyCalls,    \* bound: requests
    MaxResizes      \* bound: changes of the layout, and reloads

ASSUME KeySlotsAssumption == KeySlots \in Nat
ASSUME MaxKeysAssumption == MaxKeys \in Nat /\ PerGB \in Nat \ {0}
ASSUME KeyBoundsAssumption == MaxKeyCalls \in Nat /\ MaxResizes \in Nat
ASSUME TypedAssumption == Typed \subseteq [value : Nat \cup {None}, unit : {"MB", "GB"}]

VARIABLES
    rows,           \* the server: name and limit (in MB) of the keys
    shown,          \* the rows the page rendered last
    rendering,      \* the page has asked for the rows again
    form,           \* the form: name, loading, card of a created key
    wide,           \* the table is wide enough for its buttons
    opened,         \* expandedId: the row expanded in the narrow table
    controls,       \* per row: rotate button, its timers, editor of the limit
    call,           \* the requests
    overlaps,       \* history: creations checked while another was under way,
                    \* and rotations that brought a deleted key back
    strays,         \* history: keys whose editor was filled with an outdated limit
    keyCalls, resizes

keysVars == <<rows, shown, rendering, form, wide, opened, controls, call, overlaps, strays,
              keyCalls, resizes>>

KeyCalls == 1 .. KeySlots
NoCall  == [op |-> "none", key |-> None, name |-> None, limit |-> None, by |-> "other", at |-> "idle"]
Row     == [name : KeyNames, limit : Nat \cup {None}]
Kept(r) == {k \in KeyIds : r[k] # None}

\* kbToDisplay: a limit as the editor shows it, in whole gigabytes from one on.
Display(limit) ==
    IF limit = None THEN [value |-> None, unit |-> "GB"]
    ELSE IF limit >= PerGB THEN [value |-> (2 * limit + PerGB) \div (2 * PerGB), unit |-> "GB"]
    ELSE [value |-> limit, unit |-> "MB"]

\* displayToKB, and no limit for an empty text.
Meant(text) ==
    IF text.value = None THEN None
    ELSE text.value * (IF text.unit = "GB" THEN PerGB ELSE 1)

\* The buttons of a row and its editor as they are mounted.
Fresh(r) == [rotate |-> "idle", timers |-> 0, editing |-> FALSE, saving |-> FALSE,
             text |-> Display(r.limit), typed |-> FALSE]
Unmounted == [rotate |-> "idle", timers |-> 0, editing |-> FALSE, saving |-> FALSE,
              text |-> Display(None), typed |-> FALSE]

\* validateKeyName: "" is not a name, and a name is used once.
ValidName(name, r) == name \in KeyNames /\ \A k \in Kept(r) : r[k].name # name

\* generateKeyName: some name; it may be in use.
Generated == KeyNames

\* The form before the first name is typed.
NewForm == {[name |-> n, loading |-> FALSE, card |-> FALSE] : n \in Generated}

\* Nothing is under way when the page opens, or a rotation another tab sent.
Opening ==
    {[c \in KeyCalls |-> NoCall]} \cup
    {[c \in KeyCalls |-> IF c = 1 THEN [NoCall EXCEPT !.op = "rotate", !.key = k, !.at = "sent"]
                         ELSE NoCall] : k \in Kept(rows)}

KeysInit ==
    /\ rows \in {r \in [KeyIds -> {None} \cup [name : KeyNames, limit : {None}]] :
                    Kept(r) = {} \/ (MaxKeys > 0 /\ \E k \in KeyIds : Kept(r) = {k})}
    /\ shown = rows
    /\ rendering = FALSE
    /\ form \in NewForm
    /\ wide = TRUE
    /\ opened = None
    /\ controls = [k \in KeyIds |-> Unmounted]
    /\ call \in Opening
    /\ overlaps = 0
    /\ strays = {}
    /\ keyCalls = 0
    /\ resizes = 0

-----------------------------------------------------------------------------
(* What is mounted: in the wide table the buttons of every row, in the     *)
(* narrow one those of the expanded row.                                   *)

Mounted(r, w, o) == {k \in Kept(r) : w \/ o = k}
OnPage == Mounted(shown, wide, opened)

\* The page renders: what stays mounted keeps its state, what goes loses it
\* and its requests answer to nobody.
Rendered(r, w, o, remounted) ==
    LET stay == (Mounted(r, w, o) \cap OnPage) \ remounted
        come == Mounted(r, w, o) \ stay
    IN /\ shown' = r /\ wide' = w /\ opened' = o
       /\ controls' = [k \in KeyIds |-> IF k \in stay THEN controls[k]
                                       ELSE IF k \in come THEN Fresh(r[k]) ELSE Unmounted]
       /\ call' = [c \in KeyCalls |->
                      IF call[c].by = "page" /\ call[c].op # "create" /\ call[c].key \notin stay
                      THEN [call[c] EXCEPT !.by = "gone"] ELSE call[c]]
       /\ strays' = strays \cup {k \in come : rows[k] # None /\ Meant(Display(r[k].limit)) # rows[k].limit}

\* KeysResolver: the rows are read and rendered; an empty table is a line of text.
RenderRows ==
    /\ rendering
    /\ rendering' = FALSE
    /\ Rendered(rows, wide, opened, {})
    /\ UNCHANGED <<rows, form, overlaps, keyCalls, resizes>>

\* useContainerWide: the layout changes with the width.
Resize ==
    /\ resizes < MaxResizes
    /\ Kept(shown) # {}
    /\ resizes' = resizes + 1
    /\ Rendered(shown, ~wide, opened, KeyIds)
    /\ UNCHANGED <<rows, rendering, form, overlaps, keyCalls>>

\* ExpandableRow: the chevron opens a row and closes the one that was open.
Toggle(k) ==
    /\ ~wide /\ k \in Kept(shown)
    /\ Rendered(shown, wide, IF opened = k THEN None ELSE k, {})
    /\ UNCHANGED <<rows, rendering, form, overlaps, keyCalls, resizes>>

\* The page is loaded anew; requests under way are left behind.
ReloadKeys ==
    /\ resizes < MaxResizes
    /\ resizes' = resizes + 1
    /\ shown' = rows /\ wide' = TRUE /\ opened' = None /\ rendering' = FALSE
    /\ form' \in NewForm
    /\ controls' = [k \in KeyIds |-> IF rows[k] # None THEN Fresh(rows[k]) ELSE Unmounted]
    /\ call' = [c \in KeyCalls |-> IF call[c] = NoCall THEN NoCall ELSE [call[c] EXCEPT !.by = "other"]]
    /\ strays' = {k \in Kept(rows) : Meant(Display(rows[k].limit)) # rows[k].limit}
    /\ UNCHANGED <<rows, overlaps, keyCalls>>

-----------------------------------------------------------------------------
(* Requests of the page.                                                   *)

\* A request takes the first free slot, so that slots need no symmetry.
Send(c, op, key, name, limit, by) ==
    /\ call[c].at = "idle" /\ \A d \in 1 .. c - 1 : call[d].at # "idle"
    /\ keyCalls < MaxKeyCalls
    /\ keyCalls' = keyCalls + 1
    /\ call' = [call EXCEPT ![c] = [op |-> op, key |-> key, name |-> name, limit |-> limit,
                                    by |-> by, at |-> "sent"]]
    /\ UNCHANGED <<rows, shown, rendering, wide, opened, overlaps, resizes>>

\* CreateKeyInput: the button needs a valid name and nothing under way.
CanCreate == ~form.card /\ ~form.loading /\ ValidName(form.name, shown)

\* handleCreate, up to its answer.
Create(c) ==
    /\ CanCreate
    /\ Send(c, "create", None, form.name, None, "page")
    /\ form' = [form EXCEPT !.loading = TRUE]
    /\ UNCHANGED <<controls, strays>>

\* Another name is typed or drawn.
EditName ==
    /\ ~form.card
    /\ form' \in {[form EXCEPT !.name = n] : n \in Generated}
    /\ UNCHANGED <<rows, shown, rendering, wide, opened, controls, call, overlaps, strays, keyCalls, resizes>>

\* CreatedKeyCard is closed: the form is back.
CloseCard ==
    /\ form.card
    /\ form' = [form EXCEPT !.card = FALSE]
    /\ UNCHANGED <<rows, shown, rendering, wide, opened, controls, call, overlaps, strays, keyCalls, resizes>>

\* RotateButton: disabled while it is busy.
Rotate(c, k) ==
    /\ k \in OnPage /\ controls[k].rotate # "busy"
    /\ Send(c, "rotate", k, None, None, "page")
    /\ controls' = [controls EXCEPT ![k].rotate = "busy"]
    /\ UNCHANGED <<form, strays>>

\* 1.5 s after a rotation its button is idle again, whatever it does by then.
RotateTimer(k) ==
    /\ controls[k].timers > 0
    /\ controls' = [controls EXCEPT ![k].rotate = "idle", ![k].timers = @ - 1]
    /\ UNCHANGED <<rows, shown, rendering, form, wide, opened, call, overlaps, strays, keyCalls, resizes>>

\* handleDelete: the button is never disabled.
Remove(c, k) ==
    /\ k \in OnPage
    /\ Send(c, "remove", k, None, None, "page")
    /\ UNCHANGED <<form, controls, strays>>

OnlyEditor == UNCHANGED <<rows, shown, rendering, form, wide, opened, call, overlaps, keyCalls, resizes>>

\* The pencil opens the editor, with whatever text it has.
OpenEditor(k) ==
    /\ k \in OnPage /\ ~controls[k].editing
    /\ controls' = [controls EXCEPT ![k].editing = TRUE]
    /\ OnlyEditor /\ UNCHANGED strays

Editing(k) == k \in OnPage /\ controls[k].editing /\ ~controls[k].saving

Type(k, text) ==
    /\ Editing(k)
    /\ controls' = [controls EXCEPT ![k].text = text, ![k].typed = TRUE]
    /\ OnlyEditor /\ UNCHANGED strays

\* Mutant: the text stays when the editor is closed.
CancelOnlyCloses(k) ==
    /\ Editing(k)
    /\ controls' = [controls EXCEPT ![k].editing = FALSE, ![k].typed = FALSE]
    /\ OnlyEditor /\ UNCHANGED strays

\* handleCancel: back to the limit of the row as it is shown.
Cancel(k) ==
    LET reset == Display(shown[k].limit) IN
    /\ Editing(k)
    /\ controls' = [controls EXCEPT ![k].text = reset, ![k].editing = FALSE, ![k].typed = FALSE]
    /\ strays' = IF rows[k] # None /\ Meant(reset) # rows[k].limit THEN strays \cup {k} ELSE strays
    /\ OnlyEditor

\* handleSave, up to its answer.
Save(c, k) ==
    /\ Editing(k)
    /\ Send(c, "limit", k, None, Meant(controls[k].text), "page")
    /\ controls' = [controls EXCEPT ![k].saving = TRUE]
    /\ UNCHANGED <<form, strays>>

\* Another tab, or a script with the user's session, sends a request.
Elsewhere(c) ==
    /\ \/ \E n \in KeyNames : Send(c, "create", None, n, None, "other")
       \/ \E k \in Kept(rows) :
             \/ Send(c, "remove", k, None, None, "other")
             \/ \E t \in Typed : Send(c, "limit", k, None, Meant(t), "other")
    /\ UNCHANGED <<form, controls, strays>>

-----------------------------------------------------------------------------
(* The server.                                                             *)

Reach(c, at) == call' = [call EXCEPT ![c].at = at]
OnlyServer == UNCHANGED <<shown, rendering, form, wide, opened, controls, keyCalls, resizes>>

\* Mutant: one key too many is allowed.
RoomForOneMore == Cardinality(Kept(rows)) <= MaxKeys

\* POST /api/keys compares the number of keys it listed with maxKeys.
HasRoom == Cardinality(Kept(rows)) < MaxKeys

\* Creations that passed the check and are still to be written.
Checked == {c \in KeyCalls : call[c].at = "checked"}

\* POST /api/keys lists the keys and checks name and number.
CheckCreate(c) ==
    /\ call[c].op = "create" /\ call[c].at = "sent"
    /\ IF ValidName(call[c].name, rows) /\ HasRoom
       THEN /\ Reach(c, "checked")
            /\ overlaps' = IF Checked = {} THEN overlaps ELSE overlaps + 1
       ELSE /\ Reach(c, "refused")
            /\ UNCHANGED overlaps
    /\ OnlyServer /\ UNCHANGED <<rows, strays>>

\* An id nobody knows: the model uses the id of a forgotten key again.
Unknown(k) == rows[k] = None /\ shown[k] = None /\ \A c \in KeyCalls : call[c].key # k

\* ... and creates the key.
WriteCreate(c, k) ==
    /\ call[c].at = "checked"
    /\ Unknown(k)
    /\ rows' = [rows EXCEPT ![k] = [name |-> call[c].name, limit |-> None]]
    /\ strays' = strays \ {k}
    /\ Reach(c, "ok")
    /\ OnlyServer /\ UNCHANGED overlaps

\* rotate lists the row and remembers what it is to write back; 404 without one.
ReadRotate(c) ==
    LET k == call[c].key IN
    /\ call[c].op = "rotate" /\ call[c].at = "sent"
    /\ IF rows[k] # None
       THEN call' = [call EXCEPT ![c] = [@ EXCEPT !.name = rows[k].name, !.limit = rows[k].limit,
                                                  !.at = "read"]]
       ELSE Reach(c, "refused")
    /\ OnlyServer /\ UNCHANGED <<rows, overlaps, strays>>

\* The limits the subscription of a key that was deleted may have: none, that
\* of a subscription whose own deletion failed, or one that was set meanwhile.
LeftLimits(k) ==
    {None} \cup ({call[d].limit : d \in {e \in KeyCalls : call[e].key = k}} \ {0})

\* ... and upserts it, so that a key deleted since comes back.
WriteRotate(c) ==
    LET k == call[c].key IN
    /\ call[c].at = "read"
    /\ \/ rows[k] # None /\ UNCHANGED <<rows, overlaps, strays>>
       \/ /\ rows[k] = None
          /\ \E l \in LeftLimits(k) : rows' = [rows EXCEPT ![k] = [name |-> call[c].name, limit |-> l]]
          /\ overlaps' = overlaps + 1
          /\ strays' = strays \cup {k}
    /\ Reach(c, "ok")
    /\ OnlyServer

\* Deletion and the limit of a key: 404 if the user has it no more, or no
\* effect if it went after that was checked; 400 if the limit is zero.
Serve(c) ==
    LET op == call[c].op
        k == call[c].key
        zero == op = "limit" /\ call[c].limit = 0
    IN /\ op \in {"remove", "limit"} /\ call[c].at = "sent"
       /\ IF rows[k] # None /\ ~zero
          THEN /\ rows' = IF op = "remove" THEN [rows EXCEPT ![k] = None]
                          ELSE [rows EXCEPT ![k].limit = call[c].limit]
               /\ strays' = IF op = "limit" /\ call[c].by # "page" THEN strays \cup {k} ELSE strays
               /\ Reach(c, "ok")
          ELSE /\ Reach(c, "refused") \/ (~zero /\ Reach(c, "ok"))
               /\ UNCHANGED <<rows, strays>>
       /\ OnlyServer /\ UNCHANGED overlaps

\* route(): whatever a handler throws is a 500, before or after the row was
\* written; or the connection is lost, and fetch rejects.
FailCall(c) ==
    /\ call[c].at \in {"sent", "checked", "read", "ok"} /\ call[c].by # "other"
    /\ Reach(c, "refused") \/ Reach(c, "lost")
    /\ OnlyServer /\ UNCHANGED <<rows, overlaps, strays>>

-----------------------------------------------------------------------------
(* The answers (useKeyActions): rows are asked for again if it was 2xx; a  *)
(* request that was lost leaves its handler, and its control, where it is. *)

Settled(c) == call[c].at \in {"ok", "refused", "lost"}
Refreshes(c) == rendering' = (rendering \/ (call[c].at = "ok" /\ call[c].by # "other"))
Answered(c, op) ==
    /\ Settled(c) /\ call[c].op = op
    /\ Refreshes(c)
    /\ call' = [call EXCEPT ![c] = NoCall]
    /\ UNCHANGED <<rows, shown, wide, opened, overlaps, strays, keyCalls, resizes>>

\* Promise.all rejects with the first write that fails: the page hears of the
\* failure while the row of the key is still to be written.
AnsweredEarly(c) ==
    LET k == call[c].key IN
    /\ call[c].at \in {"checked", "read"} /\ call[c].by = "page"
    /\ call' = [call EXCEPT ![c].by = "other"]
    /\ \/ call[c].op = "create" /\ form' = [form EXCEPT !.loading = FALSE] /\ UNCHANGED controls
       \/ call[c].op = "rotate" /\ controls' = [controls EXCEPT ![k].rotate = "idle"] /\ UNCHANGED form
    /\ UNCHANGED <<rows, shown, rendering, wide, opened, overlaps, strays, keyCalls, resizes>>

CreateAnswered(c) ==
    /\ Answered(c, "create")
    /\ form' \in (IF call[c].by # "page" \/ call[c].at = "lost" THEN {form}
                  ELSE IF call[c].at = "refused" THEN {[form EXCEPT !.loading = FALSE]}
                  ELSE {[name |-> n, loading |-> FALSE, card |-> TRUE] : n \in Generated})
    /\ UNCHANGED controls

RotateAnswered(c) ==
    LET k == call[c].key IN
    /\ Answered(c, "rotate")
    /\ controls' = IF call[c].by # "page" \/ call[c].at = "lost" THEN controls
                   ELSE IF call[c].at = "refused" THEN [controls EXCEPT ![k].rotate = "idle"]
                   ELSE [controls EXCEPT ![k].rotate = "done", ![k].timers = @ + 1]
    /\ UNCHANGED form

RemoveAnswered(c) == Answered(c, "remove") /\ UNCHANGED <<form, controls>>

\* The editor closes whether or not the limit was saved.
SaveAnswered(c) ==
    LET k == call[c].key IN
    /\ Answered(c, "limit")
    /\ controls' = IF call[c].by # "page" \/ call[c].at = "lost" THEN controls
                   ELSE [controls EXCEPT ![k].saving = FALSE, ![k].editing = FALSE,
                                         ![k].typed = @ /\ call[c].at # "ok"]
    /\ UNCHANGED form

KeysNext ==
    \/ RenderRows \/ Resize \/ ReloadKeys \/ EditName \/ CloseCard
    \/ \E k \in KeyIds :
          \/ Toggle(k) \/ RotateTimer(k) \/ OpenEditor(k) \/ Cancel(k)
          \/ \E t \in Typed : Type(k, t)
    \/ \E c \in KeyCalls :
          \/ Create(c) \/ Elsewhere(c) \/ CheckCreate(c) \/ ReadRotate(c) \/ WriteRotate(c)
          \/ Serve(c) \/ FailCall(c) \/ AnsweredEarly(c) \/ CreateAnswered(c)
          \/ RotateAnswered(c) \/ RemoveAnswered(c) \/ SaveAnswered(c)
          \/ \E k \in KeyIds : Rotate(c, k) \/ Remove(c, k) \/ Save(c, k) \/ WriteCreate(c, k)

-----------------------------------------------------------------------------
\* A user has more keys than he may by at most one for each creation that was
\* checked while another was under way and each rotation that overlapped the
\* deletion of its key, with any number of tabs; without such an overlap no two
\* keys have one name either.
KeyLimitKept ==
    /\ Cardinality(Kept(rows)) <= MaxKeys + overlaps
    /\ overlaps = 0 => \A j, k \in Kept(rows) : j # k => rows[j].name # rows[k].name

\* A limit nobody typed is the limit of the key, so that opening the editor and
\* saving changes nothing: only a limit set by another tab, a save that failed,
\* a key that came back, a row that was out of date when the editor took its
\* text from it, or a limit that is not a whole number of gigabytes leaves
\* another text there.
UntypedLimitHolds ==
    \A k \in OnPage \ strays :
        rows[k] # None /\ ~controls[k].typed /\ ~controls[k].saving =>
            Meant(controls[k].text) = rows[k].limit
=============================================================================
