----------------------------- MODULE ResultFiles -----------------------------
(***************************************************************************)
(* The files of one job's result, from the run that stores them to the     *)
(* link that downloads them: the conversion allocates names and puts the   *)
(* files (gateway: convert, artefacts, process_canonize), the row of the   *)
(* job gets the manifest, and the portal groups the manifest into previews *)
(* and lists of links (canonize-user-job-table, preview-strip, the route   *)
(* of the artefacts).                                                      *)
(*                                                                         *)
(* A run may die, or be taken for dead and overlap the next; a page that   *)
(* cannot be rendered in one run may be rendered in another; the result    *)
(* may lapse, or be deleted file by file, while the page shows it.         *)
(***************************************************************************)
EXTENDS Integers, Sequences, FiniteSets

CONSTANTS
    Runs,           \* the runs of the job, at most one after another died
    Documents       \* the inputs: kind, number of pages, whether there is text

ASSUME DocumentsAssumption ==
    \A d \in Documents : d.kind \in {"text", "image", "pdf", "legacy"} /\ d.pages \in Nat

VARIABLES
    document,       \* the input
    run,            \* per run: new, working, done or over; the files to put, and how many are
    blobs,          \* the files in the blob store
    jobStatus,      \* the row of the job
    lapsed,         \* ... its retention has passed
    manifest,       \* ... and the artefacts it names
    shownRow,       \* the row as the page has it
    file,           \* the download asked for last, and its answer
    deletion,       \* the deletion under way: the files it has listed
    removed,        \* history: a deletion has begun
    replaced        \* history: a manifest has been replaced by another

resultVars == <<document, run, blobs, jobStatus, lapsed, manifest, shownRow, file, deletion, removed, replaced>>

Name(prefix, n) == [prefix |-> prefix, n |-> n]
PageLabels      == Name("page", 0)          \* "page-labels"
Markdown        == Name("markdown", 0)
Pdf             == Name("pdf", 0)
Input           == Name("input", 0)

NotRun     == [at |-> "new", plan |-> <<>>, done |-> 0]
NoRow      == [status |-> "none", files |-> {}]
NoFile     == [at |-> "idle", name |-> Input]
NoDeletion == [on |-> FALSE, left |-> {}]

ResultInit ==
    /\ document \in Documents
    /\ run = [r \in Runs |-> NotRun]
    /\ blobs = {Input}
    /\ jobStatus = "processing"
    /\ lapsed = FALSE
    /\ manifest = {}
    /\ shownRow = NoRow
    /\ file = NoFile
    /\ deletion = NoDeletion
    /\ removed = FALSE
    /\ replaced = FALSE

-----------------------------------------------------------------------------
(* The runs of the conversion.                                             *)

Numbered(prefix, n) == [i \in 1 .. n |-> Name(prefix, i)]

\* Mutant: one counter for pages and previews.
PagesCountedTogether(n) ==
    [i \in 1 .. 2 * n |-> IF i % 2 = 1 THEN Name("page", i) ELSE Name("preview", i)]

\* allocate: each prefix has its own counter; a page, then its preview.
Pages(n) ==
    [i \in 1 .. 2 * n |-> IF i % 2 = 1 THEN Name("page", (i + 1) \div 2) ELSE Name("preview", i \div 2)]

\* _extract_pdf; rendered is 0 when the pages could not be rendered.  (Images
\* in a PDF are named like those of an image file.)
PdfPlan(rendered) == Pages(rendered) \o (IF rendered > 0 THEN <<PageLabels>> ELSE <<>>)

\* canonize, and the text of the document after it.
Plan(rendered) ==
    (CASE document.kind = "text"   -> <<>>
       [] document.kind = "image"  -> Numbered("image", document.pages)
       [] document.kind = "pdf"    -> PdfPlan(rendered)
       [] document.kind = "legacy" -> <<Pdf>> \o PdfPlan(rendered))
    \o (IF document.text THEN <<Markdown>> ELSE <<>>)

OnlyRun == UNCHANGED <<document, shownRow, file, deletion, removed>>

\* _handle_job: a job that is not done is run, if its input is there.
StartRun(r) ==
    /\ run[r].at = "new"
    /\ jobStatus \in {"processing", "error"}
    /\ Input \in blobs
    /\ \E rendered \in {0, document.pages} :
          run' = [run EXCEPT ![r] = [at |-> "working", plan |-> Plan(rendered), done |-> 0]]
    /\ OnlyRun /\ UNCHANGED <<blobs, jobStatus, lapsed, manifest, replaced>>

\* ArtefactStore.put.
PutFile(r) ==
    /\ run[r].at = "working" /\ run[r].done < Len(run[r].plan)
    /\ blobs' = blobs \cup {run[r].plan[run[r].done + 1]}
    /\ run' = [run EXCEPT ![r].done = @ + 1]
    /\ OnlyRun /\ UNCHANGED <<jobStatus, lapsed, manifest, replaced>>

Over(r) == run' = [run EXCEPT ![r] = [NotRun EXCEPT !.at = "over"]]

\* The row becomes OK, with a retention of its own and the manifest of the run
\* if that is not empty.
CommitResult(r) ==
    LET files == {run[r].plan[i] : i \in DOMAIN run[r].plan}
    IN /\ run[r].at = "working" /\ run[r].done = Len(run[r].plan)
       /\ jobStatus' = "ok"
       /\ lapsed' = FALSE
       /\ manifest' = IF files = {} THEN manifest ELSE files
       /\ replaced' = (replaced \/ manifest \notin {{}, manifest'})
       /\ run' = [run EXCEPT ![r] = [NotRun EXCEPT !.at = "done"]]
       /\ OnlyRun /\ UNCHANGED blobs

\* A service or a put fails, or the telemetry of a result: _mark_error leaves
\* the manifest in the row.
RunFails(r) ==
    /\ run[r].at \in {"working", "done"}
    /\ jobStatus' = "error"
    /\ Over(r)
    /\ OnlyRun /\ UNCHANGED <<blobs, lapsed, manifest, replaced>>

\* The worker dies, or has told of the result.
RunEnds(r) ==
    /\ run[r].at \in {"working", "done"}
    /\ Over(r)
    /\ OnlyRun /\ UNCHANGED <<blobs, jobStatus, lapsed, manifest, replaced>>

-----------------------------------------------------------------------------
(* The row on the page.                                                    *)

OnlyPage == UNCHANGED <<document, run, blobs, jobStatus, lapsed, manifest, deletion, removed, replaced>>

\* parseArtefacts: the page gets the row, the manifest with it.
ReadRow ==
    /\ shownRow' = IF jobStatus = "ok" /\ ~lapsed THEN [status |-> "ok", files |-> manifest]
                                                  ELSE [status |-> "other", files |-> {}]
    /\ OnlyPage /\ UNCHANGED file

\* groupArtefacts.
Group(files, prefix) == {f \in files : f.prefix = prefix}
OtherFiles(files)    == {f \in files : f.prefix \notin {"preview", "page", "image", "table"}}

\* ArtefactList, ArtefactRow: a link for each file of the groups that are listed.
Linked(files) == OtherFiles(files) \cup Group(files, "image") \cup Group(files, "table")

\* PreviewStrip: a picture for each preview, and a link to the page of its number.
Strip(files) ==
    Group(files, "preview") \cup {Name("page", f.n) : f \in Group(files, "preview")}

\* CanonizeUserJobPanel: links for a row that is OK.
Links == IF shownRow.status = "ok" THEN Linked(shownRow.files) \cup Strip(shownRow.files) ELSE {}

Download(f) ==
    /\ f \in Links
    /\ file.at # "sent"
    /\ file' = [at |-> "sent", name |-> f]
    /\ OnlyPage /\ UNCHANGED shownRow

\* download_artefact of the gateway.
Answer(f) ==
    IF jobStatus = "deleted" \/ lapsed THEN "gone"
    ELSE IF f \in manifest \cap blobs THEN "given" ELSE "missing"

\* GET /api/jobs/[id]/artefacts/[name] passes it on, with the user's first key;
\* he may have none.
ServeDownload ==
    /\ file.at = "sent"
    /\ \E answer \in {Answer(file.name), "no key"} : file' = [file EXCEPT !.at = answer]
    /\ OnlyPage /\ UNCHANGED shownRow

-----------------------------------------------------------------------------
(* The end of the result.                                                  *)

OnlyEnd == UNCHANGED <<document, run, manifest, shownRow, file, replaced>>

LapseResult ==
    /\ jobStatus = "ok" /\ ~lapsed
    /\ lapsed' = TRUE
    /\ OnlyEnd /\ UNCHANGED <<blobs, jobStatus, deletion, removed>>

\* The delete button of the row, or the cleaner once the result has lapsed.
StartDelete ==
    /\ ~deletion.on
    /\ jobStatus # "deleted"
    /\ shownRow.status = "ok" \/ lapsed
    /\ deletion' = [on |-> TRUE, left |-> blobs]
    /\ removed' = TRUE
    /\ OnlyEnd /\ UNCHANGED <<lapsed, blobs, jobStatus>>

\* delete_prefix.
RemoveFile ==
    /\ \E f \in deletion.left :
          /\ blobs' = blobs \ {f}
          /\ deletion' = [deletion EXCEPT !.left = @ \ {f}]
    /\ OnlyEnd /\ UNCHANGED <<lapsed, jobStatus, removed>>

MarkDeleted ==
    /\ deletion.on /\ deletion.left = {}
    /\ jobStatus' = "deleted"
    /\ deletion' = NoDeletion
    /\ OnlyEnd /\ UNCHANGED <<lapsed, blobs, removed>>

DeletionFails ==
    /\ deletion.on
    /\ deletion' = NoDeletion
    /\ OnlyEnd /\ UNCHANGED <<lapsed, blobs, jobStatus, removed>>

ResultNext ==
    \/ \E r \in Runs : StartRun(r) \/ PutFile(r) \/ CommitResult(r) \/ RunFails(r) \/ RunEnds(r)
    \/ ReadRow \/ ServeDownload
    \/ \E f \in Links : Download(f)
    \/ LapseResult \/ StartDelete \/ RemoveFile \/ MarkDeleted \/ DeletionFails

-----------------------------------------------------------------------------
\* A link of the page leads to a file.  While nobody has begun to delete the
\* result, every file a row on the page links to is in the blob store, be it
\* the row of a run that another has overtaken; every file of its manifest
\* but the page labels has a link; and the gateway misses a file that was
\* asked for only when another run has replaced the manifest the link came
\* from.  (The page labels are grouped with the pages, which the page reaches
\* through their previews: nothing links to them.)
LinksLead ==
    removed \/
        /\ Links \subseteq blobs
        /\ shownRow.files \ Links \subseteq {PageLabels}
        /\ file.at = "missing" => replaced
=============================================================================
