------------------------------ MODULE JobsPage ------------------------------
(***************************************************************************)
(* The jobs page of the portal: the list of a user's jobs, which is polled *)
(* while one of them is processing and extended page by page, the upload   *)
(* form, and the deletion of a result (jobs-page-content, upload-form,     *)
(* canonize-user-job-table, data-table, lib/data/jobs, /api/jobs).         *)
(*                                                                         *)
(* Requests are not serialised: a poll may overtake another, and the rest  *)
(* of the list may arrive after a poll has replaced its beginning.  Jobs   *)
(* are numbered in the order of their submission; the index lists the      *)
(* newest first.                                                           *)
(***************************************************************************)
EXTENDS Integers, Sequences

CONSTANTS
    MaxJobs,        \* bound: jobs of the user
    MaxOldJobs,     \* bound: ... when the page is loaded
    JobPageSize,    \* jobs of an answer: 20
    PollSlots,      \* refreshes in flight at a time
    Outcomes,       \* how the worker may end a job: "ok", "error"
    MaxJobEvents    \* bound: deletions, requests that fail, results that lapse

ASSUME JobsAssumption ==
    /\ MaxJobs \in Nat /\ MaxOldJobs \in 0 .. MaxJobs
    /\ PollSlots \in Nat /\ JobPageSize \in Nat \ {0} /\ MaxJobEvents \in Nat
ASSUME OutcomesAssumption == Outcomes \subseteq {"ok", "error"}

VARIABLES
    index,          \* GwUserJobs: the status of the user's jobs
    requests,       \* the rows on the page: id and status
    cursor,         \* the job the rest of the list begins with, 0 at its end
    poll,           \* the refreshes
    more,           \* the request for the rest of the list
    removal,        \* the DELETE under way
    apiKey,         \* the form's key: none, yet or at all; listed to select; taken
    upload,         \* the form: empty, holding a file, or submitting it
    mixed,          \* history: the list was refreshed with "more" under way
    jobEvents

jobsVars == <<index, requests, cursor, poll, more, removal, apiKey, upload, mixed, jobEvents>>

Jobs      == 1 .. MaxJobs
Polls     == 1 .. PollSlots
Idle      == [at |-> "idle", from |-> 0, rows |-> <<>>, next |-> 0]
NoRemoval == [at |-> "idle", id |-> 0]

-----------------------------------------------------------------------------
(* The server's side of the list.                                          *)

\* parseStatus: what is not known is an error.
Parsed(status) == IF status \in {"ok", "processing", "deleted"} THEN status ELSE "error"

\* toCanonizeJobRow: a result past its retention has expired; "late" is an
\* OK job whose retention has passed.
RowStatus(status) ==
    CASE status = "late"             -> "expired"
      [] Parsed(status) = "deleted"  -> "expired"
      [] OTHER                       -> Parsed(status)

\* listJobsForUser: a page of the index from a job on, and where the next begins.
PageFrom(from) ==
    LET last == IF from > JobPageSize THEN from - JobPageSize + 1 ELSE 1
    IN [rows |-> [i \in 1 .. (from - last + 1) |->
                     [id |-> from - i + 1, status |-> RowStatus(index[from - i + 1])]],
        next |-> last - 1]

\* getJobsForUser: without a cursor the newest page.
List(from) == PageFrom(IF from = 0 THEN Len(index) ELSE from)

\* The page is rendered on the server with the first page of the list.
JobsInit ==
    /\ index \in UNION {[1 .. n -> {"processing", "ok"}] : n \in 0 .. MaxOldJobs}
    /\ requests = List(0).rows
    /\ cursor = List(0).next
    /\ poll = [p \in Polls |-> Idle]
    /\ more = Idle
    /\ removal = NoRemoval
    /\ apiKey = "none"
    /\ upload = "empty"
    /\ mixed = FALSE
    /\ jobEvents = 0

JobEvent == jobEvents < MaxJobEvents /\ jobEvents' = jobEvents + 1

OnlyIndex == UNCHANGED <<requests, cursor, poll, more, removal, apiKey, upload, mixed>>

\* The worker ends a job.
Finish(i) ==
    /\ i \in DOMAIN index /\ index[i] = "processing"
    /\ \E s \in Outcomes : index' = [index EXCEPT ![i] = s]
    /\ OnlyIndex /\ UNCHANGED jobEvents

\* Retention ends.
Lapse(i) ==
    /\ i \in DOMAIN index /\ index[i] = "ok"
    /\ index' = [index EXCEPT ![i] = "late"]
    /\ JobEvent
    /\ OnlyIndex

-----------------------------------------------------------------------------
(* The list on the page.                                                   *)

\* Mutant: only the newest row is looked at.
NewestProcessing == Len(requests) > 0 /\ requests[1].status = "processing"

\* hasProcessing.
HasProcessing == \E i \in DOMAIN requests : requests[i].status = "processing"

\* A refresh takes the first free slot.
Ask(p) ==
    /\ poll[p].at = "idle" /\ \A q \in 1 .. p - 1 : poll[q].at # "idle"
    /\ poll' = [poll EXCEPT ![p] = [Idle EXCEPT !.at = "sent"]]

\* Every five seconds, answered or not, while a row is processing.
Poll(p) ==
    /\ HasProcessing
    /\ Ask(p)
    /\ UNCHANGED <<index, requests, cursor, more, removal, apiKey, upload, mixed, jobEvents>>

\* GET /api/jobs.
ReadPoll(p) ==
    /\ poll[p].at = "sent"
    /\ poll' = [poll EXCEPT ![p] = [at |-> "read", from |-> 0, rows |-> List(0).rows, next |-> List(0).next]]
    /\ UNCHANGED <<index, requests, cursor, more, removal, apiKey, upload, mixed, jobEvents>>

\* The request fails: nothing is said, the next interval asks again.
FailPoll(p) ==
    /\ poll[p].at # "idle"
    /\ JobEvent
    /\ poll' = [poll EXCEPT ![p] = Idle]
    /\ UNCHANGED <<index, requests, cursor, more, removal, apiKey, upload, mixed>>

\* Mutant: the cursor stays where "more" has taken it.
RefreshKeepingCursor(p) ==
    /\ poll[p].at = "read"
    /\ requests' = poll[p].rows
    /\ mixed' = (more.at # "idle")
    /\ poll' = [poll EXCEPT ![p] = Idle]
    /\ UNCHANGED <<index, cursor, more, removal, apiKey, upload, jobEvents>>

\* refresh: the answer replaces the list, whatever arrived since it was read.
Refresh(p) ==
    /\ poll[p].at = "read"
    /\ requests' = poll[p].rows
    /\ cursor' = poll[p].next
    /\ mixed' = (more.at # "idle")
    /\ poll' = [poll EXCEPT ![p] = Idle]
    /\ UNCHANGED <<index, more, removal, apiKey, upload, jobEvents>>

\* loadMore: the button is there while there is a rest, and waits for its answer.
LoadMore ==
    /\ cursor # 0 /\ more.at = "idle"
    /\ more' = [Idle EXCEPT !.at = "sent", !.from = cursor]
    /\ UNCHANGED <<index, requests, cursor, poll, removal, apiKey, upload, mixed, jobEvents>>

\* GET /api/jobs with a cursor.
ReadMore ==
    /\ more.at = "sent"
    /\ more' = [more EXCEPT !.at = "read", !.rows = List(more.from).rows, !.next = List(more.from).next]
    /\ UNCHANGED <<index, requests, cursor, poll, removal, apiKey, upload, mixed, jobEvents>>

\* ... the answer is put after the list as it is by then.
AppendMore ==
    /\ more.at = "read"
    /\ requests' = requests \o more.rows
    /\ cursor' = more.next
    /\ more' = Idle
    /\ UNCHANGED <<index, poll, removal, apiKey, upload, mixed, jobEvents>>

FailMore ==
    /\ more.at # "idle"
    /\ JobEvent
    /\ more' = Idle
    /\ UNCHANGED <<index, requests, cursor, poll, removal, apiKey, upload, mixed>>

-----------------------------------------------------------------------------
(* The upload form.                                                        *)

OnlyUpload == UNCHANGED <<requests, cursor, more, removal, mixed>>

\* KeyResolver: the keys arrive after the page; for a user who has none a line
\* of text says so, and the form stays as it is.
ResolveKeys ==
    /\ apiKey = "none"
    /\ apiKey' = "listed"
    /\ OnlyUpload /\ UNCHANGED <<index, poll, upload, jobEvents>>

\* KeySelector tells the form the first key once it is mounted, and any other
\* that is selected.
SelectKey ==
    /\ apiKey = "listed"
    /\ apiKey' = "taken"
    /\ OnlyUpload /\ UNCHANGED <<index, poll, upload, jobEvents>>

\* A file is dropped or chosen.
ChooseFile ==
    /\ upload = "empty"
    /\ upload' = "file"
    /\ OnlyUpload /\ UNCHANGED <<index, poll, apiKey, jobEvents>>

\* handleSubmit, up to the gateway's answer: it takes a file and a key.
SubmitFile ==
    /\ upload = "file" /\ apiKey = "taken"
    /\ upload' = "submitting"
    /\ OnlyUpload /\ UNCHANGED <<index, poll, apiKey, jobEvents>>

\* The gateway accepts the job; the form forgets the file and asks for the list.
SubmitAccepted(p) ==
    /\ upload = "submitting"
    /\ Len(index) < MaxJobs
    /\ index' = Append(index, "processing")
    /\ upload' = "empty"
    /\ Ask(p)
    /\ OnlyUpload /\ UNCHANGED <<apiKey, jobEvents>>

\* The gateway refuses, as it does for a key that was rotated since the page
\* was rendered, or its answer is lost, be the job accepted or not: the form
\* keeps the file for another try.
SubmitFailed ==
    /\ upload = "submitting"
    /\ upload' = "file"
    /\ \/ UNCHANGED index
       \/ Len(index) < MaxJobs /\ index' = Append(index, "processing")
    /\ OnlyUpload /\ UNCHANGED <<poll, apiKey, jobEvents>>

-----------------------------------------------------------------------------
(* Deletion.                                                               *)

\* JobDetailPanel: a result that is there can be deleted, on whatever page of
\* the table its row is.
Deletable(r) == r.status = "ok"

\* handleDelete, up to its answer.
Delete(r) ==
    /\ Deletable(r)
    /\ removal = NoRemoval
    /\ removal' = [at |-> "sent", id |-> r.id]
    /\ JobEvent
    /\ UNCHANGED <<index, requests, cursor, poll, more, apiKey, upload, mixed>>

\* DELETE /api/jobs/[id] passes it to the gateway with the user's first key.
ServeDelete ==
    /\ removal.at = "sent"
    /\ index' = [index EXCEPT ![removal.id] = "deleted"]
    /\ removal' = [removal EXCEPT !.at = "done"]
    /\ UNCHANGED <<requests, cursor, poll, more, apiKey, upload, mixed, jobEvents>>

\* No key, a gateway that refuses, or an answer that is lost: the row stays as it is.
DeleteFailed ==
    /\ removal.at \in {"sent", "done"}
    /\ removal' = NoRemoval
    /\ UNCHANGED <<index, requests, cursor, poll, more, apiKey, upload, mixed, jobEvents>>

\* The row is marked as expired, if it is still in the list.
DeleteAnswered ==
    /\ removal.at = "done"
    /\ requests' = [i \in DOMAIN requests |->
                     IF requests[i].id = removal.id THEN [requests[i] EXCEPT !.status = "expired"]
                                                    ELSE requests[i]]
    /\ removal' = NoRemoval
    /\ UNCHANGED <<index, cursor, poll, more, apiKey, upload, mixed, jobEvents>>

-----------------------------------------------------------------------------
JobsNext ==
    \/ \E i \in Jobs : Finish(i) \/ Lapse(i)
    \/ \E p \in Polls : Poll(p) \/ ReadPoll(p) \/ FailPoll(p) \/ Refresh(p) \/ SubmitAccepted(p)
    \/ LoadMore \/ ReadMore \/ AppendMore \/ FailMore
    \/ ResolveKeys \/ SelectKey \/ ChooseFile \/ SubmitFile \/ SubmitFailed
    \/ \E i \in DOMAIN requests : Delete(requests[i])
    \/ ServeDelete \/ DeleteFailed \/ DeleteAnswered

\* The interval fires while it is set; requests that do not fail are answered.
JobsFairness ==
    /\ WF_jobsVars(\E p \in Polls : Poll(p))
    /\ \A p \in Polls : WF_jobsVars(ReadPoll(p)) /\ WF_jobsVars(Refresh(p))

-----------------------------------------------------------------------------
\* The list has neither gaps nor doubles, and "Load more" goes on where it
\* ends, through polls, new jobs and answers out of order, unless a refresh
\* replaced the list while the rest was under way: then jobs may be missing
\* from it until the next refresh.
ListWhole ==
    mixed \/
        /\ \A i \in 1 .. Len(requests) - 1 : requests[i].id = requests[i + 1].id + 1
        /\ cursor = IF requests = <<>> THEN 0 ELSE requests[Len(requests)].id - 1

\* A row says processing of a job that has ended.
Outdated ==
    \E r \in DOMAIN requests :
        requests[r].status = "processing" /\ index[requests[r].id] # "processing"

\* A job that has ended does not stay on the page as processing: the page
\* polls as long as it shows one, however its requests fail and overtake each
\* other.  (A job that was submitted may still be missing from the page: when
\* the refresh that shows it is overtaken by an older one, nothing may be
\* processing any more, and the page stops asking.)
RowsSettle == []<>~Outdated
=============================================================================
