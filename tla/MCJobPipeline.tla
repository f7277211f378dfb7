---------------------------- MODULE MCJobPipeline ----------------------------
(* Finite instances of JobPipeline for TLC.                                *)
EXTENDS JobPipeline, TLC

CONSTANTS j1, j2, w1, w2

OneJob      == {j1}
TwoJobs     == {j1, j2}
OneWorker   == {w1}
TwoWorkers  == {w1, w2}
NoJobs      == {}
SecondJob   == {j2}

NoFaults    == {}
AnyFault    == AllFaults
\* Faults of a single delivery: no duplicate of a job ever comes about.
LocalFaults == {"crash", "blob", "report"}
\* Faults that cost a job its entry, its handler or its account.
Setbacks    == {"crash", "flush", "lostbeat", "suspend"}

\* Handlers are interchangeable.
WorkerSymmetry == Permutations({w1, w2})

=============================================================================
