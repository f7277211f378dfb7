--------------------------- MODULE MCUsageReporter ---------------------------
(* Finite instances of UsageReporter for TLC.                              *)
EXTENDS UsageReporter

CONSTANTS j1, j2

OneJob    == {j1}
TwoJobs   == {j1, j2}
NoJobs    == {}
SecondJob == {j2}

NoFaults  == {}
AnyFault  == {"crash", "watermark", "customers", "comp", "reject"}

=============================================================================
