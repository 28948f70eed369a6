----------------------------- MODULE MCScanStore -----------------------------
(* A small instance of ScanStore for TLC.                                     *)
EXTENDS ScanStore

Kind(key, subject, state, sev, drift, group, status) ==
    [key |-> key, subject |-> subject, state |-> state, sev |-> sev, drift |-> drift,
     group |-> group, status |-> status]

\* A file that changes twice, the second time in a way maintenance mode covers, and
\* two web findings of one source.
MCFinding ==
    [key |-> Kind("k1", "FILE-001 file", TRUE, 4, FALSE, "none", ""),
     again |-> Kind("k2", "FILE-001 file", TRUE, 3, TRUE, "none", ""),
     probe |-> Kind("k4", "WEB-001 source", FALSE, 3, FALSE, "source", "blocked"),
     burst |-> Kind("k5", "WEB-002 source", FALSE, 3, FALSE, "source", "")]
MCSituations == {{"key"}, {"again"}, {"probe", "burst"}}
MCLegacy == {{}}
MCMinSeverity == [c \in {"telegram", "email"} |-> IF c = "telegram" THEN 1 ELSE 4]
=============================================================================
