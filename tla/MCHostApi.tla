------------------------------- MODULE MCHostApi -------------------------------
EXTENDS HostApi

\* The programs set NR_TASKLETS, a refused file does not.
MCTasklets == [f \in Programs \cup Refused |-> IF f \in Programs THEN 2 ELSE 1]

\* The whole set, as every host program of the repository loads and launches.
MCProgramViews == {Calls!Whole}

\* A run flips the value; with too few tasklets nothing is computed.
MCRun(v, n) == IF n = 1 THEN v ELSE 1 - v

=============================================================================
