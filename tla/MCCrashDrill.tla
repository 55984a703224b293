---------------------------- MODULE MCCrashDrill ----------------------------
(* The instance of CrashDrill: two cases, each with a thread of two runs.  *)
EXTENDS CrashDrill

DrillRuns == 1 .. 4
DrillThreads == 1 .. 2
DrillThreadOf == [r \in DrillRuns |-> (r + 1) \div 2]
=============================================================================
