---------------------------- MODULE MCFileLogger ----------------------------
(* The small instance TLC checks: threads and worker, where time is left   *)
(* out, or the two clocks of the worker, where the threads are.            *)
EXTENDS FileLogger, FlushTimer

\* Well past every bound to be shown.
MCMaxTime == (BufferRecords + MaxFaults + 2) * 2 * Interval

VARIABLE view  \* "threads" or "clocks"

MCInit == view \in {"threads", "clocks"} /\ Init /\ TimerInit

MCNext ==
    /\ UNCHANGED view
    /\ \/ view = "threads" /\ Next /\ UNCHANGED timerVars
       \/ view = "clocks" /\ TimerNext /\ UNCHANGED vars

\* The fairness of FairSpec; the clocks are about safety only.
MCFairSpec ==
    /\ MCInit
    /\ [][MCNext]_<<view, vars, timerVars>>
    /\ WF_vars(WorkerStep)
    /\ \A h \in Handle : WF_vars(Continue(h))
=============================================================================
