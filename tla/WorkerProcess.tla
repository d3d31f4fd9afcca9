---------------------------- MODULE WorkerProcess ----------------------------
(* A worker's work and its life: the probes it dispatches while users edit   *)
(* checks (ProbeDispatch), and its start and stop (WorkerLifecycle), to      *)
(* which jobs and runs of schedulers are flags.  The two share no state, so  *)
(* a behaviour is one of them.                                               *)
EXTENDS ProbeDispatch, WorkerLifecycle

VARIABLE side      \* which of the two

processVars == <<side, vars, lifecycleVars>>

OfDispatch(A) == side = "dispatch" /\ A /\ UNCHANGED <<side, lifecycleVars>>
OfLifecycle(A) == side = "lifecycle" /\ A /\ UNCHANGED <<side, vars>>

ProcessInit == side \in {"dispatch", "lifecycle"} /\ Init /\ LifecycleInit

ProcessNext == OfDispatch(Next) \/ OfLifecycle(LifecycleNext)

\* Time passes, schedulers run at an interval, and workers take and finish jobs.
DispatchFairness ==
    /\ \A c \in Checks : WF_processVars(OfDispatch(BecomesDue(c)))
    /\ \A s \in Schedulers :
          /\ WF_processVars(OfDispatch(Read(s)))
          /\ WF_processVars(OfDispatch(\E x \in plan[s] : Add(s, x)))
    /\ \A w \in Workers : WF_processVars(OfDispatch(Work(w)))

\* Timers fire, files are written, and what was awaited goes on.  No job or
\* run need ever end, and nothing need ever recover.
LifecycleFairness ==
    /\ WF_processVars(OfLifecycle(Beats)) /\ WF_processVars(OfLifecycle(Probes))
    /\ WF_processVars(OfLifecycle(Rewrites)) /\ WF_processVars(OfLifecycle(Removes))
    /\ WF_processVars(OfLifecycle(AwaitsHeartbeat)) /\ WF_processVars(OfLifecycle(UnlinksMarker))
    /\ WF_processVars(OfLifecycle(DeadlinePasses)) /\ WF_processVars(OfLifecycle(ShutdownStep))

ProcessSpec == ProcessInit /\ [][ProcessNext]_processVars /\ DispatchFairness /\ LifecycleFairness

-----------------------------------------------------------------------------
\* The type invariant of both.
ProcessTypeOK == side \in {"dispatch", "lifecycle"} /\ TypeOK /\ LifecycleTypeOK

\* A shutdown takes nothing away from work it waits for, and leaves nothing.
ShutdownInOrder == ProcessTypeOK /\ WorkKeepsItsConnections /\ NothingLeftOpen

\* Shutdowns end, and what is wrong with a worker, or right again, shows.
NothingHangs == ShutdownEnds /\ HealthShows
=============================================================================
