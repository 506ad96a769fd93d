----------------------------- MODULE Supervisor -----------------------------
(***************************************************************************)
(* One worker process per run and the threads around it: the shared        *)
(* lifecycle in runtime/src/backends/process.rs and the part of the native *)
(* and libkrun backends that publishes a run and retires it.  A run has a  *)
(* supervisor thread, a reaper thread that waits for the leader's exit and *)
(* alone reaps it, and a thread that forwards a cancellation.  Reaper and  *)
(* signallers share the lock on ProcessState.                              *)
(*                                                                         *)
(* A leader killed inside fork() completes the fork before it dies, so the *)
(* first sweep of the group misses that child.  Descendants do not fork.   *)
(***************************************************************************)
EXTENDS Naturals, Sequences

CONSTANTS Runs

VARIABLES w,         \* each run's worker and threads
          children,  \* the backend's published runs
          completed, \* completion markers poll takes
          finished   \* the result each supervisor sent to its canceller

backend == <<w, children, completed, finished>>

Leaders == {"none", "up", "forking", "killed", "zombie", "reaped"}
Stages == {"none", "entry", "select", "kill", "await", "drain", "clean", "retire",
           "notify", "done"}
Results == {"none", "ok", "err"}

Fresh == [leader |-> "none",   \* the worker process
          ready  |-> "no",     \* what it said at startup
          kids   |-> FALSE,    \* descendants alive in its group
          exit   |-> "none",
          tree   |-> FALSE,    \* the run's ephemeral tree exists
          slot   |-> "none",   \* ProcessState
          reaper |-> FALSE,    \* the reaper is waiting
          asked  |-> "open",   \* the cancel channel: open, sent, forwarded
          evs    |-> <<>>,     \* the supervisor's event channel
          sup    |-> "none",   \* the supervisor's step
          result |-> "none",
          stray  |-> FALSE]    \* a signal was sent to a pid already given back

BackendInit ==
  /\ w = [r \in Runs |-> Fresh]
  /\ children = {}
  /\ completed = [r \in Runs |-> "none"]
  /\ finished = [r \in Runs |-> "none"]

Put(r, x) == w' = [w EXCEPT ![r] = x]
Same == UNCHANGED <<children, completed, finished>>

\* kill(-pid, SIGKILL): everything in the group, but not what is still being forked.
Sweep(x) ==
  [x EXCEPT !.kids = FALSE,
            !.leader = CASE @ = "up" -> "zombie" [] @ = "forking" -> "killed" [] OTHER -> @,
            !.exit = IF x.leader \in {"up", "forking"} THEN "bad" ELSE @,
            !.stray = @ \/ x.leader = "reaped"]

-----------------------------------------------------------------------------
(* The worker.                                                             *)

\* It reports readiness, or that it could not start, and then proceeds.
Report(r, what) ==
  /\ w[r].leader = "up"
  /\ w[r].ready = "no"
  /\ Put(r, [w[r] EXCEPT !.ready = what])
  /\ Same

Fork(r) ==
  /\ w[r].leader = "up"
  /\ w[r].ready = "yes"
  /\ ~w[r].kids
  /\ Put(r, [w[r] EXCEPT !.leader = "forking"])
  /\ Same

ForkDone(r) ==
  /\ w[r].leader \in {"forking", "killed"}
  /\ Put(r, [w[r] EXCEPT !.kids = TRUE,
                         !.leader = IF @ = "killed" THEN "zombie" ELSE "up"])
  /\ Same

Exit(r, code) ==
  /\ w[r].leader = "up"
  /\ Put(r, [w[r] EXCEPT !.leader = "zombie", !.exit = code])
  /\ Same

-----------------------------------------------------------------------------
(* The reaper and the thread that forwards a cancellation.                 *)

LockFree(r) == w[r].sup # "await"

\* await_exit_and_reap: the exit is awaited outside the lock; then, under it, the
\* group is killed and the leader reaped.
Reap(r) ==
  /\ w[r].reaper
  /\ w[r].leader = "zombie"
  /\ LockFree(r)
  /\ Put(r, [Sweep(w[r]) EXCEPT !.leader = "reaped", !.slot = "Reaped",
                                !.reaper = FALSE, !.evs = Append(@, "Exited")])
  /\ Same

ForwardCancel(r) ==
  /\ w[r].asked = "sent"
  /\ Put(r, [w[r] EXCEPT !.asked = "forwarded", !.evs = Append(@, "Cancelled")])
  /\ Same

-----------------------------------------------------------------------------
(* supervise_worker.                                                       *)

\* A deadline already passed is not waited for.
Enter(r) ==
  /\ w[r].sup = "entry"
  /\ \/ Put(r, [w[r] EXCEPT !.sup = "select"])
     \/ Put(r, [w[r] EXCEPT !.sup = "kill", !.result = "err"])
  /\ Same

Take(r) ==
  /\ w[r].sup = "select"
  /\ w[r].evs # <<>>
  /\ Put(r, [w[r] EXCEPT
               !.evs = Tail(@),
               !.sup = IF Head(w[r].evs) = "Cancelled" THEN "kill" ELSE "clean",
               !.result = IF Head(w[r].evs) = "Cancelled" \/ w[r].exit = "ok"
                          THEN "ok" ELSE "err"])
  /\ Same

Deadline(r) ==
  /\ w[r].sup = "select"
  /\ w[r].evs = <<>>
  /\ Put(r, [w[r] EXCEPT !.sup = "kill", !.result = "err"])
  /\ Same

\* Mutant: the state is not looked at before the signal.
TerminateAnyway(r) ==
  /\ w[r].sup = "kill"
  /\ Put(r, [Sweep(w[r]) EXCEPT !.sup = IF w[r].slot = "Live" THEN "await" ELSE "drain"])
  /\ Same

\* Mutant: the reaper waits for the exit with the lock held, so the signal waits too.
TerminateBehind(r) ==
  /\ w[r].sup = "kill"
  /\ ~w[r].reaper
  /\ Put(r, [w[r] EXCEPT !.sup = "drain"])
  /\ Same

\* TerminationSignal::terminate takes the lock: nothing is sent once reaped.
Terminate(r) ==
  /\ w[r].sup = "kill"
  /\ Put(r, IF w[r].slot = "Live" THEN [Sweep(w[r]) EXCEPT !.sup = "await"]
                                  ELSE [w[r] EXCEPT !.sup = "drain"])
  /\ Same

\* Mutant: one sweep is thought enough.
SweepOnce(r) ==
  /\ w[r].sup = "await"
  /\ Put(r, [w[r] EXCEPT !.sup = "drain"])
  /\ Same

\* terminate_process_group waits for the leader to die, then sweeps again.
SweepAgain(r) ==
  /\ w[r].sup = "await"
  /\ w[r].leader = "zombie"
  /\ Put(r, [Sweep(w[r]) EXCEPT !.sup = "drain"])
  /\ Same

\* One more event is awaited: the exit, or a cancellation that came first.
Drain(r) ==
  /\ w[r].sup = "drain"
  /\ w[r].evs # <<>>
  /\ Put(r, [w[r] EXCEPT !.evs = Tail(@), !.sup = "clean"])
  /\ Same

\* cleanup_tempdir and the cgroup's removal; what fails there is an error too.
CleanUp(r) ==
  /\ w[r].sup = "clean"
  /\ \/ Put(r, [w[r] EXCEPT !.tree = FALSE, !.sup = "retire"])
     \/ Put(r, [w[r] EXCEPT !.result = "err", !.sup = "retire"])
  /\ Same

\* The run is retired and its completion published under one lock.
Retire(r) ==
  /\ w[r].sup = "retire"
  /\ children' = children \ {r}
  /\ completed' = [completed EXCEPT ![r] = w[r].result]
  /\ Put(r, [w[r] EXCEPT !.sup = "notify"])
  /\ UNCHANGED finished

Notify(r) ==
  /\ w[r].sup = "notify"
  /\ finished' = [finished EXCEPT ![r] = w[r].result]
  /\ Put(r, [w[r] EXCEPT !.sup = "done"])
  /\ UNCHANGED <<children, completed>>

-----------------------------------------------------------------------------
(* Backend::start, as its caller runs it, and Backend::cancel.             *)

Spawn(r) ==
  /\ Put(r, [Fresh EXCEPT !.leader = "up", !.tree = TRUE])
  /\ Same

\* Readiness checked, the deadline computed: the run is published and supervised.
Publish(r) ==
  /\ w[r].ready = "yes"
  /\ Put(r, [w[r] EXCEPT !.slot = "Live", !.reaper = TRUE, !.sup = "entry"])
  /\ children' = children \cup {r}
  /\ UNCHANGED <<completed, finished>>

\* abort_failed_start: sweep, wait, sweep, reap, and remove the tree.
AbortSweep(r) == Put(r, Sweep(w[r])) /\ Same

AbortReap(r) ==
  /\ w[r].leader = "zombie"
  /\ \E left \in BOOLEAN : Put(r, [Fresh EXCEPT !.leader = "reaped", !.tree = left])
  /\ Same

\* A worker that reported its failure is waited for, and only then its tree removed.
AwaitFailed(r) ==
  /\ w[r].ready = "failed"
  /\ w[r].leader = "zombie"
  /\ \E left \in BOOLEAN :
       Put(r, [Fresh EXCEPT !.leader = "reaped", !.kids = w[r].kids, !.tree = left])
  /\ Same

\* cancel takes the run's control out of the children and sends.
SendCancel(r) ==
  /\ children' = children \ {r}
  /\ Put(r, [w[r] EXCEPT !.asked = "sent"])
  /\ UNCHANGED <<completed, finished>>

Supervise(r) ==
  \/ Reap(r) \/ ForwardCancel(r) \/ Enter(r) \/ Take(r) \/ Deadline(r)
  \/ Terminate(r) \/ SweepAgain(r) \/ Drain(r) \/ CleanUp(r) \/ Retire(r) \/ Notify(r)

Worker(r) ==
  \/ \E what \in {"yes", "failed"} : Report(r, what)
  \/ Fork(r) \/ ForkDone(r)
  \/ \E code \in {"ok", "bad"} : Exit(r, code)

-----------------------------------------------------------------------------

BackendTypeOK ==
  /\ \A r \in Runs : /\ w[r].leader \in Leaders
                     /\ w[r].sup \in Stages
                     /\ w[r].result \in Results
                     /\ Len(w[r].evs) <= 2
  /\ children \subseteq Runs
  /\ completed \in [Runs -> Results]
  /\ finished \in [Runs -> Results]

\* Nothing of the run executes any more.
Stopped(r) == w[r].leader \in {"zombie", "reaped"} /\ ~w[r].kids

\* "Kill the group, then reap": no signal goes to a pid after it was reaped, when a
\* deadline or a cancellation races the worker's own exit.
NoStraySignal == \A r \in Runs : ~w[r].stray

\* supervise_worker and abort_failed_start: a run's ephemeral tree is removed only once
\* the leader and all it forked are dead, on every terminal path.
TreeOutlivesGroup ==
  \A r \in Runs : (w[r].leader # "none" /\ ~w[r].tree) => Stopped(r)

=============================================================================
