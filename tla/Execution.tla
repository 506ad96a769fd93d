----------------------------- MODULE Execution ------------------------------
(***************************************************************************)
(* The execution service (runtime/src/service.rs) over a backend whose     *)
(* workers are supervised as in Supervisor.  Every transport calls the     *)
(* same service from its own thread; a call reads the state, leaves the    *)
(* lock, talks to the backend and comes back to write, so calls on one run *)
(* interleave there.                                                       *)
(***************************************************************************)
EXTENDS Supervisor, FiniteSets

CONSTANTS Clients,  \* threads calling the service
          Keys,     \* replay keys
          None

Active == {"Running"}
Terminal == {"Cancelled", "Succeeded", "Failed"}
States == Active \cup Terminal \cup {"Cleaned"}

ASSUME ExecutionAssumption == None \notin Runs \cup Keys \cup States

VARIABLES runs,        \* RunRecord::state of each run the service knows
          replay,      \* replay[k]: the run a replay key led to
          starting,    \* starting[r]: the key reserved while the backend starts r
          receipts,    \* runs with a receipt context
          provisioned,
          events,      \* each run's event log
          call,        \* what each client's call is doing
          shutdown,    \* dropping the backend: "no", the runs awaited, "done"
          workers      \* workers[k]: runs ever started under a key

service == <<runs, replay, starting, receipts, provisioned, events, workers>>
vars == <<backend, service, call, shutdown>>

Idle == [pc |-> "idle"]

Init ==
  /\ BackendInit
  /\ runs = [r \in Runs |-> None]
  /\ replay = [k \in Keys |-> None]
  /\ starting = [r \in Runs |-> None]
  /\ receipts = {}
  /\ provisioned = FALSE
  /\ events = [r \in Runs |-> <<>>]
  /\ call = [c \in Clients |-> Idle]
  /\ shutdown = "no"
  /\ workers = [k \in Keys |-> {}]

Do(c, x) == call' = [call EXCEPT ![c] = x]
Return(c) == Do(c, Idle)
At(c, pc) == call[c].pc = pc /\ shutdown = "no"
Goto(c, pc) == Do(c, [call[c] EXCEPT !.pc = pc])

-----------------------------------------------------------------------------
(* provision and start_authorized.                                         *)

Provision ==
  /\ shutdown = "no"
  /\ ~provisioned
  /\ provisioned' = TRUE
  /\ UNCHANGED <<backend, runs, replay, starting, receipts, events, workers, call,
                 shutdown>>

\* Mutant: a replay key being started is not looked for.
ReserveUnseen(c, r, k) ==
  /\ At(c, "idle")
  /\ provisioned
  /\ replay[k] = None
  /\ runs[r] = None /\ starting[r] = None
  /\ starting' = [starting EXCEPT ![r] = k]
  /\ Do(c, [pc |-> "spawn", run |-> r, key |-> k])
  /\ UNCHANGED <<backend, runs, replay, receipts, provisioned, events, workers,
                 shutdown>>

\* start, first critical section: a known key answers with its run, a key or a run
\* being started is a conflict, otherwise both are reserved.
Reserve(c, r, k) ==
  /\ At(c, "idle")
  /\ provisioned
  /\ replay[k] = None
  /\ \A q \in Runs : starting[q] # k
  /\ runs[r] = None /\ starting[r] = None
  /\ starting' = [starting EXCEPT ![r] = k]
  /\ Do(c, [pc |-> "spawn", run |-> r, key |-> k])
  /\ UNCHANGED <<backend, runs, replay, receipts, provisioned, events, workers,
                 shutdown>>

\* The reservation is given back when the backend could not start the run.
Unreserve(c) ==
  /\ starting' = [starting EXCEPT ![call[c].run] = None]
  /\ Return(c)
  /\ UNCHANGED <<runs, replay, receipts, provisioned, events, workers>>

\* Backend::start up to the spawned worker; nothing is left behind if that fails.
BackendSpawn(c) ==
  /\ At(c, "spawn")
  /\ \/ Spawn(call[c].run) /\ Goto(c, "ready") /\ UNCHANGED service
     \/ UNCHANGED backend /\ Unreserve(c)
  /\ UNCHANGED shutdown

\* The worker is ready and what it attests is what was granted.
BackendReady(c) ==
  /\ At(c, "ready")
  /\ Publish(call[c].run)
  /\ Goto(c, "commit")
  /\ UNCHANGED <<service, shutdown>>

\* Anything else aborts: no readiness in time, an event of another run, drift.
BackendAbort(c) ==
  /\ At(c, "ready")
  /\ w[call[c].run].ready # "failed"
  /\ AbortSweep(call[c].run)
  /\ Goto(c, "abort")
  /\ UNCHANGED <<service, shutdown>>

BackendAborted(c) ==
  /\ \/ At(c, "abort") /\ AbortReap(call[c].run)
     \/ At(c, "ready") /\ AwaitFailed(call[c].run)
  /\ Unreserve(c)
  /\ UNCHANGED shutdown

\* start, second critical section.
Commit(c) ==
  /\ At(c, "commit")
  /\ LET r == call[c].run
         k == call[c].key
     IN  /\ starting' = [starting EXCEPT ![r] = None]
         /\ replay' = [replay EXCEPT ![k] = r]
         /\ runs' = [runs EXCEPT ![r] = "Running"]
         /\ events' = [events EXCEPT ![r] = <<"Accepted", "Provisioning", "Ready", "Running">>]
         /\ workers' = [workers EXCEPT ![k] = @ \cup {r}]
  /\ Goto(c, "receipt")
  /\ UNCHANGED <<backend, receipts, provisioned, shutdown>>

\* start_authorized stores the receipt context in a critical section of its own.
Receipt(c) ==
  /\ At(c, "receipt")
  /\ receipts' = receipts \cup {call[c].run}
  /\ Return(c)
  /\ UNCHANGED <<backend, runs, replay, starting, provisioned, events, workers, shutdown>>

-----------------------------------------------------------------------------
(* status, inspect, collect, cancel and cleanup all refresh the run first. *)

\* "read" stands for status, inspect and collect, which change nothing more.
Ops == {"read", "cancel", "cleanup"}

\* refresh_run: only an active run is polled.
Call(c, op, r) ==
  /\ At(c, "idle")
  /\ runs[r] # None
  /\ Do(c, [pc |-> IF runs[r] \in Active THEN "poll" ELSE "look", op |-> op, run |-> r])
  /\ UNCHANGED <<backend, service, shutdown>>

\* Backend::poll takes the marker.
Poll(c) ==
  /\ At(c, "poll")
  /\ LET r == call[c].run IN
       /\ completed' = [completed EXCEPT ![r] = "none"]
       /\ Do(c, IF completed[r] = "none"
                THEN [call[c] EXCEPT !.pc = "look"]
                ELSE [pc |-> "project", op |-> call[c].op, run |-> r,
                      outcome |-> completed[r]])
  /\ UNCHANGED <<w, children, finished, service, shutdown>>

\* The completion is written if the run is still active.
Project(c) ==
  /\ At(c, "project")
  /\ LET r == call[c].run
         s == IF call[c].outcome = "ok" THEN "Succeeded" ELSE "Failed"
     IN  /\ IF runs[r] \in Active
            THEN /\ runs' = [runs EXCEPT ![r] = s]
                 /\ events' = [events EXCEPT ![r] = Append(@, s)]
            ELSE UNCHANGED <<runs, events>>
         /\ Do(c, [pc |-> "look", op |-> call[c].op, run |-> r])
  /\ UNCHANGED <<backend, replay, starting, receipts, provisioned, workers, shutdown>>

Over(op, s) ==
  \/ op = "read"
  \/ op = "cancel" /\ s \in Terminal
  \/ op = "cleanup" /\ s = "Cleaned"

\* The call reads the record: a read answers, cancel has nothing to do for
\* a terminal run, cleanup for a cleaned one.
Look(c) ==
  /\ At(c, "look")
  /\ IF Over(call[c].op, runs[call[c].run]) THEN Return(c) ELSE Goto(c, "release")
  /\ UNCHANGED <<backend, service, shutdown>>

\* Backend::cancel: a run that is not among the children is not waited for, which is
\* an error for cancel and good enough for cleanup.
Release(c) ==
  /\ At(c, "release")
  /\ LET r == call[c].run IN
       \/ r \in children /\ SendCancel(r) /\ Goto(c, "wait")
       \/ /\ r \notin children
          /\ IF call[c].op = "cleanup" THEN Goto(c, "write") ELSE Return(c)
          /\ UNCHANGED backend
  /\ UNCHANGED <<service, shutdown>>

\* Mutant: the supervisor's error is not passed on.
WaitIgnoring(c) ==
  /\ At(c, "wait")
  /\ finished[call[c].run] # "none"
  /\ Goto(c, "forget")
  /\ UNCHANGED <<backend, service, shutdown>>

\* Mutant: the cancellation is sent and not waited for.
WaitNot(c) ==
  /\ At(c, "wait")
  /\ Goto(c, "forget")
  /\ UNCHANGED <<backend, service, shutdown>>

\* ... otherwise it waits for the supervisor, whose error it returns.
Wait(c) ==
  /\ At(c, "wait")
  /\ finished[call[c].run] # "none"
  /\ IF finished[call[c].run] = "err" THEN Return(c) ELSE Goto(c, "forget")
  /\ UNCHANGED <<backend, service, shutdown>>

Forget(c) ==
  /\ At(c, "forget")
  /\ completed' = [completed EXCEPT ![call[c].run] = "none"]
  /\ Goto(c, "write")
  /\ UNCHANGED <<w, children, finished, service, shutdown>>

\* What cancel and cleanup leave in the event log; the last entry is the new state.
Entries(op) == IF op = "cancel" THEN <<"Cancelled">> ELSE <<"Cleaning", "Cleaned">>

\* The last critical section of cancel and of cleanup looks at nothing.
Write(c) ==
  /\ At(c, "write")
  /\ LET r == call[c].run
         log == Entries(call[c].op)
     IN  /\ runs' = [runs EXCEPT ![r] = log[Len(log)]]
         /\ events' = [events EXCEPT ![r] = @ \o log]
  /\ Return(c)
  /\ UNCHANGED <<backend, replay, starting, receipts, provisioned, workers, shutdown>>

-----------------------------------------------------------------------------
(* Dropping the backend: no call is under way.                             *)

DropBackend ==
  /\ shutdown = "no"
  /\ provisioned
  /\ \A c \in Clients : call[c] = Idle
  /\ shutdown' = "waiting"
  /\ children' = {}
  /\ w' = [r \in Runs |-> IF r \in children THEN [w[r] EXCEPT !.asked = "sent"] ELSE w[r]]
  /\ UNCHANGED <<completed, finished, service, call>>

\* Mutant: the cancellations are sent and not waited for.
DroppedEarly ==
  /\ shutdown = "waiting"
  /\ shutdown' = "done"
  /\ UNCHANGED <<backend, service, call>>

\* Every drained control is waited for.
Dropped ==
  /\ shutdown = "waiting"
  /\ \A r \in Runs : w[r].asked # "open" => finished[r] # "none"
  /\ shutdown' = "done"
  /\ UNCHANGED <<backend, service, call>>

Serve(c) ==
  \/ BackendSpawn(c) \/ BackendReady(c) \/ BackendAbort(c) \/ BackendAborted(c)
  \/ Commit(c) \/ Receipt(c) \/ Poll(c) \/ Project(c) \/ Look(c) \/ Release(c)
  \/ Wait(c) \/ Forget(c) \/ Write(c)

Rest == UNCHANGED <<service, call, shutdown>>

Next ==
  \/ Provision \/ DropBackend \/ Dropped
  \/ \E c \in Clients, r \in Runs, k \in Keys : Reserve(c, r, k)
  \/ \E c \in Clients, op \in Ops, r \in Runs : Call(c, op, r)
  \/ \E c \in Clients : Serve(c)
  \/ \E r \in Runs : (Supervise(r) \/ Worker(r)) /\ Rest

\* Threads run; a fork ends; a killed process dies; the wall clock reaches the
\* deadline.  A worker need not exit, and nobody has to call.
Fairness ==
  /\ \A c \in Clients : WF_vars(Serve(c))
  /\ \A r \in Runs : WF_vars(Supervise(r) /\ Rest) /\ WF_vars(ForkDone(r) /\ Rest)
  /\ WF_vars(Dropped)

Spec == Init /\ [][Next]_vars /\ Fairness

-----------------------------------------------------------------------------

TypeOK ==
  /\ BackendTypeOK
  /\ runs \in [Runs -> States \cup {None}]
  /\ replay \in [Keys -> Runs \cup {None}]
  /\ starting \in [Runs -> Keys \cup {None}]
  /\ receipts \subseteq {r \in Runs : runs[r] # None}
  /\ provisioned \in BOOLEAN
  /\ shutdown \in {"no", "waiting", "done"}

\* Somebody is inside Backend::cancel for the run, or about to write what it returned.
Cancelling(r) ==
  \E c \in Clients : call[c].pc \in {"wait", "forget"} /\ call[c].run = r

\* The service records a run as over only when nothing of it executes, except that a
\* cleanup meeting another call's cancellation does not wait for it.
StoppedUnlessCancelling ==
  \A r \in Runs : runs[r] \in Terminal \cup {"Cleaned"} => Stopped(r) \/ Cancelling(r)

\* service.rs reserves run and key before it starts the worker: a replay key starts at
\* most one run, whoever retries it and when.
OneRunPerKey == \A k \in Keys : Cardinality(workers[k]) <= 1

\* refresh_run, cancel and cleanup: a recorded failure is never turned into a success
\* or a cancellation by a call that was already under way.
FailureStays ==
  [][\A r \in Runs : runs[r] = "Failed" => runs'[r] \in {"Failed", "Cleaned"}]_vars

\* The deadline, the reaper and the group kill: a supervised run comes to its end, and
\* whoever cancels it gets an answer.
EveryRunEnds ==
  /\ \A r \in Runs : w[r].sup = "entry" ~> w[r].sup = "done" /\ Stopped(r)
  /\ \A c \in Clients : call[c].pc = "wait" ~> call[c].pc # "wait"

\* Drop waits for every supervisor it asked: no worker outlives its backend.
NothingOutlivesBackend ==
  shutdown = "done" => \A r \in Runs : w[r].leader # "none" => Stopped(r)

=============================================================================
