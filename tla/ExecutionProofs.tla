-------------------------- MODULE ExecutionProofs ---------------------------
(***************************************************************************)
(* Safety of the execution service and its supervisors, for any number of  *)
(* runs, replay keys and calling threads.  WInv is what one run's record   *)
(* keeps to, whoever moves it: every step of its worker, its reaper, its   *)
(* forwarding thread and its supervisor keeps it.  Service ties the runs'  *)
(* records to the calls, the published runs and the markers: it is kept by *)
(* the steps of a run's threads, by the steps of a call on a known run, by *)
(* those that start a run and by those that drop the backend.              *)
(***************************************************************************)
EXTENDS Execution, FiniteSetTheorems, TLAPS

Outcomes == {"ok", "err"}
Record == [leader : Leaders, ready : {"no", "yes", "failed"}, kids : BOOLEAN,
           exit : {"none", "ok", "bad"}, tree : BOOLEAN, slot : {"none", "Live", "Reaped"},
           reaper : BOOLEAN, asked : {"open", "sent", "forwarded"},
           evs : Seq({"Exited", "Cancelled"}), sup : Stages, result : Results,
           stray : BOOLEAN]

Dead(x) == x.leader \in {"zombie", "reaped"} /\ ~x.kids
Reported == {"notify", "done"}

\* A run's record: who may still signal the group, and what the supervisor's step says
\* about the processes.
WInv(x) ==
  /\ x \in Record
  /\ ~x.stray
  /\ x.slot = "Live" => x.leader \in {"up", "forking", "killed", "zombie"}
  /\ x.slot = "Reaped" => x.leader = "reaped"
  /\ x.slot = "none" => x.sup = "none" /\ x.asked = "open"
  /\ x.slot # "none" => x.sup # "none" /\ x.ready = "yes"
  /\ x.reaper => x.slot = "Live"
  /\ x.leader \in {"none", "reaped"} => ~x.kids
  /\ x.ready # "yes" => ~x.kids /\ x.leader \notin {"forking", "killed"}
  /\ \A i \in DOMAIN x.evs : x.evs[i] = "Exited" => x.leader = "reaped"
  /\ x.sup = "await" => x.slot = "Live" /\ x.leader \in {"killed", "zombie"}
  /\ x.sup \in {"drain", "clean", "retire", "notify", "done"} => Dead(x)
  /\ x.sup \in {"kill", "await", "drain", "clean", "retire", "notify", "done"} =>
       x.result \in Outcomes
  /\ (x.leader # "none" /\ ~x.tree) => Dead(x)
-----------------------------------------------------------------------------

\* What a step of the worker or of its threads leaves alone in the run's record.
Moves(x, y) ==
  /\ WInv(y)
  /\ y.slot = "none" <=> x.slot = "none"
  /\ y.asked = "open" <=> x.asked = "open"
  /\ x.sup \in Reported <=> y.sup \in Reported
  /\ x.sup \in Reported => y.sup = x.sup /\ y.result = x.result
  /\ x.slot = "none" => (x.leader \in {"none", "reaped"} <=> y.leader \in {"none", "reaped"})
  /\ Dead(x) => Dead(y)

\* Signalling the group of a leader not yet reaped.
LEMMA SweepKeeps ==
  ASSUME NEW x \in Record
  PROVE  /\ Sweep(x) \in Record
         /\ ~Sweep(x).kids
         /\ Sweep(x).leader = (CASE x.leader = "up" -> "zombie"
                                 [] x.leader = "forking" -> "killed"
                                 [] OTHER -> x.leader)
         /\ Sweep(x).stray = (x.stray \/ x.leader = "reaped")
         /\ Sweep(x).slot = x.slot /\ Sweep(x).sup = x.sup /\ Sweep(x).asked = x.asked
         /\ Sweep(x).reaper = x.reaper /\ Sweep(x).ready = x.ready
         /\ Sweep(x).evs = x.evs /\ Sweep(x).result = x.result /\ Sweep(x).tree = x.tree
  BY ZenonT(40) DEF Sweep, Record, Leaders

\* Only the run's own record changes, and it changes as Moves says.
Step(r) ==
  /\ w' = [w EXCEPT ![r] = w'[r]]
  /\ Moves(w[r], w'[r])

\* The worker process.
LEMMA WorkerMoves ==
  ASSUME NEW r \in Runs, w \in [Runs -> Record], WInv(w[r]), Worker(r)
  PROVE  Step(r) /\ Same
<1> DEFINE x == w[r]
<1> USE DEF Step, Moves, Put, Record, WInv, Dead, Reported, Outcomes, Stages, Leaders, Results
<1>1. ASSUME NEW what \in {"yes", "failed"}, Report(r, what) PROVE Step(r) /\ Same
  BY ZenonT(40), <1>1 DEF Report
<1>2. CASE Fork(r)
  BY ZenonT(40), <1>2 DEF Fork
<1>3. CASE ForkDone(r)
  <2>1. CASE x.leader = "forking"
    <3>1. w'[r] = [x EXCEPT !.kids = TRUE, !.leader = "up"]
      BY Zenon, <1>3, <2>1 DEF ForkDone
    <3>2. QED
      BY ZenonT(40), <1>3, <2>1, <3>1 DEF ForkDone
  <2>2. CASE x.leader = "killed"
    <3>1. w'[r] = [x EXCEPT !.kids = TRUE, !.leader = "zombie"]
      BY Zenon, <1>3, <2>2 DEF ForkDone
    <3>2. QED
      BY ZenonT(40), <1>3, <2>2, <3>1 DEF ForkDone
  <2>3. QED
    BY Zenon, <1>3, <2>1, <2>2 DEF ForkDone
<1>4. ASSUME NEW code \in {"ok", "bad"}, Exit(r, code) PROVE Step(r) /\ Same
  BY ZenonT(40), <1>4 DEF Exit
<1>5. QED
  BY Zenon, <1>1, <1>2, <1>3, <1>4 DEF Worker

\* The processes of the run and what is known of them are as they were.
Alike(x, y) ==
  /\ y.leader = x.leader /\ y.kids = x.kids /\ y.ready = x.ready
  /\ y.slot = x.slot /\ y.reaper = x.reaper /\ y.stray = x.stray

LEMMA AppendFacts ==
  ASSUME NEW S, NEW q \in Seq(S), NEW e \in S
  PROVE  /\ Append(q, e) \in Seq(S)
         /\ \A i \in DOMAIN Append(q, e) :
              (i \in DOMAIN q /\ Append(q, e)[i] = q[i]) \/ Append(q, e)[i] = e
  OBVIOUS

LEMMA TailFacts ==
  ASSUME NEW S, NEW q \in Seq(S), q # <<>>
  PROVE  /\ Tail(q) \in Seq(S)
         /\ Head(q) = q[1] /\ 1 \in DOMAIN q
         /\ \A i \in DOMAIN Tail(q) : i + 1 \in DOMAIN q /\ Tail(q)[i] = q[i + 1]
  OBVIOUS

LEMMA PutSets ==
  ASSUME NEW r \in Runs, w \in [Runs -> Record], NEW y, Put(r, y)
  PROVE  w'[r] = y /\ w' = [w EXCEPT ![r] = w'[r]]
  BY Zenon DEF Put

\* The reaper, the forwarding thread and the supervisor up to the cleanup.
LEMMA SupervisorMoves ==
  ASSUME NEW r \in Runs, w \in [Runs -> Record], WInv(w[r]),
         \/ Reap(r) \/ ForwardCancel(r) \/ Enter(r) \/ Take(r) \/ Deadline(r)
         \/ Terminate(r) \/ SweepAgain(r) \/ Drain(r) \/ CleanUp(r)
  PROVE  Step(r) /\ Same
<1> DEFINE x == w[r]
           y == w'[r]
           s == Sweep(x)
<1>0. x \in Record
  BY Zenon
<1>1. CASE Reap(r)
  <2>1. /\ y = [s EXCEPT !.leader = "reaped", !.slot = "Reaped", !.reaper = FALSE,
                         !.evs = Append(@, "Exited")]
        /\ w' = [w EXCEPT ![r] = y] /\ Same
        /\ x.reaper /\ x.leader = "zombie" /\ x.sup # "await"
    BY Zenon, <1>1, PutSets DEF Reap, LockFree
  <2>2. Append(s.evs, "Exited") \in Seq({"Exited", "Cancelled"})
    BY Zenon, <1>0, SweepKeeps, AppendFacts DEF Record
  <2>3. /\ y \in Record /\ ~y.kids /\ y.leader = "reaped" /\ y.slot = "Reaped" /\ ~y.reaper
        /\ y.stray = s.stray /\ y.ready = x.ready /\ y.asked = x.asked
        /\ y.sup = x.sup /\ y.result = x.result /\ y.tree = x.tree
    <3>1. s \in Record
      BY Zenon, <1>0, SweepKeeps
    <3>2. /\ y \in Record /\ y.kids = s.kids /\ y.leader = "reaped" /\ y.slot = "Reaped"
          /\ ~y.reaper /\ y.stray = s.stray /\ y.ready = s.ready /\ y.asked = s.asked
          /\ y.sup = s.sup /\ y.result = s.result /\ y.tree = s.tree
      <4> HIDE DEF s, y
      <4> QED
        BY ZenonT(40), <2>1, <2>2, <3>1 DEF Record, Leaders
    <3>3. QED
      BY Zenon, <1>0, <3>2, SweepKeeps
  <2>4. ~s.stray
    BY ZenonT(40), <1>0, <2>1, SweepKeeps DEF WInv
  <2>5. WInv(y)
    BY Zenon, <2>1, <2>3, <2>4 DEF WInv, Dead, Outcomes
  <2>6. QED
    BY Zenon, <2>1, <2>3, <2>5 DEF WInv, Step, Moves, Dead, Reported
<1>2. CASE ForwardCancel(r)
  <2>1. /\ y = [x EXCEPT !.asked = "forwarded", !.evs = Append(@, "Cancelled")]
        /\ w' = [w EXCEPT ![r] = y] /\ Same
        /\ x.asked = "sent"
    BY Zenon, <1>2, PutSets DEF ForwardCancel
  <2>2. /\ y \in Record /\ Alike(x, y) /\ y.tree = x.tree /\ y.asked = "forwarded"
        /\ y.sup = x.sup /\ y.result = x.result
        /\ y.evs = Append(x.evs, "Cancelled")
    <3>1. x.evs \in Seq({"Exited", "Cancelled"})
      BY Zenon, <1>0 DEF Record
    <3>2. Append(x.evs, "Cancelled") \in Seq({"Exited", "Cancelled"})
      BY <3>1
    <3> HIDE DEF x, y
    <3> QED
      BY ZenonT(40), <1>0, <2>1, <3>2 DEF Alike, Record
  <2>5. \A i \in DOMAIN y.evs : y.evs[i] = "Exited" => i \in DOMAIN x.evs /\ x.evs[i] = "Exited"
    BY <1>0, <2>2, AppendFacts DEF Record
  <2>3. WInv(y)
    BY <2>1, <2>2, <2>5 DEF WInv, Dead, Alike, Outcomes
  <2>4. QED
    BY Zenon, <2>1, <2>2, <2>3 DEF Step, Moves, Dead, Alike, Reported
<1>3. CASE Enter(r)
  <2>0. x.sup = "entry"
    BY Zenon, <1>3 DEF Enter
  <2>1. ASSUME Put(r, [x EXCEPT !.sup = "select"]), Same PROVE Step(r) /\ Same
    <3>1. y = [x EXCEPT !.sup = "select"] /\ w' = [w EXCEPT ![r] = y]
      BY Zenon, <2>1, PutSets
    <3>2. y \in Record /\ Alike(x, y) /\ y.tree = x.tree /\ y.asked = x.asked /\ y.evs = x.evs
          /\ y.sup = "select" /\ y.result = x.result
      BY ZenonT(40), <1>0, <3>1 DEF Alike, Record, Stages, Results
    <3>3. WInv(y)
      BY ZenonT(60), <2>0, <3>1, <3>2 DEF WInv, Dead, Alike, Outcomes
    <3>4. QED
      BY Zenon, <2>0, <2>1, <3>1, <3>2, <3>3 DEF Step, Moves, Dead, Alike, Reported
  <2>2. ASSUME Put(r, [x EXCEPT !.sup = "kill", !.result = "err"]), Same PROVE Step(r) /\ Same
    <3>1. y = [x EXCEPT !.sup = "kill", !.result = "err"] /\ w' = [w EXCEPT ![r] = y]
      BY Zenon, <2>2, PutSets
    <3>2. y \in Record /\ Alike(x, y) /\ y.tree = x.tree /\ y.asked = x.asked /\ y.evs = x.evs
          /\ y.sup = "kill" /\ y.result = "err"
      BY ZenonT(40), <1>0, <3>1 DEF Alike, Record, Stages, Results
    <3>3. WInv(y)
      BY <2>0, <3>1, <3>2 DEF WInv, Dead, Alike, Outcomes
    <3>4. QED
      BY Zenon, <2>0, <2>2, <3>1, <3>2, <3>3 DEF Step, Moves, Dead, Alike, Reported
  <2>3. QED
    BY Zenon, <1>3, <2>1, <2>2 DEF Enter
<1>4. CASE Take(r)
  <2>1. PICK sup \in {"kill", "clean"}, result \in Outcomes :
          /\ y = [x EXCEPT !.evs = Tail(@), !.sup = sup, !.result = result]
          /\ sup = "clean" => Head(x.evs) # "Cancelled"
    BY ZenonT(40), <1>4, PutSets DEF Take, Outcomes
  <2>2. w' = [w EXCEPT ![r] = y] /\ Same /\ x.sup = "select" /\ x.evs # <<>>
    BY Zenon, <1>4, PutSets DEF Take
  <2>3. Tail(x.evs) \in Seq({"Exited", "Cancelled"})
    BY Zenon, <1>0, <2>2, TailFacts DEF Record
  <2>4. /\ y \in Record /\ Alike(x, y) /\ y.tree = x.tree /\ y.asked = x.asked
        /\ y.sup = sup /\ y.result = result /\ y.evs = Tail(x.evs)
    <3> HIDE DEF x, y
    <3> QED
      BY ZenonT(40), <1>0, <2>1, <2>3 DEF Alike, Record, Stages, Results, Outcomes
  <2>5. \A i \in DOMAIN y.evs : i + 1 \in DOMAIN x.evs /\ y.evs[i] = x.evs[i + 1]
    BY <1>0, <2>2, <2>4, TailFacts DEF Record
  <2>6. sup = "clean" => x.leader = "reaped"
    BY <1>0, <2>1, <2>2, TailFacts DEF Record, WInv
  <2>7. WInv(y)
    BY ZenonT(60), <2>2, <2>4, <2>5, <2>6 DEF WInv, Dead, Alike, Outcomes
  <2>8. QED
    BY Zenon, <2>2, <2>4, <2>7 DEF Step, Moves, Dead, Alike, Reported
<1>5. CASE Deadline(r)
  <2>1. /\ y = [x EXCEPT !.sup = "kill", !.result = "err"]
        /\ w' = [w EXCEPT ![r] = y] /\ Same
        /\ x.sup = "select"
    BY Zenon, <1>5, PutSets DEF Deadline
  <2>2. y \in Record /\ Alike(x, y) /\ y.tree = x.tree /\ y.asked = x.asked /\ y.evs = x.evs
        /\ y.sup = "kill" /\ y.result = "err"
    BY ZenonT(40), <1>0, <2>1 DEF Alike, Record, Stages, Results
  <2>3. WInv(y)
    BY <2>1, <2>2 DEF WInv, Dead, Alike, Outcomes
  <2>4. QED
    BY Zenon, <2>1, <2>2, <2>3 DEF Step, Moves, Dead, Alike, Reported
<1>6. CASE Terminate(r)
  <2>0. x.sup = "kill" /\ Same /\ w' = [w EXCEPT ![r] = y]
    BY Zenon, <1>6, PutSets DEF Terminate
  <2>1. CASE x.slot = "Live"
    <3>1. y = [s EXCEPT !.sup = "await"]
      BY Zenon, <1>6, <2>1, PutSets DEF Terminate
    <3>2. s \in Record /\ ~s.stray
      BY ZenonT(40), <1>0, <2>1, SweepKeeps DEF WInv
    <3>3. /\ y \in Record /\ Alike(s, y) /\ y.tree = s.tree /\ y.asked = s.asked
          /\ y.evs = s.evs /\ y.sup = "await" /\ y.result = s.result
      <4> HIDE DEF s, y
      <4> QED
        BY ZenonT(40), <3>1, <3>2 DEF Alike, Record, Stages
    <3>4. WInv(y)
      BY <1>0, <2>0, <2>1, <3>2, <3>3, SweepKeeps DEF WInv, Dead, Alike, Outcomes
    <3>5. QED
      BY <1>0, <2>0, <2>1, <3>2, <3>3, <3>4, SweepKeeps DEF WInv, Step, Moves, Dead, Alike, Reported
  <2>2. CASE x.slot # "Live"
    <3>1. y = [x EXCEPT !.sup = "drain"]
      BY Zenon, <1>6, <2>2, PutSets DEF Terminate
    <3>2. /\ y \in Record /\ Alike(x, y) /\ y.tree = x.tree /\ y.asked = x.asked
          /\ y.evs = x.evs /\ y.sup = "drain" /\ y.result = x.result
      BY ZenonT(60), <1>0, <3>1 DEF Alike, Record, Stages
    <3>3. x.slot = "Reaped"
      BY Zenon, <1>0, <2>0, <2>2 DEF WInv, Record
    <3>4. WInv(y)
      BY Zenon, <2>0, <3>2, <3>3 DEF WInv, Dead, Alike, Outcomes
    <3>5. QED
      BY Zenon, <2>0, <3>2, <3>4 DEF Step, Moves, Dead, Alike, Reported
  <2>3. QED
    BY Zenon, <2>1, <2>2
<1>7. CASE SweepAgain(r)
  <2>1. /\ y = [s EXCEPT !.sup = "drain"]
        /\ x.sup = "await" /\ x.leader = "zombie" /\ Same /\ w' = [w EXCEPT ![r] = y]
    BY Zenon, <1>7, PutSets DEF SweepAgain
  <2>2. s \in Record /\ ~s.stray
    BY ZenonT(40), <1>0, <2>1, SweepKeeps DEF WInv
  <2>3. /\ y \in Record /\ Alike(s, y) /\ y.tree = s.tree /\ y.asked = s.asked
        /\ y.evs = s.evs /\ y.sup = "drain" /\ y.result = s.result
    <3> HIDE DEF s, y
    <3> QED
      BY ZenonT(40), <2>1, <2>2 DEF Alike, Record, Stages
  <2>4. WInv(y)
    BY <1>0, <2>1, <2>2, <2>3, SweepKeeps DEF WInv, Dead, Alike, Outcomes
  <2>5. QED
    BY <1>0, <2>1, <2>2, <2>3, <2>4, SweepKeeps DEF WInv, Step, Moves, Dead, Alike, Reported
<1>8. CASE Drain(r)
  <2>1. /\ y = [x EXCEPT !.evs = Tail(@), !.sup = "clean"]
        /\ w' = [w EXCEPT ![r] = y] /\ Same
        /\ x.sup = "drain" /\ x.evs # <<>>
    BY Zenon, <1>8, PutSets DEF Drain
  <2>2. /\ y \in Record /\ Alike(x, y) /\ y.tree = x.tree /\ y.asked = x.asked
        /\ y.sup = "clean" /\ y.result = x.result
        /\ y.evs = Tail(x.evs)
    <3>1. Tail(x.evs) \in Seq({"Exited", "Cancelled"})
      BY Zenon, <1>0, <2>1, TailFacts DEF Record
    <3> HIDE DEF x, y
    <3> QED
      BY ZenonT(40), <1>0, <2>1, <3>1 DEF Alike, Record, Stages
  <2>5. \A i \in DOMAIN y.evs : i + 1 \in DOMAIN x.evs /\ y.evs[i] = x.evs[i + 1]
    BY <1>0, <2>1, <2>2, TailFacts DEF Record
  <2>3. WInv(y)
    BY <2>1, <2>2, <2>5 DEF WInv, Dead, Alike, Outcomes
  <2>4. QED
    BY Zenon, <2>1, <2>2, <2>3 DEF Step, Moves, Dead, Alike, Reported
<1>9. CASE CleanUp(r)
  <2>0. x.sup = "clean"
    BY Zenon, <1>9 DEF CleanUp
  <2>1. ASSUME Put(r, [x EXCEPT !.tree = FALSE, !.sup = "retire"]), Same PROVE Step(r) /\ Same
    <3>1. y = [x EXCEPT !.tree = FALSE, !.sup = "retire"] /\ w' = [w EXCEPT ![r] = y]
      BY Zenon, <2>1, PutSets
    <3>2. y \in Record /\ Alike(x, y) /\ y.asked = x.asked /\ y.evs = x.evs
          /\ y.sup = "retire" /\ y.result = x.result
      BY ZenonT(40), <1>0, <3>1 DEF Alike, Record, Stages, Results
    <3>3. WInv(y)
      BY ZenonT(60), <2>0, <3>1, <3>2 DEF WInv, Dead, Alike, Outcomes
    <3>4. QED
      BY Zenon, <2>0, <2>1, <3>1, <3>2, <3>3 DEF Step, Moves, Dead, Alike, Reported
  <2>2. ASSUME Put(r, [x EXCEPT !.result = "err", !.sup = "retire"]), Same PROVE Step(r) /\ Same
    <3>1. y = [x EXCEPT !.result = "err", !.sup = "retire"] /\ w' = [w EXCEPT ![r] = y]
      BY Zenon, <2>2, PutSets
    <3>2. y \in Record /\ Alike(x, y) /\ y.tree = x.tree /\ y.asked = x.asked /\ y.evs = x.evs
          /\ y.sup = "retire" /\ y.result = "err"
      BY ZenonT(40), <1>0, <3>1 DEF Alike, Record, Stages, Results
    <3>3. WInv(y)
      BY ZenonT(60), <2>0, <3>1, <3>2 DEF WInv, Dead, Alike, Outcomes
    <3>4. QED
      BY Zenon, <2>0, <2>2, <3>1, <3>2, <3>3 DEF Step, Moves, Dead, Alike, Reported
  <2>3. QED
    BY Zenon, <1>9, <2>1, <2>2 DEF CleanUp
<1>10. QED
  BY Zenon, <1>1, <1>2, <1>3, <1>4, <1>5, <1>6, <1>7, <1>8, <1>9

-----------------------------------------------------------------------------

Begin == {"spawn", "ready", "abort", "commit"}
Later == {"poll", "look", "release", "wait", "forget", "write"}
CallSet ==
  [pc : {"idle"}]
  \cup [pc : Begin \cup {"receipt"}, run : Runs, key : Keys]
  \cup [pc : Later, op : Ops, run : Runs]
  \cup [pc : {"project"}, op : Ops, run : Runs, outcome : Outcomes]

Types ==
  /\ w \in [Runs -> Record]
  /\ children \subseteq Runs
  /\ completed \in [Runs -> Results]
  /\ finished \in [Runs -> Results]
  /\ runs \in [Runs -> States \cup {None}]
  /\ replay \in [Keys -> Runs \cup {None}]
  /\ starting \in [Runs -> Keys \cup {None}]
  /\ workers \in [Keys -> SUBSET Runs]
  /\ call \in [Clients -> CallSet]
  /\ shutdown \in {"no", "waiting", "done"}

\* What a call knows of its run.
CallInv(c) ==
  LET x == w[call[c].run]
      f == finished[call[c].run]
  IN /\ call[c].pc = "spawn" => x.slot = "none" /\ x.leader \in {"none", "reaped"}
     /\ call[c].pc \in {"ready", "abort"} =>
          x.slot = "none" /\ x.leader \notin {"none", "reaped"}
     /\ call[c].pc = "commit" => x.slot # "none"
     /\ call[c].pc \in Later \cup {"receipt", "project"} => runs[call[c].run] # None
     /\ call[c].pc = "project" => x.sup \in Reported /\ call[c].outcome = x.result
     /\ call[c].pc = "wait" => x.asked # "open"
     /\ call[c].pc = "forget" => f = "ok"
     /\ (call[c].pc = "write" /\ call[c].op = "cancel") => f = "ok"

Holds(c, r) == call[c].pc \in Begin /\ call[c].run = r
Waits(r) == \E c \in Clients : call[c].pc = "wait" /\ call[c].run = r

\* What the recorded state says of the worker.
Ended(r) ==
  /\ runs[r] \in {"Succeeded", "Cancelled"} => w[r].sup \in Reported
  /\ runs[r] = "Failed" => w[r].sup \in Reported /\ w[r].result = "err"
  /\ runs[r] = "Cleaned" => Dead(w[r]) \/ Cancelling(r)

RunInv(r) ==
  /\ WInv(w[r])
  /\ r \in children => w[r].slot # "none" /\ w[r].asked = "open" /\ w[r].sup \notin Reported
  /\ (w[r].slot # "none" /\ w[r].asked = "open" /\ r \notin children) => w[r].sup \in Reported
  /\ (w[r].asked # "open" /\ shutdown = "no") => (Waits(r) \/ finished[r] # "none")
  /\ finished[r] # "none" => w[r].sup = "done" /\ finished[r] = w[r].result
  /\ completed[r] # "none" => w[r].sup \in Reported /\ completed[r] = w[r].result
  /\ runs[r] # None => w[r].slot # "none" /\ starting[r] = None
  /\ (runs[r] = None /\ starting[r] = None) =>
       w[r].slot = "none" /\ w[r].leader \in {"none", "reaped"}
  /\ (w[r].slot = "none" /\ w[r].leader \notin {"none", "reaped"}) =>
       \E c \in Clients : Holds(c, r)
  /\ Ended(r)

\* A replay key leads to one run, before and after it is recorded.
KeyInv ==
  /\ \A k \in Keys : workers[k] \subseteq {replay[k]} \cap Runs
  /\ \A r \in Runs : starting[r] # None => replay[starting[r]] = None
  /\ \A r, q \in Runs : (starting[r] # None /\ starting[r] = starting[q]) => r = q

\* A run being started belongs to one call.
OwnerInv ==
  /\ \A c \in Clients : call[c].pc \in Begin =>
       starting[call[c].run] = call[c].key /\ runs[call[c].run] = None
  /\ \A c, d \in Clients :
       (call[c].pc \in Begin /\ call[d].pc \in Begin /\ call[c].run = call[d].run) => c = d

Service ==
  /\ Types
  /\ \A r \in Runs : RunInv(r)
  /\ \A c \in Clients : CallInv(c)
  /\ KeyInv
  /\ OwnerInv
  /\ shutdown # "no" => children = {} /\ \A c \in Clients : call[c].pc = "idle"
  /\ \A c \in Clients : call[c].pc = "write" =>
       Dead(w[call[c].run]) \/ Cancelling(call[c].run)
-----------------------------------------------------------------------------
(* Steps of a run's own threads.                                           *)

LEMMA CallFields ==
  ASSUME Types, NEW c \in Clients
  PROVE  /\ call[c].pc \in Begin \cup Later \cup {"idle", "receipt", "project"}
         /\ call[c].pc # "idle" => call[c].run \in Runs
         /\ call[c].pc \in Begin \cup {"receipt"} => call[c].key \in Keys
         /\ call[c].pc \in Later \cup {"project"} => call[c].op \in Ops
         /\ call[c].pc = "project" => call[c].outcome \in Outcomes
  BY Zenon DEF Types, CallSet, Begin, Later

LEMMA StepKeeps ==
  ASSUME Service, NEW r \in Runs, Step(r), Same, Rest
  PROVE  Service'
<1> USE DEF Rest, Same, service
<1>1. w'[r] \in Record /\ WInv(w'[r]) /\ \A q \in Runs \ {r} : w'[q] = w[q]
  BY Zenon DEF Step, Moves, WInv, Service, Types
<1>2. Types'
  BY Zenon, <1>1 DEF Step, Service, Types
<1>3. ASSUME NEW q \in Runs PROVE RunInv(q)'
  <2>1. RunInv(q)
    BY Zenon DEF Service
  <2>0. /\ Waits(q)' <=> Waits(q)
        /\ Cancelling(q)' <=> Cancelling(q)
        /\ (\E c \in Clients : Holds(c, q))' <=> (\E c \in Clients : Holds(c, q))
    BY Zenon DEF Waits, Holds, Cancelling
  <2>2. CASE q # r
    BY Zenon, <1>1, <2>0, <2>1, <2>2 DEF RunInv, Ended
  <2>3. CASE q = r
    BY ZenonT(60), <1>1, <2>0, <2>1, <2>3 DEF RunInv, Ended, Step, Moves, Reported
  <2>4. QED
    BY Zenon, <2>2, <2>3
<1>4. ASSUME NEW c \in Clients PROVE CallInv(c)'
  <2>1. CallInv(c) /\ (call[c].pc # "idle" => call[c].run \in Runs)
    BY Zenon, CallFields DEF Service
  <2>2. CASE call[c].run = r
    BY ZenonT(60), <1>1, <2>1, <2>2 DEF CallInv, Step, Moves, Reported
  <2>3. CASE call[c].run # r /\ call[c].run \in Runs
    BY Zenon, <1>1, <2>1, <2>3 DEF CallInv
  <2>4. QED
    BY Zenon, <2>1, <2>2, <2>3 DEF CallInv, Later
<1>5. KeyInv' /\ OwnerInv'
  BY Zenon DEF Service, KeyInv, OwnerInv
<1>6. ASSUME NEW c \in Clients, call[c].pc = "write"
      PROVE  Dead(w'[call[c].run]) \/ Cancelling(call[c].run)
  BY Zenon, <1>1, <1>6 DEF Service, Step, Moves, Types, CallSet, Begin, Later
<1>7. QED
  BY Zenon, <1>2, <1>3, <1>4, <1>5, <1>6 DEF Service, Cancelling

LEMMA RetireKeeps ==
  ASSUME Service, NEW r \in Runs, Retire(r), Rest
  PROVE  Service'
<1> DEFINE x == w[r]
           y == w'[r]
<1> USE DEF Rest, service
<1>0. x \in Record /\ WInv(x) /\ w \in [Runs -> Record]
  BY Zenon DEF Service, Types, RunInv
<1>1. /\ y = [x EXCEPT !.sup = "notify"] /\ w' = [w EXCEPT ![r] = y]
      /\ x.sup = "retire"
      /\ children' = children \ {r} /\ completed' = [completed EXCEPT ![r] = x.result]
      /\ UNCHANGED finished
  BY Zenon, <1>0, PutSets DEF Retire
<1>2. /\ y \in Record /\ Alike(x, y) /\ y.tree = x.tree /\ y.asked = x.asked
      /\ y.evs = x.evs /\ y.sup = "notify" /\ y.result = x.result
      /\ \A q \in Runs \ {r} : w'[q] = w[q]
  BY ZenonT(40), <1>0, <1>1 DEF Alike, Record, Stages
<1>3. WInv(y) /\ Dead(y)
  BY ZenonT(60), <1>0, <1>1, <1>2 DEF WInv, Dead, Alike, Outcomes
<1>4. x.result \in Outcomes
  BY Zenon, <1>0, <1>1 DEF WInv
<1>5. Types'
  BY Zenon, <1>0, <1>1, <1>2, <1>4 DEF Service, Types, Results, Outcomes
<1>6. ASSUME NEW q \in Runs PROVE RunInv(q)'
  <2>1. RunInv(q)
    BY Zenon DEF Service
  <2>2. /\ Waits(q)' <=> Waits(q)
        /\ Cancelling(q)' <=> Cancelling(q)
        /\ (\E c \in Clients : Holds(c, q))' <=> (\E c \in Clients : Holds(c, q))
    BY Zenon DEF Waits, Holds, Cancelling
  <2>3. CASE q # r
    BY <1>1, <1>2, <2>1, <2>2, <2>3 DEF RunInv, Ended, Service, Types
  <2>4. CASE q = r
    BY ZenonT(40), <1>1, <1>2, <1>3, <1>4, <2>1, <2>2, <2>4 DEF RunInv, Ended, Alike, Reported, Service, Types
  <2>5. QED
    BY Zenon, <2>3, <2>4
<1>7. ASSUME NEW c \in Clients PROVE CallInv(c)'
  <2>1. CallInv(c) /\ (call[c].pc # "idle" => call[c].run \in Runs)
    BY Zenon, CallFields DEF Service
  <2>0. finished[r] = "none"
    BY Zenon, <1>1 DEF Service, RunInv
  <2>2. CASE call[c].run = r
    BY ZenonT(40), <1>1, <1>2, <2>0, <2>1, <2>2 DEF CallInv, Alike, Reported
  <2>3. CASE call[c].run # r /\ call[c].run \in Runs
    BY Zenon, <1>1, <1>2, <2>1, <2>3 DEF CallInv, Service, Types
  <2>4. QED
    BY Zenon, <2>1, <2>2, <2>3 DEF CallInv, Later
<1>8. KeyInv' /\ OwnerInv'
  BY Zenon DEF Service, KeyInv, OwnerInv
<1>9. ASSUME NEW c \in Clients, call[c].pc = "write"
      PROVE  Dead(w'[call[c].run]) \/ Cancelling(call[c].run)
  BY Zenon, <1>2, <1>3, <1>9 DEF Service, Types, CallSet, Begin, Later
<1>10. QED
  BY ZenonT(60), <1>1, <1>5, <1>6, <1>7, <1>8, <1>9 DEF Service, Cancelling

LEMMA NotifyKeeps ==
  ASSUME Service, NEW r \in Runs, Notify(r), Rest
  PROVE  Service'
<1> DEFINE x == w[r]
           y == w'[r]
<1> USE DEF Rest, service
<1>0. x \in Record /\ WInv(x) /\ w \in [Runs -> Record]
  BY Zenon DEF Service, Types, RunInv
<1>1. /\ y = [x EXCEPT !.sup = "done"] /\ w' = [w EXCEPT ![r] = y]
      /\ x.sup = "notify"
      /\ finished' = [finished EXCEPT ![r] = x.result] /\ UNCHANGED <<children, completed>>
  BY Zenon, <1>0, PutSets DEF Notify
<1>2. /\ y \in Record /\ Alike(x, y) /\ y.tree = x.tree /\ y.asked = x.asked
      /\ y.evs = x.evs /\ y.sup = "done" /\ y.result = x.result
      /\ \A q \in Runs \ {r} : w'[q] = w[q]
  BY ZenonT(40), <1>0, <1>1 DEF Alike, Record, Stages
<1>3. WInv(y) /\ Dead(y)
  BY <1>0, <1>1, <1>2 DEF WInv, Dead, Alike, Outcomes
<1>4. x.result \in Outcomes
  BY Zenon, <1>0, <1>1 DEF WInv
<1>5. Types'
  BY Zenon, <1>0, <1>1, <1>2, <1>4 DEF Service, Types, Results, Outcomes
<1>6. ASSUME NEW q \in Runs PROVE RunInv(q)'
  <2>1. RunInv(q)
    BY Zenon DEF Service
  <2>2. /\ Waits(q)' <=> Waits(q)
        /\ Cancelling(q)' <=> Cancelling(q)
        /\ (\E c \in Clients : Holds(c, q))' <=> (\E c \in Clients : Holds(c, q))
    BY Zenon DEF Waits, Holds, Cancelling
  <2>3. CASE q # r
    BY <1>1, <1>2, <2>1, <2>2, <2>3 DEF RunInv, Ended, Service, Types
  <2>4. CASE q = r
    BY ZenonT(40), <1>1, <1>2, <1>3, <1>4, <2>1, <2>2, <2>4 DEF RunInv, Ended, Alike, Reported, Service, Types
  <2>5. QED
    BY Zenon, <2>3, <2>4
<1>7. ASSUME NEW c \in Clients PROVE CallInv(c)'
  <2>1. CallInv(c) /\ (call[c].pc # "idle" => call[c].run \in Runs)
    BY Zenon, CallFields DEF Service
  <2>0. finished[r] = "none"
    BY Zenon, <1>1 DEF Service, RunInv
  <2>2. CASE call[c].run = r
    BY ZenonT(40), <1>1, <1>2, <2>0, <2>1, <2>2 DEF CallInv, Alike, Reported
  <2>3. CASE call[c].run # r /\ call[c].run \in Runs
    BY Zenon, <1>1, <1>2, <2>1, <2>3 DEF CallInv, Service, Types
  <2>4. QED
    BY Zenon, <2>1, <2>2, <2>3 DEF CallInv, Later
<1>8. KeyInv' /\ OwnerInv'
  BY Zenon DEF Service, KeyInv, OwnerInv
<1>9. ASSUME NEW c \in Clients, call[c].pc = "write"
      PROVE  Dead(w'[call[c].run]) \/ Cancelling(call[c].run)
  BY Zenon, <1>2, <1>3, <1>9 DEF Service, Types, CallSet, Begin, Later
<1>10. QED
  BY <1>1, <1>5, <1>6, <1>7, <1>8, <1>9 DEF Service, Cancelling

-----------------------------------------------------------------------------
(* Steps of a call.                                                        *)

LEMMA FinishedIsDead ==
  ASSUME Service, NEW r \in Runs, finished[r] # "none"
  PROVE  Dead(w[r])
  BY Zenon DEF Service, RunInv, WInv

\* A call past its start moves on; of the runs it may only record how they ended.
LEMMA CallStep ==
  ASSUME Service, NEW c \in Clients, NEW t \in CallSet,
         call' = [call EXCEPT ![c] = t], call[c].pc \notin Begin, t.pc \notin Begin,
         shutdown = "no", UNCHANGED <<w, children, finished, replay, starting, workers, shutdown>>,
         completed' \in [Runs -> Results],
         \A q \in Runs : completed'[q] \in {completed[q], "none"},
         runs' \in [Runs -> States \cup {None}],
         \A q \in Runs : runs'[q] = None <=> runs[q] = None,
         \A q \in Runs : runs'[q] = runs[q] \/ Ended(q)',
         call[c].pc = "wait" => finished[call[c].run] # "none",
         CallInv(c)',
         t.pc = "write" => Dead(w[t.run]) \/ Cancelling(t.run)'
  PROVE  Service'
<1>1. Types'
  BY Zenon DEF Service, Types
<1>2. call \in [Clients -> CallSet] /\ Types /\ CallInv(c)
  BY Zenon DEF Service, Types
<1>3. call'[c] = t /\ \A d \in Clients \ {c} : call'[d] = call[d]
  BY ZenonT(60), <1>2
<1>4. call[c].pc \in {"wait", "forget"} => Dead(w[call[c].run])
  BY Zenon, <1>2, CallFields, FinishedIsDead DEF CallInv
<1>5. ASSUME NEW q \in Runs PROVE Cancelling(q) => Cancelling(q)' \/ Dead(w[q])
  BY ZenonT(60), <1>3, <1>4 DEF Cancelling
<1>6. ASSUME NEW q \in Runs PROVE RunInv(q)'
  <2>1. RunInv(q)
    BY ZenonT(40) DEF Service
  <2>2. Waits(q) => Waits(q)' \/ finished[q] # "none"
    BY Zenon, <1>3 DEF Waits
  <2>3. (\E d \in Clients : Holds(d, q)) => (\E d \in Clients : Holds(d, q))'
    BY ZenonT(60), <1>3 DEF Holds
  <2>4. Ended(q)'
    BY Zenon, <1>5, <2>1 DEF Ended, RunInv
  <2>5. QED
    BY Zenon, <2>1, <2>2, <2>3, <2>4 DEF RunInv
<1>7. ASSUME NEW d \in Clients PROVE CallInv(d)'
  <2>1. CASE d = c
    BY Zenon, <2>1
  <2>2. CASE d # c
    <3>1. CallInv(d) /\ (call[d].pc # "idle" => call[d].run \in Runs)
      BY ZenonT(40), <1>2, CallFields DEF Service
    <3>2. QED
      BY ZenonT(200), <1>3, <2>2, <3>1 DEF CallInv, Later
  <2>3. QED
    BY Zenon, <2>1, <2>2
<1>8. KeyInv'
  BY ZenonT(40) DEF Service, KeyInv
<1>9. OwnerInv'
  <2>1. ASSUME NEW d \in Clients, call'[d].pc \in Begin
        PROVE  d # c /\ call'[d] = call[d] /\ runs'[call[d].run] = None
    BY Zenon, <1>2, <1>3, <2>1, CallFields DEF Service, OwnerInv, Begin
  <2>2. QED
    BY ZenonT(60), <1>3, <2>1 DEF Service, OwnerInv
<1>10. ASSUME NEW d \in Clients
       PROVE  (call[d].pc = "write" => Dead(w[call[d].run]) \/ Cancelling(call[d].run))'
  <2>1. CASE d = c
    BY Zenon, <1>3, <2>1
  <2>2. CASE d # c
    <3>1. call'[d] = call[d] /\ (call[d].pc = "write" => call[d].run \in Runs)
      BY Zenon, <1>2, <1>3, <2>2, CallFields
    <3>2. Cancelling(call[d].run)' <=> \E e \in Clients :
            call'[e].pc \in {"wait", "forget"} /\ call'[e].run = call[d].run
      BY Zenon, <3>1 DEF Cancelling
    <3>3. QED
      BY ZenonT(60), <1>5, <3>1, <3>2 DEF Service, Cancelling
  <2>3. QED
    BY Zenon, <2>1, <2>2
<1>11. QED
  BY Zenon, <1>1, <1>6, <1>7, <1>8, <1>9, <1>10 DEF Service

\* Following a call from one of its steps to the next.
LEMMA GotoSets ==
  ASSUME Types, NEW c \in Clients, call[c].pc \in Later, NEW pc \in Later, Goto(c, pc)
  PROVE  /\ call'[c] \in CallSet
         /\ call' = [call EXCEPT ![c] = call'[c]]
         /\ call'[c].pc = pc /\ call'[c].run = call[c].run /\ call'[c].op = call[c].op
<1>1. call[c] \in [pc : Later, op : Ops, run : Runs]
  BY Zenon DEF Types, CallSet, Begin, Later
<1>2. call'[c] = [call[c] EXCEPT !.pc = pc] /\ call' = [call EXCEPT ![c] = call'[c]]
  BY Zenon DEF Goto, Do, Types
<1>3. QED
  BY Zenon, <1>1, <1>2 DEF CallSet, Later

LEMMA ReturnSets ==
  ASSUME Types, NEW c \in Clients, Return(c)
  PROVE  call'[c] \in CallSet /\ call' = [call EXCEPT ![c] = call'[c]] /\ call'[c].pc = "idle"
  BY Zenon DEF Return, Do, Idle, Types, CallSet

\* A call that only moves on, or returns.
LEMMA QuietKeeps ==
  ASSUME Service, NEW c \in Clients,
         Receipt(c) \/ Look(c) \/ Wait(c)
  PROVE  Service'
<1> USE DEF At, service, backend, Begin, Later
<1>0. Types /\ completed \in [Runs -> Results] /\ runs \in [Runs -> States \cup {None}]
      /\ CallInv(c)
  BY Zenon DEF Service, Types
<1>1. CASE Receipt(c)
  <2>1. Return(c) /\ call[c].pc = "receipt" /\ shutdown = "no"
        /\ UNCHANGED <<backend, runs, replay, starting, workers, shutdown>>
    BY ZenonT(60), <1>1 DEF Receipt
  <2>2. CallInv(c)'
    BY Zenon, <1>0, <2>1, ReturnSets DEF CallInv
  <2>3. QED
    BY Zenon, <1>0, <2>1, <2>2, ReturnSets, CallStep
<1>2. CASE Look(c)
  <2>1. /\ call[c].pc = "look" /\ shutdown = "no"
        /\ UNCHANGED <<backend, runs, replay, starting, workers, shutdown>>
        /\ Return(c) \/ Goto(c, "release")
    BY Zenon, <1>2 DEF Look
  <2>2. CASE Return(c)
    <3>1. CallInv(c)'
      BY Zenon, <1>0, <2>1, <2>2, ReturnSets DEF CallInv
    <3>2. QED
      BY ZenonT(60), <1>0, <2>1, <2>2, <3>1, ReturnSets, CallStep
  <2>3. CASE Goto(c, "release")
    <3>1. CallInv(c)'
      BY ZenonT(60), <1>0, <2>1, <2>3, GotoSets DEF CallInv
    <3>2. QED
      BY Zenon, <1>0, <2>1, <2>3, <3>1, GotoSets, CallStep
  <2>4. QED
    BY Zenon, <2>1, <2>2, <2>3
<1>3. CASE Wait(c)
  <2>1. /\ call[c].pc = "wait" /\ shutdown = "no" /\ finished[call[c].run] # "none"
        /\ UNCHANGED <<backend, runs, replay, starting, workers, shutdown>>
        /\ Return(c) \/ (Goto(c, "forget") /\ finished[call[c].run] # "err")
    BY Zenon, <1>3 DEF Wait
  <2>2. CASE Return(c)
    <3>1. CallInv(c)'
      BY ZenonT(40), <1>0, <2>1, <2>2, ReturnSets DEF CallInv
    <3>2. QED
      BY Zenon, <1>0, <2>1, <2>2, <3>1, ReturnSets, CallStep
  <2>3. CASE Goto(c, "forget") /\ finished[call[c].run] # "err"
    <3>1. finished[call[c].run] = "ok"
      BY ZenonT(60), <1>0, <2>1, <2>3, CallFields DEF Types, Results
    <3>2. CallInv(c)'
      BY ZenonT(60), <1>0, <2>1, <2>3, <3>1, GotoSets DEF CallInv
    <3>3. QED
      BY ZenonT(40), <1>0, <2>1, <2>3, <3>2, GotoSets, CallStep
  <2>4. QED
    BY Zenon, <2>1, <2>2, <2>3
<1>4. QED
  BY Zenon, <1>1, <1>2, <1>3

\* Forget clears the marker of a run that has finished.
LEMMA ForgetKeeps ==
  ASSUME Service, NEW c \in Clients, Forget(c)
  PROVE  Service'
<1> USE DEF At, service, Begin, Later
<1>0. Types /\ runs \in [Runs -> States \cup {None}] /\ CallInv(c)
  BY Zenon DEF Service, Types
<1>1. /\ call[c].pc = "forget" /\ shutdown = "no" /\ Goto(c, "write")
      /\ UNCHANGED <<w, children, finished, runs, replay, starting, workers, shutdown>>
      /\ completed' = [completed EXCEPT ![call[c].run] = "none"]
  BY Zenon DEF Forget
<1>2. /\ completed' \in [Runs -> Results]
      /\ \A q \in Runs : completed'[q] \in {completed[q], "none"}
  BY ZenonT(40), <1>0, <1>1 DEF Types, Results
<1>3. call[c].run \in Runs /\ finished[call[c].run] = "ok"
  BY Zenon, <1>0, <1>1, CallFields DEF CallInv
<1>4. Dead(w[call[c].run])
  BY ZenonT(60), <1>3, FinishedIsDead
<1>5. CallInv(c)'
  BY ZenonT(60), <1>0, <1>1, <1>3, GotoSets DEF CallInv
<1>6. QED
  BY ZenonT(40), <1>0, <1>1, <1>2, <1>4, <1>5, GotoSets, CallStep

\* A call begins: only a run the service knows is asked about.
LEMMA CallKeeps ==
  ASSUME Service, NEW c \in Clients, NEW op \in Ops, NEW r \in Runs, Call(c, op, r)
  PROVE  Service'
<1>0. Types /\ completed \in [Runs -> Results] /\ runs \in [Runs -> States \cup {None}]
  BY Zenon DEF Service, Types
<1>1. /\ call[c].pc = "idle" /\ shutdown = "no" /\ runs[r] # None
      /\ UNCHANGED <<backend, runs, replay, starting, workers, shutdown>>
      /\ call' = [call EXCEPT ![c] = call'[c]]
      /\ call'[c] = [pc |-> IF runs[r] \in Active THEN "poll" ELSE "look", op |-> op, run |-> r]
  BY ZenonT(60), <1>0 DEF Call, At, Do, service, Types
<1>2. call'[c] \in CallSet /\ call'[c].pc \in {"poll", "look"} /\ call'[c].run = r
  BY SMTT(60), <1>1 DEF CallSet, Later
<1>3. CallInv(c)'
  BY Zenon, <1>1, <1>2 DEF CallInv
<1>4. QED
  BY Zenon, <1>0, <1>1, <1>2, <1>3, CallStep DEF backend, Begin

\* Polling takes the marker, which is the supervisor's result.
LEMMA PollKeeps ==
  ASSUME Service, NEW c \in Clients, Poll(c)
  PROVE  Service'
<1> DEFINE r == call[c].run
<1>0. Types /\ runs \in [Runs -> States \cup {None}] /\ CallInv(c)
  BY Zenon DEF Service, Types
<1>1. /\ call[c].pc = "poll" /\ shutdown = "no"
      /\ UNCHANGED <<w, children, finished, runs, replay, starting, workers, shutdown>>
      /\ completed' = [completed EXCEPT ![r] = "none"]
      /\ call' = [call EXCEPT ![c] = call'[c]]
      /\ call'[c] = IF completed[r] = "none" THEN [call[c] EXCEPT !.pc = "look"]
                    ELSE [pc |-> "project", op |-> call[c].op, run |-> r,
                          outcome |-> completed[r]]
  BY Zenon, <1>0 DEF Poll, At, Do, service, Types
<1>2. /\ completed' \in [Runs -> Results]
      /\ \A q \in Runs : completed'[q] \in {completed[q], "none"}
  BY ZenonT(40), <1>0, <1>1 DEF Types, Results
<1>3. r \in Runs /\ call[c].op \in Ops /\ runs[r] # None
  BY Zenon, <1>0, <1>1, CallFields DEF CallInv, Later
<1>4. CASE completed[r] = "none"
  <2>1. Goto(c, "look")
    BY Zenon, <1>1, <1>4 DEF Goto, Do
  <2>2. CallInv(c)'
    BY Zenon, <1>0, <1>1, <1>3, <2>1, GotoSets DEF CallInv, Later
  <2>3. QED
    BY Zenon, <1>0, <1>1, <1>2, <2>1, <2>2, GotoSets, CallStep DEF Begin, Later
<1>5. CASE completed[r] # "none"
  <2>1. w[r].sup \in Reported /\ completed[r] = w[r].result /\ completed[r] \in Outcomes
    BY Zenon, <1>0, <1>3, <1>5 DEF Service, RunInv, Types, Results, Outcomes
  <2>2. /\ call'[c] \in CallSet /\ call'[c].pc = "project" /\ call'[c].run = r
        /\ call'[c].outcome = w[r].result
    BY SMTT(40), <1>1, <1>3, <1>5, <2>1 DEF CallSet
  <2>3. CallInv(c)'
    BY Zenon, <1>1, <1>3, <2>1, <2>2 DEF CallInv
  <2>4. QED
    BY Zenon, <1>0, <1>1, <1>2, <2>2, <2>3, CallStep DEF Begin
<1>6. QED
  BY Zenon, <1>4, <1>5

\* A completion is recorded as what the supervisor's result says.
LEMMA ProjectKeeps ==
  ASSUME Service, NEW c \in Clients, Project(c)
  PROVE  Service'
<1> DEFINE r == call[c].run
           s == IF call[c].outcome = "ok" THEN "Succeeded" ELSE "Failed"
<1>0. Types /\ completed \in [Runs -> Results] /\ runs \in [Runs -> States \cup {None}]
      /\ CallInv(c)
  BY Zenon DEF Service, Types
<1>1. /\ call[c].pc = "project" /\ shutdown = "no"
      /\ UNCHANGED <<w, children, finished, completed, replay, starting, workers, shutdown>>
      /\ runs' = runs \/ runs' = [runs EXCEPT ![r] = s]
      /\ call' = [call EXCEPT ![c] = call'[c]]
      /\ call'[c] = [pc |-> "look", op |-> call[c].op, run |-> r]
  BY Zenon, <1>0 DEF Project, At, Do, backend, Types
<1>2. r \in Runs /\ call[c].op \in Ops /\ runs[r] # None /\ call[c].outcome \in Outcomes
      /\ w[r].sup \in Reported /\ call[c].outcome = w[r].result
  BY ZenonT(40), <1>0, <1>1, CallFields DEF CallInv, Later
<1>3. call'[c] \in CallSet /\ call'[c].pc = "look" /\ call'[c].run = r
  <2>1. "look" \in Later
    BY Zenon DEF Later
  <2>2. [pc |-> "look", op |-> call[c].op, run |-> r] \in [pc : Later, op : Ops, run : Runs]
    BY <1>2, <2>1
  <2>3. call'[c] \in CallSet
    BY Zenon, <1>1, <2>2 DEF CallSet
  <2>4. call'[c].pc = "look" /\ call'[c].run = r
    BY <1>1
  <2>5. QED
    BY Zenon, <2>3, <2>4
<1>4. /\ runs' \in [Runs -> States \cup {None}]
      /\ \A q \in Runs : runs'[q] = None <=> runs[q] = None
  <2>1. s \in States
    BY Zenon DEF States, Terminal
  <2>2. None \notin States
    BY Zenon, ExecutionAssumption
  <2>3. QED
    BY <1>0, <1>1, <1>2, <2>1, <2>2
<1>5. \A q \in Runs : runs'[q] = runs[q] \/ Ended(q)'
  BY Zenon, <1>0, <1>1, <1>2 DEF Ended, Outcomes
<1>6. CallInv(c)'
  BY ZenonT(40), <1>1, <1>2, <1>3, <1>4 DEF CallInv
<1>7. QED
  BY ZenonT(40), <1>0, <1>1, <1>3, <1>4, <1>5, <1>6, CallStep DEF Begin

\* The last critical section of cancel and of cleanup.
LEMMA WriteKeeps ==
  ASSUME Service, NEW c \in Clients, Write(c)
  PROVE  Service'
<1> DEFINE r == call[c].run
           s == IF call[c].op = "cancel" THEN "Cancelled" ELSE "Cleaned"
<1>0. Types /\ completed \in [Runs -> Results] /\ runs \in [Runs -> States \cup {None}]
      /\ CallInv(c)
  BY Zenon DEF Service, Types
<1>1. Entries(call[c].op)[Len(Entries(call[c].op))] = s
  BY ZenonT(60) DEF Entries
<1>2. /\ call[c].pc = "write" /\ shutdown = "no" /\ Return(c)
      /\ UNCHANGED <<w, children, finished, completed, replay, starting, workers, shutdown>>
      /\ runs' = [runs EXCEPT ![r] = s]
  BY Zenon, <1>1 DEF Write, At, backend
<1>3. /\ r \in Runs /\ runs[r] # None
      /\ call[c].op = "cancel" => finished[r] = "ok"
      /\ Dead(w[r]) \/ Cancelling(r)
  BY ZenonT(40), <1>0, <1>2, CallFields DEF CallInv, Later, Service
<1>4. /\ runs' \in [Runs -> States \cup {None}]
      /\ \A q \in Runs : runs'[q] = None <=> runs[q] = None
  <2>1. s \in States
    BY ZenonT(60) DEF States, Terminal
  <2>2. QED
    BY Zenon, <1>0, <1>2, <1>3, <2>1, ExecutionAssumption
<1>5. Cancelling(r) => \E d \in Clients : call'[d].pc \in {"wait", "forget"} /\ call'[d].run = r
  BY ZenonT(60), <1>0, <1>2, ReturnSets DEF Cancelling, Types
<1>6. \A q \in Runs : runs'[q] = runs[q] \/ Ended(q)'
  <2>1. call[c].op = "cancel" => w[r].sup \in Reported
    BY Zenon, <1>3 DEF Service, RunInv, Reported
  <2>2. QED
    BY ZenonT(60), <1>0, <1>2, <1>3, <1>5, <2>1 DEF Ended, Cancelling
<1>7. CallInv(c)'
  BY ZenonT(40), <1>0, <1>2, ReturnSets DEF CallInv, Later
<1>8. QED
  BY Zenon, <1>0, <1>2, <1>4, <1>6, <1>7, ReturnSets, CallStep DEF Begin

\* A cleanup that finds nothing to cancel goes on: the run is over, or another call is
\* inside Backend::cancel for it.
LEMMA ReleaseNothing ==
  ASSUME Service, NEW c \in Clients, Release(c), call[c].run \notin children
  PROVE  Service'
<1> DEFINE r == call[c].run
<1>0. Types /\ completed \in [Runs -> Results] /\ runs \in [Runs -> States \cup {None}]
      /\ CallInv(c)
  BY Zenon DEF Service, Types
<1>1. /\ call[c].pc = "release" /\ shutdown = "no"
      /\ UNCHANGED <<backend, runs, replay, starting, workers, shutdown>>
      /\ Return(c) \/ (Goto(c, "write") /\ call[c].op = "cleanup")
  BY ZenonT(60) DEF Release, At, service
<1>2. r \in Runs /\ runs[r] # None
  BY Zenon, <1>0, <1>1, CallFields DEF CallInv, Later
<1>3. CASE Return(c)
  <2>1. CallInv(c)'
    BY ZenonT(40), <1>0, <1>1, <1>3, ReturnSets DEF CallInv, Later
  <2>2. QED
    BY ZenonT(40), <1>0, <1>1, <1>3, <2>1, ReturnSets, CallStep DEF Begin, backend
<1>4. CASE Goto(c, "write") /\ call[c].op = "cleanup"
  <2>1. Dead(w[r]) \/ \E d \in Clients \ {c} : call[d].pc = "wait" /\ call[d].run = r
    <3>1. RunInv(r)
      BY Zenon, <1>2 DEF Service
    <3>2. Waits(r) \/ finished[r] # "none" \/ w[r].sup \in Reported
      BY ZenonT(40), <1>1, <1>2, <3>1 DEF RunInv
    <3>3. w[r].sup \in Reported => Dead(w[r])
      BY ZenonT(40), <3>1 DEF RunInv, WInv, Reported
    <3>4. QED
      BY ZenonT(40), <1>1, <1>2, <3>2, <3>3, FinishedIsDead DEF Waits
  <2>2. /\ call'[c] \in CallSet /\ call' = [call EXCEPT ![c] = call'[c]]
        /\ call'[c].pc = "write" /\ call'[c].run = r /\ call'[c].op = "cleanup"
    BY ZenonT(40), <1>0, <1>1, <1>4, GotoSets DEF Later
  <2>3. CallInv(c)'
    BY ZenonT(60), <1>1, <1>2, <2>2 DEF CallInv, Later
  <2>4. Dead(w[r]) \/ \E d \in Clients : call'[d].pc \in {"wait", "forget"} /\ call'[d].run = r
    BY ZenonT(60), <1>0, <2>1, <2>2 DEF Types
  <2>5. QED
    BY ZenonT(40), <1>0, <1>1, <2>2, <2>3, <2>4, CallStep DEF Begin, backend, Cancelling
<1>5. QED
  BY Zenon, <1>1, <1>3, <1>4

\* Cancelling a published run takes it out of the children and asks its supervisor.
LEMMA ReleaseCancels ==
  ASSUME Service, NEW c \in Clients, Release(c), call[c].run \in children
  PROVE  Service'
<1> DEFINE r == call[c].run
           x == w[r]
           y == w'[r]
<1>0. Types /\ CallInv(c) /\ w \in [Runs -> Record] /\ call \in [Clients -> CallSet]
  BY ZenonT(60) DEF Service, Types
<1>1. /\ call[c].pc = "release" /\ shutdown = "no" /\ SendCancel(r) /\ Goto(c, "wait")
      /\ UNCHANGED <<runs, replay, starting, workers, shutdown>>
  BY Zenon DEF Release, At, service
<1>2. r \in Runs /\ runs[r] # None /\ x \in Record /\ RunInv(r) /\ WInv(x)
  BY ZenonT(40), <1>0, <1>1, CallFields DEF CallInv, Later, Service, RunInv
<1>3. /\ y = [x EXCEPT !.asked = "sent"] /\ w' = [w EXCEPT ![r] = y]
      /\ children' = children \ {r} /\ UNCHANGED <<completed, finished>>
      /\ \A q \in Runs \ {r} : w'[q] = w[q]
  BY <1>0, <1>1, <1>2, PutSets DEF SendCancel
<1>4. /\ y \in Record /\ Alike(x, y) /\ y.tree = x.tree /\ y.asked = "sent"
      /\ y.evs = x.evs /\ y.sup = x.sup /\ y.result = x.result
  BY Zenon, <1>2, <1>3 DEF Alike, Record
<1>5. WInv(y) /\ (Dead(x) <=> Dead(y))
  <2>1. x.slot # "none"
    BY ZenonT(40), <1>2 DEF RunInv
  <2>2. QED
    BY ZenonT(40), <1>2, <1>4, <2>1 DEF WInv, Dead, Alike
<1>6. /\ call'[c] \in CallSet /\ call' = [call EXCEPT ![c] = call'[c]]
      /\ call'[c].pc = "wait" /\ call'[c].run = r
      /\ \A d \in Clients \ {c} : call'[d] = call[d]
  BY Zenon, <1>0, <1>1, GotoSets DEF Later
<1>7. Types'
  BY ZenonT(60), <1>0, <1>1, <1>3, <1>4, <1>6 DEF Types
<1>8. ASSUME NEW q \in Runs PROVE Cancelling(q) => Cancelling(q)'
  BY Zenon, <1>1, <1>6 DEF Cancelling
<1>9. ASSUME NEW q \in Runs PROVE RunInv(q)'
  <2>1. RunInv(q)
    BY Zenon DEF Service
  <2>2. /\ Waits(q) => Waits(q)'
        /\ (\E d \in Clients : Holds(d, q)) => (\E d \in Clients : Holds(d, q))'
    BY Zenon, <1>1, <1>6 DEF Waits, Holds, Begin
  <2>3. CASE q # r
    BY Zenon, <1>1, <1>3, <1>8, <2>1, <2>2, <2>3 DEF RunInv, Ended
  <2>4. CASE q = r
    <3>1. Waits(q)'
      BY Zenon, <1>6, <2>4 DEF Waits
    <3>2. Ended(q)'
      BY ZenonT(40), <1>1, <1>4, <1>5, <1>8, <2>1, <2>4 DEF RunInv, Ended
    <3>3. y.slot # "none" /\ y.slot = x.slot /\ r \notin children'
      BY Zenon, <1>2, <1>3, <1>4 DEF RunInv, Alike
    <3>4. QED
      BY ZenonT(40), <1>1, <1>3, <1>4, <1>5, <2>1, <2>4, <3>1, <3>2, <3>3 DEF RunInv
  <2>5. QED
    BY Zenon, <2>3, <2>4
<1>10. ASSUME NEW d \in Clients PROVE CallInv(d)'
  <2>1. CallInv(d) /\ (call[d].pc # "idle" => call[d].run \in Runs)
    BY Zenon, <1>0, CallFields DEF Service
  <2>2. CASE d = c
    BY ZenonT(40), <1>1, <1>2, <1>4, <1>6, <2>2 DEF CallInv, Later
  <2>3. CASE d # c /\ call[d].run = r
    <3>1. /\ call'[d] = call[d] /\ runs'[r] = runs[r] /\ finished'[r] = finished[r]
          /\ y.slot = x.slot /\ y.leader = x.leader /\ y.sup = x.sup /\ y.result = x.result
          /\ y.asked # "open"
      BY Zenon, <1>1, <1>3, <1>4, <1>6, <2>3 DEF Alike
    <3> HIDE DEF x, y
    <3>2. w[call[d].run] = x /\ w'[call[d].run] = y
      BY Zenon, <2>3 DEF x, y
    <3>3. QED
      BY ZenonT(40), <2>1, <2>3, <3>1, <3>2 DEF CallInv
  <2>4. CASE d # c /\ call[d].run # r /\ call[d].pc # "idle"
    BY SMTT(40), <1>1, <1>3, <1>6, <2>1, <2>4 DEF CallInv
  <2>5. CASE d # c /\ call[d].pc = "idle"
    BY ZenonT(40), <1>6, <2>5 DEF CallInv, Later
  <2>6. QED
    BY Zenon, <2>2, <2>3, <2>4, <2>5
<1>11. KeyInv'
  BY ZenonT(40), <1>1 DEF Service, KeyInv
<1>12. OwnerInv'
  <2>1. ASSUME NEW d \in Clients, call'[d].pc \in Begin PROVE d # c /\ call'[d] = call[d]
    BY Zenon, <1>6, <2>1 DEF Begin
  <2>2. QED
    BY Zenon, <1>1, <2>1 DEF Service, OwnerInv
<1>13. ASSUME NEW d \in Clients, call'[d].pc = "write"
       PROVE  (Dead(w[call[d].run]) \/ Cancelling(call[d].run))'
  <2>1. /\ call'[d] = call[d] /\ call[d].run \in Runs
        /\ Dead(w[call[d].run]) \/ Cancelling(call[d].run)
    BY Zenon, <1>0, <1>6, <1>13, CallFields DEF Service
  <2>2. Dead(w[call[d].run]) => Dead(w'[call[d].run])
    BY ZenonT(60), <1>3, <1>5, <2>1
  <2>3. Cancelling(call[d].run) =>
          \E e \in Clients : call'[e].pc \in {"wait", "forget"} /\ call'[e].run = call[d].run
    BY Zenon, <1>1, <1>6 DEF Cancelling
  <2>4. QED
    BY ZenonT(60), <2>1, <2>2, <2>3 DEF Cancelling
<1>14. QED
  BY ZenonT(60), <1>1, <1>7, <1>9, <1>10, <1>11, <1>12, <1>13 DEF Service


-----------------------------------------------------------------------------
(* Starting a run.                                                         *)

\* A step of the call that is starting r, up to publishing it or giving it up.
LEMMA StartStep ==
  ASSUME Service, NEW c \in Clients, NEW r \in Runs, NEW t \in CallSet,
         call' = [call EXCEPT ![c] = t], w' = [w EXCEPT ![r] = w'[r]], shutdown = "no",
         UNCHANGED <<completed, finished, runs, replay, workers, shutdown>>,
         children' = children \/ children' = children \cup {r},
         starting' \in [Runs -> Keys \cup {None}],
         \A q \in Runs \ {r} : starting'[q] = starting[q],
         call[c].pc \in Begin \cup {"idle"}, t.pc \in Begin \cup {"idle"},
         call[c].pc \in Begin => call[c].run = r,
         call[c].pc = "idle" => starting[r] = None,
         t.pc \in Begin => t.run = r /\ starting'[r] = t.key,
         runs[r] = None, w[r].slot = "none", WInv(w'[r]),
         r \in children' <=> w'[r].slot # "none",
         w'[r].slot # "none" => w'[r].sup = "entry" /\ w'[r].asked = "open",
         t.pc = "idle" => starting'[r] = None /\ w'[r].slot = "none"
                          /\ w'[r].leader \in {"none", "reaped"},
         CallInv(c)', KeyInv'
  PROVE  Service'
<1>0. /\ Types /\ w \in [Runs -> Record] /\ call \in [Clients -> CallSet] /\ OwnerInv
      /\ starting \in [Runs -> Keys \cup {None}]
  BY ZenonT(40) DEF Service, Types
<1>1. /\ call'[c] = t /\ \A d \in Clients \ {c} : call'[d] = call[d]
      /\ \A q \in Runs \ {r} : w'[q] = w[q]
  BY Zenon, <1>0
<1>2. Types'
  BY ZenonT(40) DEF Service, Types, WInv
<1>3. ASSUME NEW d \in Clients, d # c, call[d].pc # "idle"
      PROVE  call[d].run \in Runs /\ call[d].run # r
  <2>1. call[d].run \in Runs /\ call[d].pc \in Begin \cup Later \cup {"receipt", "project"}
        /\ (call[d].pc \in Begin => call[d].key \in Keys)
    BY Zenon, <1>0, <1>3, CallFields
  <2>2. CASE call[d].pc \in Begin
    BY ZenonT(60), <1>0, <1>3, <2>1, <2>2, ExecutionAssumption DEF OwnerInv
  <2>3. CASE call[d].pc \in Later \cup {"receipt", "project"}
    BY ZenonT(40), <2>1, <2>3 DEF Service, CallInv
  <2>4. QED
    BY Zenon, <2>1, <2>2, <2>3
<1>4. ASSUME NEW q \in Runs
      PROVE  (Waits(q)' <=> Waits(q)) /\ (Cancelling(q)' <=> Cancelling(q))
  BY ZenonT(40), <1>1 DEF Waits, Cancelling, Begin
<1>5. ASSUME NEW q \in Runs PROVE RunInv(q)'
  <2>1. RunInv(q)
    BY ZenonT(40) DEF Service
  <2>2. CASE q # r
    <3>1. (\E d \in Clients : Holds(d, q)) => (\E d \in Clients : Holds(d, q))'
      BY ZenonT(40), <1>1, <2>2 DEF Holds, Begin
    <3>2. QED
      BY ZenonT(40), <1>1, <1>4, <2>1, <2>2, <3>1 DEF RunInv, Ended
  <2>3. CASE q = r
    <3>1. finished[r] = "none" /\ completed[r] = "none"
      BY ZenonT(40), <2>1, <2>3 DEF RunInv, WInv, Reported
    <3>2. starting'[r] = None => t.pc = "idle"
      <4>1. t.pc \in Begin => t.key \in Keys
        BY ZenonT(40) DEF CallSet, Begin, Later
      <4>2. QED
        BY ZenonT(40), <4>1, ExecutionAssumption
    <3>3. t.pc \in Begin => (\E d \in Clients : Holds(d, r))'
      BY Zenon, <1>1 DEF Holds
    <3>4. Ended(r)'
      BY ZenonT(40), ExecutionAssumption DEF Ended, States, Terminal
    <3>5. w'[r].slot = "none" => w'[r].asked = "open"
      BY ZenonT(40) DEF WInv
    <3>6. QED
      BY ZenonT(40), <2>3, <3>1, <3>2, <3>3, <3>4, <3>5 DEF RunInv, Reported
  <2>4. QED
    BY Zenon, <2>2, <2>3
<1>6. ASSUME NEW d \in Clients PROVE CallInv(d)'
  <2>1. CASE d = c
    BY Zenon, <2>1
  <2>2. CASE d # c /\ call[d].pc = "idle"
    BY ZenonT(40), <1>1, <2>2 DEF CallInv, Later
  <2>3. CASE d # c /\ call[d].pc # "idle"
    <3>1. CallInv(d)
      BY ZenonT(40) DEF Service
    <3>2. QED
      BY SMTT(60), <1>1, <1>3, <2>3, <3>1 DEF CallInv
  <2>4. QED
    BY Zenon, <2>1, <2>2, <2>3
<1>7. OwnerInv'
  BY ZenonT(200), <1>0, <1>1, <1>3 DEF OwnerInv, Begin
<1>8. ASSUME NEW d \in Clients, call'[d].pc = "write"
      PROVE  (Dead(w[call[d].run]) \/ Cancelling(call[d].run))'
  <2>1. d # c /\ call'[d] = call[d] /\ call[d].run \in Runs /\ call[d].run # r
    BY Zenon, <1>1, <1>3, <1>8 DEF Begin
  <2>2. Dead(w[call[d].run]) \/ Cancelling(call[d].run)
    BY ZenonT(40), <1>8, <2>1 DEF Service
  <2>3. Cancelling(call[d].run) =>
          \E e \in Clients : call'[e].pc \in {"wait", "forget"} /\ call'[e].run = call[d].run
    BY Zenon, <1>1 DEF Cancelling, Begin
  <2>4. QED
    BY ZenonT(40), <1>1, <2>1, <2>2, <2>3 DEF Cancelling
<1>9. QED
  BY ZenonT(40), <1>2, <1>5, <1>6, <1>7, <1>8 DEF Service

LEMMA BeginGoto ==
  ASSUME Types, NEW c \in Clients, call[c].pc \in Begin, NEW pc \in Begin \cup {"receipt"},
         Goto(c, pc)
  PROVE  /\ call'[c] \in CallSet
         /\ call' = [call EXCEPT ![c] = call'[c]]
         /\ call'[c].pc = pc /\ call'[c].run = call[c].run /\ call'[c].key = call[c].key
<1>1. call[c] \in [pc : Begin \cup {"receipt"}, run : Runs, key : Keys]
  BY Zenon DEF Types, CallSet, Begin, Later
<1>2. call'[c] = [call[c] EXCEPT !.pc = pc] /\ call' = [call EXCEPT ![c] = call'[c]]
  BY Zenon DEF Goto, Do, Types
<1>3. QED
  BY Zenon, <1>1, <1>2 DEF CallSet, Begin

\* A worker just spawned, and what is left of a start that failed.
LEMMA NewRecords ==
  /\ WInv([Fresh EXCEPT !.leader = "up", !.tree = TRUE])
  /\ \A left \in BOOLEAN, kids \in {FALSE} :
       /\ WInv([Fresh EXCEPT !.leader = "reaped", !.tree = left])
       /\ WInv([Fresh EXCEPT !.leader = "reaped", !.kids = kids, !.tree = left])
  /\ Fresh \in Record /\ WInv(Fresh)
<1>1. <<>> \in Seq({"Exited", "Cancelled"}) /\ DOMAIN <<>> = {}
  BY SMTT(40)
<1>2. ASSUME NEW y \in Record, y.leader \in {"none", "up", "reaped"}, y.leader = "up" => y.tree,
             y.ready = "no", y.kids = FALSE, y.slot = "none", y.reaper = FALSE,
             y.asked = "open", y.evs = <<>>, y.sup = "none", y.stray = FALSE
      PROVE  WInv(y)
  BY Zenon, <1>1, <1>2 DEF WInv, Dead
<1>3. Fresh \in Record /\ WInv(Fresh)
  <2>1. Fresh \in Record
    BY Zenon, <1>1 DEF Fresh, Record, Leaders, Stages, Results
  <2>2. /\ Fresh.leader = "none" /\ Fresh.ready = "no" /\ Fresh.kids = FALSE
        /\ Fresh.slot = "none" /\ Fresh.reaper = FALSE /\ Fresh.asked = "open"
        /\ Fresh.evs = <<>> /\ Fresh.sup = "none" /\ Fresh.stray = FALSE
    BY Zenon DEF Fresh
  <2>3. QED
    BY ZenonT(40), <1>2, <2>1, <2>2
<1>4. ASSUME NEW y, y = [Fresh EXCEPT !.leader = "up", !.tree = TRUE] PROVE WInv(y)
  <2>1. /\ y \in Record /\ y.leader = "up" /\ y.tree /\ y.ready = "no" /\ y.kids = FALSE
        /\ y.slot = "none" /\ y.reaper = FALSE /\ y.asked = "open"
        /\ y.evs = <<>> /\ y.sup = "none" /\ y.stray = FALSE
    BY ZenonT(40), <1>1, <1>4 DEF Fresh, Record, Leaders, Stages, Results
  <2>2. QED
    BY ZenonT(40), <1>2, <2>1
<1>5. ASSUME NEW left \in BOOLEAN, NEW kids \in {FALSE}, NEW y,
             \/ y = [Fresh EXCEPT !.leader = "reaped", !.tree = left]
             \/ y = [Fresh EXCEPT !.leader = "reaped", !.kids = kids, !.tree = left]
      PROVE  WInv(y)
  <2>1. /\ y \in Record /\ y.leader = "reaped" /\ y.ready = "no" /\ y.kids = FALSE
        /\ y.slot = "none" /\ y.reaper = FALSE /\ y.asked = "open"
        /\ y.evs = <<>> /\ y.sup = "none" /\ y.stray = FALSE
    BY ZenonT(40), <1>1, <1>5 DEF Fresh, Record, Leaders, Stages, Results
  <2>2. QED
    BY ZenonT(40), <1>2, <2>1
<1>6. QED
  BY ZenonT(40), <1>3, <1>4, <1>5

\* What the call that starts a run knows.
LEMMA Starter ==
  ASSUME Service, NEW c \in Clients, call[c].pc \in Begin
  PROVE  /\ call[c].run \in Runs /\ call[c].key \in Keys
         /\ starting[call[c].run] = call[c].key /\ runs[call[c].run] = None
         /\ RunInv(call[c].run) /\ WInv(w[call[c].run]) /\ CallInv(c)
<1>1. Types
  BY ZenonT(40) DEF Service
<1>2. call[c].pc # "idle" /\ call[c].run \in Runs /\ call[c].key \in Keys
  BY Zenon, <1>1, CallFields DEF Begin
<1>3. RunInv(call[c].run) /\ CallInv(c)
  BY Zenon, <1>2 DEF Service
<1>4. starting[call[c].run] = call[c].key /\ runs[call[c].run] = None
  BY Zenon DEF Service, OwnerInv
<1>5. QED
  BY ZenonT(40), <1>2, <1>3, <1>4 DEF RunInv

LEMMA ReserveKeeps ==
  ASSUME Service, NEW c \in Clients, NEW r \in Runs, NEW k \in Keys, Reserve(c, r, k)
  PROVE  Service'
<1>0. /\ Types /\ w \in [Runs -> Record] /\ call \in [Clients -> CallSet] /\ RunInv(r)
      /\ starting \in [Runs -> Keys \cup {None}] /\ KeyInv /\ k # None
  BY ZenonT(40), ExecutionAssumption DEF Service, Types
<1>1. /\ call[c].pc = "idle" /\ shutdown = "no" /\ runs[r] = None /\ starting[r] = None
      /\ replay[k] = None /\ \A q \in Runs : starting[q] # k
      /\ starting' = [starting EXCEPT ![r] = k]
      /\ UNCHANGED <<w, children, completed, finished, runs, replay, workers, shutdown>>
      /\ call' = [call EXCEPT ![c] = call'[c]]
      /\ call'[c] = [pc |-> "spawn", run |-> r, key |-> k]
  BY Zenon, <1>0 DEF Reserve, At, Do, backend
<1>2. call'[c] \in CallSet /\ call'[c].pc = "spawn" /\ call'[c].run = r /\ call'[c].key = k
  BY SMTT(40), <1>1 DEF CallSet, Begin
<1>3. /\ w[r].slot = "none" /\ w[r].leader \in {"none", "reaped"} /\ WInv(w[r])
      /\ r \notin children
  BY ZenonT(40), <1>0, <1>1 DEF RunInv
<1>4. CallInv(c)'
  BY ZenonT(40), <1>1, <1>2, <1>3 DEF CallInv, Later
<1>5. KeyInv'
  BY Zenon, <1>0, <1>1 DEF KeyInv
<1>6. starting' \in [Runs -> Keys \cup {None}] /\ starting'[r] = k
      /\ \A q \in Runs \ {r} : starting'[q] = starting[q]
  BY Zenon, <1>0, <1>1
<1>7. w' = [w EXCEPT ![r] = w'[r]]
  BY Zenon, <1>0, <1>1
<1>8. QED
  BY Zenon, <1>1, <1>2, <1>3, <1>4, <1>5, <1>6, <1>7, StartStep DEF Begin

\* Giving the reservation back once nothing of the worker is left.
LEMMA UnreserveKeeps ==
  ASSUME Service, NEW c \in Clients, call[c].pc \in Begin, shutdown = "no", Unreserve(c),
         w[call[c].run].slot = "none", w' = [w EXCEPT ![call[c].run] = w'[call[c].run]],
         UNCHANGED <<children, completed, finished, shutdown>>,
         WInv(w'[call[c].run]), w'[call[c].run].slot = "none",
         w'[call[c].run].leader \in {"none", "reaped"}
  PROVE  Service'
<1> DEFINE r == call[c].run
<1>0. /\ Types /\ starting \in [Runs -> Keys \cup {None}] /\ KeyInv
  BY Zenon DEF Service, Types
<1>1. r \in Runs /\ runs[r] = None /\ RunInv(r)
  BY Zenon, Starter
<1>2. /\ starting' = [starting EXCEPT ![r] = None] /\ Return(c)
      /\ UNCHANGED <<runs, replay, workers>>
  BY Zenon DEF Unreserve
<1>3. starting' \in [Runs -> Keys \cup {None}] /\ starting'[r] = None
      /\ \A q \in Runs \ {r} : starting'[q] = starting[q]
  BY ZenonT(40), <1>0, <1>1, <1>2
<1>4. KeyInv'
  BY Zenon, <1>0, <1>2, <1>3 DEF KeyInv
<1>5. CallInv(c)'
  BY Zenon, <1>0, <1>2, ReturnSets DEF CallInv, Later
<1>6. r \notin children
  BY ZenonT(40), <1>1 DEF RunInv
<1>7. QED
  BY ZenonT(40), <1>0, <1>1, <1>2, <1>3, <1>4, <1>5, <1>6, ReturnSets, StartStep DEF Begin

LEMMA SpawnKeeps ==
  ASSUME Service, NEW c \in Clients, BackendSpawn(c)
  PROVE  Service'
<1> DEFINE r == call[c].run
<1>0. /\ Types /\ w \in [Runs -> Record] /\ starting \in [Runs -> Keys \cup {None}] /\ KeyInv
  BY Zenon DEF Service, Types
<1>1. call[c].pc = "spawn" /\ shutdown = "no" /\ UNCHANGED shutdown
  BY Zenon DEF BackendSpawn, At
<1>2. /\ r \in Runs /\ call[c].key \in Keys /\ starting[r] = call[c].key /\ runs[r] = None
      /\ RunInv(r) /\ WInv(w[r])
      /\ w[r].slot = "none" /\ w[r].leader \in {"none", "reaped"} /\ r \notin children
  BY ZenonT(40), <1>1, Starter DEF Begin, CallInv, RunInv
<1>3. CASE Spawn(r) /\ Goto(c, "ready") /\ UNCHANGED service
  <2>1. /\ w'[r] = [Fresh EXCEPT !.leader = "up", !.tree = TRUE]
        /\ w' = [w EXCEPT ![r] = w'[r]] /\ Same
    BY Zenon, <1>0, <1>2, <1>3, PutSets DEF Spawn
  <2>2. WInv(w'[r]) /\ w'[r].slot = "none" /\ w'[r].leader = "up"
    BY ZenonT(40), <2>1, NewRecords DEF Fresh
  <2>3. /\ call'[c] \in CallSet /\ call' = [call EXCEPT ![c] = call'[c]]
        /\ call'[c].pc = "ready" /\ call'[c].run = r /\ call'[c].key = call[c].key
    BY ZenonT(40), <1>0, <1>1, <1>3, BeginGoto DEF Begin
  <2>4. CallInv(c)'
    BY ZenonT(40), <2>2, <2>3 DEF CallInv, Later
  <2>5. KeyInv' /\ UNCHANGED <<runs, replay, starting, workers>>
    BY ZenonT(40), <1>0, <1>3 DEF KeyInv, service
  <2>6. QED
    BY ZenonT(40), <1>0, <1>1, <1>2, <2>1, <2>2, <2>3, <2>4, <2>5, StartStep DEF Begin, Same
<1>4. CASE UNCHANGED backend /\ Unreserve(c)
  BY ZenonT(40), <1>0, <1>1, <1>2, <1>4, UnreserveKeeps DEF backend, Begin
<1>5. QED
  BY Zenon, <1>3, <1>4 DEF BackendSpawn

LEMMA ReadyKeeps ==
  ASSUME Service, NEW c \in Clients, BackendReady(c)
  PROVE  Service'
<1> DEFINE r == call[c].run
           x == w[r]
           y == w'[r]
<1>0. /\ Types /\ w \in [Runs -> Record] /\ starting \in [Runs -> Keys \cup {None}] /\ KeyInv
  BY Zenon DEF Service, Types
<1>1. call[c].pc = "ready" /\ shutdown = "no" /\ Publish(r) /\ Goto(c, "commit")
      /\ UNCHANGED <<runs, replay, starting, workers, shutdown>>
  BY ZenonT(40) DEF BackendReady, At, service
<1>2. /\ r \in Runs /\ call[c].key \in Keys /\ starting[r] = call[c].key /\ runs[r] = None
      /\ x \in Record /\ WInv(x) /\ x.slot = "none" /\ x.leader \notin {"none", "reaped"}
  BY ZenonT(40), <1>1, Starter DEF Begin, CallInv, WInv
<1>3. /\ y = [x EXCEPT !.slot = "Live", !.reaper = TRUE, !.sup = "entry"]
      /\ w' = [w EXCEPT ![r] = y] /\ x.ready = "yes"
      /\ children' = children \cup {r} /\ UNCHANGED <<completed, finished>>
  BY Zenon, <1>0, <1>1, <1>2, PutSets DEF Publish
<1>4. /\ y \in Record /\ y.slot = "Live" /\ y.sup = "entry" /\ y.asked = x.asked
      /\ y.leader = x.leader /\ y.ready = x.ready /\ y.evs = x.evs /\ y.kids = x.kids
      /\ y.tree = x.tree /\ y.stray = x.stray
  BY ZenonT(40), <1>2, <1>3 DEF Record, Stages
<1>5. x.leader \in {"up", "forking", "killed", "zombie"}
  BY Zenon, <1>2 DEF Record, Leaders
<1>6. WInv(y) /\ y.asked = "open"
  BY ZenonT(40), <1>2, <1>3, <1>4, <1>5 DEF WInv, Dead
<1>7. /\ call'[c] \in CallSet /\ call' = [call EXCEPT ![c] = call'[c]]
      /\ call'[c].pc = "commit" /\ call'[c].run = r /\ call'[c].key = call[c].key
  BY Zenon, <1>0, <1>1, BeginGoto DEF Begin
<1>8. CallInv(c)'
  BY Zenon, <1>4, <1>7 DEF CallInv, Later
<1>9. KeyInv'
  BY Zenon, <1>0, <1>1 DEF KeyInv
<1>10. QED
  BY ZenonT(40), <1>0, <1>1, <1>2, <1>3, <1>4, <1>6, <1>7, <1>8, <1>9, StartStep DEF Begin

LEMMA AbortKeeps ==
  ASSUME Service, NEW c \in Clients, BackendAbort(c)
  PROVE  Service'
<1> DEFINE r == call[c].run
           x == w[r]
           y == w'[r]
<1>0. /\ Types /\ w \in [Runs -> Record] /\ starting \in [Runs -> Keys \cup {None}] /\ KeyInv
  BY Zenon DEF Service, Types
<1>1. call[c].pc = "ready" /\ shutdown = "no" /\ AbortSweep(r) /\ Goto(c, "abort")
      /\ UNCHANGED <<runs, replay, starting, workers, shutdown>>
  BY ZenonT(40) DEF BackendAbort, At, service
<1>2. /\ r \in Runs /\ call[c].key \in Keys /\ starting[r] = call[c].key /\ runs[r] = None
      /\ x \in Record /\ WInv(x) /\ x.slot = "none" /\ x.leader \notin {"none", "reaped"}
      /\ RunInv(r)
  BY ZenonT(40), <1>1, Starter DEF Begin, CallInv, WInv
<1>3. y = Sweep(x) /\ w' = [w EXCEPT ![r] = y] /\ Same
  BY ZenonT(40), <1>0, <1>1, <1>2, PutSets DEF AbortSweep
<1>4. /\ y \in Record /\ ~y.kids /\ ~y.stray /\ y.slot = "none" /\ y.sup = x.sup
      /\ y.asked = x.asked /\ y.reaper = x.reaper /\ y.ready = x.ready /\ y.evs = x.evs
      /\ y.result = x.result /\ y.tree = x.tree
      /\ y.leader \notin {"none", "reaped"}
      /\ x.leader \notin {"forking", "killed"} => y.leader = "zombie"
  <2>1. /\ y \in Record /\ ~y.kids /\ y.slot = x.slot /\ y.sup = x.sup
        /\ y.asked = x.asked /\ y.reaper = x.reaper /\ y.ready = x.ready /\ y.evs = x.evs
        /\ y.result = x.result /\ y.tree = x.tree
        /\ y.stray = (x.stray \/ x.leader = "reaped")
        /\ y.leader = (CASE x.leader = "up" -> "zombie"
                         [] x.leader = "forking" -> "killed"
                         [] OTHER -> x.leader)
    BY <1>2, <1>3, SweepKeeps
  <2>2. ~x.stray /\ x.leader \in {"up", "forking", "killed", "zombie"}
    BY Zenon, <1>2 DEF WInv, Record, Leaders
  <2>3. /\ y.leader \notin {"none", "reaped"}
        /\ x.leader \notin {"forking", "killed"} => y.leader = "zombie"
    BY <2>1, <2>2
  <2>4. ~y.stray
    BY Zenon, <1>2, <2>1, <2>2
  <2>5. QED
    BY ZenonT(60), <1>2, <2>1, <2>3, <2>4
<1>5. WInv(y)
  BY ZenonT(40), <1>2, <1>4 DEF WInv, Dead
<1>6. /\ call'[c] \in CallSet /\ call' = [call EXCEPT ![c] = call'[c]]
      /\ call'[c].pc = "abort" /\ call'[c].run = r /\ call'[c].key = call[c].key
  BY ZenonT(40), <1>0, <1>1, BeginGoto DEF Begin
<1>7. CallInv(c)'
  BY ZenonT(40), <1>4, <1>6 DEF CallInv, Later
<1>8. KeyInv' /\ r \notin children
  BY ZenonT(40), <1>0, <1>1, <1>2 DEF KeyInv, RunInv
<1>9. QED
  BY ZenonT(40), <1>0, <1>1, <1>2, <1>3, <1>4, <1>5, <1>6, <1>7, <1>8, StartStep DEF Begin, Same

LEMMA AbortedKeeps ==
  ASSUME Service, NEW c \in Clients, BackendAborted(c)
  PROVE  Service'
<1> DEFINE r == call[c].run
<1>0. Types /\ w \in [Runs -> Record]
  BY Zenon DEF Service, Types
<1>1. /\ call[c].pc \in {"ready", "abort"} /\ shutdown = "no" /\ Unreserve(c)
      /\ UNCHANGED shutdown
  BY Zenon DEF BackendAborted, At
<1>2. r \in Runs /\ WInv(w[r]) /\ w[r].slot = "none"
  BY ZenonT(40), <1>1, Starter DEF Begin, CallInv
<1>3. CASE AbortReap(r)
  <2>1. PICK left \in BOOLEAN : Put(r, [Fresh EXCEPT !.leader = "reaped", !.tree = left])
    BY ZenonT(40), <1>3 DEF AbortReap
  <2>2. /\ w'[r] = [Fresh EXCEPT !.leader = "reaped", !.tree = left]
        /\ w' = [w EXCEPT ![r] = w'[r]] /\ Same
    BY ZenonT(60), <1>0, <1>2, <1>3, <2>1, PutSets DEF AbortReap
  <2>3. WInv(w'[r]) /\ w'[r].slot = "none" /\ w'[r].leader = "reaped"
    BY ZenonT(40), <2>2, NewRecords DEF Fresh
  <2>4. QED
    BY ZenonT(40), <1>1, <1>2, <2>2, <2>3, UnreserveKeeps DEF Begin, Same
<1>4. CASE AwaitFailed(r)
  <2>1. PICK left \in BOOLEAN :
          Put(r, [Fresh EXCEPT !.leader = "reaped", !.kids = w[r].kids, !.tree = left])
    BY ZenonT(40), <1>4 DEF AwaitFailed
  <2>2. w[r].kids = FALSE
    BY Zenon, <1>2, <1>4 DEF AwaitFailed, WInv, Record
  <2>3. /\ w'[r] = [Fresh EXCEPT !.leader = "reaped", !.kids = w[r].kids, !.tree = left]
        /\ w' = [w EXCEPT ![r] = w'[r]] /\ Same
    BY ZenonT(60), <1>0, <1>2, <1>4, <2>1, PutSets DEF AwaitFailed
  <2>4. WInv(w'[r]) /\ w'[r].slot = "none" /\ w'[r].leader = "reaped"
    <3>1. w[r].kids \in {FALSE}
      BY ZenonT(40), <2>2
    <3>2. WInv([Fresh EXCEPT !.leader = "reaped", !.kids = w[r].kids, !.tree = left])
      BY ZenonT(40), <3>1, NewRecords
    <3>3. w'[r].slot = "none" /\ w'[r].leader = "reaped"
      BY Zenon, <2>3 DEF Fresh
    <3>4. QED
      BY Zenon, <2>3, <3>2, <3>3
  <2>5. QED
    BY ZenonT(40), <1>1, <1>2, <2>3, <2>4, UnreserveKeeps DEF Begin, Same
<1>5. QED
  BY Zenon, <1>3, <1>4 DEF BackendAborted

\* The second critical section of start: the run is known and its key leads to it.
LEMMA CommitKeeps ==
  ASSUME Service, NEW c \in Clients, Commit(c)
  PROVE  Service'
<1> DEFINE r == call[c].run
           k == call[c].key
<1>0. /\ Types /\ call \in [Clients -> CallSet] /\ KeyInv /\ OwnerInv
      /\ starting \in [Runs -> Keys \cup {None}] /\ runs \in [Runs -> States \cup {None}]
      /\ replay \in [Keys -> Runs \cup {None}] /\ workers \in [Keys -> SUBSET Runs]
  BY ZenonT(60) DEF Service, Types
<1>1. /\ call[c].pc = "commit" /\ shutdown = "no" /\ Goto(c, "receipt")
      /\ UNCHANGED <<w, children, completed, finished, shutdown>>
      /\ starting' = [starting EXCEPT ![r] = None]
      /\ replay' = [replay EXCEPT ![k] = r]
      /\ runs' = [runs EXCEPT ![r] = "Running"]
      /\ workers' = [workers EXCEPT ![k] = @ \cup {r}]
  BY Zenon DEF Commit, At, backend
<1>2. /\ r \in Runs /\ k \in Keys /\ k # None /\ starting[r] = k /\ runs[r] = None
      /\ w[r].slot # "none" /\ "Running" \in States /\ "Running" # None
  BY ZenonT(40), <1>1, Starter, ExecutionAssumption DEF Begin, CallInv, States, Active
<1>3. /\ call'[c] \in CallSet /\ call' = [call EXCEPT ![c] = call'[c]]
      /\ call'[c].pc = "receipt" /\ call'[c].run = r
      /\ \A d \in Clients \ {c} : call'[d] = call[d]
  BY Zenon, <1>0, <1>1, BeginGoto DEF Begin
<1>4. /\ starting'[r] = None /\ \A q \in Runs \ {r} : starting'[q] = starting[q]
      /\ runs'[r] = "Running" /\ \A q \in Runs \ {r} : runs'[q] = runs[q]
      /\ replay'[k] = r /\ \A j \in Keys \ {k} : replay'[j] = replay[j]
      /\ workers'[k] = workers[k] \cup {r} /\ \A j \in Keys \ {k} : workers'[j] = workers[j]
  BY ZenonT(40), <1>0, <1>1, <1>2
<1>5. Types'
  BY ZenonT(40), <1>0, <1>1, <1>2, <1>3 DEF Types
<1>6. ASSUME NEW q \in Runs
      PROVE  (Waits(q)' <=> Waits(q)) /\ (Cancelling(q)' <=> Cancelling(q))
  BY ZenonT(40), <1>1, <1>3 DEF Waits, Cancelling
<1>7. ASSUME NEW q \in Runs PROVE RunInv(q)'
  <2>1. RunInv(q)
    BY Zenon DEF Service
  <2>2. CASE q # r
    <3>1. (\E d \in Clients : Holds(d, q)) => (\E d \in Clients : Holds(d, q))'
      BY Zenon, <1>3, <2>2 DEF Holds
    <3>2. QED
      BY ZenonT(40), <1>1, <1>4, <1>6, <2>1, <2>2, <3>1 DEF RunInv, Ended
  <2>3. CASE q = r
    BY ZenonT(40), <1>1, <1>2, <1>4, <1>6, <2>1, <2>3 DEF RunInv, Ended
  <2>4. QED
    BY Zenon, <2>2, <2>3
<1>8. ASSUME NEW d \in Clients PROVE CallInv(d)'
  <2>1. CallInv(d) /\ (call[d].pc # "idle" => call[d].run \in Runs)
    BY Zenon, <1>0, CallFields DEF Service
  <2>2. CASE d = c
    BY ZenonT(40), <1>2, <1>3, <1>4, <2>2 DEF CallInv, Later
  <2>3. CASE d # c
    <3>1. call[d].pc # "idle" /\ runs[call[d].run] # None => runs'[call[d].run] # None
      BY ZenonT(60), <1>2, <1>4, <2>1
    <3>2. QED
      BY ZenonT(40), <1>1, <1>3, <2>1, <2>3, <3>1 DEF CallInv, Later
  <2>4. QED
    BY Zenon, <2>2, <2>3
<1>9. KeyInv'
  <2>1. workers[k] = {}
    <3>1. workers[k] \subseteq {replay[k]} \cap Runs
      BY Zenon, <1>0, <1>2 DEF KeyInv
    <3>2. replay[starting[r]] = None
      BY Zenon, <1>0, <1>2 DEF KeyInv
    <3>3. replay[k] = None
      BY Zenon, <1>2, <3>2
    <3>4. None \notin Runs
      BY Zenon, ExecutionAssumption
    <3>5. QED
      BY Zenon, <3>1, <3>3, <3>4
  <2>2. \A q \in Runs \ {r} : starting[q] # k
    BY ZenonT(150), <1>0, <1>2 DEF KeyInv
  <2>3. ASSUME NEW j \in Keys PROVE workers'[j] \subseteq {replay'[j]} \cap Runs
    <3>1. CASE j = k
      <4>1. workers'[j] = {r} /\ replay'[j] = r
        BY Zenon, <1>4, <2>1, <3>1
      <4>2. QED
        BY Zenon, <1>2, <4>1
    <3>2. CASE j # k
      <4>1. workers'[j] = workers[j] /\ replay'[j] = replay[j]
        BY Zenon, <1>4, <3>2
      <4>2. QED
        BY Zenon, <1>0, <4>1 DEF KeyInv
    <3>3. QED
      BY Zenon, <3>1, <3>2
  <2>4. ASSUME NEW q \in Runs, starting'[q] # None
        PROVE  replay'[starting'[q]] = None /\ starting'[q] = starting[q] /\ q # r
    <3>1. q # r /\ starting'[q] = starting[q] /\ starting[q] \in Keys \ {k}
      BY ZenonT(150), <1>0, <1>4, <2>2, <2>4
    <3>2. QED
      <4>1. starting[q] # None /\ replay'[starting[q]] = replay[starting[q]]
        BY Zenon, <1>4, <2>4, <3>1
      <4>2. replay[starting[q]] = None
        BY Zenon, <1>0, <4>1 DEF KeyInv
      <4>3. QED
        BY Zenon, <3>1, <4>1, <4>2
  <2>5. QED
    BY ZenonT(150), <1>0, <2>3, <2>4 DEF KeyInv
<1>10. OwnerInv'
  <2>1. ASSUME NEW d \in Clients, call'[d].pc \in Begin
        PROVE  d # c /\ call'[d] = call[d] /\ call[d].run \in Runs /\ call[d].run # r
    <3>1. d # c /\ call'[d] = call[d]
      BY ZenonT(60), <1>3, <2>1 DEF Begin
    <3>2. call[d].run \in Runs
      BY ZenonT(60), <1>0, <2>1, <3>1, CallFields DEF Begin
    <3>3. QED
      BY ZenonT(40), <1>0, <1>1, <2>1, <3>1, <3>2 DEF OwnerInv, Begin
  <2>2. QED
    BY SMTT(60), <1>0, <1>4, <2>1 DEF OwnerInv
<1>11. ASSUME NEW d \in Clients, call'[d].pc = "write"
       PROVE  (Dead(w[call[d].run]) \/ Cancelling(call[d].run))'
  <2>1. /\ call'[d] = call[d]
        /\ Dead(w[call[d].run]) \/ Cancelling(call[d].run)
    BY ZenonT(60), <1>3, <1>11 DEF Service
  <2>2. Cancelling(call[d].run) =>
          \E e \in Clients : call'[e].pc \in {"wait", "forget"} /\ call'[e].run = call[d].run
    BY Zenon, <1>1, <1>3 DEF Cancelling
  <2>3. QED
    BY ZenonT(40), <1>1, <2>1, <2>2 DEF Cancelling
<1>12. QED
  BY ZenonT(40), <1>1, <1>5, <1>7, <1>8, <1>9, <1>10, <1>11 DEF Service

-----------------------------------------------------------------------------
(* Dropping the backend.                                                   *)

LEMMA DropKeeps ==
  ASSUME Service, DropBackend
  PROVE  Service'
<1> USE DEF service
<1>0. Types /\ w \in [Runs -> Record]
  BY Zenon DEF Service, Types
<1>1. /\ shutdown = "no" /\ shutdown' = "waiting" /\ children' = {}
      /\ w' = [r \in Runs |-> IF r \in children THEN [w[r] EXCEPT !.asked = "sent"] ELSE w[r]]
      /\ UNCHANGED <<completed, finished, runs, replay, starting, workers, call>>
      /\ \A c \in Clients : call[c].pc = "idle"
  BY DEF DropBackend, Idle
<1>2. ASSUME NEW r \in Runs, r \notin children PROVE w'[r] = w[r]
  BY ZenonT(60), <1>1, <1>2
<1>3. ASSUME NEW r \in Runs, r \in children
      PROVE  /\ w'[r] \in Record /\ Alike(w[r], w'[r]) /\ w'[r].tree = w[r].tree
             /\ w'[r].asked = "sent" /\ w'[r].evs = w[r].evs /\ w'[r].sup = w[r].sup
             /\ w'[r].result = w[r].result /\ w'[r].slot # "none"
             /\ WInv(w'[r]) /\ (Dead(w[r]) <=> Dead(w'[r]))
  <2> DEFINE x == w[r]
             y == w'[r]
  <2>1. y = [x EXCEPT !.asked = "sent"] /\ x \in Record /\ RunInv(r) /\ WInv(x)
    BY ZenonT(60), <1>0, <1>1, <1>3 DEF Service, RunInv
  <2>2. /\ y \in Record /\ Alike(x, y) /\ y.tree = x.tree /\ y.asked = "sent"
        /\ y.evs = x.evs /\ y.sup = x.sup /\ y.result = x.result
    BY Zenon, <2>1 DEF Alike, Record
  <2>3. x.slot # "none"
    BY ZenonT(60), <1>3, <2>1 DEF RunInv
  <2>4. WInv(y) /\ (Dead(x) <=> Dead(y))
    BY ZenonT(60), <2>1, <2>2, <2>3 DEF WInv, Dead, Alike
  <2>5. QED
    BY ZenonT(60), <2>2, <2>3, <2>4 DEF Alike
<1>4. Types'
  <2>1. \A r \in Runs : w'[r] \in Record
    BY ZenonT(60), <1>0, <1>2, <1>3
  <2>2. w' \in [Runs -> Record]
    BY ZenonT(60), <1>1, <2>1
  <2>3. QED
    BY ZenonT(60), <1>0, <1>1, <2>2 DEF Types
<1>5. ASSUME NEW q \in Runs PROVE RunInv(q)'
  <2>1. RunInv(q)
    BY Zenon DEF Service
  <2>2. /\ Waits(q)' <=> Waits(q)
        /\ Cancelling(q)' <=> Cancelling(q)
        /\ (\E d \in Clients : Holds(d, q))' <=> (\E d \in Clients : Holds(d, q))
    BY Zenon, <1>1 DEF Waits, Holds, Cancelling
  <2>3. CASE q \notin children
    BY ZenonT(60), <1>1, <1>2, <2>1, <2>2, <2>3 DEF RunInv, Ended
  <2>4. CASE q \in children
    BY ZenonT(60), <1>1, <1>3, <2>1, <2>2, <2>4 DEF RunInv, Ended, Alike
  <2>5. QED
    BY ZenonT(60), <2>3, <2>4
<1>6. \A c \in Clients : CallInv(c)'
  BY Zenon, <1>1 DEF CallInv, Later
<1>7. KeyInv' /\ OwnerInv'
  BY ZenonT(60), <1>1 DEF Service, KeyInv, OwnerInv
<1>8. QED
  BY ZenonT(60), <1>1, <1>4, <1>5, <1>6, <1>7 DEF Service

\* Steps that change nothing the invariant is about, or only that the backend is gone.
LEMMA RestKeeps ==
  ASSUME Service, Provision \/ Dropped \/ UNCHANGED vars
  PROVE  Service'
<1>1. /\ UNCHANGED <<w, children, completed, finished, runs, replay, starting, workers, call>>
      /\ shutdown' = shutdown \/ (shutdown = "waiting" /\ shutdown' = "done")
  BY ZenonT(40) DEF Provision, Dropped, vars, backend, service
<1>2. Types'
  BY Zenon, <1>1 DEF Service, Types
<1>3. ASSUME NEW q \in Runs PROVE RunInv(q)'
  <2>1. RunInv(q)
    BY Zenon DEF Service
  <2>2. /\ Waits(q)' <=> Waits(q)
        /\ Cancelling(q)' <=> Cancelling(q)
        /\ (\E d \in Clients : Holds(d, q))' <=> (\E d \in Clients : Holds(d, q))
    BY Zenon, <1>1 DEF Waits, Holds, Cancelling
  <2>3. QED
    BY ZenonT(40), <1>1, <2>1, <2>2 DEF RunInv, Ended
<1>4. \A c \in Clients : CallInv(c)'
  BY ZenonT(40), <1>1 DEF Service, CallInv
<1>5. KeyInv' /\ OwnerInv'
  BY ZenonT(40), <1>1 DEF Service, KeyInv, OwnerInv
<1>6. \A c \in Clients : call'[c].pc = "write" =>
         (Dead(w[call[c].run]) \/ Cancelling(call[c].run))'
  BY ZenonT(40), <1>1 DEF Service, Cancelling
<1>7. QED
  BY ZenonT(60), <1>1, <1>2, <1>3, <1>4, <1>5, <1>6 DEF Service

LEMMA InitHolds == Init => Service
<1> SUFFICES ASSUME Init PROVE Service
  BY Zenon
<1> USE DEF Init, BackendInit
<1>1. /\ \A r \in Runs : w[r] = Fresh /\ runs[r] = None /\ starting[r] = None
                         /\ completed[r] = "none" /\ finished[r] = "none"
      /\ \A c \in Clients : call[c] = Idle /\ call[c].pc = "idle"
      /\ \A k \in Keys : workers[k] = {} /\ replay[k] = None
      /\ children = {} /\ shutdown = "no"
  BY Zenon DEF Idle
<1>2. Types
  <2>1. Idle \in CallSet
    BY ZenonT(60) DEF Idle, CallSet
  <2>2. QED
    BY ZenonT(40), <2>1, NewRecords DEF Types, Results
<1>3. ASSUME NEW r \in Runs PROVE RunInv(r)
  <2>1. /\ WInv(w[r]) /\ w[r].slot = "none" /\ w[r].leader = "none" /\ w[r].asked = "open"
    BY ZenonT(40), <1>1, NewRecords DEF Fresh
  <2>2. Ended(r)
    BY ZenonT(60), <1>1, ExecutionAssumption DEF Ended, States, Terminal
  <2>3. QED
    BY ZenonT(60), <1>1, <2>1, <2>2 DEF RunInv
<1>4. \A c \in Clients : CallInv(c)
  BY ZenonT(40), <1>1 DEF CallInv, Later
<1>5. KeyInv /\ OwnerInv
  BY Zenon, <1>1 DEF KeyInv, OwnerInv, Begin
<1>6. QED
  BY ZenonT(60), <1>1, <1>2, <1>3, <1>4, <1>5 DEF Service

LEMMA NextKeeps == Service /\ [Next]_vars => Service'
<1> SUFFICES ASSUME Service, [Next]_vars PROVE Service'
  BY Zenon
<1>1. CASE Provision \/ Dropped \/ UNCHANGED vars
  BY Zenon, <1>1, RestKeeps
<1>2. CASE DropBackend
  BY Zenon, <1>2, DropKeeps
<1>3. CASE \E c \in Clients, r \in Runs, k \in Keys : Reserve(c, r, k)
  BY Zenon, <1>3, ReserveKeeps
<1>4. CASE \E c \in Clients, op \in Ops, r \in Runs : Call(c, op, r)
  BY ZenonT(60), <1>4, CallKeeps
<1>5. ASSUME NEW c \in Clients, Serve(c) PROVE Service'
  <2>1. CASE BackendSpawn(c) \/ BackendReady(c) \/ BackendAbort(c) \/ BackendAborted(c)
             \/ Commit(c)
    BY ZenonT(60), <2>1, SpawnKeeps, ReadyKeeps, AbortKeeps, AbortedKeeps, CommitKeeps
  <2>2. CASE Receipt(c) \/ Look(c) \/ Wait(c) \/ Poll(c) \/ Project(c) \/ Forget(c) \/ Write(c)
    BY ZenonT(60), <2>2, QuietKeeps, PollKeeps, ProjectKeeps, ForgetKeeps, WriteKeeps
  <2>3. CASE Release(c)
    BY Zenon, <2>3, ReleaseNothing, ReleaseCancels
  <2>4. QED
    BY ZenonT(60), <1>5, <2>1, <2>2, <2>3 DEF Serve
<1>6. ASSUME NEW r \in Runs, Supervise(r) \/ Worker(r), Rest PROVE Service'
  <2>0. w \in [Runs -> Record] /\ WInv(w[r])
    BY Zenon DEF Service, Types, RunInv
  <2>1. CASE Worker(r)
    BY ZenonT(60), <1>6, <2>0, <2>1, WorkerMoves, StepKeeps
  <2>2. CASE Retire(r)
    BY Zenon, <1>6, <2>2, RetireKeeps
  <2>3. CASE Notify(r)
    BY ZenonT(60), <1>6, <2>3, NotifyKeeps
  <2>4. CASE Supervise(r) /\ ~Retire(r) /\ ~Notify(r)
    BY Zenon, <1>6, <2>0, <2>4, SupervisorMoves, StepKeeps DEF Supervise
  <2>5. QED
    BY ZenonT(60), <1>6, <2>1, <2>2, <2>3, <2>4
<1>7. QED
  BY ZenonT(60), <1>1, <1>2, <1>3, <1>4, <1>5, <1>6 DEF Next

LEMMA ServiceInvariant == Spec => []Service
<1>1. QED
  BY InitHolds, NextKeeps, PTL DEF Spec

-----------------------------------------------------------------------------

\* A run's pid is given back only after its group was killed for the last time, so no
\* deadline, cancellation or failed start signals a process that is not the run's.
THEOREM NeverAStraySignal == Spec => []NoStraySignal
<1>1. Service => NoStraySignal
  BY ZenonT(40) DEF Service, RunInv, WInv, NoStraySignal
<1>2. QED
  BY <1>1, ServiceInvariant, PTL

\* The ephemeral tree of a run is there as long as anything of the run executes.
THEOREM TreeIsLast == Spec => []TreeOutlivesGroup
<1>1. Service => TreeOutlivesGroup
  BY ZenonT(40) DEF Service, RunInv, WInv, TreeOutlivesGroup, Stopped, Dead
<1>2. QED
  BY <1>1, ServiceInvariant, PTL

\* A run the service calls succeeded, failed, cancelled or cleaned has stopped, or a
\* cancellation of it has not returned yet.
THEOREM RecordedEndIsReal == Spec => []StoppedUnlessCancelling
<1>1. Service => StoppedUnlessCancelling
  <2> SUFFICES ASSUME Service, NEW r \in Runs, runs[r] \in Terminal \cup {"Cleaned"}
               PROVE  Stopped(r) \/ Cancelling(r)
    BY Zenon DEF StoppedUnlessCancelling
  <2>1. RunInv(r)
    BY ZenonT(60) DEF Service
  <2>2. w[r].sup \in Reported \/ Dead(w[r]) \/ Cancelling(r)
    BY ZenonT(60), <2>1 DEF RunInv, Ended, Terminal
  <2>3. QED
    BY ZenonT(40), <2>1, <2>2 DEF RunInv, WInv, Reported, Stopped, Dead
<1>2. QED
  BY <1>1, ServiceInvariant, PTL

\* Whoever retries a start, and however the retries interleave, a replay key starts at
\* most one run.
THEOREM KeysAreIdempotent == Spec => []OneRunPerKey
<1>1. Service => OneRunPerKey
  <2> SUFFICES ASSUME Service, NEW k \in Keys PROVE Cardinality(workers[k]) <= 1
    BY Zenon DEF OneRunPerKey
  <2>1. workers[k] \subseteq {replay[k]}
    BY ZenonT(40) DEF Service, KeyInv
  <2>2. workers[k] = {} \/ workers[k] = {replay[k]}
    BY Zenon, <2>1
  <2>3. Cardinality({}) = 0 /\ Cardinality({replay[k]}) = 1
    BY ZenonT(40), FS_EmptySet, FS_Singleton
  <2>4. QED
    BY <2>2, <2>3
<1>2. QED
  BY <1>1, ServiceInvariant, PTL

\* A failure is never overwritten: a cancellation that succeeded did so because the
\* supervisor's result was no error, and that result is the one the service recorded.
THEOREM FailureIsFinal == Spec => FailureStays
<1> DEFINE Keeps == \A r \in Runs : runs[r] = "Failed" => runs'[r] \in {"Failed", "Cleaned"}
<1>1. Service /\ [Next]_vars => [Keeps]_vars
  <2> SUFFICES ASSUME Service, Next, NEW r \in Runs, runs[r] = "Failed"
               PROVE  runs'[r] \in {"Failed", "Cleaned"}
    BY Zenon
  <2>0. runs \in [Runs -> States \cup {None}] /\ RunInv(r) /\ "Failed" # None
    BY ZenonT(40), ExecutionAssumption DEF Service, Types, States, Terminal
  <2>1. ASSUME NEW c \in Clients, Commit(c) PROVE runs'[r] = "Failed"
    <3>1. runs[call[c].run] = None /\ runs' = [runs EXCEPT ![call[c].run] = "Running"]
      BY ZenonT(40), <2>1, Starter DEF Commit, At, Begin
    <3>2. QED
      BY Zenon, <2>0, <3>1
  <2>2. ASSUME NEW c \in Clients, Project(c) PROVE runs'[r] = "Failed"
    BY Zenon, <2>0, <2>2 DEF Project, Active
  <2>3. ASSUME NEW c \in Clients, Write(c) PROVE runs'[r] \in {"Failed", "Cleaned"}
    <3>1. call[c].pc = "write" /\ CallInv(c)
          /\ runs' = [runs EXCEPT ![call[c].run] = IF call[c].op = "cancel" THEN "Cancelled"
                                                                         ELSE "Cleaned"]
      BY ZenonT(40), <2>3 DEF Write, At, Entries, Service
    <3>2. CASE call[c].run = r
      <4>1. call[c].op # "cancel"
        BY ZenonT(40), <2>0, <3>1, <3>2 DEF CallInv, RunInv, Ended
      <4>2. QED
        BY Zenon, <2>0, <3>1, <3>2, <4>1
    <3>3. CASE call[c].run # r
      BY Zenon, <2>0, <3>1, <3>3
    <3>4. QED
      BY Zenon, <3>2, <3>3
  <2>4. CASE UNCHANGED runs
    BY Zenon, <2>4
  <2>5. QED
    BY ZenonT(40), <2>1, <2>2, <2>3, <2>4
    DEF Next, Provision, DropBackend, Dropped, Reserve, Call, Serve, BackendSpawn,
        BackendReady, BackendAbort, BackendAborted, Unreserve, Receipt, Poll, Look, Release,
        Wait, Forget, Rest, service
<1>2. QED
  BY <1>1, ServiceInvariant, PTL DEF Spec, FailureStays

\* What waiting for every drained control leaves behind.
Drained ==
  shutdown = "done" => \A r \in Runs : w[r].asked # "open" => finished[r] # "none"

\* Once the backend is dropped nothing that any of its starts began executes: what is
\* published was asked and waited for, or was over, and what is not published was
\* aborted by the call that began it.
THEOREM DropLeavesNothing == Spec => []NothingOutlivesBackend
<1>1. Init => Drained
  BY Zenon DEF Init, Drained
<1>2. Service /\ Drained /\ [Next]_vars => Drained'
  <2> SUFFICES ASSUME Service, Drained, [Next]_vars, shutdown' = "done", NEW r \in Runs,
                      w'[r].asked # "open"
               PROVE  finished'[r] # "none"
    BY ZenonT(60) DEF Drained
  <2>0. w \in [Runs -> Record] /\ finished \in [Runs -> Results]
    BY Zenon DEF Service, Types
  <2>1. CASE Dropped
    BY Zenon, <2>1 DEF Dropped, backend
  <2>2. CASE UNCHANGED vars
    BY Zenon, <2>2 DEF vars, backend, Drained
  <2>3. ASSUME NEW q \in Runs, Supervise(q) \/ Worker(q), Rest PROVE finished'[r] # "none"
    <3>1. shutdown = "done" /\ WInv(w[q])
      BY ZenonT(40), <2>3 DEF Rest, Service, RunInv
    <3>2. CASE Notify(q)
      <4>1. /\ w' = [w EXCEPT ![q] = [w[q] EXCEPT !.sup = "done"]]
            /\ finished' = [finished EXCEPT ![q] = w[q].result] /\ w[q].sup = "notify"
        BY Zenon, <3>2 DEF Notify, Put
      <4>2. w[q].result \in Outcomes
        BY Zenon, <3>1, <4>1 DEF WInv
      <4>3. CASE q = r
        BY Zenon, <2>0, <4>1, <4>2, <4>3 DEF Outcomes
      <4>4. CASE q # r
        BY Zenon, <2>0, <3>1, <4>1, <4>4 DEF Drained
      <4>5. QED
        BY Zenon, <4>3, <4>4
    <3>3. CASE Retire(q)
      <4>1. w' = [w EXCEPT ![q] = [w[q] EXCEPT !.sup = "notify"]] /\ finished' = finished
        BY Zenon, <3>3 DEF Retire, Put
      <4>2. w'[r].asked = w[r].asked
        BY Zenon, <2>0, <4>1 DEF Record
      <4>3. QED
        BY Zenon, <3>1, <4>1, <4>2 DEF Drained
    <3>4. CASE ~Notify(q) /\ ~Retire(q)
      <4>1. Step(q) /\ Same
        BY ZenonT(40), <2>0, <2>3, <3>1, <3>4, WorkerMoves, SupervisorMoves DEF Supervise
      <4>2. w[r].asked # "open"
        BY ZenonT(60), <2>0, <4>1 DEF Step, Moves
      <4>3. QED
        BY Zenon, <3>1, <4>1, <4>2 DEF Drained, Same
    <3>5. QED
      BY Zenon, <3>2, <3>3, <3>4
  <2>4. CASE Next /\ shutdown = "no"
    BY ZenonT(60), <2>4 DEF Next, Provision, DropBackend, Dropped, Reserve, Call, Serve, BackendSpawn,
        BackendReady, BackendAbort, BackendAborted, Commit, Receipt, Poll, Project, Look,
        Release, Wait, Forget, Write, Rest
  <2>5. QED
    BY ZenonT(40), <2>1, <2>2, <2>3, <2>4
    DEF Next, Provision, DropBackend, Reserve, Call, Serve, BackendSpawn, BackendReady,
        BackendAbort, BackendAborted, Commit, Receipt, Poll, Project, Look, Release, Wait,
        Forget, Write, At
<1>3. Service /\ Drained => NothingOutlivesBackend
  <2> SUFFICES ASSUME Service, Drained, shutdown = "done", NEW r \in Runs,
                      w[r].leader # "none"
               PROVE  Dead(w[r])
    BY Zenon DEF NothingOutlivesBackend, Stopped, Dead
  <2>1. RunInv(r) /\ WInv(w[r]) /\ r \notin children /\ \A c \in Clients : ~Holds(c, r)
    BY ZenonT(40) DEF Service, RunInv, Holds, Begin
  <2>2. CASE w[r].slot = "none"
    BY ZenonT(40), <2>1, <2>2 DEF RunInv, WInv, Dead
  <2>3. CASE w[r].slot # "none" /\ w[r].asked = "open"
    BY ZenonT(40), <2>1, <2>3 DEF RunInv, WInv, Reported
  <2>4. CASE w[r].asked # "open"
    BY Zenon, <2>4, FinishedIsDead DEF Drained
  <2>5. QED
    BY Zenon, <2>2, <2>3, <2>4
<1>4. QED
  BY <1>1, <1>2, <1>3, ServiceInvariant, PTL DEF Spec

=============================================================================
