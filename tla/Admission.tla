----------------------------- MODULE Admission -----------------------------
(***************************************************************************)
(* Which daemon may own an arena: the two gates run_daemon_with_options    *)
(* passes before it touches the arena, and what it does to them on the way *)
(* out.  The first gate is a flock on <arena>.lock (daemon/arena_lock.rs), *)
(* the second a sentinel file <arena>.owner naming a live pid              *)
(* (daemon/arena_owner.rs).                                                *)
(*                                                                         *)
(* A flock belongs to the inode that was opened, not to the path, so the   *)
(* lock file's directory entry and its inodes are kept apart.  A process   *)
(* lives once: its name is its pid.                                        *)
(***************************************************************************)
EXTENDS Naturals, FiniteSets

CONSTANTS Daemons,   \* daemon processes, each started at most once
          Inodes,    \* files the lock path may come to name
          None

ASSUME AdmissionAssumption ==
  /\ None \notin Daemons
  /\ None \notin Inodes

VARIABLES pc,        \* each daemon's step
          lockFile,  \* the inode <arena>.lock names, or None
          holder,    \* holder[i]: the daemon whose flock is on inode i
          fd,        \* fd[d]: the inode d opened
          unused,    \* inodes never created yet
          owner,     \* the pid in <arena>.owner, or None
          temp       \* the pid in the owner file's temporary, or None

admissionVars == <<pc, lockFile, holder, fd, unused, owner, temp>>

Steps == {"new", "opened", "locked", "write", "rename", "running",
          "leaving", "unlink", "release", "gone"}

\* The daemon is inside run_daemon_with_options: kill(pid, 0) finds it.
is_pid_alive(d) == pc[d] \notin {"new", "gone"}

AdmissionInit ==
  /\ pc = [d \in Daemons |-> "new"]
  /\ lockFile = None
  /\ holder = [i \in Inodes |-> None]
  /\ fd = [d \in Daemons |-> None]
  /\ unused = Inodes
  /\ owner = None
  /\ temp = None

Go(d, step) == pc' = [pc EXCEPT ![d] = step]

\* Closing the descriptor drops the flock if this daemon had it.
Close(d) ==
  /\ holder' = [i \in Inodes |-> IF holder[i] = d THEN None ELSE holder[i]]
  /\ fd' = [fd EXCEPT ![d] = None]

\* ArenaLock::try_acquire opens the lock file, creating it if it is not there.
Open(d) ==
  /\ pc[d] = "new"
  /\ Go(d, "opened")
  /\ \/ /\ lockFile # None
        /\ fd' = [fd EXCEPT ![d] = lockFile]
        /\ UNCHANGED <<lockFile, unused>>
     \/ /\ lockFile = None
        /\ \E i \in unused :
             /\ lockFile' = i
             /\ fd' = [fd EXCEPT ![d] = i]
             /\ unused' = unused \ {i}
  /\ UNCHANGED <<holder, owner, temp>>

\* flock(LOCK_EX | LOCK_NB) on what was opened: taken, or the daemon gives up.
Flock(d) ==
  /\ pc[d] = "opened"
  /\ \/ /\ holder[fd[d]] = None
        /\ holder' = [holder EXCEPT ![fd[d]] = d]
        /\ Go(d, "locked")
        /\ UNCHANGED fd
     \/ /\ holder[fd[d]] # None
        /\ Close(d)
        /\ Go(d, "gone")
  /\ UNCHANGED <<lockFile, unused, owner, temp>>

\* Mutant: any sentinel refuses, dead owner or not.
ReadSentinelPresence(d) ==
  /\ pc[d] = "locked"
  /\ Go(d, IF owner # None THEN "unlink" ELSE "write")
  /\ UNCHANGED <<lockFile, holder, fd, unused, owner, temp>>

\* arena_owner::try_acquire reads the sentinel: a live owner refuses the daemon,
\* whose ArenaLock is then dropped.
ReadSentinel(d) ==
  /\ pc[d] = "locked"
  /\ Go(d, IF owner # None /\ is_pid_alive(owner) THEN "unlink" ELSE "write")
  /\ UNCHANGED <<lockFile, holder, fd, unused, owner, temp>>

WriteSentinel(d) ==
  /\ pc[d] = "write"
  /\ temp' = d
  /\ Go(d, "rename")
  /\ UNCHANGED <<lockFile, holder, fd, unused, owner>>

\* Mutant: the temporary is never renamed into place.
RunUnnamed(d) ==
  /\ pc[d] = "rename"
  /\ Go(d, "running")
  /\ UNCHANGED <<lockFile, holder, fd, unused, owner, temp>>

\* The temporary's path is the same for every daemon: what is renamed is what was
\* written to it last, and a rename that finds nothing fails.
RenameSentinel(d) ==
  /\ pc[d] = "rename"
  /\ \/ /\ temp # None
        /\ owner' = temp
        /\ temp' = None
        /\ Go(d, "running")
     \/ /\ temp = None
        /\ Go(d, "unlink")
        /\ UNCHANGED <<owner, temp>>
  /\ UNCHANGED <<lockFile, holder, fd, unused>>

\* Shutdown: wait_for_shutdown returns and the final snapshot is taken.
Shutdown(d) ==
  /\ pc[d] = "running"
  /\ Go(d, "leaving")
  /\ UNCHANGED <<lockFile, holder, fd, unused, owner, temp>>

\* OwnerGuard::drop, the guard bound last, unlinks the sentinel by its path.
DropOwner(d) ==
  /\ pc[d] = "leaving"
  /\ owner' = None
  /\ Go(d, "unlink")
  /\ UNCHANGED <<lockFile, holder, fd, unused, temp>>

\* ArenaLock::drop unlinks the lock file by its path ...
UnlinkLock(d) ==
  /\ pc[d] = "unlink"
  /\ lockFile' = None
  /\ Go(d, "release")
  /\ UNCHANGED <<holder, fd, unused, owner, temp>>

\* ... and its fields drop after it: only then is the flock released.
ReleaseLock(d) ==
  /\ pc[d] = "release"
  /\ Close(d)
  /\ Go(d, "gone")
  /\ UNCHANGED <<lockFile, unused, owner, temp>>

\* SIGKILL: the kernel closes the descriptor, no Drop runs, the files stay.
Kill(d) ==
  /\ is_pid_alive(d)
  /\ Close(d)
  /\ Go(d, "gone")
  /\ UNCHANGED <<lockFile, unused, owner, temp>>

Start(d) == Open(d) \/ Flock(d) \/ ReadSentinel(d) \/ WriteSentinel(d)
            \/ RenameSentinel(d)
Leave(d) == DropOwner(d) \/ UnlinkLock(d) \/ ReleaseLock(d)

AdmissionNext == \E d \in Daemons : Start(d) \/ Shutdown(d) \/ Leave(d) \/ Kill(d)

AdmissionSpec == AdmissionInit /\ [][AdmissionNext]_admissionVars

-----------------------------------------------------------------------------
AdmissionTypeOK ==
  /\ pc \in [Daemons -> Steps]
  /\ lockFile \in Inodes \cup {None}
  /\ holder \in [Inodes -> Daemons \cup {None}]
  /\ fd \in [Daemons -> Inodes \cup {None}]
  /\ unused \subseteq Inodes
  /\ owner \in Daemons \cup {None}
  /\ temp \in Daemons \cup {None}

\* A daemon that has passed both gates and not yet begun to drop them.
Owns(d) == pc[d] = "running"

\* arena_lock.rs: admission "prevents two `leyline daemon --arena X` invocations
\* from concurrently mounting the same arena".
SingleOwner == \A d, e \in Daemons : Owns(d) /\ Owns(e) => d = e

\* What the flock alone guarantees: of the daemons that opened the same lock file
\* at most one owns the arena, however many leave and unlink it meanwhile.
OneOwnerPerLockFile ==
  \A d, e \in Daemons : Owns(d) /\ Owns(e) /\ fd[d] = fd[e] => d = e

\* One daemon and its successor: while no third daemon was ever started, at most one
\* owns the arena and the sentinel names it, so whoever is refused is told the right
\* pid.
TwoDaemonsOneOwner ==
  Cardinality({d \in Daemons : pc[d] # "new"}) <= 2
    => SingleOwner /\ \A d \in Daemons : Owns(d) => owner = d

\* A daemon is turned away only while another one is alive: the kernel drops a dead
\* daemon's flock, and is_pid_alive sees through the sentinel it left.
RefusedOnlyByTheLiving ==
  [][\A d \in Daemons :
       ((Flock(d) /\ pc'[d] = "gone") \/ (ReadSentinel(d) /\ pc'[d] = "unlink"))
         => \E e \in Daemons \ {d} : is_pid_alive(e)]_admissionVars
=============================================================================
