----------------------------- MODULE BuildLock -----------------------------
(***************************************************************************)
(* The per-target lock of the build runner (class BuildLock of build.py),  *)
(* taken by every build and by `clean --keep-boot'.  One target, several   *)
(* runner processes on two machines that share the tree; each file         *)
(* system call of acquire and release is a step, and a process may be      *)
(* killed between any two of them.                                         *)
(*                                                                         *)
(* A definition marked "Faulty" is a mistake the code does not make, put   *)
(* in the place of the definition after it to show which property catches  *)
(* it (README).  No specification uses it.                                 *)
(***************************************************************************)
EXTENDS Naturals, FiniteSets

CONSTANTS
    Procs,          \* runner processes, named by their pid
    Remote,         \* those that run on the second of two machines
    Absent, Empty,  \* no lock file; a lock file with nothing in it
    MayCrash        \* processes may be killed

ASSUME FileAssumption == Absent \notin Procs /\ Empty \notin Procs /\ Absent # Empty
ASSUME RemoteAssumption == Remote \subseteq Procs
ASSUME SwitchAssumption == MayCrash \in BOOLEAN

VARIABLES
    file,     \* contents of .<target>.lock, or Absent, or Empty
    handles,  \* processes whose open file is the one now at that path
    pc,       \* where each process is
    seen,     \* the owner a process read from the file, or Empty
    raced     \* two calls of acquire() have met (history)

vars == <<file, handles, pc, seen, raced>>

\* acquire() after it has decided that the lock is its own, and from its first
\* look at the file to its return.
Taking == {"unlink", "open", "write"}
Acquiring == {"read", "judge"} \cup Taking
Steps == Acquiring \cup {"start", "build", "done", "dead"}

TypeOK ==
    /\ file \in Procs \cup {Absent, Empty}
    /\ handles \subseteq Procs
    /\ pc \in [Procs -> Steps]
    /\ seen \in [Procs -> Procs \cup {Empty}]
    /\ raced \in BOOLEAN

Init ==
    /\ file = Absent /\ handles = {}
    /\ pc = [p \in Procs |-> "start"]
    /\ seen = [p \in Procs |-> Empty]
    /\ raced = FALSE

SameHost(p, q) == p \in Remote <=> q \in Remote

\* The history that every step keeps: an acquire() takes the lock while another
\* is under way.  The race is over once nobody takes the lock or builds.
Race ==
    raced' = /\ \E p \in Procs : pc'[p] \in Acquiring \cup {"build"}
             /\ \/ raced
                \/ \E p, q \in Procs : p # q /\ pc'[p] \in Taking /\ pc'[q] \in Acquiring

Goto(p, step) ==
    /\ pc' = [pc EXCEPT ![p] = step]
    /\ Race

\* _pid_alive
Alive(p) == pc[p] \notin {"done", "dead"}

\* self.path.exists()
Look(p) ==
    /\ pc[p] = "start"
    /\ Goto(p, IF file = Absent THEN "open" ELSE "read")
    /\ UNCHANGED <<file, handles, seen>>

\* self.path.read_text(): a file that is gone or does not parse has no owner.
ReadLock(p) ==
    /\ pc[p] = "read"
    /\ seen' = [seen EXCEPT ![p] = IF file = Absent THEN Empty ELSE file]
    /\ Goto(p, "judge")
    /\ UNCHANGED <<file, handles>>

\* Faulty: the process is not probed; the host is not compared; no lock is
\* ever taken for stale.
RespectedRemote(p, owner) == owner # Empty /\ ~SameHost(p, owner)
RespectedLocal(p, owner) == owner # Empty /\ SameHost(p, owner) /\ Alive(owner)
RespectedAlways(p, owner) == owner # Empty

\* A lock of another machine, or of a live process, is respected; any other
\* is taken for stale.
Respected(p, owner) == owner # Empty /\ (~SameHost(p, owner) \/ Alive(owner))

\* Faulty: waits for the lock instead of skipping the target.
JudgeWaits(p) ==
    /\ pc[p] = "judge"
    /\ Goto(p, IF Respected(p, seen[p]) THEN "read" ELSE "unlink")
    /\ UNCHANGED <<file, handles, seen>>

Judge(p) ==
    /\ pc[p] = "judge"
    /\ Goto(p, IF Respected(p, seen[p]) THEN "done" ELSE "unlink")
    /\ UNCHANGED <<file, handles, seen>>

\* self.path.unlink(missing_ok=True)
Unlink ==
    /\ file' = Absent /\ handles' = {}

Reclaim(p) ==
    /\ pc[p] = "unlink"
    /\ Unlink
    /\ Goto(p, "open")
    /\ UNCHANGED seen

\* write_text opens the file, creating or truncating it ...
OpenLock(p) ==
    /\ pc[p] = "open"
    /\ file' = Empty
    /\ handles' = (IF file = Absent THEN {} ELSE handles) \cup {p}
    /\ Goto(p, "write")
    /\ UNCHANGED seen

\* Faulty: the file is created, and its contents forgotten.
WriteLockEmpty(p) ==
    /\ pc[p] = "write"
    /\ handles' = handles \ {p}
    /\ Goto(p, "build")
    /\ UNCHANGED <<file, seen>>

\* ... and then writes, to a file that may have been unlinked meanwhile.
WriteLock(p) ==
    /\ pc[p] = "write"
    /\ file' = IF p \in handles THEN p ELSE file
    /\ handles' = handles \ {p}
    /\ Goto(p, "build")
    /\ UNCHANGED seen

\* The stages ran, or one failed: release() in the `finally' clause.
Release(p) ==
    /\ pc[p] = "build"
    /\ Unlink
    /\ Goto(p, "done")
    /\ UNCHANGED seen

\* The process is killed, or its machine goes down.
Crash(p) ==
    /\ MayCrash /\ Alive(p)
    /\ Goto(p, "dead")
    /\ handles' = handles \ {p}
    /\ UNCHANGED <<file, seen>>

\* A later runner process happens to get the same pid.
Rerun(p) ==
    /\ ~Alive(p)
    /\ Goto(p, "start")
    /\ seen' = [seen EXCEPT ![p] = Empty]
    /\ UNCHANGED <<file, handles>>

Acquire(p) == ReadLock(p) \/ Judge(p) \/ Reclaim(p) \/ OpenLock(p) \/ WriteLock(p)
Run(p) == Look(p) \/ Acquire(p) \/ Release(p)
Next == \E p \in Procs : Run(p) \/ Crash(p) \/ Rerun(p)

Spec == Init /\ [][Next]_vars

\* A process that is alive keeps running.
Fairness == \A p \in Procs : WF_vars(Run(p))
FairSpec == Spec /\ Fairness

----------------------------------------------------------------------------
Building(p) == pc[p] = "build"

\* The lock files "prevent two concurrent builds of the same target".
MutualExclusion == \A p, q \in Procs : Building(p) /\ Building(q) => p = q

\* The lock of a running build names it, so others can tell it is alive.
LockNamesBuilder == \A p \in Procs : Building(p) => file = p

\* What BuildLock is for: one builder, whose lock says so.  Only two calls of
\* acquire() that meet can break it, and no longer than until both are over.
OneNamedBuilder == raced \/ (MutualExclusion /\ LockNamesBuilder)

\* Reclaiming does not remove the lock of a running build, on this machine or
\* on another, whose processes cannot be probed, unless two calls have met.
RunningLockNotReclaimed ==
    [][\A p, q \in Procs : Reclaim(p) => raced \/ ~Building(q)]_vars

\* Every process that starts gets through, building or skipping: the lock
\* never makes anyone wait.
EveryRunEnds == \A p \in Procs : pc[p] = "start" ~> ~Alive(p)

\* A lock left by a killed process is gone once a runner on the same machine
\* has looked at it, unless that is killed too or the pid is in use again.
StaleLockReclaimed ==
    \A p, q \in Procs :
        pc[p] = "read" /\ file = q /\ pc[q] = "dead" /\ SameHost(p, q)
            ~> file # q \/ pc[p] = "dead" \/ pc[q] # "dead"
=============================================================================
