-------------------------- MODULE BuildLockProofs --------------------------
(***************************************************************************)
(* Proofs about BuildLock for any number of processes on two machines,     *)
(* with crashes and reused pids: only two calls of acquire() that meet     *)
(* make two builders, or take the lock from a running build.               *)
(***************************************************************************)
EXTENDS BuildLock, TLAPS

\* As long as no two calls have met: a call that takes the lock is alone in
\* acquire() and nobody builds, and a process that has read the lock of a
\* running build remembers its owner.
Serial ==
    /\ \A p, q \in Procs : pc[p] \in Taking /\ pc[q] \in Acquiring => p = q
    /\ \A p \in Procs : Building(p) => file = p
    /\ \A p, q \in Procs : pc[p] \in Taking => ~Building(q)
    /\ \A p, q \in Procs : pc[p] = "judge" /\ Building(q) => seen[p] = q
    /\ \A p \in Procs : pc[p] = "write" => p \in handles

LockInv == TypeOK /\ (raced \/ Serial)

\* No runner has started, and there is no lock.
LEMMA LockInit == Init => LockInv
  BY FileAssumption DEF Init, LockInv, Serial, TypeOK, Steps, Acquiring, Taking, Building

\* What a step does to the history: a race ends when nobody takes the lock or
\* builds, and until one has begun a call that takes the lock is alone.
LEMMA RaceStep ==
    ASSUME LockInv, Race
    PROVE  /\ raced' \in BOOLEAN
           /\ raced' \/ Serial \/ \A p \in Procs : pc'[p] \notin Acquiring /\ ~Building(p)'
           /\ raced' \/ \A p, q \in Procs : pc'[p] \in Taking /\ pc'[q] \in Acquiring => p = q
<1>1. raced' \in BOOLEAN
  BY DEF Race
<1>2. raced' \/ Serial \/ \A p \in Procs : pc'[p] \notin Acquiring /\ ~Building(p)'
  BY DEF Race, LockInv, Building
<1>3. raced' \/ \A p, q \in Procs : pc'[p] \in Taking /\ pc'[q] \in Acquiring => p = q
  BY DEF Race, Taking, Acquiring
<1> QED BY <1>1, <1>2, <1>3

\* Every step of every runner, a kill and a reused pid included, keeps the
\* invariant.
LEMMA LockStep == LockInv /\ [Next]_vars => LockInv'
<1> SUFFICES ASSUME LockInv, [Next]_vars PROVE LockInv'
  OBVIOUS
<1>0. CASE UNCHANGED vars
  BY <1>0 DEF vars, LockInv, Serial, TypeOK, Building
<1> SUFFICES ASSUME Next PROVE LockInv'
  BY <1>0
<1>a. Race
  BY DEF Next, Run, Acquire, Look, ReadLock, Judge, Reclaim, OpenLock, WriteLock, Release, Crash,
         Rerun, Goto
<1>b. TypeOK'
  <2>1. raced' \in BOOLEAN
    BY <1>a, RaceStep
  <2> QED BY <2>1, FileAssumption
      DEF LockInv, TypeOK, Steps, Acquiring, Taking, Next, Run, Acquire, Look, ReadLock, Judge,
          Reclaim, OpenLock, WriteLock, Release, Crash, Rerun, Goto, Unlink
<1>c. CASE \A p \in Procs : pc'[p] \notin Acquiring /\ ~Building(p)'
  <2>1. Serial'
    BY <1>c DEF Serial, Acquiring, Taking
  <2> QED BY <1>b, <2>1 DEF LockInv
<1> SUFFICES ASSUME Serial, ~raced',
                    \A p, q \in Procs : pc'[p] \in Taking /\ pc'[q] \in Acquiring => p = q
             PROVE  Serial'
  BY <1>a, <1>b, <1>c, RaceStep DEF LockInv
<1> USE FileAssumption DEF LockInv, TypeOK, Serial, Steps, Acquiring, Taking, Building, Goto
<1>1. ASSUME NEW p \in Procs, Look(p) PROVE Serial'
  BY <1>1 DEF Look
<1>2. ASSUME NEW p \in Procs, ReadLock(p) PROVE Serial'
  BY <1>2 DEF ReadLock
<1>3. ASSUME NEW p \in Procs, Judge(p) PROVE Serial'
  BY <1>3 DEF Judge, Respected, Alive
<1>4. ASSUME NEW p \in Procs, Reclaim(p) PROVE Serial'
  BY <1>4 DEF Reclaim, Unlink
<1>5. ASSUME NEW p \in Procs, OpenLock(p) PROVE Serial'
  BY <1>5 DEF OpenLock
<1>6. ASSUME NEW p \in Procs, WriteLock(p) PROVE Serial'
  BY <1>6 DEF WriteLock
<1>7. ASSUME NEW p \in Procs, Release(p) PROVE Serial'
  BY <1>7 DEF Release, Unlink
<1>8. ASSUME NEW p \in Procs, Crash(p) PROVE Serial'
  BY <1>8 DEF Crash, Alive
<1>9. ASSUME NEW p \in Procs, Rerun(p) PROVE Serial'
  BY <1>9 DEF Rerun, Alive
<1> QED BY <1>1, <1>2, <1>3, <1>4, <1>5, <1>6, <1>7, <1>8, <1>9
        DEF Next, Run, Acquire

\* No two processes build the target at the same time, and the lock names the
\* one that does, unless two calls of acquire() have met.
THEOREM OneBuilder == Spec => []OneNamedBuilder
<1>1. LockInv => OneNamedBuilder
  BY DEF LockInv, Serial, OneNamedBuilder, MutualExclusion, LockNamesBuilder
<1> QED BY <1>1, LockInit, LockStep, PTL DEF Spec

\* Reclaiming a lock removes the lock of a running build only when two calls of
\* acquire() have met.
THEOREM RunningLockSafe == Spec => RunningLockNotReclaimed
<1>1. LockInv /\ [Next]_vars => [\A p, q \in Procs : Reclaim(p) => raced \/ ~Building(q)]_vars
  BY DEF LockInv, Serial, Taking, Reclaim
<1> QED BY <1>1, LockInit, LockStep, PTL DEF Spec, RunningLockNotReclaimed
=============================================================================
