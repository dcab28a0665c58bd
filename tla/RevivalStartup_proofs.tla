------------------------ MODULE RevivalStartup_proofs -----------------------
(***************************************************************************)
(* Proofs about the startup handshake: type correctness, that a start      *)
(* persisted as failed never runs, that a slot is rolled back only for a   *)
(* runner that is gone, and, when a parent is late by less than half the   *)
(* runner's timeout, that no start is committed whose runner has given up. *)
(***************************************************************************)
EXTENDS RevivalStartup, TLAPS

-----------------------------------------------------------------------------
(* The inductive invariants.                                               *)

\* Where the parent is tells which files it has written and what it has
\* recorded; what a runner may do depends on those files.
PhaseInv ==
  \A i \in Attempts :
    /\ pc[i] = "idle" => rc[i] = "absent"
    /\ i \in ran => i \in proceed
    /\ i \in proceed => pc[i] \in {"commit", "started", "crashed"}
    /\ i \in failed => /\ i \notin proceed
                       /\ pc[i] \in {"terminate", "settle", "refused", "crashed"}
    /\ i \in seenGone => rc[i] = "exited"
    /\ slot[i] = "rolledBack" => pc[i] = "refused" /\ rc[i] \in {"absent", "exited"}

\* The runner has not written "acknowledged" yet.
Early == {"absent", "boot", "writeReady", "waitAck", "writeAcknowledged"}

\* How far the runner has waited for "proceed" while its parent, which has
\* seen or can see "acknowledged", was late.
TimingInv ==
  \A i \in Attempts :
    /\ i \in ack => pc[i] \notin {"idle", "waitReady", "writeAck"}
    /\ rc[i] \in {"writeAcknowledged", "waitProceed"} \/ startup[i] = "acknowledged" =>
         i \in ack
    /\ startup[i] = "acknowledged" \/ pc[i] = "writeProceed" \/ i \in proceed =>
         rc[i] \notin Early
    /\ rc[i] = "waitProceed" =>
         /\ pc[i] = "waitAcknowledged" =>
              startup[i] = "acknowledged" /\ patience[i] <= late[i]
         /\ pc[i] = "writeProceed" => patience[i] <= MaxStall + late[i]
         /\ i \in proceed => patience[i] <= 2 * MaxStall

\* Nobody is about to commit a start whose runner has given up.
GivenUpInv ==
  \A i \in gaveUp :
    /\ i \notin proceed /\ pc[i] # "writeProceed"
    /\ pc[i] = "waitAcknowledged" => startup[i] # "acknowledged"
    /\ rc[i] \in {"writeError", "release", "exited"}

\* A parent is late twice, when it reads and when it writes, and still within
\* the runner's timeout.
LateTwiceIsInTime == RunnerTimeout > 2 * MaxStall

-----------------------------------------------------------------------------
(* Type correctness.                                                       *)

\* TypeOK holds in every initial state and is kept by every step: no clock
\* runs past its timeout, as Tick is refused then.
LEMMA TypeOKInductive ==
  ASSUME StartupAssumption
  PROVE  /\ Init => TypeOK
         /\ TypeOK /\ [Next]_vars => TypeOK'
<1> USE StartupAssumption DEF StartupAssumption
<1> USE DEF TypeOK, ParentWaits, RunnerWaits
<1>1. Init => TypeOK
  BY DEF Init
<1>2. TypeOK /\ [Next]_vars => TypeOK'
  <2> SUFFICES ASSUME TypeOK, [Next]_vars PROVE TypeOK'
    OBVIOUS
  <2> USE DEF parentVars, runnerVars, ParentGoto, RunnerGoto
  <2>1. ASSUME NEW i \in Attempts, SpawnFails(i) PROVE TypeOK'
    BY <2>1 DEF SpawnFails
  <2>2. ASSUME NEW i \in Attempts, SeeExpected(i) PROVE TypeOK'
    BY <2>2 DEF SeeExpected, Expected
  <2>3. ASSUME NEW i \in Attempts, SeeError(i) PROVE TypeOK'
    BY <2>3 DEF SeeError
  <2>4. ASSUME NEW i \in Attempts, ParentTimesOut(i) PROVE TypeOK'
    BY <2>4 DEF ParentTimesOut, Expected
  <2>5. ASSUME NEW i \in Attempts, WriteAck(i) PROVE TypeOK'
    BY <2>5 DEF WriteAck
  <2>6. ASSUME NEW i \in Attempts, WriteProceed(i) PROVE TypeOK'
    BY <2>6 DEF WriteProceed
  <2>7. ASSUME NEW i \in Attempts, Commit(i) PROVE TypeOK'
    BY <2>7 DEF Commit
  <2>8. ASSUME NEW i \in Attempts, PersistFailure(i) PROVE TypeOK'
    BY <2>8 DEF PersistFailure
  <2>9. ASSUME NEW i \in Attempts, Settle(i) PROVE TypeOK'
    BY <2>9 DEF Settle
  <2>10. ASSUME NEW i \in Attempts, ParentCrash(i) PROVE TypeOK'
    BY <2>10 DEF ParentCrash
  <2>11. ASSUME NEW i \in Attempts, Spawn(i) PROVE TypeOK'
    BY <2>11 DEF Spawn
  <2>12. ASSUME NEW i \in Attempts, Terminate(i) PROVE TypeOK'
    BY <2>12 DEF Terminate, Dies
  <2>13. ASSUME NEW i \in Attempts, AcquireLease(i) PROVE TypeOK'
    BY <2>13 DEF AcquireLease
  <2>14. ASSUME NEW i \in Attempts, WriteReady(i) PROVE TypeOK'
    BY <2>14 DEF WriteReady
  <2>15. ASSUME NEW i \in Attempts, SeeAck(i) PROVE TypeOK'
    BY <2>15 DEF SeeAck
  <2>16. ASSUME NEW i \in Attempts, WriteAcknowledged(i) PROVE TypeOK'
    BY <2>16 DEF WriteAcknowledged
  <2>17. ASSUME NEW i \in Attempts, SeeProceed(i) PROVE TypeOK'
    BY <2>17 DEF SeeProceed
  <2>18. ASSUME NEW i \in Attempts, RunnerTimesOut(i) PROVE TypeOK'
    BY <2>18 DEF RunnerTimesOut
  <2>19. ASSUME NEW i \in Attempts, WriteError(i) PROVE TypeOK'
    BY <2>19 DEF WriteError
  <2>20. ASSUME NEW i \in Attempts, FinishRun(i) PROVE TypeOK'
    BY <2>20 DEF FinishRun
  <2>21. ASSUME NEW i \in Attempts, Release(i) PROVE TypeOK'
    BY <2>21 DEF Release, Dies
  <2>22. ASSUME NEW i \in Attempts, RunnerCrash(i) PROVE TypeOK'
    BY <2>22 DEF RunnerCrash, Dies
  <2>23. CASE Tick
    BY <2>23 DEF Tick, HasWork, Expected, Answered
  <2>24. CASE UNCHANGED vars
    BY <2>24 DEF vars
  <2> QED
    BY <2>1, <2>2, <2>3, <2>4, <2>5, <2>6, <2>7, <2>8, <2>9, <2>10, <2>11,
       <2>12, <2>13, <2>14, <2>15, <2>16, <2>17, <2>18, <2>19, <2>20, <2>21,
       <2>22, <2>23, <2>24
       DEF Next, ParentStep, StartupStep
<1> QED
  BY <1>1, <1>2

\* Type correctness: both sides' control points, clocks, files and records
\* keep their kinds, for any number of attempts and any timeouts.
THEOREM TypeCorrect == StartupAssumption => (Spec => []TypeOK)
<1> SUFFICES ASSUME StartupAssumption PROVE Spec => []TypeOK
  OBVIOUS
<1> QED
  BY TypeOKInductive, PTL DEF Spec

-----------------------------------------------------------------------------
(* A failed start never runs, and a rolled-back slot's runner is gone.     *)

\* PhaseInv holds in every initial state and is kept by every step.
LEMMA PhaseInvInductive ==
  /\ Init => PhaseInv
  /\ TypeOK /\ PhaseInv /\ [Next]_vars => PhaseInv'
<1> USE DEF PhaseInv
<1>1. Init => PhaseInv
  BY DEF Init
<1>2. TypeOK /\ PhaseInv /\ [Next]_vars => PhaseInv'
  <2> SUFFICES ASSUME TypeOK, PhaseInv, [Next]_vars PROVE PhaseInv'
    OBVIOUS
  <2>t. /\ DOMAIN pc = Attempts /\ DOMAIN rc = Attempts /\ DOMAIN slot = Attempts
        /\ pc = [i \in Attempts |-> pc[i]]
        /\ rc = [i \in Attempts |-> rc[i]]
        /\ slot = [i \in Attempts |-> slot[i]]
    BY DEF TypeOK
  <2> USE DEF parentVars, runnerVars, ParentGoto, RunnerGoto, ParentWaits, RunnerWaits
  <2>1. ASSUME NEW i \in Attempts, SpawnFails(i) PROVE PhaseInv'
    BY <2>t, <2>1 DEF SpawnFails
  <2>2. ASSUME NEW i \in Attempts, SeeExpected(i) PROVE PhaseInv'
    BY <2>t, <2>2 DEF SeeExpected, Expected
  <2>3. ASSUME NEW i \in Attempts, SeeError(i) PROVE PhaseInv'
    BY <2>t, <2>3 DEF SeeError
  <2>4. ASSUME NEW i \in Attempts, ParentTimesOut(i) PROVE PhaseInv'
    BY <2>t, <2>4 DEF ParentTimesOut, Expected
  <2>5. ASSUME NEW i \in Attempts, WriteAck(i) PROVE PhaseInv'
    BY <2>t, <2>5 DEF WriteAck
  <2>6. ASSUME NEW i \in Attempts, WriteProceed(i) PROVE PhaseInv'
    BY <2>t, <2>6 DEF WriteProceed
  <2>7. ASSUME NEW i \in Attempts, Commit(i) PROVE PhaseInv'
    BY <2>t, <2>7 DEF Commit
  <2>8. ASSUME NEW i \in Attempts, PersistFailure(i) PROVE PhaseInv'
    BY <2>t, <2>8 DEF PersistFailure
  <2>9. ASSUME NEW i \in Attempts, Settle(i) PROVE PhaseInv'
    BY <2>t, <2>9 DEF Settle
  <2>10. ASSUME NEW i \in Attempts, ParentCrash(i) PROVE PhaseInv'
    BY <2>t, <2>10 DEF ParentCrash
  <2>11. ASSUME NEW i \in Attempts, Spawn(i) PROVE PhaseInv'
    BY <2>t, <2>11 DEF Spawn
  <2>12. ASSUME NEW i \in Attempts, Terminate(i) PROVE PhaseInv'
    BY <2>t, <2>12 DEF Terminate, Dies
  <2>13. ASSUME NEW i \in Attempts, AcquireLease(i) PROVE PhaseInv'
    BY <2>t, <2>13 DEF AcquireLease
  <2>14. ASSUME NEW i \in Attempts, WriteReady(i) PROVE PhaseInv'
    BY <2>t, <2>14 DEF WriteReady
  <2>15. ASSUME NEW i \in Attempts, SeeAck(i) PROVE PhaseInv'
    BY <2>t, <2>15 DEF SeeAck
  <2>16. ASSUME NEW i \in Attempts, WriteAcknowledged(i) PROVE PhaseInv'
    BY <2>t, <2>16 DEF WriteAcknowledged
  <2>17. ASSUME NEW i \in Attempts, SeeProceed(i) PROVE PhaseInv'
    BY <2>t, <2>17 DEF SeeProceed
  <2>18. ASSUME NEW i \in Attempts, RunnerTimesOut(i) PROVE PhaseInv'
    BY <2>t, <2>18 DEF RunnerTimesOut
  <2>19. ASSUME NEW i \in Attempts, WriteError(i) PROVE PhaseInv'
    BY <2>t, <2>19 DEF WriteError
  <2>20. ASSUME NEW i \in Attempts, FinishRun(i) PROVE PhaseInv'
    BY <2>t, <2>20 DEF FinishRun
  <2>21. ASSUME NEW i \in Attempts, Release(i) PROVE PhaseInv'
    BY <2>t, <2>21 DEF Release, Dies
  <2>22. ASSUME NEW i \in Attempts, RunnerCrash(i) PROVE PhaseInv'
    BY <2>t, <2>22 DEF RunnerCrash, Dies
  <2>23. CASE Tick
    BY <2>t, <2>23 DEF Tick, HasWork, Expected, Answered
  <2>24. CASE UNCHANGED vars
    BY <2>t, <2>24 DEF vars
  <2> QED
    BY <2>1, <2>2, <2>3, <2>4, <2>5, <2>6, <2>7, <2>8, <2>9, <2>10, <2>11,
       <2>12, <2>13, <2>14, <2>15, <2>16, <2>17, <2>18, <2>19, <2>20, <2>21,
       <2>22, <2>23, <2>24
       DEF Next, ParentStep, StartupStep
<1> QED
  BY <1>1, <1>2

\* A start persisted as failed (persistPreProceedStartupFailure) never runs its
\* child: for any timeouts, lateness, crashes and failed writes.
THEOREM FailureIsFinal == StartupAssumption => (Spec => []FailedStartNeverRuns)
<1> SUFFICES ASSUME StartupAssumption PROVE Spec => []FailedStartNeverRuns
  OBVIOUS
<1>1. TypeOK /\ PhaseInv => FailedStartNeverRuns
  BY DEF TypeOK, PhaseInv, FailedStartNeverRuns
<1> QED
  BY TypeOKInductive, PhaseInvInductive, <1>1, PTL DEF Spec

\* A slot is rolled back only when its runner does not exist, or not any more
\* (terminateRunnerBeforeProceed): what the probe after the signal finds
\* decides between freeing the slot and keeping it.
THEOREM RollbackIsOfTheGone == StartupAssumption => (Spec => []RolledBackIsGone)
<1> SUFFICES ASSUME StartupAssumption PROVE Spec => []RolledBackIsGone
  OBVIOUS
<1>1. TypeOK /\ PhaseInv => RolledBackIsGone
  BY DEF TypeOK, PhaseInv, RolledBackIsGone
<1> QED
  BY TypeOKInductive, PhaseInvInductive, <1>1, PTL DEF Spec

-----------------------------------------------------------------------------
(* The commit point and the runner's timeout.                              *)

\* TimingInv holds in every initial state and is kept by every step, given
\* that each single lateness is bounded.
LEMMA TimingInvInductive ==
  ASSUME StartupAssumption
  PROVE  /\ Init => TimingInv
         /\ TypeOK /\ PhaseInv /\ TimingInv /\ [Next]_vars => TimingInv'
<1> USE StartupAssumption DEF StartupAssumption
<1> USE DEF TimingInv, Early, ParentWaits, RunnerWaits
<1>1. Init => TimingInv
  BY DEF Init
<1>2. TypeOK /\ PhaseInv /\ TimingInv /\ [Next]_vars => TimingInv'
  <2> SUFFICES ASSUME TypeOK, PhaseInv, TimingInv, [Next]_vars PROVE TimingInv'
    OBVIOUS
  <2>t. /\ pc = [i \in Attempts |-> pc[i]] /\ rc = [i \in Attempts |-> rc[i]]
        /\ startup = [i \in Attempts |-> startup[i]]
        /\ late \in [Attempts -> 0 .. MaxStall]
        /\ patience \in [Attempts -> 0 .. RunnerTimeout]
        /\ proceed \subseteq Attempts
    BY DEF TypeOK
  <2> USE DEF parentVars, runnerVars, ParentGoto, RunnerGoto
  <2>1. ASSUME NEW i \in Attempts, SpawnFails(i) PROVE TimingInv'
    BY <2>t, <2>1 DEF SpawnFails, PhaseInv
  <2>2. ASSUME NEW i \in Attempts, SeeExpected(i) PROVE TimingInv'
    BY <2>t, <2>2 DEF SeeExpected, Expected
  <2>3. ASSUME NEW i \in Attempts, SeeError(i) PROVE TimingInv'
    BY <2>t, <2>3 DEF SeeError
  <2>4. ASSUME NEW i \in Attempts, ParentTimesOut(i) PROVE TimingInv'
    BY <2>t, <2>4 DEF ParentTimesOut, Expected
  <2>5. ASSUME NEW i \in Attempts, WriteAck(i) PROVE TimingInv'
    BY <2>t, <2>5 DEF WriteAck
  <2>6. ASSUME NEW i \in Attempts, WriteProceed(i) PROVE TimingInv'
    BY <2>t, <2>6 DEF WriteProceed
  <2>7. ASSUME NEW i \in Attempts, Commit(i) PROVE TimingInv'
    BY <2>t, <2>7 DEF Commit
  <2>8. ASSUME NEW i \in Attempts, PersistFailure(i) PROVE TimingInv'
    BY <2>t, <2>8 DEF PersistFailure
  <2>9. ASSUME NEW i \in Attempts, Settle(i) PROVE TimingInv'
    BY <2>t, <2>9 DEF Settle
  <2>10. ASSUME NEW i \in Attempts, ParentCrash(i) PROVE TimingInv'
    BY <2>t, <2>10 DEF ParentCrash
  <2>11. ASSUME NEW i \in Attempts, Spawn(i) PROVE TimingInv'
    BY <2>t, <2>11 DEF Spawn, PhaseInv
  <2>12. ASSUME NEW i \in Attempts, Terminate(i) PROVE TimingInv'
    BY <2>t, <2>12 DEF Terminate, Dies
  <2>13. ASSUME NEW i \in Attempts, AcquireLease(i) PROVE TimingInv'
    BY <2>t, <2>13 DEF AcquireLease
  <2>14. ASSUME NEW i \in Attempts, WriteReady(i) PROVE TimingInv'
    BY <2>t, <2>14 DEF WriteReady
  <2>15. ASSUME NEW i \in Attempts, SeeAck(i) PROVE TimingInv'
    BY <2>t, <2>15 DEF SeeAck
  <2>16. ASSUME NEW i \in Attempts, WriteAcknowledged(i) PROVE TimingInv'
    <3>1. /\ rc[i] = "writeAcknowledged" /\ i \in ack /\ rc'[i] = "waitProceed"
          /\ startup'[i] = "acknowledged" /\ patience'[i] = 0
          /\ UNCHANGED <<pc, ack, proceed, late>>
      BY <2>t, <2>16 DEF WriteAcknowledged
    <3>2. pc[i] # "writeProceed" /\ i \notin proceed
      BY <3>1
    <3>3. \A j \in Attempts \ {i} :
            rc'[j] = rc[j] /\ startup'[j] = startup[j] /\ patience'[j] = patience[j]
      BY <2>t, <2>16 DEF WriteAcknowledged
    <3> QED
      BY <2>t, <3>1, <3>2, <3>3
  <2>17. ASSUME NEW i \in Attempts, SeeProceed(i) PROVE TimingInv'
    BY <2>t, <2>17 DEF SeeProceed
  <2>18. ASSUME NEW i \in Attempts, RunnerTimesOut(i) PROVE TimingInv'
    BY <2>t, <2>18 DEF RunnerTimesOut
  <2>19. ASSUME NEW i \in Attempts, WriteError(i) PROVE TimingInv'
    BY <2>t, <2>19 DEF WriteError
  <2>20. ASSUME NEW i \in Attempts, FinishRun(i) PROVE TimingInv'
    BY <2>t, <2>20 DEF FinishRun
  <2>21. ASSUME NEW i \in Attempts, Release(i) PROVE TimingInv'
    BY <2>t, <2>21 DEF Release, Dies
  <2>22. ASSUME NEW i \in Attempts, RunnerCrash(i) PROVE TimingInv'
    BY <2>t, <2>22 DEF RunnerCrash, Dies
  <2>23. CASE Tick
    BY <2>t, <2>23 DEF Tick, HasWork, Expected, Answered
  <2>24. CASE UNCHANGED vars
    BY <2>t, <2>24 DEF vars
  <2> QED
    BY <2>1, <2>2, <2>3, <2>4, <2>5, <2>6, <2>7, <2>8, <2>9, <2>10, <2>11,
       <2>12, <2>13, <2>14, <2>15, <2>16, <2>17, <2>18, <2>19, <2>20, <2>21,
       <2>22, <2>23, <2>24
       DEF Next, ParentStep, StartupStep
<1> QED
  BY <1>1, <1>2

\* GivenUpInv holds in every initial state and is kept by every step, when the
\* runner's timeout covers a parent that is late twice.
LEMMA GivenUpInvInductive ==
  ASSUME StartupAssumption, LateTwiceIsInTime
  PROVE  /\ Init => GivenUpInv
         /\ TypeOK /\ PhaseInv /\ TimingInv /\ GivenUpInv /\ [Next]_vars => GivenUpInv'
<1> USE StartupAssumption, LateTwiceIsInTime DEF StartupAssumption, LateTwiceIsInTime
<1> USE DEF GivenUpInv, ParentWaits, RunnerWaits
<1>1. Init => GivenUpInv
  BY DEF Init
<1>2. TypeOK /\ PhaseInv /\ TimingInv /\ GivenUpInv /\ [Next]_vars => GivenUpInv'
  <2> SUFFICES ASSUME TypeOK, PhaseInv, TimingInv, GivenUpInv, [Next]_vars
               PROVE  GivenUpInv'
    OBVIOUS
  <2>t. /\ pc = [i \in Attempts |-> pc[i]] /\ rc = [i \in Attempts |-> rc[i]]
        /\ startup = [i \in Attempts |-> startup[i]]
        /\ late \in [Attempts -> 0 .. MaxStall]
        /\ patience \in [Attempts -> 0 .. RunnerTimeout]
        /\ gaveUp \subseteq Attempts
    BY DEF TypeOK
  <2> USE DEF parentVars, runnerVars, ParentGoto, RunnerGoto
  <2>1. ASSUME NEW i \in Attempts, SpawnFails(i) PROVE GivenUpInv'
    BY <2>t, <2>1 DEF SpawnFails
  <2>2. ASSUME NEW i \in Attempts, SeeExpected(i) PROVE GivenUpInv'
    BY <2>t, <2>2 DEF SeeExpected, Expected
  <2>3. ASSUME NEW i \in Attempts, SeeError(i) PROVE GivenUpInv'
    BY <2>t, <2>3 DEF SeeError
  <2>4. ASSUME NEW i \in Attempts, ParentTimesOut(i) PROVE GivenUpInv'
    BY <2>t, <2>4 DEF ParentTimesOut, Expected
  <2>5. ASSUME NEW i \in Attempts, WriteAck(i) PROVE GivenUpInv'
    BY <2>t, <2>5 DEF WriteAck, TimingInv
  <2>6. ASSUME NEW i \in Attempts, WriteProceed(i) PROVE GivenUpInv'
    BY <2>t, <2>6 DEF WriteProceed
  <2>7. ASSUME NEW i \in Attempts, Commit(i) PROVE GivenUpInv'
    BY <2>t, <2>7 DEF Commit
  <2>8. ASSUME NEW i \in Attempts, PersistFailure(i) PROVE GivenUpInv'
    BY <2>t, <2>8 DEF PersistFailure
  <2>9. ASSUME NEW i \in Attempts, Settle(i) PROVE GivenUpInv'
    BY <2>t, <2>9 DEF Settle
  <2>10. ASSUME NEW i \in Attempts, ParentCrash(i) PROVE GivenUpInv'
    BY <2>t, <2>10 DEF ParentCrash
  <2>11. ASSUME NEW i \in Attempts, Spawn(i) PROVE GivenUpInv'
    BY <2>t, <2>11 DEF Spawn, PhaseInv
  <2>12. ASSUME NEW i \in Attempts, Terminate(i) PROVE GivenUpInv'
    BY <2>t, <2>12 DEF Terminate, Dies
  <2>13. ASSUME NEW i \in Attempts, AcquireLease(i) PROVE GivenUpInv'
    BY <2>t, <2>13 DEF AcquireLease
  <2>14. ASSUME NEW i \in Attempts, WriteReady(i) PROVE GivenUpInv'
    BY <2>t, <2>14 DEF WriteReady
  <2>15. ASSUME NEW i \in Attempts, SeeAck(i) PROVE GivenUpInv'
    BY <2>t, <2>15 DEF SeeAck
  <2>16. ASSUME NEW i \in Attempts, WriteAcknowledged(i) PROVE GivenUpInv'
    BY <2>t, <2>16 DEF WriteAcknowledged
  <2>17. ASSUME NEW i \in Attempts, SeeProceed(i) PROVE GivenUpInv'
    BY <2>t, <2>17 DEF SeeProceed
  <2>18. ASSUME NEW i \in Attempts, RunnerTimesOut(i) PROVE GivenUpInv'
    <3>1. /\ rc[i] \in RunnerWaits /\ patience[i] = RunnerTimeout
          /\ rc' = [rc EXCEPT ![i] = "writeError"] /\ gaveUp' = gaveUp \cup {i}
          /\ UNCHANGED <<pc, startup, proceed>>
      BY <2>18 DEF RunnerTimesOut
    <3>2. CASE rc[i] = "waitAck"
      <4>1. i \notin proceed /\ pc[i] # "writeProceed" /\ startup[i] # "acknowledged"
        BY <3>2 DEF TimingInv, Early
      <4> QED
        BY <2>t, <3>1, <4>1
    <3>3. CASE rc[i] = "waitProceed"
      <4>1. i \notin proceed /\ pc[i] \notin {"waitAcknowledged", "writeProceed"}
        BY <2>t, <3>1, <3>3 DEF TimingInv
      <4> QED
        BY <2>t, <3>1, <4>1
    <3> QED
      BY <3>1, <3>2, <3>3
  <2>19. ASSUME NEW i \in Attempts, WriteError(i) PROVE GivenUpInv'
    BY <2>t, <2>19 DEF WriteError
  <2>20. ASSUME NEW i \in Attempts, FinishRun(i) PROVE GivenUpInv'
    BY <2>t, <2>20 DEF FinishRun
  <2>21. ASSUME NEW i \in Attempts, Release(i) PROVE GivenUpInv'
    BY <2>t, <2>21 DEF Release, Dies
  <2>22. ASSUME NEW i \in Attempts, RunnerCrash(i) PROVE GivenUpInv'
    BY <2>t, <2>22 DEF RunnerCrash, Dies
  <2>23. CASE Tick
    BY <2>t, <2>23 DEF Tick, HasWork, Expected, Answered
  <2>24. CASE UNCHANGED vars
    BY <2>t, <2>24 DEF vars
  <2> QED
    BY <2>1, <2>2, <2>3, <2>4, <2>5, <2>6, <2>7, <2>8, <2>9, <2>10, <2>11,
       <2>12, <2>13, <2>14, <2>15, <2>16, <2>17, <2>18, <2>19, <2>20, <2>21,
       <2>22, <2>23, <2>24
       DEF Next, ParentStep, StartupStep
<1> QED
  BY <1>1, <1>2

\* No start is committed whose runner has given up, for any timeout of the
\* parent, when the parent's reading of "acknowledged" and its writing of
\* "proceed" are each late by less than half of the runner's timeout (30 s,
\* waitForStartupControl).  The bound is the best: see the README.
THEOREM CommittedInTime ==
  StartupAssumption /\ LateTwiceIsInTime => (Spec => []CommittedIsNotGivenUp)
<1> SUFFICES ASSUME StartupAssumption, LateTwiceIsInTime
             PROVE  Spec => []CommittedIsNotGivenUp
  OBVIOUS
<1>1. GivenUpInv => CommittedIsNotGivenUp
  BY DEF GivenUpInv, CommittedIsNotGivenUp
<1> QED
  BY TypeOKInductive, PhaseInvInductive, TimingInvInductive, GivenUpInvInductive,
     <1>1, PTL DEF Spec
=============================================================================
