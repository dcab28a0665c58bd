------------------------ MODULE AsyncCapacity_proofs ------------------------
(* Proofs about the cap on active runs: type correctness, that a slot      *)
(* marked started is released only at the end of its run, and that of a    *)
(* run reported as started only on an observed proof, that such a run      *)
(* keeps its slot, and, as long as the operations of two processes do not  *)
(* overlap, that every running run has a slot and the cap is kept, crashes *)
(* and failed writes included.                                             *)
(***************************************************************************)
EXTENDS AsyncCapacity, FunctionTheorems, FiniteSetTheorems, TLAPS

-----------------------------------------------------------------------------
(* Type correctness, one group of variables after the other.               *)

Refreshing == {"scan", "claimRemove", "remove"}
Charging   == {"admit", "create", "persist", "find", "claimTransfer", "transfer"}
Holding    == {"spawn", "claimMark", "mark", "claimRollback", "rollback",
               "unclaimSpawn", "unclaimRetry", "claimRetry", "retry"}
AtSlot     == Holding \cup {"claimRemove", "remove", "persist", "claimTransfer",
                            "transfer", "unclaimDone"}
Control    == AtSlot \cup {"idle", "crashed", "scan", "admit", "create", "find"}
Jobs       == [run : Runs \cup {None}, source : Runs \cup {None}, spawned : BOOLEAN]

\* A parent looks at a slot that may exist whenever it uses it.
ControlOK ==
  /\ pc \in [Parents -> Control]
  /\ at \in [Parents -> 1..(Limit + 1)]
  /\ \A p \in Parents : pc[p] \in AtSlot => at[p] \in Slots

\* A parent has a run to launch from its beginning to its end.
JobsOK ==
  /\ job \in [Parents -> Jobs]
  /\ accepted \subseteq used /\ used \subseteq Runs
  /\ \A p \in Parents :
       /\ pc[p] \in {"idle", "crashed"} => job[p] = NoJob
       /\ pc[p] \in Charging \cup Holding => job[p].run \in Runs
       /\ pc[p] \in {"find", "claimTransfer", "transfer"} => job[p].source \in Runs
       /\ job[p].run \in used \cup {None}

\* A parent has a record in hand when it judges a slot, and in its handle.
RecordsOK ==
  /\ seen \in [Parents -> Owners \cup {None}]
  /\ mine \in [Parents -> Owners \cup {None}]
  /\ prev \in [Parents -> Owners \cup {None}]
  /\ owner \in [Slots -> Owners \cup {None}]
  /\ \A p \in Parents :
       /\ pc[p] \in {"claimRemove", "remove", "claimTransfer", "transfer"} => seen[p] \in Owners
       /\ pc[p] \in {"idle", "crashed"} => mine[p] = None
       /\ pc[p] \in Holding => mine[p] \in Owners

SlotsOK  == exists \subseteq Slots /\ claim \in [Slots -> Parents \cup {None}]
StatusOK == /\ status \in [Runs -> {"absent", "running", "paused", "ended"}]
            /\ proof \in [Runs -> {"none", "observed", "unknown", "not-started"}]
Flags    == live \in [Runs -> BOOLEAN] /\ due \in BOOLEAN

TypeInv == ControlOK /\ JobsOK /\ RecordsOK /\ SlotsOK /\ StatusOK /\ Flags

\* What the records of slots and of operations are made of.
LEMMA OwnerFacts ==
  /\ \A t, r \in Runs, g \in Nat, b \in BOOLEAN :
       /\ Owner(t, r, g, b) \in Owners
       /\ Owner(t, r, g, b).token = t /\ Owner(t, r, g, b).run = r
       /\ Owner(t, r, g, b).gen = g /\ Owner(t, r, g, b).started = b
  /\ \A o \in Owners :
       /\ o.token \in Runs /\ o.run \in Runs /\ o.gen \in Nat
       /\ [o EXCEPT !.started = TRUE] \in Owners
       /\ [o EXCEPT !.started = TRUE].token = o.token
       /\ [o EXCEPT !.started = TRUE].run = o.run
       /\ [o EXCEPT !.started = TRUE].gen = o.gen
  BY DEF Owner, Owners

LEMMA JobFacts ==
  /\ \A r, f \in Runs \cup {None} :
       /\ Job(r, f) \in Jobs /\ Job(r, f).run = r /\ Job(r, f).source = f
       /\ Job(r, f).spawned = FALSE
  /\ \A j \in Jobs :
       /\ [j EXCEPT !.spawned = TRUE] \in Jobs
       /\ [j EXCEPT !.spawned = TRUE].run = j.run
       /\ [j EXCEPT !.spawned = TRUE].source = j.source
  BY DEF Job, Jobs

LEMMA NoJobFacts ==
  NoJob \in Jobs /\ NoJob.run = None /\ NoJob.source = None /\ NoJob.spawned = FALSE
  BY DEF NoJob, Job, Jobs

\* The environment's flags stay Boolean.
LEMMA FlagsInductive ==
  /\ Init => Flags
  /\ Flags /\ [Next]_vars => Flags'
<1> USE DEF Flags
<1>1. Init => Flags
  BY DEF Init
<1>2. Flags /\ [Next]_vars => Flags'
  <2> SUFFICES ASSUME Flags, [Next]_vars PROVE Flags'
    OBVIOUS
  <2> USE DEF desk, parentVars, slotVars, runVars
  <2>1. ASSUME NEW p \in Parents, NEW r \in Runs, BeginLaunch(p, r)
        PROVE  Flags'
    BY <2>1 DEF BeginLaunch
  <2>2. ASSUME NEW p \in Parents, NEW r \in Runs, NEW source \in Runs,
               BeginResume(p, r, source)
        PROVE  Flags'
    BY <2>2 DEF BeginResume
  <2>3. ASSUME NEW p \in Parents, BeginRefresh(p) PROVE Flags'
    BY <2>3 DEF BeginRefresh
  <2>4. ASSUME NEW p \in Parents, Scan(p) PROVE Flags'
    BY <2>4 DEF Scan, Releasable
  <2>5. ASSUME NEW p \in Parents, ClaimToRemove(p) PROVE Flags'
    BY <2>5 DEF ClaimToRemove, Claimable, Take
  <2>6. ASSUME NEW p \in Parents, RemoveSlot(p) PROVE Flags'
    BY <2>6 DEF RemoveSlot, Matches
  <2>7. ASSUME NEW p \in Parents, Admit(p) PROVE Flags'
    BY <2>7 DEF Admit
  <2>8. ASSUME NEW p \in Parents, CreateSlot(p) PROVE Flags'
    BY <2>8 DEF CreateSlot
  <2>9. ASSUME NEW p \in Parents, PersistOwner(p) PROVE Flags'
    BY <2>9 DEF PersistOwner
  <2>10. ASSUME NEW p \in Parents, FindSource(p) PROVE Flags'
    BY <2>10 DEF FindSource
  <2>11. ASSUME NEW p \in Parents, ClaimToTransfer(p) PROVE Flags'
    BY <2>11 DEF ClaimToTransfer, Claimable, Take
  <2>12. ASSUME NEW p \in Parents, Transfer(p) PROVE Flags'
    BY <2>12 DEF Transfer, Matches
  <2>13. ASSUME NEW p \in Parents, SpawnRunner(p) PROVE Flags'
    BY <2>13 DEF SpawnRunner
  <2>14. ASSUME NEW p \in Parents, SpawnFails(p) PROVE Flags'
    BY <2>14 DEF SpawnFails
  <2>15. ASSUME NEW p \in Parents, StartupUnsettled(p) PROVE Flags'
    BY <2>15 DEF StartupUnsettled
  <2>16. ASSUME NEW p \in Parents, ClaimToMark(p) PROVE Flags'
    BY <2>16 DEF ClaimToMark, Claimable, Take
  <2>17. ASSUME NEW p \in Parents, MarkStarted(p) PROVE Flags'
    BY <2>17 DEF MarkStarted, Matches
  <2>18. ASSUME NEW p \in Parents, ClaimToRollback(p) PROVE Flags'
    BY <2>18 DEF ClaimToRollback, Claimable, Take
  <2>19. ASSUME NEW p \in Parents, Rollback(p) PROVE Flags'
    BY <2>19 DEF Rollback, Matches
  <2>20. ASSUME NEW p \in Parents, Unclaim(p) PROVE Flags'
    BY <2>20 DEF Unclaim
  <2>21. ASSUME NEW p \in Parents, Crash(p) PROVE Flags'
    BY <2>21 DEF Crash
  <2>22. ASSUME NEW r \in Runs, RunEnds(r) PROVE Flags'
    BY <2>22 DEF RunEnds
  <2>23. ASSUME NEW r \in Runs, RunnerExits(r) PROVE Flags'
    BY <2>23 DEF RunnerExits
  <2>24. ASSUME NEW r \in Runs, DeclareFailed(r) PROVE Flags'
    BY <2>24 DEF DeclareFailed
  <2>25. ASSUME NEW r \in Runs, FinalizeProof(r) PROVE Flags'
    BY <2>25 DEF FinalizeProof
  <2>26. CASE UNCHANGED vars
    BY <2>26 DEF vars
  <2> QED
    BY <2>1, <2>2, <2>3, <2>4, <2>5, <2>6, <2>7, <2>8, <2>9, <2>10, <2>11,
       <2>12, <2>13, <2>14, <2>15, <2>16, <2>17, <2>18, <2>19, <2>20, <2>21,
       <2>22, <2>23, <2>24, <2>25, <2>26
       DEF Next, ParentStep, RunnerStep
<1> QED
  BY <1>1, <1>2

\* ControlOK holds in every initial state and is kept by every step.
LEMMA ControlOKInductive ==
  ASSUME CapacityAssumption
  PROVE  /\ Init => ControlOK
         /\ ControlOK /\ [Next]_vars => ControlOK'
<1> USE CapacityAssumption DEF CapacityAssumption, ControlOK, Slots, Control, AtSlot, Holding
<1>1. Init => ControlOK
  BY DEF Init
<1>2. ControlOK /\ [Next]_vars => ControlOK'
  <2> SUFFICES ASSUME ControlOK, [Next]_vars PROVE ControlOK'
    OBVIOUS
  <2> USE DEF desk, parentVars, slotVars, runVars, Goto, Forget, Finish
  <2>1. ASSUME NEW p \in Parents, NEW r \in Runs, BeginLaunch(p, r)
        PROVE  ControlOK'
    BY <2>1 DEF BeginLaunch
  <2>2. ASSUME NEW p \in Parents, NEW r \in Runs, NEW source \in Runs,
               BeginResume(p, r, source)
        PROVE  ControlOK'
    BY <2>2 DEF BeginResume
  <2>3. ASSUME NEW p \in Parents, BeginRefresh(p) PROVE ControlOK'
    BY <2>3 DEF BeginRefresh
  <2>4. ASSUME NEW p \in Parents, Scan(p) PROVE ControlOK'
    BY <2>4 DEF Scan, Releasable
  <2>5. ASSUME NEW p \in Parents, ClaimToRemove(p) PROVE ControlOK'
    BY <2>5 DEF ClaimToRemove, Claimable, Take
  <2>6. ASSUME NEW p \in Parents, RemoveSlot(p) PROVE ControlOK'
    BY <2>6 DEF RemoveSlot, Matches
  <2>7. ASSUME NEW p \in Parents, Admit(p) PROVE ControlOK'
    BY <2>7 DEF Admit
  <2>8. ASSUME NEW p \in Parents, CreateSlot(p) PROVE ControlOK'
    BY <2>8 DEF CreateSlot
  <2>9. ASSUME NEW p \in Parents, PersistOwner(p) PROVE ControlOK'
    BY <2>9 DEF PersistOwner
  <2>10. ASSUME NEW p \in Parents, FindSource(p) PROVE ControlOK'
    BY <2>10 DEF FindSource
  <2>11. ASSUME NEW p \in Parents, ClaimToTransfer(p) PROVE ControlOK'
    BY <2>11 DEF ClaimToTransfer, Claimable, Take
  <2>12. ASSUME NEW p \in Parents, Transfer(p) PROVE ControlOK'
    BY <2>12 DEF Transfer, Matches
  <2>13. ASSUME NEW p \in Parents, SpawnRunner(p) PROVE ControlOK'
    BY <2>13 DEF SpawnRunner
  <2>14. ASSUME NEW p \in Parents, SpawnFails(p) PROVE ControlOK'
    BY <2>14 DEF SpawnFails
  <2>15. ASSUME NEW p \in Parents, StartupUnsettled(p) PROVE ControlOK'
    BY <2>15 DEF StartupUnsettled
  <2>16. ASSUME NEW p \in Parents, ClaimToMark(p) PROVE ControlOK'
    BY <2>16 DEF ClaimToMark, Claimable, Take
  <2>17. ASSUME NEW p \in Parents, MarkStarted(p) PROVE ControlOK'
    BY <2>17 DEF MarkStarted, Matches
  <2>18. ASSUME NEW p \in Parents, ClaimToRollback(p) PROVE ControlOK'
    BY <2>18 DEF ClaimToRollback, Claimable, Take
  <2>19. ASSUME NEW p \in Parents, Rollback(p) PROVE ControlOK'
    BY <2>19 DEF Rollback, Matches
  <2>20. ASSUME NEW p \in Parents, Unclaim(p) PROVE ControlOK'
    BY <2>20 DEF Unclaim
  <2>21. ASSUME NEW p \in Parents, Crash(p) PROVE ControlOK'
    BY <2>21 DEF Crash
  <2>22. ASSUME NEW r \in Runs, RunEnds(r) PROVE ControlOK'
    BY <2>22 DEF RunEnds
  <2>23. ASSUME NEW r \in Runs, RunnerExits(r) PROVE ControlOK'
    BY <2>23 DEF RunnerExits
  <2>24. ASSUME NEW r \in Runs, DeclareFailed(r) PROVE ControlOK'
    BY <2>24 DEF DeclareFailed
  <2>25. ASSUME NEW r \in Runs, FinalizeProof(r) PROVE ControlOK'
    BY <2>25 DEF FinalizeProof
  <2>26. CASE UNCHANGED vars
    BY <2>26 DEF vars
  <2> QED
    BY <2>1, <2>2, <2>3, <2>4, <2>5, <2>6, <2>7, <2>8, <2>9, <2>10, <2>11,
       <2>12, <2>13, <2>14, <2>15, <2>16, <2>17, <2>18, <2>19, <2>20, <2>21,
       <2>22, <2>23, <2>24, <2>25, <2>26
       DEF Next, ParentStep, RunnerStep
<1> QED
  BY <1>1, <1>2

\* JobsOK holds in every initial state and is kept by every step.
LEMMA JobsOKInductive ==
  ASSUME CapacityAssumption
  PROVE  /\ Init => JobsOK
         /\ ControlOK /\ JobsOK /\ [Next]_vars => JobsOK'
<1> USE CapacityAssumption, NoJobFacts DEF CapacityAssumption, JobsOK, Charging, Holding
<1>1. Init => JobsOK
  BY DEF Init
<1>2. ControlOK /\ JobsOK /\ [Next]_vars => JobsOK'
  <2> SUFFICES ASSUME ControlOK, JobsOK, [Next]_vars PROVE JobsOK'
    OBVIOUS
  <2> USE DEF desk, parentVars, slotVars, runVars, Goto, Forget, Finish
  <2>t. pc \in [Parents -> Control]
    BY DEF ControlOK
  <2>1. ASSUME NEW p \in Parents, NEW r \in Runs, BeginLaunch(p, r)
        PROVE  JobsOK'
    BY <2>t, <2>1, JobFacts DEF BeginLaunch
  <2>2. ASSUME NEW p \in Parents, NEW r \in Runs, NEW source \in Runs,
               BeginResume(p, r, source)
        PROVE  JobsOK'
    BY <2>t, <2>2, JobFacts DEF BeginResume
  <2>3. ASSUME NEW p \in Parents, BeginRefresh(p) PROVE JobsOK'
    BY <2>t, <2>3 DEF BeginRefresh
  <2>4. ASSUME NEW p \in Parents, Scan(p) PROVE JobsOK'
    BY <2>t, <2>4 DEF Scan, Releasable
  <2>5. ASSUME NEW p \in Parents, ClaimToRemove(p) PROVE JobsOK'
    BY <2>t, <2>5 DEF ClaimToRemove, Claimable, Take
  <2>6. ASSUME NEW p \in Parents, RemoveSlot(p) PROVE JobsOK'
    BY <2>t, <2>6 DEF RemoveSlot, Matches
  <2>7. ASSUME NEW p \in Parents, Admit(p) PROVE JobsOK'
    BY <2>t, <2>7 DEF Admit
  <2>8. ASSUME NEW p \in Parents, CreateSlot(p) PROVE JobsOK'
    BY <2>t, <2>8 DEF CreateSlot
  <2>9. ASSUME NEW p \in Parents, PersistOwner(p) PROVE JobsOK'
    BY <2>t, <2>9 DEF PersistOwner
  <2>10. ASSUME NEW p \in Parents, FindSource(p) PROVE JobsOK'
    BY <2>t, <2>10 DEF FindSource
  <2>11. ASSUME NEW p \in Parents, ClaimToTransfer(p) PROVE JobsOK'
    BY <2>t, <2>11 DEF ClaimToTransfer, Claimable, Take
  <2>12. ASSUME NEW p \in Parents, Transfer(p) PROVE JobsOK'
    BY <2>t, <2>12 DEF Transfer, Matches
  <2>13. ASSUME NEW p \in Parents, SpawnRunner(p) PROVE JobsOK'
    BY <2>t, <2>13, JobFacts DEF SpawnRunner
  <2>14. ASSUME NEW p \in Parents, SpawnFails(p) PROVE JobsOK'
    BY <2>t, <2>14 DEF SpawnFails
  <2>15. ASSUME NEW p \in Parents, StartupUnsettled(p) PROVE JobsOK'
    BY <2>t, <2>15 DEF StartupUnsettled
  <2>16. ASSUME NEW p \in Parents, ClaimToMark(p) PROVE JobsOK'
    BY <2>t, <2>16 DEF ClaimToMark, Claimable, Take
  <2>17. ASSUME NEW p \in Parents, MarkStarted(p) PROVE JobsOK'
    BY <2>t, <2>17 DEF MarkStarted, Matches
  <2>18. ASSUME NEW p \in Parents, ClaimToRollback(p) PROVE JobsOK'
    BY <2>t, <2>18 DEF ClaimToRollback, Claimable, Take
  <2>19. ASSUME NEW p \in Parents, Rollback(p) PROVE JobsOK'
    BY <2>t, <2>19 DEF Rollback, Matches
  <2>20. ASSUME NEW p \in Parents, Unclaim(p) PROVE JobsOK'
    BY <2>t, <2>20 DEF Unclaim
  <2>21. ASSUME NEW p \in Parents, Crash(p) PROVE JobsOK'
    BY <2>t, <2>21 DEF Crash
  <2>22. ASSUME NEW r \in Runs, RunEnds(r) PROVE JobsOK'
    BY <2>t, <2>22 DEF RunEnds
  <2>23. ASSUME NEW r \in Runs, RunnerExits(r) PROVE JobsOK'
    BY <2>t, <2>23 DEF RunnerExits
  <2>24. ASSUME NEW r \in Runs, DeclareFailed(r) PROVE JobsOK'
    BY <2>t, <2>24 DEF DeclareFailed
  <2>25. ASSUME NEW r \in Runs, FinalizeProof(r) PROVE JobsOK'
    BY <2>t, <2>25 DEF FinalizeProof
  <2>26. CASE UNCHANGED vars
    BY <2>t, <2>26 DEF vars
  <2> QED
    BY <2>1, <2>2, <2>3, <2>4, <2>5, <2>6, <2>7, <2>8, <2>9, <2>10, <2>11,
       <2>12, <2>13, <2>14, <2>15, <2>16, <2>17, <2>18, <2>19, <2>20, <2>21,
       <2>22, <2>23, <2>24, <2>25, <2>26
       DEF Next, ParentStep, RunnerStep
<1> QED
  BY <1>1, <1>2

\* RecordsOK holds in every initial state and is kept by every step.
LEMMA RecordsOKInductive ==
  ASSUME CapacityAssumption
  PROVE  /\ Init => RecordsOK
         /\ ControlOK /\ JobsOK /\ RecordsOK /\ [Next]_vars => RecordsOK'
<1> USE CapacityAssumption DEF CapacityAssumption, RecordsOK, Holding
<1>1. Init => RecordsOK
  BY DEF Init
<1>2. ControlOK /\ JobsOK /\ RecordsOK /\ [Next]_vars => RecordsOK'
  <2> SUFFICES ASSUME ControlOK, JobsOK, RecordsOK, [Next]_vars PROVE RecordsOK'
    OBVIOUS
  <2> USE DEF desk, parentVars, slotVars, runVars, Goto, Forget, Finish
  <2>t. /\ pc \in [Parents -> Control]
        /\ \A p \in Parents : pc[p] \in AtSlot => at[p] \in Slots
    BY DEF ControlOK
  <2>s. \A p \in Parents : pc[p] \in {"remove", "persist", "transfer", "mark", "rollback", "retry"}
                            => at[p] \in Slots
    BY <2>t DEF AtSlot, Holding
  <2>a. \A p \in Parents : ~(at[p] > Limit) => at[p] \in Slots
    BY DEF ControlOK, Slots
  <2>j. \A p \in Parents : pc[p] \in {"persist", "transfer"} => job[p].run \in Runs
    BY DEF JobsOK, Charging
  <2> USE <2>t, <2>s
  <2>1. ASSUME NEW p \in Parents, NEW r \in Runs, BeginLaunch(p, r)
        PROVE  RecordsOK'
    BY <2>1 DEF BeginLaunch
  <2>2. ASSUME NEW p \in Parents, NEW r \in Runs, NEW source \in Runs,
               BeginResume(p, r, source)
        PROVE  RecordsOK'
    BY <2>2 DEF BeginResume
  <2>3. ASSUME NEW p \in Parents, BeginRefresh(p) PROVE RecordsOK'
    BY <2>3 DEF BeginRefresh
  <2>4. ASSUME NEW p \in Parents, Scan(p) PROVE RecordsOK'
    <3>1. CASE at[p] > Limit
      BY <2>4, <3>1 DEF Scan
    <3>2. CASE ~(at[p] > Limit) /\ owner[at[p]] # None /\ Releasable(owner[at[p]])
      <4>1. owner[at[p]] \in Owners
        BY <2>a, <3>2
      <4> QED
        BY <2>4, <3>2, <4>1 DEF Scan
    <3>3. CASE ~(at[p] > Limit) /\ ~(owner[at[p]] # None /\ Releasable(owner[at[p]]))
      BY <2>4, <3>3 DEF Scan
    <3> QED
      BY <3>1, <3>2, <3>3
  <2>5. ASSUME NEW p \in Parents, ClaimToRemove(p) PROVE RecordsOK'
    BY <2>5 DEF ClaimToRemove, Claimable, Take
  <2>6. ASSUME NEW p \in Parents, RemoveSlot(p) PROVE RecordsOK'
    BY <2>6 DEF RemoveSlot, Matches
  <2>7. ASSUME NEW p \in Parents, Admit(p) PROVE RecordsOK'
    BY <2>7 DEF Admit
  <2>8. ASSUME NEW p \in Parents, CreateSlot(p) PROVE RecordsOK'
    BY <2>8 DEF CreateSlot
  <2>9. ASSUME NEW p \in Parents, PersistOwner(p) PROVE RecordsOK'
    <3>1. Owner(job[p].run, job[p].run, 0, FALSE) \in Owners
      BY <2>9, <2>j, OwnerFacts DEF PersistOwner
    <3> QED
      BY <2>9, <3>1 DEF PersistOwner
  <2>10. ASSUME NEW p \in Parents, FindSource(p) PROVE RecordsOK'
    <3>1. CASE at[p] > Limit
      BY <2>10, <3>1 DEF FindSource
    <3>2. CASE ~(at[p] > Limit) /\ owner[at[p]] # None /\ owner[at[p]].run = job[p].source
      <4>1. owner[at[p]] \in Owners
        BY <2>a, <3>2
      <4> QED
        BY <2>10, <3>2, <4>1 DEF FindSource
    <3>3. CASE /\ ~(at[p] > Limit)
               /\ ~(owner[at[p]] # None /\ owner[at[p]].run = job[p].source)
      BY <2>10, <3>3 DEF FindSource
    <3> QED
      BY <3>1, <3>2, <3>3
  <2>11. ASSUME NEW p \in Parents, ClaimToTransfer(p) PROVE RecordsOK'
    BY <2>11 DEF ClaimToTransfer, Claimable, Take
  <2>12. ASSUME NEW p \in Parents, Transfer(p) PROVE RecordsOK'
    <3> DEFINE next == Owner(owner[at[p]].token, job[p].run, owner[at[p]].gen + 1, FALSE)
    <3>1. CASE Matches(at[p], seen[p]) /\ status[job[p].source] \in {"paused", "ended"}
      <4>1. owner[at[p]] \in Owners /\ job[p].run \in Runs
        BY <2>12, <2>j, <3>1 DEF Transfer, Matches
      <4>2. next \in Owners
        <5>1. owner[at[p]].token \in Runs /\ owner[at[p]].gen \in Nat
          BY <4>1, OwnerFacts
        <5>2. owner[at[p]].gen + 1 \in Nat
          BY <5>1
        <5> QED
          BY <4>1, <5>1, <5>2, OwnerFacts
      <4>3. /\ pc' = [pc EXCEPT ![p] = "unclaimSpawn"]
            /\ owner' = [owner EXCEPT ![at[p]] = next]
            /\ mine' = [mine EXCEPT ![p] = next]
            /\ prev' = [prev EXCEPT ![p] = owner[at[p]]]
            /\ UNCHANGED seen
        BY <2>12, <3>1 DEF Transfer
      <4> HIDE DEF next
      <4> QED
        BY <4>1, <4>2, <4>3
    <3>2. CASE ~(Matches(at[p], seen[p]) /\ status[job[p].source] \in {"paused", "ended"})
      BY <2>12, <3>2 DEF Transfer
    <3> QED
      BY <3>1, <3>2
  <2>13. ASSUME NEW p \in Parents, SpawnRunner(p) PROVE RecordsOK'
    BY <2>13 DEF SpawnRunner
  <2>14. ASSUME NEW p \in Parents, SpawnFails(p) PROVE RecordsOK'
    BY <2>14 DEF SpawnFails
  <2>15. ASSUME NEW p \in Parents, StartupUnsettled(p) PROVE RecordsOK'
    BY <2>15 DEF StartupUnsettled
  <2>16. ASSUME NEW p \in Parents, ClaimToMark(p) PROVE RecordsOK'
    BY <2>16 DEF ClaimToMark, Claimable, Take
  <2>17. ASSUME NEW p \in Parents, MarkStarted(p) PROVE RecordsOK'
    <3>1. CASE Matches(at[p], mine[p])
      <4>1. owner[at[p]] \in Owners /\ mine[p] \in Owners
        BY <2>17, <3>1 DEF MarkStarted, Matches
      <4>2. /\ [owner[at[p]] EXCEPT !.started = TRUE] \in Owners
            /\ [mine[p] EXCEPT !.started = TRUE] \in Owners
        BY <4>1, OwnerFacts
      <4>3. /\ pc' = [pc EXCEPT ![p] = "unclaimDone"]
            /\ \/ owner' = [owner EXCEPT ![at[p]] = [owner[at[p]] EXCEPT !.started = TRUE]]
               \/ UNCHANGED owner
            /\ mine' = [mine EXCEPT ![p] = [mine[p] EXCEPT !.started = TRUE]]
            /\ UNCHANGED <<seen, prev>>
        BY <2>17, <3>1 DEF MarkStarted
      <4> QED
        BY <4>2, <4>3
    <3>2. CASE ~Matches(at[p], mine[p])
      BY <2>17, <3>2 DEF MarkStarted
    <3> QED
      BY <3>1, <3>2
  <2>18. ASSUME NEW p \in Parents, ClaimToRollback(p) PROVE RecordsOK'
    BY <2>18 DEF ClaimToRollback, Claimable, Take
  <2>19. ASSUME NEW p \in Parents, Rollback(p) PROVE RecordsOK'
    BY <2>19 DEF Rollback, Matches
  <2>20. ASSUME NEW p \in Parents, Unclaim(p) PROVE RecordsOK'
    BY <2>20 DEF Unclaim
  <2>21. ASSUME NEW p \in Parents, Crash(p) PROVE RecordsOK'
    BY <2>21 DEF Crash
  <2>22. ASSUME NEW r \in Runs, RunEnds(r) PROVE RecordsOK'
    BY <2>22 DEF RunEnds
  <2>23. ASSUME NEW r \in Runs, RunnerExits(r) PROVE RecordsOK'
    BY <2>23 DEF RunnerExits
  <2>24. ASSUME NEW r \in Runs, DeclareFailed(r) PROVE RecordsOK'
    BY <2>24 DEF DeclareFailed
  <2>25. ASSUME NEW r \in Runs, FinalizeProof(r) PROVE RecordsOK'
    BY <2>25 DEF FinalizeProof
  <2>26. CASE UNCHANGED vars
    BY <2>26 DEF vars
  <2> QED
    BY <2>1, <2>2, <2>3, <2>4, <2>5, <2>6, <2>7, <2>8, <2>9, <2>10, <2>11,
       <2>12, <2>13, <2>14, <2>15, <2>16, <2>17, <2>18, <2>19, <2>20, <2>21,
       <2>22, <2>23, <2>24, <2>25, <2>26
       DEF Next, ParentStep, RunnerStep
<1> QED
  BY <1>1, <1>2

\* SlotsOK holds in every initial state and is kept by every step.
LEMMA SlotsOKInductive ==
  ASSUME CapacityAssumption
  PROVE  /\ Init => SlotsOK
         /\ ControlOK /\ SlotsOK /\ [Next]_vars => SlotsOK'
<1> USE CapacityAssumption DEF CapacityAssumption, SlotsOK
<1>1. Init => SlotsOK
  BY DEF Init
<1>2. ControlOK /\ SlotsOK /\ [Next]_vars => SlotsOK'
  <2> SUFFICES ASSUME ControlOK, SlotsOK, [Next]_vars PROVE SlotsOK'
    OBVIOUS
  <2> USE DEF desk, parentVars, slotVars, runVars, Goto, Forget, Finish
  <2>a. \A p \in Parents : ~(at[p] > Limit) => at[p] \in Slots
    BY DEF ControlOK, Slots
  <2>1. ASSUME NEW p \in Parents, NEW r \in Runs, BeginLaunch(p, r)
        PROVE  SlotsOK'
    BY <2>1 DEF BeginLaunch
  <2>2. ASSUME NEW p \in Parents, NEW r \in Runs, NEW source \in Runs,
               BeginResume(p, r, source)
        PROVE  SlotsOK'
    BY <2>2 DEF BeginResume
  <2>3. ASSUME NEW p \in Parents, BeginRefresh(p) PROVE SlotsOK'
    BY <2>3 DEF BeginRefresh
  <2>4. ASSUME NEW p \in Parents, Scan(p) PROVE SlotsOK'
    BY <2>4 DEF Scan, Releasable
  <2>5. ASSUME NEW p \in Parents, ClaimToRemove(p) PROVE SlotsOK'
    BY <2>5 DEF ClaimToRemove, Claimable, Take
  <2>6. ASSUME NEW p \in Parents, RemoveSlot(p) PROVE SlotsOK'
    BY <2>6 DEF RemoveSlot, Matches
  <2>7. ASSUME NEW p \in Parents, Admit(p) PROVE SlotsOK'
    BY <2>7 DEF Admit
  <2>8. ASSUME NEW p \in Parents, CreateSlot(p) PROVE SlotsOK'
    BY <2>8, <2>a DEF CreateSlot
  <2>9. ASSUME NEW p \in Parents, PersistOwner(p) PROVE SlotsOK'
    BY <2>9 DEF PersistOwner
  <2>10. ASSUME NEW p \in Parents, FindSource(p) PROVE SlotsOK'
    BY <2>10 DEF FindSource
  <2>11. ASSUME NEW p \in Parents, ClaimToTransfer(p) PROVE SlotsOK'
    BY <2>11 DEF ClaimToTransfer, Claimable, Take
  <2>12. ASSUME NEW p \in Parents, Transfer(p) PROVE SlotsOK'
    BY <2>12 DEF Transfer, Matches
  <2>13. ASSUME NEW p \in Parents, SpawnRunner(p) PROVE SlotsOK'
    BY <2>13 DEF SpawnRunner
  <2>14. ASSUME NEW p \in Parents, SpawnFails(p) PROVE SlotsOK'
    BY <2>14 DEF SpawnFails
  <2>15. ASSUME NEW p \in Parents, StartupUnsettled(p) PROVE SlotsOK'
    BY <2>15 DEF StartupUnsettled
  <2>16. ASSUME NEW p \in Parents, ClaimToMark(p) PROVE SlotsOK'
    BY <2>16 DEF ClaimToMark, Claimable, Take
  <2>17. ASSUME NEW p \in Parents, MarkStarted(p) PROVE SlotsOK'
    BY <2>17 DEF MarkStarted, Matches
  <2>18. ASSUME NEW p \in Parents, ClaimToRollback(p) PROVE SlotsOK'
    BY <2>18 DEF ClaimToRollback, Claimable, Take
  <2>19. ASSUME NEW p \in Parents, Rollback(p) PROVE SlotsOK'
    BY <2>19 DEF Rollback, Matches
  <2>20. ASSUME NEW p \in Parents, Unclaim(p) PROVE SlotsOK'
    BY <2>20 DEF Unclaim
  <2>21. ASSUME NEW p \in Parents, Crash(p) PROVE SlotsOK'
    BY <2>21 DEF Crash
  <2>22. ASSUME NEW r \in Runs, RunEnds(r) PROVE SlotsOK'
    BY <2>22 DEF RunEnds
  <2>23. ASSUME NEW r \in Runs, RunnerExits(r) PROVE SlotsOK'
    BY <2>23 DEF RunnerExits
  <2>24. ASSUME NEW r \in Runs, DeclareFailed(r) PROVE SlotsOK'
    BY <2>24 DEF DeclareFailed
  <2>25. ASSUME NEW r \in Runs, FinalizeProof(r) PROVE SlotsOK'
    BY <2>25 DEF FinalizeProof
  <2>26. CASE UNCHANGED vars
    BY <2>26 DEF vars
  <2> QED
    BY <2>1, <2>2, <2>3, <2>4, <2>5, <2>6, <2>7, <2>8, <2>9, <2>10, <2>11,
       <2>12, <2>13, <2>14, <2>15, <2>16, <2>17, <2>18, <2>19, <2>20, <2>21,
       <2>22, <2>23, <2>24, <2>25, <2>26
       DEF Next, ParentStep, RunnerStep
<1> QED
  BY <1>1, <1>2

\* StatusOK holds in every initial state and is kept by every step.
LEMMA StatusOKInductive ==
  /\ Init => StatusOK
  /\ StatusOK /\ [Next]_vars => StatusOK'
<1> USE DEF StatusOK
<1>1. Init => StatusOK
  BY DEF Init
<1>2. StatusOK /\ [Next]_vars => StatusOK'
  <2> SUFFICES ASSUME StatusOK, [Next]_vars PROVE StatusOK'
    OBVIOUS
  <2> USE DEF desk, parentVars, slotVars, runVars, Goto, Forget, Finish
  <2>1. ASSUME NEW p \in Parents, NEW r \in Runs, BeginLaunch(p, r)
        PROVE  StatusOK'
    BY <2>1 DEF BeginLaunch
  <2>2. ASSUME NEW p \in Parents, NEW r \in Runs, NEW source \in Runs,
               BeginResume(p, r, source)
        PROVE  StatusOK'
    BY <2>2 DEF BeginResume
  <2>3. ASSUME NEW p \in Parents, BeginRefresh(p) PROVE StatusOK'
    BY <2>3 DEF BeginRefresh
  <2>4. ASSUME NEW p \in Parents, Scan(p) PROVE StatusOK'
    BY <2>4 DEF Scan, Releasable
  <2>5. ASSUME NEW p \in Parents, ClaimToRemove(p) PROVE StatusOK'
    BY <2>5 DEF ClaimToRemove, Claimable, Take
  <2>6. ASSUME NEW p \in Parents, RemoveSlot(p) PROVE StatusOK'
    BY <2>6 DEF RemoveSlot, Matches
  <2>7. ASSUME NEW p \in Parents, Admit(p) PROVE StatusOK'
    BY <2>7 DEF Admit
  <2>8. ASSUME NEW p \in Parents, CreateSlot(p) PROVE StatusOK'
    BY <2>8 DEF CreateSlot
  <2>9. ASSUME NEW p \in Parents, PersistOwner(p) PROVE StatusOK'
    BY <2>9 DEF PersistOwner
  <2>10. ASSUME NEW p \in Parents, FindSource(p) PROVE StatusOK'
    BY <2>10 DEF FindSource
  <2>11. ASSUME NEW p \in Parents, ClaimToTransfer(p) PROVE StatusOK'
    BY <2>11 DEF ClaimToTransfer, Claimable, Take
  <2>12. ASSUME NEW p \in Parents, Transfer(p) PROVE StatusOK'
    BY <2>12 DEF Transfer, Matches
  <2>13. ASSUME NEW p \in Parents, SpawnRunner(p) PROVE StatusOK'
    BY <2>13 DEF SpawnRunner
  <2>14. ASSUME NEW p \in Parents, SpawnFails(p) PROVE StatusOK'
    BY <2>14 DEF SpawnFails
  <2>15. ASSUME NEW p \in Parents, StartupUnsettled(p) PROVE StatusOK'
    BY <2>15 DEF StartupUnsettled
  <2>16. ASSUME NEW p \in Parents, ClaimToMark(p) PROVE StatusOK'
    BY <2>16 DEF ClaimToMark, Claimable, Take
  <2>17. ASSUME NEW p \in Parents, MarkStarted(p) PROVE StatusOK'
    BY <2>17 DEF MarkStarted, Matches
  <2>18. ASSUME NEW p \in Parents, ClaimToRollback(p) PROVE StatusOK'
    BY <2>18 DEF ClaimToRollback, Claimable, Take
  <2>19. ASSUME NEW p \in Parents, Rollback(p) PROVE StatusOK'
    BY <2>19 DEF Rollback, Matches
  <2>20. ASSUME NEW p \in Parents, Unclaim(p) PROVE StatusOK'
    BY <2>20 DEF Unclaim
  <2>21. ASSUME NEW p \in Parents, Crash(p) PROVE StatusOK'
    BY <2>21 DEF Crash
  <2>22. ASSUME NEW r \in Runs, RunEnds(r) PROVE StatusOK'
    BY <2>22 DEF RunEnds
  <2>23. ASSUME NEW r \in Runs, RunnerExits(r) PROVE StatusOK'
    BY <2>23 DEF RunnerExits
  <2>24. ASSUME NEW r \in Runs, DeclareFailed(r) PROVE StatusOK'
    BY <2>24 DEF DeclareFailed
  <2>25. ASSUME NEW r \in Runs, FinalizeProof(r) PROVE StatusOK'
    BY <2>25 DEF FinalizeProof
  <2>26. CASE UNCHANGED vars
    BY <2>26 DEF vars
  <2> QED
    BY <2>1, <2>2, <2>3, <2>4, <2>5, <2>6, <2>7, <2>8, <2>9, <2>10, <2>11,
       <2>12, <2>13, <2>14, <2>15, <2>16, <2>17, <2>18, <2>19, <2>20, <2>21,
       <2>22, <2>23, <2>24, <2>25, <2>26
       DEF Next, ParentStep, RunnerStep
<1> QED
  BY <1>1, <1>2

\* Every behaviour satisfies TypeInv in every state.
LEMMA TypeInvariant == CapacityAssumption => (Spec => []TypeInv)
<1> SUFFICES ASSUME CapacityAssumption PROVE Spec => []TypeInv
  OBVIOUS
<1> QED
  BY FlagsInductive, ControlOKInductive, JobsOKInductive, RecordsOKInductive,
     SlotsOKInductive, StatusOKInductive, PTL DEF Spec, TypeInv

\* Type correctness: what the parents hold in memory, the slots' directories,
\* records and claims, and the runs' files keep their kinds, for any number of
\* processes and runs and any limit.
THEOREM TypeCorrect == CapacityAssumption => (Spec => []TypeOK)
<1> SUFFICES ASSUME CapacityAssumption PROVE Spec => []TypeOK
  OBVIOUS
<1>1. TypeInv => TypeOK
  BY DEF TypeInv, TypeOK, ControlOK, JobsOK, RecordsOK, SlotsOK, StatusOK, Flags,
         Control, AtSlot, Holding, Jobs
<1> QED
  BY TypeInvariant, <1>1, PTL

-----------------------------------------------------------------------------
(* A verdict reached before the claim stays right: nothing that was read of *)
(* a finished run changes any more, as run ids are never used again.        *)

\* Two parents never launch the same run; a run not yet spawned has no status;
\* an id not given out has none either.
JobInv ==
  /\ \A p, q \in Parents : job[p].run = job[q].run => p = q \/ job[p].run = None
  /\ \A p \in Parents :
       pc[p] \in Refreshing \cup Charging \cup {"spawn", "unclaimSpawn"} =>
         \A r \in Runs : job[p].run = r => status[r] = "absent"
  /\ \A r \in Runs \ used : status[r] = "absent"

Final(r) == status[r] = "ended" /\ proof[r] # "none"

\* The record a parent is about to remove a slot for is that of a run whose
\* end and proof are on disk.
VerdictInv ==
  \A p \in Parents : pc[p] \in {"claimRemove", "remove"} => Final(seen[p].run)

\* A parent has spawned its run's runner only while it marks the slot, or gives
\* it back when that failed.  What was spawned or reported was not proved never
\* to have started, and nothing is proved of a run that is not recorded.
ProofInv ==
  /\ \A p \in Parents : job[p].spawned =>
       /\ pc[p] \in {"claimMark", "mark", "claimRetry", "retry", "unclaimDone"}
       /\ \A r \in Runs : job[p].run = r => status[r] # "absent" /\ proof[r] # "not-started"
  /\ \A r \in accepted : status[r] # "absent" /\ proof[r] # "not-started"
  /\ \A r \in Runs : status[r] = "absent" => proof[r] = "none"

\* Nobody has reported the run as started, or is about to.
NeverAccepted(r) ==
  r \notin accepted /\ \A p \in Parents : job[p].run = r => ~job[p].spawned

\* The run a slot is about to be removed for was observed to end, or was not
\* reported as started and never will be.
ProvenInv ==
  \A p \in Parents : pc[p] \in {"claimRemove", "remove"} =>
    proof[seen[p].run] = "observed" \/ NeverAccepted(seen[p].run)

\* JobInv holds in every initial state and is kept by every step.
LEMMA JobInvInductive ==
  ASSUME CapacityAssumption
  PROVE  /\ Init => JobInv
         /\ ControlOK /\ JobsOK /\ StatusOK /\ JobInv /\ [Next]_vars => JobInv'
<1> USE CapacityAssumption, NoJobFacts DEF CapacityAssumption, JobInv, Refreshing, Charging
<1>1. Init => JobInv
  BY DEF Init
<1>2. ControlOK /\ JobsOK /\ StatusOK /\ JobInv /\ [Next]_vars => JobInv'
  <2> SUFFICES ASSUME ControlOK, JobsOK, StatusOK, JobInv, [Next]_vars PROVE JobInv'
    OBVIOUS
  <2> USE DEF desk, parentVars, slotVars, runVars, Goto, Forget, Finish
  <2>t. /\ pc \in [Parents -> Control] /\ job \in [Parents -> Jobs]
        /\ status \in [Runs -> {"absent", "running", "paused", "ended"}]
        /\ used \subseteq Runs
        /\ \A p \in Parents : job[p].run \in used \cup {None}
        /\ \A p \in Parents : pc[p] \in {"idle", "crashed"} => job[p].run = None
        /\ \A p \in Parents : pc[p] = "spawn" => job[p].run \in Runs
    BY DEF ControlOK, JobsOK, StatusOK, Holding
  <2>1. ASSUME NEW p \in Parents, NEW r \in Runs, BeginLaunch(p, r)
        PROVE  JobInv'
    BY <2>t, <2>1, JobFacts DEF BeginLaunch
  <2>2. ASSUME NEW p \in Parents, NEW r \in Runs, NEW source \in Runs,
               BeginResume(p, r, source)
        PROVE  JobInv'
    BY <2>t, <2>2, JobFacts DEF BeginResume
  <2>3. ASSUME NEW p \in Parents, BeginRefresh(p) PROVE JobInv'
    BY <2>t, <2>3 DEF BeginRefresh
  <2>4. ASSUME NEW p \in Parents, Scan(p) PROVE JobInv'
    BY <2>t, <2>4 DEF Scan, Releasable
  <2>5. ASSUME NEW p \in Parents, ClaimToRemove(p) PROVE JobInv'
    BY <2>t, <2>5 DEF ClaimToRemove, Claimable, Take
  <2>6. ASSUME NEW p \in Parents, RemoveSlot(p) PROVE JobInv'
    BY <2>t, <2>6 DEF RemoveSlot, Matches
  <2>7. ASSUME NEW p \in Parents, Admit(p) PROVE JobInv'
    BY <2>t, <2>7 DEF Admit
  <2>8. ASSUME NEW p \in Parents, CreateSlot(p) PROVE JobInv'
    BY <2>t, <2>8 DEF CreateSlot
  <2>9. ASSUME NEW p \in Parents, PersistOwner(p) PROVE JobInv'
    BY <2>t, <2>9 DEF PersistOwner
  <2>10. ASSUME NEW p \in Parents, FindSource(p) PROVE JobInv'
    BY <2>t, <2>10 DEF FindSource
  <2>11. ASSUME NEW p \in Parents, ClaimToTransfer(p) PROVE JobInv'
    BY <2>t, <2>11 DEF ClaimToTransfer, Claimable, Take
  <2>12. ASSUME NEW p \in Parents, Transfer(p) PROVE JobInv'
    <3>1. /\ pc[p] = "transfer"
          /\ \E label \in {"unclaimSpawn", "unclaimDone"} : pc' = [pc EXCEPT ![p] = label]
          /\ UNCHANGED <<job, used, status>>
      BY <2>12 DEF Transfer
    <3> QED
      BY <2>t, <2>12, <3>1
  <2>13. ASSUME NEW p \in Parents, SpawnRunner(p) PROVE JobInv'
    BY <2>t, <2>13, JobFacts DEF SpawnRunner
  <2>14. ASSUME NEW p \in Parents, SpawnFails(p) PROVE JobInv'
    BY <2>t, <2>14 DEF SpawnFails
  <2>15. ASSUME NEW p \in Parents, StartupUnsettled(p) PROVE JobInv'
    BY <2>t, <2>15 DEF StartupUnsettled
  <2>16. ASSUME NEW p \in Parents, ClaimToMark(p) PROVE JobInv'
    BY <2>t, <2>16 DEF ClaimToMark, Claimable, Take
  <2>17. ASSUME NEW p \in Parents, MarkStarted(p) PROVE JobInv'
    BY <2>t, <2>17 DEF MarkStarted, Matches
  <2>18. ASSUME NEW p \in Parents, ClaimToRollback(p) PROVE JobInv'
    BY <2>t, <2>18 DEF ClaimToRollback, Claimable, Take
  <2>19. ASSUME NEW p \in Parents, Rollback(p) PROVE JobInv'
    BY <2>t, <2>19 DEF Rollback, Matches
  <2>20. ASSUME NEW p \in Parents, Unclaim(p) PROVE JobInv'
    BY <2>t, <2>20 DEF Unclaim
  <2>21. ASSUME NEW p \in Parents, Crash(p) PROVE JobInv'
    BY <2>t, <2>21 DEF Crash
  <2>22. ASSUME NEW r \in Runs, RunEnds(r) PROVE JobInv'
    BY <2>t, <2>22 DEF RunEnds
  <2>23. ASSUME NEW r \in Runs, RunnerExits(r) PROVE JobInv'
    BY <2>t, <2>23 DEF RunnerExits
  <2>24. ASSUME NEW r \in Runs, DeclareFailed(r) PROVE JobInv'
    BY <2>t, <2>24 DEF DeclareFailed
  <2>25. ASSUME NEW r \in Runs, FinalizeProof(r) PROVE JobInv'
    BY <2>t, <2>25 DEF FinalizeProof
  <2>26. CASE UNCHANGED vars
    BY <2>t, <2>26 DEF vars
  <2> QED
    BY <2>1, <2>2, <2>3, <2>4, <2>5, <2>6, <2>7, <2>8, <2>9, <2>10, <2>11,
       <2>12, <2>13, <2>14, <2>15, <2>16, <2>17, <2>18, <2>19, <2>20, <2>21,
       <2>22, <2>23, <2>24, <2>25, <2>26
       DEF Next, ParentStep, RunnerStep
<1> QED
  BY <1>1, <1>2

\* VerdictInv holds in every initial state and is kept by every step.
LEMMA VerdictInvInductive ==
  ASSUME CapacityAssumption
  PROVE  /\ Init => VerdictInv
         /\ TypeInv /\ JobInv /\ VerdictInv /\ [Next]_vars => VerdictInv'
<1> USE CapacityAssumption, NoJobFacts DEF CapacityAssumption, VerdictInv, Final
<1>1. Init => VerdictInv
  BY DEF Init
<1>2. TypeInv /\ JobInv /\ VerdictInv /\ [Next]_vars => VerdictInv'
  <2> SUFFICES ASSUME TypeInv, JobInv, VerdictInv, [Next]_vars PROVE VerdictInv'
    OBVIOUS
  <2> USE DEF desk, parentVars, slotVars, runVars, Goto, Forget, Finish
  <2>t. /\ pc \in [Parents -> Control] /\ job \in [Parents -> Jobs]
        /\ status \in [Runs -> {"absent", "running", "paused", "ended"}]
        /\ proof \in [Runs -> {"none", "observed", "unknown", "not-started"}]
        /\ seen \in [Parents -> Owners \cup {None}]
        /\ \A p \in Parents : pc[p] \in {"claimRemove", "remove"} => seen[p].run \in Runs
    BY OwnerFacts DEF TypeInv, ControlOK, JobsOK, StatusOK, RecordsOK
  <2>j. \A p \in Parents : pc[p] = "spawn" => job[p].run \in Runs /\ status[job[p].run] = "absent"
    BY DEF TypeInv, JobsOK, JobInv, Charging, Holding
  <2>1. ASSUME NEW p \in Parents, NEW r \in Runs, BeginLaunch(p, r)
        PROVE  VerdictInv'
    BY <2>t, <2>1 DEF BeginLaunch
  <2>2. ASSUME NEW p \in Parents, NEW r \in Runs, NEW source \in Runs,
               BeginResume(p, r, source)
        PROVE  VerdictInv'
    BY <2>t, <2>2 DEF BeginResume
  <2>3. ASSUME NEW p \in Parents, BeginRefresh(p) PROVE VerdictInv'
    BY <2>t, <2>3 DEF BeginRefresh
  <2>4. ASSUME NEW p \in Parents, Scan(p) PROVE VerdictInv'
    BY <2>t, <2>4 DEF Scan, Releasable
  <2>5. ASSUME NEW p \in Parents, ClaimToRemove(p) PROVE VerdictInv'
    BY <2>t, <2>5 DEF ClaimToRemove, Claimable, Take
  <2>6. ASSUME NEW p \in Parents, RemoveSlot(p) PROVE VerdictInv'
    BY <2>t, <2>6 DEF RemoveSlot, Matches
  <2>7. ASSUME NEW p \in Parents, Admit(p) PROVE VerdictInv'
    BY <2>t, <2>7 DEF Admit
  <2>8. ASSUME NEW p \in Parents, CreateSlot(p) PROVE VerdictInv'
    BY <2>t, <2>8 DEF CreateSlot
  <2>9. ASSUME NEW p \in Parents, PersistOwner(p) PROVE VerdictInv'
    BY <2>t, <2>9 DEF PersistOwner
  <2>10. ASSUME NEW p \in Parents, FindSource(p) PROVE VerdictInv'
    BY <2>t, <2>10 DEF FindSource
  <2>11. ASSUME NEW p \in Parents, ClaimToTransfer(p) PROVE VerdictInv'
    BY <2>t, <2>11 DEF ClaimToTransfer, Claimable, Take
  <2>12. ASSUME NEW p \in Parents, Transfer(p) PROVE VerdictInv'
    BY <2>t, <2>12 DEF Transfer, Matches
  <2>13. ASSUME NEW p \in Parents, SpawnRunner(p) PROVE VerdictInv'
    BY <2>t, <2>13, <2>j DEF SpawnRunner
  <2>14. ASSUME NEW p \in Parents, SpawnFails(p) PROVE VerdictInv'
    BY <2>t, <2>14, <2>j DEF SpawnFails
  <2>15. ASSUME NEW p \in Parents, StartupUnsettled(p) PROVE VerdictInv'
    BY <2>t, <2>15, <2>j DEF StartupUnsettled
  <2>16. ASSUME NEW p \in Parents, ClaimToMark(p) PROVE VerdictInv'
    BY <2>t, <2>16 DEF ClaimToMark, Claimable, Take
  <2>17. ASSUME NEW p \in Parents, MarkStarted(p) PROVE VerdictInv'
    BY <2>t, <2>17 DEF MarkStarted, Matches
  <2>18. ASSUME NEW p \in Parents, ClaimToRollback(p) PROVE VerdictInv'
    BY <2>t, <2>18 DEF ClaimToRollback, Claimable, Take
  <2>19. ASSUME NEW p \in Parents, Rollback(p) PROVE VerdictInv'
    BY <2>t, <2>19 DEF Rollback, Matches
  <2>20. ASSUME NEW p \in Parents, Unclaim(p) PROVE VerdictInv'
    BY <2>t, <2>20 DEF Unclaim
  <2>21. ASSUME NEW p \in Parents, Crash(p) PROVE VerdictInv'
    BY <2>t, <2>21 DEF Crash
  <2>22. ASSUME NEW r \in Runs, RunEnds(r) PROVE VerdictInv'
    BY <2>t, <2>22 DEF RunEnds
  <2>23. ASSUME NEW r \in Runs, RunnerExits(r) PROVE VerdictInv'
    BY <2>t, <2>23 DEF RunnerExits
  <2>24. ASSUME NEW r \in Runs, DeclareFailed(r) PROVE VerdictInv'
    BY <2>t, <2>24 DEF DeclareFailed
  <2>25. ASSUME NEW r \in Runs, FinalizeProof(r) PROVE VerdictInv'
    BY <2>t, <2>25 DEF FinalizeProof
  <2>26. CASE UNCHANGED vars
    BY <2>t, <2>26 DEF vars
  <2> QED
    BY <2>1, <2>2, <2>3, <2>4, <2>5, <2>6, <2>7, <2>8, <2>9, <2>10, <2>11,
       <2>12, <2>13, <2>14, <2>15, <2>16, <2>17, <2>18, <2>19, <2>20, <2>21,
       <2>22, <2>23, <2>24, <2>25, <2>26
       DEF Next, ParentStep, RunnerStep
<1> QED
  BY <1>1, <1>2

\* ProofInv holds in every initial state and is kept by every step.
LEMMA ProofInvInductive ==
  ASSUME CapacityAssumption
  PROVE  /\ Init => ProofInv
         /\ TypeInv /\ JobInv /\ ProofInv /\ [Next]_vars => ProofInv'
<1> USE CapacityAssumption, NoJobFacts DEF CapacityAssumption, ProofInv
<1>1. Init => ProofInv
  BY DEF Init
<1>2. TypeInv /\ JobInv /\ ProofInv /\ [Next]_vars => ProofInv'
  <2> SUFFICES ASSUME TypeInv, JobInv, ProofInv, [Next]_vars PROVE ProofInv'
    OBVIOUS
  <2> USE DEF desk, parentVars, slotVars, runVars, Goto, Forget, Finish
  <2>t. /\ pc \in [Parents -> Control] /\ job \in [Parents -> Jobs]
        /\ status \in [Runs -> {"absent", "running", "paused", "ended"}]
        /\ proof \in [Runs -> {"none", "observed", "unknown", "not-started"}]
        /\ accepted \subseteq Runs
        /\ \A p \in Parents : pc[p] \in {"spawn", "mark"} => job[p].run \in Runs
    BY DEF TypeInv, ControlOK, JobsOK, StatusOK, Holding
  <2>j. /\ \A p, q \in Parents : job[p].run = job[q].run => p = q \/ job[p].run = None
        /\ \A p \in Parents : pc[p] = "spawn" => status[job[p].run] = "absent"
    BY <2>t DEF JobInv
  <2>1. ASSUME NEW p \in Parents, NEW r \in Runs, BeginLaunch(p, r)
        PROVE  ProofInv'
    BY <2>t, <2>1, JobFacts DEF BeginLaunch
  <2>2. ASSUME NEW p \in Parents, NEW r \in Runs, NEW source \in Runs,
               BeginResume(p, r, source)
        PROVE  ProofInv'
    BY <2>t, <2>2, JobFacts DEF BeginResume
  <2>3. ASSUME NEW p \in Parents, BeginRefresh(p) PROVE ProofInv'
    BY <2>t, <2>3 DEF BeginRefresh
  <2>4. ASSUME NEW p \in Parents, Scan(p) PROVE ProofInv'
    BY <2>t, <2>4 DEF Scan, Releasable
  <2>5. ASSUME NEW p \in Parents, ClaimToRemove(p) PROVE ProofInv'
    BY <2>t, <2>5 DEF ClaimToRemove, Claimable, Take
  <2>6. ASSUME NEW p \in Parents, RemoveSlot(p) PROVE ProofInv'
    BY <2>t, <2>6 DEF RemoveSlot, Matches
  <2>7. ASSUME NEW p \in Parents, Admit(p) PROVE ProofInv'
    BY <2>t, <2>7 DEF Admit
  <2>8. ASSUME NEW p \in Parents, CreateSlot(p) PROVE ProofInv'
    BY <2>t, <2>8 DEF CreateSlot
  <2>9. ASSUME NEW p \in Parents, PersistOwner(p) PROVE ProofInv'
    BY <2>t, <2>9 DEF PersistOwner
  <2>10. ASSUME NEW p \in Parents, FindSource(p) PROVE ProofInv'
    BY <2>t, <2>10 DEF FindSource
  <2>11. ASSUME NEW p \in Parents, ClaimToTransfer(p) PROVE ProofInv'
    BY <2>t, <2>11 DEF ClaimToTransfer, Claimable, Take
  <2>12. ASSUME NEW p \in Parents, Transfer(p) PROVE ProofInv'
    BY <2>t, <2>12 DEF Transfer, Matches
  <2>13. ASSUME NEW p \in Parents, SpawnRunner(p) PROVE ProofInv'
    BY <2>t, <2>13, <2>j, JobFacts DEF SpawnRunner
  <2>14. ASSUME NEW p \in Parents, SpawnFails(p) PROVE ProofInv'
    BY <2>t, <2>14, <2>j DEF SpawnFails
  <2>15. ASSUME NEW p \in Parents, StartupUnsettled(p) PROVE ProofInv'
    BY <2>t, <2>15, <2>j DEF StartupUnsettled
  <2>16. ASSUME NEW p \in Parents, ClaimToMark(p) PROVE ProofInv'
    BY <2>t, <2>16 DEF ClaimToMark, Claimable, Take
  <2>17. ASSUME NEW p \in Parents, MarkStarted(p) PROVE ProofInv'
    BY <2>t, <2>17, <2>j DEF MarkStarted, Matches
  <2>18. ASSUME NEW p \in Parents, ClaimToRollback(p) PROVE ProofInv'
    BY <2>t, <2>18 DEF ClaimToRollback, Claimable, Take
  <2>19. ASSUME NEW p \in Parents, Rollback(p) PROVE ProofInv'
    BY <2>t, <2>19 DEF Rollback, Matches
  <2>20. ASSUME NEW p \in Parents, Unclaim(p) PROVE ProofInv'
    BY <2>t, <2>20 DEF Unclaim
  <2>21. ASSUME NEW p \in Parents, Crash(p) PROVE ProofInv'
    BY <2>t, <2>21 DEF Crash
  <2>22. ASSUME NEW r \in Runs, RunEnds(r) PROVE ProofInv'
    BY <2>t, <2>22 DEF RunEnds
  <2>23. ASSUME NEW r \in Runs, RunnerExits(r) PROVE ProofInv'
    BY <2>t, <2>23 DEF RunnerExits
  <2>24. ASSUME NEW r \in Runs, DeclareFailed(r) PROVE ProofInv'
    BY <2>t, <2>24 DEF DeclareFailed
  <2>25. ASSUME NEW r \in Runs, FinalizeProof(r) PROVE ProofInv'
    BY <2>t, <2>25 DEF FinalizeProof
  <2>26. CASE UNCHANGED vars
    BY <2>t, <2>26 DEF vars
  <2> QED
    BY <2>1, <2>2, <2>3, <2>4, <2>5, <2>6, <2>7, <2>8, <2>9, <2>10, <2>11,
       <2>12, <2>13, <2>14, <2>15, <2>16, <2>17, <2>18, <2>19, <2>20, <2>21,
       <2>22, <2>23, <2>24, <2>25, <2>26
       DEF Next, ParentStep, RunnerStep
<1> QED
  BY <1>1, <1>2

\* ProvenInv holds in every initial state and is kept by every step.
LEMMA ProvenInvInductive ==
  ASSUME CapacityAssumption
  PROVE  /\ Init => ProvenInv
         /\ TypeInv /\ JobInv /\ VerdictInv /\ ProofInv /\ ProvenInv /\ [Next]_vars => ProvenInv'
<1> USE CapacityAssumption, NoJobFacts DEF CapacityAssumption, ProvenInv, NeverAccepted
<1>1. Init => ProvenInv
  BY DEF Init
<1>2. TypeInv /\ JobInv /\ VerdictInv /\ ProofInv /\ ProvenInv /\ [Next]_vars => ProvenInv'
  <2> SUFFICES ASSUME TypeInv, JobInv, VerdictInv, ProofInv, ProvenInv, [Next]_vars PROVE ProvenInv'
    OBVIOUS
  <2> USE DEF desk, parentVars, slotVars, runVars, Goto, Forget, Finish
  <2>t. /\ pc \in [Parents -> Control] /\ job \in [Parents -> Jobs]
        /\ status \in [Runs -> {"absent", "running", "paused", "ended"}]
        /\ proof \in [Runs -> {"none", "observed", "unknown", "not-started"}]
        /\ seen \in [Parents -> Owners \cup {None}]
        /\ \A p \in Parents : pc[p] \in {"claimRemove", "remove"} => seen[p].run \in Runs
        /\ \A p \in Parents : pc[p] \in {"spawn", "mark"} => job[p].run \in Runs
    BY OwnerFacts DEF TypeInv, ControlOK, JobsOK, StatusOK, RecordsOK, Holding
  <2>j. /\ \A p \in Parents : pc[p] = "spawn" => status[job[p].run] = "absent"
        /\ \A p \in Parents : pc[p] \in {"claimRemove", "remove"} => status[seen[p].run] = "ended"
        /\ \A r \in Runs : proof[r] = "not-started" => NeverAccepted(r)
    BY <2>t DEF JobInv, VerdictInv, Final, ProofInv, NeverAccepted
  <2>1. ASSUME NEW p \in Parents, NEW r \in Runs, BeginLaunch(p, r)
        PROVE  ProvenInv'
    BY <2>t, <2>1, JobFacts DEF BeginLaunch
  <2>2. ASSUME NEW p \in Parents, NEW r \in Runs, NEW source \in Runs,
               BeginResume(p, r, source)
        PROVE  ProvenInv'
    BY <2>t, <2>2, JobFacts DEF BeginResume
  <2>3. ASSUME NEW p \in Parents, BeginRefresh(p) PROVE ProvenInv'
    BY <2>t, <2>3 DEF BeginRefresh
  <2>4. ASSUME NEW p \in Parents, Scan(p) PROVE ProvenInv'
    <3>0. at[p] \in Slots => owner[at[p]] \in Owners \cup {None}
      BY DEF TypeInv, RecordsOK
    <3>1. CASE pc[p] = "scan" /\ at[p] \in Slots /\ owner[at[p]] # None /\ Releasable(owner[at[p]])
      <4>1. owner[at[p]].run \in Runs /\ seen' = [seen EXCEPT ![p] = owner[at[p]]]
        <5>1. owner[at[p]] \in Owners /\ ~(at[p] > Limit)
          BY <3>0, <3>1 DEF Slots
        <5>2. owner[at[p]].run \in Runs
          BY <5>1, OwnerFacts
        <5> QED
          BY <2>4, <3>1, <5>1, <5>2 DEF Scan
      <4>2. LET r == owner[at[p]].run IN proof[r] = "observed" \/ NeverAccepted(r)
        BY <2>j, <3>1, <4>1 DEF Releasable
      <4>3. /\ pc' = [pc EXCEPT ![p] = "claimRemove"]
            /\ UNCHANGED <<job, accepted, proof>>
        BY <2>4, <3>1 DEF Scan, Slots
      <4> QED
        BY <2>t, <4>1, <4>2, <4>3
    <3>2. CASE ~(at[p] \in Slots /\ owner[at[p]] # None /\ Releasable(owner[at[p]]))
      <4>1. /\ \E label \in {"idle", "admit", "scan"} : pc' = [pc EXCEPT ![p] = label]
            /\ job' = job \/ job' = [job EXCEPT ![p] = NoJob]
            /\ seen' = seen \/ seen' = [seen EXCEPT ![p] = None]
            /\ UNCHANGED <<accepted, proof>>
        BY <2>t, <2>4, <3>2, CapacityAssumption DEF Scan, Slots, TypeInv, ControlOK
      <4> QED
        BY <2>t, <4>1
    <3> QED
      BY <2>4, <3>1, <3>2 DEF Scan
  <2>5. ASSUME NEW p \in Parents, ClaimToRemove(p) PROVE ProvenInv'
    BY <2>t, <2>5 DEF ClaimToRemove, Claimable, Take
  <2>6. ASSUME NEW p \in Parents, RemoveSlot(p) PROVE ProvenInv'
    BY <2>t, <2>6 DEF RemoveSlot, Matches
  <2>7. ASSUME NEW p \in Parents, Admit(p) PROVE ProvenInv'
    BY <2>t, <2>7 DEF Admit
  <2>8. ASSUME NEW p \in Parents, CreateSlot(p) PROVE ProvenInv'
    BY <2>t, <2>8 DEF CreateSlot
  <2>9. ASSUME NEW p \in Parents, PersistOwner(p) PROVE ProvenInv'
    BY <2>t, <2>9 DEF PersistOwner
  <2>10. ASSUME NEW p \in Parents, FindSource(p) PROVE ProvenInv'
    BY <2>t, <2>10 DEF FindSource
  <2>11. ASSUME NEW p \in Parents, ClaimToTransfer(p) PROVE ProvenInv'
    BY <2>t, <2>11 DEF ClaimToTransfer, Claimable, Take
  <2>12. ASSUME NEW p \in Parents, Transfer(p) PROVE ProvenInv'
    BY <2>t, <2>12 DEF Transfer, Matches
  <2>13. ASSUME NEW p \in Parents, SpawnRunner(p) PROVE ProvenInv'
    BY <2>t, <2>13, <2>j, JobFacts DEF SpawnRunner
  <2>14. ASSUME NEW p \in Parents, SpawnFails(p) PROVE ProvenInv'
    BY <2>t, <2>14, <2>j DEF SpawnFails
  <2>15. ASSUME NEW p \in Parents, StartupUnsettled(p) PROVE ProvenInv'
    BY <2>t, <2>15, <2>j DEF StartupUnsettled
  <2>16. ASSUME NEW p \in Parents, ClaimToMark(p) PROVE ProvenInv'
    BY <2>t, <2>16 DEF ClaimToMark, Claimable, Take
  <2>17. ASSUME NEW p \in Parents, MarkStarted(p) PROVE ProvenInv'
    BY <2>t, <2>17, <2>j DEF MarkStarted, Matches
  <2>18. ASSUME NEW p \in Parents, ClaimToRollback(p) PROVE ProvenInv'
    BY <2>t, <2>18 DEF ClaimToRollback, Claimable, Take
  <2>19. ASSUME NEW p \in Parents, Rollback(p) PROVE ProvenInv'
    BY <2>t, <2>19 DEF Rollback, Matches
  <2>20. ASSUME NEW p \in Parents, Unclaim(p) PROVE ProvenInv'
    BY <2>t, <2>20 DEF Unclaim
  <2>21. ASSUME NEW p \in Parents, Crash(p) PROVE ProvenInv'
    BY <2>t, <2>21 DEF Crash
  <2>22. ASSUME NEW r \in Runs, RunEnds(r) PROVE ProvenInv'
    BY <2>t, <2>22 DEF RunEnds
  <2>23. ASSUME NEW r \in Runs, RunnerExits(r) PROVE ProvenInv'
    BY <2>t, <2>23 DEF RunnerExits
  <2>24. ASSUME NEW r \in Runs, DeclareFailed(r) PROVE ProvenInv'
    BY <2>t, <2>24 DEF DeclareFailed
  <2>25. ASSUME NEW r \in Runs, FinalizeProof(r) PROVE ProvenInv'
    BY <2>t, <2>25 DEF FinalizeProof
  <2>26. CASE UNCHANGED vars
    BY <2>t, <2>26 DEF vars
  <2> QED
    BY <2>1, <2>2, <2>3, <2>4, <2>5, <2>6, <2>7, <2>8, <2>9, <2>10, <2>11,
       <2>12, <2>13, <2>14, <2>15, <2>16, <2>17, <2>18, <2>19, <2>20, <2>21,
       <2>22, <2>23, <2>24, <2>25, <2>26
       DEF Next, ParentStep, RunnerStep
<1> QED
  BY <1>1, <1>2

\* Every behaviour satisfies the three invariants in every state.
LEMMA VerdictInvariant == CapacityAssumption => (Spec => [](TypeInv /\ JobInv /\ VerdictInv))
<1> SUFFICES ASSUME CapacityAssumption PROVE Spec => [](TypeInv /\ JobInv /\ VerdictInv)
  OBVIOUS
<1>1. TypeInv => ControlOK /\ JobsOK /\ StatusOK
  BY DEF TypeInv
<1> QED
  BY TypeInvariant, JobInvInductive, VerdictInvInductive, <1>1, PTL DEF Spec

\* The verdicts are those of ended runs with the proof that they need.
LEMMA ProvenInvariant ==
  CapacityAssumption => (Spec => [](ProofInv /\ ProvenInv))
<1> SUFFICES ASSUME CapacityAssumption PROVE Spec => [](ProofInv /\ ProvenInv)
  OBVIOUS
<1> QED
  BY VerdictInvariant, ProofInvInductive, ProvenInvInductive, PTL DEF Spec

\* A slot marked started is released only when its run has ended, and that of a
\* run reported as started only on an observed proof (removeOwnedSlot after
\* runnerReleaseVerdict), for any number of processes that launch, resume, roll
\* back, refresh and crash at any point.
THEOREM ReleasedByProof == CapacityAssumption => (Spec => StartedSlotNeedsProof)
<1> SUFFICES ASSUME CapacityAssumption PROVE Spec => StartedSlotNeedsProof
  OBVIOUS
<1> DEFINE Released(s) ==
      owner[s] # None /\ owner[s].started /\ owner'[s] = None =>
        /\ status[owner[s].run] = "ended" /\ proof[owner[s].run] # "none"
        /\ owner[s].run \in accepted => proof[owner[s].run] = "observed"
<1>1. TypeInv /\ VerdictInv /\ ProvenInv /\ [Next]_vars =>
        [\A s \in Slots :
           (owner[s] # None /\ owner[s].started /\ owner'[s] = None) =>
             /\ status[owner[s].run] = "ended"
             /\ proof[owner[s].run] # "none"
             /\ owner[s].run \in accepted => proof[owner[s].run] = "observed"]_vars
  <2> SUFFICES ASSUME TypeInv, VerdictInv, ProvenInv, Next, NEW s \in Slots PROVE Released(s)
    OBVIOUS
  <2> USE DEF desk, parentVars, slotVars, runVars
  <2>t. /\ None \notin Owners
        /\ \A p \in Parents : pc[p] \in AtSlot => at[p] \in Slots
        /\ owner \in [Slots -> Owners \cup {None}] /\ mine \in [Parents -> Owners \cup {None}]
        /\ \A p \in Parents : pc[p] \in {"transfer", "persist"} => job[p].run \in Runs
    BY CapacityAssumption DEF TypeInv, ControlOK, RecordsOK, JobsOK, Charging, CapacityAssumption
  <2>1. ASSUME NEW p \in Parents, RemoveSlot(p) PROVE Released(s)
    <3>1. CASE Matches(at[p], seen[p]) /\ at[p] = s
      BY <2>1, <3>1 DEF RemoveSlot, Matches, VerdictInv, Final, ProvenInv, NeverAccepted
    <3>2. CASE ~(Matches(at[p], seen[p]) /\ at[p] = s)
      BY <2>t, <2>1, <3>2 DEF RemoveSlot
    <3> QED
      BY <3>1, <3>2
  <2>2. ASSUME NEW p \in Parents, Rollback(p) PROVE Released(s)
    BY <2>t, <2>2 DEF Rollback
  <2>3. ASSUME NEW p \in Parents, PersistOwner(p) PROVE Released(s)
    <3>1. Owner(job[p].run, job[p].run, 0, FALSE) \in Owners
      BY <2>t, <2>3, OwnerFacts DEF PersistOwner
    <3> QED
      BY <2>t, <2>3, <3>1 DEF PersistOwner
  <2>4. ASSUME NEW p \in Parents, Transfer(p) PROVE Released(s)
    <3> DEFINE next == Owner(owner[s].token, job[p].run, owner[s].gen + 1, FALSE)
    <3>1. CASE owner' = [owner EXCEPT ![s] = next] /\ owner[s] # None
      <4>0. owner[s] \in Owners
        BY <2>t, <3>1
      <4>1. owner[s].token \in Runs /\ owner[s].gen \in Nat
        BY <4>0, OwnerFacts
      <4>2. owner[s].gen + 1 \in Nat /\ job[p].run \in Runs
        BY <2>t, <2>4, <4>1 DEF Transfer
      <4>3. next \in Owners
        BY <4>1, <4>2, OwnerFacts
      <4> HIDE DEF next
      <4> QED
        BY <2>t, <3>1, <4>3
    <3>2. CASE owner'[s] = owner[s]
      BY <3>2
    <3> QED
      BY <2>t, <2>4, <3>1, <3>2 DEF Transfer, Matches
  <2>5. ASSUME NEW p \in Parents, MarkStarted(p) PROVE Released(s)
    <3>1. CASE owner' = [owner EXCEPT ![s] = [owner[s] EXCEPT !.started = TRUE]] /\ owner[s] # None
      <4>1. [owner[s] EXCEPT !.started = TRUE] \in Owners
        BY <2>t, <3>1, OwnerFacts
      <4> QED
        BY <2>t, <3>1, <4>1
    <3>2. CASE owner'[s] = owner[s]
      BY <3>2
    <3> QED
      BY <2>t, <2>5, <3>1, <3>2 DEF MarkStarted, Matches
  <2>6. ASSUME NEW p \in Parents,
               \/ Scan(p) \/ ClaimToRemove(p) \/ Admit(p) \/ CreateSlot(p) \/ FindSource(p)
               \/ ClaimToTransfer(p) \/ SpawnRunner(p) \/ SpawnFails(p) \/ StartupUnsettled(p)
               \/ ClaimToMark(p) \/ ClaimToRollback(p) \/ Unclaim(p) \/ BeginRefresh(p)
               \/ Crash(p)
        PROVE  UNCHANGED owner
    BY <2>6 DEF Scan, ClaimToRemove, Admit, CreateSlot, FindSource, ClaimToTransfer,
                SpawnRunner, SpawnFails, StartupUnsettled, ClaimToMark, ClaimToRollback,
                Unclaim, BeginRefresh, Crash
  <2>7. ASSUME NEW p \in Parents, NEW r \in Runs,
               BeginLaunch(p, r) \/ \E source \in Runs : BeginResume(p, r, source)
        PROVE  UNCHANGED owner
    BY <2>7 DEF BeginLaunch, BeginResume
  <2>8. ASSUME NEW r \in Runs, RunnerStep(r) PROVE UNCHANGED owner
    BY <2>8 DEF RunnerStep, RunEnds, RunnerExits, DeclareFailed, FinalizeProof
  <2> QED
    BY <2>1, <2>2, <2>3, <2>4, <2>5, <2>6, <2>7, <2>8 DEF Next, ParentStep
<1> QED
  BY VerdictInvariant, ProvenInvariant, <1>1, PTL DEF Spec, StartedSlotNeedsProof

-----------------------------------------------------------------------------
(* A run reported as started keeps its slot.                               *)

Settled(r) == status[r] \in {"paused", "ended"}

\* A handle is of the run that is launched and would restore the owner of a
\* run that is over; a transfer is from the run that is resumed; a parent
\* whose run is accepted has done its marking.
HandleInv ==
  \A p \in Parents :
    /\ mine[p] # None => mine[p].run = job[p].run
    /\ prev[p] # None => Settled(prev[p].run)
    /\ pc[p] \in {"claimTransfer", "transfer"} => seen[p].run = job[p].source
    /\ job[p].run \in accepted => pc[p] = "unclaimDone"

\* A slot that does not exist has no owner; one that is being made has none
\* yet, and one maker.
SlotInv ==
  /\ \A s \in Slots \ exists : owner[s] = None
  /\ \A p \in Parents : pc[p] = "persist" => at[p] \in exists /\ owner[at[p]] = None
  /\ \A p, q \in Parents : pc[p] = "persist" /\ pc[q] = "persist" /\ at[p] = at[q] => p = q

\* HandleInv holds in every initial state and is kept by every step.
LEMMA HandleInvInductive ==
  ASSUME CapacityAssumption
  PROVE  /\ Init => HandleInv
         /\ TypeInv /\ JobInv /\ HandleInv /\ [Next]_vars => HandleInv'
<1> USE CapacityAssumption, NoJobFacts DEF CapacityAssumption, HandleInv, Settled
<1>1. Init => HandleInv
  BY DEF Init
<1>2. TypeInv /\ JobInv /\ HandleInv /\ [Next]_vars => HandleInv'
  <2> SUFFICES ASSUME TypeInv, JobInv, HandleInv, [Next]_vars PROVE HandleInv'
    OBVIOUS
  <2> USE DEF desk, parentVars, slotVars, runVars, Goto, Forget, Finish
  <2>t. /\ pc \in [Parents -> Control] /\ job \in [Parents -> Jobs]
        /\ status \in [Runs -> {"absent", "running", "paused", "ended"}]
        /\ seen \in [Parents -> Owners \cup {None}]
        /\ mine \in [Parents -> Owners \cup {None}]
        /\ prev \in [Parents -> Owners \cup {None}]
        /\ accepted \subseteq used /\ used \subseteq Runs
        /\ \A p \in Parents : pc[p] \in {"idle", "crashed"} => mine[p] = None
    BY DEF TypeInv, ControlOK, JobsOK, StatusOK, RecordsOK
  <2>j. /\ \A p \in Parents : pc[p] = "spawn" => job[p].run \in Runs /\ status[job[p].run] = "absent"
        /\ \A p, q \in Parents : job[p].run = job[q].run => p = q \/ job[p].run = None
    BY DEF TypeInv, JobsOK, JobInv, Charging, Holding
  <2>o. \A p \in Parents : prev[p] # None => prev[p].run \in Runs
    <3> SUFFICES ASSUME NEW p \in Parents, prev[p] # None PROVE prev[p].run \in Runs
      OBVIOUS
    <3>1. prev[p] \in Owners
      BY <2>t
    <3> QED
      BY <3>1, OwnerFacts
  <2>s. \A p \in Parents :
          /\ pc[p] \in {"persist", "transfer", "mark"} =>
               at[p] \in Slots /\ owner[at[p]] \in Owners \cup {None} /\ job[p].run \in Runs
          /\ pc[p] = "mark" => mine[p] \in Owners
    BY DEF TypeInv, ControlOK, JobsOK, RecordsOK, AtSlot, Holding, Charging
  <2>1. ASSUME NEW p \in Parents, NEW r \in Runs, BeginLaunch(p, r)
        PROVE  HandleInv'
    BY <2>t, <2>1, JobFacts DEF BeginLaunch
  <2>2. ASSUME NEW p \in Parents, NEW r \in Runs, NEW source \in Runs,
               BeginResume(p, r, source)
        PROVE  HandleInv'
    BY <2>t, <2>2, JobFacts DEF BeginResume
  <2>3. ASSUME NEW p \in Parents, BeginRefresh(p) PROVE HandleInv'
    BY <2>t, <2>3 DEF BeginRefresh
  <2>4. ASSUME NEW p \in Parents, Scan(p) PROVE HandleInv'
    BY <2>t, <2>4 DEF Scan, Releasable
  <2>5. ASSUME NEW p \in Parents, ClaimToRemove(p) PROVE HandleInv'
    BY <2>t, <2>5 DEF ClaimToRemove, Claimable, Take
  <2>6. ASSUME NEW p \in Parents, RemoveSlot(p) PROVE HandleInv'
    BY <2>t, <2>6 DEF RemoveSlot, Matches
  <2>7. ASSUME NEW p \in Parents, Admit(p) PROVE HandleInv'
    BY <2>t, <2>7 DEF Admit
  <2>8. ASSUME NEW p \in Parents, CreateSlot(p) PROVE HandleInv'
    BY <2>t, <2>8 DEF CreateSlot
  <2>9. ASSUME NEW p \in Parents, PersistOwner(p) PROVE HandleInv'
    <3> DEFINE new == Owner(job[p].run, job[p].run, 0, FALSE)
    <3>1. new.run = job[p].run
      BY DEF Owner
    <3>2. /\ pc' = [pc EXCEPT ![p] = "spawn"] /\ pc[p] = "persist"
          /\ mine' = [mine EXCEPT ![p] = new]
          /\ UNCHANGED <<job, prev, seen, accepted, status>>
      BY <2>9 DEF PersistOwner
    <3> HIDE DEF new
    <3> QED
      BY <2>9, <2>t, <3>1, <3>2
  <2>10. ASSUME NEW p \in Parents, FindSource(p) PROVE HandleInv'
    BY <2>t, <2>10 DEF FindSource
  <2>11. ASSUME NEW p \in Parents, ClaimToTransfer(p) PROVE HandleInv'
    BY <2>t, <2>11 DEF ClaimToTransfer, Claimable, Take
  <2>12. ASSUME NEW p \in Parents, Transfer(p) PROVE HandleInv'
    <3> DEFINE next == Owner(owner[at[p]].token, job[p].run, owner[at[p]].gen + 1, FALSE)
    <3>1. CASE Matches(at[p], seen[p]) /\ status[job[p].source] \in {"paused", "ended"}
      <4>1. pc[p] = "transfer" /\ owner[at[p]] # None /\ owner[at[p]].run = job[p].source
        BY <2>12, <3>1 DEF Transfer, Matches
      <4>2. owner[at[p]] \in Owners /\ job[p].run \in Runs
        BY <2>12, <2>s, <4>1
      <4>5. next.run = job[p].run
        BY DEF Owner
      <4>6. /\ pc' = [pc EXCEPT ![p] = "unclaimSpawn"]
            /\ mine' = [mine EXCEPT ![p] = next]
            /\ prev' = [prev EXCEPT ![p] = owner[at[p]]]
            /\ UNCHANGED <<job, seen, accepted, status>>
        BY <2>12, <3>1 DEF Transfer
      <4> HIDE DEF next
      <4> QED
        BY <2>12, <2>t, <3>1, <4>1, <4>5, <4>6
    <3>2. CASE ~(Matches(at[p], seen[p]) /\ status[job[p].source] \in {"paused", "ended"})
      <4>1. pc' = [pc EXCEPT ![p] = "unclaimDone"] /\ UNCHANGED <<job, mine, prev, seen, accepted, status>>
        BY <2>12, <3>2 DEF Transfer
      <4> QED
        BY <2>t, <2>12, <4>1
    <3> QED
      BY <3>1, <3>2
  <2>13. ASSUME NEW p \in Parents, SpawnRunner(p) PROVE HandleInv'
    BY <2>t, <2>13, <2>j, <2>o, JobFacts DEF SpawnRunner
  <2>14. ASSUME NEW p \in Parents, SpawnFails(p) PROVE HandleInv'
    BY <2>t, <2>14, <2>j, <2>o DEF SpawnFails
  <2>15. ASSUME NEW p \in Parents, StartupUnsettled(p) PROVE HandleInv'
    BY <2>t, <2>15, <2>j, <2>o DEF StartupUnsettled
  <2>16. ASSUME NEW p \in Parents, ClaimToMark(p) PROVE HandleInv'
    BY <2>t, <2>16 DEF ClaimToMark, Claimable, Take
  <2>17. ASSUME NEW p \in Parents, MarkStarted(p) PROVE HandleInv'
    <3>1. pc[p] = "mark" /\ pc' = [pc EXCEPT ![p] = "unclaimDone"]
      BY <2>17 DEF MarkStarted
    <3>2. UNCHANGED <<job, prev, seen, status>>
      BY <2>17 DEF MarkStarted
    <3>3. \A q \in Parents : mine'[q] # None => mine[q] # None /\ mine'[q].run = mine[q].run
      <4>1. mine[p] \in Owners /\ None \notin Owners
        BY <2>17, <2>s, <3>1
      <4>2. [mine[p] EXCEPT !.started = TRUE].run = mine[p].run
        BY <4>1, OwnerFacts
      <4>3. \/ mine' = [mine EXCEPT ![p] = [mine[p] EXCEPT !.started = TRUE]]
            \/ mine' = mine
        BY <2>17 DEF MarkStarted
      <4>4. \A q \in Parents \ {p} : mine'[q] = mine[q]
        BY <2>t, <4>3
      <4>5. mine'[p].run = mine[p].run
        BY <2>t, <2>17, <4>2, <4>3
      <4> QED
        BY <4>1, <4>4, <4>5
    <3>4. \A q \in Parents \ {p} : job[q].run \in accepted' => job[q].run \in accepted
      BY <2>17, <2>j, <2>s, <3>1 DEF MarkStarted
    <3> QED
      BY <2>t, <2>17, <3>1, <3>2, <3>3, <3>4
  <2>18. ASSUME NEW p \in Parents, ClaimToRollback(p) PROVE HandleInv'
    BY <2>t, <2>18 DEF ClaimToRollback, Claimable, Take
  <2>19. ASSUME NEW p \in Parents, Rollback(p) PROVE HandleInv'
    BY <2>t, <2>19 DEF Rollback, Matches
  <2>20. ASSUME NEW p \in Parents, Unclaim(p) PROVE HandleInv'
    BY <2>t, <2>20 DEF Unclaim
  <2>21. ASSUME NEW p \in Parents, Crash(p) PROVE HandleInv'
    BY <2>t, <2>21 DEF Crash
  <2>22. ASSUME NEW r \in Runs, RunEnds(r) PROVE HandleInv'
    BY <2>t, <2>22, <2>j, <2>o DEF RunEnds
  <2>23. ASSUME NEW r \in Runs, RunnerExits(r) PROVE HandleInv'
    BY <2>t, <2>23 DEF RunnerExits
  <2>24. ASSUME NEW r \in Runs, DeclareFailed(r) PROVE HandleInv'
    BY <2>t, <2>24, <2>j, <2>o DEF DeclareFailed
  <2>25. ASSUME NEW r \in Runs, FinalizeProof(r) PROVE HandleInv'
    BY <2>t, <2>25 DEF FinalizeProof
  <2>26. CASE UNCHANGED vars
    BY <2>t, <2>26 DEF vars
  <2> QED
    BY <2>1, <2>2, <2>3, <2>4, <2>5, <2>6, <2>7, <2>8, <2>9, <2>10, <2>11,
       <2>12, <2>13, <2>14, <2>15, <2>16, <2>17, <2>18, <2>19, <2>20, <2>21,
       <2>22, <2>23, <2>24, <2>25, <2>26
       DEF Next, ParentStep, RunnerStep
<1> QED
  BY <1>1, <1>2

\* SlotInv holds in every initial state and is kept by every step.
LEMMA SlotInvInductive ==
  ASSUME CapacityAssumption
  PROVE  /\ Init => SlotInv
         /\ TypeInv /\ SlotInv /\ [Next]_vars => SlotInv'
<1> USE CapacityAssumption DEF CapacityAssumption, SlotInv
<1>1. Init => SlotInv
  BY DEF Init
<1>2. TypeInv /\ SlotInv /\ [Next]_vars => SlotInv'
  <2> SUFFICES ASSUME TypeInv, SlotInv, [Next]_vars PROVE SlotInv'
    OBVIOUS
  <2> USE DEF desk, parentVars, slotVars, runVars, Goto, Forget, Finish
  <2>t. /\ pc \in [Parents -> Control] /\ at \in [Parents -> 1..(Limit + 1)]
        /\ owner \in [Slots -> Owners \cup {None}] /\ exists \subseteq Slots
        /\ \A p \in Parents : pc[p] \in {"remove", "persist", "transfer", "mark", "rollback", "retry"}
                            => at[p] \in Slots
    BY DEF TypeInv, ControlOK, RecordsOK, SlotsOK, AtSlot, Holding
  <2>1. ASSUME NEW p \in Parents, NEW r \in Runs, BeginLaunch(p, r)
        PROVE  SlotInv'
    BY <2>t, <2>1 DEF BeginLaunch
  <2>2. ASSUME NEW p \in Parents, NEW r \in Runs, NEW source \in Runs,
               BeginResume(p, r, source)
        PROVE  SlotInv'
    BY <2>t, <2>2 DEF BeginResume
  <2>3. ASSUME NEW p \in Parents, BeginRefresh(p) PROVE SlotInv'
    BY <2>t, <2>3 DEF BeginRefresh
  <2>4. ASSUME NEW p \in Parents, Scan(p) PROVE SlotInv'
    BY <2>t, <2>4 DEF Scan, Releasable
  <2>5. ASSUME NEW p \in Parents, ClaimToRemove(p) PROVE SlotInv'
    BY <2>t, <2>5 DEF ClaimToRemove, Claimable, Take
  <2>6. ASSUME NEW p \in Parents, RemoveSlot(p) PROVE SlotInv'
    BY <2>t, <2>6 DEF RemoveSlot, Matches
  <2>7. ASSUME NEW p \in Parents, Admit(p) PROVE SlotInv'
    BY <2>t, <2>7 DEF Admit
  <2>8. ASSUME NEW p \in Parents, CreateSlot(p) PROVE SlotInv'
    <3>1. CASE at[p] > Limit \/ at[p] \in exists
      BY <2>t, <2>8, <3>1 DEF CreateSlot
    <3>2. CASE ~(at[p] > Limit) /\ at[p] \notin exists
      <4>1. at[p] \in Slots
        BY <2>t, <2>8, <3>2 DEF Slots
      <4>2. /\ pc' = [pc EXCEPT ![p] = "persist"] /\ exists' = exists \cup {at[p]}
            /\ UNCHANGED <<at, owner>>
        BY <2>8, <3>2 DEF CreateSlot
      <4> QED
        BY <2>t, <2>8, <3>2, <4>1, <4>2
    <3> QED
      BY <3>1, <3>2
  <2>9. ASSUME NEW p \in Parents, PersistOwner(p) PROVE SlotInv'
    BY <2>t, <2>9 DEF PersistOwner
  <2>10. ASSUME NEW p \in Parents, FindSource(p) PROVE SlotInv'
    BY <2>t, <2>10 DEF FindSource
  <2>11. ASSUME NEW p \in Parents, ClaimToTransfer(p) PROVE SlotInv'
    BY <2>t, <2>11 DEF ClaimToTransfer, Claimable, Take
  <2>12. ASSUME NEW p \in Parents, Transfer(p) PROVE SlotInv'
    BY <2>t, <2>12 DEF Transfer, Matches
  <2>13. ASSUME NEW p \in Parents, SpawnRunner(p) PROVE SlotInv'
    BY <2>t, <2>13 DEF SpawnRunner
  <2>14. ASSUME NEW p \in Parents, SpawnFails(p) PROVE SlotInv'
    BY <2>t, <2>14 DEF SpawnFails
  <2>15. ASSUME NEW p \in Parents, StartupUnsettled(p) PROVE SlotInv'
    BY <2>t, <2>15 DEF StartupUnsettled
  <2>16. ASSUME NEW p \in Parents, ClaimToMark(p) PROVE SlotInv'
    BY <2>t, <2>16 DEF ClaimToMark, Claimable, Take
  <2>17. ASSUME NEW p \in Parents, MarkStarted(p) PROVE SlotInv'
    BY <2>t, <2>17 DEF MarkStarted, Matches
  <2>18. ASSUME NEW p \in Parents, ClaimToRollback(p) PROVE SlotInv'
    BY <2>t, <2>18 DEF ClaimToRollback, Claimable, Take
  <2>19. ASSUME NEW p \in Parents, Rollback(p) PROVE SlotInv'
    BY <2>t, <2>19 DEF Rollback, Matches
  <2>20. ASSUME NEW p \in Parents, Unclaim(p) PROVE SlotInv'
    BY <2>t, <2>20 DEF Unclaim
  <2>21. ASSUME NEW p \in Parents, Crash(p) PROVE SlotInv'
    BY <2>t, <2>21 DEF Crash
  <2>22. ASSUME NEW r \in Runs, RunEnds(r) PROVE SlotInv'
    BY <2>t, <2>22 DEF RunEnds
  <2>23. ASSUME NEW r \in Runs, RunnerExits(r) PROVE SlotInv'
    BY <2>t, <2>23 DEF RunnerExits
  <2>24. ASSUME NEW r \in Runs, DeclareFailed(r) PROVE SlotInv'
    BY <2>t, <2>24 DEF DeclareFailed
  <2>25. ASSUME NEW r \in Runs, FinalizeProof(r) PROVE SlotInv'
    BY <2>t, <2>25 DEF FinalizeProof
  <2>26. CASE UNCHANGED vars
    BY <2>t, <2>26 DEF vars
  <2> QED
    BY <2>1, <2>2, <2>3, <2>4, <2>5, <2>6, <2>7, <2>8, <2>9, <2>10, <2>11,
       <2>12, <2>13, <2>14, <2>15, <2>16, <2>17, <2>18, <2>19, <2>20, <2>21,
       <2>22, <2>23, <2>24, <2>25, <2>26
       DEF Next, ParentStep, RunnerStep
<1> QED
  BY <1>1, <1>2

\* What a step may do to the owner of a slot: it keeps its run, unless it is
\* released after its run's end, handed to a run that resumes a settled one, or
\* taken back by the parent that charged it.
LEMMA OwnerSteps ==
  ASSUME CapacityAssumption, TypeInv, VerdictInv, HandleInv, SlotInv, Next,
         NEW s \in Slots, owner[s] # None
  PROVE  \/ owner'[s] # None /\ owner'[s].run = owner[s].run
         \/ status[owner[s].run] # "running"
         \/ \E p \in Parents : /\ Rollback(p) /\ s = at[p]
                               /\ owner[s].run = job[p].run
<1> USE CapacityAssumption DEF CapacityAssumption, desk, parentVars, slotVars, runVars
<1> DEFINE Kept == \/ owner'[s] # None /\ owner'[s].run = owner[s].run
                   \/ status[owner[s].run] # "running"
                   \/ \E p \in Parents : /\ Rollback(p) /\ s = at[p]
                                         /\ owner[s].run = job[p].run
<1>t. /\ None \notin Owners
      /\ \A p \in Parents : pc[p] \in AtSlot => at[p] \in Slots
      /\ owner \in [Slots -> Owners \cup {None}] /\ mine \in [Parents -> Owners \cup {None}]
      /\ \A p \in Parents : pc[p] \in Holding => mine[p] # None
  BY DEF TypeInv, ControlOK, RecordsOK
<1>1. ASSUME NEW p \in Parents, RemoveSlot(p) PROVE Kept
  <2>1. CASE Matches(at[p], seen[p]) /\ at[p] = s
    BY <1>1, <2>1 DEF RemoveSlot, Matches, VerdictInv, Final
  <2>2. CASE ~(Matches(at[p], seen[p]) /\ at[p] = s)
    BY <1>t, <1>1, <2>2 DEF RemoveSlot
  <2> QED
    BY <2>1, <2>2
<1>2. ASSUME NEW p \in Parents, Rollback(p) PROVE Kept
  <2>1. CASE Matches(at[p], mine[p]) /\ at[p] = s
    <3>1. mine[p] # None /\ mine[p].run = job[p].run
      BY <1>t, <1>2 DEF HandleInv, Rollback, Holding
    <3> QED
      BY <1>2, <2>1, <3>1 DEF Matches
  <2>2. CASE ~(Matches(at[p], mine[p]) /\ at[p] = s)
    BY <1>t, <1>2, <2>2 DEF Rollback
  <2> QED
    BY <2>1, <2>2
<1>3. ASSUME NEW p \in Parents, PersistOwner(p) PROVE Kept
  BY <1>t, <1>3 DEF PersistOwner, SlotInv
<1>4. ASSUME NEW p \in Parents, Transfer(p) PROVE Kept
  <2>1. CASE /\ Matches(at[p], seen[p]) /\ at[p] = s
             /\ status[job[p].source] \in {"paused", "ended"}
    BY <1>4, <2>1 DEF Transfer, Matches, HandleInv
  <2>2. CASE ~(Matches(at[p], seen[p]) /\ status[job[p].source] \in {"paused", "ended"})
    BY <1>4, <2>2 DEF Transfer
  <2>3. CASE at[p] # s
    BY <1>t, <1>4, <2>3 DEF Transfer
  <2> QED
    BY <2>1, <2>2, <2>3
<1>5. ASSUME NEW p \in Parents, MarkStarted(p) PROVE Kept
  <2>1. owner' = [owner EXCEPT ![at[p]] = [owner[at[p]] EXCEPT !.started = TRUE]] \/ owner' = owner
    BY <1>5 DEF MarkStarted
  <2>2. owner[s] \in Owners
    BY <1>t
  <2>3. /\ [owner[s] EXCEPT !.started = TRUE] \in Owners
        /\ [owner[s] EXCEPT !.started = TRUE].run = owner[s].run
    BY <2>2, OwnerFacts
  <2> QED
    BY <1>t, <2>1, <2>3
<1>6. ASSUME NEW p \in Parents,
             \/ Scan(p) \/ ClaimToRemove(p) \/ Admit(p) \/ CreateSlot(p) \/ FindSource(p)
             \/ ClaimToTransfer(p) \/ SpawnRunner(p) \/ SpawnFails(p) \/ StartupUnsettled(p)
             \/ ClaimToMark(p) \/ ClaimToRollback(p) \/ Unclaim(p) \/ BeginRefresh(p)
             \/ Crash(p)
      PROVE  Kept
  BY <1>6 DEF Scan, ClaimToRemove, Admit, CreateSlot, FindSource, ClaimToTransfer,
              SpawnRunner, SpawnFails, StartupUnsettled, ClaimToMark, ClaimToRollback,
              Unclaim, BeginRefresh, Crash
<1>7. ASSUME NEW p \in Parents, NEW r \in Runs,
             BeginLaunch(p, r) \/ \E source \in Runs : BeginResume(p, r, source)
      PROVE  Kept
  BY <1>7 DEF BeginLaunch, BeginResume
<1>8. ASSUME NEW r \in Runs, RunnerStep(r) PROVE Kept
  BY <1>8 DEF RunnerStep, RunEnds, RunnerExits, DeclareFailed, FinalizeProof
<1> QED
  BY <1>1, <1>2, <1>3, <1>4, <1>5, <1>6, <1>7, <1>8 DEF Next, ParentStep

\* A run starts running only as the spawn of its launch.
LEMMA StatusSteps ==
  ASSUME CapacityAssumption, TypeInv, Next, NEW r \in Runs, status'[r] = "running"
  PROVE  \/ status[r] = "running"
         \/ \E p \in Parents : SpawnRunner(p) /\ job[p].run = r
<1> USE DEF desk, parentVars, slotVars, runVars
<1>t. status \in [Runs -> {"absent", "running", "paused", "ended"}]
  BY DEF TypeInv, StatusOK
<1> QED
  BY <1>t DEF Next, ParentStep, RunnerStep, BeginLaunch, BeginResume, BeginRefresh,
     Scan, ClaimToRemove, RemoveSlot, Admit, CreateSlot, PersistOwner, FindSource,
     ClaimToTransfer, Transfer, SpawnRunner, SpawnFails, StartupUnsettled, ClaimToMark,
     MarkStarted, ClaimToRollback, Rollback, Unclaim, Crash,
     RunEnds, RunnerExits, DeclareFailed, FinalizeProof

\* A run is reported as started only by a parent that found its own record.
LEMMA AcceptSteps ==
  ASSUME CapacityAssumption, TypeInv, HandleInv, Next, NEW r \in accepted' \ accepted
  PROVE  \E s \in Slots : owner[s] # None /\ owner[s].run = r /\ owner'[s] # None
                          /\ owner'[s].run = r
<1> USE DEF desk, parentVars, slotVars, runVars
<1>1. PICK p \in Parents : MarkStarted(p)
  BY DEF Next, ParentStep, RunnerStep, BeginLaunch, BeginResume, BeginRefresh,
     Scan, ClaimToRemove, RemoveSlot, Admit, CreateSlot, PersistOwner, FindSource,
     ClaimToTransfer, Transfer, SpawnRunner, SpawnFails, StartupUnsettled, ClaimToMark,
     ClaimToRollback, Rollback, Unclaim, Crash, Finish, Forget, Goto,
     RunEnds, RunnerExits, DeclareFailed, FinalizeProof
<1>2. /\ at[p] \in Slots /\ owner \in [Slots -> Owners \cup {None}]
      /\ mine[p] # None /\ mine[p].run = job[p].run
  BY <1>1, CapacityAssumption
     DEF TypeInv, ControlOK, RecordsOK, MarkStarted, AtSlot, Holding, HandleInv, CapacityAssumption
<1>3. Matches(at[p], mine[p]) /\ r = job[p].run
  BY <1>1 DEF MarkStarted
<1>4. owner[at[p]] # None /\ owner[at[p]].run = r
  BY <1>2, <1>3 DEF Matches
<1>5. owner[at[p]] \in Owners /\ None \notin Owners
  BY <1>2, <1>4, CapacityAssumption DEF CapacityAssumption
<1>6. owner' = [owner EXCEPT ![at[p]] = [owner[at[p]] EXCEPT !.started = TRUE]] \/ owner' = owner
  BY <1>1 DEF MarkStarted
<1>7. /\ [owner[at[p]] EXCEPT !.started = TRUE] \in Owners
      /\ [owner[at[p]] EXCEPT !.started = TRUE].run = r
  BY <1>4, <1>5, OwnerFacts
<1>8. owner'[at[p]] # None /\ owner'[at[p]].run = r
  BY <1>2, <1>4, <1>5, <1>6, <1>7
<1> QED
  BY <1>2, <1>4, <1>8

\* AcceptedIsCharged is inductive relative to the invariants above.
LEMMA AcceptedInductive ==
  ASSUME CapacityAssumption
  PROVE  /\ Init => AcceptedIsCharged
         /\ /\ TypeInv /\ JobInv /\ VerdictInv /\ HandleInv /\ SlotInv
            /\ AcceptedIsCharged /\ [Next]_vars
            => AcceptedIsCharged'
<1>1. Init => AcceptedIsCharged
  BY DEF Init, AcceptedIsCharged
<1>2. ASSUME TypeInv, JobInv, VerdictInv, HandleInv, SlotInv, AcceptedIsCharged, Next
      PROVE  AcceptedIsCharged'
  <2> SUFFICES ASSUME NEW r \in accepted', status'[r] = "running" PROVE Charged(r)'
    BY DEF AcceptedIsCharged
  <2>1. CASE r \notin accepted
    BY <2>1, <1>2, AcceptSteps, CapacityAssumption DEF Charged
  <2>2. CASE r \in accepted
    <3>1. r \in Runs
      BY <1>2, <2>2 DEF TypeInv, JobsOK
    <3>2. status[r] = "running"
      <4>1. ASSUME NEW p \in Parents, SpawnRunner(p), job[p].run = r PROVE FALSE
        BY <1>2, <2>2, <4>1 DEF SpawnRunner, HandleInv
      <4> QED
        BY <1>2, <3>1, <4>1, StatusSteps, CapacityAssumption
    <3>3. PICK s \in Slots : owner[s] # None /\ owner[s].run = r
      BY <1>2, <2>2, <3>2 DEF AcceptedIsCharged, Charged
    <3>4. ASSUME NEW p \in Parents, Rollback(p), job[p].run = r PROVE FALSE
      BY <1>2, <2>2, <3>4 DEF Rollback, HandleInv
    <3>5. owner'[s] # None /\ owner'[s].run = r
      BY <1>2, <3>2, <3>3, <3>4, OwnerSteps, CapacityAssumption
    <3> QED
      BY <3>5 DEF Charged
  <2> QED
    BY <2>1, <2>2
<1>3. ASSUME AcceptedIsCharged, UNCHANGED vars PROVE AcceptedIsCharged'
  BY <1>3 DEF AcceptedIsCharged, Charged, vars, parentVars, slotVars, runVars, desk
<1> QED
  BY <1>1, <1>2, <1>3

\* Every behaviour satisfies the invariants in every state.
LEMMA AcceptedInvariant ==
  CapacityAssumption =>
    (Spec => [](TypeInv /\ JobInv /\ VerdictInv /\ HandleInv /\ SlotInv /\ AcceptedIsCharged))
<1> SUFFICES ASSUME CapacityAssumption
    PROVE Spec => [](TypeInv /\ JobInv /\ VerdictInv /\ HandleInv /\ SlotInv /\ AcceptedIsCharged)
  OBVIOUS
<1> QED
  BY VerdictInvariant, HandleInvInductive, SlotInvInductive, AcceptedInductive, PTL DEF Spec

\* The cap counts every run that was reported as started for as long as it
\* runs (acquire, markStarted and transfer of a capacity handle), whatever
\* launches, resumes, roll-backs, refreshes and crashes of any number of
\* processes that share the session do meanwhile.
THEOREM AcceptedKeepsSlot == CapacityAssumption => (Spec => []AcceptedIsCharged)
<1> SUFFICES ASSUME CapacityAssumption PROVE Spec => []AcceptedIsCharged
  OBVIOUS
<1> QED
  BY AcceptedInvariant, PTL

-----------------------------------------------------------------------------
(* The ledger that the cap promises, Capacity.                             *)

\* The ledger as the slots and the runs' files show it.
Charges     == [s \in Slots |-> IF owner[s] = None THEN None ELSE owner[s].run]
Started     == {s \in Slots : owner[s] # None /\ owner[s].started}
RunningRuns == {r \in Runs : status[r] = "running"}
OverRuns    == {r \in Runs : status[r] = "ended" /\ proof[r] # "none"}

\* A record that is made anew is not started, one that is marked is.
LEMMA FreshFacts ==
  \A t, r \in Runs, g \in Nat :
    /\ Owner(t, r, g, FALSE) \in Owners
    /\ Owner(t, r, g, FALSE).run = r /\ Owner(t, r, g, FALSE).started = FALSE
  BY DEF Owner, Owners

LEMMA MarkedFacts ==
  \A o \in Owners :
    LET marked == [o EXCEPT !.started = TRUE]
    IN  marked \in Owners /\ marked.run = o.run /\ marked.started
  BY DEF Owners

\* What a new owner record in one slot is in the ledger.
LEMMA RecordWritten ==
  ASSUME CapacityAssumption, RecordsOK, NEW s \in Slots, NEW o \in Owners \cup {None},
         owner' = [owner EXCEPT ![s] = o], UNCHANGED <<status, proof>>
  PROVE  /\ Charges' = [Charges EXCEPT ![s] = IF o = None THEN None ELSE o.run]
         /\ (o # None /\ o.started) => Started' = Started \cup {s}
         /\ ~(o # None /\ o.started) => Started' = Started \ {s}
         /\ RunningRuns' = RunningRuns /\ OverRuns' = OverRuns
<1>1. \A q \in Slots : owner'[q] = IF q = s THEN o ELSE owner[q]
  BY DEF RecordsOK
<1> DEFINE to == IF o = None THEN None ELSE o.run
<1>2. Charges' = [Charges EXCEPT ![s] = to]
  <2>1. Charges' = [q \in Slots |-> IF owner'[q] = None THEN None ELSE owner'[q].run]
    BY DEF Charges
  <2>2. \A q \in Slots : Charges'[q] = IF q = s THEN to ELSE Charges[q]
    BY <1>1, <2>1 DEF Charges
  <2>3. DOMAIN Charges = Slots /\ DOMAIN Charges' = Slots
    BY <2>1 DEF Charges
  <2>4. Charges' = [q \in Slots |-> Charges'[q]] /\ Charges = [q \in Slots |-> Charges[q]]
    BY <2>1 DEF Charges
  <2> HIDE DEF to
  <2> QED
    BY ONLY <2>2, <2>3, <2>4
<1>3. /\ (o # None /\ o.started) => Started' = Started \cup {s}
      /\ ~(o # None /\ o.started) => Started' = Started \ {s}
  BY <1>1 DEF Started
<1>4. RunningRuns' = RunningRuns /\ OverRuns' = OverRuns
  BY DEF RunningRuns, OverRuns
<1> QED
  BY <1>2, <1>3, <1>4

\* Every step is a step of Capacity or leaves its state alone.
LEMMA StepOfLedger ==
  ASSUME CapacityAssumption, TypeInv, JobInv, VerdictInv, HandleInv, SlotInv, [Next]_vars
  PROVE  [Ledger!Next]_(Ledger!vars)
<1> DEFINE Mapped == [Ledger!Next]_(Ledger!vars)
<1> USE DEF desk, parentVars, slotVars, runVars
<1>a. ASSUME NEW s \in Slots, NEW r \in Runs, Charges[s] = None,
             r \notin RunningRuns \cup accepted,
             Charges' = [Charges EXCEPT ![s] = r], Started' = Started,
             RunningRuns' = RunningRuns, OverRuns' = OverRuns, accepted' = accepted
      PROVE  Mapped
  BY <1>a DEF Ledger!Next, Ledger!Charge, Ledger!Unlaunched, Charges, Started, RunningRuns, OverRuns
<1>b. ASSUME NEW s \in Slots, NEW r \in Runs, Charges[s] \in Runs \ RunningRuns,
             r \notin RunningRuns \cup accepted,
             Charges' = [Charges EXCEPT ![s] = r], Started' = Started \ {s},
             RunningRuns' = RunningRuns, OverRuns' = OverRuns, accepted' = accepted
      PROVE  Mapped
  BY <1>b DEF Ledger!Next, Ledger!HandOver, Ledger!Unlaunched, Charges, Started, RunningRuns, OverRuns
<1>c. ASSUME NEW s \in Slots, NEW before \in (Runs \ RunningRuns) \cup {None},
             Charges[s] \in Runs \ accepted, s \notin Started,
             Charges' = [Charges EXCEPT ![s] = before],
             Started' \in {Started, Started \cup {s}}, before = None => Started' = Started,
             RunningRuns' = RunningRuns, OverRuns' = OverRuns, accepted' = accepted
      PROVE  Mapped
  BY <1>c DEF Ledger!Next, Ledger!TakeBack, Charges, Started, RunningRuns, OverRuns
<1>d. ASSUME NEW s \in Slots, Charges[s] \in Runs, Charges' = Charges,
             Started' \in {Started, Started \cup {s}},
             accepted' \in {accepted, accepted \cup {Charges[s]}},
             RunningRuns' = RunningRuns, OverRuns' = OverRuns
      PROVE  Mapped
  BY <1>d DEF Ledger!Next, Ledger!Confirm, Charges, Started, RunningRuns, OverRuns
<1>e. ASSUME NEW s \in Slots, Charges[s] \in OverRuns,
             Charges' = [Charges EXCEPT ![s] = None], Started' = Started \ {s},
             RunningRuns' = RunningRuns, OverRuns' = OverRuns, accepted' = accepted
      PROVE  Mapped
  BY <1>e DEF Ledger!Next, Ledger!Release, Charges, Started, RunningRuns, OverRuns
<1>f. ASSUME NEW r \in Runs, r \notin RunningRuns \cup accepted \cup OverRuns,
             RunningRuns' = RunningRuns \cup {r}, OverRuns' = OverRuns,
             UNCHANGED <<owner, accepted>>
      PROVE  Mapped
  BY <1>f DEF Ledger!Next, Ledger!StartRun, Ledger!Unlaunched, Charges, Started, RunningRuns, OverRuns
<1>g. ASSUME NEW r \in Runs, OverRuns' \in {OverRuns, OverRuns \cup {r}},
             RunningRuns' = RunningRuns \ {r}, UNCHANGED <<owner, accepted>>
      PROVE  Mapped
  BY <1>g DEF Ledger!Next, Ledger!EndRun, Charges, Started, RunningRuns, OverRuns
<1>n. ASSUME UNCHANGED <<owner, status, proof, accepted>> PROVE Mapped
  BY <1>n DEF Ledger!vars
<1> SUFFICES Mapped
  OBVIOUS
<1> HIDE DEF Mapped
<1>t. /\ None \notin Owners /\ None \notin Runs /\ RecordsOK
      /\ \A p \in Parents : pc[p] \in AtSlot => at[p] \in Slots
      /\ owner \in [Slots -> Owners \cup {None}] /\ prev \in [Parents -> Owners \cup {None}]
      /\ \A p \in Parents : pc[p] \in Holding => mine[p] \in Owners
      /\ \A p \in Parents : pc[p] \in Charging \cup Holding => job[p].run \in Runs
  BY CapacityAssumption DEF CapacityAssumption, TypeInv, ControlOK, RecordsOK, JobsOK
<1>s. /\ status \in [Runs -> {"absent", "running", "paused", "ended"}]
      /\ proof \in [Runs -> {"none", "observed", "unknown", "not-started"}]
  BY DEF TypeInv, StatusOK
<1>o. ASSUME NEW s \in Slots, owner[s] # None
      PROVE  owner[s] \in Owners /\ Charges[s] = owner[s].run /\ Charges[s] \in Runs
  <2>1. owner[s] \in Owners
    BY <1>o, <1>t
  <2>2. owner[s].run \in Runs
    BY <2>1, OwnerFacts
  <2>3. Charges[s] = owner[s].run
    BY <1>o DEF Charges
  <2> QED
    BY <2>1, <2>2, <2>3
<1>w. ASSUME NEW p \in Parents, pc[p] \in Refreshing \cup Charging \cup {"spawn", "unclaimSpawn"},
             job[p].run \in Runs
      PROVE  status[job[p].run] = "absent" /\ job[p].run \notin RunningRuns \cup accepted \cup OverRuns
  <2>1. status[job[p].run] = "absent"
    BY <1>w DEF JobInv
  <2>2. job[p].run \notin accepted
    BY <1>w DEF HandleInv, Refreshing, Charging
  <2> QED
    BY <2>1, <2>2 DEF RunningRuns, OverRuns
<1>1. ASSUME NEW p \in Parents, PersistOwner(p) PROVE Mapped
  <2> DEFINE r == job[p].run
             new == Owner(r, r, 0, FALSE)
  <2>1. /\ at[p] \in Slots /\ r \in Runs /\ owner[at[p]] = None
        /\ r \notin RunningRuns \cup accepted
    BY <1>1, <1>t, <1>w DEF PersistOwner, SlotInv, AtSlot, Charging
  <2>2. new \in Owners /\ new.run = r /\ new.started = FALSE
    <3>1. r \in Runs /\ 0 \in Nat
      BY <2>1
    <3> QED
      BY ONLY <3>1, FreshFacts
  <2>3. owner' = [owner EXCEPT ![at[p]] = new] /\ UNCHANGED <<status, proof, accepted>>
    BY <1>1 DEF PersistOwner
  <2>4. Charges[at[p]] = None /\ at[p] \notin Started
    BY <2>1 DEF Charges, Started
  <2> HIDE DEF new, r
  <2>5. /\ Charges' = [Charges EXCEPT ![at[p]] = r] /\ Started' = Started \ {at[p]}
        /\ RunningRuns' = RunningRuns /\ OverRuns' = OverRuns
    BY <1>t, <2>1, <2>2, <2>3, RecordWritten
  <2>6. Started' = Started
    BY ONLY <2>4, <2>5
  <2> QED
    BY <1>a, <2>1, <2>3, <2>4, <2>5, <2>6
<1>2. ASSUME NEW p \in Parents, Transfer(p) PROVE Mapped
  <2> DEFINE r == job[p].run
             s == at[p]
             next == Owner(owner[s].token, r, owner[s].gen + 1, FALSE)
  <2>1. CASE Matches(s, seen[p]) /\ status[job[p].source] \in {"paused", "ended"}
    <3>1. s \in Slots /\ r \in Runs /\ r \notin RunningRuns \cup accepted
      BY <1>2, <1>t, <1>w DEF Transfer, AtSlot, Charging
    <3>2. owner[s] # None /\ owner[s].run = job[p].source
      BY <1>2, <2>1 DEF Matches, HandleInv, Transfer
    <3>3. Charges[s] \in Runs \ RunningRuns
      BY <1>o, <2>1, <3>1, <3>2 DEF RunningRuns
    <3>4. owner[s].token \in Runs /\ owner[s].gen + 1 \in Nat
      <4>1. owner[s] \in Owners
        BY <1>o, <3>1, <3>2
      <4>2. owner[s].token \in Runs /\ owner[s].gen \in Nat
        BY <4>1, OwnerFacts
      <4> QED
        BY <4>2
    <3>5. next \in Owners /\ next.run = r /\ next.started = FALSE
      BY <3>1, <3>4, FreshFacts
    <3>6. owner' = [owner EXCEPT ![s] = next] /\ UNCHANGED <<status, proof, accepted>>
      BY <1>2, <2>1 DEF Transfer
    <3> HIDE DEF next, r, s
    <3>7. /\ Charges' = [Charges EXCEPT ![s] = r] /\ Started' = Started \ {s}
          /\ RunningRuns' = RunningRuns /\ OverRuns' = OverRuns
      BY <1>t, <3>1, <3>5, <3>6, RecordWritten
    <3> QED
      BY <1>b, <3>1, <3>3, <3>6, <3>7
  <2>2. CASE ~(Matches(s, seen[p]) /\ status[job[p].source] \in {"paused", "ended"})
    BY <1>2, <2>2, <1>n DEF Transfer
  <2> QED
    BY <2>1, <2>2
<1>3. ASSUME NEW p \in Parents, RemoveSlot(p) PROVE Mapped
  <2> DEFINE s == at[p]
  <2>1. CASE Matches(s, seen[p])
    <3>1. s \in Slots /\ owner[s] # None /\ Final(owner[s].run)
      BY <1>3, <1>t, <2>1 DEF RemoveSlot, AtSlot, Matches, VerdictInv
    <3>2. Charges[s] \in OverRuns
      BY <1>o, <3>1 DEF OverRuns, Final
    <3>3. owner' = [owner EXCEPT ![s] = None] /\ UNCHANGED <<status, proof, accepted>>
      BY <1>3, <2>1 DEF RemoveSlot
    <3> HIDE DEF s
    <3>4. /\ Charges' = [Charges EXCEPT ![s] = None] /\ Started' = Started \ {s}
          /\ RunningRuns' = RunningRuns /\ OverRuns' = OverRuns
      BY <1>t, <3>1, <3>3, RecordWritten
    <3> QED
      BY <1>e, <3>1, <3>2, <3>3, <3>4
  <2>2. CASE ~Matches(s, seen[p])
    BY <1>3, <2>2, <1>n DEF RemoveSlot
  <2> QED
    BY <2>1, <2>2
<1>4. ASSUME NEW p \in Parents, Rollback(p) PROVE Mapped
  <2> DEFINE s == at[p]
  <2>1. CASE Matches(s, mine[p]) /\ ~owner[s].started
    <3>1. /\ s \in Slots /\ owner[s] # None /\ mine[p] # None
          /\ owner[s].run = mine[p].run /\ job[p].run \notin accepted
      BY <1>4, <1>t, <2>1 DEF Rollback, AtSlot, Holding, Matches, HandleInv
    <3>2. Charges[s] \in Runs \ accepted /\ s \notin Started
      BY <1>o, <2>1, <3>1 DEF HandleInv, Started
    <3>3. UNCHANGED <<status, proof, accepted>> /\ owner' = [owner EXCEPT ![s] = prev[p]]
      BY <1>4, <2>1 DEF Rollback, Finish, Forget
    <3>4. prev[p] \in Owners \cup {None}
      BY <1>t
    <3> DEFINE before == IF prev[p] = None THEN None ELSE prev[p].run
    <3>5. before \in (Runs \ RunningRuns) \cup {None}
      <4>1. CASE prev[p] = None
        BY <4>1
      <4>2. CASE prev[p] # None
        <5>1. prev[p].run \in Runs
          BY <3>4, <4>2, OwnerFacts
        <5>2. prev[p].run \notin RunningRuns
          BY <4>2 DEF HandleInv, Settled, RunningRuns
        <5> QED
          BY <4>2, <5>1, <5>2
      <4> QED
        BY <4>1, <4>2
    <3> HIDE DEF s
    <3>6. /\ Charges' = [Charges EXCEPT ![s] = before]
          /\ Started' \in {Started \ {s}, Started \cup {s}}
          /\ RunningRuns' = RunningRuns /\ OverRuns' = OverRuns
      BY <1>t, <3>1, <3>3, <3>4, RecordWritten
    <3>7. Started' \in {Started, Started \cup {s}}
      BY <3>2, <3>6
    <3>8. before = None => Started' = Started
      <4>1. ASSUME prev[p] = None PROVE Started' = Started \ {s}
        BY <1>t, <3>1, <3>3, <3>4, <4>1, RecordWritten
      <4>2. ASSUME prev[p] # None PROVE before # None
        <5>1. prev[p].run \in Runs
          BY <3>4, <4>2, OwnerFacts
        <5> QED
          BY <1>t, <4>2, <5>1 DEF before
      <4> QED
        BY <3>2, <4>1, <4>2
    <3> HIDE DEF before
    <3> QED
      BY <1>c, <3>1, <3>2, <3>3, <3>5, <3>6, <3>7, <3>8
  <2>2. CASE ~(Matches(s, mine[p]) /\ ~owner[s].started)
    <3>1. UNCHANGED <<owner, status, proof, accepted>>
      BY <1>4, <2>2 DEF Rollback
    <3> QED
      BY <3>1, <1>n
  <2> QED
    BY <2>1, <2>2
<1>5. ASSUME NEW p \in Parents, MarkStarted(p) PROVE Mapped
  <2> DEFINE s == at[p]
             new == [owner[s] EXCEPT !.started = TRUE]
  <2>1. CASE Matches(s, mine[p])
    <3>1. /\ s \in Slots /\ owner[s] # None /\ owner[s].run = job[p].run
      BY <1>5, <1>t, <2>1 DEF MarkStarted, AtSlot, Holding, Matches, HandleInv
    <3>2. Charges[s] = job[p].run /\ Charges[s] \in Runs
      BY <1>o, <3>1
    <3>3. new \in Owners /\ new.run = Charges[s] /\ new.started
      BY <1>o, <3>1, MarkedFacts
    <3>4. /\ UNCHANGED <<status, proof>>
          /\ owner' = [owner EXCEPT ![s] = new] \/ owner' = owner
          /\ accepted' \in {accepted, accepted \cup {Charges[s]}}
      BY <1>5, <2>1, <3>2 DEF MarkStarted
    <3>5. CASE owner' = [owner EXCEPT ![s] = new]
      <4> HIDE DEF new, s
      <4>1. new # None /\ new \in Owners \cup {None}
        BY <1>t, <3>3
      <4>2. /\ Charges' = [Charges EXCEPT ![s] = new.run]
            /\ Started' = Started \cup {s}
            /\ RunningRuns' = RunningRuns /\ OverRuns' = OverRuns
        BY <1>t, <3>1, <3>3, <3>4, <3>5, <4>1, RecordWritten
      <4>3. Charges' = Charges
        BY <3>3, <4>2 DEF Charges
      <4> QED
        BY <1>d, <3>1, <3>2, <3>4, <4>2, <4>3
    <3>6. CASE owner' = owner
      <4>1. /\ Charges' = Charges /\ Started' = Started
            /\ RunningRuns' = RunningRuns /\ OverRuns' = OverRuns
        BY <3>4, <3>6 DEF Charges, Started, RunningRuns, OverRuns
      <4> HIDE DEF s
      <4> QED
        BY <1>d, <3>1, <3>2, <3>4, <4>1
    <3> QED
      BY <3>4, <3>5, <3>6
  <2>2. CASE ~Matches(s, mine[p])
    BY <1>5, <2>2, <1>n DEF MarkStarted
  <2> QED
    BY <2>1, <2>2
<1>6. ASSUME NEW p \in Parents, SpawnRunner(p) PROVE Mapped
  <2>1. job[p].run \in Runs /\ job[p].run \notin RunningRuns \cup accepted \cup OverRuns
    BY <1>6, <1>t, <1>w DEF SpawnRunner, Holding
  <2>2. status' = [status EXCEPT ![job[p].run] = "running"] /\ UNCHANGED <<owner, accepted, proof>>
    BY <1>6 DEF SpawnRunner
  <2>3. RunningRuns' = RunningRuns \cup {job[p].run} /\ OverRuns' = OverRuns
    BY <1>s, <2>1, <2>2 DEF RunningRuns, OverRuns
  <2> QED
    BY <1>f, <2>1, <2>2, <2>3
<1>7. ASSUME NEW p \in Parents, SpawnFails(p) \/ StartupUnsettled(p) PROVE Mapped
  <2>1. job[p].run \in Runs /\ job[p].run \notin RunningRuns \cup OverRuns
    BY <1>7, <1>t, <1>w DEF SpawnFails, StartupUnsettled, Holding
  <2>2. UNCHANGED <<owner, accepted>>
    BY <1>7 DEF SpawnFails, StartupUnsettled
  <2>3. \/ UNCHANGED <<status, proof>>
        \/ /\ status' = [status EXCEPT ![job[p].run] = "ended"]
           /\ proof' = [proof EXCEPT ![job[p].run] = "not-started"]
    BY <1>7 DEF SpawnFails, StartupUnsettled
  <2>4. CASE UNCHANGED <<status, proof>>
    BY <1>n, <2>2, <2>4
  <2>5. CASE /\ status' = [status EXCEPT ![job[p].run] = "ended"]
             /\ proof' = [proof EXCEPT ![job[p].run] = "not-started"]
    <3>1. RunningRuns' = RunningRuns \ {job[p].run} /\ OverRuns' = OverRuns \cup {job[p].run}
      BY <1>s, <2>1, <2>5 DEF RunningRuns, OverRuns
    <3> QED
      BY <1>g, <2>1, <2>2, <3>1
  <2> QED
    BY <2>3, <2>4, <2>5
<1>8. ASSUME NEW r \in Runs, RunEnds(r) \/ DeclareFailed(r) PROVE Mapped
  <2>1. UNCHANGED <<owner, accepted, proof>> /\ status[r] = "running"
    BY <1>8 DEF RunEnds, DeclareFailed
  <2>2. PICK final \in {"paused", "ended"} : status' = [status EXCEPT ![r] = final]
    BY <1>8 DEF RunEnds, DeclareFailed
  <2>3. \A q \in Runs : status'[q] = IF q = r THEN final ELSE status[q]
    BY <1>s, <2>2
  <2>4. RunningRuns' = RunningRuns \ {r}
    BY <2>3 DEF RunningRuns
  <2>5. OverRuns' \in {OverRuns, OverRuns \cup {r}}
    BY <2>1, <2>3 DEF OverRuns
  <2> QED
    BY <1>g, <2>1, <2>4, <2>5
<1>9. ASSUME NEW r \in Runs, FinalizeProof(r) PROVE Mapped
  <2>1. UNCHANGED <<owner, accepted, status>>
    BY <1>9 DEF FinalizeProof
  <2>2. PICK new \in {"observed", "unknown"} : proof' = [proof EXCEPT ![r] = new]
    BY <1>9 DEF FinalizeProof
  <2>3. \A q \in Runs : proof'[q] = IF q = r THEN new ELSE proof[q]
    BY <1>s, <2>2
  <2>4. RunningRuns' = RunningRuns
    BY <2>1 DEF RunningRuns
  <2>5. CASE status[r] = "ended"
    <3>1. RunningRuns' = RunningRuns \ {r}
      BY <2>4, <2>5 DEF RunningRuns
    <3>2. OverRuns' = OverRuns \cup {r}
      BY <2>1, <2>3, <2>5 DEF OverRuns
    <3> QED
      BY <1>g, <2>1, <3>1, <3>2
  <2>6. CASE status[r] # "ended"
    <3>1. OverRuns' = OverRuns
      BY <2>1, <2>3, <2>6 DEF OverRuns
    <3>2. Charges' = Charges /\ Started' = Started
      BY <2>1 DEF Charges, Started
    <3> QED
      BY <2>1, <2>4, <3>1, <3>2 DEF Mapped, Ledger!vars, Charges, Started, RunningRuns, OverRuns
  <2> QED
    BY <2>5, <2>6
<1>10. ASSUME NEW p \in Parents,
              \/ Scan(p) \/ ClaimToRemove(p) \/ Admit(p) \/ CreateSlot(p) \/ FindSource(p)
              \/ ClaimToTransfer(p) \/ ClaimToMark(p) \/ ClaimToRollback(p) \/ Unclaim(p)
              \/ BeginRefresh(p) \/ Crash(p)
       PROVE  Mapped
  BY <1>n, <1>10 DEF Scan, ClaimToRemove, Admit, CreateSlot, FindSource, ClaimToTransfer,
              ClaimToMark, ClaimToRollback, Unclaim, BeginRefresh, Crash, Finish, Forget
<1>11. ASSUME NEW p \in Parents, NEW r \in Runs,
              BeginLaunch(p, r) \/ \E source \in Runs : BeginResume(p, r, source)
       PROVE  Mapped
  BY <1>n, <1>11 DEF BeginLaunch, BeginResume
<1>12. ASSUME NEW r \in Runs, RunnerExits(r) PROVE Mapped
  BY <1>n, <1>12 DEF RunnerExits
<1>13. CASE UNCHANGED vars
  BY <1>n, <1>13 DEF vars
<1> QED
  BY <1>1, <1>2, <1>3, <1>4, <1>5, <1>6, <1>7, <1>8, <1>9, <1>10, <1>11, <1>12, <1>13
     DEF Next, ParentStep, RunnerStep

\* The slot directories and their owner records implement the ledger: for any
\* number of processes that launch, resume, roll back and refresh, and crash at
\* any point, a slot passes from one run to another only as Capacity allows.
THEOREM ImplementsLedger == CapacityAssumption => (Spec => Ledger!Spec)
<1> SUFFICES ASSUME CapacityAssumption PROVE Spec => Ledger!Spec
  OBVIOUS
<1>1. Init => Ledger!Init
  BY DEF Init, Ledger!Init
<1>2. TypeInv /\ JobInv /\ VerdictInv /\ HandleInv /\ SlotInv /\ [Next]_vars
        => [Ledger!Next]_(Ledger!vars)
  BY StepOfLedger
<1> QED
  BY AcceptedInvariant, <1>1, <1>2, PTL DEF Spec, Ledger!Spec

-----------------------------------------------------------------------------
(* One operation at a time.  That a running run always has a slot is false  *)
(* when the operations of two processes overlap (the run OverLimit of TLC); *)
(* it holds when they do not, so with one process, or with several of which *)
(* one at a time is launching, resuming or refreshing.                      *)

Busy(p)    == pc[p] \notin {"idle", "crashed"}
OneAtATime == \A p, q \in Parents : Busy(p) /\ Busy(q) => p = q

\* A handle finds its own record, not started, in its slot ...
FoundInv ==
  \A p \in Parents :
    pc[p] \in Holding => Matches(at[p], mine[p]) /\ ~owner[at[p]].started

\* ... and its claim free: an operation is never refused a claim, and never
\* rolls back a run that runs.
FreeInv ==
  /\ \A s \in Slots \ exists : claim[s] = None
  /\ \A p \in Parents :
       /\ pc[p] \notin {"unclaimRetry", "claimRetry", "retry"}
       /\ pc[p] \in {"persist", "spawn", "claimMark", "claimRollback"} => claim[at[p]] = None
       /\ pc[p] \in {"claimRollback", "rollback"} => status[job[p].run] # "running"

ClaimInv == FoundInv /\ FreeInv

\* FoundInv holds at first, and is kept where operations do not overlap.
LEMMA FoundInvInductive ==
  ASSUME CapacityAssumption
  PROVE  /\ Init => FoundInv
         /\ TypeInv /\ OneAtATime /\ FreeInv /\ FoundInv /\ [Next]_vars => FoundInv'
<1> USE CapacityAssumption DEF CapacityAssumption, FoundInv, Matches, Holding
<1>1. Init => FoundInv
  BY DEF Init
<1>2. TypeInv /\ OneAtATime /\ FreeInv /\ FoundInv /\ [Next]_vars => FoundInv'
  <2> SUFFICES ASSUME TypeInv, OneAtATime, FreeInv, FoundInv, [Next]_vars PROVE FoundInv'
    OBVIOUS
  <2> USE DEF desk, parentVars, slotVars, runVars, Goto, Forget, Finish
  <2>t. /\ pc \in [Parents -> Control] /\ at \in [Parents -> 1..(Limit + 1)]
        /\ job \in [Parents -> Jobs]
        /\ owner \in [Slots -> Owners \cup {None}] /\ exists \subseteq Slots
        /\ mine \in [Parents -> Owners \cup {None}]
        /\ claim \in [Slots -> Parents \cup {None}]
        /\ \A p \in Parents : pc[p] \in {"remove", "claimRemove", "persist", "claimTransfer",
                                "transfer", "mark", "spawn", "unclaimSpawn", "unclaimDone",
                                "claimMark", "claimRollback", "rollback"} => at[p] \in Slots
    BY DEF TypeInv, ControlOK, JobsOK, RecordsOK, SlotsOK, AtSlot, Holding
  <2>q. \A p, q \in Parents : p # q /\ pc[p] \notin {"idle", "crashed"} => pc[q] \in {"idle", "crashed"}
    BY DEF OneAtATime, Busy
  <2>1. ASSUME NEW p \in Parents, NEW r \in Runs, BeginLaunch(p, r)
        PROVE  FoundInv'
    BY <2>t, <2>q, <2>1 DEF BeginLaunch
  <2>2. ASSUME NEW p \in Parents, NEW r \in Runs, NEW source \in Runs,
               BeginResume(p, r, source)
        PROVE  FoundInv'
    BY <2>t, <2>q, <2>2 DEF BeginResume
  <2>3. ASSUME NEW p \in Parents, BeginRefresh(p) PROVE FoundInv'
    BY <2>t, <2>q, <2>3 DEF BeginRefresh
  <2>4. ASSUME NEW p \in Parents, Scan(p) PROVE FoundInv'
    BY <2>t, <2>q, <2>4 DEF Scan, Releasable
  <2>5. ASSUME NEW p \in Parents, ClaimToRemove(p) PROVE FoundInv'
    BY <2>t, <2>q, <2>5 DEF ClaimToRemove, Claimable, Take
  <2>6. ASSUME NEW p \in Parents, RemoveSlot(p) PROVE FoundInv'
    BY <2>t, <2>q, <2>6 DEF RemoveSlot, Matches
  <2>7. ASSUME NEW p \in Parents, Admit(p) PROVE FoundInv'
    BY <2>t, <2>q, <2>7 DEF Admit
  <2>8. ASSUME NEW p \in Parents, CreateSlot(p) PROVE FoundInv'
    BY <2>t, <2>q, <2>8 DEF CreateSlot
  <2>9. ASSUME NEW p \in Parents, PersistOwner(p) PROVE FoundInv'
    <3> DEFINE new == Owner(job[p].run, job[p].run, 0, FALSE)
    <3>1. job[p].run \in Runs
      BY <2>9 DEF TypeInv, JobsOK, Charging, PersistOwner
    <3>2. new \in Owners /\ ~new.started
      BY <3>1, OwnerFacts
    <3>3. /\ pc[p] = "persist" /\ pc' = [pc EXCEPT ![p] = "spawn"]
          /\ owner' = [owner EXCEPT ![at[p]] = new] /\ mine' = [mine EXCEPT ![p] = new]
          /\ UNCHANGED at
      BY <2>9 DEF PersistOwner
    <3> HIDE DEF new
    <3> QED
      BY <2>9, <2>t, <2>q, <3>2, <3>3
  <2>10. ASSUME NEW p \in Parents, FindSource(p) PROVE FoundInv'
    BY <2>t, <2>q, <2>10 DEF FindSource
  <2>11. ASSUME NEW p \in Parents, ClaimToTransfer(p) PROVE FoundInv'
    BY <2>t, <2>q, <2>11 DEF ClaimToTransfer, Claimable, Take
  <2>12. ASSUME NEW p \in Parents, Transfer(p) PROVE FoundInv'
    <3> DEFINE next == Owner(owner[at[p]].token, job[p].run, owner[at[p]].gen + 1, FALSE)
    <3>1. CASE Matches(at[p], seen[p]) /\ status[job[p].source] \in {"paused", "ended"}
      <4>a. job[p].run \in Runs
        BY <2>12 DEF TypeInv, JobsOK, Charging, Transfer
      <4>b. pc[p] = "transfer" /\ owner[at[p]] # None
        BY <2>12, <3>1 DEF Transfer, Matches
      <4>0. job[p].run \in Runs /\ owner[at[p]] \in Owners
        BY <2>12, <2>t, <4>a, <4>b
      <4>c. owner[at[p]].token \in Runs /\ owner[at[p]].gen \in Nat
        BY <4>0, OwnerFacts
      <4>1. owner[at[p]].token \in Runs /\ owner[at[p]].gen + 1 \in Nat
        BY <4>c
      <4>2. next \in Owners /\ ~next.started
        BY <4>0, <4>1, OwnerFacts
      <4>3. /\ pc[p] = "transfer" /\ pc' = [pc EXCEPT ![p] = "unclaimSpawn"]
            /\ owner' = [owner EXCEPT ![at[p]] = next] /\ mine' = [mine EXCEPT ![p] = next]
            /\ UNCHANGED at
        BY <2>12, <3>1 DEF Transfer
      <4> HIDE DEF next
      <4> QED
        BY <2>12, <2>t, <2>q, <4>2, <4>3
    <3>2. CASE ~(Matches(at[p], seen[p]) /\ status[job[p].source] \in {"paused", "ended"})
      <4>1. /\ pc' = [pc EXCEPT ![p] = "unclaimDone"]
            /\ UNCHANGED <<owner, mine, at>>
        BY <2>12, <3>2 DEF Transfer
      <4> QED
        BY <2>12, <2>t, <4>1
    <3> QED
      BY <3>1, <3>2
  <2>13. ASSUME NEW p \in Parents, SpawnRunner(p) PROVE FoundInv'
    BY <2>t, <2>q, <2>13 DEF SpawnRunner
  <2>14. ASSUME NEW p \in Parents, SpawnFails(p) PROVE FoundInv'
    BY <2>t, <2>q, <2>14 DEF SpawnFails
  <2>15. ASSUME NEW p \in Parents, StartupUnsettled(p) PROVE FoundInv'
    BY <2>t, <2>q, <2>15 DEF StartupUnsettled
  <2>16. ASSUME NEW p \in Parents, ClaimToMark(p) PROVE FoundInv'
    BY <2>t, <2>q, <2>16 DEF ClaimToMark, Claimable, Take
  <2>17. ASSUME NEW p \in Parents, MarkStarted(p) PROVE FoundInv'
    BY <2>t, <2>q, <2>17 DEF MarkStarted, Matches
  <2>18. ASSUME NEW p \in Parents, ClaimToRollback(p) PROVE FoundInv'
    BY <2>t, <2>q, <2>18 DEF ClaimToRollback, Claimable, Take
  <2>19. ASSUME NEW p \in Parents, Rollback(p) PROVE FoundInv'
    BY <2>t, <2>q, <2>19 DEF Rollback, Matches
  <2>20. ASSUME NEW p \in Parents, Unclaim(p) PROVE FoundInv'
    BY <2>t, <2>q, <2>20 DEF Unclaim
  <2>21. ASSUME NEW p \in Parents, Crash(p) PROVE FoundInv'
    BY <2>t, <2>q, <2>21 DEF Crash
  <2>22. ASSUME NEW r \in Runs, RunEnds(r) PROVE FoundInv'
    BY <2>t, <2>q, <2>22 DEF RunEnds
  <2>23. ASSUME NEW r \in Runs, RunnerExits(r) PROVE FoundInv'
    BY <2>t, <2>q, <2>23 DEF RunnerExits
  <2>24. ASSUME NEW r \in Runs, DeclareFailed(r) PROVE FoundInv'
    BY <2>t, <2>q, <2>24 DEF DeclareFailed
  <2>25. ASSUME NEW r \in Runs, FinalizeProof(r) PROVE FoundInv'
    BY <2>t, <2>q, <2>25 DEF FinalizeProof
  <2>26. CASE UNCHANGED vars
    BY <2>t, <2>q, <2>26 DEF vars
  <2> QED
    BY <2>1, <2>2, <2>3, <2>4, <2>5, <2>6, <2>7, <2>8, <2>9, <2>10, <2>11,
       <2>12, <2>13, <2>14, <2>15, <2>16, <2>17, <2>18, <2>19, <2>20, <2>21,
       <2>22, <2>23, <2>24, <2>25, <2>26
       DEF Next, ParentStep, RunnerStep
<1> QED
  BY <1>1, <1>2

\* FreeInv holds at first, and is kept where operations do not overlap.
LEMMA FreeInvInductive ==
  ASSUME CapacityAssumption
  PROVE  /\ Init => FreeInv
         /\ TypeInv /\ JobInv /\ SlotInv /\ OneAtATime /\ FoundInv /\ FreeInv /\ [Next]_vars => FreeInv'
<1> USE CapacityAssumption DEF CapacityAssumption, FreeInv
<1>1. Init => FreeInv
  BY DEF Init
<1>2. TypeInv /\ JobInv /\ SlotInv /\ OneAtATime /\ FoundInv /\ FreeInv /\ [Next]_vars => FreeInv'
  <2> SUFFICES ASSUME TypeInv, JobInv, SlotInv, OneAtATime, FoundInv, FreeInv, [Next]_vars PROVE FreeInv'
    OBVIOUS
  <2> USE DEF desk, parentVars, slotVars, runVars, Goto, Forget, Finish
  <2>t. /\ pc \in [Parents -> Control] /\ at \in [Parents -> 1..(Limit + 1)]
        /\ job \in [Parents -> Jobs]
        /\ owner \in [Slots -> Owners \cup {None}] /\ exists \subseteq Slots
        /\ mine \in [Parents -> Owners \cup {None}]
        /\ claim \in [Slots -> Parents \cup {None}]
        /\ \A p \in Parents : pc[p] \in {"remove", "claimRemove", "persist", "claimTransfer",
                                "transfer", "mark", "spawn", "unclaimSpawn", "unclaimDone",
                                "claimMark", "claimRollback", "rollback"} => at[p] \in Slots
    BY DEF TypeInv, ControlOK, JobsOK, RecordsOK, SlotsOK, AtSlot, Holding
  <2>q. \A p, q \in Parents : p # q /\ pc[p] \notin {"idle", "crashed"} => pc[q] \in {"idle", "crashed"}
    BY DEF OneAtATime, Busy
  <2>f. \A p \in Parents : pc[p] \in {"mark", "rollback"} => Matches(at[p], mine[p]) /\ ~owner[at[p]].started
    BY DEF FoundInv, Holding
  <2>x. \A p \in Parents : pc[p] \in {"claimMark", "claimRollback", "claimRetry"} => at[p] \in exists
    BY <2>t DEF FoundInv, Holding, Matches, SlotInv
  <2>a. \A p \in Parents : ~(at[p] > Limit) => at[p] \in Slots
    BY <2>t DEF Slots
  <2>j. \A p \in Parents : pc[p] \in {"spawn", "unclaimSpawn"} =>
          job[p].run \in Runs /\ status[job[p].run] = "absent"
    BY DEF TypeInv, JobsOK, JobInv, Charging, Holding
  <2>r. status \in [Runs -> {"absent", "running", "paused", "ended"}]
    BY DEF TypeInv, StatusOK
  <2>1. ASSUME NEW p \in Parents, NEW r \in Runs, BeginLaunch(p, r)
        PROVE  FreeInv'
    BY <2>t, <2>q, <2>1 DEF BeginLaunch
  <2>2. ASSUME NEW p \in Parents, NEW r \in Runs, NEW source \in Runs,
               BeginResume(p, r, source)
        PROVE  FreeInv'
    BY <2>t, <2>q, <2>2 DEF BeginResume
  <2>3. ASSUME NEW p \in Parents, BeginRefresh(p) PROVE FreeInv'
    BY <2>t, <2>q, <2>3 DEF BeginRefresh
  <2>4. ASSUME NEW p \in Parents, Scan(p) PROVE FreeInv'
    BY <2>t, <2>q, <2>4 DEF Scan, Releasable
  <2>5. ASSUME NEW p \in Parents, ClaimToRemove(p) PROVE FreeInv'
    BY <2>t, <2>q, <2>5 DEF ClaimToRemove, Claimable, Take
  <2>6. ASSUME NEW p \in Parents, RemoveSlot(p) PROVE FreeInv'
    BY <2>t, <2>q, <2>6 DEF RemoveSlot, Matches
  <2>7. ASSUME NEW p \in Parents, Admit(p) PROVE FreeInv'
    BY <2>t, <2>q, <2>7 DEF Admit
  <2>8. ASSUME NEW p \in Parents, CreateSlot(p) PROVE FreeInv'
    BY <2>t, <2>q, <2>8, <2>a DEF CreateSlot
  <2>9. ASSUME NEW p \in Parents, PersistOwner(p) PROVE FreeInv'
    BY <2>t, <2>q, <2>9 DEF PersistOwner
  <2>10. ASSUME NEW p \in Parents, FindSource(p) PROVE FreeInv'
    BY <2>t, <2>q, <2>10 DEF FindSource
  <2>11. ASSUME NEW p \in Parents, ClaimToTransfer(p) PROVE FreeInv'
    BY <2>t, <2>q, <2>11 DEF ClaimToTransfer, Claimable, Take
  <2>12. ASSUME NEW p \in Parents, Transfer(p) PROVE FreeInv'
    BY <2>t, <2>q, <2>12 DEF Transfer, Matches
  <2>13. ASSUME NEW p \in Parents, SpawnRunner(p) PROVE FreeInv'
    BY <2>t, <2>q, <2>13, <2>j, <2>r DEF SpawnRunner
  <2>14. ASSUME NEW p \in Parents, SpawnFails(p) PROVE FreeInv'
    BY <2>t, <2>q, <2>14, <2>j, <2>r DEF SpawnFails
  <2>15. ASSUME NEW p \in Parents, StartupUnsettled(p) PROVE FreeInv'
    BY <2>t, <2>q, <2>15 DEF StartupUnsettled
  <2>16. ASSUME NEW p \in Parents, ClaimToMark(p) PROVE FreeInv'
    BY <2>t, <2>q, <2>16, <2>x DEF ClaimToMark, Claimable, Take
  <2>17. ASSUME NEW p \in Parents, MarkStarted(p) PROVE FreeInv'
    BY <2>t, <2>q, <2>17 DEF MarkStarted, Matches
  <2>18. ASSUME NEW p \in Parents, ClaimToRollback(p) PROVE FreeInv'
    BY <2>t, <2>q, <2>18, <2>x DEF ClaimToRollback, Claimable, Take
  <2>19. ASSUME NEW p \in Parents, Rollback(p) PROVE FreeInv'
    BY <2>t, <2>q, <2>19, <2>f DEF Rollback, Matches
  <2>20. ASSUME NEW p \in Parents, Unclaim(p) PROVE FreeInv'
    BY <2>t, <2>q, <2>20 DEF Unclaim
  <2>21. ASSUME NEW p \in Parents, Crash(p) PROVE FreeInv'
    BY <2>t, <2>q, <2>21 DEF Crash
  <2>22. ASSUME NEW r \in Runs, RunEnds(r) PROVE FreeInv'
    BY <2>t, <2>q, <2>22, <2>r DEF RunEnds
  <2>23. ASSUME NEW r \in Runs, RunnerExits(r) PROVE FreeInv'
    BY <2>t, <2>q, <2>23 DEF RunnerExits
  <2>24. ASSUME NEW r \in Runs, DeclareFailed(r) PROVE FreeInv'
    BY <2>t, <2>q, <2>24, <2>r DEF DeclareFailed
  <2>25. ASSUME NEW r \in Runs, FinalizeProof(r) PROVE FreeInv'
    BY <2>t, <2>q, <2>25 DEF FinalizeProof
  <2>26. CASE UNCHANGED vars
    BY <2>t, <2>q, <2>26 DEF vars
  <2> QED
    BY <2>1, <2>2, <2>3, <2>4, <2>5, <2>6, <2>7, <2>8, <2>9, <2>10, <2>11,
       <2>12, <2>13, <2>14, <2>15, <2>16, <2>17, <2>18, <2>19, <2>20, <2>21,
       <2>22, <2>23, <2>24, <2>25, <2>26
       DEF Next, ParentStep, RunnerStep
<1> QED
  BY <1>1, <1>2

\* With it, every running run is charged.
LEMMA ChargedInductive ==
  ASSUME CapacityAssumption
  PROVE  /\ Init => RunningIsCharged
         /\ /\ TypeInv /\ JobInv /\ VerdictInv /\ HandleInv /\ SlotInv /\ ClaimInv
            /\ RunningIsCharged /\ [Next]_vars
            => RunningIsCharged'
<1>1. Init => RunningIsCharged
  BY DEF Init, RunningIsCharged
<1>2. ASSUME TypeInv, JobInv, VerdictInv, HandleInv, SlotInv, ClaimInv, RunningIsCharged, Next
      PROVE  RunningIsCharged'
  <2> SUFFICES ASSUME NEW r \in Runs, status'[r] = "running" PROVE Charged(r)'
    BY DEF RunningIsCharged
  <2>1. ASSUME NEW p \in Parents, SpawnRunner(p), job[p].run = r PROVE Charged(r)'
    <3>1. at[p] \in Slots /\ mine[p] # None /\ mine[p].run = r
      BY <1>2, <2>1, CapacityAssumption
         DEF TypeInv, ControlOK, RecordsOK, SpawnRunner, AtSlot, Holding, HandleInv, CapacityAssumption
    <3>2. owner[at[p]] # None /\ owner[at[p]].run = r
      BY <1>2, <2>1, <3>1 DEF ClaimInv, FoundInv, SpawnRunner, Holding, Matches
    <3> QED
      BY <2>1, <3>1, <3>2 DEF SpawnRunner, Charged, slotVars
  <2>2. CASE status[r] = "running"
    <3>1. PICK s \in Slots : owner[s] # None /\ owner[s].run = r
      BY <1>2, <2>2 DEF RunningIsCharged, Charged
    <3>2. ASSUME NEW p \in Parents, Rollback(p), job[p].run = r PROVE FALSE
      BY <1>2, <2>2, <3>2 DEF Rollback, ClaimInv, FreeInv
    <3>3. owner'[s] # None /\ owner'[s].run = r
      BY <1>2, <2>2, <3>1, <3>2, OwnerSteps, CapacityAssumption
    <3> QED
      BY <3>3 DEF Charged
  <2> QED
    BY <1>2, <2>1, <2>2, StatusSteps, CapacityAssumption
<1>3. ASSUME RunningIsCharged, UNCHANGED vars PROVE RunningIsCharged'
  BY <1>3 DEF RunningIsCharged, Charged, vars, parentVars, slotVars, runVars, desk
<1> QED
  BY <1>1, <1>2, <1>3

\* Slots that name every running run bound the number of running runs.
LEMMA LimitByCharge == ASSUME CapacityAssumption, RunningIsCharged PROVE ActiveWithinLimit
<1> DEFINE Running == {r \in Runs : status[r] = "running"}
           slotOf  == [r \in Running |-> CHOOSE s \in Slots : owner[s] # None /\ owner[s].run = r]
<1>1. \A r \in Running : slotOf[r] \in Slots /\ owner[slotOf[r]].run = r
  BY DEF RunningIsCharged, Charged
<1>2. slotOf \in [Running -> Slots]
  BY <1>1
<1>3. \A q, r \in Running : slotOf[q] = slotOf[r] => q = r
  BY <1>1
<1> HIDE DEF slotOf, Running
<1>4. slotOf \in Injection(Running, Slots)
  BY <1>2, <1>3, Fun_IsInj
<1>5. Limit \in Nat /\ Limit >= 1
  BY CapacityAssumption DEF CapacityAssumption
<1>6. IsFiniteSet(Slots) /\ Cardinality(Slots) = Limit
  BY <1>5, FS_Interval DEF Slots
<1>7. Cardinality(Running) <= Limit
  BY <1>4, <1>6, FS_Injection
<1> QED
  BY <1>7 DEF ActiveWithinLimit, Running

\* docs/configuration.md, "caps concurrently active top-level async runs":
\* where the operations of two processes do not overlap, every running run
\* owns a slot (acquire to release of a capacity handle), although processes
\* may crash and writes of markStarted may fail at any point.
THEOREM RunningKeepsSlot ==
  CapacityAssumption => (Spec /\ []OneAtATime => []RunningIsCharged)
<1> SUFFICES ASSUME CapacityAssumption PROVE Spec /\ []OneAtATime => []RunningIsCharged
  OBVIOUS
<1> QED
  BY AcceptedInvariant, FoundInvInductive, FreeInvInductive, ChargedInductive, PTL DEF Spec, ClaimInv

\* The cap itself, under the same condition: at most maxActiveAsyncRunsPerSession
\* runs are running, for every limit.
THEOREM CapKept ==
  CapacityAssumption => (Spec /\ []OneAtATime => []ActiveWithinLimit)
<1> SUFFICES ASSUME CapacityAssumption PROVE Spec /\ []OneAtATime => []ActiveWithinLimit
  OBVIOUS
<1> QED
  BY RunningKeepsSlot, LimitByCharge, PTL
=============================================================================
