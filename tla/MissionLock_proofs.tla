------------------------- MODULE MissionLock_proofs -------------------------
(***************************************************************************)
(* Proofs about the lock around mission updates: type correctness, and     *)
(* that the lock has one hole.  Whoever crashes, exits and reclaims, and   *)
(* whatever a verdict was based on, updates exclude each other, keep their *)
(* lock and keep the record, unless at some time a contender renames away  *)
(* the lock of another process than the one it judged (LateReclaim; the    *)
(* run LostUpdate shows that step).                                        *)
(***************************************************************************)
EXTENDS MissionLock, TLAPS

Holders    == {"read", "write", "check", "unlink"}
Reclaiming == {"judge", "probe", "move", "rejudge", "reprobe", "putBack", "drop", "dropRetry"}
Control    == Holders \cup Reclaiming \cup Over \cup {"claim", "wait", "rmdir", "exited", "dead"}

\* Type correctness: a directory holds one owner at most, and a process's
\* collisions stay within its tries.
THEOREM TypeCorrect == MissionLockAssumption => (Spec => []TypeOK)
<1> SUFFICES ASSUME MissionLockAssumption PROVE Spec => []TypeOK
  OBVIOUS
<1> USE MissionLockAssumption DEF MissionLockAssumption, TypeOK, Contents
<1>1. Init => TypeOK
  BY DEF Init
<1>2. TypeOK /\ [Next]_vars => TypeOK'
  <2> SUFFICES ASSUME TypeOK, [Next]_vars PROVE TypeOK'
    OBVIOUS
  <2> USE DEF Goto, OwnerIn
  <2>1. ASSUME NEW p \in Processes, Claim(p) PROVE TypeOK'
    BY <2>1 DEF Claim
  <2>2. ASSUME NEW p \in Processes, Judge(p) PROVE TypeOK'
    BY <2>2 DEF Judge
  <2>3. ASSUME NEW p \in Processes, Probe(p) PROVE TypeOK'
    BY <2>3 DEF Probe
  <2>4. ASSUME NEW p \in Processes, Move(p) PROVE TypeOK'
    BY <2>4 DEF Move
  <2>5. ASSUME NEW p \in Processes, Rejudge(p) PROVE TypeOK'
    BY <2>5 DEF Rejudge
  <2>6. ASSUME NEW p \in Processes, Reprobe(p) PROVE TypeOK'
    BY <2>6 DEF Reprobe
  <2>7. ASSUME NEW p \in Processes, PutBack(p) PROVE TypeOK'
    BY <2>7 DEF PutBack
  <2>8. ASSUME NEW p \in Processes, Drop(p) PROVE TypeOK'
    BY <2>8 DEF Drop
  <2>9. ASSUME NEW p \in Processes, Wait(p) PROVE TypeOK'
    BY <2>9 DEF Wait
  <2>10. ASSUME NEW p \in Processes, ReadMission(p) PROVE TypeOK'
    BY <2>10 DEF ReadMission
  <2>11. ASSUME NEW p \in Processes, WriteMission(p) PROVE TypeOK'
    BY <2>11 DEF WriteMission
  <2>12. ASSUME NEW p \in Processes, CheckOwner(p) PROVE TypeOK'
    BY <2>12 DEF CheckOwner
  <2>13. ASSUME NEW p \in Processes, UnlinkOwner(p) PROVE TypeOK'
    BY <2>13 DEF UnlinkOwner
  <2>14. ASSUME NEW p \in Processes, RemoveDirectory(p) PROVE TypeOK'
    BY <2>14 DEF RemoveDirectory
  <2>15. ASSUME NEW p \in Processes, Exit(p) PROVE TypeOK'
    BY <2>15 DEF Exit
  <2>16. ASSUME NEW p \in Processes, Crash(p) PROVE TypeOK'
    BY <2>16 DEF Crash
  <2>17. CASE UNCHANGED vars
    BY <2>17 DEF vars
  <2> QED
    BY <2>1, <2>2, <2>3, <2>4, <2>5, <2>6, <2>7, <2>8, <2>9,
       <2>10, <2>11, <2>12, <2>13, <2>14, <2>15, <2>16, <2>17 DEF Next, Step, OtherStep
<1> QED
  BY <1>1, <1>2, PTL DEF Spec

-----------------------------------------------------------------------------
(* What holds until a lock is renamed that nobody judged.                   *)

\* A process that holds the lock finds it in place.
HolderInv == \A p \in Processes : pc[p] \in Holders => lock = p

\* An owner whose lock is about to be renamed away was found gone, and a
\* process that is gone does not come back.
JudgedGone ==
  \A p \in Processes : pc[p] = "move" /\ seen[p] \in Processes => Gone(seen[p])

\* What a process is about to merge into is still the record.
CopyInv == \A p \in Processes : pc[p] = "write" => copy[p] = record

\* JudgedGone holds at first and is kept by every step.
LEMMA JudgedGoneInductive ==
  ASSUME MissionLockAssumption
  PROVE  /\ Init => JudgedGone
         /\ TypeOK /\ JudgedGone /\ [Next]_vars => JudgedGone'
<1> USE MissionLockAssumption DEF MissionLockAssumption, JudgedGone, Gone
<1>1. Init => JudgedGone
  BY DEF Init
<1>2. TypeOK /\ JudgedGone /\ [Next]_vars => JudgedGone'
  <2> SUFFICES ASSUME TypeOK, JudgedGone, [Next]_vars PROVE JudgedGone'
    OBVIOUS
  <2>t. pc \in [Processes -> Control] /\ seen \in [Processes -> Processes \cup {NoProcess}]
    BY DEF TypeOK, Control, Holders, Reclaiming, Over
  <2> USE <2>t DEF Goto
  <2>1. ASSUME NEW p \in Processes, Claim(p) PROVE JudgedGone'
    BY <2>1 DEF Claim
  <2>2. ASSUME NEW p \in Processes, Judge(p) PROVE JudgedGone'
    BY <2>2 DEF Judge
  <2>3. ASSUME NEW p \in Processes, Probe(p) PROVE JudgedGone'
    <3>1. pc[p] = "probe" /\ UNCHANGED seen
      BY <2>3 DEF Probe
    <3>2. \/ pc' = [pc EXCEPT ![p] = "move"] /\ TRUE \in Verdicts(seen[p], lock)
          \/ pc' = [pc EXCEPT ![p] = "wait"]
      BY <2>3 DEF Probe, Verdicts
    <3>3. seen[p] \in Processes => Verdicts(seen[p], lock) = {Gone(seen[p])}
      BY Zenon DEF Verdicts
    <3>4. seen[p] \in Processes /\ TRUE \in Verdicts(seen[p], lock) => Gone(seen[p])
      BY <3>3
    <3> QED
      BY <3>1, <3>2, <3>4
  <2>4. ASSUME NEW p \in Processes, Move(p) PROVE JudgedGone'
    BY <2>4 DEF Move
  <2>5. ASSUME NEW p \in Processes, Rejudge(p) PROVE JudgedGone'
    BY <2>5 DEF Rejudge
  <2>6. ASSUME NEW p \in Processes, Reprobe(p) PROVE JudgedGone'
    BY <2>6 DEF Reprobe
  <2>7. ASSUME NEW p \in Processes, PutBack(p) PROVE JudgedGone'
    BY <2>7 DEF PutBack
  <2>8. ASSUME NEW p \in Processes, Drop(p) PROVE JudgedGone'
    BY <2>8 DEF Drop
  <2>9. ASSUME NEW p \in Processes, Wait(p) PROVE JudgedGone'
    BY <2>9 DEF Wait
  <2>10. ASSUME NEW p \in Processes, ReadMission(p) PROVE JudgedGone'
    BY <2>10 DEF ReadMission
  <2>11. ASSUME NEW p \in Processes, WriteMission(p) PROVE JudgedGone'
    BY <2>11 DEF WriteMission
  <2>12. ASSUME NEW p \in Processes, CheckOwner(p) PROVE JudgedGone'
    BY <2>12 DEF CheckOwner
  <2>13. ASSUME NEW p \in Processes, UnlinkOwner(p) PROVE JudgedGone'
    BY <2>13 DEF UnlinkOwner
  <2>14. ASSUME NEW p \in Processes, RemoveDirectory(p) PROVE JudgedGone'
    BY <2>14 DEF RemoveDirectory
  <2>15. ASSUME NEW p \in Processes, Exit(p) PROVE JudgedGone'
    BY <2>15 DEF Exit, Over
  <2>16. ASSUME NEW p \in Processes, Crash(p) PROVE JudgedGone'
    BY <2>16 DEF Crash
  <2>17. CASE UNCHANGED vars
    BY <2>17 DEF vars
  <2> QED
    BY <2>1, <2>2, <2>3, <2>4, <2>5, <2>6, <2>7, <2>8, <2>9,
       <2>10, <2>11, <2>12, <2>13, <2>14, <2>15, <2>16, <2>17 DEF Next, Step, OtherStep
<1> QED
  BY <1>1, <1>2

\* HolderInv holds at first, and only a late reclaim breaks it.
LEMMA HolderInvInductive ==
  ASSUME MissionLockAssumption
  PROVE  /\ Init => HolderInv
         /\ TypeOK /\ JudgedGone /\ HolderInv /\ [Next]_vars /\ [~LateReclaim]_vars => HolderInv'
<1> USE MissionLockAssumption DEF MissionLockAssumption, HolderInv, Holders
<1>1. Init => HolderInv
  BY DEF Init
<1>2. TypeOK /\ JudgedGone /\ HolderInv /\ [Next]_vars /\ [~LateReclaim]_vars => HolderInv'
  <2> SUFFICES ASSUME TypeOK, JudgedGone, HolderInv, [Next]_vars, [~LateReclaim]_vars PROVE HolderInv'
    OBVIOUS
  <2>t. pc \in [Processes -> Control] /\ copy \in [Processes -> SUBSET Processes]
    BY DEF TypeOK, Control, Holders, Reclaiming, Over
  <2> USE <2>t DEF Goto
  <2>1. ASSUME NEW p \in Processes, Claim(p) PROVE HolderInv'
    BY <2>1 DEF Claim
  <2>2. ASSUME NEW p \in Processes, Judge(p) PROVE HolderInv'
    BY <2>2 DEF Judge
  <2>3. ASSUME NEW p \in Processes, Probe(p) PROVE HolderInv'
    BY <2>3 DEF Probe
  <2>4. ASSUME NEW p \in Processes, Move(p) PROVE HolderInv'
    <3>1. \A q \in Processes : lock = q => Gone(q)
      <4>1. ~LateReclaim => lock \notin Processes \/ lock = seen[p]
        BY <2>4 DEF LateReclaim
      <4>2. LateReclaim => FALSE
        <5>1. pc' # pc
          BY <2>4 DEF Move
        <5> QED
          BY <5>1 DEF vars
      <4> QED
        BY <2>4, <4>1, <4>2 DEF Move, JudgedGone
    <3> QED
      BY <2>4, <3>1 DEF Move, Gone
  <2>5. ASSUME NEW p \in Processes, Rejudge(p) PROVE HolderInv'
    BY <2>5 DEF Rejudge
  <2>6. ASSUME NEW p \in Processes, Reprobe(p) PROVE HolderInv'
    BY <2>6 DEF Reprobe
  <2>7. ASSUME NEW p \in Processes, PutBack(p) PROVE HolderInv'
    BY <2>7 DEF PutBack
  <2>8. ASSUME NEW p \in Processes, Drop(p) PROVE HolderInv'
    BY <2>8 DEF Drop
  <2>9. ASSUME NEW p \in Processes, Wait(p) PROVE HolderInv'
    BY <2>9 DEF Wait
  <2>10. ASSUME NEW p \in Processes, ReadMission(p) PROVE HolderInv'
    BY <2>10 DEF ReadMission
  <2>11. ASSUME NEW p \in Processes, WriteMission(p) PROVE HolderInv'
    BY <2>11 DEF WriteMission
  <2>12. ASSUME NEW p \in Processes, CheckOwner(p) PROVE HolderInv'
    BY <2>12 DEF CheckOwner
  <2>13. ASSUME NEW p \in Processes, UnlinkOwner(p) PROVE HolderInv'
    BY <2>13 DEF UnlinkOwner
  <2>14. ASSUME NEW p \in Processes, RemoveDirectory(p) PROVE HolderInv'
    BY <2>14 DEF RemoveDirectory
  <2>15. ASSUME NEW p \in Processes, Exit(p) PROVE HolderInv'
    BY <2>15 DEF Exit, Over
  <2>16. ASSUME NEW p \in Processes, Crash(p) PROVE HolderInv'
    BY <2>16 DEF Crash
  <2>17. CASE UNCHANGED vars
    BY <2>17 DEF vars
  <2> QED
    BY <2>1, <2>2, <2>3, <2>4, <2>5, <2>6, <2>7, <2>8, <2>9,
       <2>10, <2>11, <2>12, <2>13, <2>14, <2>15, <2>16, <2>17 DEF Next, Step, OtherStep
<1> QED
  BY <1>1, <1>2

\* Only the holder writes, so what it read stays the record.
LEMMA CopyInvInductive ==
  ASSUME MissionLockAssumption
  PROVE  /\ Init => CopyInv
         /\ TypeOK /\ HolderInv /\ CopyInv /\ [Next]_vars => CopyInv'
<1> USE MissionLockAssumption DEF MissionLockAssumption, CopyInv
<1>1. Init => CopyInv
  BY DEF Init
<1>2. TypeOK /\ HolderInv /\ CopyInv /\ [Next]_vars => CopyInv'
  <2> SUFFICES ASSUME TypeOK, HolderInv, CopyInv, [Next]_vars PROVE CopyInv'
    OBVIOUS
  <2>t. pc \in [Processes -> Control] /\ copy \in [Processes -> SUBSET Processes]
    BY DEF TypeOK, Control, Holders, Reclaiming, Over
  <2> USE <2>t DEF Goto
  <2>h. \A p, q \in Processes : pc[p] = "write" /\ pc[q] = "write" => p = q
    BY DEF HolderInv, Holders
  <2>1. ASSUME NEW p \in Processes, Claim(p) PROVE CopyInv'
    BY <2>1 DEF Claim
  <2>2. ASSUME NEW p \in Processes, Judge(p) PROVE CopyInv'
    BY <2>2 DEF Judge
  <2>3. ASSUME NEW p \in Processes, Probe(p) PROVE CopyInv'
    BY <2>3 DEF Probe
  <2>4. ASSUME NEW p \in Processes, Move(p) PROVE CopyInv'
    BY <2>4 DEF Move
  <2>5. ASSUME NEW p \in Processes, Rejudge(p) PROVE CopyInv'
    BY <2>5 DEF Rejudge
  <2>6. ASSUME NEW p \in Processes, Reprobe(p) PROVE CopyInv'
    BY <2>6 DEF Reprobe
  <2>7. ASSUME NEW p \in Processes, PutBack(p) PROVE CopyInv'
    BY <2>7 DEF PutBack
  <2>8. ASSUME NEW p \in Processes, Drop(p) PROVE CopyInv'
    BY <2>8 DEF Drop
  <2>9. ASSUME NEW p \in Processes, Wait(p) PROVE CopyInv'
    BY <2>9 DEF Wait
  <2>10. ASSUME NEW p \in Processes, ReadMission(p) PROVE CopyInv'
    BY <2>10 DEF ReadMission
  <2>11. ASSUME NEW p \in Processes, WriteMission(p) PROVE CopyInv'
    BY <2>11, <2>h DEF WriteMission
  <2>12. ASSUME NEW p \in Processes, CheckOwner(p) PROVE CopyInv'
    BY <2>12 DEF CheckOwner
  <2>13. ASSUME NEW p \in Processes, UnlinkOwner(p) PROVE CopyInv'
    BY <2>13 DEF UnlinkOwner
  <2>14. ASSUME NEW p \in Processes, RemoveDirectory(p) PROVE CopyInv'
    BY <2>14 DEF RemoveDirectory
  <2>15. ASSUME NEW p \in Processes, Exit(p) PROVE CopyInv'
    BY <2>15 DEF Exit, Over
  <2>16. ASSUME NEW p \in Processes, Crash(p) PROVE CopyInv'
    BY <2>16 DEF Crash
  <2>17. CASE UNCHANGED vars
    BY <2>17 DEF vars
  <2> QED
    BY <2>1, <2>2, <2>3, <2>4, <2>5, <2>6, <2>7, <2>8, <2>9,
       <2>10, <2>11, <2>12, <2>13, <2>14, <2>15, <2>16, <2>17 DEF Next, Step, OtherStep
<1> QED
  BY <1>1, <1>2

\* README.md, "Cross-process locking around mission record updates": whoever
\* crashes, exits and reclaims, two live updates are never both between the read
\* and the write of the record (withMissionRecordLock), unless some contender
\* renames another lock than the one it judged (reclaimStaleMissionLock).
THEOREM UpdatesExclude ==
  MissionLockAssumption => (Spec => []MutualExclusion \/ <><<LateReclaim>>_vars)
<1> SUFFICES ASSUME MissionLockAssumption PROVE Spec => []MutualExclusion \/ <><<LateReclaim>>_vars
  OBVIOUS
<1>1. HolderInv => MutualExclusion
  BY DEF HolderInv, MutualExclusion, Holders
<1> QED
  BY TypeCorrect, JudgedGoneInductive, HolderInvInductive, <1>1, PTL DEF Spec

\* Unless that happens, the lock of an update under way is never dropped by
\* those that reclaim what others left behind.
THEOREM HoldersKeepTheirLock ==
  MissionLockAssumption => (Spec => []LiveLockIsKept \/ <><<LateReclaim>>_vars)
<1> SUFFICES ASSUME MissionLockAssumption PROVE Spec => []LiveLockIsKept \/ <><<LateReclaim>>_vars
  OBVIOUS
<1>1. HolderInv => LiveLockIsKept
  BY DEF HolderInv, LiveLockIsKept, Holders
<1> QED
  BY TypeCorrect, JudgedGoneInductive, HolderInvInductive, <1>1, PTL DEF Spec

\* Unless that happens, no update that was written is lost
\* (updateMissionUnlocked writes the whole record it read).
THEOREM UpdatesAreKept ==
  MissionLockAssumption => (Spec => NoUpdateIsLost \/ <><<LateReclaim>>_vars)
<1> SUFFICES ASSUME MissionLockAssumption PROVE Spec => NoUpdateIsLost \/ <><<LateReclaim>>_vars
  OBVIOUS
<1>1. CopyInv /\ [Next]_vars => [record \subseteq record']_vars
  <2> SUFFICES ASSUME CopyInv, Next PROVE record \subseteq record'
    OBVIOUS
  <2>1. ASSUME NEW p \in Processes, WriteMission(p) PROVE record \subseteq record'
    BY <2>1 DEF WriteMission, CopyInv
  <2> QED
    BY <2>1 DEF Next, Step, OtherStep, Claim, Judge, Probe, Move, Rejudge, Reprobe, PutBack,
                Drop, Wait, ReadMission, CheckOwner, UnlinkOwner, RemoveDirectory, Exit, Crash
<1> QED
  BY TypeCorrect, JudgedGoneInductive, HolderInvInductive, CopyInvInductive, <1>1, PTL
     DEF Spec, NoUpdateIsLost

-----------------------------------------------------------------------------
(* The lock that is meant, SessionLock.                                     *)

InUpdate(p) == pc[p] \in {"read", "write"}

\* A step is the claim of a free lock, the end of its holder's update (its write
\* or its death), or nothing to the lock that is meant.
LEMMA StepOfLock ==
  ASSUME MissionLockAssumption, TypeOK, HolderInv, [Next]_vars
  PROVE  [Lock!Next]_{p \in Processes : InUpdate(p)}
<1> DEFINE holds == {p \in Processes : InUpdate(p)}
<1> USE DEF InUpdate, Goto
<1>t. pc \in [Processes -> Control]
  BY DEF TypeOK, Control, Holders, Reclaiming, Over
<1>h. \A p \in Processes : InUpdate(p) => lock = p
  BY DEF HolderInv, Holders
<1>1. ASSUME NEW p \in Processes, Claim(p), lock \notin Processes
      PROVE  Lock!Acquire(p)
  <2>1. holds = {}
    BY <1>1, <1>h
  <2>2. holds' = {p}
    BY <1>1, <1>h, <1>t DEF Claim
  <2> QED
    BY <2>1, <2>2 DEF Lock!Acquire
<1>2. ASSUME NEW p \in Processes, InUpdate(p), WriteMission(p) \/ Crash(p)
      PROVE  Lock!GiveUp(p)
  <2>1. holds = {p}
    BY <1>2, <1>h
  <2>2. holds' = {}
    BY <1>2, <1>h, <1>t DEF WriteMission, Crash
  <2> QED
    BY <2>1, <2>2 DEF Lock!GiveUp
<1>3. ASSUME NEW p \in Processes,
             \/ Judge(p) \/ Probe(p) \/ Move(p) \/ Rejudge(p) \/ Reprobe(p) \/ PutBack(p)
             \/ Drop(p) \/ Wait(p) \/ ReadMission(p) \/ CheckOwner(p) \/ UnlinkOwner(p)
             \/ RemoveDirectory(p) \/ Exit(p)
             \/ Claim(p) /\ lock \in Processes
             \/ Crash(p) /\ ~InUpdate(p)
      PROVE  holds' = holds
  <2>1. \A q \in Processes : InUpdate(q)' = InUpdate(q)
    BY <1>3, <1>t DEF Judge, Probe, Move, Rejudge, Reprobe, PutBack, Drop, Wait, ReadMission,
                      CheckOwner, UnlinkOwner, RemoveDirectory, Exit, Over, Claim, Crash
  <2> QED
    BY <2>1
<1>4. CASE UNCHANGED vars
  <2>1. holds' = holds
    BY <1>4 DEF vars
  <2> QED
    BY <2>1
<1>5. ASSUME NEW p \in Processes, WriteMission(p) PROVE InUpdate(p)
  BY <1>5 DEF WriteMission
<1> QED
  BY <1>1, <1>2, <1>3, <1>4, <1>5 DEF Next, Step, OtherStep, Lock!Next

\* Unless a late reclaim happens, the lock directory is the lock that is meant:
\* one update acquires it while none has it, and only its own end gives it up.
THEOREM ImplementsLock ==
  MissionLockAssumption => (Spec => Lock!Spec \/ <><<LateReclaim>>_vars)
<1> SUFFICES ASSUME MissionLockAssumption PROVE Spec => Lock!Spec \/ <><<LateReclaim>>_vars
  OBVIOUS
<1>1. Init => Lock!Init
  BY DEF Init, Lock!Init
<1>2. TypeOK /\ HolderInv /\ [Next]_vars
        => [Lock!Next]_{p \in Processes : pc[p] \in {"read", "write"}}
  BY StepOfLock DEF InUpdate
<1> QED
  BY TypeCorrect, JudgedGoneInductive, HolderInvInductive, <1>1, <1>2, PTL DEF Spec, Lock!Spec
=============================================================================
