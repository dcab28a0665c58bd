------------------------ MODULE ResultDelivery_proofs ------------------------
(***************************************************************************)
(* Proofs about the delivery of results: type correctness; that the end of *)
(* a run a status shows was told or has a result on disk; that a result is *)
(* deleted only after its session was told; that one runtime does not tell *)
(* a session of a run again before it forgets it did; and that, with all   *)
(* of this, the delivery implements Delivery.                              *)
(***************************************************************************)
EXTENDS ResultDelivery, FiniteSetTheorems, TLAPS

-----------------------------------------------------------------------------
(* Type correctness, one group of variables after the other.               *)

\* A file holds one content or is not there.
Contents == {c \in SUBSET Payload : \A x, y \in c : x = y}

Labels   == {"working", "winding", "gone", "snapPending", "snapIndex", "snapStatus",
             "resultPending", "resultIndex", "resultPromote", "resultStatus",
             "lastPending", "lastIndex", "lastStatus"}
TaskAt   == {"idle", "deliver", "held", "mark", "markIndex", "markPromote",
             "unlink", "unindex", "unpend"}
RepairAt == {"idle", "probe", "probeGone", "repairPending", "repairIndex",
             "repairPromote", "repairStatus"}

\* A runner has an outcome from when it files its first result.
RunnerOK ==
  /\ rc \in [Runs -> Labels]
  /\ outcome \in [Runs -> Outcomes \cup {"open"}]
  /\ \A r \in Runs : rc[r] \notin {"working", "gone"} => outcome[r] \in Outcomes
  /\ committed \subseteq Runs /\ children \subseteq Runs
FilesOK ==
  pending \in [Runs -> Contents] /\ public \in [Runs -> Contents] /\ index \subseteq Runs
StatusOK == status \in [Runs -> Outcomes \cup {"running"}]
JobsOK   == phase \in {"down", "restoring", "up"} /\ todo \subseteq Runs /\ tracked \subseteq Runs
WatchOK  == event \subseteq Runs /\ queue \subseteq Runs
TaskOK   == task \in [Runs -> TaskAt] /\ data \in [Runs -> SUBSET Payload]
RecOK    == rec \in [Runs -> RepairAt]
ToldOK   ==
  /\ seen \subseteq Runs /\ done \subseteq Runs
  /\ told \in [Runs -> SUBSET Outcomes] /\ count \in [Runs -> 0..2]
TroubleOK == trouble \in 0..MaxTrouble

TypeInv == RunnerOK /\ FilesOK /\ StatusOK /\ JobsOK /\ WatchOK /\ TaskOK /\ RecOK
           /\ ToldOK /\ TroubleOK

\* The next label of a runner that files something.
LEMMA ThenFacts ==
  /\ DOMAIN Then = Labels \ {"working", "winding", "gone"}
  /\ \A l \in DOMAIN Then : Then[l] \in Labels \ {"working"}
  BY DEF Then, Labels

\* Each content is found in a file that was there, and each file that was there
\* is found after a promotion.
LEMMA PromoteFacts ==
  ASSUME FilesOK, NEW r \in Runs, Promote(r)
  PROVE  /\ pending' \in [Runs -> Contents] /\ public' \in [Runs -> Contents]
         /\ event' \subseteq event \cup {r}
         /\ UNCHANGED trouble \/ SomethingFails
         /\ \A q \in Runs : Filed(q)' \subseteq Filed(q) /\ (Filed(q) # {} => Filed(q)' # {})
         /\ FoundAfter(r) \subseteq Filed(r) /\ (Filed(r) # {} => FoundAfter(r) # {})
<1> USE DEF FilesOK, Filed, FoundAfter
<1>1. CASE UNCHANGED <<pending, public, event>>
  BY <1>1 DEF Promote, Rename
<1>2. CASE Rename(r) /\ pending[r] # {}
  <2>1. /\ public' = [public EXCEPT ![r] = pending[r]]
        /\ pending' = [pending EXCEPT ![r] = {}]
    BY <1>2 DEF Rename
  <2>2. event' \subseteq event \cup {r} /\ UNCHANGED trouble
    BY <1>2 DEF Rename
  <2>3. pending' \in [Runs -> Contents] /\ public' \in [Runs -> Contents]
    <3>1. {} \in Contents
      BY DEF Contents
    <3> QED
      BY <2>1, <3>1
  <2>4. /\ Filed(r)' = pending[r] /\ FoundAfter(r) = pending[r]
        /\ \A q \in Runs \ {r} : Filed(q)' = Filed(q)
    BY <2>1
  <2> QED
    BY <1>2, <2>2, <2>3, <2>4
<1> QED
  BY <1>1, <1>2 DEF Promote

\* What a content is, and an outcome read.
LEMMA FileFacts ==
  ASSUME FilesOK, NEW r \in Runs, NEW o \in Outcomes, NEW marked \in BOOLEAN,
         File(r, o, marked), UNCHANGED public
  PROVE  /\ pending' \in [Runs -> Contents]
         /\ Filed(r)' # {}
         /\ \A q \in Runs \ {r} : Filed(q)' = Filed(q)
         /\ marked = FALSE => \A p \in Filed(r)' : p \in Filed(r) \/ ~p.marked
<1> DEFINE new == [outcome |-> o, marked |-> marked]
<1>1. new \in Payload /\ new.marked = marked
  BY DEF Payload
<1>2. pending' = [pending EXCEPT ![r] = {new}]
  BY DEF File
<1> HIDE DEF new
<1>3. {new} \in Contents
  BY <1>1 DEF Contents
<1>4. pending'[r] = {new} /\ public'[r] = public[r]
  BY <1>2 DEF FilesOK
<1>5. \A q \in Runs \ {r} : Filed(q)' = Filed(q)
  BY <1>2 DEF Filed, FilesOK
<1>6. Filed(r)' = {new} \cup public[r]
  BY <1>4 DEF Filed
<1>7. pending' \in [Runs -> Contents]
  BY <1>2, <1>3 DEF FilesOK
<1> QED
  BY <1>1, <1>5, <1>6, <1>7 DEF Filed

\* RunnerOK holds in every initial state and is kept by every step.
LEMMA RunnerOKInductive ==
  ASSUME DeliveryAssumption
  PROVE  /\ Init => RunnerOK
         /\ RunnerOK /\ [Next]_vars => RunnerOK'
<1> USE DeliveryAssumption DEF DeliveryAssumption, RunnerOK, Labels
<1>1. Init => RunnerOK
  BY DEF Init, Outcomes
<1>2. RunnerOK /\ [Next]_vars => RunnerOK'
  <2> SUFFICES ASSUME RunnerOK, [Next]_vars PROVE RunnerOK'
    OBVIOUS
  <2> USE DEF runnerVars, fileVars, jobVars, toldVars
  <2>d. \A r \in Runs :
          rc[r] \in {"snapPending", "snapIndex", "snapStatus", "resultPending", "resultIndex",
                    "resultPromote", "resultStatus", "lastPending", "lastIndex", "lastStatus"}
          => Then[rc[r]] \in Labels \ {"working"}
    BY ThenFacts DEF Labels
  <2> USE DEF RunnerGoto
  <2>1. ASSUME NEW r \in Runs, NEW o \in Outcomes, EndEarly(r, o) PROVE RunnerOK'
    BY <2>1 DEF EndEarly
  <2>2. ASSUME NEW r \in Runs, NEW o \in Outcomes, FinishRun(r, o) PROVE RunnerOK'
    BY <2>2 DEF FinishRun
  <2>3. ASSUME NEW r \in Runs, WritePending(r) PROVE RunnerOK'
    BY <2>3, <2>d DEF WritePending
  <2>4. ASSUME NEW r \in Runs, WriteIndex(r) PROVE RunnerOK'
    BY <2>4, <2>d DEF WriteIndex
  <2>5. ASSUME NEW r \in Runs, PromoteResult(r) PROVE RunnerOK'
    BY <2>5, <2>d DEF PromoteResult
  <2>6. ASSUME NEW r \in Runs, WriteStatus(r) PROVE RunnerOK'
    BY <2>6, <2>d DEF WriteStatus
  <2>7. ASSUME NEW r \in Runs, FinalWriteFails(r) PROVE RunnerOK'
    BY <2>7 DEF FinalWriteFails, Outcomes
  <2>8. ASSUME NEW r \in Runs, Die(r) PROVE RunnerOK'
    BY <2>8 DEF Die
  <2>9. ASSUME Stop PROVE RunnerOK'
    BY <2>9 DEF Stop
  <2>10. ASSUME NEW r \in Runs,
              \/ WatchEvent(r) \/ Scan(r) \/ IgnoreResult(r) \/ ReadResult(r)
              \/ Acknowledge(r) \/ Hold(r) \/ SendNow(r) \/ MarkPending(r)
              \/ MarkIndex(r) \/ MarkPromote(r) \/ MarkFails(r) \/ Unlink(r)
              \/ UnlinkFails(r) \/ Unindex(r) \/ Unpend(r) \/ Forget(r)
              \/ StatusFromResult(r) \/ LookForResult(r) \/ NothingToReconcile(r)
              \/ ProbeAlive(r) \/ ProbeDead(r) \/ RepairPending(r)
              \/ RepairIndex(r) \/ RepairPromote(r) \/ RepairStatus(r)
              \/ RepairFails(r) \/ Untrack(r)
        PROVE  UNCHANGED <<rc, outcome, committed, children>>
    BY <2>10 DEF WatchEvent, Scan, IgnoreResult, ReadResult, Acknowledge, Hold,
         SendNow, MarkPending, MarkIndex, MarkPromote, MarkFails, Unlink, UnlinkFails,
         Unindex, Unpend, Forget, StatusFromResult, LookForResult, NothingToReconcile,
         ProbeAlive, ProbeDead, RepairPending, RepairIndex, RepairPromote,
         RepairStatus, RepairFails, Untrack, Send, Accept, Refuse, Promote, Rename,
         File
  <2>11. ASSUME \/ EmitBatch \/ Start \/ StartWatcher
        PROVE  UNCHANGED <<rc, outcome, committed, children>>
    BY <2>11 DEF EmitBatch, Start, StartWatcher, Send, Accept, Refuse
  <2>12. CASE UNCHANGED <<rc, outcome, committed, children>>
    BY <2>12
  <2> QED
    BY <2>1, <2>2, <2>3, <2>4, <2>5, <2>6, <2>7, <2>8, <2>9, <2>10, <2>11, <2>12 DEF
       Next, RunnerStep, TaskStep, ReconcileStart, ReconcileStep, vars, runnerVars,
       fileVars, jobVars, toldVars
<1> QED
  BY <1>1, <1>2

\* WatchOK holds in every initial state and is kept by every step.
LEMMA WatchOKInductive ==
  /\ Init => WatchOK
  /\ FilesOK /\ WatchOK /\ [Next]_vars => WatchOK'
<1> USE  DEF WatchOK
<1>1. Init => WatchOK
  BY DEF Init
<1>2. FilesOK /\ WatchOK /\ [Next]_vars => WatchOK'
  <2> SUFFICES ASSUME FilesOK, WatchOK, [Next]_vars PROVE WatchOK'
    OBVIOUS
  <2> USE DEF runnerVars, fileVars, jobVars, toldVars
  <2>1. ASSUME NEW r \in Runs, PromoteResult(r) PROVE WatchOK'
    <3>1. event' \subseteq event \cup {r}
      BY <2>1, PromoteFacts DEF PromoteResult
    <3> QED
      BY <2>1, <3>1 DEF PromoteResult
  <2>2. ASSUME NEW r \in Runs, WatchEvent(r) PROVE WatchOK'
    BY <2>2 DEF WatchEvent
  <2>3. ASSUME NEW r \in Runs, Scan(r) PROVE WatchOK'
    <3>1. event' \subseteq event \cup {r}
      BY <2>3, PromoteFacts DEF Scan
    <3> QED
      BY <2>3, <3>1 DEF Scan
  <2>4. ASSUME NEW r \in Runs, IgnoreResult(r) PROVE WatchOK'
    BY <2>4 DEF IgnoreResult
  <2>5. ASSUME NEW r \in Runs, ReadResult(r) PROVE WatchOK'
    <3>1. event' \subseteq event \cup {r}
      BY <2>5, PromoteFacts DEF ReadResult
    <3> QED
      BY <2>5, <3>1 DEF ReadResult
  <2>6. ASSUME NEW r \in Runs, SendNow(r) PROVE WatchOK'
    BY <2>6 DEF SendNow, Send, Accept, Refuse
  <2>7. ASSUME NEW r \in Runs, MarkPromote(r) PROVE WatchOK'
    <3>1. event' \subseteq event \cup {r}
      BY <2>7, PromoteFacts DEF MarkPromote
    <3> QED
      BY <2>7, <3>1 DEF MarkPromote
  <2>8. ASSUME NEW r \in Runs, MarkFails(r) PROVE WatchOK'
    BY <2>8 DEF MarkFails
  <2>9. ASSUME NEW r \in Runs, UnlinkFails(r) PROVE WatchOK'
    BY <2>9 DEF UnlinkFails
  <2>10. ASSUME NEW r \in Runs, StatusFromResult(r) PROVE WatchOK'
    <3>1. event' \subseteq event \cup {r}
      BY <2>10, PromoteFacts DEF StatusFromResult
    <3> QED
      BY <2>10, <3>1 DEF StatusFromResult
  <2>11. ASSUME NEW r \in Runs, RepairPromote(r) PROVE WatchOK'
    <3>1. event' \subseteq event \cup {r}
      BY <2>11, PromoteFacts DEF RepairPromote
    <3> QED
      BY <2>11, <3>1 DEF RepairPromote
  <2>12. ASSUME EmitBatch PROVE WatchOK'
    BY <2>12 DEF EmitBatch, Send, Accept, Refuse, Held
  <2>13. ASSUME Stop PROVE WatchOK'
    BY <2>13 DEF Stop
  <2>14. ASSUME NEW r \in Runs, NEW o \in Outcomes,
              \/ EndEarly(r, o) \/ FinishRun(r, o)
        PROVE  UNCHANGED <<event, queue>>
    BY <2>14 DEF EndEarly, FinishRun
  <2>15. ASSUME NEW r \in Runs,
              \/ WritePending(r) \/ WriteIndex(r) \/ WriteStatus(r)
              \/ FinalWriteFails(r) \/ Die(r) \/ Acknowledge(r) \/ Hold(r)
              \/ MarkPending(r) \/ MarkIndex(r) \/ Unlink(r) \/ Unindex(r)
              \/ Unpend(r) \/ Forget(r) \/ LookForResult(r)
              \/ NothingToReconcile(r) \/ ProbeAlive(r) \/ ProbeDead(r)
              \/ RepairPending(r) \/ RepairIndex(r) \/ RepairStatus(r)
              \/ RepairFails(r) \/ Untrack(r)
        PROVE  UNCHANGED <<event, queue>>
    BY <2>15 DEF WritePending, WriteIndex, WriteStatus, FinalWriteFails, Die,
         Acknowledge, Hold, MarkPending, MarkIndex, Unlink, Unindex, Unpend, Forget,
         LookForResult, NothingToReconcile, ProbeAlive, ProbeDead, RepairPending,
         RepairIndex, RepairStatus, RepairFails, Untrack, File
  <2>16. ASSUME \/ Start \/ StartWatcher
        PROVE  UNCHANGED <<event, queue>>
    BY <2>16 DEF Start, StartWatcher
  <2>17. CASE UNCHANGED <<event, queue>>
    BY <2>17
  <2> QED
    BY <2>1, <2>2, <2>3, <2>4, <2>5, <2>6, <2>7, <2>8, <2>9, <2>10, <2>11, <2>12,
       <2>13, <2>14, <2>15, <2>16, <2>17 DEF Next, RunnerStep, TaskStep,
       ReconcileStart, ReconcileStep, vars, runnerVars, fileVars, jobVars, toldVars
<1> QED
  BY <1>1, <1>2

\* FilesOK holds in every initial state and is kept by every step.
LEMMA FilesOKInductive ==
  ASSUME DeliveryAssumption
  PROVE  /\ Init => FilesOK
         /\ RunnerOK /\ TaskOK /\ FilesOK /\ [Next]_vars => FilesOK'
<1> USE DeliveryAssumption DEF DeliveryAssumption, FilesOK
<1>1. Init => FilesOK
  <2> SUFFICES ASSUME Init PROVE FilesOK
    OBVIOUS
  <2>1. \A r \in Ended : {[outcome |-> outcome[r], marked |-> FALSE]} \in Contents
    <3> SUFFICES ASSUME NEW r \in Ended
                 PROVE  {[outcome |-> outcome[r], marked |-> FALSE]} \in Contents
      OBVIOUS
    <3>1. outcome[r] \in Outcomes
      BY DEF Init, Outcomes
    <3>2. [outcome |-> outcome[r], marked |-> FALSE] \in Payload
      BY <3>1 DEF Payload
    <3> QED
      BY <3>2 DEF Contents
  <2>2. {} \in Contents
    BY DEF Contents
  <2> QED
    BY <2>1, <2>2 DEF Init
<1>2. RunnerOK /\ TaskOK /\ FilesOK /\ [Next]_vars => FilesOK'
  <2> SUFFICES ASSUME RunnerOK, TaskOK, FilesOK, [Next]_vars PROVE FilesOK'
    OBVIOUS
  <2> USE DEF runnerVars, fileVars, jobVars, toldVars
  <2>o. \A r \in Runs : OutcomeRead(r) \subseteq Outcomes
    BY DEF TaskOK, OutcomeRead, Payload
  <2>e. {} \in Contents
    BY DEF Contents
  <2>1. ASSUME NEW r \in Runs, WritePending(r) PROVE FilesOK'
    <3>1. outcome[r] \in Outcomes
      BY <2>1, RunnerOK DEF WritePending, RunnerOK
    <3>2. File(r, outcome[r], FALSE) /\ UNCHANGED <<public, index>>
      BY <2>1 DEF WritePending
    <3> QED
      BY <3>1, <3>2, FileFacts
  <2>2. ASSUME NEW r \in Runs, WriteIndex(r) PROVE FilesOK'
    BY <2>2 DEF WriteIndex
  <2>3. ASSUME NEW r \in Runs, PromoteResult(r) PROVE FilesOK'
    <3>1. Promote(r) /\ UNCHANGED index
      BY <2>3 DEF PromoteResult
    <3> QED
      BY <3>1, PromoteFacts
  <2>4. ASSUME NEW r \in Runs, WatchEvent(r) PROVE FilesOK'
    BY <2>4 DEF WatchEvent
  <2>5. ASSUME NEW r \in Runs, Scan(r) PROVE FilesOK'
    <3>1. CASE Promote(r) /\ UNCHANGED index
      BY <3>1, PromoteFacts
    <3>2. CASE UNCHANGED <<pending, public, index>>
      BY <3>2
    <3> QED
      BY <2>5, <3>1, <3>2 DEF Scan
  <2>6. ASSUME NEW r \in Runs, ReadResult(r) PROVE FilesOK'
    <3>1. Promote(r) /\ UNCHANGED index
      BY <2>6 DEF ReadResult
    <3> QED
      BY <3>1, PromoteFacts
  <2>7. ASSUME NEW r \in Runs, MarkPending(r) PROVE FilesOK'
    <3>1. PICK o \in OutcomeRead(r) : File(r, o, TRUE)
      BY <2>7 DEF MarkPending
    <3>2. o \in Outcomes
      BY <2>o
    <3>3. UNCHANGED <<public, index>>
      BY <2>7 DEF MarkPending
    <3> QED
      BY <3>1, <3>2, <3>3, FileFacts
  <2>8. ASSUME NEW r \in Runs, MarkIndex(r) PROVE FilesOK'
    BY <2>8 DEF MarkIndex
  <2>9. ASSUME NEW r \in Runs, MarkPromote(r) PROVE FilesOK'
    <3>1. Promote(r) /\ UNCHANGED index
      BY <2>9 DEF MarkPromote
    <3> QED
      BY <3>1, PromoteFacts
  <2>10. ASSUME NEW r \in Runs, Unlink(r) PROVE FilesOK'
    BY <2>10, <2>e DEF Unlink
  <2>11. ASSUME NEW r \in Runs, Unindex(r) PROVE FilesOK'
    BY <2>11 DEF Unindex
  <2>12. ASSUME NEW r \in Runs, Unpend(r) PROVE FilesOK'
    BY <2>12, <2>e DEF Unpend
  <2>13. ASSUME NEW r \in Runs, StatusFromResult(r) PROVE FilesOK'
    <3>1. CASE Promote(r) /\ UNCHANGED index
      BY <3>1, PromoteFacts
    <3>2. CASE UNCHANGED <<pending, public, index>>
      BY <3>2
    <3> QED
      BY <2>13, <3>1, <3>2 DEF StatusFromResult
  <2>14. ASSUME NEW r \in Runs, RepairPending(r) PROVE FilesOK'
    <3>1. "failed" \in Outcomes
      BY <2>14 DEF Outcomes
    <3>2. File(r, "failed", FALSE) /\ UNCHANGED <<public, index>>
      BY <2>14 DEF RepairPending
    <3> QED
      BY <3>1, <3>2, FileFacts
  <2>15. ASSUME NEW r \in Runs, RepairIndex(r) PROVE FilesOK'
    BY <2>15 DEF RepairIndex
  <2>16. ASSUME NEW r \in Runs, RepairPromote(r) PROVE FilesOK'
    <3>1. Promote(r) /\ UNCHANGED index
      BY <2>16 DEF RepairPromote
    <3> QED
      BY <3>1, PromoteFacts
  <2>17. ASSUME NEW r \in Runs, NEW o \in Outcomes,
              \/ EndEarly(r, o) \/ FinishRun(r, o)
        PROVE  UNCHANGED <<pending, public, index>>
    BY <2>17 DEF EndEarly, FinishRun
  <2>18. ASSUME NEW r \in Runs,
              \/ WriteStatus(r) \/ FinalWriteFails(r) \/ Die(r)
              \/ IgnoreResult(r) \/ Acknowledge(r) \/ Hold(r) \/ SendNow(r)
              \/ MarkFails(r) \/ UnlinkFails(r) \/ Forget(r) \/ LookForResult(r)
              \/ NothingToReconcile(r) \/ ProbeAlive(r) \/ ProbeDead(r)
              \/ RepairStatus(r) \/ RepairFails(r) \/ Untrack(r)
        PROVE  UNCHANGED <<pending, public, index>>
    BY <2>18 DEF WriteStatus, FinalWriteFails, Die, IgnoreResult, Acknowledge, Hold,
         SendNow, MarkFails, UnlinkFails, Forget, LookForResult, NothingToReconcile,
         ProbeAlive, ProbeDead, RepairStatus, RepairFails, Untrack, Send, Accept,
         Refuse
  <2>19. ASSUME \/ EmitBatch \/ Stop \/ Start \/ StartWatcher
        PROVE  UNCHANGED <<pending, public, index>>
    BY <2>19 DEF EmitBatch, Stop, Start, StartWatcher, Send, Accept, Refuse
  <2>20. CASE UNCHANGED <<pending, public, index>>
    BY <2>20
  <2> QED
    BY <2>1, <2>2, <2>3, <2>4, <2>5, <2>6, <2>7, <2>8, <2>9, <2>10, <2>11, <2>12,
       <2>13, <2>14, <2>15, <2>16, <2>17, <2>18, <2>19, <2>20 DEF Next, RunnerStep,
       TaskStep, ReconcileStart, ReconcileStep, vars, runnerVars, fileVars, jobVars,
       toldVars
<1> QED
  BY <1>1, <1>2

\* TaskOK holds in every initial state and is kept by every step.
LEMMA TaskOKInductive ==
  /\ Init => TaskOK
  /\ FilesOK /\ TaskOK /\ [Next]_vars => TaskOK'
<1> USE  DEF TaskOK, TaskAt
<1>1. Init => TaskOK
  BY DEF Init
<1>2. FilesOK /\ TaskOK /\ [Next]_vars => TaskOK'
  <2> SUFFICES ASSUME FilesOK, TaskOK, [Next]_vars PROVE TaskOK'
    OBVIOUS
  <2> USE DEF runnerVars, fileVars, jobVars, toldVars
  <2> USE DEF Goto
  <2>1. ASSUME NEW r \in Runs, ReadResult(r) PROVE TaskOK'
    <3>1. FoundAfter(r) \subseteq Payload
      <4>1. FoundAfter(r) \subseteq Filed(r)
        BY <2>1, PromoteFacts DEF ReadResult
      <4> QED
        BY <4>1 DEF FilesOK, Filed, Contents
    <3>2. data' = [data EXCEPT ![r] = FoundAfter(r)]
      BY <2>1 DEF ReadResult
    <3>3. task' = [task EXCEPT ![r] = "unlink"] \/ task' = [task EXCEPT ![r] = "deliver"]
      BY <2>1 DEF ReadResult
    <3> QED
      BY <3>1, <3>2, <3>3
  <2>2. ASSUME NEW r \in Runs, Acknowledge(r) PROVE TaskOK'
    BY <2>2 DEF Acknowledge
  <2>3. ASSUME NEW r \in Runs, Hold(r) PROVE TaskOK'
    BY <2>3 DEF Hold
  <2>4. ASSUME NEW r \in Runs, SendNow(r) PROVE TaskOK'
    BY <2>4 DEF SendNow, Send, Accept, Refuse
  <2>5. ASSUME NEW r \in Runs, MarkPending(r) PROVE TaskOK'
    BY <2>5 DEF MarkPending
  <2>6. ASSUME NEW r \in Runs, MarkIndex(r) PROVE TaskOK'
    BY <2>6 DEF MarkIndex
  <2>7. ASSUME NEW r \in Runs, MarkPromote(r) PROVE TaskOK'
    BY <2>7 DEF MarkPromote
  <2>8. ASSUME NEW r \in Runs, MarkFails(r) PROVE TaskOK'
    BY <2>8 DEF MarkFails
  <2>9. ASSUME NEW r \in Runs, Unlink(r) PROVE TaskOK'
    BY <2>9 DEF Unlink
  <2>10. ASSUME NEW r \in Runs, UnlinkFails(r) PROVE TaskOK'
    BY <2>10 DEF UnlinkFails
  <2>11. ASSUME NEW r \in Runs, Unindex(r) PROVE TaskOK'
    BY <2>11 DEF Unindex
  <2>12. ASSUME NEW r \in Runs, Unpend(r) PROVE TaskOK'
    BY <2>12 DEF Unpend
  <2>13. ASSUME NEW r \in Runs, Forget(r) PROVE TaskOK'
    BY <2>13 DEF Forget
  <2>14. ASSUME EmitBatch PROVE TaskOK'
    BY <2>14 DEF EmitBatch, Send, Accept, Refuse, Held
  <2>15. ASSUME Stop PROVE TaskOK'
    BY <2>15 DEF Stop
  <2>16. ASSUME NEW r \in Runs, NEW o \in Outcomes,
              \/ EndEarly(r, o) \/ FinishRun(r, o)
        PROVE  UNCHANGED <<task, data>>
    BY <2>16 DEF EndEarly, FinishRun
  <2>17. ASSUME NEW r \in Runs,
              \/ WritePending(r) \/ WriteIndex(r) \/ PromoteResult(r)
              \/ WriteStatus(r) \/ FinalWriteFails(r) \/ Die(r) \/ WatchEvent(r)
              \/ Scan(r) \/ IgnoreResult(r) \/ StatusFromResult(r)
              \/ LookForResult(r) \/ NothingToReconcile(r) \/ ProbeAlive(r)
              \/ ProbeDead(r) \/ RepairPending(r) \/ RepairIndex(r)
              \/ RepairPromote(r) \/ RepairStatus(r) \/ RepairFails(r)
              \/ Untrack(r)
        PROVE  UNCHANGED <<task, data>>
    BY <2>17 DEF WritePending, WriteIndex, PromoteResult, WriteStatus,
         FinalWriteFails, Die, WatchEvent, Scan, IgnoreResult, StatusFromResult,
         LookForResult, NothingToReconcile, ProbeAlive, ProbeDead, RepairPending,
         RepairIndex, RepairPromote, RepairStatus, RepairFails, Untrack, Promote,
         Rename, File
  <2>18. ASSUME \/ Start \/ StartWatcher
        PROVE  UNCHANGED <<task, data>>
    BY <2>18 DEF Start, StartWatcher
  <2>19. CASE UNCHANGED <<task, data>>
    BY <2>19
  <2> QED
    BY <2>1, <2>2, <2>3, <2>4, <2>5, <2>6, <2>7, <2>8, <2>9, <2>10, <2>11, <2>12,
       <2>13, <2>14, <2>15, <2>16, <2>17, <2>18, <2>19 DEF Next, RunnerStep, TaskStep,
       ReconcileStart, ReconcileStep, vars, runnerVars, fileVars, jobVars, toldVars
<1> QED
  BY <1>1, <1>2

\* StatusOK holds in every initial state and is kept by every step.
LEMMA StatusOKInductive ==
  ASSUME DeliveryAssumption
  PROVE  /\ Init => StatusOK
         /\ RunnerOK /\ FilesOK /\ StatusOK /\ [Next]_vars => StatusOK'
<1> USE DeliveryAssumption DEF DeliveryAssumption, StatusOK
<1>1. Init => StatusOK
  BY DEF Init, Outcomes
<1>2. RunnerOK /\ FilesOK /\ StatusOK /\ [Next]_vars => StatusOK'
  <2> SUFFICES ASSUME RunnerOK, FilesOK, StatusOK, [Next]_vars PROVE StatusOK'
    OBVIOUS
  <2> USE DEF runnerVars, fileVars, jobVars, toldVars
  <2>1. ASSUME NEW r \in Runs, WriteStatus(r) PROVE StatusOK'
    BY <2>1 DEF WriteStatus, RunnerOK
  <2>2. ASSUME NEW r \in Runs, StatusFromResult(r) PROVE StatusOK'
    <3>1. FoundAfter(r) \subseteq Filed(r)
      <4>1. CASE Promote(r)
        BY <4>1, PromoteFacts
      <4>2. CASE UNCHANGED <<pending, public>>
        BY <4>2 DEF FoundAfter, Filed
      <4> QED
        BY <2>2, <4>1, <4>2 DEF StatusFromResult
    <3>2. PICK p \in FoundAfter(r) : status' = [status EXCEPT ![r] = p.outcome]
      BY <2>2 DEF StatusFromResult
    <3>3. p \in Payload
      BY <3>1, <3>2 DEF FilesOK, Filed, Contents
    <3>4. p.outcome \in Outcomes
      BY <3>3 DEF Payload
    <3> QED
      BY <3>2, <3>4
  <2>3. ASSUME NEW r \in Runs, RepairStatus(r) PROVE StatusOK'
    BY <2>3 DEF RepairStatus, Outcomes
  <2>4. ASSUME NEW r \in Runs, NEW o \in Outcomes,
              \/ EndEarly(r, o) \/ FinishRun(r, o)
        PROVE  UNCHANGED status
    BY <2>4 DEF EndEarly, FinishRun
  <2>5. ASSUME NEW r \in Runs,
              \/ WritePending(r) \/ WriteIndex(r) \/ PromoteResult(r)
              \/ FinalWriteFails(r) \/ Die(r) \/ WatchEvent(r) \/ Scan(r)
              \/ IgnoreResult(r) \/ ReadResult(r) \/ Acknowledge(r) \/ Hold(r)
              \/ SendNow(r) \/ MarkPending(r) \/ MarkIndex(r) \/ MarkPromote(r)
              \/ MarkFails(r) \/ Unlink(r) \/ UnlinkFails(r) \/ Unindex(r)
              \/ Unpend(r) \/ Forget(r) \/ LookForResult(r)
              \/ NothingToReconcile(r) \/ ProbeAlive(r) \/ ProbeDead(r)
              \/ RepairPending(r) \/ RepairIndex(r) \/ RepairPromote(r)
              \/ RepairFails(r) \/ Untrack(r)
        PROVE  UNCHANGED status
    BY <2>5 DEF WritePending, WriteIndex, PromoteResult, FinalWriteFails, Die,
         WatchEvent, Scan, IgnoreResult, ReadResult, Acknowledge, Hold, SendNow,
         MarkPending, MarkIndex, MarkPromote, MarkFails, Unlink, UnlinkFails, Unindex,
         Unpend, Forget, LookForResult, NothingToReconcile, ProbeAlive, ProbeDead,
         RepairPending, RepairIndex, RepairPromote, RepairFails, Untrack, Send,
         Accept, Refuse, Promote, Rename, File
  <2>6. ASSUME \/ EmitBatch \/ Stop \/ Start \/ StartWatcher
        PROVE  UNCHANGED status
    BY <2>6 DEF EmitBatch, Stop, Start, StartWatcher, Send, Accept, Refuse
  <2>7. CASE UNCHANGED status
    BY <2>7
  <2> QED
    BY <2>1, <2>2, <2>3, <2>4, <2>5, <2>6, <2>7 DEF Next, RunnerStep, TaskStep,
       ReconcileStart, ReconcileStep, vars, runnerVars, fileVars, jobVars, toldVars
<1> QED
  BY <1>1, <1>2

\* JobsOK holds in every initial state and is kept by every step.
LEMMA JobsOKInductive ==
  /\ Init => JobsOK
  /\ JobsOK /\ [Next]_vars => JobsOK'
<1> USE  DEF JobsOK
<1>1. Init => JobsOK
  BY DEF Init
<1>2. JobsOK /\ [Next]_vars => JobsOK'
  <2> SUFFICES ASSUME JobsOK, [Next]_vars PROVE JobsOK'
    OBVIOUS
  <2> USE DEF runnerVars, fileVars, jobVars, toldVars
  <2>1. ASSUME NEW r \in Runs, StatusFromResult(r) PROVE JobsOK'
    BY <2>1 DEF StatusFromResult, EndReconcile
  <2>2. ASSUME NEW r \in Runs, NothingToReconcile(r) PROVE JobsOK'
    BY <2>2 DEF NothingToReconcile, EndReconcile
  <2>3. ASSUME NEW r \in Runs, ProbeAlive(r) PROVE JobsOK'
    BY <2>3 DEF ProbeAlive, EndReconcile
  <2>4. ASSUME NEW r \in Runs, RepairStatus(r) PROVE JobsOK'
    BY <2>4 DEF RepairStatus, EndReconcile
  <2>5. ASSUME NEW r \in Runs, RepairFails(r) PROVE JobsOK'
    BY <2>5 DEF RepairFails
  <2>6. ASSUME NEW r \in Runs, Untrack(r) PROVE JobsOK'
    BY <2>6 DEF Untrack
  <2>7. ASSUME Stop PROVE JobsOK'
    BY <2>7 DEF Stop
  <2>8. ASSUME Start PROVE JobsOK'
    BY <2>8 DEF Start
  <2>9. ASSUME StartWatcher PROVE JobsOK'
    BY <2>9 DEF StartWatcher
  <2>10. ASSUME NEW r \in Runs, NEW o \in Outcomes,
              \/ EndEarly(r, o) \/ FinishRun(r, o)
        PROVE  UNCHANGED jobVars
    BY <2>10 DEF EndEarly, FinishRun
  <2>11. ASSUME NEW r \in Runs,
              \/ WritePending(r) \/ WriteIndex(r) \/ PromoteResult(r)
              \/ WriteStatus(r) \/ FinalWriteFails(r) \/ Die(r) \/ WatchEvent(r)
              \/ Scan(r) \/ IgnoreResult(r) \/ ReadResult(r) \/ Acknowledge(r)
              \/ Hold(r) \/ SendNow(r) \/ MarkPending(r) \/ MarkIndex(r)
              \/ MarkPromote(r) \/ MarkFails(r) \/ Unlink(r) \/ UnlinkFails(r)
              \/ Unindex(r) \/ Unpend(r) \/ Forget(r) \/ LookForResult(r)
              \/ ProbeDead(r) \/ RepairPending(r) \/ RepairIndex(r)
              \/ RepairPromote(r)
        PROVE  UNCHANGED jobVars
    BY <2>11 DEF WritePending, WriteIndex, PromoteResult, WriteStatus,
         FinalWriteFails, Die, WatchEvent, Scan, IgnoreResult, ReadResult,
         Acknowledge, Hold, SendNow, MarkPending, MarkIndex, MarkPromote, MarkFails,
         Unlink, UnlinkFails, Unindex, Unpend, Forget, LookForResult, ProbeDead,
         RepairPending, RepairIndex, RepairPromote, Send, Accept, Refuse, Promote,
         Rename, File
  <2>12. ASSUME \/ EmitBatch
        PROVE  UNCHANGED jobVars
    BY <2>12 DEF EmitBatch, Send, Accept, Refuse
  <2>13. CASE UNCHANGED jobVars
    BY <2>13
  <2> QED
    BY <2>1, <2>2, <2>3, <2>4, <2>5, <2>6, <2>7, <2>8, <2>9, <2>10, <2>11, <2>12,
       <2>13 DEF Next, RunnerStep, TaskStep, ReconcileStart, ReconcileStep, vars,
       runnerVars, fileVars, jobVars, toldVars
<1> QED
  BY <1>1, <1>2

\* RecOK holds in every initial state and is kept by every step.
LEMMA RecOKInductive ==
  /\ Init => RecOK
  /\ RecOK /\ [Next]_vars => RecOK'
<1> USE  DEF RecOK, RepairAt
<1>1. Init => RecOK
  BY DEF Init
<1>2. RecOK /\ [Next]_vars => RecOK'
  <2> SUFFICES ASSUME RecOK, [Next]_vars PROVE RecOK'
    OBVIOUS
  <2> USE DEF runnerVars, fileVars, jobVars, toldVars
  <2> USE DEF ReconcileGoto
  <2>1. ASSUME NEW r \in Runs, StatusFromResult(r) PROVE RecOK'
    BY <2>1 DEF StatusFromResult, EndReconcile
  <2>2. ASSUME NEW r \in Runs, LookForResult(r) PROVE RecOK'
    BY <2>2 DEF LookForResult
  <2>3. ASSUME NEW r \in Runs, NothingToReconcile(r) PROVE RecOK'
    BY <2>3 DEF NothingToReconcile, EndReconcile
  <2>4. ASSUME NEW r \in Runs, ProbeAlive(r) PROVE RecOK'
    BY <2>4 DEF ProbeAlive, EndReconcile
  <2>5. ASSUME NEW r \in Runs, ProbeDead(r) PROVE RecOK'
    BY <2>5 DEF ProbeDead
  <2>6. ASSUME NEW r \in Runs, RepairPending(r) PROVE RecOK'
    BY <2>6 DEF RepairPending
  <2>7. ASSUME NEW r \in Runs, RepairIndex(r) PROVE RecOK'
    BY <2>7 DEF RepairIndex
  <2>8. ASSUME NEW r \in Runs, RepairPromote(r) PROVE RecOK'
    BY <2>8 DEF RepairPromote
  <2>9. ASSUME NEW r \in Runs, RepairStatus(r) PROVE RecOK'
    BY <2>9 DEF RepairStatus, EndReconcile
  <2>10. ASSUME NEW r \in Runs, RepairFails(r) PROVE RecOK'
    BY <2>10 DEF RepairFails
  <2>11. ASSUME Stop PROVE RecOK'
    BY <2>11 DEF Stop
  <2>12. ASSUME NEW r \in Runs, NEW o \in Outcomes,
              \/ EndEarly(r, o) \/ FinishRun(r, o)
        PROVE  UNCHANGED rec
    BY <2>12 DEF EndEarly, FinishRun
  <2>13. ASSUME NEW r \in Runs,
              \/ WritePending(r) \/ WriteIndex(r) \/ PromoteResult(r)
              \/ WriteStatus(r) \/ FinalWriteFails(r) \/ Die(r) \/ WatchEvent(r)
              \/ Scan(r) \/ IgnoreResult(r) \/ ReadResult(r) \/ Acknowledge(r)
              \/ Hold(r) \/ SendNow(r) \/ MarkPending(r) \/ MarkIndex(r)
              \/ MarkPromote(r) \/ MarkFails(r) \/ Unlink(r) \/ UnlinkFails(r)
              \/ Unindex(r) \/ Unpend(r) \/ Forget(r) \/ Untrack(r)
        PROVE  UNCHANGED rec
    BY <2>13 DEF WritePending, WriteIndex, PromoteResult, WriteStatus,
         FinalWriteFails, Die, WatchEvent, Scan, IgnoreResult, ReadResult,
         Acknowledge, Hold, SendNow, MarkPending, MarkIndex, MarkPromote, MarkFails,
         Unlink, UnlinkFails, Unindex, Unpend, Forget, Untrack, Send, Accept, Refuse,
         Promote, Rename, File
  <2>14. ASSUME \/ EmitBatch \/ Start \/ StartWatcher
        PROVE  UNCHANGED rec
    BY <2>14 DEF EmitBatch, Start, StartWatcher, Send, Accept, Refuse
  <2>15. CASE UNCHANGED rec
    BY <2>15
  <2> QED
    BY <2>1, <2>2, <2>3, <2>4, <2>5, <2>6, <2>7, <2>8, <2>9, <2>10, <2>11, <2>12,
       <2>13, <2>14, <2>15 DEF Next, RunnerStep, TaskStep, ReconcileStart,
       ReconcileStep, vars, runnerVars, fileVars, jobVars, toldVars
<1> QED
  BY <1>1, <1>2

\* A message tells of outcomes.
LEMMA AcceptFacts ==
  ASSUME TaskOK, ToldOK, NEW group \in SUBSET Runs, Accept(group)
  PROVE  /\ seen' = seen \cup group
         /\ told' \in [Runs -> SUBSET Outcomes] /\ count' \in [Runs -> 0..2]
         /\ \A r \in group : OutcomeRead(r) \subseteq told'[r]
         /\ \A r \in Runs : told[r] \subseteq told'[r]
<1>1. \A r \in Runs : OutcomeRead(r) \subseteq Outcomes
  BY DEF TaskOK, OutcomeRead, Payload
<1>2. told' \in [Runs -> SUBSET Outcomes]
  BY <1>1 DEF Accept, ToldOK
<1>3. count' \in [Runs -> 0..2]
  BY DEF Accept, ToldOK
<1> QED
  BY <1>2, <1>3 DEF Accept

\* ToldOK holds in every initial state and is kept by every step.
LEMMA ToldOKInductive ==
  /\ Init => ToldOK
  /\ TaskOK /\ ToldOK /\ [Next]_vars => ToldOK'
<1> USE  DEF ToldOK
<1>1. Init => ToldOK
  BY DEF Init
<1>2. TaskOK /\ ToldOK /\ [Next]_vars => ToldOK'
  <2> SUFFICES ASSUME TaskOK, ToldOK, [Next]_vars PROVE ToldOK'
    OBVIOUS
  <2> USE DEF runnerVars, fileVars, jobVars, toldVars
  <2>1. ASSUME NEW r \in Runs, ReadResult(r) PROVE ToldOK'
    BY <2>1 DEF ReadResult
  <2>2. ASSUME NEW r \in Runs, SendNow(r) PROVE ToldOK'
    <3>1. CASE Accept({r})
      BY <2>2, <3>1, AcceptFacts DEF SendNow, Send
    <3>2. CASE Refuse({r})
      BY <2>2, <3>2 DEF SendNow, Send, Refuse
    <3> QED
      BY <2>2, <3>1, <3>2 DEF SendNow, Send
  <2>3. ASSUME NEW r \in Runs, MarkPromote(r) PROVE ToldOK'
    BY <2>3 DEF MarkPromote
  <2>4. ASSUME NEW r \in Runs, Forget(r) PROVE ToldOK'
    BY <2>4 DEF Forget
  <2>5. ASSUME EmitBatch PROVE ToldOK'
    <3>1. CASE Accept(Held)
      BY <2>5, <3>1, AcceptFacts DEF Held, EmitBatch, Send
    <3>2. CASE Refuse(Held)
      BY <2>5, <3>2 DEF EmitBatch, Send, Refuse
    <3> QED
      BY <2>5, <3>1, <3>2 DEF EmitBatch, Send
  <2>6. ASSUME Stop PROVE ToldOK'
    BY <2>6 DEF Stop
  <2>7. ASSUME NEW r \in Runs, NEW o \in Outcomes,
              \/ EndEarly(r, o) \/ FinishRun(r, o)
        PROVE  UNCHANGED <<seen, done, told, count>>
    BY <2>7 DEF EndEarly, FinishRun
  <2>8. ASSUME NEW r \in Runs,
              \/ WritePending(r) \/ WriteIndex(r) \/ PromoteResult(r)
              \/ WriteStatus(r) \/ FinalWriteFails(r) \/ Die(r) \/ WatchEvent(r)
              \/ Scan(r) \/ IgnoreResult(r) \/ Acknowledge(r) \/ Hold(r)
              \/ MarkPending(r) \/ MarkIndex(r) \/ MarkFails(r) \/ Unlink(r)
              \/ UnlinkFails(r) \/ Unindex(r) \/ Unpend(r) \/ StatusFromResult(r)
              \/ LookForResult(r) \/ NothingToReconcile(r) \/ ProbeAlive(r)
              \/ ProbeDead(r) \/ RepairPending(r) \/ RepairIndex(r)
              \/ RepairPromote(r) \/ RepairStatus(r) \/ RepairFails(r)
              \/ Untrack(r)
        PROVE  UNCHANGED <<seen, done, told, count>>
    BY <2>8 DEF WritePending, WriteIndex, PromoteResult, WriteStatus, FinalWriteFails,
         Die, WatchEvent, Scan, IgnoreResult, Acknowledge, Hold, MarkPending,
         MarkIndex, MarkFails, Unlink, UnlinkFails, Unindex, Unpend, StatusFromResult,
         LookForResult, NothingToReconcile, ProbeAlive, ProbeDead, RepairPending,
         RepairIndex, RepairPromote, RepairStatus, RepairFails, Untrack, Promote,
         Rename, File
  <2>9. ASSUME \/ Start \/ StartWatcher
        PROVE  UNCHANGED <<seen, done, told, count>>
    BY <2>9 DEF Start, StartWatcher
  <2>10. CASE UNCHANGED <<seen, done, told, count>>
    BY <2>10
  <2> QED
    BY <2>1, <2>2, <2>3, <2>4, <2>5, <2>6, <2>7, <2>8, <2>9, <2>10 DEF Next,
       RunnerStep, TaskStep, ReconcileStart, ReconcileStep, vars, runnerVars,
       fileVars, jobVars, toldVars
<1> QED
  BY <1>1, <1>2

\* TroubleOK holds in every initial state and is kept by every step.
LEMMA TroubleOKInductive ==
  ASSUME DeliveryAssumption
  PROVE  /\ Init => TroubleOK
         /\ TroubleOK /\ [Next]_vars => TroubleOK'
<1> USE DeliveryAssumption DEF DeliveryAssumption, TroubleOK, SomethingFails
<1>1. Init => TroubleOK
  BY DEF Init
<1>2. TroubleOK /\ [Next]_vars => TroubleOK'
  <2> SUFFICES ASSUME TroubleOK, [Next]_vars PROVE TroubleOK'
    OBVIOUS
  <2> USE DEF runnerVars, fileVars, jobVars, toldVars
  <2>1. ASSUME NEW r \in Runs, PromoteResult(r) PROVE TroubleOK'
    BY <2>1 DEF PromoteResult, Promote, Rename
  <2>2. ASSUME NEW r \in Runs, FinalWriteFails(r) PROVE TroubleOK'
    BY <2>2 DEF FinalWriteFails
  <2>3. ASSUME NEW r \in Runs, Die(r) PROVE TroubleOK'
    BY <2>3 DEF Die
  <2>4. ASSUME NEW r \in Runs, Scan(r) PROVE TroubleOK'
    BY <2>4 DEF Scan, Promote, Rename
  <2>5. ASSUME NEW r \in Runs, ReadResult(r) PROVE TroubleOK'
    BY <2>5 DEF ReadResult, Promote, Rename
  <2>6. ASSUME NEW r \in Runs, SendNow(r) PROVE TroubleOK'
    BY <2>6 DEF SendNow, Send, Accept, Refuse
  <2>7. ASSUME NEW r \in Runs, MarkPromote(r) PROVE TroubleOK'
    BY <2>7 DEF MarkPromote, Promote, Rename
  <2>8. ASSUME NEW r \in Runs, MarkFails(r) PROVE TroubleOK'
    BY <2>8 DEF MarkFails
  <2>9. ASSUME NEW r \in Runs, UnlinkFails(r) PROVE TroubleOK'
    BY <2>9 DEF UnlinkFails
  <2>10. ASSUME NEW r \in Runs, StatusFromResult(r) PROVE TroubleOK'
    BY <2>10 DEF StatusFromResult, Promote, Rename
  <2>11. ASSUME NEW r \in Runs, RepairPromote(r) PROVE TroubleOK'
    BY <2>11 DEF RepairPromote, Promote, Rename
  <2>12. ASSUME NEW r \in Runs, RepairFails(r) PROVE TroubleOK'
    BY <2>12 DEF RepairFails
  <2>13. ASSUME EmitBatch PROVE TroubleOK'
    BY <2>13 DEF EmitBatch, Send, Accept, Refuse
  <2>14. ASSUME Stop PROVE TroubleOK'
    BY <2>14 DEF Stop
  <2>15. ASSUME NEW r \in Runs, NEW o \in Outcomes,
              \/ EndEarly(r, o) \/ FinishRun(r, o)
        PROVE  UNCHANGED trouble
    BY <2>15 DEF EndEarly, FinishRun
  <2>16. ASSUME NEW r \in Runs,
              \/ WritePending(r) \/ WriteIndex(r) \/ WriteStatus(r)
              \/ WatchEvent(r) \/ IgnoreResult(r) \/ Acknowledge(r) \/ Hold(r)
              \/ MarkPending(r) \/ MarkIndex(r) \/ Unlink(r) \/ Unindex(r)
              \/ Unpend(r) \/ Forget(r) \/ LookForResult(r)
              \/ NothingToReconcile(r) \/ ProbeAlive(r) \/ ProbeDead(r)
              \/ RepairPending(r) \/ RepairIndex(r) \/ RepairStatus(r)
              \/ Untrack(r)
        PROVE  UNCHANGED trouble
    BY <2>16 DEF WritePending, WriteIndex, WriteStatus, WatchEvent, IgnoreResult,
         Acknowledge, Hold, MarkPending, MarkIndex, Unlink, Unindex, Unpend, Forget,
         LookForResult, NothingToReconcile, ProbeAlive, ProbeDead, RepairPending,
         RepairIndex, RepairStatus, Untrack, File
  <2>17. ASSUME \/ Start \/ StartWatcher
        PROVE  UNCHANGED trouble
    BY <2>17 DEF Start, StartWatcher
  <2>18. CASE UNCHANGED trouble
    BY <2>18
  <2> QED
    BY <2>1, <2>2, <2>3, <2>4, <2>5, <2>6, <2>7, <2>8, <2>9, <2>10, <2>11, <2>12,
       <2>13, <2>14, <2>15, <2>16, <2>17, <2>18 DEF Next, RunnerStep, TaskStep,
       ReconcileStart, ReconcileStep, vars, runnerVars, fileVars, jobVars, toldVars
<1> QED
  BY <1>1, <1>2

\* Every behaviour satisfies TypeInv in every state.
LEMMA TypeInvariant == DeliveryAssumption => (Spec => []TypeInv)
<1> SUFFICES ASSUME DeliveryAssumption PROVE Spec => []TypeInv
  OBVIOUS
<1> QED
  BY RunnerOKInductive, FilesOKInductive, StatusOKInductive, JobsOKInductive, WatchOKInductive,
     TaskOKInductive, RecOKInductive, ToldOKInductive, TroubleOKInductive, PTL
     DEF Spec, TypeInv

\* Type correctness: the steps of runner, notifier and reconciler, the files and
\* what the session was told keep their kinds, and a file has one content, for
\* any number of runs and of failures.
THEOREM TypeCorrect == DeliveryAssumption => (Spec => []TypeOK)
<1> SUFFICES ASSUME DeliveryAssumption PROVE Spec => []TypeOK
  OBVIOUS
<1>1. \A c \in Contents : c \in SUBSET Payload /\ Cardinality(c) <= 1
  <2> SUFFICES ASSUME NEW c \in Contents PROVE Cardinality(c) <= 1
    BY DEF Contents
  <2>1. CASE c = {}
    BY <2>1, FS_EmptySet
  <2>2. CASE c # {}
    <3>1. PICK x \in c : TRUE
      BY <2>2
    <3>2. c = {x}
      BY <3>1 DEF Contents
    <3>3. Cardinality({x}) = 1
      BY FS_Singleton
    <3> QED
      BY <3>2, <3>3
  <2> QED
    BY <2>1, <2>2
<1>2. TypeInv => TypeOK
  <2> SUFFICES ASSUME TypeInv PROVE TypeOK
    OBVIOUS
  <2>1. /\ pending \in [Runs -> SUBSET Payload] /\ public \in [Runs -> SUBSET Payload]
        /\ \A r \in Runs : Cardinality(pending[r]) <= 1 /\ Cardinality(public[r]) <= 1
        /\ index \subseteq Runs
    BY <1>1 DEF TypeInv, FilesOK
  <2>2. rc \in [Runs -> DOMAIN Then \cup {"working", "winding", "gone"}]
    <3>1. DOMAIN Then \cup {"working", "winding", "gone"} = Labels
      BY ThenFacts DEF Labels
    <3> QED
      BY <3>1 DEF TypeInv, RunnerOK
  <2> QED
    BY <2>1, <2>2 DEF TypeInv, TypeOK, RunnerOK, StatusOK, JobsOK, WatchOK, TaskOK, RecOK,
                      ToldOK, TroubleOK, TaskAt, RepairAt
<1> QED
  BY TypeInvariant, <1>2, PTL

-----------------------------------------------------------------------------
(* No end goes unreported.  A mark in a file, or in the memory of a runtime, *)
(* stands for a message that was sent; and until it is sent, a result that   *)
(* was filed once is always somewhere.                                       *)

Promised  == {"mark", "markIndex", "markPromote", "unlink", "unindex", "unpend"}
Filing    == {"snapIndex", "snapStatus", "resultIndex", "resultPromote", "resultStatus",
              "lastIndex", "lastStatus"}
Repairing == {"repairIndex", "repairPromote", "repairStatus"}

\* What the runtime remembers as told was told; what it is about to tell it has
\* read.
TaskInv ==
  \A r \in Runs :
    /\ task[r] \in Promised => told[r] # {}
    /\ r \in seen \cup done => told[r] # {}
    /\ task[r] \in {"deliver", "held"} => data[r] # {}

\* A result marked as delivered was.
MarkInv == \A r \in Runs : \A p \in Filed(r) : p.marked => told[r] # {}

\* Whoever shows, or is about to show, the end of a run has filed a result.
Safe(r)  == told[r] # {} \/ Filed(r) # {}
FiledInv ==
  \A r \in Runs :
    status[r] # "running" \/ rc[r] \in Filing \/ rec[r] \in Repairing => Safe(r)

\* What a step may do to the result of a run: only the end of a delivery removes
\* it, and only the mark of a delivery marks it.
LEMMA FilesSteps ==
  ASSUME TypeInv, [Next]_vars, NEW q \in Runs
  PROVE  /\ Filed(q) # {} /\ Filed(q)' = {} => task[q] \in {"unlink", "unpend"}
         /\ \A p \in Filed(q)' : p.marked => p \in Filed(q) \/ task[q] = "mark"
<1> DEFINE Kept ==
      /\ Filed(q) # {} /\ Filed(q)' = {} => task[q] \in {"unlink", "unpend"}
      /\ \A p \in Filed(q)' : p.marked => p \in Filed(q) \/ task[q] = "mark"
<1> USE DEF runnerVars, fileVars, jobVars, toldVars
<1>t. /\ FilesOK /\ \A r \in Runs : OutcomeRead(r) \subseteq Outcomes
      /\ \A r \in Runs : rc[r] \notin {"working", "gone"} => outcome[r] \in Outcomes
  BY DEF TypeInv, TaskOK, RunnerOK, OutcomeRead, Payload
<1>p. ASSUME NEW r \in Runs, Promote(r) \/ UNCHANGED <<pending, public>> PROVE Kept
  <2>1. CASE Promote(r)
    BY <1>t, <2>1, PromoteFacts
  <2>2. CASE UNCHANGED <<pending, public>>
    BY <2>2 DEF Filed
  <2> QED
    BY <1>p, <2>1, <2>2
<1>f. ASSUME NEW r \in Runs, NEW o \in Outcomes, File(r, o, FALSE), UNCHANGED public PROVE Kept
  BY <1>t, <1>f, FileFacts
<1>1. ASSUME NEW r \in Runs, WritePending(r) PROVE Kept
  BY <1>1, <1>t, <1>f DEF WritePending
<1>2. ASSUME NEW r \in Runs, PromoteResult(r) PROVE Kept
  BY <1>2, <1>p DEF PromoteResult
<1>3. ASSUME NEW r \in Runs, Scan(r) PROVE Kept
  BY <1>3, <1>p DEF Scan
<1>4. ASSUME NEW r \in Runs, ReadResult(r) PROVE Kept
  BY <1>4, <1>p DEF ReadResult
<1>5. ASSUME NEW r \in Runs, MarkPending(r) PROVE Kept
  <2>1. PICK o \in OutcomeRead(r) : File(r, o, TRUE) /\ UNCHANGED public
    BY <1>5 DEF MarkPending
  <2>2. o \in Outcomes
    BY <1>t
  <2> QED
    BY <1>5, <1>t, <2>1, <2>2, FileFacts DEF MarkPending
<1>6. ASSUME NEW r \in Runs, MarkPromote(r) PROVE Kept
  BY <1>6, <1>p DEF MarkPromote
<1>7. ASSUME NEW r \in Runs, Unlink(r) PROVE Kept
  BY <1>7, <1>t DEF Unlink, Filed, FilesOK
<1>8. ASSUME NEW r \in Runs, Unpend(r) PROVE Kept
  BY <1>8, <1>t DEF Unpend, Filed, FilesOK
<1>9. ASSUME NEW r \in Runs, StatusFromResult(r) PROVE Kept
  BY <1>9, <1>p DEF StatusFromResult
<1>10. ASSUME NEW r \in Runs, RepairPending(r) PROVE Kept
  BY <1>10, <1>f DEF RepairPending, Outcomes
<1>11. ASSUME NEW r \in Runs, RepairPromote(r) PROVE Kept
  BY <1>11, <1>p DEF RepairPromote
<1>12. ASSUME NEW r \in Runs, NEW o \in Outcomes,
            \/ EndEarly(r, o) \/ FinishRun(r, o)
      PROVE  UNCHANGED <<pending, public>>
  BY <1>12 DEF EndEarly, FinishRun
<1>13. ASSUME NEW r \in Runs,
            \/ WriteIndex(r) \/ WriteStatus(r) \/ FinalWriteFails(r) \/ Die(r)
            \/ WatchEvent(r) \/ IgnoreResult(r) \/ Acknowledge(r) \/ Hold(r)
            \/ SendNow(r) \/ MarkIndex(r) \/ MarkFails(r) \/ UnlinkFails(r)
            \/ Unindex(r) \/ Forget(r) \/ LookForResult(r)
            \/ NothingToReconcile(r) \/ ProbeAlive(r) \/ ProbeDead(r)
            \/ RepairIndex(r) \/ RepairStatus(r) \/ RepairFails(r)
            \/ Untrack(r)
      PROVE  UNCHANGED <<pending, public>>
  BY <1>13 DEF WriteIndex, WriteStatus, FinalWriteFails, Die, WatchEvent,
       IgnoreResult, Acknowledge, Hold, SendNow, MarkIndex, MarkFails, UnlinkFails,
       Unindex, Forget, LookForResult, NothingToReconcile, ProbeAlive, ProbeDead,
       RepairIndex, RepairStatus, RepairFails, Untrack, Send, Accept, Refuse
<1>14. ASSUME \/ EmitBatch \/ Stop \/ Start \/ StartWatcher
      PROVE  UNCHANGED <<pending, public>>
  BY <1>14 DEF EmitBatch, Stop, Start, StartWatcher, Send, Accept, Refuse
<1>15. CASE UNCHANGED <<pending, public>>
  BY <1>15 DEF Filed
<1> QED
  BY <1>1, <1>2, <1>3, <1>4, <1>5, <1>6, <1>7, <1>8, <1>9, <1>10, <1>11, <1>12, <1>13,
     <1>14, <1>15 DEF Next, RunnerStep, TaskStep, ReconcileStart, ReconcileStep, vars,
     runnerVars, fileVars, jobVars, toldVars

\* TaskInv holds in every initial state and is kept by every step.
LEMMA TaskInvInductive ==
  /\ Init => TaskInv
  /\ TypeInv /\ MarkInv /\ TaskInv /\ [Next]_vars => TaskInv'
<1> USE  DEF TaskInv, Promised
<1>1. Init => TaskInv
  BY DEF Init
<1>2. TypeInv /\ MarkInv /\ TaskInv /\ [Next]_vars => TaskInv'
  <2> SUFFICES ASSUME TypeInv, MarkInv, TaskInv, [Next]_vars PROVE TaskInv'
    OBVIOUS
  <2> USE DEF runnerVars, fileVars, jobVars, toldVars
  <2>t. /\ task \in [Runs -> TaskAt] /\ data \in [Runs -> SUBSET Payload]
        /\ told \in [Runs -> SUBSET Outcomes] /\ seen \subseteq Runs /\ done \subseteq Runs
    BY DEF TypeInv, TaskOK, ToldOK
  <2> USE DEF Goto
  <2>1. ASSUME NEW r \in Runs, ReadResult(r) PROVE TaskInv'
    <3>1. FoundAfter(r) \subseteq Filed(r) /\ FoundAfter(r) # {}
      BY <2>1, PromoteFacts DEF ReadResult, TypeInv
    <3>2. /\ data' = [data EXCEPT ![r] = FoundAfter(r)] /\ UNCHANGED <<seen, told>>
          /\ \/ /\ \E p \in FoundAfter(r) : p.marked
                /\ done' = done \cup {r} /\ task' = [task EXCEPT ![r] = "unlink"]
             \/ done' = done /\ r \in done /\ task' = [task EXCEPT ![r] = "unlink"]
             \/ done' = done /\ task' = [task EXCEPT ![r] = "deliver"]
      BY <2>1 DEF ReadResult
    <3>3. (\E p \in FoundAfter(r) : p.marked) => told[r] # {}
      BY <3>1 DEF MarkInv
    <3> QED
      BY <2>t, <2>1, <3>1, <3>2, <3>3
  <2>2. ASSUME NEW r \in Runs, Acknowledge(r) PROVE TaskInv'
    BY <2>t, <2>2 DEF Acknowledge, AlreadyTold
  <2>3. ASSUME NEW r \in Runs, Hold(r) PROVE TaskInv'
    BY <2>t, <2>3 DEF Hold
  <2>4. ASSUME NEW r \in Runs, SendNow(r) PROVE TaskInv'
    <3>1. CASE Accept({r})
      <4>1. \A q \in {r} : q \in Runs /\ told'[q] # {}
        <5>1. \A q \in {r} : q \in Runs /\ data[q] # {}
          BY <2>4 DEF SendNow, Urgent, Held
        <5>2. \A q \in {r} : OutcomeRead(q) \subseteq told'[q]
          BY <3>1, <5>1, AcceptFacts DEF TypeInv
        <5> QED
          BY <5>1, <5>2 DEF OutcomeRead
      <4>2. /\ \A q \in Runs : told[q] \subseteq told'[q]
            /\ seen' = seen \cup {r}
        BY <3>1, <4>1, AcceptFacts DEF TypeInv
      <4>3. /\ task' = [q \in Runs |-> IF q \in {r} THEN "mark" ELSE task[q]]
            /\ UNCHANGED <<done, data>>
        BY <2>4, <3>1 DEF SendNow, Send, Accept
      <4> QED
        BY <2>t, <4>1, <4>2, <4>3
    <3>2. CASE Refuse({r})
      BY <2>t, <2>4, <3>2 DEF SendNow, Send, Refuse
    <3> QED
      BY <2>4, <3>1, <3>2 DEF SendNow, Send
  <2>5. ASSUME NEW r \in Runs, MarkPending(r) PROVE TaskInv'
    BY <2>t, <2>5 DEF MarkPending
  <2>6. ASSUME NEW r \in Runs, MarkIndex(r) PROVE TaskInv'
    BY <2>t, <2>6 DEF MarkIndex
  <2>7. ASSUME NEW r \in Runs, MarkPromote(r) PROVE TaskInv'
    BY <2>t, <2>7 DEF MarkPromote
  <2>8. ASSUME NEW r \in Runs, MarkFails(r) PROVE TaskInv'
    BY <2>t, <2>8 DEF MarkFails
  <2>9. ASSUME NEW r \in Runs, Unlink(r) PROVE TaskInv'
    BY <2>t, <2>9 DEF Unlink
  <2>10. ASSUME NEW r \in Runs, UnlinkFails(r) PROVE TaskInv'
    BY <2>t, <2>10 DEF UnlinkFails
  <2>11. ASSUME NEW r \in Runs, Unindex(r) PROVE TaskInv'
    BY <2>t, <2>11 DEF Unindex
  <2>12. ASSUME NEW r \in Runs, Unpend(r) PROVE TaskInv'
    BY <2>t, <2>12 DEF Unpend
  <2>13. ASSUME NEW r \in Runs, Forget(r) PROVE TaskInv'
    BY <2>t, <2>13 DEF Forget
  <2>14. ASSUME EmitBatch PROVE TaskInv'
    <3>1. CASE Accept(Held)
      <4>1. \A q \in Held : q \in Runs /\ told'[q] # {}
        <5>1. \A q \in Held : q \in Runs /\ data[q] # {}
          BY <2>14 DEF EmitBatch, Urgent, Held
        <5>2. \A q \in Held : OutcomeRead(q) \subseteq told'[q]
          BY <3>1, <5>1, AcceptFacts DEF TypeInv
        <5> QED
          BY <5>1, <5>2 DEF OutcomeRead
      <4>2. /\ \A q \in Runs : told[q] \subseteq told'[q]
            /\ seen' = seen \cup Held
        BY <3>1, <4>1, AcceptFacts DEF TypeInv
      <4>3. /\ task' = [q \in Runs |-> IF q \in Held THEN "mark" ELSE task[q]]
            /\ UNCHANGED <<done, data>>
        BY <2>14, <3>1 DEF EmitBatch, Send, Accept
      <4> QED
        BY <2>t, <4>1, <4>2, <4>3
    <3>2. CASE Refuse(Held)
      BY <2>t, <2>14, <3>2 DEF EmitBatch, Send, Refuse
    <3> QED
      BY <2>14, <3>1, <3>2 DEF EmitBatch, Send
  <2>15. ASSUME Stop PROVE TaskInv'
    BY <2>t, <2>15 DEF Stop
  <2>16. ASSUME NEW r \in Runs, NEW o \in Outcomes,
              \/ EndEarly(r, o) \/ FinishRun(r, o)
        PROVE  UNCHANGED <<task, data, seen, done, told>>
    BY <2>16 DEF EndEarly, FinishRun
  <2>17. ASSUME NEW r \in Runs,
              \/ WritePending(r) \/ WriteIndex(r) \/ PromoteResult(r)
              \/ WriteStatus(r) \/ FinalWriteFails(r) \/ Die(r) \/ WatchEvent(r)
              \/ Scan(r) \/ IgnoreResult(r) \/ StatusFromResult(r)
              \/ LookForResult(r) \/ NothingToReconcile(r) \/ ProbeAlive(r)
              \/ ProbeDead(r) \/ RepairPending(r) \/ RepairIndex(r)
              \/ RepairPromote(r) \/ RepairStatus(r) \/ RepairFails(r)
              \/ Untrack(r)
        PROVE  UNCHANGED <<task, data, seen, done, told>>
    BY <2>17 DEF WritePending, WriteIndex, PromoteResult, WriteStatus,
         FinalWriteFails, Die, WatchEvent, Scan, IgnoreResult, StatusFromResult,
         LookForResult, NothingToReconcile, ProbeAlive, ProbeDead, RepairPending,
         RepairIndex, RepairPromote, RepairStatus, RepairFails, Untrack, Promote,
         Rename, File
  <2>18. ASSUME \/ Start \/ StartWatcher
        PROVE  UNCHANGED <<task, data, seen, done, told>>
    BY <2>18 DEF Start, StartWatcher
  <2>19. CASE UNCHANGED <<task, data, seen, done, told>>
    BY <2>t, <2>19
  <2> QED
    BY <2>1, <2>2, <2>3, <2>4, <2>5, <2>6, <2>7, <2>8, <2>9, <2>10, <2>11, <2>12,
       <2>13, <2>14, <2>15, <2>16, <2>17, <2>18, <2>19 DEF Next, RunnerStep, TaskStep,
       ReconcileStart, ReconcileStep, vars, runnerVars, fileVars, jobVars, toldVars
<1> QED
  BY <1>1, <1>2

\* What the session was told it stays told.
LEMMA ToldSteps ==
  ASSUME TypeInv, [Next]_vars, NEW q \in Runs
  PROVE  told[q] \subseteq told'[q]
<1> DEFINE Kept == told[q] \subseteq told'[q]
<1> USE DEF runnerVars, fileVars, jobVars, toldVars
<1>h. Held \subseteq Runs
  BY DEF Held
<1>1. ASSUME NEW r \in Runs, SendNow(r) PROVE Kept
  <2>1. CASE Accept({r})
    BY <1>h, <1>1, <2>1, AcceptFacts DEF TypeInv
  <2>2. CASE Refuse({r})
    BY <2>2 DEF Refuse
  <2> QED
    BY <1>1, <2>1, <2>2 DEF SendNow, Send
<1>2. ASSUME EmitBatch PROVE Kept
  <2>1. CASE Accept(Held)
    BY <1>h, <1>2, <2>1, AcceptFacts DEF TypeInv
  <2>2. CASE Refuse(Held)
    BY <2>2 DEF Refuse
  <2> QED
    BY <1>2, <2>1, <2>2 DEF EmitBatch, Send
<1>3. ASSUME NEW r \in Runs, NEW o \in Outcomes,
            \/ EndEarly(r, o) \/ FinishRun(r, o)
      PROVE  UNCHANGED told
  BY <1>3 DEF EndEarly, FinishRun
<1>4. ASSUME NEW r \in Runs,
            \/ WritePending(r) \/ WriteIndex(r) \/ PromoteResult(r)
            \/ WriteStatus(r) \/ FinalWriteFails(r) \/ Die(r) \/ WatchEvent(r)
            \/ Scan(r) \/ IgnoreResult(r) \/ ReadResult(r) \/ Acknowledge(r)
            \/ Hold(r) \/ MarkPending(r) \/ MarkIndex(r) \/ MarkPromote(r)
            \/ MarkFails(r) \/ Unlink(r) \/ UnlinkFails(r) \/ Unindex(r)
            \/ Unpend(r) \/ Forget(r) \/ StatusFromResult(r)
            \/ LookForResult(r) \/ NothingToReconcile(r) \/ ProbeAlive(r)
            \/ ProbeDead(r) \/ RepairPending(r) \/ RepairIndex(r)
            \/ RepairPromote(r) \/ RepairStatus(r) \/ RepairFails(r)
            \/ Untrack(r)
      PROVE  UNCHANGED told
  BY <1>4 DEF WritePending, WriteIndex, PromoteResult, WriteStatus, FinalWriteFails,
       Die, WatchEvent, Scan, IgnoreResult, ReadResult, Acknowledge, Hold,
       MarkPending, MarkIndex, MarkPromote, MarkFails, Unlink, UnlinkFails, Unindex,
       Unpend, Forget, StatusFromResult, LookForResult, NothingToReconcile,
       ProbeAlive, ProbeDead, RepairPending, RepairIndex, RepairPromote, RepairStatus,
       RepairFails, Untrack, Promote, Rename, File
<1>5. ASSUME \/ Stop \/ Start \/ StartWatcher
      PROVE  UNCHANGED told
  BY <1>5 DEF Stop, Start, StartWatcher
<1>6. CASE UNCHANGED told
  BY <1>6
<1> QED
  BY <1>1, <1>2, <1>3, <1>4, <1>5, <1>6 DEF Next, RunnerStep, TaskStep,
     ReconcileStart, ReconcileStep, vars, runnerVars, fileVars, jobVars, toldVars

\* MarkInv holds in every initial state and is kept by every step.
LEMMA MarkInvInductive ==
  ASSUME DeliveryAssumption
  PROVE  /\ Init => MarkInv
         /\ TypeInv /\ TaskInv /\ MarkInv /\ [Next]_vars => MarkInv'
<1>1. Init => MarkInv
  <2> SUFFICES ASSUME Init, NEW r \in Runs, NEW p \in Filed(r) PROVE ~p.marked
    BY DEF MarkInv
  <2>1. public[r] \subseteq {[outcome |-> outcome[r], marked |-> FALSE]} /\ pending[r] = {}
    BY DEF Init
  <2> QED
    BY <2>1 DEF Filed
<1>2. TypeInv /\ TaskInv /\ MarkInv /\ [Next]_vars => MarkInv'
  BY FilesSteps, ToldSteps DEF MarkInv, TaskInv, Promised
<1> QED
  BY <1>1, <1>2

\* FiledInv holds in every initial state and is kept by every step.
LEMMA FiledInvInductive ==
  ASSUME DeliveryAssumption
  PROVE  /\ Init => FiledInv
         /\ TypeInv /\ TaskInv /\ FiledInv /\ [Next]_vars => FiledInv'
<1> USE DeliveryAssumption DEF DeliveryAssumption, FiledInv, Filing, Repairing
<1>1. Init => FiledInv
  <2> SUFFICES ASSUME Init, NEW r \in Runs
               PROVE  status[r] # "running" \/ rc[r] \in Filing \/ rec[r] \in Repairing => Safe(r)
    OBVIOUS
  <2>1. CASE r \in Ended
    BY <2>1 DEF Init, Safe, Filed
  <2>2. CASE r \notin Ended
    BY <2>2 DEF Init
  <2> QED
    BY <2>1, <2>2
<1>2. TypeInv /\ TaskInv /\ FiledInv /\ [Next]_vars => FiledInv'
  <2> SUFFICES ASSUME TypeInv, TaskInv, FiledInv, [Next]_vars PROVE FiledInv'
    OBVIOUS
  <2> USE DEF runnerVars, fileVars, jobVars, toldVars
  <2>t. /\ rc \in [Runs -> Labels] /\ rec \in [Runs -> RepairAt]
        /\ status \in [Runs -> Outcomes \cup {"running"}]
    BY DEF TypeInv, RunnerOK, StatusOK, RecOK
  <2>s. \A q \in Runs : Safe(q) => Safe(q)'
    BY FilesSteps, ToldSteps DEF Safe, TaskInv, Promised
  <2> USE DEF RunnerGoto, ReconcileGoto
  <2>1. ASSUME NEW r \in Runs, NEW o \in Outcomes, EndEarly(r, o) PROVE FiledInv'
    BY <2>t, <2>s, <2>1, <2>s DEF EndEarly
  <2>2. ASSUME NEW r \in Runs, NEW o \in Outcomes, FinishRun(r, o) PROVE FiledInv'
    BY <2>t, <2>s, <2>2, <2>s DEF FinishRun
  <2>3. ASSUME NEW r \in Runs, WritePending(r) PROVE FiledInv'
    <3>1. Safe(r)'
      <4>1. outcome[r] \in Outcomes /\ FilesOK
        BY <2>3 DEF TypeInv, RunnerOK, WritePending
      <4>2. File(r, outcome[r], FALSE) /\ UNCHANGED public
        BY <2>3 DEF WritePending
      <4> QED
        BY <4>1, <4>2, FileFacts DEF Safe
    <3>2. UNCHANGED <<status, rec>> /\ \E l : rc' = [rc EXCEPT ![r] = l]
      BY <2>3 DEF WritePending
    <3> QED
      BY <2>t, <2>s, <3>1, <3>2
  <2>4. ASSUME NEW r \in Runs, WriteIndex(r) PROVE FiledInv'
    BY <2>t, <2>s, <2>4, <2>s DEF WriteIndex
  <2>5. ASSUME NEW r \in Runs, PromoteResult(r) PROVE FiledInv'
    BY <2>t, <2>s, <2>5, <2>s DEF PromoteResult
  <2>6. ASSUME NEW r \in Runs, WriteStatus(r) PROVE FiledInv'
    BY <2>t, <2>s, <2>6, <2>s DEF WriteStatus
  <2>7. ASSUME NEW r \in Runs, FinalWriteFails(r) PROVE FiledInv'
    BY <2>t, <2>s, <2>7, <2>s DEF FinalWriteFails
  <2>8. ASSUME NEW r \in Runs, Die(r) PROVE FiledInv'
    BY <2>t, <2>s, <2>8, <2>s DEF Die
  <2>9. ASSUME NEW r \in Runs, StatusFromResult(r) PROVE FiledInv'
    <3>1. Safe(r)
      BY <2>9 DEF StatusFromResult, Safe
    <3>2. /\ rec' = [rec EXCEPT ![r] = "idle"] /\ UNCHANGED rc
          /\ \E o : status' = [status EXCEPT ![r] = o]
      BY <2>9 DEF StatusFromResult, EndReconcile
    <3> QED
      BY <2>t, <2>s, <3>1, <3>2
  <2>10. ASSUME NEW r \in Runs, LookForResult(r) PROVE FiledInv'
    BY <2>t, <2>s, <2>10, <2>s DEF LookForResult
  <2>11. ASSUME NEW r \in Runs, NothingToReconcile(r) PROVE FiledInv'
    BY <2>t, <2>s, <2>11, <2>s DEF NothingToReconcile, EndReconcile
  <2>12. ASSUME NEW r \in Runs, ProbeAlive(r) PROVE FiledInv'
    BY <2>t, <2>s, <2>12, <2>s DEF ProbeAlive, EndReconcile
  <2>13. ASSUME NEW r \in Runs, ProbeDead(r) PROVE FiledInv'
    BY <2>t, <2>s, <2>13, <2>s DEF ProbeDead
  <2>14. ASSUME NEW r \in Runs, RepairPending(r) PROVE FiledInv'
    <3>1. Safe(r)'
      <4>1. File(r, "failed", FALSE) /\ UNCHANGED public /\ FilesOK
        BY <2>14 DEF TypeInv, RepairPending
      <4> QED
        BY <4>1, FileFacts DEF Safe, Outcomes
    <3>2. UNCHANGED <<status, rc>> /\ rec' = [rec EXCEPT ![r] = "repairIndex"]
      BY <2>14 DEF RepairPending
    <3> QED
      BY <2>t, <2>s, <3>1, <3>2
  <2>15. ASSUME NEW r \in Runs, RepairIndex(r) PROVE FiledInv'
    BY <2>t, <2>s, <2>15, <2>s DEF RepairIndex
  <2>16. ASSUME NEW r \in Runs, RepairPromote(r) PROVE FiledInv'
    BY <2>t, <2>s, <2>16, <2>s DEF RepairPromote
  <2>17. ASSUME NEW r \in Runs, RepairStatus(r) PROVE FiledInv'
    BY <2>t, <2>s, <2>17, <2>s DEF RepairStatus, EndReconcile
  <2>18. ASSUME NEW r \in Runs, RepairFails(r) PROVE FiledInv'
    BY <2>t, <2>s, <2>18, <2>s DEF RepairFails
  <2>19. ASSUME Stop PROVE FiledInv'
    BY <2>t, <2>s, <2>19, <2>s DEF Stop
  <2>20. ASSUME NEW r \in Runs,
              \/ WatchEvent(r) \/ Scan(r) \/ IgnoreResult(r) \/ ReadResult(r)
              \/ Acknowledge(r) \/ Hold(r) \/ SendNow(r) \/ MarkPending(r)
              \/ MarkIndex(r) \/ MarkPromote(r) \/ MarkFails(r) \/ Unlink(r)
              \/ UnlinkFails(r) \/ Unindex(r) \/ Unpend(r) \/ Forget(r)
              \/ Untrack(r)
        PROVE  UNCHANGED <<status, rc, rec>>
    BY <2>20 DEF WatchEvent, Scan, IgnoreResult, ReadResult, Acknowledge, Hold,
         SendNow, MarkPending, MarkIndex, MarkPromote, MarkFails, Unlink, UnlinkFails,
         Unindex, Unpend, Forget, Untrack, Send, Accept, Refuse, Promote, Rename, File
  <2>21. ASSUME \/ EmitBatch \/ Start \/ StartWatcher
        PROVE  UNCHANGED <<status, rc, rec>>
    BY <2>21 DEF EmitBatch, Start, StartWatcher, Send, Accept, Refuse
  <2>22. CASE UNCHANGED <<status, rc, rec>>
    BY <2>t, <2>s, <2>22
  <2> QED
    BY <2>1, <2>2, <2>3, <2>4, <2>5, <2>6, <2>7, <2>8, <2>9, <2>10, <2>11, <2>12,
       <2>13, <2>14, <2>15, <2>16, <2>17, <2>18, <2>19, <2>20, <2>21, <2>22 DEF Next,
       RunnerStep, TaskStep, ReconcileStart, ReconcileStep, vars, runnerVars,
       fileVars, jobVars, toldVars
<1> QED
  BY <1>1, <1>2

\* Every behaviour satisfies the invariants in every state.
LEMMA FiledInvariant ==
  DeliveryAssumption => (Spec => [](TypeInv /\ TaskInv /\ MarkInv /\ FiledInv))
<1> SUFFICES ASSUME DeliveryAssumption
             PROVE Spec => [](TypeInv /\ TaskInv /\ MarkInv /\ FiledInv)
  OBVIOUS
<1> QED
  BY TypeInvariant, TaskInvInductive, MarkInvInductive, FiledInvInductive, PTL DEF Spec

\* When a status says that a run is over, its session was told or a result is on
\* disk for the watcher to deliver: for any number of runs, of kills, of failed
\* writes and of runtimes that end and start again, and whatever the order of
\* the writes of runner (writeAsyncResultFile), watcher (handleResult) and
\* reconciler (writeFailedRepair).
THEOREM EndsAreReported == DeliveryAssumption => (Spec => []NoEndGoesUnreported)
<1> SUFFICES ASSUME DeliveryAssumption PROVE Spec => []NoEndGoesUnreported
  OBVIOUS
<1>1. FiledInv => NoEndGoesUnreported
  BY DEF FiledInv, NoEndGoesUnreported, Safe
<1> QED
  BY FiledInvariant, <1>1, PTL

\* notify.ts:4-6, result files "are deleted only after sendMessage() accepts the
\* notification": removeDeliveredResult, whatever promotions, repairs and
\* restarts come between the message and the removal.
THEOREM DeletedAfterMessage == DeliveryAssumption => (Spec => DeletedOnlyOnceTold)
<1> SUFFICES ASSUME DeliveryAssumption PROVE Spec => DeletedOnlyOnceTold
  OBVIOUS
<1>1. TypeInv /\ TaskInv /\ [Next]_vars =>
        [\A r \in Runs : Filed(r) # {} /\ Filed(r)' = {} => told[r] # {}]_vars
  BY FilesSteps DEF TaskInv, Promised
<1> QED
  BY FiledInvariant, <1>1, PTL DEF Spec, DeletedOnlyOnceTold

-----------------------------------------------------------------------------
(* One message a run and runtime: the notifier's seen map counts it, also    *)
(* while the run waits in a batch.                                           *)

CountInv ==
  \A r \in Runs :
    /\ task[r] = "held" => r \notin seen
    /\ count[r] = IF r \in seen THEN 1 ELSE 0

\* CountInv holds in every initial state and is kept by every step.
LEMMA CountInvInductive ==
  /\ Init => CountInv
  /\ TypeInv /\ CountInv /\ [Next]_vars => CountInv'
<1> USE  DEF CountInv
<1>1. Init => CountInv
  BY DEF Init
<1>2. TypeInv /\ CountInv /\ [Next]_vars => CountInv'
  <2> SUFFICES ASSUME TypeInv, CountInv, [Next]_vars PROVE CountInv'
    OBVIOUS
  <2> USE DEF runnerVars, fileVars, jobVars, toldVars
  <2>t. /\ task \in [Runs -> TaskAt] /\ data \in [Runs -> SUBSET Payload]
        /\ told \in [Runs -> SUBSET Outcomes] /\ seen \subseteq Runs /\ done \subseteq Runs
    BY DEF TypeInv, TaskOK, ToldOK
  <2> USE DEF Goto
  <2>1. ASSUME NEW r \in Runs, ReadResult(r) PROVE CountInv'
    BY <2>t, <2>1 DEF ReadResult
  <2>2. ASSUME NEW r \in Runs, Acknowledge(r) PROVE CountInv'
    BY <2>t, <2>2 DEF Acknowledge
  <2>3. ASSUME NEW r \in Runs, Hold(r) PROVE CountInv'
    BY <2>t, <2>3 DEF Hold, AlreadyTold
  <2>4. ASSUME NEW r \in Runs, SendNow(r) PROVE CountInv'
    <3>1. CASE Accept({r})
      <4>1. \A q \in {r} : q \in Runs /\ count[q] = 0 /\ q \notin seen
        BY <2>4 DEF SendNow, Urgent, Held, AlreadyTold
      <4>2. /\ task' = [q \in Runs |-> IF q \in {r} THEN "mark" ELSE task[q]]
            /\ seen' = seen \cup {r}
            /\ \A q \in Runs : count'[q] = IF q \in {r} /\ count[q] < 2 THEN count[q] + 1 ELSE count[q]
        BY <3>1 DEF Accept
      <4> QED
        BY <2>t, <4>1, <4>2
    <3>2. CASE Refuse({r})
      BY <2>t, <2>4, <3>2 DEF SendNow, Send, Refuse
    <3> QED
      BY <2>4, <3>1, <3>2 DEF SendNow, Send
  <2>5. ASSUME NEW r \in Runs, MarkPending(r) PROVE CountInv'
    BY <2>t, <2>5 DEF MarkPending
  <2>6. ASSUME NEW r \in Runs, MarkIndex(r) PROVE CountInv'
    BY <2>t, <2>6 DEF MarkIndex
  <2>7. ASSUME NEW r \in Runs, MarkPromote(r) PROVE CountInv'
    BY <2>t, <2>7 DEF MarkPromote
  <2>8. ASSUME NEW r \in Runs, MarkFails(r) PROVE CountInv'
    BY <2>t, <2>8 DEF MarkFails
  <2>9. ASSUME NEW r \in Runs, Unlink(r) PROVE CountInv'
    BY <2>t, <2>9 DEF Unlink
  <2>10. ASSUME NEW r \in Runs, UnlinkFails(r) PROVE CountInv'
    BY <2>t, <2>10 DEF UnlinkFails
  <2>11. ASSUME NEW r \in Runs, Unindex(r) PROVE CountInv'
    BY <2>t, <2>11 DEF Unindex
  <2>12. ASSUME NEW r \in Runs, Unpend(r) PROVE CountInv'
    BY <2>t, <2>12 DEF Unpend
  <2>13. ASSUME NEW r \in Runs, Forget(r) PROVE CountInv'
    <3>1. UNCHANGED task
      BY <2>13 DEF Forget
    <3>2. CASE seen' = seen \ {r} /\ count' = [count EXCEPT ![r] = 0]
      <4>1. \A q \in Runs : count'[q] = IF q = r THEN 0 ELSE count[q]
        BY <3>2 DEF TypeInv, ToldOK
      <4> QED
        BY <3>1, <3>2, <4>1
    <3>3. CASE UNCHANGED <<seen, count>>
      BY <3>1, <3>3
    <3> QED
      BY <2>13, <3>2, <3>3 DEF Forget
  <2>14. ASSUME EmitBatch PROVE CountInv'
    <3>1. CASE Accept(Held)
      <4>1. \A q \in Held : q \in Runs /\ count[q] = 0 /\ q \notin seen
        BY <2>14 DEF EmitBatch, Urgent, Held, AlreadyTold
      <4>2. /\ task' = [q \in Runs |-> IF q \in Held THEN "mark" ELSE task[q]]
            /\ seen' = seen \cup Held
            /\ \A q \in Runs : count'[q] = IF q \in Held /\ count[q] < 2 THEN count[q] + 1 ELSE count[q]
        BY <3>1 DEF Accept
      <4> QED
        BY <2>t, <4>1, <4>2
    <3>2. CASE Refuse(Held)
      BY <2>t, <2>14, <3>2 DEF EmitBatch, Send, Refuse
    <3> QED
      BY <2>14, <3>1, <3>2 DEF EmitBatch, Send
  <2>15. ASSUME Stop PROVE CountInv'
    BY <2>t, <2>15 DEF Stop
  <2>16. ASSUME NEW r \in Runs, NEW o \in Outcomes,
              \/ EndEarly(r, o) \/ FinishRun(r, o)
        PROVE  UNCHANGED <<task, seen, count>>
    BY <2>16 DEF EndEarly, FinishRun
  <2>17. ASSUME NEW r \in Runs,
              \/ WritePending(r) \/ WriteIndex(r) \/ PromoteResult(r)
              \/ WriteStatus(r) \/ FinalWriteFails(r) \/ Die(r) \/ WatchEvent(r)
              \/ Scan(r) \/ IgnoreResult(r) \/ StatusFromResult(r)
              \/ LookForResult(r) \/ NothingToReconcile(r) \/ ProbeAlive(r)
              \/ ProbeDead(r) \/ RepairPending(r) \/ RepairIndex(r)
              \/ RepairPromote(r) \/ RepairStatus(r) \/ RepairFails(r)
              \/ Untrack(r)
        PROVE  UNCHANGED <<task, seen, count>>
    BY <2>17 DEF WritePending, WriteIndex, PromoteResult, WriteStatus,
         FinalWriteFails, Die, WatchEvent, Scan, IgnoreResult, StatusFromResult,
         LookForResult, NothingToReconcile, ProbeAlive, ProbeDead, RepairPending,
         RepairIndex, RepairPromote, RepairStatus, RepairFails, Untrack, Promote,
         Rename, File
  <2>18. ASSUME \/ Start \/ StartWatcher
        PROVE  UNCHANGED <<task, seen, count>>
    BY <2>18 DEF Start, StartWatcher
  <2>19. CASE UNCHANGED <<task, seen, count>>
    BY <2>t, <2>19
  <2> QED
    BY <2>1, <2>2, <2>3, <2>4, <2>5, <2>6, <2>7, <2>8, <2>9, <2>10, <2>11, <2>12,
       <2>13, <2>14, <2>15, <2>16, <2>17, <2>18, <2>19 DEF Next, RunnerStep, TaskStep,
       ReconcileStart, ReconcileStep, vars, runnerVars, fileVars, jobVars, toldVars
<1> QED
  BY <1>1, <1>2

\* One runtime does not tell the session of a run twice before it forgets that
\* it did: markSeenWithTtl in notify.ts remembers it for ten minutes, and does so
\* before the batch resolves its promises, however often files, events, failed
\* marks and reconciled results bring the result back.
THEOREM ToldAtMostOnce == DeliveryAssumption => (Spec => []ToldOncePerRuntime)
<1> SUFFICES ASSUME DeliveryAssumption PROVE Spec => []ToldOncePerRuntime
  OBVIOUS
<1>1. CountInv => ToldOncePerRuntime
  BY DEF CountInv, ToldOncePerRuntime
<1> QED
  BY TypeInvariant, CountInvInductive, <1>1, PTL DEF Spec

-----------------------------------------------------------------------------
(* The delivery implements Delivery.  The abstract session is told from a    *)
(* result that is there, and a task that has read one keeps it there.        *)

ReadInv ==
  \A r \in Runs : task[r] \in {"deliver", "held"} => Filed(r) # {}

\* ReadInv holds in every initial state and is kept by every step.
LEMMA ReadInvInductive ==
  /\ Init => ReadInv
  /\ TypeInv /\ ReadInv /\ [Next]_vars => ReadInv'
<1> USE  DEF ReadInv
<1>1. Init => ReadInv
  BY DEF Init
<1>2. TypeInv /\ ReadInv /\ [Next]_vars => ReadInv'
  <2> SUFFICES ASSUME TypeInv, ReadInv, [Next]_vars PROVE ReadInv'
    OBVIOUS
  <2> USE DEF runnerVars, fileVars, jobVars, toldVars
  <2>t. task \in [Runs -> TaskAt]
    BY DEF TypeInv, TaskOK
  <2>s. \A q \in Runs : task[q] \notin {"unlink", "unpend"} /\ Filed(q) # {} => Filed(q)' # {}
    BY FilesSteps
  <2> USE DEF Goto
  <2>1. ASSUME NEW r \in Runs, ReadResult(r) PROVE ReadInv'
    <3>1. Filed(r)' # {}
      BY <2>1, PromoteFacts DEF ReadResult, TypeInv
    <3>2. task' = [task EXCEPT ![r] = "unlink"] \/ task' = [task EXCEPT ![r] = "deliver"]
      BY <2>1 DEF ReadResult
    <3> QED
      BY <2>t, <2>s, <3>1, <3>2
  <2>2. ASSUME NEW r \in Runs, Acknowledge(r) PROVE ReadInv'
    BY <2>t, <2>s, <2>2 DEF Acknowledge
  <2>3. ASSUME NEW r \in Runs, Hold(r) PROVE ReadInv'
    BY <2>t, <2>s, <2>3 DEF Hold
  <2>4. ASSUME NEW r \in Runs, SendNow(r) PROVE ReadInv'
    BY <2>t, <2>s, <2>4 DEF SendNow, Send, Accept, Refuse
  <2>5. ASSUME NEW r \in Runs, MarkPending(r) PROVE ReadInv'
    BY <2>t, <2>s, <2>5 DEF MarkPending
  <2>6. ASSUME NEW r \in Runs, MarkIndex(r) PROVE ReadInv'
    BY <2>t, <2>s, <2>6 DEF MarkIndex
  <2>7. ASSUME NEW r \in Runs, MarkPromote(r) PROVE ReadInv'
    BY <2>t, <2>s, <2>7 DEF MarkPromote
  <2>8. ASSUME NEW r \in Runs, MarkFails(r) PROVE ReadInv'
    BY <2>t, <2>s, <2>8 DEF MarkFails
  <2>9. ASSUME NEW r \in Runs, Unlink(r) PROVE ReadInv'
    BY <2>t, <2>s, <2>9 DEF Unlink
  <2>10. ASSUME NEW r \in Runs, UnlinkFails(r) PROVE ReadInv'
    BY <2>t, <2>s, <2>10 DEF UnlinkFails
  <2>11. ASSUME NEW r \in Runs, Unindex(r) PROVE ReadInv'
    BY <2>t, <2>s, <2>11 DEF Unindex
  <2>12. ASSUME NEW r \in Runs, Unpend(r) PROVE ReadInv'
    BY <2>t, <2>s, <2>12 DEF Unpend
  <2>13. ASSUME EmitBatch PROVE ReadInv'
    BY <2>t, <2>s, <2>13 DEF EmitBatch, Send, Accept, Refuse
  <2>14. ASSUME Stop PROVE ReadInv'
    BY <2>t, <2>s, <2>14 DEF Stop
  <2>15. ASSUME NEW r \in Runs, NEW o \in Outcomes,
              \/ EndEarly(r, o) \/ FinishRun(r, o)
        PROVE  UNCHANGED task
    BY <2>15 DEF EndEarly, FinishRun
  <2>16. ASSUME NEW r \in Runs,
              \/ WritePending(r) \/ WriteIndex(r) \/ PromoteResult(r)
              \/ WriteStatus(r) \/ FinalWriteFails(r) \/ Die(r) \/ WatchEvent(r)
              \/ Scan(r) \/ IgnoreResult(r) \/ Forget(r) \/ StatusFromResult(r)
              \/ LookForResult(r) \/ NothingToReconcile(r) \/ ProbeAlive(r)
              \/ ProbeDead(r) \/ RepairPending(r) \/ RepairIndex(r)
              \/ RepairPromote(r) \/ RepairStatus(r) \/ RepairFails(r)
              \/ Untrack(r)
        PROVE  UNCHANGED task
    BY <2>16 DEF WritePending, WriteIndex, PromoteResult, WriteStatus,
         FinalWriteFails, Die, WatchEvent, Scan, IgnoreResult, Forget,
         StatusFromResult, LookForResult, NothingToReconcile, ProbeAlive, ProbeDead,
         RepairPending, RepairIndex, RepairPromote, RepairStatus, RepairFails,
         Untrack, Promote, Rename, File
  <2>17. ASSUME \/ Start \/ StartWatcher
        PROVE  UNCHANGED task
    BY <2>17 DEF Start, StartWatcher
  <2>18. CASE UNCHANGED task
    BY <2>t, <2>s, <2>18
  <2> QED
    BY <2>1, <2>2, <2>3, <2>4, <2>5, <2>6, <2>7, <2>8, <2>9, <2>10, <2>11, <2>12,
       <2>13, <2>14, <2>15, <2>16, <2>17, <2>18 DEF Next, RunnerStep, TaskStep,
       ReconcileStart, ReconcileStep, vars, runnerVars, fileVars, jobVars, toldVars
<1> QED
  BY <1>1, <1>2

\* What the session sees: the ends that are shown, the results on disk, the runs
\* it was told of.
Over      == {r \in Runs : status[r] # "running"}
FiledRuns == {r \in Runs : Filed(r) # {}}
ToldRuns  == {r \in Runs : told[r] # {}}

\* Every step of the delivery is a step of Delivery or leaves its state alone.
LEMMA StepOfDelivery ==
  ASSUME TypeInv, TaskInv, FiledInv, CountInv, ReadInv, [Next]_vars
  PROVE  [Report!Next]_(Report!delivery)
<1> DEFINE Mapped == [Report!Next]_(Report!delivery)
<1> USE DEF runnerVars, fileVars, jobVars, toldVars
<1>a. ASSUME NEW r \in Runs, FiledRuns' = FiledRuns \cup {r}, UNCHANGED <<status, told, seen>>
      PROVE  Mapped
  BY <1>a DEF Report!Next, Report!FileResult, FiledRuns
<1>b. ASSUME NEW r \in Runs, r \in FiledRuns \cup ToldRuns, Over' = Over \cup {r},
             FiledRuns' = FiledRuns, UNCHANGED <<told, seen>>
      PROVE  Mapped
  BY <1>b DEF Report!Next, Report!ShowEnd, FiledRuns, ToldRuns, Over
<1>c. ASSUME NEW group \in SUBSET Runs, group \subseteq FiledRuns \ seen,
             ToldRuns' = ToldRuns \cup group, seen' = seen \cup group,
             UNCHANGED <<status, pending, public>>
      PROVE  Mapped
  <2>1. FiledRuns' = FiledRuns /\ Over' = Over
    BY <1>c DEF FiledRuns, Over, Filed
  <2> QED
    BY <1>c, <2>1 DEF Report!Next, Report!Tell, FiledRuns, ToldRuns, Over
<1>d. ASSUME NEW r \in Runs, r \in ToldRuns, FiledRuns' \in {FiledRuns, FiledRuns \ {r}},
             UNCHANGED <<status, told, seen>>
      PROVE  Mapped
  BY <1>d DEF Report!Next, Report!RemoveResult, Report!delivery, FiledRuns, ToldRuns, Over
<1>e. ASSUME NEW group \in SUBSET Runs, seen' = seen \ group, FiledRuns' = FiledRuns,
             UNCHANGED <<status, told>>
      PROVE  Mapped
  BY <1>e DEF Report!Next, Report!Forget, FiledRuns, ToldRuns, Over
<1>u. ASSUME FiledRuns' = FiledRuns, UNCHANGED <<status, told, seen>> PROVE Mapped
  BY <1>u DEF Report!delivery, FiledRuns
<1>n. ASSUME UNCHANGED <<status, pending, public, told, seen>> PROVE Mapped
  BY <1>n, <1>u DEF FiledRuns, Filed
<1> SUFFICES Mapped
  OBVIOUS
<1> HIDE DEF Mapped
<1>t. /\ FilesOK /\ \A r \in Runs : OutcomeRead(r) \subseteq Outcomes
      /\ \A r \in Runs : rc[r] \notin {"working", "gone"} => outcome[r] \in Outcomes
      /\ status \in [Runs -> Outcomes \cup {"running"}] /\ seen \subseteq Runs
  BY DEF TypeInv, TaskOK, RunnerOK, StatusOK, ToldOK, OutcomeRead, Payload
<1>p. ASSUME NEW r \in Runs, Promote(r) \/ UNCHANGED <<pending, public>>
      PROVE  FiledRuns' = FiledRuns
  <2>1. CASE Promote(r)
    BY <1>t, <2>1, PromoteFacts DEF FiledRuns
  <2>2. CASE UNCHANGED <<pending, public>>
    BY <2>2 DEF FiledRuns, Filed
  <2> QED
    BY <1>p, <2>1, <2>2
<1>f. ASSUME NEW r \in Runs, NEW o \in Outcomes, NEW m \in BOOLEAN, File(r, o, m), UNCHANGED public
      PROVE  FiledRuns' = FiledRuns \cup {r}
  BY <1>t, <1>f, FileFacts DEF FiledRuns
<1>s. \A r \in Runs : Safe(r) => r \in FiledRuns \cup ToldRuns
  BY DEF Safe, FiledRuns, ToldRuns
<1>g. ASSUME NEW group \in SUBSET Runs, Accept(group), UNCHANGED <<status, pending, public>>,
             \A q \in group : task[q] \in {"deliver", "held"} /\ q \notin seen
      PROVE  Mapped
  <2>1. group \subseteq FiledRuns \ seen
    BY <1>g DEF ReadInv, FiledRuns
  <2>2. \A q \in group : OutcomeRead(q) # {}
    BY <1>g DEF TaskInv, OutcomeRead
  <2>3. ToldRuns' = ToldRuns \cup group
    <3>1. told' = [r \in Runs |-> IF r \in group THEN told[r] \cup OutcomeRead(r) ELSE told[r]]
      BY <1>g DEF Accept
    <3> QED
      BY <2>2, <3>1 DEF ToldRuns
  <2>4. seen' = seen \cup group
    BY <1>g DEF Accept
  <2> QED
    BY <1>g, <1>c, <2>1, <2>3, <2>4
<1>1. ASSUME NEW r \in Runs, WritePending(r) PROVE Mapped
  <2>1. FiledRuns' = FiledRuns \cup {r}
    BY <1>1, <1>t, <1>f DEF WritePending
  <2> QED
    BY <1>1, <2>1, <1>a DEF WritePending
<1>2. ASSUME NEW r \in Runs, PromoteResult(r) PROVE Mapped
  <2>1. FiledRuns' = FiledRuns
    BY <1>2, <1>p DEF PromoteResult
  <2> QED
    BY <1>2, <2>1, <1>u DEF PromoteResult
<1>3. ASSUME NEW r \in Runs, WriteStatus(r) PROVE Mapped
  <2>1. r \in FiledRuns \cup ToldRuns
    BY <1>3, <1>s DEF WriteStatus, FiledInv, Filing
  <2>2. PICK o \in Outcomes : status' = [status EXCEPT ![r] = o]
    BY <1>3, <1>t DEF WriteStatus
  <2>3. Over' = Over \cup {r}
    BY <1>t, <2>2 DEF Over, Outcomes
  <2>4. FiledRuns' = FiledRuns
    BY <1>3, <1>p DEF WriteStatus
  <2> QED
    BY <1>3, <1>b, <2>1, <2>3, <2>4 DEF WriteStatus
<1>4. ASSUME NEW r \in Runs, Scan(r) PROVE Mapped
  <2>1. FiledRuns' = FiledRuns
    BY <1>4, <1>p DEF Scan
  <2> QED
    BY <1>4, <2>1, <1>u DEF Scan
<1>5. ASSUME NEW r \in Runs, ReadResult(r) PROVE Mapped
  <2>1. FiledRuns' = FiledRuns
    BY <1>5, <1>p DEF ReadResult
  <2> QED
    BY <1>5, <2>1, <1>u DEF ReadResult
<1>6. ASSUME NEW r \in Runs, SendNow(r) PROVE Mapped
  <2>1. CASE Accept({r})
    <3>1. \A q \in {r} : q \in Runs /\ task[q] \in {"deliver", "held"} /\ q \notin seen
      BY <1>6 DEF SendNow, Urgent, AlreadyTold
    <3>2. UNCHANGED <<status, pending, public>>
      BY <1>6 DEF SendNow, Send
    <3> QED
      BY <1>g, <2>1, <3>1, <3>2
  <2>2. CASE Refuse({r})
    BY <1>6, <2>2, <1>n DEF SendNow, Send, Refuse
  <2> QED
    BY <1>6, <2>1, <2>2 DEF SendNow, Send
<1>7. ASSUME NEW r \in Runs, MarkPending(r) PROVE Mapped
  <2>1. PICK o \in OutcomeRead(r) : File(r, o, TRUE)
    BY <1>7 DEF MarkPending
  <2>2. UNCHANGED <<public, status, told, seen>> /\ o \in Outcomes
    BY <1>7, <1>t DEF MarkPending
  <2>3. FiledRuns' = FiledRuns \cup {r}
    BY <2>1, <2>2, <1>f
  <2> QED
    BY <2>2, <2>3, <1>a
<1>8. ASSUME NEW r \in Runs, MarkPromote(r) PROVE Mapped
  <2>1. FiledRuns' = FiledRuns
    BY <1>8, <1>p DEF MarkPromote
  <2> QED
    BY <1>8, <2>1, <1>u DEF MarkPromote
<1>9. ASSUME NEW r \in Runs, Unlink(r) PROVE Mapped
  <2>1. r \in ToldRuns
    BY <1>9 DEF Unlink, TaskInv, Promised, ToldRuns
  <2>2. \A q \in Runs : q # r => Filed(q)' = Filed(q)
    BY <1>9, <1>t DEF Unlink, Filed, FilesOK
  <2>3. FiledRuns' \in {FiledRuns, FiledRuns \cup {r}, FiledRuns \ {r}}
    BY <2>2 DEF FiledRuns
  <2>4. Filed(r)' \subseteq Filed(r)
    BY <1>9, <1>t DEF Unlink, Filed, FilesOK
  <2>5. FiledRuns' \in {FiledRuns, FiledRuns \ {r}}
    BY <2>3, <2>4 DEF FiledRuns
  <2> QED
    BY <1>9, <1>d, <2>1, <2>5 DEF Unlink
<1>10. ASSUME NEW r \in Runs, Unpend(r) PROVE Mapped
  <2>1. r \in ToldRuns
    BY <1>10 DEF Unpend, TaskInv, Promised, ToldRuns
  <2>2. \A q \in Runs : q # r => Filed(q)' = Filed(q)
    BY <1>10, <1>t DEF Unpend, Filed, FilesOK
  <2>3. FiledRuns' \in {FiledRuns, FiledRuns \cup {r}, FiledRuns \ {r}}
    BY <2>2 DEF FiledRuns
  <2>4. Filed(r)' \subseteq Filed(r)
    BY <1>10, <1>t DEF Unpend, Filed, FilesOK
  <2>5. FiledRuns' \in {FiledRuns, FiledRuns \ {r}}
    BY <2>3, <2>4 DEF FiledRuns
  <2> QED
    BY <1>10, <1>d, <2>1, <2>5 DEF Unpend
<1>11. ASSUME NEW r \in Runs, Forget(r) PROVE Mapped
  <2>1. UNCHANGED <<status, pending, public, told>>
    BY <1>11 DEF Forget
  <2>2. FiledRuns' = FiledRuns
    BY <2>1 DEF FiledRuns, Filed
  <2>3. CASE seen' = seen \ {r}
    BY <2>1, <2>2, <2>3, <1>e
  <2>4. CASE seen' = seen
    BY <2>1, <2>2, <2>4, <1>u
  <2> QED
    BY <1>11, <2>3, <2>4 DEF Forget
<1>12. ASSUME NEW r \in Runs, StatusFromResult(r) PROVE Mapped
  <2>1. r \in FiledRuns \cup ToldRuns
    BY <1>12 DEF StatusFromResult, FiledRuns
  <2>2. PICK o \in Outcomes : status' = [status EXCEPT ![r] = o]
    <3>1. PICK p \in FoundAfter(r) : status' = [status EXCEPT ![r] = p.outcome]
      BY <1>12 DEF StatusFromResult
    <3>2. FoundAfter(r) \subseteq Filed(r)
      <4>1. CASE Promote(r)
        BY <1>t, <4>1, PromoteFacts
      <4>2. CASE UNCHANGED <<pending, public>>
        BY <4>2 DEF FoundAfter, Filed
      <4> QED
        BY <1>12, <4>1, <4>2 DEF StatusFromResult
    <3>3. p \in Payload
      BY <1>t, <3>1, <3>2 DEF FilesOK, Filed, Contents
    <3>4. p.outcome \in Outcomes
      BY <3>3 DEF Payload
    <3> QED
      BY <3>1, <3>4
  <2>3. Over' = Over \cup {r}
    BY <1>t, <2>2 DEF Over, Outcomes
  <2>4. FiledRuns' = FiledRuns
    BY <1>12, <1>p DEF StatusFromResult
  <2> QED
    BY <1>12, <1>b, <2>1, <2>3, <2>4 DEF StatusFromResult
<1>13. ASSUME NEW r \in Runs, RepairPending(r) PROVE Mapped
  <2>1. FiledRuns' = FiledRuns \cup {r}
    BY <1>13, <1>f DEF RepairPending, Outcomes
  <2> QED
    BY <1>13, <2>1, <1>a DEF RepairPending
<1>14. ASSUME NEW r \in Runs, RepairPromote(r) PROVE Mapped
  <2>1. FiledRuns' = FiledRuns
    BY <1>14, <1>p DEF RepairPromote
  <2> QED
    BY <1>14, <2>1, <1>u DEF RepairPromote
<1>15. ASSUME NEW r \in Runs, RepairStatus(r) PROVE Mapped
  <2>1. r \in FiledRuns \cup ToldRuns
    BY <1>15, <1>s DEF RepairStatus, FiledInv, Repairing
  <2>2. PICK o \in Outcomes : status' = [status EXCEPT ![r] = o]
    BY <1>15 DEF RepairStatus, Outcomes
  <2>3. Over' = Over \cup {r}
    BY <1>t, <2>2 DEF Over, Outcomes
  <2>4. FiledRuns' = FiledRuns
    BY <1>15, <1>p DEF RepairStatus
  <2> QED
    BY <1>15, <1>b, <2>1, <2>3, <2>4 DEF RepairStatus
<1>16. ASSUME EmitBatch PROVE Mapped
  <2>1. CASE Accept(Held)
    <3>1. \A q \in Held : q \in Runs /\ task[q] \in {"deliver", "held"} /\ q \notin seen
      BY <1>16 DEF Held, CountInv
    <3>2. UNCHANGED <<status, pending, public>>
      BY <1>16 DEF EmitBatch, Send
    <3> QED
      BY <1>g, <2>1, <3>1, <3>2
  <2>2. CASE Refuse(Held)
    BY <1>16, <2>2, <1>n DEF EmitBatch, Send, Refuse
  <2> QED
    BY <1>16, <2>1, <2>2 DEF EmitBatch, Send
<1>17. ASSUME Stop PROVE Mapped
  <2>1. UNCHANGED <<status, pending, public, told>> /\ seen' = seen \ Runs
    BY <1>17, <1>t DEF Stop
  <2>2. FiledRuns' = FiledRuns
    BY <2>1 DEF FiledRuns, Filed
  <2> QED
    BY <2>1, <2>2, <1>e
<1>18. ASSUME NEW r \in Runs, NEW o \in Outcomes,
            \/ EndEarly(r, o) \/ FinishRun(r, o)
      PROVE  UNCHANGED <<status, pending, public, told, seen>>
  BY <1>18 DEF EndEarly, FinishRun
<1>19. ASSUME NEW r \in Runs,
            \/ WriteIndex(r) \/ FinalWriteFails(r) \/ Die(r) \/ WatchEvent(r)
            \/ IgnoreResult(r) \/ Acknowledge(r) \/ Hold(r) \/ MarkIndex(r)
            \/ MarkFails(r) \/ UnlinkFails(r) \/ Unindex(r) \/ LookForResult(r)
            \/ NothingToReconcile(r) \/ ProbeAlive(r) \/ ProbeDead(r)
            \/ RepairIndex(r) \/ RepairFails(r) \/ Untrack(r)
      PROVE  UNCHANGED <<status, pending, public, told, seen>>
  BY <1>19 DEF WriteIndex, FinalWriteFails, Die, WatchEvent, IgnoreResult,
       Acknowledge, Hold, MarkIndex, MarkFails, UnlinkFails, Unindex, LookForResult,
       NothingToReconcile, ProbeAlive, ProbeDead, RepairIndex, RepairFails, Untrack
<1>20. ASSUME \/ Start \/ StartWatcher
      PROVE  UNCHANGED <<status, pending, public, told, seen>>
  BY <1>20 DEF Start, StartWatcher
<1>21. CASE UNCHANGED <<status, pending, public, told, seen>>
  BY <1>21, <1>n
<1> QED
  BY <1>1, <1>2, <1>3, <1>4, <1>5, <1>6, <1>7, <1>8, <1>9, <1>10, <1>11, <1>12, <1>13,
     <1>14, <1>15, <1>16, <1>17, <1>18, <1>19, <1>20, <1>21 DEF Next, RunnerStep,
     TaskStep, ReconcileStart, ReconcileStep, vars, runnerVars, fileVars, jobVars,
     toldVars

\* The delivery of results (subagent-runner.ts, result-watcher.ts, notify.ts and
\* stale-run-reconciler.ts together) implements Delivery: whatever the order of
\* their steps and of the failures, the session sees an end only with its result
\* there or told, is told from a result and not again while its runtime
\* remembers, and a result goes away only when it was told.
THEOREM ImplementsDelivery == DeliveryAssumption => (Spec => Report!Spec)
<1> SUFFICES ASSUME DeliveryAssumption PROVE Spec => Report!Spec
  OBVIOUS
<1>1. Init => Report!Init
  <2> SUFFICES ASSUME Init PROVE Report!Init
    OBVIOUS
  <2>1. Over = Ended
    BY DEF Init, Over, DeliveryAssumption, Outcomes
  <2>2. FiledRuns = Ended
    BY DEF Init, FiledRuns, Filed, DeliveryAssumption
  <2>3. ToldRuns = {} /\ seen = {}
    BY DEF Init, ToldRuns
  <2> QED
    BY <2>1, <2>2, <2>3 DEF Report!Init, Over, FiledRuns, ToldRuns
<1>2. TypeInv /\ TaskInv /\ FiledInv /\ CountInv /\ ReadInv /\ [Next]_vars
        => [Report!Next]_(Report!delivery)
  BY StepOfDelivery
<1>3. Spec => [](TypeInv /\ TaskInv /\ FiledInv /\ CountInv /\ ReadInv)
  BY FiledInvariant, CountInvInductive, ReadInvInductive, PTL DEF Spec
<1> QED
  BY <1>1, <1>2, <1>3, PTL DEF Spec, Report!Spec
=============================================================================
