------------------------ MODULE SessionLease_proofs ------------------------
(***************************************************************************)
(* Proofs about the session lease: type correctness, the soundness of a    *)
(* stale verdict, mutual exclusion, and that the lease implements the      *)
(* abstract lock.                                                          *)
(***************************************************************************)
EXTENDS SessionLease, TLAPS

-----------------------------------------------------------------------------
(* Type correctness.  The bounds on the loop counter and on the writer      *)
(* generations, and that a judged record has an owner, hold because of      *)
(* where the program is.                                                    *)

Contending == {"create", "read", "judge", "tombstone"}

Bounds ==
  \A r \in Runners :
    /\ pc[r] \in Contending => attempt[r] < MaxAttempts
    /\ pc[r] \in {"judge", "tombstone"} => seen[r].owner \in Runners
    /\ pc[r] \in {"spawning", "registering"} => record[r].gen < MaxWriters

TypeInv == TypeOK /\ Bounds

\* Every initial state and every step keeps the variables in their types.
LEMMA TypeInvInductive ==
  ASSUME LeaseAssumption
  PROVE  /\ Init => TypeInv
         /\ TypeInv /\ [Next]_vars => TypeInv'
<1> USE LeaseAssumption DEF LeaseAssumption
<1>1. Init => TypeInv
  BY DEF Init, TypeInv, TypeOK, Bounds, Contending, Control, Holds, Emptied,
         Unread, Unspawned, WriterRecord
<1>2. TypeInv /\ [Next]_vars => TypeInv'
  <2> SUFFICES ASSUME TypeInv, [Next]_vars PROVE TypeInv'
    OBVIOUS
  <2> USE DEF TypeInv, TypeOK, Bounds, Contending, Control, Holds, Emptied,
              Goto, WriterRecord, Unread, Unspawned
  <2>1. ASSUME NEW r \in Runners, CreateLease(r) PROVE TypeInv'
    BY <2>1 DEF CreateLease
  <2>2. ASSUME NEW r \in Runners, ReadOwner(r) PROVE TypeInv'
    <3>1. CASE slot \in Runners
      <4>1. [owner |-> slot, rec |-> record[slot]] \in
              [owner : Runners \cup {NoRunner}, rec : WriterRecord]
        BY <3>1
      <4> QED
        BY <2>2, <3>1, <4>1 DEF ReadOwner
    <3>2. CASE slot \notin Runners
      <4>1. Unread \in [owner : Runners \cup {NoRunner}, rec : WriterRecord]
        OBVIOUS
      <4>2. /\ seen' = [seen EXCEPT ![r] = Unread]
            /\ pc' = [pc EXCEPT ![r] = "refused"]
            /\ UNCHANGED <<attempt, slot, record, tombs, writer>>
        BY <2>2, <3>2 DEF ReadOwner
      <4> HIDE DEF Unread
      <4> QED
        BY <4>1, <4>2
    <3> QED
      BY <3>1, <3>2
  <2>3. ASSUME NEW r \in Runners, JudgeOwner(r) PROVE TypeInv'
    BY <2>3 DEF JudgeOwner
  <2>4. ASSUME NEW r \in Runners, MoveToTombstone(r) PROVE TypeInv'
    <3>1. /\ pc[r] = "tombstone"
          /\ attempt' = [attempt EXCEPT ![r] = @ + 1]
          /\ pc' = [pc EXCEPT ![r] = IF attempt[r] + 1 = MaxAttempts
                                      THEN "lastRead" ELSE "create"]
          /\ UNCHANGED <<seen, record, writer>>
      BY <2>4 DEF MoveToTombstone
    <3>2. slot' \in {"absent", "empty"} \cup Runners /\ tombs' \subseteq Runners
      BY <2>4 DEF MoveToTombstone
    <3>3. attempt' \in [Runners -> 0..MaxAttempts]
      BY <3>1
    <3>4. pc' \in [Runners -> Control]
      BY <3>1
    <3>5. ASSUME NEW q \in Runners
          PROVE  /\ pc'[q] \in Contending => attempt'[q] < MaxAttempts
                 /\ pc'[q] \in {"judge", "tombstone"} => seen'[q].owner \in Runners
                 /\ pc'[q] \in {"spawning", "registering"}
                      => record'[q].gen < MaxWriters
      <4>1. CASE q = r
        <5>1. attempt[r] \in Nat /\ attempt[r] < MaxAttempts
          BY <3>1
        <5>2. attempt'[r] = attempt[r] + 1
          BY <3>1
        <5>3. CASE attempt[r] + 1 = MaxAttempts
          BY <3>1, <4>1, <5>3
        <5>4. CASE attempt[r] + 1 # MaxAttempts
          <6>1. attempt[r] + 1 < MaxAttempts
            BY <5>1, <5>4
          <6> QED
            BY <3>1, <4>1, <5>2, <5>4, <6>1
        <5> QED
          BY <5>3, <5>4
      <4>2. CASE q # r
        BY <3>1, <4>2
      <4> QED
        BY <4>1, <4>2
    <3> QED
      BY <3>1, <3>2, <3>3, <3>4, <3>5
  <2>5. ASSUME NEW r \in Runners, ReadForConflict(r) PROVE TypeInv'
    <3>1. (IF slot \in Runners THEN [owner |-> slot, rec |-> record[slot]]
                               ELSE Unread)
            \in [owner : Runners \cup {NoRunner}, rec : WriterRecord]
      OBVIOUS
    <3> QED
      BY <2>5, <3>1 DEF ReadForConflict
  <2>6. ASSUME NEW r \in Runners, BeginSpawn(r) PROVE TypeInv'
    <3>1. [record[r] EXCEPT !.state = "spawning"] \in WriterRecord
      OBVIOUS
    <3>2. record' \in [Runners -> WriterRecord]
      BY <2>6, <3>1 DEF BeginSpawn
    <3>3. \A q \in Runners : record'[q].gen = record[q].gen
      BY <2>6, SMTT(30) DEF BeginSpawn
    <3> QED
      BY <2>6, <3>2, <3>3 DEF BeginSpawn
  <2>7. ASSUME NEW r \in Runners, SpawnWriter(r) PROVE TypeInv'
    BY <2>7 DEF SpawnWriter
  <2>8. ASSUME NEW r \in Runners, SpawnFails(r) PROVE TypeInv'
    BY <2>8 DEF SpawnFails
  <2>9. ASSUME NEW r \in Runners, RegisterWriter(r) PROVE TypeInv'
    <3>1. /\ pc[r] = "registering"
          /\ pc' = [pc EXCEPT ![r] = "streaming"]
          /\ UNCHANGED <<attempt, seen, slot, tombs>>
      BY <2>9 DEF RegisterWriter
    <3>2. [state |-> "running", gen |-> record[r].gen + 1] \in WriterRecord
      BY <3>1
    <3>3. record' \in [Runners -> WriterRecord] /\ writer' \in [Runners -> 0..MaxWriters]
      <4>1. CASE slot = r
        <5>1. /\ record' = [record EXCEPT
                    ![r] = [state |-> "running", gen |-> record[r].gen + 1]]
              /\ writer' = writer
          BY <2>9, <4>1 DEF RegisterWriter
        <5> QED
          BY <3>2, <5>1
      <4>2. CASE slot # r
        BY <2>9, <4>2 DEF RegisterWriter
      <4> QED
        BY <4>1, <4>2
    <3>4. \A q \in Runners : q # r => record'[q] = record[q]
      BY <2>9 DEF RegisterWriter
    <3> QED
      BY <3>1, <3>3, <3>4
  <2>10. ASSUME NEW r \in Runners, WriterExit(r) PROVE TypeInv'
    BY <2>10 DEF WriterExit
  <2>11. ASSUME NEW r \in Runners, WriterClosed(r) PROVE TypeInv'
    BY <2>11 DEF WriterClosed
  <2>12. ASSUME NEW r \in Runners, FinishRun(r) \/ UncaughtException(r)
         PROVE TypeInv'
    BY <2>12 DEF FinishRun, UncaughtException
  <2>13. ASSUME NEW r \in Runners, UnlinkOwner(r) PROVE TypeInv'
    BY <2>13 DEF UnlinkOwner
  <2>14. ASSUME NEW r \in Runners, RemoveDirectory(r) PROVE TypeInv'
    BY <2>14 DEF RemoveDirectory
  <2>15. ASSUME NEW r \in Runners, VerifyRelease(r) PROVE TypeInv'
    BY <2>15 DEF VerifyRelease
  <2>16. ASSUME NEW r \in Runners, Die(r) PROVE TypeInv'
    BY <2>16 DEF Die
  <2>17. CASE UNCHANGED vars
    BY <2>17 DEF vars
  <2> QED
    BY <2>1, <2>2, <2>3, <2>4, <2>5, <2>6, <2>7, <2>8, <2>9, <2>10, <2>11,
       <2>12, <2>13, <2>14, <2>15, <2>16, <2>17 DEF Next, Step, OtherStep
<1> QED
  BY <1>1, <1>2

\* The type invariant of the lease: pc, attempt, seen, slot, record, tombs
\* and writer stay in their types in every behaviour.
THEOREM TypeCorrect == LeaseAssumption => (Spec => []TypeOK)
<1> SUFFICES ASSUME LeaseAssumption PROVE Spec => []TypeOK
  OBVIOUS
<1>1. TypeInv => TypeOK
  BY DEF TypeInv
<1> QED
  BY TypeInvInductive, <1>1, PTL DEF Spec

-----------------------------------------------------------------------------
(* A stale verdict on the owner's last record is right.  The record tells   *)
(* the truth about the writer at every control point: no writer under       *)
(* "none", at most the recorded one under "running"; "spawning" says        *)
(* nothing, which is why the code refuses to judge it.                      *)

TruthOf(r) ==
  /\ record[r].state = "none" => writer[r] = 0
  /\ record[r].state = "running" => writer[r] \in {0, record[r].gen}
  /\ pc[r] \in Contending \cup {"lastRead", "held"} => writer[r] = 0
  /\ pc[r] = "spawning" => record[r].state = "spawning" /\ writer[r] = 0
  /\ pc[r] = "registering" =>
       record[r].state = "spawning" /\ writer[r] \in {0, record[r].gen + 1}

RecordTellsTruth == \A r \in Runners : TruthOf(r)

VerdictInv == RecordTellsTruth /\ VerdictOnLastRecordIsRight

\* A step of a live runner that is not judging anybody disturbs no verdict:
\* only its own record and writer change, and no verdict is about it.
LEMMA OwnStepKeepsVerdicts ==
  ASSUME TypeInv, VerdictInv, NEW r \in Runners,
         pc[r] \notin {"dead", "gone", "tombstone"},
         pc'[r] # "tombstone",
         \A q \in Runners \ {r} :
           /\ pc'[q] = pc[q] /\ seen'[q] = seen[q]
           /\ record'[q] = record[q] /\ writer'[q] = writer[q],
         TruthOf(r)'
  PROVE  VerdictInv'
<1>1. \A q \in Runners : TruthOf(q)'
  <2>1. ASSUME NEW q \in Runners \ {r} PROVE TruthOf(q)'
    BY <2>1 DEF VerdictInv, RecordTellsTruth, TruthOf
  <2> QED
    BY <2>1
<1>2. ASSUME NEW c \in Runners, pc'[c] = "tombstone"
      PROVE  /\ pc'[seen'[c].owner] \in {"dead", "gone"}
             /\ seen'[c].rec = record'[seen'[c].owner] => writer'[seen'[c].owner] = 0
  <2>1. c # r /\ pc[c] = "tombstone"
    BY <1>2
  <2>2. seen[c].owner \in Runners /\ seen'[c] = seen[c]
    BY <2>1 DEF TypeInv, Bounds
  <2>3. pc[seen[c].owner] \in {"dead", "gone"}
    BY <2>1, <2>2, <1>2 DEF VerdictInv, VerdictOnLastRecordIsRight, Gone
  <2> QED
    BY <1>2, <2>1, <2>2, <2>3 DEF VerdictInv, VerdictOnLastRecordIsRight, Gone
<1>3. RecordTellsTruth'
  BY <1>1 DEF RecordTellsTruth
<1>4. VerdictOnLastRecordIsRight'
  BY <1>2 DEF VerdictOnLastRecordIsRight, Gone
<1> QED
  BY <1>3, <1>4 DEF VerdictInv

\* One step of runner r, or of r's writer, keeps the records truthful and the
\* verdicts right.
LEMMA VerdictInvInductive ==
  ASSUME LeaseAssumption
  PROVE  /\ Init => VerdictInv
         /\ TypeInv /\ VerdictInv /\ [Next]_vars => VerdictInv'
<1> USE LeaseAssumption DEF LeaseAssumption
<1>1. Init => VerdictInv
  BY DEF Init, VerdictInv, RecordTellsTruth, TruthOf, Contending,
         VerdictOnLastRecordIsRight, Unspawned
<1>2. TypeInv /\ VerdictInv /\ [Next]_vars => VerdictInv'
  <2> SUFFICES ASSUME TypeInv, VerdictInv, [Next]_vars PROVE VerdictInv'
    OBVIOUS
  <2>t. /\ pc \in [Runners -> Control]
        /\ seen \in [Runners -> [owner : Runners \cup {NoRunner}, rec : WriterRecord]]
        /\ record \in [Runners -> WriterRecord]
        /\ writer \in [Runners -> 0..MaxWriters]
        /\ \A r \in Runners : pc[r] \in {"judge", "tombstone"} => seen[r].owner \in Runners
    BY DEF TypeInv, TypeOK, Bounds
  <2> USE <2>t DEF VerdictInv, Contending, RecordTellsTruth, TruthOf, VerdictOnLastRecordIsRight, Gone,
                   Goto, WriterRecord
  <2>1. ASSUME NEW r \in Runners, CreateLease(r) PROVE VerdictInv'
    <3>1. TruthOf(r)'
      <4>1. /\ pc' \in {[pc EXCEPT ![r] = "read"], [pc EXCEPT ![r] = "held"]}
            /\ pc[r] = "create"
            /\ UNCHANGED <<record, writer>>
        BY <2>1 DEF CreateLease
      <4>2. writer[r] = 0
        BY <4>1
      <4> QED
        BY <4>1, <4>2
    <3>2. /\ pc[r] \notin {"dead", "gone", "tombstone"} /\ pc'[r] # "tombstone"
          /\ \A q \in Runners \ {r} :
               /\ pc'[q] = pc[q] /\ seen'[q] = seen[q]
               /\ record'[q] = record[q] /\ writer'[q] = writer[q]
      BY <2>1 DEF CreateLease
    <3> HIDE DEF VerdictInv, TruthOf
    <3> QED
      BY <3>1, <3>2, OwnStepKeepsVerdicts
  <2>2. ASSUME NEW r \in Runners, ReadOwner(r) \/ ReadForConflict(r) PROVE VerdictInv'
    <3>1. /\ pc[r] \in {"read", "lastRead"}
          /\ pc' \in {[pc EXCEPT ![r] = "judge"], [pc EXCEPT ![r] = "refused"]}
          /\ \A q \in Runners \ {r} : seen'[q] = seen[q]
          /\ UNCHANGED <<record, writer>>
      BY <2>2 DEF ReadOwner, ReadForConflict
    <3>2. TruthOf(r)'
      BY <3>1
    <3>3. /\ pc[r] \notin {"dead", "gone", "tombstone"} /\ pc'[r] # "tombstone"
          /\ \A q \in Runners \ {r} :
               /\ pc'[q] = pc[q] /\ seen'[q] = seen[q]
               /\ record'[q] = record[q] /\ writer'[q] = writer[q]
      BY <3>1
    <3> HIDE DEF VerdictInv, TruthOf
    <3> QED
      BY <3>2, <3>3, OwnStepKeepsVerdicts
  <2>3. ASSUME NEW r \in Runners, JudgeOwner(r) PROVE VerdictInv'
    <3>1. CASE DemonstrablyStale(r, seen[r].owner, seen[r].rec)
      <4>1. /\ pc[r] = "judge"
            /\ pc' = [pc EXCEPT ![r] = "tombstone"]
            /\ UNCHANGED <<seen, record, writer>>
        BY <2>3, <3>1 DEF JudgeOwner
      <4>2. seen[r].owner \in Runners /\ pc[seen[r].owner] \in {"dead", "gone"}
        BY <3>1, <4>1 DEF DemonstrablyStale
      <4>3. seen[r].rec = record[seen[r].owner] => writer[seen[r].owner] = 0
        <5>1. ASSUME NEW o \in Runners, NEW k \in WriterRecord,
                     k = record[o], DemonstrablyStale(r, o, k)
              PROVE  writer[o] = 0
          BY <5>1 DEF DemonstrablyStale, WriterGone
        <5> QED
          BY <3>1, <4>2, <5>1
      <4> QED
        BY <4>1, <4>2, <4>3
    <3>2. CASE ~DemonstrablyStale(r, seen[r].owner, seen[r].rec)
      BY <2>3, <3>2 DEF JudgeOwner
    <3> QED
      BY <3>1, <3>2
  <2>4. ASSUME NEW r \in Runners, MoveToTombstone(r) PROVE VerdictInv'
    <3>1. /\ pc' \in {[pc EXCEPT ![r] = "lastRead"], [pc EXCEPT ![r] = "create"]}
          /\ pc[r] = "tombstone"
          /\ UNCHANGED <<seen, record, writer>>
      BY <2>4 DEF MoveToTombstone
    <3> QED
      BY <3>1
  <2>5. ASSUME NEW r \in Runners, BeginSpawn(r) PROVE VerdictInv'
    <3>1. TruthOf(r)'
      BY <2>5 DEF BeginSpawn
    <3>2. /\ pc[r] \notin {"dead", "gone", "tombstone"} /\ pc'[r] # "tombstone"
          /\ \A q \in Runners \ {r} :
               /\ pc'[q] = pc[q] /\ seen'[q] = seen[q]
               /\ record'[q] = record[q] /\ writer'[q] = writer[q]
      BY <2>5 DEF BeginSpawn
    <3> HIDE DEF VerdictInv, TruthOf
    <3> QED
      BY <3>1, <3>2, OwnStepKeepsVerdicts
  <2>6. ASSUME NEW r \in Runners, SpawnWriter(r) PROVE VerdictInv'
    <3>1. TruthOf(r)'
      BY <2>6 DEF SpawnWriter
    <3>2. /\ pc[r] \notin {"dead", "gone", "tombstone"} /\ pc'[r] # "tombstone"
          /\ \A q \in Runners \ {r} :
               /\ pc'[q] = pc[q] /\ seen'[q] = seen[q]
               /\ record'[q] = record[q] /\ writer'[q] = writer[q]
      BY <2>6 DEF SpawnWriter
    <3> HIDE DEF VerdictInv, TruthOf
    <3> QED
      BY <3>1, <3>2, OwnStepKeepsVerdicts
  <2>7. ASSUME NEW r \in Runners, SpawnFails(r) PROVE VerdictInv'
    <3>1. TruthOf(r)'
      BY <2>7 DEF SpawnFails
    <3>2. /\ pc[r] \notin {"dead", "gone", "tombstone"} /\ pc'[r] # "tombstone"
          /\ \A q \in Runners \ {r} :
               /\ pc'[q] = pc[q] /\ seen'[q] = seen[q]
               /\ record'[q] = record[q] /\ writer'[q] = writer[q]
      BY <2>7 DEF SpawnFails
    <3> HIDE DEF VerdictInv, TruthOf
    <3> QED
      BY <3>1, <3>2, OwnStepKeepsVerdicts
  <2>8. ASSUME NEW r \in Runners, RegisterWriter(r) PROVE VerdictInv'
    <3>1. TruthOf(r)'
      BY <2>8 DEF RegisterWriter
    <3>2. /\ pc[r] \notin {"dead", "gone", "tombstone"} /\ pc'[r] # "tombstone"
          /\ \A q \in Runners \ {r} :
               /\ pc'[q] = pc[q] /\ seen'[q] = seen[q]
               /\ record'[q] = record[q] /\ writer'[q] = writer[q]
      BY <2>8 DEF RegisterWriter
    <3> HIDE DEF VerdictInv, TruthOf
    <3> QED
      BY <3>1, <3>2, OwnStepKeepsVerdicts
  <2>9. ASSUME NEW r \in Runners, WriterExit(r) PROVE VerdictInv'
    BY <2>9 DEF WriterExit
  <2>10. ASSUME NEW r \in Runners, WriterClosed(r) PROVE VerdictInv'
    <3>1. TruthOf(r)'
      BY <2>10 DEF WriterClosed
    <3>2. /\ pc[r] \notin {"dead", "gone", "tombstone"} /\ pc'[r] # "tombstone"
          /\ \A q \in Runners \ {r} :
               /\ pc'[q] = pc[q] /\ seen'[q] = seen[q]
               /\ record'[q] = record[q] /\ writer'[q] = writer[q]
      BY <2>10 DEF WriterClosed
    <3> HIDE DEF VerdictInv, TruthOf
    <3> QED
      BY <3>1, <3>2, OwnStepKeepsVerdicts
  <2>11. ASSUME NEW r \in Runners, FinishRun(r) \/ UncaughtException(r)
         PROVE VerdictInv'
    BY <2>11 DEF FinishRun, UncaughtException
  <2>12. ASSUME NEW r \in Runners,
                UnlinkOwner(r) \/ RemoveDirectory(r) \/ VerifyRelease(r) \/ Die(r)
         PROVE VerdictInv'
    BY <2>12 DEF UnlinkOwner, RemoveDirectory, VerifyRelease, Die
  <2>13. CASE UNCHANGED vars
    BY <2>13 DEF vars
  <2> QED
    BY <2>1, <2>2, <2>3, <2>4, <2>5, <2>6, <2>7, <2>8, <2>9, <2>10, <2>11,
       <2>12, <2>13 DEF Next, Step, OtherStep
<1> QED
  BY <1>1, <1>2

\* demonstrablyStale never condemns a lease on its owner's last record while
\* the owner or its writer is alive, wherever processes die.
THEOREM VerdictsAreRight ==
  LeaseAssumption => (Spec => []VerdictOnLastRecordIsRight)
<1> SUFFICES ASSUME LeaseAssumption PROVE Spec => []VerdictOnLastRecordIsRight
  OBVIOUS
<1>1. VerdictInv => VerdictOnLastRecordIsRight
  BY DEF VerdictInv
<1> QED
  BY TypeInvInductive, VerdictInvInductive, <1>1, PTL DEF Spec

-----------------------------------------------------------------------------
(* Mutual exclusion.  The argument of the tombstone: a killed owner that a   *)
(* contender has condemned still has its lease in the directory unless its  *)
(* tombstone already exists, so the contender's rename moves that very      *)
(* lease or fails.  An owner that ended by itself has emptied its directory *)
(* and leaves no tombstone; a contender that read its record before cannot  *)
(* tell the difference.  The rename of such a contender, when it meets the  *)
(* lease of a successor, is the one step that breaks the lease              *)
(* (MCSessionLeaseWriters): until it is taken, all of this holds.           *)

LeaseInv ==
  /\ HolderOwnsSlot
  /\ \A o \in Runners : slot = o => pc[o] \in Holds \cup {"dead"}
  /\ \A c \in Runners : pc[c] \in {"judge", "tombstone"} =>
       LET o == seen[c].owner IN
       /\ pc[o] \in Holds \cup Emptied \cup {"dead", "gone"}
       /\ pc[o] = "dead" /\ o \notin tombs => slot = o

\* A rename that is not RenameAfterRelease finds nothing to move, or moves the
\* lease of the runner that the contender read.
LEMMA RenameMovesWhatWasRead ==
  ASSUME LeaseAssumption, TypeInv, VerdictInv, LeaseInv, ~RenameAfterRelease,
         NEW r \in Runners, MoveToTombstone(r),
         slot \in Runners, seen[r].owner \notin tombs
  PROVE  /\ slot = seen[r].owner
         /\ pc[slot] = "dead"
         /\ slot' = "absent"
         /\ tombs' = tombs \cup {seen[r].owner}
<1>1. pc[r] = "tombstone" /\ seen[r].owner \in Runners
  BY DEF MoveToTombstone, TypeInv, Bounds
<1>2. pc[seen[r].owner] \in {"dead", "gone"}
  BY <1>1 DEF VerdictInv, VerdictOnLastRecordIsRight, Gone
<1>3. slot = seen[r].owner
  BY <1>1, <1>2 DEF RenameAfterRelease, LeaseInv
<1>4. pc[slot] = "dead"
  BY <1>2, <1>3 DEF LeaseInv, Holds
<1>5. slot # "absent" /\ slot # "empty"
  BY DEF LeaseAssumption
<1> QED
  BY <1>3, <1>4, <1>5 DEF MoveToTombstone

\* The strengthened invariant is inductive, step by step.
LEMMA LeaseInvInductive ==
  ASSUME LeaseAssumption
  PROVE  /\ Init => LeaseInv
         /\ TypeInv /\ VerdictInv /\ LeaseInv
              /\ [Next]_vars /\ [~RenameAfterRelease]_vars => LeaseInv'
<1> USE LeaseAssumption DEF LeaseAssumption
<1>1. Init => LeaseInv
  BY DEF Init, LeaseInv, HolderOwnsSlot, Holds
<1>2. TypeInv /\ VerdictInv /\ LeaseInv /\ [Next]_vars /\ [~RenameAfterRelease]_vars
        => LeaseInv'
  <2> SUFFICES ASSUME TypeInv, VerdictInv, LeaseInv, [Next]_vars,
                      [~RenameAfterRelease]_vars
               PROVE  LeaseInv'
    OBVIOUS
  <2>t. /\ pc \in [Runners -> Control]
        /\ seen \in [Runners -> [owner : Runners \cup {NoRunner}, rec : WriterRecord]]
        /\ slot \in {"absent", "empty"} \cup Runners
        /\ tombs \subseteq Runners
        /\ \A r \in Runners : pc[r] \in {"judge", "tombstone"} => seen[r].owner \in Runners
    BY DEF TypeInv, TypeOK, Bounds
  <2> USE <2>t DEF LeaseInv, HolderOwnsSlot, Goto, Holds, Emptied
  <2>1. ASSUME NEW r \in Runners, CreateLease(r) PROVE LeaseInv'
    <3>1. CASE slot \in Runners
      BY <2>1, <3>1 DEF CreateLease
    <3>2. CASE slot \notin Runners
      BY <2>1, <3>2 DEF CreateLease
    <3> QED
      BY <3>1, <3>2
  <2>2. ASSUME NEW r \in Runners, ReadOwner(r) \/ ReadForConflict(r) PROVE LeaseInv'
    <3>1. CASE ReadOwner(r) /\ slot \in Runners
      <4>1. /\ pc[r] = "read"
            /\ pc' = [pc EXCEPT ![r] = "judge"]
            /\ seen' = [seen EXCEPT ![r] = [owner |-> slot, rec |-> record[slot]]]
            /\ UNCHANGED <<slot, tombs>>
        BY <3>1 DEF ReadOwner
      <4>2. pc[slot] \in Holds \cup {"dead"} /\ pc'[slot] = pc[slot]
        BY <3>1, <4>1
      <4>3. seen'[r].owner = slot /\ \A q \in Runners \ {r} : seen'[q] = seen[q]
        BY <4>1
      <4> QED
        BY <4>1, <4>2, <4>3
    <3>2. CASE (ReadOwner(r) /\ slot \notin Runners) \/ ReadForConflict(r)
      <4>1. /\ pc[r] \in {"read", "lastRead"}
            /\ pc' = [pc EXCEPT ![r] = "refused"]
            /\ \A q \in Runners \ {r} : seen'[q] = seen[q]
            /\ UNCHANGED <<slot, tombs>>
        BY <3>2 DEF ReadOwner, ReadForConflict
      <4> QED
        BY <4>1
    <3> QED
      BY <2>2, <3>1, <3>2
  <2>3. ASSUME NEW r \in Runners, JudgeOwner(r) PROVE LeaseInv'
    BY <2>3 DEF JudgeOwner
  <2>4. ASSUME NEW r \in Runners, MoveToTombstone(r) PROVE LeaseInv'
    <3>1. /\ pc[r] = "tombstone"
          /\ pc' \in {[pc EXCEPT ![r] = "lastRead"], [pc EXCEPT ![r] = "create"]}
          /\ seen' = seen
      BY <2>4 DEF MoveToTombstone
    <3>2. CASE slot = "absent" \/ seen[r].owner \in tombs
      <4>1. UNCHANGED <<slot, tombs>>
        BY <2>4, <3>2 DEF MoveToTombstone
      <4> QED
        BY <3>1, <4>1
    <3>3. CASE slot = "empty" /\ seen[r].owner \notin tombs
      <4>1. slot' = "absent" /\ tombs' = tombs
        BY <2>4, <3>3 DEF MoveToTombstone
      <4> QED
        BY <3>1, <3>3, <4>1
    <3>4. CASE slot \in Runners /\ seen[r].owner \notin tombs
      <4>1. pc' # pc
        BY <3>1
      <4>2. ~RenameAfterRelease
        BY <4>1 DEF vars
      <4>3. /\ slot = seen[r].owner /\ pc[slot] = "dead"
            /\ slot' = "absent" /\ tombs' = tombs \cup {seen[r].owner}
        <5> HIDE DEF LeaseInv
        <5> QED
          BY <2>4, <3>4, <4>2, RenameMovesWhatWasRead
      <4> QED
        BY <3>1, <3>4, <4>3
    <3> QED
      BY <3>2, <3>3, <3>4
  <2>5. ASSUME NEW r \in Runners,
               \/ BeginSpawn(r) \/ SpawnWriter(r) \/ SpawnFails(r)
               \/ RegisterWriter(r) \/ WriterClosed(r) \/ FinishRun(r)
               \/ UncaughtException(r)
        PROVE  LeaseInv'
    <3>1. /\ pc[r] \in Holds
          /\ \E label \in Holds : pc' = [pc EXCEPT ![r] = label]
          /\ UNCHANGED <<seen, slot, tombs>>
      BY <2>5 DEF BeginSpawn, SpawnWriter, SpawnFails, RegisterWriter,
                  WriterClosed, FinishRun, UncaughtException
    <3> QED
      BY <3>1
  <2>6. ASSUME NEW r \in Runners, WriterExit(r) PROVE LeaseInv'
    BY <2>6 DEF WriterExit
  <2>7. ASSUME NEW r \in Runners, UnlinkOwner(r) PROVE LeaseInv'
    BY <2>7 DEF UnlinkOwner
  <2>8. ASSUME NEW r \in Runners, RemoveDirectory(r) PROVE LeaseInv'
    <3>1. /\ pc[r] = "removing"
          /\ pc' \in {[pc EXCEPT ![r] = "verifying"], [pc EXCEPT ![r] = "unverified"]}
          /\ slot' = IF slot = "empty" THEN "absent" ELSE slot
          /\ UNCHANGED <<seen, tombs>>
      BY <2>8 DEF RemoveDirectory
    <3> QED
      BY <3>1
  <2>9. ASSUME NEW r \in Runners, VerifyRelease(r) PROVE LeaseInv'
    <3>1. /\ pc[r] = "verifying"
          /\ pc' \in {[pc EXCEPT ![r] = "done"], [pc EXCEPT ![r] = "unverified"]}
          /\ UNCHANGED <<seen, slot, tombs>>
      BY <2>9 DEF VerifyRelease
    <3> QED
      BY <3>1
  <2>10. ASSUME NEW r \in Runners, Die(r) PROVE LeaseInv'
    <3>1. /\ pc' = [pc EXCEPT ![r] = IF pc[r] \in Emptied THEN "gone" ELSE "dead"]
          /\ pc[r] \in Control \ {"dead", "gone"}
          /\ UNCHANGED <<seen, slot, tombs>>
      BY <2>10 DEF Die
    <3> QED
      BY <3>1
  <2>11. CASE UNCHANGED vars
    BY <2>11 DEF vars
  <2> QED
    BY <2>1, <2>2, <2>3, <2>4, <2>5, <2>6, <2>7, <2>8, <2>9, <2>10, <2>11
       DEF Next, Step, OtherStep
<1> QED
  BY <1>1, <1>2

\* No two runners hold the lease of a session at once, for any number of
\* contenders, whatever they have read and wherever runners are killed or end,
\* unless a contender renames the lease of a successor because the owner it
\* read has released its own and ended.
THEOREM MutualExclusion ==
  LeaseAssumption => (Spec => []SingleHolder \/ <><<RenameAfterRelease>>_vars)
<1> SUFFICES ASSUME LeaseAssumption
             PROVE  Spec => []SingleHolder \/ <><<RenameAfterRelease>>_vars
  OBVIOUS
<1>1. LeaseInv => SingleHolder
  BY DEF LeaseInv, SingleHolder, HolderOwnsSlot
<1> QED
  BY TypeInvInductive, VerdictInvInductive, LeaseInvInductive, <1>1, PTL DEF Spec

\* A runner that holds the lease finds its own token in the directory until it
\* gives the lease up: nobody moves it, removes it or replaces it, but by the
\* same one step.
THEOREM HolderKeepsDirectory ==
  LeaseAssumption => (Spec => []HolderOwnsSlot \/ <><<RenameAfterRelease>>_vars)
<1> SUFFICES ASSUME LeaseAssumption
             PROVE  Spec => []HolderOwnsSlot \/ <><<RenameAfterRelease>>_vars
  OBVIOUS
<1>1. LeaseInv => HolderOwnsSlot
  BY DEF LeaseInv
<1> QED
  BY TypeInvInductive, VerdictInvInductive, LeaseInvInductive, <1>1, PTL DEF Spec

\* The lease of a runner is taken away by a contender that read that very
\* runner's record, after the runner has died, and with no writer of it alive
\* when the record was the last one: for any number of contenders, until that
\* one step.
THEOREM OnlyTheDeadLoseTheirLease ==
  LeaseAssumption => (Spec => OnlyTheDeadAreMoved \/ <><<RenameAfterRelease>>_vars)
<1> SUFFICES ASSUME LeaseAssumption
             PROVE  Spec => OnlyTheDeadAreMoved \/ <><<RenameAfterRelease>>_vars
  OBVIOUS
<1> DEFINE Rightly(o) ==
             slot = o /\ slot' = "absent" =>
               /\ Gone(o)
               /\ \E c \in Runners :
                    /\ pc[c] = "tombstone" /\ pc'[c] # "tombstone"
                    /\ seen[c].owner = o
                    /\ seen[c].rec = record[o] => writer[o] = 0
<1>1. TypeInv /\ VerdictInv /\ LeaseInv /\ [Next]_vars /\ [~RenameAfterRelease]_vars
        => [\A o \in Runners : Rightly(o)]_vars
  <2> SUFFICES ASSUME TypeInv, VerdictInv, LeaseInv, Next, vars' # vars,
                      ~RenameAfterRelease,
                      NEW o \in Runners, slot = o, slot' = "absent"
               PROVE  /\ Gone(o)
                      /\ \E c \in Runners :
                           /\ pc[c] = "tombstone" /\ pc'[c] # "tombstone"
                           /\ seen[c].owner = o
                           /\ seen[c].rec = record[o] => writer[o] = 0
    OBVIOUS
  <2>1. slot # "absent" /\ slot # "empty"
    BY DEF LeaseAssumption
  <2>2. PICK r \in Runners : MoveToTombstone(r)
    <3>1. ASSUME NEW r \in Runners, OtherStep(r) \/ WriterExit(r) \/ Die(r)
          PROVE  slot' # "absent"
      BY <2>1, <3>1 DEF OtherStep, CreateLease, ReadOwner, JudgeOwner,
         ReadForConflict, BeginSpawn, SpawnWriter, SpawnFails, RegisterWriter,
         WriterExit, WriterClosed, FinishRun, UncaughtException, UnlinkOwner,
         RemoveDirectory, VerifyRelease, Die, LeaseAssumption
    <3> QED
      BY <3>1 DEF Next, Step
  <2>3. seen[r].owner \notin tombs
    BY <2>1, <2>2 DEF MoveToTombstone
  <2>4. seen[r].owner = o /\ pc[o] = "dead"
    BY <2>2, <2>3, RenameMovesWhatWasRead
  <2>5. pc[r] = "tombstone" /\ pc'[r] # "tombstone"
    BY <2>2 DEF MoveToTombstone, Goto, TypeInv, TypeOK
  <2>6. seen[r].rec = record[o] => writer[o] = 0
    BY <2>4, <2>5 DEF VerdictInv, VerdictOnLastRecordIsRight
  <2> QED
    BY <2>4, <2>5, <2>6 DEF Gone
<1> QED
  BY TypeInvInductive, VerdictInvInductive, LeaseInvInductive, <1>1, PTL
     DEF Spec, OnlyTheDeadAreMoved

-----------------------------------------------------------------------------
(* The lease implements the abstract lock.                                  *)

\* The holders the abstract lock sees.
Held == {r \in Runners : pc[r] \in Holds}

\* Every step of the lease is an acquisition while no runner holds it, a
\* release or death of its only holder, or does not show: the lease implements
\* the lock, ordinary exits included, until that one step is taken.
THEOREM ImplementsLock ==
  LeaseAssumption => (Spec => LockSpec \/ <><<RenameAfterRelease>>_vars)
<1> SUFFICES ASSUME LeaseAssumption
             PROVE  Spec => LockSpec \/ <><<RenameAfterRelease>>_vars
  OBVIOUS
<1>1. Init => Lock!Init
  BY DEF Init, Lock!Init, Holds
<1>2. TypeInv /\ VerdictInv /\ LeaseInv /\ [Next]_vars => [Lock!Next]_Held
  <2> SUFFICES ASSUME TypeInv, VerdictInv, LeaseInv, [Next]_vars
               PROVE  Lock!Next \/ UNCHANGED Held
    BY DEF Held
  <2>t. pc \in [Runners -> Control]
    BY DEF TypeInv, TypeOK
  <2>h. \A r \in Runners : pc[r] \in Holds => slot = r
    BY DEF LeaseInv, HolderOwnsSlot
  <2>1. ASSUME NEW r \in Runners, CreateLease(r) PROVE Lock!Next \/ UNCHANGED Held
    <3>1. CASE slot \in Runners
      BY <2>1, <2>t, <3>1 DEF CreateLease, Goto, Held, Holds
    <3>2. CASE slot \notin Runners
      <4>1. Held = {}
        BY <2>h, <3>2 DEF Held
      <4>2. Held' = {r}
        BY <2>1, <2>t, <2>h, <3>2 DEF CreateLease, Goto, Held, Holds
      <4> QED
        BY <4>1, <4>2 DEF Lock!Next, Lock!Acquire, Held
    <3> QED
      BY <3>1, <3>2
  <2>2. ASSUME NEW r \in Runners,
               \/ ReadOwner(r) \/ JudgeOwner(r) \/ ReadForConflict(r)
               \/ MoveToTombstone(r) \/ RemoveDirectory(r) \/ VerifyRelease(r)
        PROVE  UNCHANGED Held
    <3>1. /\ pc[r] \notin Holds
          /\ \E label \in Control \ Holds : pc' = [pc EXCEPT ![r] = label]
      BY <2>2 DEF ReadOwner, JudgeOwner, ReadForConflict, MoveToTombstone,
                  RemoveDirectory, VerifyRelease, Goto, Holds, Emptied, Control
    <3> QED
      BY <2>t, <3>1 DEF Held
  <2>3. ASSUME NEW r \in Runners,
               \/ BeginSpawn(r) \/ SpawnWriter(r) \/ SpawnFails(r)
               \/ RegisterWriter(r) \/ WriterClosed(r) \/ FinishRun(r)
               \/ UncaughtException(r)
        PROVE  UNCHANGED Held
    <3>1. /\ pc[r] \in Holds
          /\ \E label \in Holds : pc' = [pc EXCEPT ![r] = label]
      BY <2>3 DEF BeginSpawn, SpawnWriter, SpawnFails, RegisterWriter,
                  WriterClosed, FinishRun, UncaughtException, Goto, Holds
    <3> QED
      BY <2>t, <3>1 DEF Held
  <2>4. ASSUME NEW r \in Runners, UnlinkOwner(r) \/ Die(r)
        PROVE  Lock!Next \/ UNCHANGED Held
    <3>1. \E label \in Control \ Holds : pc' = [pc EXCEPT ![r] = label]
      BY <2>4 DEF UnlinkOwner, Die, Goto, Holds, Emptied, Control
    <3>2. CASE pc[r] \in Holds
      <4>1. Held = {r}
        BY <2>h, <3>2 DEF Held
      <4>2. Held' = {}
        BY <2>t, <2>h, <3>1, <3>2 DEF Held
      <4> QED
        BY <4>1, <4>2 DEF Lock!Next, Lock!GiveUp, Held
    <3>3. CASE pc[r] \notin Holds
      BY <2>t, <3>1, <3>3 DEF Held
    <3> QED
      BY <3>2, <3>3
  <2>5. ASSUME NEW r \in Runners, WriterExit(r) PROVE UNCHANGED Held
    BY <2>5 DEF WriterExit, Held
  <2>6. CASE UNCHANGED vars
    BY <2>6 DEF vars, Held
  <2> QED
    BY <2>1, <2>2, <2>3, <2>4, <2>5, <2>6 DEF Next, Step, OtherStep
<1> QED
  BY <1>1, <1>2, TypeInvInductive, VerdictInvInductive, LeaseInvInductive, PTL
     DEF Spec, LockSpec, Lock!Spec, Held
=============================================================================
