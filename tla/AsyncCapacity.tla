--------------------------- MODULE AsyncCapacity ---------------------------
(***************************************************************************)
(* The per-session cap on active top-level async runs                      *)
(* (runs/background/active-async-capacity.ts) with its callers: the launch *)
(* of a run, the resume of a finished or paused one, and the refreshes    *)
(* that reconcile the slots.  Several extension processes may have the     *)
(* same session open: each is a parent here.  A parent's operations are    *)
(* synchronous, so parents interleave only at file-system calls, and each  *)
(* call another parent can observe is a step.                              *)
(*                                                                         *)
(* Runner-backed slots only: slots of in-process workflows are not here.   *)
(* A run acquires at most once, so its id stands for its reservation token. *)
(***************************************************************************)
EXTENDS Naturals, FiniteSets

CONSTANTS
  Parents,       \* extension processes sharing the session
  Runs,          \* bound: the run ids that are ever launched
  Limit,         \* maxActiveAsyncRunsPerSession
  None,          \* no run, no parent, no owner
  MayCrash,      \* whether parents may crash
  WritesMayFail  \* whether the owner record of markStarted may fail to persist

\* The owner.json of a slot.
Owners == [token : Runs, run : Runs, gen : Nat, started : BOOLEAN]

ASSUME CapacityAssumption ==
  /\ Limit \in Nat \ {0}
  /\ None \notin Parents \cup Runs \cup Owners
  /\ MayCrash \in BOOLEAN
  /\ WritesMayFail \in BOOLEAN

Slots == 1..Limit

VARIABLES
  pc,         \* pc[p]: the next file-system call of parent p
  job,        \* job[p]: the run p is launching and the run it resumes
  at,         \* at[p]: the slot p is looking at
  seen,       \* seen[p]: the owner record p read before claiming a slot
  mine,       \* mine[p]: the owner record in p's capacity handle
  prev,       \* prev[p]: the owner a rollback of p's handle restores
  accepted,   \* runs whose launch returned to its caller as started
  used,       \* run ids given out so far (they are random, never reused)
  exists,     \* slots whose directory exists
  owner,      \* owner[s]: the owner.json of slot s, None when there is none
  claim,      \* claim[s]: who created capacity.claim in slot s
  status,     \* status[r]: the state in the run's status.json
  live,       \* live[r]: the runner process of r is alive
  proof,      \* proof[r]: the process-terminal proof of r
  due         \* an event that makes its parent refresh is pending

desk       == <<job, at, seen, mine, prev, used, accepted>>
parentVars == <<pc, desk>>
slotVars   == <<exists, owner, claim>>
runVars    == <<status, live, proof, due>>
vars       == <<parentVars, slotVars, runVars>>

Owner(token, run, gen, started) ==
  [token |-> token, run |-> run, gen |-> gen, started |-> started]
Job(run, source) == [run |-> run, source |-> source, spawned |-> FALSE]
NoJob  == Job(None, None)

TypeOK ==
  /\ pc \in [Parents ->
       {"idle", "scan", "claimRemove", "remove", "admit", "create", "persist",
        "find", "claimTransfer", "transfer", "spawn", "claimMark", "mark",
        "claimRollback", "rollback", "unclaimRetry", "claimRetry", "retry",
        "unclaimSpawn", "unclaimDone", "crashed"}]
  /\ job \in [Parents -> [run : Runs \cup {None}, source : Runs \cup {None},
                        spawned : BOOLEAN]]
  /\ at \in [Parents -> 1..(Limit + 1)]
  /\ seen \in [Parents -> Owners \cup {None}]
  /\ mine \in [Parents -> Owners \cup {None}]
  /\ prev \in [Parents -> Owners \cup {None}]
  /\ accepted \subseteq used
  /\ used \subseteq Runs
  /\ exists \subseteq Slots
  /\ owner \in [Slots -> Owners \cup {None}]
  /\ claim \in [Slots -> Parents \cup {None}]
  /\ status \in [Runs -> {"absent", "running", "paused", "ended"}]
  /\ live \in [Runs -> BOOLEAN]
  /\ proof \in [Runs -> {"none", "observed", "unknown", "not-started"}]
  /\ due \in BOOLEAN

Init ==
  /\ pc = [p \in Parents |-> "idle"]
  /\ job = [p \in Parents |-> NoJob]
  /\ at = [p \in Parents |-> 1]
  /\ seen = [p \in Parents |-> None]
  /\ mine = [p \in Parents |-> None]
  /\ prev = [p \in Parents |-> None]
  /\ accepted = {}
  /\ used = {}
  /\ exists = {}
  /\ owner = [s \in Slots |-> None]
  /\ claim = [s \in Slots |-> None]
  /\ status = [r \in Runs |-> "absent"]
  /\ live = [r \in Runs |-> FALSE]
  /\ proof = [r \in Runs |-> "none"]
  /\ due = FALSE

Goto(p, label) == pc' = [pc EXCEPT ![p] = label]

\* The operation and the handle that the parent holds in memory are gone.
Forget(p) ==
  /\ job' = [job EXCEPT ![p] = NoJob]
  /\ at' = [at EXCEPT ![p] = 1]
  /\ seen' = [seen EXCEPT ![p] = None]
  /\ mine' = [mine EXCEPT ![p] = None]
  /\ prev' = [prev EXCEPT ![p] = None]
  /\ UNCHANGED <<used, accepted>>

\* The parent is done with its operation.
Finish(p) == Goto(p, "idle") /\ Forget(p)

\* matchingOwner: token, run and generation of the record on disk.
Matches(s, expected) ==
  /\ owner[s] # None
  /\ owner[s].token = expected.token
  /\ owner[s].run = expected.run
  /\ owner[s].gen = expected.gen

\* withSlotClaim: capacity.claim is created exclusively in an existing slot.
Claimable(s) == s \in exists /\ claim[s] = None

Take(p, s)   == claim' = [claim EXCEPT ![s] = p]

-----------------------------------------------------------------------------
(* The operations a parent begins.                                          *)

BeginLaunch(p, r) ==
  /\ pc[p] = "idle"
  /\ r \notin used
  /\ used' = used \cup {r}
  /\ job' = [job EXCEPT ![p] = Job(r, None)]
  /\ Goto(p, "scan")
  /\ UNCHANGED <<at, seen, mine, prev, accepted, slotVars, runVars>>

\* resume: the source is a run whose status says paused or ended.
BeginResume(p, r, source) ==
  /\ pc[p] = "idle"
  /\ r \notin used
  /\ used' = used \cup {r}
  /\ status[source] \in {"paused", "ended"}
  /\ job' = [job EXCEPT ![p] = Job(r, source)]
  /\ Goto(p, "find")
  /\ UNCHANGED <<at, seen, mine, prev, accepted, slotVars, runVars>>

\* refreshActiveAsyncCapacity: on the events of a finished run or process, and
\* whenever the user asks for the status.
BeginRefresh(p) ==
  /\ pc[p] = "idle"
  /\ due' = FALSE
  /\ Goto(p, "scan")
  /\ UNCHANGED <<desk, slotVars, status, live, proof>>

-----------------------------------------------------------------------------
(* reconcileActiveAsyncCapacity and removeOwnedSlot.                        *)

\* Mutant of Releasable: an observed proof is taken for the end of the run.
ReleasableOnProof(o) ==
  /\ o.started
  /\ proof[o.run] \in {"observed", "not-started"}

\* Mutant of Releasable: an unknown proof is as good as another.
ReleasableOnAnyProof(o) ==
  /\ o.started
  /\ status[o.run] = "ended"
  /\ proof[o.run] # "none"

\* runnerReleaseVerdict.
Releasable(o) ==
  /\ o.started
  /\ status[o.run] = "ended"
  /\ proof[o.run] \in {"observed", "not-started"}

\* Read the owner of the next slot and decide; past the last slot, go on to
\* the admission, or be done when this was only a refresh.
Scan(p) ==
  /\ pc[p] = "scan"
  /\ IF at[p] > Limit
       THEN IF job[p].run = None
              THEN Finish(p)
              ELSE Goto(p, "admit") /\ UNCHANGED desk
       ELSE /\ IF owner[at[p]] # None /\ Releasable(owner[at[p]])
                 THEN /\ seen' = [seen EXCEPT ![p] = owner[at[p]]]
                      /\ Goto(p, "claimRemove")
                      /\ UNCHANGED at
                 ELSE /\ at' = [at EXCEPT ![p] = @ + 1]
                      /\ UNCHANGED <<pc, seen>>
            /\ UNCHANGED <<job, mine, prev, used, accepted>>
  /\ UNCHANGED <<slotVars, runVars>>

ClaimToRemove(p) ==
  /\ pc[p] = "claimRemove"
  /\ IF Claimable(at[p])
       THEN Take(p, at[p]) /\ Goto(p, "remove") /\ UNCHANGED at
       ELSE Goto(p, "scan") /\ at' = [at EXCEPT ![p] = @ + 1] /\ UNCHANGED claim
  /\ UNCHANGED <<job, seen, mine, prev, used, accepted, exists, owner, runVars>>

\* Mutant of RemoveSlot: the owner is not read again under the claim.
RemoveSlotUnread(p) ==
  /\ pc[p] = "remove"
  /\ exists' = exists \ {at[p]}
  /\ owner' = [owner EXCEPT ![at[p]] = None]
  /\ claim' = [claim EXCEPT ![at[p]] = None]
  /\ at' = [at EXCEPT ![p] = @ + 1]
  /\ Goto(p, "scan")
  /\ UNCHANGED <<job, seen, mine, prev, used, accepted, runVars>>

\* Under the claim: the slot is renamed away, claim and all, if it still has
\* the owner that was judged.
RemoveSlot(p) ==
  LET s == at[p] IN
  /\ pc[p] = "remove"
  /\ IF Matches(s, seen[p])
       THEN exists' = exists \ {s} /\ owner' = [owner EXCEPT ![s] = None]
       ELSE UNCHANGED <<exists, owner>>
  /\ claim' = [claim EXCEPT ![s] = None]
  /\ at' = [at EXCEPT ![p] = @ + 1]
  /\ Goto(p, "scan")
  /\ UNCHANGED <<job, seen, mine, prev, used, accepted, runVars>>

-----------------------------------------------------------------------------
(* acquireActiveAsyncCapacity after its reconcile, and createSlot.           *)

Admit(p) ==
  /\ pc[p] = "admit"
  /\ IF Cardinality(exists) >= Limit
       THEN Finish(p)
       ELSE /\ Goto(p, "create")
            /\ at' = [at EXCEPT ![p] = 1]
            /\ UNCHANGED <<job, seen, mine, prev, used, accepted>>
  /\ UNCHANGED <<slotVars, runVars>>

\* Mutant of CreateSlot: one slot more than the limit is tried.
CreateSlotInclusive(p) ==
  /\ pc[p] = "create"
  /\ IF at[p] > Limit + 1
       THEN Finish(p) /\ UNCHANGED exists
       ELSE /\ IF at[p] \in exists
                 THEN at' = [at EXCEPT ![p] = @ + 1] /\ UNCHANGED <<pc, exists>>
                 ELSE exists' = exists \cup {at[p]} /\ Goto(p, "persist") /\ UNCHANGED at
            /\ UNCHANGED <<job, seen, mine, prev, used, accepted>>
  /\ UNCHANGED <<owner, claim, runVars>>

\* mkdir of the next slot; when every slot exists by now, the launch fails.
CreateSlot(p) ==
  /\ pc[p] = "create"
  /\ IF at[p] > Limit
       THEN Finish(p) /\ UNCHANGED exists
       ELSE /\ IF at[p] \in exists
                 THEN at' = [at EXCEPT ![p] = @ + 1] /\ UNCHANGED <<pc, exists>>
                 ELSE exists' = exists \cup {at[p]} /\ Goto(p, "persist") /\ UNCHANGED at
            /\ UNCHANGED <<job, seen, mine, prev, used, accepted>>
  /\ UNCHANGED <<owner, claim, runVars>>

PersistOwner(p) ==
  LET new == Owner(job[p].run, job[p].run, 0, FALSE) IN
  /\ pc[p] = "persist"
  /\ owner' = [owner EXCEPT ![at[p]] = new]
  /\ mine' = [mine EXCEPT ![p] = new]
  /\ Goto(p, "spawn")
  /\ UNCHANGED <<job, at, seen, prev, used, accepted, exists, claim, runVars>>

-----------------------------------------------------------------------------
(* transferActiveAsyncCapacity.                                             *)

\* Look for the slot of the source; without one the resume is charged anew.
FindSource(p) ==
  /\ pc[p] = "find"
  /\ IF at[p] > Limit
       THEN Goto(p, "scan") /\ at' = [at EXCEPT ![p] = 1] /\ UNCHANGED seen
       ELSE IF owner[at[p]] # None /\ owner[at[p]].run = job[p].source
              THEN /\ seen' = [seen EXCEPT ![p] = owner[at[p]]]
                   /\ Goto(p, "claimTransfer")
                   /\ UNCHANGED at
              ELSE at' = [at EXCEPT ![p] = @ + 1] /\ UNCHANGED <<pc, seen>>
  /\ UNCHANGED <<job, mine, prev, used, accepted, slotVars, runVars>>

\* A claim that is taken makes the transfer throw.
ClaimToTransfer(p) ==
  /\ pc[p] = "claimTransfer"
  /\ IF Claimable(at[p])
       THEN /\ Take(p, at[p]) /\ Goto(p, "transfer")
            /\ UNCHANGED desk
       ELSE Finish(p) /\ UNCHANGED claim
  /\ UNCHANGED <<exists, owner, runVars>>

\* Under the claim: the record must still be the one that was read and its
\* run neither queued nor running; the new owner is not started.
Transfer(p) ==
  LET s == at[p]
      next == Owner(owner[s].token, job[p].run, owner[s].gen + 1, FALSE) IN
  /\ pc[p] = "transfer"
  /\ IF Matches(s, seen[p]) /\ status[job[p].source] \in {"paused", "ended"}
       THEN /\ owner' = [owner EXCEPT ![s] = next]
            /\ mine' = [mine EXCEPT ![p] = next]
            /\ prev' = [prev EXCEPT ![p] = owner[s]]
            /\ Goto(p, "unclaimSpawn")
       ELSE Goto(p, "unclaimDone") /\ UNCHANGED <<owner, mine, prev>>
  /\ UNCHANGED <<job, at, seen, used, accepted, exists, claim, runVars>>

-----------------------------------------------------------------------------
(* The launch with its handle: executeAsyncSingle / executeAsyncChain after  *)
(* spawnRunner.                                                             *)

\* The runner starts.  A resumed run has passed its startup handshake.
SpawnRunner(p) ==
  LET r == job[p].run IN
  /\ pc[p] = "spawn"
  /\ status' = [status EXCEPT ![r] = "running"]
  /\ live' = [live EXCEPT ![r] = TRUE]
  /\ job' = [job EXCEPT ![p].spawned = TRUE]
  /\ Goto(p, "claimMark")
  /\ UNCHANGED <<at, seen, mine, prev, used, accepted, slotVars, proof, due>>

\* No process, or one that did not proceed and was seen to end: roll back.
\* A failed handshake is persisted, with a not-started proof.
SpawnFails(p) ==
  LET r == job[p].run IN
  /\ pc[p] = "spawn"
  /\ \/ UNCHANGED <<status, proof>>
     \/ /\ job[p].source # None
        /\ status' = [status EXCEPT ![r] = "ended"]
        /\ proof' = [proof EXCEPT ![r] = "not-started"]
  /\ Goto(p, "claimRollback")
  /\ UNCHANGED <<desk, slotVars, live, due>>

\* A resumed run whose handshake failed while its runner was not seen to end:
\* the failure is persisted with a not-started proof, and the slot marked.
StartupUnsettled(p) ==
  LET r == job[p].run IN
  /\ pc[p] = "spawn"
  /\ job[p].source # None
  /\ status' = [status EXCEPT ![r] = "ended"]
  /\ proof' = [proof EXCEPT ![r] = "not-started"]
  /\ live' = [live EXCEPT ![r] = TRUE]
  /\ Goto(p, "claimMark")
  /\ UNCHANGED <<desk, slotVars, due>>

\* markStarted needs the claim.  When it throws after the spawn, a first
\* launch rolls back in its finally (the handle is not marked started); a
\* resume returns the exception.
ClaimToMark(p) ==
  /\ pc[p] = "claimMark"
  /\ IF Claimable(at[p])
       THEN /\ Take(p, at[p]) /\ Goto(p, "mark")
            /\ UNCHANGED desk
       ELSE /\ UNCHANGED claim
            /\ IF job[p].source = None
                 THEN Goto(p, "claimRetry")
                        /\ UNCHANGED desk
                 ELSE Finish(p)
  /\ UNCHANGED <<exists, owner, runVars>>

\* Under the claim.  The record on disk may fail to be written after memory
\* is marked: the slot then stays occupied by an owner without a runner.
MarkStarted(p) ==
  LET s == at[p] IN
  /\ pc[p] = "mark"
  /\ IF Matches(s, mine[p])
       THEN /\ \/ owner' = [owner EXCEPT ![s].started = TRUE]
               \/ WritesMayFail /\ UNCHANGED owner
            /\ mine' = [mine EXCEPT ![p].started = TRUE]
            /\ accepted' = IF job[p].spawned THEN accepted \cup {job[p].run}
                                            ELSE accepted
       ELSE UNCHANGED <<owner, mine, accepted>>
  /\ Goto(p, "unclaimDone")
  /\ UNCHANGED <<job, at, seen, prev, used, exists, claim, runVars>>

\* rollback of a handle that is not marked started.  The launch function rolls
\* back and so does its caller (the finally of a first launch, the error path
\* of a resume): a first attempt that did nothing is repeated once, and then
\* the slot stays as it is.
ClaimToRollback(p) ==
  /\ pc[p] \in {"claimRollback", "claimRetry"}
  /\ IF Claimable(at[p])
       THEN /\ Take(p, at[p])
            /\ Goto(p, IF pc[p] = "claimRollback" THEN "rollback" ELSE "retry")
            /\ UNCHANGED desk
       ELSE /\ UNCHANGED claim
            /\ IF pc[p] = "claimRollback"
                 THEN Goto(p, "claimRetry")
                        /\ UNCHANGED desk
                 ELSE Finish(p)
  /\ UNCHANGED <<exists, owner, runVars>>

\* Under the claim: a first launch removes its slot, a transfer puts the
\* source's owner record back, each only from its own unstarted record.
Rollback(p) ==
  LET s == at[p] IN
  /\ pc[p] \in {"rollback", "retry"}
  /\ IF Matches(s, mine[p]) /\ ~owner[s].started
       THEN IF prev[p] = None
              THEN /\ exists' = exists \ {s}
                   /\ owner' = [owner EXCEPT ![s] = None]
                   /\ claim' = [claim EXCEPT ![s] = None]
                   /\ Finish(p)
              ELSE /\ owner' = [owner EXCEPT ![s] = prev[p]]
                   /\ Goto(p, "unclaimDone")
                   /\ UNCHANGED <<desk, exists, claim>>
       ELSE /\ Goto(p, IF pc[p] = "rollback" THEN "unclaimRetry" ELSE "unclaimDone")
            /\ UNCHANGED <<desk, slotVars>>
  /\ UNCHANGED runVars

\* The end of withSlotClaim: the claim file goes.
Unclaim(p) ==
  /\ pc[p] \in {"unclaimSpawn", "unclaimRetry", "unclaimDone"}
  /\ claim' = [claim EXCEPT ![at[p]] = None]
  /\ CASE pc[p] = "unclaimSpawn" ->
              Goto(p, "spawn") /\ UNCHANGED desk
       [] pc[p] = "unclaimRetry" ->
              Goto(p, "claimRetry") /\ UNCHANGED desk
       [] OTHER -> Finish(p)
  /\ UNCHANGED <<exists, owner, runVars>>

\* A parent that crashes leaves its claim file and its half-made slot behind.
Crash(p) ==
  /\ MayCrash
  /\ pc[p] \notin {"idle", "crashed"}
  /\ Goto(p, "crashed")
  /\ Forget(p)
  /\ UNCHANGED <<slotVars, runVars>>

-----------------------------------------------------------------------------
(* The runner.                                                              *)

\* It writes its final or paused state while its process is still there.
RunEnds(r) ==
  /\ live[r] /\ status[r] = "running"
  /\ \E final \in {"paused", "ended"} : status' = [status EXCEPT ![r] = final]
  /\ UNCHANGED <<parentVars, slotVars, live, proof, due>>

\* The process is gone, cleanly or not.
RunnerExits(r) ==
  /\ live[r]
  /\ live' = [live EXCEPT ![r] = FALSE]
  /\ UNCHANGED <<parentVars, slotVars, status, proof, due>>

\* The stale-run reconciler declares a run failed that did not write its end;
\* its result makes the parent emit the completion event.
DeclareFailed(r) ==
  /\ ~live[r] /\ status[r] = "running"
  /\ status' = [status EXCEPT ![r] = "ended"]
  /\ due' = TRUE
  /\ UNCHANGED <<parentVars, slotVars, live, proof>>

\* Mutant of FinalizeProof: the process-terminal event is not emitted.
FinalizeProofQuietly(r) ==
  /\ ~live[r] /\ status[r] # "absent" /\ proof[r] \in {"none", "not-started"}
  /\ \E p \in {"observed", "unknown"} : proof' = [proof EXCEPT ![r] = p]
  /\ UNCHANGED <<parentVars, slotVars, status, live, due>>

\* finalizeProcessTerminal after the parent saw the runner close: observed,
\* or unknown when the cleanup could not be verified; either is final.  The
\* parent then emits the process-terminal event.
FinalizeProof(r) ==
  /\ ~live[r] /\ status[r] # "absent" /\ proof[r] \in {"none", "not-started"}
  /\ \E p \in {"observed", "unknown"} : proof' = [proof EXCEPT ![r] = p]
  /\ due' = TRUE
  /\ UNCHANGED <<parentVars, slotVars, status, live>>

-----------------------------------------------------------------------------
ParentStep(p) ==
  \/ Scan(p) \/ ClaimToRemove(p) \/ RemoveSlot(p) \/ Admit(p) \/ CreateSlot(p)
  \/ PersistOwner(p) \/ FindSource(p) \/ ClaimToTransfer(p) \/ Transfer(p)
  \/ SpawnRunner(p) \/ SpawnFails(p) \/ StartupUnsettled(p)
  \/ ClaimToMark(p) \/ MarkStarted(p) \/ ClaimToRollback(p) \/ Rollback(p)
  \/ Unclaim(p)

RunnerStep(r) ==
  \/ RunEnds(r) \/ RunnerExits(r) \/ DeclareFailed(r) \/ FinalizeProof(r)

Next ==
  \/ \E p \in Parents, r \in Runs :
       \/ BeginLaunch(p, r)
       \/ \E source \in Runs : BeginResume(p, r, source)
  \/ \E p \in Parents : BeginRefresh(p) \/ ParentStep(p) \/ Crash(p)
  \/ \E r \in Runs : RunnerStep(r)

Spec == Init /\ [][Next]_vars

\* A parent goes on with what it began, and handles the events that are due.
LiveSpec ==
  /\ Spec
  /\ \A p \in Parents :
       WF_vars(ParentStep(p)) /\ WF_vars(due /\ BeginRefresh(p))

-----------------------------------------------------------------------------
Charged(r) == \E s \in Slots : owner[s] # None /\ owner[s].run = r

\* docs/configuration.md: "caps concurrently active top-level async runs".
\* Every run whose status says running owns a slot, whatever launches, resumes,
\* failed launches and refreshes of ONE parent, which neither crashes nor fails
\* to write, do to the slots.  Between parents whose operations overlap it is
\* not so: the slot of a running run may be freed (the run OverLimit).
RunningIsCharged ==
  \A r \in Runs : status[r] = "running" => Charged(r)

\* What survives of it when parents share a session, crash and fail to write: a
\* run reported as started owns a slot while it runs.
AcceptedIsCharged ==
  \A r \in accepted : status[r] = "running" => Charged(r)

\* The cap itself: one slot is never charged to two running runs, and no more
\* than Limit runs are running.
ActiveWithinLimit ==
  Cardinality({r \in Runs : status[r] = "running"}) <= Limit

\* docs/configuration.md: "Runner-backed slots release only after terminal
\* logical state and matching observed process-terminal proof": a slot marked
\* started disappears only for a run that has ended, and for one that was
\* reported as started only on an observed proof, never on an unknown one,
\* although the verdict was reached on a record and files read before the slot
\* was claimed.  A run whose startup failed was proved not started in the step
\* that recorded the failure; by now its runner may have closed with another.
StartedSlotNeedsProof ==
  [][\A s \in Slots :
       (owner[s] # None /\ owner[s].started /\ owner'[s] = None) =>
         /\ status[owner[s].run] = "ended"
         /\ proof[owner[s].run] # "none"
         /\ owner[s].run \in accepted => proof[owner[s].run] = "observed"]_vars

\* With one parent that keeps running and can write, a run with an observed
\* proof does not keep its slot: capacity comes back.
CapacityComesBack ==
  \A r \in Runs :
    (status[r] = "ended" /\ proof[r] = "observed") ~> ~Charged(r)

-----------------------------------------------------------------------------
\* The slots and runs as the ledger that the cap promises.
Ledger == INSTANCE Capacity WITH
            charge  <- [s \in Slots |-> IF owner[s] = None THEN None ELSE owner[s].run],
            started <- {s \in Slots : owner[s] # None /\ owner[s].started},
            running <- {r \in Runs : status[r] = "running"},
            over    <- {r \in Runs : status[r] = "ended" /\ proof[r] # "none"}
=============================================================================
