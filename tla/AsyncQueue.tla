------------------------------ MODULE AsyncQueue -----------------------------
(***************************************************************************)
(* _AsyncFifoOperationQueue of src/slmp/_operation_queue.py: the gate of   *)
(* the asynchronous client, an asyncio.Lock with an owner and a generation.*)
(*                                                                         *)
(* Tasks run one at a time, so one action is what a task does between two  *)
(* suspensions.  turn() suspends only in lock.acquire(); Task.cancel() may *)
(* reach a task there, also after the lock has already woken it.  The lock *)
(* is modelled from asyncio: a deque of futures, of which release() sets   *)
(* the first.                                                              *)
(***************************************************************************)
EXTENDS Naturals, Sequences, SequencesExt, Subsequence

CONSTANTS
  Tasks,          (* the tasks that call the client                        *)
  NoTask,         (* None                                                  *)
  MaxGeneration,  (* bound: the number of close() calls                    *)
  MaxNested       (* bound: nested turns made inside one outer turn        *)

ASSUME TasksAssumption == NoTask \notin Tasks
ASSUME BoundsAssumption == MaxGeneration \in Nat /\ MaxNested \in Nat

VARIABLES
  locked,      (* lock._locked                                             *)
  waiters,     (* lock._waiters: a future is named by the task that waits  *)
  owner,       (* _owner                                                   *)
  ownerGen,    (* _owner_generation; meaningless while owner is NoTask     *)
  depth,       (* _depth                                                   *)
  generation,  (* _generation                                              *)
  pc,          (* where each task stands with respect to turn()            *)
  taskGen,     (* the local variable generation of its call of turn()      *)
  nests        (* nested turns the body of the outer turn has yet to make  *)

lockVars == <<locked, waiters>>
queueVars == <<lockVars, owner, ownerGen, depth, generation>>
vars == <<queueVars, pc, taskGen, nests>>

(* Suspended in acquire(), by the state of its future:                     *)
(*   waiting: pending;  woken: it has its result;  cancelled: it was       *)
(*   cancelled;  doomed: it has its result, and the task was cancelled     *)
(*   before it ran.                                                        *)
(* inside: in the body of the turn;  unwinding: an exception or a          *)
(* cancellation is leaving it.                                             *)
Queued == {"waiting", "woken", "cancelled", "doomed"}
Places == Queued \union {"outside", "inside", "unwinding"}

Init ==
  /\ locked = FALSE
  /\ waiters = <<>>
  /\ owner = NoTask
  /\ ownerGen = 0
  /\ depth = 0
  /\ generation = 0
  /\ pc = [t \in Tasks |-> "outside"]
  /\ taskGen = [t \in Tasks |-> 0]
  /\ nests = [t \in Tasks |-> 0]

(* Lock._wake_up_first(): the first future gets its result, unless it is   *)
(* done already; a cancelled one is left to its own task.                  *)
WakeUpFirst(futures, places) ==
  [t \in Tasks |->
     IF futures # <<>> /\ Head(futures) = t /\ places[t] = "waiting"
       THEN "woken"
       ELSE places[t]]

Own(t, gen) ==
  /\ owner' = t
  /\ ownerGen' = gen
  /\ depth' = 1

(* Nobody has the lock or is about to take it. *)
FreeLock ==
  /\ ~locked
  /\ \A i \in DOMAIN waiters : pc[waiters[i]] = "cancelled"

(* turn() by a task that is not the owner. *)
EnterFree(t) ==
  /\ pc[t] = "outside"
  /\ FreeLock
  /\ locked' = TRUE
  /\ Own(t, generation)
  /\ pc' = [pc EXCEPT ![t] = "inside"]
  /\ taskGen' = [taskGen EXCEPT ![t] = generation]
  /\ \E n \in 0..MaxNested : nests' = [nests EXCEPT ![t] = n]
  /\ UNCHANGED <<waiters, generation>>

EnterWaiting(t) ==
  /\ pc[t] = "outside"
  /\ ~FreeLock
  /\ waiters' = Append(waiters, t)
  /\ pc' = [pc EXCEPT ![t] = "waiting"]
  /\ taskGen' = [taskGen EXCEPT ![t] = generation]
  /\ \E n \in 0..MaxNested : nests' = [nests EXCEPT ![t] = n]
  /\ UNCHANGED <<locked, owner, ownerGen, depth, generation>>

LeaveWaiters(t) ==
  \E i \in DOMAIN waiters :
    waiters[i] = t /\ waiters' = RemoveAt(waiters, i)

(* Mutant: the generation is not read again after acquire(). *)
Admitted_AnyGeneration(t) ==
  /\ pc[t] = "woken"
  /\ LeaveWaiters(t)
  /\ locked' = TRUE
  /\ Own(t, taskGen[t])
  /\ pc' = [pc EXCEPT ![t] = "inside"]
  /\ UNCHANGED <<generation, taskGen, nests>>

(* A woken task runs: acquire() returns with the lock, and the generation  *)
(* decides whether the task keeps it.                                      *)
Admitted(t) ==
  /\ pc[t] = "woken"
  /\ taskGen[t] = generation
  /\ LeaveWaiters(t)
  /\ locked' = TRUE
  /\ Own(t, taskGen[t])
  /\ pc' = [pc EXCEPT ![t] = "inside"]
  /\ UNCHANGED <<generation, taskGen, nests>>

(* Mutant: the task that is refused keeps the lock it acquired. *)
Refused_KeepsLock(t) ==
  /\ pc[t] = "woken"
  /\ taskGen[t] # generation
  /\ LeaveWaiters(t)
  /\ locked' = TRUE
  /\ pc' = [pc EXCEPT ![t] = "outside"]
  /\ UNCHANGED <<owner, ownerGen, depth, generation, taskGen, nests>>

Refused(t) ==
  /\ pc[t] = "woken"
  /\ taskGen[t] # generation
  /\ LeaveWaiters(t)
  /\ pc' = WakeUpFirst(waiters', [pc EXCEPT ![t] = "outside"])
  /\ UNCHANGED <<locked, owner, ownerGen, depth, generation, taskGen, nests>>

(* Task.cancel(), which may come between any two steps of a task. *)
Cancel(t) ==
  /\ \/ pc[t] = "waiting" /\ pc' = [pc EXCEPT ![t] = "cancelled"]
     \/ pc[t] = "woken" /\ pc' = [pc EXCEPT ![t] = "doomed"]
     \/ pc[t] = "inside" /\ pc' = [pc EXCEPT ![t] = "unwinding"]
  /\ UNCHANGED <<queueVars, taskGen, nests>>

(* The cancelled task runs: acquire() passes a wake-up on if the lock is   *)
(* free, and CancelledError leaves turn().                                 *)
CancelledInLine(t) ==
  /\ pc[t] \in {"cancelled", "doomed"}
  /\ LeaveWaiters(t)
  /\ pc' = IF locked
             THEN [pc EXCEPT ![t] = "outside"]
             ELSE WakeUpFirst(waiters', [pc EXCEPT ![t] = "outside"])
  /\ UNCHANGED <<locked, owner, ownerGen, depth, generation, taskGen, nests>>

(* turn() by the owner: only the depth moves, whatever the generation. *)
EnterNested(t) ==
  /\ pc[t] = "inside"
  /\ owner = t
  /\ nests[t] > 0
  /\ nests' = [nests EXCEPT ![t] = @ - 1]
  /\ depth' = depth + 1
  /\ UNCHANGED <<lockVars, owner, ownerGen, generation, pc, taskGen>>

LeaveNested(t) ==
  /\ pc[t] \in {"inside", "unwinding"}
  /\ depth > 1
  /\ depth' = depth - 1
  /\ UNCHANGED <<lockVars, owner, ownerGen, generation, pc, taskGen, nests>>

(* Mutant: the owner is cleared, the lock is not released. *)
LeaveOuter_KeepsLock(t) ==
  /\ pc[t] \in {"inside", "unwinding"}
  /\ depth = 1
  /\ depth' = 0
  /\ owner' = NoTask
  /\ ownerGen' = 0
  /\ pc' = [pc EXCEPT ![t] = "outside"]
  /\ UNCHANGED <<lockVars, generation, taskGen, nests>>

LeaveOuter(t) ==
  /\ pc[t] \in {"inside", "unwinding"}
  /\ depth = 1
  /\ depth' = 0
  /\ owner' = NoTask
  /\ ownerGen' = 0
  /\ locked' = FALSE
  /\ pc' = WakeUpFirst(waiters, [pc EXCEPT ![t] = "outside"])
  /\ UNCHANGED <<waiters, generation, taskGen, nests>>

(* ensure_current() raises SlmpClosedError and the body is left. *)
EnsureCurrentFails(t) ==
  /\ pc[t] = "inside"
  /\ owner # t \/ ownerGen # generation
  /\ pc' = [pc EXCEPT ![t] = "unwinding"]
  /\ UNCHANGED <<queueVars, taskGen, nests>>

(* invalidate(): nobody is woken; a task in line learns of the close when  *)
(* the lock comes to it.                                                   *)
Invalidate ==
  /\ generation < MaxGeneration
  /\ generation' = generation + 1
  /\ UNCHANGED <<lockVars, owner, ownerGen, depth, pc, taskGen, nests>>

Resume(t) == Admitted(t) \/ Refused(t) \/ CancelledInLine(t)
Leave(t) == LeaveNested(t) \/ LeaveOuter(t)

Next ==
  \/ Invalidate
  \/ \E t \in Tasks :
       \/ EnterFree(t) \/ EnterWaiting(t)
       \/ Admitted(t) \/ Refused(t) \/ Cancel(t) \/ CancelledInLine(t)
       \/ EnterNested(t) \/ LeaveNested(t) \/ LeaveOuter(t)
       \/ EnsureCurrentFails(t)

Spec == Init /\ [][Next]_vars

(* The event loop runs every task that is ready, and the body of a turn    *)
(* ends: every await in it has a deadline.                                 *)
Fairness == \A t \in Tasks : WF_vars(Resume(t)) /\ WF_vars(Leave(t))
FairSpec == Spec /\ Fairness
------------------------------------------------------------------------------
TypeOK ==
  /\ locked \in BOOLEAN
  /\ waiters \in Seq(Tasks)
  /\ owner \in Tasks \union {NoTask}
  /\ ownerGen \in 0..MaxGeneration
  /\ depth \in Nat
  /\ generation \in 0..MaxGeneration
  /\ pc \in [Tasks -> Places]
  /\ taskGen \in [Tasks -> 0..MaxGeneration]
  /\ nests \in [Tasks -> 0..MaxNested]

HasTurn(t) == pc[t] \in {"inside", "unwinding"}

(* Only the recorded owner is in the body of a turn, and the lock is held  *)
(* exactly while there is one: no cancellation, refusal or nested exit     *)
(* lets a second task in or keeps the lock for nobody.                     *)
OwnerInside ==
  /\ \A t \in Tasks : HasTurn(t) <=> owner = t
  /\ locked <=> owner # NoTask
  /\ depth = 0 <=> owner = NoTask

(* A line with no owner before it has a task at its head that will run: a  *)
(* wake-up whose task was refused, or cancelled before it could use it, is *)
(* passed on.                                                              *)
WakeupPassedOn ==
  owner = NoTask /\ waiters # <<>> => pc[Head(waiters)] # "waiting"

(* The gate keeps the promise of OperationTurn: first come, first served,  *)
(* and nobody a close overtook in line ever gets the turn.                 *)
Live == {i \in DOMAIN waiters : pc[waiters[i]] # "cancelled"}
LiveWaiters == Pick(waiters, Live)
Overtaken ==
  {t \in Tasks : /\ pc[t] \notin {"outside", "cancelled"}
                 /\ taskGen[t] # generation}
Gate == INSTANCE OperationTurn
          WITH Threads <- Tasks, NoThread <- NoTask,
               holder <- owner, line <- LiveWaiters, stale <- Overtaken
GateSpec == Gate!Spec

(* Every task that waits for its turn gets it, is told that the client was *)
(* closed, or is cancelled, as long as the bodies before it end.           *)
EveryCallEnds == \A t \in Tasks : pc[t] \in Queued ~> pc[t] \notin Queued
==============================================================================
