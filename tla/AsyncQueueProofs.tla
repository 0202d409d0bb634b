-------------------------- MODULE AsyncQueueProofs ---------------------------
(***************************************************************************)
(* Theorems about AsyncQueue, for any set of tasks and any bounds: type    *)
(* correctness, mutual exclusion, that a wake-up is always passed on, and  *)
(* that the queue implements OperationTurn, whenever tasks are cancelled.  *)
(***************************************************************************)
EXTENDS AsyncQueue, SequenceLemmas, TLAPS

(* A task in line has one future there and is suspended in acquire(). *)
TasksInLine ==
  /\ \A i \in DOMAIN waiters : pc[waiters[i]] \in Queued
  /\ \A i, j \in DOMAIN waiters : waiters[i] = waiters[j] => i = j

(* A task that has been woken is the first in line and the lock waits for  *)
(* it: no two tasks are ever woken at the same time.                       *)
WokenAtHead ==
  \A t \in Tasks :
    pc[t] \in {"woken", "doomed"} =>
      owner = NoTask /\ waiters # <<>> /\ Head(waiters) = t

IInv ==
  /\ TypeOK
  /\ OwnerInside
  /\ TasksInLine
  /\ WokenAtHead
  /\ WakeupPassedOn

(* A new _AsyncFifoOperationQueue satisfies the inductive invariant. *)
LEMMA InitInvariant == Init => IInv
<1> SUFFICES ASSUME Init PROVE IInv
  OBVIOUS
<1>1. /\ waiters = <<>> /\ owner = NoTask /\ locked = FALSE /\ depth = 0
      /\ \A t \in Tasks : pc[t] = "outside"
  BY DEF Init
<1>2. TypeOK
  <2>1. 0 \in 0..MaxGeneration /\ 0 \in 0..MaxNested
    BY BoundsAssumption
  <2>2. pc \in [Tasks -> Places]
    BY DEF Init, Places
  <2>3. /\ taskGen \in [Tasks -> 0..MaxGeneration]
        /\ nests \in [Tasks -> 0..MaxNested]
    BY <2>1 DEF Init
  <2>4. waiters \in Seq(Tasks)
    BY <1>1
  <2>. QED BY <2>1, <2>2, <2>3, <2>4 DEF Init, TypeOK
<1>3. OwnerInside
  BY <1>1, TasksAssumption DEF OwnerInside, HasTurn
<1>4. TasksInLine /\ WokenAtHead /\ WakeupPassedOn
  BY <1>1 DEF TasksInLine, WokenAtHead, WakeupPassedOn
<1>. QED BY <1>2, <1>3, <1>4 DEF IInv

(* Lock._wake_up_first() changes nothing but the place of the first task   *)
(* in line, and that one no longer waits.                                  *)
LEMMA WakeFacts ==
  ASSUME NEW ws \in Seq(Tasks), NEW p \in [Tasks -> Places]
  PROVE  LET r == WakeUpFirst(ws, p)
         IN  /\ r \in [Tasks -> Places]
             /\ \A u \in Tasks :
                  \/ r[u] = p[u]
                  \/ /\ p[u] = "waiting" /\ r[u] = "woken"
                     /\ ws # <<>> /\ Head(ws) = u
             /\ ws # <<>> => r[Head(ws)] # "waiting"
<1>1. ws # <<>> => Head(ws) \in Tasks
  OBVIOUS
<1>2. "woken" \in Places
  BY DEF Places, Queued
<1>. QED BY <1>1, <1>2 DEF WakeUpFirst

(* A task that leaves the line takes its own future off and no other. *)
LEMMA LineFacts ==
  ASSUME IInv, NEW t \in Tasks, LeaveWaiters(t)
  PROVE  /\ waiters' \in Seq(Tasks)
         /\ \A j \in DOMAIN waiters' : waiters'[j] # t
         /\ \A j \in DOMAIN waiters' :
              \E i \in DOMAIN waiters : waiters'[j] = waiters[i]
         /\ \A i, j \in DOMAIN waiters' : waiters'[i] = waiters'[j] => i = j
         /\ Head(waiters) # t =>
              waiters' # <<>> /\ Head(waiters') = Head(waiters)
<1>1. waiters \in Seq(Tasks)
  BY DEF IInv, TypeOK
<1>2. \A i, j \in DOMAIN waiters : waiters[i] = waiters[j] => i = j
  BY DEF IInv, TasksInLine
<1>3. PICK k \in DOMAIN waiters :
        waiters[k] = t /\ waiters' = RemoveAt(waiters, k)
  BY DEF LeaveWaiters
<1>. QED BY <1>1, <1>2, <1>3, RemovalFromLine

(* A task that is woken runs and has the turn. *)
LEMMA AdmittedStep ==
  ASSUME IInv, NEW t \in Tasks, Admitted(t)
  PROVE  IInv'
<1>1. /\ waiters' \in Seq(Tasks)
      /\ \A j \in DOMAIN waiters' : waiters'[j] # t
      /\ \A j \in DOMAIN waiters' :
           \E i \in DOMAIN waiters : waiters'[j] = waiters[i]
      /\ \A i, j \in DOMAIN waiters' : waiters'[i] = waiters'[j] => i = j
  BY LineFacts DEF Admitted
<1>2. owner = NoTask /\ Head(waiters) = t
  BY DEF Admitted, IInv, WokenAtHead
<1>3. /\ pc' = [pc EXCEPT ![t] = "inside"]
      /\ pc \in [Tasks -> Places]
      /\ owner' = t /\ locked' = TRUE /\ depth' = 1
      /\ ownerGen' = taskGen[t]
      /\ UNCHANGED <<generation, taskGen, nests>>
  BY DEF Admitted, Own, IInv, TypeOK
<1>4. TypeOK'
  BY <1>1, <1>3 DEF IInv, TypeOK, Places
<1>5. OwnerInside'
  BY <1>2, <1>3, TasksAssumption DEF IInv, OwnerInside, HasTurn, Places
<1>6. TasksInLine'
  <2>1. ASSUME NEW j \in DOMAIN waiters'
        PROVE  pc'[waiters'[j]] \in Queued
    <3>1. PICK i \in DOMAIN waiters : waiters'[j] = waiters[i]
      BY <1>1
    <3>2. waiters'[j] \in Tasks /\ waiters'[j] # t
      BY <1>1
    <3>. QED BY <1>3, <3>1, <3>2 DEF IInv, TasksInLine
  <2>. QED BY <1>1, <2>1 DEF TasksInLine
<1>7. WokenAtHead'
  BY <1>2, <1>3 DEF IInv, WokenAtHead
<1>8. WakeupPassedOn'
  BY <1>3, TasksAssumption DEF WakeupPassedOn
<1>. QED BY <1>4, <1>5, <1>6, <1>7, <1>8 DEF IInv

(* A task leaves the line of a free lock without the turn, refused or      *)
(* cancelled, and the next one is woken.                                   *)
LEMMA PassesOnStep ==
  ASSUME IInv, NEW t \in Tasks, pc[t] \in Queued, owner = NoTask,
         LeaveWaiters(t),
         pc' = WakeUpFirst(waiters', [pc EXCEPT ![t] = "outside"]),
         UNCHANGED <<locked, owner, ownerGen, depth, generation, taskGen,
                     nests>>
  PROVE  IInv'
<1> DEFINE p == [pc EXCEPT ![t] = "outside"]
<1>1. /\ waiters' \in Seq(Tasks)
      /\ \A j \in DOMAIN waiters' : waiters'[j] # t
      /\ \A j \in DOMAIN waiters' :
           \E i \in DOMAIN waiters : waiters'[j] = waiters[i]
      /\ \A i, j \in DOMAIN waiters' : waiters'[i] = waiters'[j] => i = j
      /\ Head(waiters) # t =>
           waiters' # <<>> /\ Head(waiters') = Head(waiters)
  BY LineFacts
<1>2. /\ p \in [Tasks -> Places]
      /\ \A u \in Tasks : p[u] = IF u = t THEN "outside" ELSE pc[u]
      /\ pc' = WakeUpFirst(waiters', p)
  BY DEF IInv, TypeOK, Places
<1> HIDE DEF p
<1>3. /\ pc' \in [Tasks -> Places]
      /\ \A u \in Tasks :
           \/ pc'[u] = p[u]
           \/ /\ p[u] = "waiting" /\ pc'[u] = "woken"
              /\ waiters' # <<>> /\ Head(waiters') = u
      /\ waiters' # <<>> => pc'[Head(waiters')] # "waiting"
  <2> DEFINE ws == waiters'
  <2>1. ws \in Seq(Tasks)
    BY <1>1
  <2>2. pc' = WakeUpFirst(ws, p)
    BY <1>2
  <2>3. p \in [Tasks -> Places]
    BY <1>2
  <2> HIDE DEF ws
  <2>4. /\ WakeUpFirst(ws, p) \in [Tasks -> Places]
        /\ \A u \in Tasks :
             \/ WakeUpFirst(ws, p)[u] = p[u]
             \/ /\ p[u] = "waiting" /\ WakeUpFirst(ws, p)[u] = "woken"
                /\ ws # <<>> /\ Head(ws) = u
        /\ ws # <<>> => WakeUpFirst(ws, p)[Head(ws)] # "waiting"
    BY <2>1, <2>3, WakeFacts, Zenon
  <2>. QED BY <2>2, <2>4 DEF ws
<1>4. \A u \in Tasks : p[u] = IF u = t THEN "outside" ELSE pc[u]
  BY <1>2
<1>5. TypeOK'
  BY <1>1, <1>3 DEF IInv, TypeOK
<1>6. OwnerInside'
  <2>1. \A u \in Tasks : ~HasTurn(u)
    BY TasksAssumption DEF IInv, OwnerInside
  <2>2. \A u \in Tasks : ~(pc'[u] \in {"inside", "unwinding"})
    BY <1>3, <1>4, <2>1 DEF HasTurn
  <2>. QED BY <2>2, TasksAssumption DEF IInv, OwnerInside, HasTurn
<1>7. TasksInLine'
  <2>1. ASSUME NEW j \in DOMAIN waiters'
        PROVE  pc'[waiters'[j]] \in Queued
    <3>1. PICK i \in DOMAIN waiters : waiters'[j] = waiters[i]
      BY <1>1
    <3>2. waiters'[j] \in Tasks /\ waiters'[j] # t
      BY <1>1
    <3>3. p[waiters'[j]] \in Queued
      BY <1>4, <3>1, <3>2 DEF IInv, TasksInLine
    <3>. QED BY <1>3, <3>2, <3>3 DEF Queued
  <2>. QED BY <1>1, <2>1 DEF TasksInLine
<1>8. WokenAtHead'
  <2>1. ASSUME NEW u \in Tasks, pc'[u] \in {"woken", "doomed"}
        PROVE  waiters' # <<>> /\ Head(waiters') = u
    <3>1. CASE pc'[u] = p[u]
      <4>1. u # t /\ pc[u] \in {"woken", "doomed"}
        BY <1>4, <2>1, <3>1
      <4>2. Head(waiters) = u
        BY <4>1 DEF IInv, WokenAtHead
      <4>. QED BY <1>1, <4>1, <4>2
    <3>. QED BY <1>3, <3>1
  <2>. QED BY <2>1 DEF WokenAtHead
<1>9. WakeupPassedOn'
  BY <1>3 DEF WakeupPassedOn
<1>. QED BY <1>5, <1>6, <1>7, <1>8, <1>9 DEF IInv

(* A task cancelled in line leaves it while another one has the turn. *)
LEMMA LeavesQuietlyStep ==
  ASSUME IInv, NEW t \in Tasks, pc[t] = "cancelled", owner # NoTask,
         LeaveWaiters(t),
         pc' = [pc EXCEPT ![t] = "outside"],
         UNCHANGED <<locked, owner, ownerGen, depth, generation, taskGen,
                     nests>>
  PROVE  IInv'
<1>1. /\ waiters' \in Seq(Tasks)
      /\ \A j \in DOMAIN waiters' : waiters'[j] # t
      /\ \A j \in DOMAIN waiters' :
           \E i \in DOMAIN waiters : waiters'[j] = waiters[i]
      /\ \A i, j \in DOMAIN waiters' : waiters'[i] = waiters'[j] => i = j
  BY LineFacts
<1>2. pc \in [Tasks -> Places]
  BY DEF IInv, TypeOK
<1>3. \A u \in Tasks : pc'[u] = IF u = t THEN "outside" ELSE pc[u]
  BY <1>2
<1>4. TypeOK'
  BY <1>1, <1>2 DEF IInv, TypeOK, Places
<1>5. OwnerInside'
  BY <1>3 DEF IInv, OwnerInside, HasTurn
<1>6. TasksInLine'
  <2>1. ASSUME NEW j \in DOMAIN waiters'
        PROVE  pc'[waiters'[j]] \in Queued
    <3>1. PICK i \in DOMAIN waiters : waiters'[j] = waiters[i]
      BY <1>1
    <3>2. waiters'[j] \in Tasks /\ waiters'[j] # t
      BY <1>1
    <3>. QED BY <1>3, <3>1, <3>2 DEF IInv, TasksInLine
  <2>. QED BY <1>1, <2>1 DEF TasksInLine
<1>7. WokenAtHead' /\ WakeupPassedOn'
  BY <1>3 DEF IInv, WokenAtHead, WakeupPassedOn
<1>. QED BY <1>4, <1>5, <1>6, <1>7 DEF IInv

(* A task that finds the lock taken, or somebody before it, joins the end. *)
LEMMA JoinsStep ==
  ASSUME IInv, NEW t \in Tasks, EnterWaiting(t)
  PROVE  IInv'
<1>1. /\ waiters \in Seq(Tasks)
      /\ waiters' = Append(waiters, t)
      /\ pc[t] = "outside"
      /\ pc' = [pc EXCEPT ![t] = "waiting"]
      /\ pc \in [Tasks -> Places]
      /\ UNCHANGED <<locked, owner, ownerGen, depth, generation>>
  BY DEF EnterWaiting, IInv, TypeOK
<1>2. /\ DOMAIN waiters' = 1..(Len(waiters) + 1)
      /\ DOMAIN waiters = 1..Len(waiters)
      /\ Len(waiters) \in Nat
      /\ waiters'[Len(waiters) + 1] = t
      /\ \A j \in 1..Len(waiters) : waiters'[j] = waiters[j]
      /\ waiters # <<>> => waiters' # <<>> /\ Head(waiters') = Head(waiters)
  BY <1>1
<1>3. \A u \in Tasks : pc'[u] = IF u = t THEN "waiting" ELSE pc[u]
  BY <1>1
<1>4. \A j \in DOMAIN waiters : waiters[j] \in Tasks /\ waiters[j] # t
  BY <1>1 DEF IInv, TasksInLine, Queued
<1>5. TypeOK'
  <2>1. /\ taskGen' \in [Tasks -> 0..MaxGeneration]
        /\ nests' \in [Tasks -> 0..MaxNested]
    BY DEF EnterWaiting, IInv, TypeOK
  <2>2. waiters' \in Seq(Tasks)
    BY <1>1
  <2>3. pc' \in [Tasks -> Places]
    BY <1>1 DEF Places, Queued
  <2>. QED BY <1>1, <2>1, <2>2, <2>3 DEF IInv, TypeOK
<1>6. OwnerInside'
  BY <1>1, <1>3 DEF IInv, OwnerInside, HasTurn
<1>7. TasksInLine'
  <2>1. ASSUME NEW i \in DOMAIN waiters'
        PROVE  pc'[waiters'[i]] \in Queued
    <3>1. CASE i = Len(waiters) + 1
      BY <1>2, <1>3, <3>1 DEF Queued
    <3>2. CASE i \in DOMAIN waiters
      BY <1>2, <1>3, <1>4, <3>2 DEF IInv, TasksInLine
    <3>. QED BY <1>2, <3>1, <3>2
  <2>2. ASSUME NEW i \in DOMAIN waiters', NEW j \in DOMAIN waiters',
               waiters'[i] = waiters'[j]
        PROVE  i = j
    <3>1. CASE i \in DOMAIN waiters /\ j \in DOMAIN waiters
      BY <1>2, <2>2, <3>1 DEF IInv, TasksInLine
    <3>2. CASE i = Len(waiters) + 1 \/ j = Len(waiters) + 1
      BY <1>2, <1>4, <2>2, <3>2
    <3>. QED BY <1>2, <3>1, <3>2
  <2>. QED BY <2>1, <2>2 DEF TasksInLine
<1>8. WokenAtHead'
  BY <1>1, <1>2, <1>3 DEF IInv, WokenAtHead
<1>9. WakeupPassedOn'
  <2>1. owner = NoTask => waiters # <<>>
    BY DEF EnterWaiting, FreeLock, IInv, OwnerInside
  <2>2. waiters # <<>> => Head(waiters) = waiters[1] /\ 1 \in DOMAIN waiters
    BY <1>1
  <2>. QED BY <1>1, <1>2, <1>3, <1>4, <2>1, <2>2 DEF IInv, WakeupPassedOn
<1>. QED BY <1>5, <1>6, <1>7, <1>8, <1>9 DEF IInv

(* A task that finds the lock free takes it without suspending. *)
LEMMA EnterFreeStep ==
  ASSUME IInv, NEW t \in Tasks, EnterFree(t)
  PROVE  IInv'
<1>1. /\ pc[t] = "outside" /\ owner = NoTask
      /\ pc' = [pc EXCEPT ![t] = "inside"]
      /\ pc \in [Tasks -> Places]
      /\ owner' = t /\ locked' = TRUE /\ depth' = 1
      /\ ownerGen' = generation
      /\ waiters' = waiters /\ waiters \in Seq(Tasks)
  BY DEF EnterFree, FreeLock, Own, IInv, TypeOK, OwnerInside
<1>2. \A u \in Tasks : pc'[u] = IF u = t THEN "inside" ELSE pc[u]
  BY <1>1
<1>3. \A u \in Tasks : ~(pc[u] \in {"woken", "doomed"})
  <2>1. waiters # <<>> => Head(waiters) = waiters[1] /\ 1 \in DOMAIN waiters
    BY <1>1
  <2>. QED BY <2>1 DEF EnterFree, FreeLock, IInv, WokenAtHead
<1>4. TypeOK'
  <2>1. /\ taskGen' \in [Tasks -> 0..MaxGeneration]
        /\ nests' \in [Tasks -> 0..MaxNested]
        /\ generation' = generation
    BY DEF EnterFree, IInv, TypeOK
  <2>. QED BY <1>1, <2>1 DEF IInv, TypeOK, Places
<1>5. OwnerInside'
  BY <1>1, <1>2, TasksAssumption DEF IInv, OwnerInside, HasTurn
<1>6. TasksInLine'
  BY <1>1, <1>2 DEF IInv, TasksInLine, Queued
<1>7. WokenAtHead' /\ WakeupPassedOn'
  BY <1>1, <1>2, <1>3, TasksAssumption DEF WokenAtHead, WakeupPassedOn
<1>. QED BY <1>4, <1>5, <1>6, <1>7 DEF IInv

(* The end of the outer turn frees the lock and wakes the first in line. *)
LEMMA LeaveOuterStep ==
  ASSUME IInv, NEW t \in Tasks, LeaveOuter(t)
  PROVE  IInv'
<1> DEFINE p == [pc EXCEPT ![t] = "outside"]
<1>1. /\ HasTurn(t) /\ owner = t
      /\ owner' = NoTask /\ locked' = FALSE /\ depth' = 0 /\ ownerGen' = 0
      /\ pc' = WakeUpFirst(waiters, p)
      /\ UNCHANGED <<waiters, generation, taskGen, nests>>
  BY DEF LeaveOuter, HasTurn, IInv, OwnerInside
<1>2. /\ p \in [Tasks -> Places]
      /\ \A u \in Tasks : p[u] = IF u = t THEN "outside" ELSE pc[u]
      /\ waiters \in Seq(Tasks)
  BY DEF IInv, TypeOK, Places
<1> HIDE DEF p
<1>3. /\ pc' \in [Tasks -> Places]
      /\ \A u \in Tasks :
           \/ pc'[u] = p[u]
           \/ /\ p[u] = "waiting" /\ pc'[u] = "woken"
              /\ waiters # <<>> /\ Head(waiters) = u
      /\ waiters # <<>> => pc'[Head(waiters)] # "waiting"
  BY <1>1, <1>2, WakeFacts
<1>4. \A u \in Tasks : p[u] = IF u = t THEN "outside" ELSE pc[u]
  BY <1>2
<1>5. TypeOK'
  <2>1. 0 \in 0..MaxGeneration /\ 0 \in Nat
    BY BoundsAssumption
  <2>. QED BY <1>1, <1>2, <1>3, <2>1 DEF IInv, TypeOK
<1>6. OwnerInside'
  BY <1>1, <1>3, <1>4, TasksAssumption DEF IInv, OwnerInside, HasTurn
<1>7. TasksInLine'
  <2>1. ASSUME NEW j \in DOMAIN waiters
        PROVE  pc'[waiters[j]] \in Queued
    <3>1. waiters[j] \in Tasks /\ pc[waiters[j]] \in Queued /\ waiters[j] # t
      BY <1>1, <1>2 DEF IInv, TasksInLine, HasTurn, Queued
    <3>. QED BY <1>3, <1>4, <3>1 DEF Queued
  <2>. QED BY <1>1, <2>1 DEF IInv, TasksInLine
<1>8. WokenAtHead'
  <2>1. \A u \in Tasks : ~(pc[u] \in {"woken", "doomed"})
    BY <1>1, TasksAssumption DEF IInv, WokenAtHead
  <2>. QED BY <1>1, <1>3, <1>4, <2>1 DEF WokenAtHead
<1>9. WakeupPassedOn'
  BY <1>1, <1>3 DEF WakeupPassedOn
<1>. QED BY <1>5, <1>6, <1>7, <1>8, <1>9 DEF IInv

(* Task.cancel() moves no future and makes nobody ready who was not. *)
LEMMA CancelStep ==
  ASSUME IInv, NEW t \in Tasks, Cancel(t)
  PROVE  IInv'
<1>1. pc \in [Tasks -> Places] /\ waiters \in Seq(Tasks)
  BY DEF IInv, TypeOK
<1>2. PICK place \in {"cancelled", "doomed", "unwinding"} :
        /\ place = "cancelled" => pc[t] = "waiting"
        /\ place = "doomed" => pc[t] = "woken"
        /\ place = "unwinding" => pc[t] = "inside"
        /\ pc' = [pc EXCEPT ![t] = place]
  BY DEF Cancel
<1>3. \A u \in Tasks : pc'[u] = IF u = t THEN place ELSE pc[u]
  BY <1>1, <1>2
<1>4. UNCHANGED <<queueVars, taskGen, nests>>
  BY DEF Cancel
<1>5. TypeOK'
  BY <1>1, <1>2, <1>4 DEF IInv, TypeOK, Places, Queued, queueVars, lockVars
<1>6. OwnerInside'
  BY <1>2, <1>3, <1>4 DEF IInv, OwnerInside, HasTurn, queueVars, lockVars
<1>7. TasksInLine'
  BY <1>1, <1>2, <1>3, <1>4
     DEF IInv, TasksInLine, Queued, queueVars, lockVars
<1>8. WokenAtHead'
  BY <1>2, <1>3, <1>4 DEF IInv, WokenAtHead, queueVars, lockVars
<1>9. WakeupPassedOn'
  <2>1. waiters # <<>> => Head(waiters) \in Tasks
    BY <1>1
  <2>. QED BY <1>2, <1>3, <1>4, <2>1
           DEF IInv, WakeupPassedOn, queueVars, lockVars
<1>. QED BY <1>5, <1>6, <1>7, <1>8, <1>9 DEF IInv

(* Every step of a task, every cancellation and every close keep it. *)
LEMMA StepInvariant == IInv /\ [Next]_vars => IInv'
<1> SUFFICES ASSUME IInv, [Next]_vars PROVE IInv'
  OBVIOUS
<1>1. CASE Invalidate
  BY <1>1, BoundsAssumption
     DEF Invalidate, lockVars, IInv, TypeOK, OwnerInside, HasTurn, TasksInLine,
         WokenAtHead, WakeupPassedOn
<1>2. ASSUME NEW t \in Tasks, EnterFree(t) PROVE IInv'
  BY <1>2, EnterFreeStep
<1>3. ASSUME NEW t \in Tasks, EnterWaiting(t) PROVE IInv'
  BY <1>3, JoinsStep
<1>4. ASSUME NEW t \in Tasks, Admitted(t) PROVE IInv'
  BY <1>4, AdmittedStep
<1>5. ASSUME NEW t \in Tasks, Refused(t) PROVE IInv'
  <2>1. pc[t] \in Queued /\ owner = NoTask
    BY <1>5 DEF Refused, Queued, IInv, WokenAtHead
  <2>. QED BY <1>5, <2>1, PassesOnStep DEF Refused
<1>6. ASSUME NEW t \in Tasks, Cancel(t) PROVE IInv'
  BY <1>6, CancelStep
<1>7. ASSUME NEW t \in Tasks, CancelledInLine(t) PROVE IInv'
  <2>1. CASE locked
    <3>1. owner # NoTask /\ pc[t] = "cancelled"
      BY <1>7, <2>1 DEF CancelledInLine, IInv, OwnerInside, WokenAtHead
    <3>. QED BY <1>7, <2>1, <3>1, LeavesQuietlyStep DEF CancelledInLine
  <2>2. CASE ~locked
    <3>1. owner = NoTask /\ pc[t] \in Queued
      BY <1>7, <2>2 DEF CancelledInLine, IInv, OwnerInside, Queued
    <3>. QED BY <1>7, <2>2, <3>1, PassesOnStep DEF CancelledInLine
  <2>. QED BY <2>1, <2>2
<1>8. ASSUME NEW t \in Tasks, EnterNested(t) PROVE IInv'
  <2>1. /\ UNCHANGED <<locked, waiters, owner, ownerGen, generation, pc,
                       taskGen>>
        /\ depth' = depth + 1 /\ owner = t
        /\ nests' = [nests EXCEPT ![t] = @ - 1] /\ nests[t] > 0
    BY <1>8 DEF EnterNested, lockVars
  <2>2. nests' \in [Tasks -> 0..MaxNested] /\ depth' \in Nat /\ depth' # 0
    BY <2>1, BoundsAssumption DEF IInv, TypeOK
  <2>3. TypeOK'
    BY <2>1, <2>2 DEF IInv, TypeOK
  <2>4. OwnerInside'
    BY <2>1, <2>2, TasksAssumption DEF IInv, OwnerInside, HasTurn
  <2>. QED BY <2>1, <2>3, <2>4
           DEF IInv, TasksInLine, WokenAtHead, WakeupPassedOn
<1>9. ASSUME NEW t \in Tasks, LeaveNested(t) PROVE IInv'
  BY <1>9, TasksAssumption
     DEF LeaveNested, lockVars, IInv, TypeOK, OwnerInside, HasTurn,
         TasksInLine,
         WokenAtHead, WakeupPassedOn
<1>10. ASSUME NEW t \in Tasks, LeaveOuter(t) PROVE IInv'
  BY <1>10, LeaveOuterStep
<1>11. ASSUME NEW t \in Tasks, EnsureCurrentFails(t) PROVE IInv'
  BY <1>11
     DEF EnsureCurrentFails, queueVars, lockVars, IInv, TypeOK, Places, Queued,
         OwnerInside, HasTurn, TasksInLine, WokenAtHead, WakeupPassedOn
<1>12. CASE UNCHANGED vars
  BY <1>12
     DEF vars, queueVars, lockVars, IInv, TypeOK, OwnerInside, HasTurn,
         TasksInLine, WokenAtHead, WakeupPassedOn
<1>. QED
  BY <1>1, <1>2, <1>3, <1>4, <1>5, <1>6, <1>7, <1>8, <1>9, <1>10, <1>11, <1>12
     DEF Next

(* The inductive invariant holds in every reachable state. *)
LEMMA QueueInvariant == Spec => []IInv
BY InitInvariant, StepInvariant, PTL DEF Spec

(* The variables of _AsyncFifoOperationQueue, its lock and its callers     *)
(* keep their types.                                                       *)
THEOREM AsyncTypes == Spec => []TypeOK
<1>1. IInv => TypeOK
  BY DEF IInv
<1>. QED BY <1>1, QueueInvariant, PTL

(* Only the owner is in the body of a turn, and the lock is held exactly   *)
(* while there is one, whatever tasks are cancelled at whatever point.     *)
THEOREM AsyncMutualExclusion == Spec => []OwnerInside
<1>1. IInv => OwnerInside
  BY DEF IInv
<1>. QED BY <1>1, QueueInvariant, PTL

(* A refusal or a cancellation never leaves a free gate with a sleeping    *)
(* task at the head of its line.                                           *)
THEOREM WakeupsArePassedOn == Spec => []WakeupPassedOn
<1>1. IInv => WakeupPassedOn
  BY DEF IInv
<1>. QED BY <1>1, QueueInvariant, PTL
------------------------------------------------------------------------------
(* Whoever waits for the lock is in its line, and knows no generation that *)
(* is yet to come.                                                         *)
NobodyLost ==
  \A t \in Tasks :
    /\ pc[t] \in Queued => \E i \in DOMAIN waiters : waiters[i] = t
    /\ taskGen[t] <= generation

(* A future that leaves the line leaves all others in it. *)
LEMMA OthersStay ==
  ASSUME IInv, NEW t \in Tasks, LeaveWaiters(t), NEW i \in DOMAIN waiters,
         waiters[i] # t
  PROVE  \E j \in DOMAIN waiters' : waiters'[j] = waiters[i]
<1>1. waiters \in Seq(Tasks)
  BY DEF IInv, TypeOK
<1>2. PICK k \in DOMAIN waiters :
        waiters[k] = t /\ waiters' = RemoveAt(waiters, k)
  BY DEF LeaveWaiters
<1>3. /\ waiters' \in Seq(Tasks) /\ Len(waiters') = Len(waiters) - 1
      /\ \A j \in 1..(Len(waiters) - 1) :
           waiters'[j] = IF j < k THEN waiters[j] ELSE waiters[j + 1]
  BY <1>1, <1>2, RemoveAtIsSeq
<1>4. k \in 1..Len(waiters) /\ i \in 1..Len(waiters) /\ i # k
      /\ Len(waiters) \in Nat /\ DOMAIN waiters' = 1..(Len(waiters) - 1)
  BY <1>1, <1>2, <1>3
<1>5. CASE i < k
  BY <1>3, <1>4, <1>5
<1>6. CASE i > k
  <2>1. i - 1 \in 1..(Len(waiters) - 1) /\ ~(i - 1 < k) /\ (i - 1) + 1 = i
    BY <1>4, <1>6
  <2> QED BY <1>3, <1>4, <2>1
<1> QED BY <1>4, <1>5, <1>6

(* Every step keeps it. *)
LEMMA NobodyLostStep ==
  ASSUME IInv, NobodyLost, [Next]_vars
  PROVE  NobodyLost'
<1>0. /\ waiters \in Seq(Tasks) /\ pc \in [Tasks -> Places]
      /\ taskGen \in [Tasks -> 0..MaxGeneration] /\ generation \in Nat
      /\ \A t \in Tasks : taskGen[t] \in Nat
  BY BoundsAssumption DEF IInv, TypeOK
<1> USE DEF Places, Queued
<1>1. ASSUME NEW t \in Tasks, LeaveWaiters(t),
             \A u \in Tasks \ {t} : pc'[u] \in Queued => pc[u] \in Queued,
             pc'[t] \notin Queued, UNCHANGED <<taskGen, generation>>
      PROVE  NobodyLost'
  <2>1. ASSUME NEW u \in Tasks, pc'[u] \in Queued
        PROVE  \E i \in DOMAIN waiters' : waiters'[i] = u
    BY <1>1, <2>1, OthersStay DEF NobodyLost
  <2> QED BY <1>1, <2>1 DEF NobodyLost
<1>2. ASSUME NEW t \in Tasks, NEW p, p \in [Tasks -> Places],
             p[t] = "outside", \A u \in Tasks \ {t} : p[u] = pc[u],
             NEW ws \in Seq(Tasks), pc' = WakeUpFirst(ws, p)
      PROVE  /\ pc'[t] = "outside"
             /\ \A u \in Tasks : pc'[u] \in Queued => pc[u] \in Queued
  <2>1. \A u \in Tasks :
          pc'[u] = p[u] \/ (p[u] = "waiting" /\ pc'[u] = "woken")
    BY <1>2 DEF WakeUpFirst
  <2> QED BY <1>2, <2>1
<1>3. CASE Invalidate
  BY <1>0, <1>3 DEF Invalidate, lockVars, NobodyLost
<1>4. ASSUME NEW t \in Tasks, EnterFree(t) PROVE NobodyLost'
  BY <1>0, <1>4 DEF EnterFree, NobodyLost
<1>5. ASSUME NEW t \in Tasks, EnterWaiting(t) PROVE NobodyLost'
  <2>1. /\ waiters' = Append(waiters, t) /\ UNCHANGED generation
        /\ taskGen' = [taskGen EXCEPT ![t] = generation]
        /\ pc' = [pc EXCEPT ![t] = "waiting"]
    BY <1>5 DEF EnterWaiting
  <2>2. /\ DOMAIN waiters' = 1..(Len(waiters) + 1) /\ Len(waiters) \in Nat
        /\ DOMAIN waiters = 1..Len(waiters)
        /\ waiters'[Len(waiters) + 1] = t
        /\ \A i \in DOMAIN waiters : i \in DOMAIN waiters'
                                     /\ waiters'[i] = waiters[i]
    BY <1>0, <2>1
  <2>3. ASSUME NEW u \in Tasks, pc'[u] \in Queued
        PROVE  \E i \in DOMAIN waiters' : waiters'[i] = u
    <3>1. CASE u = t
      BY <2>2, <3>1
    <3>2. CASE u # t
      BY <1>0, <2>1, <2>2, <2>3, <3>2 DEF NobodyLost
    <3> QED BY <3>1, <3>2
  <2>4. \A u \in Tasks : taskGen'[u] <= generation'
    BY <1>0, <2>1 DEF NobodyLost
  <2> QED BY <2>3, <2>4 DEF NobodyLost
<1>6. ASSUME NEW t \in Tasks, Admitted(t) PROVE NobodyLost'
  BY <1>0, <1>1, <1>6 DEF Admitted
<1>7. ASSUME NEW t \in Tasks, Refused(t) PROVE NobodyLost'
  <2>1. waiters' \in Seq(Tasks)
    BY <1>7, LineFacts DEF Refused
  <2> QED BY <1>0, <1>1, <1>2, <1>7, <2>1 DEF Refused
<1>8. ASSUME NEW t \in Tasks, CancelledInLine(t) PROVE NobodyLost'
  <2>1. waiters' \in Seq(Tasks)
    BY <1>8, LineFacts DEF CancelledInLine
  <2>2. CASE locked
    BY <1>0, <1>1, <1>8, <2>2 DEF CancelledInLine
  <2>3. CASE ~locked
    BY <1>0, <1>1, <1>2, <1>8, <2>1, <2>3 DEF CancelledInLine
  <2> QED BY <2>2, <2>3
<1>9. ASSUME NEW t \in Tasks, LeaveOuter(t) PROVE NobodyLost'
  <2>1. \A u \in Tasks : pc'[u] \in Queued => pc[u] \in Queued
    BY <1>0, <1>2, <1>9 DEF LeaveOuter
  <2> QED BY <1>9, <2>1 DEF LeaveOuter, NobodyLost
<1>10. ASSUME NEW t \in Tasks,
              \/ Cancel(t) \/ EnterNested(t) \/ LeaveNested(t)
              \/ EnsureCurrentFails(t)
       PROVE  NobodyLost'
  BY <1>0, <1>10
     DEF Cancel, EnterNested, LeaveNested, EnsureCurrentFails, queueVars,
         lockVars, NobodyLost
<1>11. CASE UNCHANGED vars
  BY <1>11 DEF vars, queueVars, lockVars, NobodyLost
<1> QED
  BY <1>3, <1>4, <1>5, <1>6, <1>7, <1>8, <1>9, <1>10, <1>11 DEF Next

(* The line of the abstract gate has the tasks that wait and were not      *)
(* cancelled.                                                              *)
LEMMA LiveLine ==
  ASSUME IInv, NobodyLost
  PROVE  /\ LiveWaiters \in Seq(Tasks)
         /\ \A t \in Tasks :
              t \in Gate!ToSet(LiveWaiters)
                <=> pc[t] \in {"waiting", "woken", "doomed"}
<1>1. waiters \in Seq(Tasks)
  BY DEF IInv, TypeOK
<1>2. Gate!ToSet(LiveWaiters) = ToSet(LiveWaiters)
  BY DEF Gate!ToSet, ToSet
<1>3. /\ LiveWaiters \in Seq(Tasks)
      /\ ToSet(LiveWaiters) = {waiters[i] : i \in Live \cap DOMAIN waiters}
  BY <1>1, PickMembers DEF LiveWaiters
<1>4. ASSUME NEW t \in Tasks
      PROVE  t \in {waiters[i] : i \in Live \cap DOMAIN waiters}
               <=> pc[t] \in {"waiting", "woken", "doomed"}
  BY DEF Live, IInv, TasksInLine, NobodyLost, Queued
<1> HIDE DEF LiveWaiters
<1> QED BY <1>2, <1>3, <1>4

(* It stays as it is when nobody joins or leaves, and nobody is cancelled. *)
LEMMA LineStays ==
  ASSUME IInv, UNCHANGED waiters,
         \A u \in Tasks : pc'[u] = "cancelled" <=> pc[u] = "cancelled"
  PROVE  LiveWaiters' = LiveWaiters
<1>1. waiters \in Seq(Tasks)
  BY DEF IInv, TypeOK
<1>2. Live' = Live
  BY <1>1 DEF Live
<1> QED BY <1>2 DEF LiveWaiters

(* A task that leaves the line leaves the line of the abstract gate,       *)
(* unless it had left that one when it was cancelled.                      *)
LEMMA LineShrinks ==
  ASSUME IInv, NEW t \in Tasks, LeaveWaiters(t),
         \A u \in Tasks \ {t} : pc'[u] = "cancelled" <=> pc[u] = "cancelled"
  PROVE  LiveWaiters' = IF pc[t] = "cancelled" THEN LiveWaiters
                        ELSE RemoveFirst(LiveWaiters, t)
<1>1. /\ waiters \in Seq(Tasks)
      /\ \A i, j \in DOMAIN waiters : waiters[i] = waiters[j] => i = j
  BY DEF IInv, TypeOK, TasksInLine
<1>2. PICK k \in DOMAIN waiters :
        waiters[k] = t /\ waiters' = RemoveAt(waiters, k)
  BY DEF LeaveWaiters
<1>3. /\ waiters' \in Seq(Tasks) /\ Len(waiters') = Len(waiters) - 1
      /\ \A j \in 1..(Len(waiters) - 1) :
           waiters'[j] = IF j < k THEN waiters[j] ELSE waiters[j + 1]
  BY <1>1, <1>2, RemoveAtIsSeq
<1>4. /\ k \in 1..Len(waiters) /\ Len(waiters) \in Nat
      /\ DOMAIN waiters = 1..Len(waiters)
      /\ DOMAIN waiters' = 1..(Len(waiters) - 1)
  BY <1>1, <1>2, <1>3
<1> DEFINE I == Live \ {k}
           J == Live'
<1>5. ASSUME NEW j \in 1..(Len(waiters) - 1)
      PROVE  j \in J <=> IF j < k THEN j \in I ELSE j + 1 \in I
  <2> DEFINE i == IF j < k THEN j ELSE j + 1
  <2>1. i \in DOMAIN waiters /\ i # k /\ waiters'[j] = waiters[i]
    BY <1>3, <1>4
  <2>2. waiters[i] \in Tasks \ {t}
    BY <1>1, <1>2, <2>1
  <2>3. j \in J <=> pc'[waiters'[j]] # "cancelled"
    BY <1>4 DEF Live
  <2>4. i \in I <=> pc[waiters[i]] # "cancelled"
    BY <2>1 DEF Live
  <2>5. j \in J <=> i \in I
    BY <2>1, <2>2, <2>3, <2>4
  <2> QED BY <2>5
<1>6. Pick(waiters', J) = Pick(waiters, I)
  <2> HIDE DEF J
  <2>1. k \notin I
    OBVIOUS
  <2> HIDE DEF I
  <2> QED BY <1>1, <1>2, <1>5, <2>1, PickWithout
<1>7. CASE pc[t] = "cancelled"
  <2>1. I = Live
    BY <1>2, <1>7 DEF Live
  <2> QED BY <1>6, <1>7, <2>1 DEF LiveWaiters
<1>8. CASE pc[t] # "cancelled"
  <2>1. k \in Live
    BY <1>2, <1>8 DEF Live
  <2>2. \A i \in DOMAIN waiters : waiters[i] = waiters[k] => i = k
    BY <1>1, <1>2
  <2>3. Pick(waiters, I) = RemoveFirst(Pick(waiters, Live), waiters[k])
    BY <1>1, <2>1, <2>2, PickFewer
  <2> QED BY <1>2, <1>6, <1>8, <2>3 DEF LiveWaiters
<1> QED BY <1>7, <1>8

(* The gate removes a task from its line with the RemoveFirst of           *)
(* SequencesExt.                                                           *)
LEMMA GateRemoves ==
  ASSUME NEW s, NEW e
  PROVE  Gate!RemoveFirst(s, e) = RemoveFirst(s, e)
BY DEF Gate!RemoveFirst, Gate!RemoveAt, Gate!SelectInSeq, Gate!Min,
       RemoveFirst, RemoveAt, SelectInSeq, Min

(* Every step of the queue is a step of OperationTurn or changes nothing   *)
(* that OperationTurn knows: a cancellation leaves the line at once there, *)
(* and the task that runs later leaves no trace; nested turns and wake-ups *)
(* leave none at all.                                                      *)
LEMMA GateStep ==
  ASSUME IInv, NobodyLost, [Next]_vars
  PROVE  [Gate!Next]_(Gate!vars)
<1>0. /\ waiters \in Seq(Tasks) /\ pc \in [Tasks -> Places]
      /\ owner \in Tasks \union {NoTask} /\ NoTask \notin Tasks
      /\ taskGen \in [Tasks -> Nat] /\ generation \in Nat
      /\ \A t \in Tasks : pc[t] \in {"inside", "unwinding"} <=> owner = t
      /\ \A t \in Tasks : taskGen[t] <= generation
  BY TasksAssumption, BoundsAssumption
     DEF IInv, TypeOK, OwnerInside, HasTurn, NobodyLost
<1>1. /\ LiveWaiters \in Seq(Tasks)
      /\ \A t \in Tasks :
           t \in Gate!ToSet(LiveWaiters)
             <=> pc[t] \in {"waiting", "woken", "doomed"}
  BY LiveLine
<1> USE <1>0 DEF Places, Queued
<1>2. ASSUME NEW t \in Tasks, NEW p \in [Tasks -> Places],
             NEW ws \in Seq(Tasks), pc' = WakeUpFirst(ws, p)
      PROVE  \A u \in Tasks :
               pc'[u] = p[u] \/ (p[u] = "waiting" /\ pc'[u] = "woken")
  BY <1>2 DEF WakeUpFirst
<1>3. CASE Invalidate
  <2>1. /\ LiveWaiters' = LiveWaiters /\ owner' = owner
        /\ pc' = pc /\ taskGen' = taskGen /\ generation' = generation + 1
    BY <1>3, LineStays DEF Invalidate, lockVars
  <2>2. Overtaken' = Gate!ToSet(LiveWaiters) \union ({owner} \ {NoTask})
    <3>1. \A t \in Tasks : taskGen[t] # generation + 1
      OBVIOUS
    <3>2. ASSUME NEW t \in Tasks
          PROVE  t \in Overtaken'
                   <=> t \in Gate!ToSet(LiveWaiters) \/ owner = t
      BY <1>1, <2>1, <3>1 DEF Overtaken
    <3>3. Gate!ToSet(LiveWaiters) \subseteq Tasks
      BY <1>1 DEF Gate!ToSet
    <3>4. Overtaken' \subseteq Tasks
      BY DEF Overtaken
    <3> HIDE DEF Overtaken
    <3> QED BY <3>2, <3>3, <3>4
  <2>3. Gate!Close
    BY <2>1, <2>2 DEF Gate!Close
  <2> QED BY <2>3 DEF Gate!Next
<1>4. ASSUME NEW t \in Tasks, EnterFree(t) PROVE Gate!Next
  <2>1. LiveWaiters' = LiveWaiters
    BY <1>4, LineStays DEF EnterFree
  <2>2. LiveWaiters = <<>>
    <3>1. Live \cap DOMAIN waiters = {}
      BY <1>4 DEF EnterFree, FreeLock, Live
    <3> QED BY <3>1, PickMembers DEF LiveWaiters
  <2>3. owner = NoTask
    BY <1>4 DEF EnterFree, FreeLock, IInv, OwnerInside
  <2>4. Gate!Idle(t)
    BY <1>1, <1>4, <2>3 DEF EnterFree, Gate!Idle
  <2>5. Overtaken' = Overtaken
    BY <1>4 DEF EnterFree, Overtaken
  <2>6. Gate!TakeFree(t)
    BY <1>4, <2>1, <2>2, <2>3, <2>4, <2>5 DEF Gate!TakeFree, EnterFree, Own
  <2> QED BY <2>6 DEF Gate!Next
<1>5. ASSUME NEW t \in Tasks, EnterWaiting(t) PROVE Gate!Next
  <2>1. /\ waiters' = Append(waiters, t) /\ UNCHANGED <<owner, generation>>
        /\ pc' = [pc EXCEPT ![t] = "waiting"] /\ pc[t] = "outside"
        /\ taskGen' = [taskGen EXCEPT ![t] = generation]
    BY <1>5 DEF EnterWaiting
  <2>2. LiveWaiters' = Append(LiveWaiters, t)
    <3>1. /\ Len(waiters) \in Nat /\ DOMAIN waiters = 1..Len(waiters)
          /\ DOMAIN waiters' = 1..(Len(waiters) + 1)
          /\ waiters'[Len(waiters) + 1] = t
          /\ \A i \in 1..Len(waiters) : waiters'[i] = waiters[i]
      BY <2>1
    <3>2. \A i \in 1..Len(waiters) : waiters[i] # t
      BY <2>1, <3>1 DEF IInv, TasksInLine
    <3>3. \A i \in 1..Len(waiters) : i \in Live <=> i \in Live'
      BY <2>1, <3>1, <3>2 DEF Live
    <3>4. Len(waiters) + 1 \in Live'
      BY <2>1, <3>1 DEF Live
    <3>5. Pick(Append(waiters, t), Live') = Append(Pick(waiters, Live), t)
      BY <3>3, <3>4, PickAppend
    <3> QED BY <2>1, <3>5 DEF LiveWaiters
  <2>3. Gate!Idle(t)
    BY <1>1, <2>1 DEF Gate!Idle
  <2>4. Overtaken' = Overtaken
    BY <2>1 DEF Overtaken
  <2>5. Gate!Join(t)
    BY <2>1, <2>2, <2>3, <2>4 DEF Gate!Join
  <2> QED BY <2>5 DEF Gate!Next
<1>6. ASSUME NEW t \in Tasks, Admitted(t) PROVE Gate!Next
  <2>1. /\ pc[t] = "woken" /\ taskGen[t] = generation /\ LeaveWaiters(t)
        /\ owner' = t /\ pc' = [pc EXCEPT ![t] = "inside"]
        /\ UNCHANGED <<generation, taskGen>>
    BY <1>6 DEF Admitted, Own
  <2>2. owner = NoTask /\ waiters # <<>> /\ Head(waiters) = t
    BY <2>1 DEF IInv, WokenAtHead
  <2>3. LiveWaiters # <<>> /\ Head(LiveWaiters) = t
    <3>1. 1 \in Live /\ waiters[1] = t
      BY <2>1, <2>2 DEF Live
    <3> QED BY <2>2, <3>1, PickHead DEF LiveWaiters
  <2>4. LiveWaiters' = Tail(LiveWaiters)
    <3>1. LiveWaiters' = RemoveFirst(LiveWaiters, t)
      BY <2>1, LineShrinks
    <3> HIDE DEF LiveWaiters
    <3>2. RemoveFirst(LiveWaiters, t) = Tail(LiveWaiters)
      BY <1>1, <2>3, RemoveFirstHead
    <3> QED BY <3>1, <3>2
  <2>5. t \notin Overtaken /\ Overtaken' = Overtaken
    BY <2>1 DEF Overtaken
  <2>6. Gate!Take(t)
    BY <2>1, <2>2, <2>3, <2>4, <2>5 DEF Gate!Take
  <2> QED BY <2>6 DEF Gate!Next
<1>7. ASSUME NEW t \in Tasks, Refused(t) PROVE Gate!Next
  <2>1. /\ pc[t] = "woken" /\ taskGen[t] # generation /\ LeaveWaiters(t)
        /\ pc' = WakeUpFirst(waiters', [pc EXCEPT ![t] = "outside"])
        /\ UNCHANGED <<owner, generation, taskGen>>
    BY <1>7 DEF Refused
  <2>2. waiters' \in Seq(Tasks)
    BY <2>1, LineFacts
  <2>3. \A u \in Tasks : LET p == [pc EXCEPT ![t] = "outside"] IN
          pc'[u] = p[u] \/ (p[u] = "waiting" /\ pc'[u] = "woken")
    BY <1>2, <2>1, <2>2
  <2>4. LiveWaiters' = RemoveFirst(LiveWaiters, t)
    BY <2>1, <2>3, LineShrinks
  <2>5. t \in Overtaken /\ Overtaken' = Overtaken \ {t}
    BY <2>1, <2>3 DEF Overtaken
  <2>6. Gate!Refuse(t)
    BY <2>1, <2>4, <2>5, GateRemoves DEF Gate!Refuse
  <2> QED BY <2>6 DEF Gate!Next
<1>8. ASSUME NEW t \in Tasks, Cancel(t)
      PROVE  Gate!Next \/ UNCHANGED Gate!vars
  <2>1. UNCHANGED <<waiters, owner, generation, taskGen>>
    BY <1>8 DEF Cancel, queueVars, lockVars
  <2>2. CASE pc[t] = "waiting" /\ pc' = [pc EXCEPT ![t] = "cancelled"]
    <3>1. PICK k \in DOMAIN waiters : waiters[k] = t
      BY <2>2 DEF NobodyLost
    <3>2. /\ \A i \in DOMAIN waiters : waiters[i] = waiters[k] => i = k
          /\ \A i \in DOMAIN waiters : waiters[i] \in Tasks
      BY DEF IInv, TasksInLine
    <3>3. k \in Live /\ Live' = Live \ {k}
      BY <2>1, <2>2, <3>1, <3>2 DEF Live
    <3>4. Pick(waiters, Live \ {k}) = RemoveFirst(Pick(waiters, Live), t)
      BY <3>1, <3>2, <3>3, PickFewer
    <3>5. LiveWaiters' = RemoveFirst(LiveWaiters, t)
      BY <2>1, <3>3, <3>4 DEF LiveWaiters
    <3>6. t \in Gate!ToSet(LiveWaiters)
      BY <1>1, <2>2
    <3>7. Overtaken' = Overtaken \ {t}
      BY <2>1, <2>2 DEF Overtaken
    <3>8. Gate!GiveUp(t)
      BY <2>1, <3>5, <3>6, <3>7, GateRemoves DEF Gate!GiveUp
    <3> QED BY <3>8 DEF Gate!Next
  <2>3. CASE \/ pc[t] = "woken" /\ pc' = [pc EXCEPT ![t] = "doomed"]
             \/ pc[t] = "inside" /\ pc' = [pc EXCEPT ![t] = "unwinding"]
    <3>1. LiveWaiters' = LiveWaiters
      BY <2>1, <2>3, LineStays
    <3>2. Overtaken' = Overtaken
      BY <2>1, <2>3 DEF Overtaken
    <3> QED BY <2>1, <3>1, <3>2 DEF Gate!vars
  <2> QED BY <1>8, <2>2, <2>3 DEF Cancel
<1>9. ASSUME NEW t \in Tasks, CancelledInLine(t)
      PROVE  Gate!Next \/ UNCHANGED Gate!vars
  <2> DEFINE p == [pc EXCEPT ![t] = "outside"]
  <2>1. /\ pc[t] \in {"cancelled", "doomed"} /\ LeaveWaiters(t)
        /\ pc' = p \/ pc' = WakeUpFirst(waiters', p)
        /\ UNCHANGED <<owner, generation, taskGen>>
    BY <1>9 DEF CancelledInLine
  <2>2. waiters' \in Seq(Tasks)
    BY <2>1, LineFacts
  <2>3. \A u \in Tasks :
          pc'[u] = p[u] \/ (p[u] = "waiting" /\ pc'[u] = "woken")
    BY <1>2, <2>1, <2>2
  <2>4. LiveWaiters' = IF pc[t] = "cancelled" THEN LiveWaiters
                       ELSE RemoveFirst(LiveWaiters, t)
    BY <2>1, <2>3, LineShrinks
  <2>5. CASE pc[t] = "cancelled"
    <3>1. Overtaken' = Overtaken
      BY <2>1, <2>3, <2>5 DEF Overtaken
    <3> QED BY <2>1, <2>4, <2>5, <3>1 DEF Gate!vars
  <2>6. CASE pc[t] = "doomed"
    <3>1. Overtaken' = Overtaken \ {t}
      BY <2>1, <2>3, <2>6 DEF Overtaken
    <3>2. t \in Gate!ToSet(LiveWaiters)
      BY <1>1, <2>6
    <3>3. Gate!GiveUp(t)
      BY <2>1, <2>4, <2>6, <3>1, <3>2, GateRemoves DEF Gate!GiveUp
    <3> QED BY <3>3 DEF Gate!Next
  <2> QED BY <2>1, <2>5, <2>6
<1>10. ASSUME NEW t \in Tasks, LeaveOuter(t) PROVE Gate!Next
  <2> DEFINE p == [pc EXCEPT ![t] = "outside"]
  <2>1. /\ owner = t /\ owner' = NoTask /\ pc' = WakeUpFirst(waiters, p)
        /\ UNCHANGED <<waiters, generation, taskGen>>
    BY <1>10 DEF LeaveOuter
  <2>2. \A u \in Tasks :
          pc'[u] = p[u] \/ (p[u] = "waiting" /\ pc'[u] = "woken")
    BY <1>2, <2>1
  <2>3. LiveWaiters' = LiveWaiters
    BY <2>1, <2>2, LineStays
  <2>4. Overtaken' = Overtaken \ {t}
    BY <2>1, <2>2 DEF Overtaken
  <2>5. Gate!Release(t)
    BY <2>1, <2>3, <2>4 DEF Gate!Release
  <2> QED BY <2>5 DEF Gate!Next
<1>11. CASE \/ UNCHANGED vars
            \/ \E t \in Tasks : \/ EnterNested(t) \/ LeaveNested(t)
                                \/ EnsureCurrentFails(t)
  <2>1. /\ UNCHANGED <<waiters, owner, generation, taskGen>>
        /\ \A u \in Tasks :
             \/ pc'[u] = pc[u]
             \/ pc[u] = "inside" /\ pc'[u] = "unwinding"
    BY <1>11
       DEF EnterNested, LeaveNested, EnsureCurrentFails, vars, queueVars,
           lockVars
  <2>2. LiveWaiters' = LiveWaiters
    BY <2>1, LineStays
  <2>3. Overtaken' = Overtaken
    BY <2>1 DEF Overtaken
  <2> QED BY <2>1, <2>2, <2>3 DEF Gate!vars
<1> QED
  BY <1>3, <1>4, <1>5, <1>6, <1>7, <1>8, <1>9, <1>10, <1>11 DEF Next

(* A new queue is a new gate. *)
LEMMA GateInit == Init => NobodyLost /\ Gate!Init
<1> SUFFICES ASSUME Init PROVE NobodyLost /\ Gate!Init
  OBVIOUS
<1>1. waiters = <<>> /\ waiters \in Seq(Tasks) /\ DOMAIN waiters = {}
  BY DEF Init
<1>2. LiveWaiters = <<>>
  <2>1. Live \cap DOMAIN waiters = {}
    BY <1>1
  <2> QED BY <1>1, <2>1, PickMembers DEF LiveWaiters
<1>3. Overtaken = {}
  BY DEF Init, Overtaken
<1>4. NobodyLost
  BY DEF Init, NobodyLost, Queued
<1> QED BY <1>2, <1>3, <1>4 DEF Init, Gate!Init

(* The queue of the asynchronous client implements OperationTurn: turns    *)
(* are granted one at a time in the order in which they were asked for,    *)
(* and never to a task that a close overtook in line, whatever is          *)
(* cancelled when.                                                         *)
THEOREM AsyncGateKept == Spec => GateSpec
<1>1. IInv /\ NobodyLost /\ [Next]_vars
        => NobodyLost' /\ [Gate!Next]_(Gate!vars)
  BY NobodyLostStep, GateStep
<1>. QED
  BY <1>1, QueueInvariant, GateInit, PTL DEF Spec, GateSpec, Gate!Spec
==============================================================================
