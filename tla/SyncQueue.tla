------------------------------ MODULE SyncQueue ------------------------------
(***************************************************************************)
(* _SyncFifoOperationQueue of src/slmp/_operation_queue.py: the re-entrant *)
(* FIFO gate every operation of the synchronous client runs under.         *)
(*                                                                         *)
(* One action is one critical section of self._condition: the lock is held *)
(* from the "with" to its end or to condition.wait(), which releases it.   *)
(* The generation stored next to a ticket is never read from the deque, so *)
(* waiters holds tickets alone; the ticket of a call is named by its       *)
(* thread, because a thread has one live call of turn() at a time.         *)
(***************************************************************************)
EXTENDS Naturals, Sequences, SequencesExt, Subsequence

CONSTANTS
  Threads,        (* the threads that call the client                      *)
  NoThread,       (* None, and the ticket of a call that no longer exists  *)
  Interruptible,  (* the threads KeyboardInterrupt reaches (main thread)   *)
  MaxGeneration,  (* bound: the number of close() calls                    *)
  MaxNested,      (* bound: nested turns made inside one outer turn        *)
  MaxAbandoned    (* bound: tickets left behind by interrupts              *)

ASSUME ThreadsAssumption ==
  /\ NoThread \notin Threads
  /\ Interruptible \subseteq Threads
ASSUME BoundsAssumption ==
  MaxGeneration \in Nat /\ MaxNested \in Nat /\ MaxAbandoned \in Nat

VARIABLES
  waiters,     (* _waiters                                                 *)
  owner,       (* _owner                                                   *)
  ownerGen,    (* _owner_generation; meaningless while owner is NoThread   *)
  depth,       (* _depth                                                   *)
  generation,  (* _generation                                              *)
  pc,          (* where each thread stands with respect to turn()          *)
  ticketGen,   (* the local variable generation of its call of turn()      *)
  nests        (* nested turns the body of the outer turn has yet to make  *)

queueVars == <<waiters, owner, ownerGen, depth, generation>>
vars == <<queueVars, pc, ticketGen, nests>>

(* outside: not in turn();  waiting: blocked in condition.wait();  ready:  *)
(* notified, about to take the lock again;  inside: in the body of the     *)
(* turn;  unwinding: an exception of the body is leaving the turns.        *)
Places == {"outside", "waiting", "ready", "inside", "unwinding"}

Init ==
  /\ waiters = <<>>
  /\ owner = NoThread
  /\ ownerGen = 0
  /\ depth = 0
  /\ generation = 0
  /\ pc = [t \in Threads |-> "outside"]
  /\ ticketGen = [t \in Threads |-> 0]
  /\ nests = [t \in Threads |-> 0]

(* condition.notify_all(): every thread blocked in wait() becomes runnable. *)
NotifyAll(places) ==
  [t \in Threads |-> IF places[t] = "waiting" THEN "ready" ELSE places[t]]

Admit(t, gen) ==
  /\ owner' = t
  /\ ownerGen' = gen
  /\ depth' = 1
  /\ pc' = [pc EXCEPT ![t] = "inside"]

(* turn() by a thread that is not the owner: the generation is read, the   *)
(* ticket is appended and the loop is evaluated once, all under the lock.  *)
(* The ticket is at the head at once exactly when nobody is in line.       *)
EnterFree(t) ==
  /\ pc[t] = "outside"
  /\ owner = NoThread
  /\ waiters = <<>>
  /\ ticketGen' = [ticketGen EXCEPT ![t] = generation]
  /\ \E n \in 0..MaxNested : nests' = [nests EXCEPT ![t] = n]
  /\ Admit(t, generation)
  /\ UNCHANGED <<waiters, generation>>

EnterWaiting(t) ==
  /\ pc[t] = "outside"
  /\ owner # NoThread \/ waiters # <<>>
  /\ waiters' = Append(waiters, t)
  /\ ticketGen' = [ticketGen EXCEPT ![t] = generation]
  /\ \E n \in 0..MaxNested : nests' = [nests EXCEPT ![t] = n]
  /\ pc' = [pc EXCEPT ![t] = "waiting"]
  /\ UNCHANGED <<owner, ownerGen, depth, generation>>

(* Mutant: a rejected call leaves without telling the others. *)
WakeRejected_NoNotify(t) ==
  /\ pc[t] = "ready"
  /\ ticketGen[t] # generation
  /\ \E i \in DOMAIN waiters :
       /\ waiters[i] = t
       /\ waiters' = RemoveAt(waiters, i)
  /\ pc' = [pc EXCEPT ![t] = "outside"]
  /\ UNCHANGED <<owner, ownerGen, depth, generation, ticketGen, nests>>

(* The loop of turn() after a wake-up: rejected, admitted or waiting again. *)
WakeRejected(t) ==
  /\ pc[t] = "ready"
  /\ ticketGen[t] # generation
  /\ \E i \in DOMAIN waiters :
       /\ waiters[i] = t
       /\ waiters' = RemoveAt(waiters, i)
  /\ pc' = NotifyAll([pc EXCEPT ![t] = "outside"])
  /\ UNCHANGED <<owner, ownerGen, depth, generation, ticketGen, nests>>

AtHead(t) == waiters # <<>> /\ Head(waiters) = t

(* Mutant: the generation is not read again after condition.wait(). *)
WakeAdmitted_AnyGeneration(t) ==
  /\ pc[t] = "ready"
  /\ owner = NoThread
  /\ AtHead(t)
  /\ waiters' = Tail(waiters)
  /\ Admit(t, ticketGen[t])
  /\ UNCHANGED <<generation, ticketGen, nests>>

WakeAdmitted(t) ==
  /\ pc[t] = "ready"
  /\ ticketGen[t] = generation
  /\ owner = NoThread
  /\ AtHead(t)
  /\ waiters' = Tail(waiters)
  /\ Admit(t, ticketGen[t])
  /\ UNCHANGED <<generation, ticketGen, nests>>

WakeWaitsAgain(t) ==
  /\ pc[t] = "ready"
  /\ ticketGen[t] = generation
  /\ owner # NoThread \/ ~AtHead(t)
  /\ pc' = [pc EXCEPT ![t] = "waiting"]
  /\ UNCHANGED <<queueVars, ticketGen, nests>>

(* turn() by the owner: only the depth moves, whatever the generation. *)
EnterNested(t) ==
  /\ pc[t] = "inside"
  /\ owner = t
  /\ nests[t] > 0
  /\ nests' = [nests EXCEPT ![t] = @ - 1]
  /\ depth' = depth + 1
  /\ UNCHANGED <<waiters, owner, ownerGen, generation, pc, ticketGen>>

(* Mutant: the finally of a nested turn frees the gate. *)
LeaveNested_Frees(t) ==
  /\ pc[t] \in {"inside", "unwinding"}
  /\ depth > 1
  /\ depth' = depth - 1
  /\ owner' = NoThread
  /\ ownerGen' = 0
  /\ pc' = NotifyAll(pc)
  /\ UNCHANGED <<waiters, generation, ticketGen, nests>>

(* The finally of a nested turn, and the one of the outer turn. *)
LeaveNested(t) ==
  /\ pc[t] \in {"inside", "unwinding"}
  /\ depth > 1
  /\ depth' = depth - 1
  /\ UNCHANGED <<waiters, owner, ownerGen, generation, pc, ticketGen, nests>>

(* Mutant: the gate is freed without notify_all(). *)
LeaveOuter_NoNotify(t) ==
  /\ pc[t] \in {"inside", "unwinding"}
  /\ depth = 1
  /\ depth' = 0
  /\ owner' = NoThread
  /\ ownerGen' = 0
  /\ pc' = [pc EXCEPT ![t] = "outside"]
  /\ UNCHANGED <<waiters, generation, ticketGen, nests>>

LeaveOuter(t) ==
  /\ pc[t] \in {"inside", "unwinding"}
  /\ depth = 1
  /\ depth' = 0
  /\ owner' = NoThread
  /\ ownerGen' = 0
  /\ pc' = NotifyAll([pc EXCEPT ![t] = "outside"])
  /\ UNCHANGED <<waiters, generation, ticketGen, nests>>

(* ensure_current() raises SlmpClosedError and the body is left.  When it  *)
(* passes it changes nothing.                                              *)
EnsureCurrentFails(t) ==
  /\ pc[t] = "inside"
  /\ owner # t \/ ownerGen # generation
  /\ pc' = [pc EXCEPT ![t] = "unwinding"]
  /\ UNCHANGED <<queueVars, ticketGen, nests>>

(* invalidate(), the first half of close(), from any thread. *)
Invalidate ==
  /\ generation < MaxGeneration
  /\ generation' = generation + 1
  /\ pc' = NotifyAll(pc)
  /\ UNCHANGED <<waiters, owner, ownerGen, depth, ticketGen, nests>>

(* KeyboardInterrupt raised out of condition.wait(): the "with" releases   *)
(* the lock and the call ends, but nothing takes its ticket off _waiters.  *)
Interrupt(t) ==
  /\ t \in Interruptible
  /\ pc[t] = "waiting"
  /\ Len(SelectSeq(waiters, LAMBDA w : w = NoThread)) < MaxAbandoned
  /\ \E i \in DOMAIN waiters :
       /\ waiters[i] = t
       /\ waiters' = [waiters EXCEPT ![i] = NoThread]
  /\ pc' = [pc EXCEPT ![t] = "outside"]
  /\ UNCHANGED <<owner, ownerGen, depth, generation, ticketGen, nests>>

Wake(t) == WakeRejected(t) \/ WakeAdmitted(t) \/ WakeWaitsAgain(t)
Leave(t) == LeaveNested(t) \/ LeaveOuter(t)

Next ==
  \/ Invalidate
  \/ \E t \in Threads :
       \/ EnterFree(t) \/ EnterWaiting(t)
       \/ WakeRejected(t) \/ WakeAdmitted(t) \/ WakeWaitsAgain(t)
       \/ EnterNested(t) \/ LeaveNested(t) \/ LeaveOuter(t)
       \/ EnsureCurrentFails(t) \/ Interrupt(t)

Spec == Init /\ [][Next]_vars

(* A runnable thread gets the lock in the end, and the body of a turn ends *)
(* (every exchange has a deadline).  Nobody is obliged to call or to close.*)
Fairness == \A t \in Threads : WF_vars(Wake(t)) /\ WF_vars(Leave(t))
FairSpec == Spec /\ Fairness
------------------------------------------------------------------------------
TypeOK ==
  /\ waiters \in Seq(Threads \union {NoThread})
  /\ owner \in Threads \union {NoThread}
  /\ ownerGen \in 0..MaxGeneration
  /\ depth \in Nat
  /\ generation \in 0..MaxGeneration
  /\ pc \in [Threads -> Places]
  /\ ticketGen \in [Threads -> 0..MaxGeneration]
  /\ nests \in [Threads -> 0..MaxNested]
Queued(t) == pc[t] \in {"waiting", "ready"}
HasTurn(t) == pc[t] \in {"inside", "unwinding"}

(* Only the recorded owner is in the body of a turn, for as long as it is  *)
(* there: a nested exit never opens the gate to a second thread, and a     *)
(* free gate has no one inside and no depth left over.                     *)
OwnerInside ==
  /\ \A t \in Threads : HasTurn(t) <=> owner = t
  /\ depth = 0 <=> owner = NoThread

(* No wake-up is lost: when the gate is free, the thread at the head of    *)
(* the line is runnable, and a thread whose generation was closed is       *)
(* runnable whoever has the gate.  A thread left in condition.wait() in    *)
(* either state would wait for a notification that nobody owes it.         *)
NoLostWakeup ==
  /\ owner = NoThread /\ waiters # <<>> /\ Head(waiters) # NoThread
       => pc[Head(waiters)] = "ready"
  /\ \A t \in Threads : pc[t] = "waiting" => ticketGen[t] = generation

(* The gate keeps the promise of OperationTurn: first come, first served,  *)
(* and nobody a close overtook in line ever gets the turn.                 *)
Live == {i \in DOMAIN waiters : waiters[i] # NoThread}
LiveTickets == Pick(waiters, Live)
Overtaken ==
  {t \in Threads : (Queued(t) \/ HasTurn(t)) /\ ticketGen[t] # generation}
Gate == INSTANCE OperationTurn
          WITH holder <- owner, line <- LiveTickets, stale <- Overtaken
GateSpec == Gate!Spec

(* Every call that waits for its turn gets it or is told that the client   *)
(* was closed, as long as the bodies of the turns before it end.           *)
EveryCallEnds == \A t \in Threads : Queued(t) ~> ~Queued(t)

(* So it is until an interrupt leaves a ticket in the line: the ticket of  *)
(* a call that no longer exists is the one thing that blocks the gate.     *)
Abandoned == \E i \in DOMAIN waiters : waiters[i] = NoThread
EveryCallEndsUnlessAbandoned ==
  \A t \in Threads : Queued(t) ~> (~Queued(t) \/ Abandoned)
==============================================================================
