---------------------------- MODULE OperationTurn ----------------------------
(***************************************************************************)
(* What the FIFO operation gate of the clients promises, whatever          *)
(* primitive implements it: one holder at a time, turns granted in the     *)
(* order in which they were asked for, and a close that overtakes the      *)
(* holder and everybody in line without waiting for them.                  *)
(*                                                                         *)
(* SyncQueue (threading.Condition) and AsyncQueue (asyncio.Lock) implement *)
(* this module; SyncClient and AsyncClient are composed with it.           *)
(* Re-entrant turns do not appear: a nested turn of the holder changes     *)
(* nothing that another thread can see.                                    *)
(***************************************************************************)
EXTENDS Naturals, Sequences, SequencesExt

CONSTANTS
  Threads,   (* the callers of the client                                  *)
  NoThread   (* no caller, so not one of Threads: a free gate              *)

VARIABLES
  holder,    (* the caller that has the turn, or NoThread                  *)
  line,      (* the callers that asked for it, oldest first                *)
  stale      (* the callers, holding or in line, that a close overtook     *)

vars == <<holder, line, stale>>

Init ==
  /\ holder = NoThread
  /\ line = <<>>
  /\ stale = {}

Idle(t) == t # holder /\ t \notin ToSet(line)

(* A free gate with nobody in line is taken at once. *)
TakeFree(t) ==
  /\ Idle(t)
  /\ holder = NoThread
  /\ line = <<>>
  /\ holder' = t
  /\ UNCHANGED <<line, stale>>

Join(t) ==
  /\ Idle(t)
  /\ line' = Append(line, t)
  /\ UNCHANGED <<holder, stale>>

(* Only the oldest caller, and only if no close overtook it. *)
Take(t) ==
  /\ holder = NoThread
  /\ line # <<>>
  /\ Head(line) = t
  /\ t \notin stale
  /\ holder' = t
  /\ line' = Tail(line)
  /\ UNCHANGED stale

(* A caller that a close overtook leaves with SlmpClosedError. *)
Refuse(t) ==
  /\ t \in stale
  /\ t # holder
  /\ line' = RemoveFirst(line, t)
  /\ stale' = stale \ {t}
  /\ UNCHANGED holder

(* A caller interrupted in line is forgotten. *)
GiveUp(t) ==
  /\ t \in ToSet(line)
  /\ line' = RemoveFirst(line, t)
  /\ stale' = stale \ {t}
  /\ UNCHANGED holder

Release(t) ==
  /\ holder = t
  /\ holder' = NoThread
  /\ stale' = stale \ {t}
  /\ UNCHANGED line

Close ==
  /\ stale' = ToSet(line) \union ({holder} \ {NoThread})
  /\ UNCHANGED <<holder, line>>

Next ==
  \/ Close
  \/ \E t \in Threads :
       \/ TakeFree(t) \/ Join(t) \/ Take(t) \/ Refuse(t)
       \/ GiveUp(t) \/ Release(t)

Spec == Init /\ [][Next]_vars

(* The check every step of an operation makes before it goes on. *)
IsCurrent(t) == holder = t /\ t \notin stale

TypeOK ==
  /\ holder \in Threads \union {NoThread}
  /\ line \in Seq(Threads)
  /\ stale \subseteq Threads
==============================================================================
