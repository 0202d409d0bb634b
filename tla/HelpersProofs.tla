---------------------------- MODULE HelpersProofs ----------------------------
(***************************************************************************)
(* Theorems about helpers of src/slmp/utils.py, the texts of devices in    *)
(* src/slmp/core.py, and the tools of src/slmp/cli.py that write for a     *)
(* test.                                                                   *)
(*                                                                         *)
(* BitInWord, for any number of callers, updates and closes, and any word: *)
(* updates by write_bit_in_word() and by whole words are atomic while the  *)
(* PLC drops what a failed exchange had sent, and no loss goes unannounced *)
(* if it does not.  The turn keeps other callers out between the two       *)
(* exchanges, so that the word still is what the read saw when the write   *)
(* is carried out: that is what its inductive invariant says.              *)
(*                                                                         *)
(* NamedRead, whatever addresses a caller passes: each gets its own value. *)
(* The plan is sound while it is compiled, since a list only grows at its  *)
(* end and never lists a device twice; after that it does not change, so   *)
(* that an answer read through it is read in the right places.             *)
(*                                                                         *)
(* WriteProbes, whatever rows a tool is given, whatever its words do with  *)
(* a write, and wherever exchanges fail: a tool puts back what it changed  *)
(* or says so.  A changed word is accounted for at every step: its row is  *)
(* NG or will be, or is still to restore it; and writes that may come late *)
(* are only of such rows.                                                  *)
(*                                                                         *)
(* Addresses, whatever number follows a device code: the text made of a    *)
(* device is read as that device.  No device code goes on with a digit     *)
(* where another one ends, so the longest code is the one that was         *)
(* written, and a number is what its digits count.                         *)
(***************************************************************************)
EXTENDS BitInWord, NamedRead, WriteProbes, Addresses, SequenceLemmas, TLAPS

(* Exactly the holder of the gate stands in a turn.                        *)
HoldsTurn == \A t \in Threads : pc[t] \in InTurn <=> holder = t

(* A caller that is not idle has a job; only a bit needs a read.           *)
HasJob ==
  \A t \in Threads :
    /\ pc[t] # "idle" => job[t] \in Atomic!Jobs
    /\ pc[t] \in {"read", "reading"} => job[t].kind = "bit"

OnWire ==
  \A t \in Threads :
    /\ pc[t] \in {"read", "write"} => wire = "none"
    /\ pc[t] \in {"reading", "writing"} => wire \in {"sent", "answered"}

(* A deadline is installed during a read-modify-write and at no other time.*)
Installed ==
  /\ holder = NoThread => activeDeadline = NoDeadline /\ wire = "none"
  /\ \A t \in Threads :
       pc[t] \in InTurn =>
         /\ prior = NoDeadline
         /\ begun <= now
         /\ activeDeadline = IF job[t].kind = "bit" THEN begun + Timeout
                                                    ELSE NoDeadline

Undisturbed == orphans = "dropped" \/ told = {}

LateIsTold == late # {} => ~Undisturbed

(* Between the answer to its read and its write, the word is the one that  *)
(* a read-modify-write has seen.                                           *)
SeenIsCurrent ==
  Undisturbed =>
    \A t \in Threads :
      /\ \/ pc[t] = "reading" /\ wire = "answered"
         \/ pc[t] = "write"
         \/ pc[t] = "writing" /\ wire = "sent"
      /\ job[t].kind = "bit"
      => seen = word

IInv ==
  /\ TypeOK /\ HoldsTurn /\ HasJob /\ OnWire /\ Installed /\ OwnDeadline
  /\ LateIsTold /\ SeenIsCurrent
------------------------------------------------------------------------------
(* What an update is, and what it makes of a word.                         *)
LEMMA EffectIsWord ==
  ASSUME NEW j \in Atomic!Jobs, NEW w \in Atomic!Words
  PROVE  /\ j.kind \in {"bit", "word"}
         /\ Atomic!Effect(j, w) \in Atomic!Words
BY DEF Atomic!Jobs, Atomic!Words, Atomic!Effect

(* The gate takes a caller out of its line as SequencesExt does.           *)
LEMMA GateRemoves ==
  ASSUME NEW s, NEW e
  PROVE  Gate!RemoveFirst(s, e) = RemoveFirst(s, e)
BY DEF Gate!RemoveFirst, Gate!RemoveAt, Gate!SelectInSeq, Gate!Min,
       RemoveFirst, RemoveAt, SelectInSeq, Min

(* The client is built with nothing installed and nobody in a turn. *)
LEMMA InitInvariant == Init => IInv
BY BitInWordAssumption
   DEF Init, IInv, TypeOK, HoldsTurn, HasJob, OnWire, Installed, OwnDeadline,
       LateIsTold, SeenIsCurrent, Gate!Init, Gate!TypeOK, Deadlines, Blank,
       Places, InTurn, Atomic!Words

(* Every step keeps the variables in their types. *)
LEMMA TypeStep == IInv /\ [Next]_vars => TypeOK'
<1> SUFFICES ASSUME IInv, [Next]_vars PROVE TypeOK'
  OBVIOUS
<1>0. orphans' = orphans
  BY DEF Next, vars
<1> USE <1>0, BitInWordAssumption
       DEF IInv, TypeOK, Gate!TypeOK, HasJob, Places, InTurn, Deadlines,
           gateVars, timeVars, bounds, Start, Goto, Begins
<1>1. ASSUME NEW t \in Threads, NEW j \in Atomic!Jobs, StartFree(t, j)
      PROVE  TypeOK'
  BY <1>1 DEF StartFree, Gate!TakeFree
<1>2. ASSUME NEW t \in Threads, NEW j \in Atomic!Jobs, StartQueued(t, j)
      PROVE  TypeOK'
  BY <1>2 DEF StartQueued, Gate!Join
<1>3. ASSUME NEW t \in Threads, TurnGranted(t) PROVE TypeOK'
  BY <1>3 DEF TurnGranted, Gate!Take
<1>4. ASSUME NEW t \in Threads, TurnRefused(t) PROVE TypeOK'
  <2>1. line \in Seq(Threads) /\ line' = RemoveFirst(line, t)
    BY <1>4, GateRemoves DEF TurnRefused, Gate!Refuse
  <2>2. line' \in Seq(Threads)
    BY <2>1, RemoveFirstIsSeq
  <2> QED BY <1>4, <2>2 DEF TurnRefused, Gate!Refuse
<1>5. ASSUME NEW t \in Threads, Leave(t) PROVE TypeOK'
  BY <1>5 DEF Leave, Gate!Release
<1>6. ASSUME NEW t \in Threads, Sends(t) PROVE TypeOK'
  BY <1>6 DEF Sends, ExchangeDeadline
<1>7. ASSUME NEW t \in Threads, SendFails(t) PROVE TypeOK'
  BY <1>7 DEF SendFails
<1>8. ASSUME NEW t \in Threads, PlcReads(t) PROVE TypeOK'
  BY <1>8 DEF PlcReads
<1>9. ASSUME NEW t \in Threads, PlcWrites(t) PROVE TypeOK'
  <2>1. Atomic!Effect(job[t], seen) \in Atomic!Words
    BY <1>9, EffectIsWord DEF PlcWrites
  <2> QED BY <1>9, <2>1 DEF PlcWrites
<1>10. ASSUME NEW t \in Threads, ReadDone(t) PROVE TypeOK'
  BY <1>10 DEF ReadDone
<1>11. ASSUME NEW t \in Threads, WriteDone(t) PROVE TypeOK'
  BY <1>11 DEF WriteDone
<1>12. ASSUME NEW t \in Threads, ExchangeFails(t) PROVE TypeOK'
  <2>1. Atomic!Effect(job[t], seen) \in Atomic!Words
    BY <1>12, EffectIsWord DEF ExchangeFails
  <2>2. late' \subseteq [by : Threads, value : Atomic!Words]
    BY <1>12, <2>1 DEF ExchangeFails
  <2>3. told' \subseteq Threads /\ pc' \in [Threads -> Places]
    BY <1>12 DEF ExchangeFails
  <2> QED BY <1>12, <2>2, <2>3 DEF ExchangeFails
<1>13. CASE LateWriteApplies
  BY <1>13 DEF LateWriteApplies
<1>14. CASE Close
  BY <1>14 DEF Close, Gate!Close, Gate!ToSet
<1>15. CASE Tick
  BY <1>15 DEF Tick
<1>16. CASE UNCHANGED vars
  BY <1>16 DEF vars
<1> QED
  BY <1>1, <1>2, <1>3, <1>4, <1>5, <1>6, <1>7, <1>8,
     <1>9, <1>10, <1>11, <1>12, <1>13, <1>14, <1>15, <1>16
     DEF Next, Operation, Starts

(* The turn: who holds it, for what, and what is on the wire. *)
LEMMA TurnStep == IInv /\ [Next]_vars => (HoldsTurn /\ HasJob /\ OnWire)'
<1> SUFFICES ASSUME IInv, [Next]_vars PROVE (HoldsTurn /\ HasJob /\ OnWire)'
  OBVIOUS
<1> USE BitInWordAssumption
       DEF IInv, TypeOK, Gate!TypeOK, HoldsTurn, HasJob, OnWire, Installed,
           Places, InTurn, gateVars, timeVars, bounds, Start, Goto, Begins
<1>1. ASSUME NEW t \in Threads, NEW j \in Atomic!Jobs, StartFree(t, j)
      PROVE  (HoldsTurn /\ HasJob /\ OnWire)'
  BY <1>1 DEF StartFree, Gate!TakeFree
<1>2. ASSUME NEW t \in Threads, NEW j \in Atomic!Jobs, StartQueued(t, j)
      PROVE  (HoldsTurn /\ HasJob /\ OnWire)'
  BY <1>2 DEF StartQueued, Gate!Join
<1>3. ASSUME NEW t \in Threads, TurnGranted(t)
      PROVE  (HoldsTurn /\ HasJob /\ OnWire)'
  BY <1>3 DEF TurnGranted, Gate!Take
<1>4. ASSUME NEW t \in Threads, TurnRefused(t)
      PROVE  (HoldsTurn /\ HasJob /\ OnWire)'
  BY <1>4 DEF TurnRefused, Gate!Refuse
<1>5. ASSUME NEW t \in Threads, Leave(t)
      PROVE  (HoldsTurn /\ HasJob /\ OnWire)'
  BY <1>5 DEF Leave, Gate!Release
<1>6. ASSUME NEW t \in Threads, Sends(t)
      PROVE  (HoldsTurn /\ HasJob /\ OnWire)'
  BY <1>6 DEF Sends
<1>7. ASSUME NEW t \in Threads, SendFails(t)
      PROVE  (HoldsTurn /\ HasJob /\ OnWire)'
  BY <1>7 DEF SendFails
<1>8. ASSUME NEW t \in Threads, PlcReads(t)
      PROVE  (HoldsTurn /\ HasJob /\ OnWire)'
  BY <1>8 DEF PlcReads
<1>9. ASSUME NEW t \in Threads, PlcWrites(t)
      PROVE  (HoldsTurn /\ HasJob /\ OnWire)'
  BY <1>9 DEF PlcWrites
<1>10. ASSUME NEW t \in Threads, ReadDone(t)
      PROVE  (HoldsTurn /\ HasJob /\ OnWire)'
  BY <1>10 DEF ReadDone
<1>11. ASSUME NEW t \in Threads, WriteDone(t)
      PROVE  (HoldsTurn /\ HasJob /\ OnWire)'
  BY <1>11 DEF WriteDone
<1>12. ASSUME NEW t \in Threads, ExchangeFails(t)
      PROVE  (HoldsTurn /\ HasJob /\ OnWire)'
  BY <1>12 DEF ExchangeFails
<1>13. CASE LateWriteApplies
  BY <1>13 DEF LateWriteApplies
<1>14. CASE Close
  BY <1>14 DEF Close, Gate!Close
<1>15. CASE Tick
  BY <1>15 DEF Tick
<1>16. CASE UNCHANGED vars
  BY <1>16 DEF vars
<1> QED
  BY <1>1, <1>2, <1>3, <1>4, <1>5, <1>6, <1>7, <1>8,
     <1>9, <1>10, <1>11, <1>12, <1>13, <1>14, <1>15, <1>16
     DEF Next, Operation, Starts

(* The deadlines: installed with a turn, gone with it. *)
LEMMA TimeStep == IInv /\ [Next]_vars => (Installed /\ OwnDeadline)'
<1> SUFFICES ASSUME IInv, [Next]_vars PROVE (Installed /\ OwnDeadline)'
  OBVIOUS
<1> USE BitInWordAssumption
       DEF IInv, TypeOK, Gate!TypeOK, HoldsTurn, HasJob, OnWire, Installed,
           OwnDeadline, Deadlines, Places, InTurn, gateVars, timeVars,
           bounds, Start, Goto, Begins
<1>1. ASSUME NEW t \in Threads, NEW j \in Atomic!Jobs, StartFree(t, j)
      PROVE  (Installed /\ OwnDeadline)'
  BY <1>1 DEF StartFree, Gate!TakeFree
<1>2. ASSUME NEW t \in Threads, NEW j \in Atomic!Jobs, StartQueued(t, j)
      PROVE  (Installed /\ OwnDeadline)'
  BY <1>2 DEF StartQueued, Gate!Join
<1>3. ASSUME NEW t \in Threads, TurnGranted(t)
      PROVE  (Installed /\ OwnDeadline)'
  BY <1>3 DEF TurnGranted, Gate!Take
<1>4. ASSUME NEW t \in Threads, TurnRefused(t)
      PROVE  (Installed /\ OwnDeadline)'
  BY <1>4 DEF TurnRefused, Gate!Refuse
<1>5. ASSUME NEW t \in Threads, Leave(t) PROVE (Installed /\ OwnDeadline)'
  BY <1>5 DEF Leave, Gate!Release
<1>6. ASSUME NEW t \in Threads, Sends(t) PROVE (Installed /\ OwnDeadline)'
  BY <1>6 DEF Sends, ExchangeDeadline
<1>7. ASSUME NEW t \in Threads, SendFails(t) PROVE (Installed /\ OwnDeadline)'
  BY <1>7 DEF SendFails
<1>8. ASSUME NEW t \in Threads, PlcReads(t) PROVE (Installed /\ OwnDeadline)'
  BY <1>8 DEF PlcReads
<1>9. ASSUME NEW t \in Threads, PlcWrites(t) PROVE (Installed /\ OwnDeadline)'
  BY <1>9 DEF PlcWrites
<1>10. ASSUME NEW t \in Threads, ReadDone(t) PROVE (Installed /\ OwnDeadline)'
  BY <1>10 DEF ReadDone
<1>11. ASSUME NEW t \in Threads, WriteDone(t)
      PROVE  (Installed /\ OwnDeadline)'
  BY <1>11 DEF WriteDone
<1>12. ASSUME NEW t \in Threads, ExchangeFails(t)
      PROVE  (Installed /\ OwnDeadline)'
  BY <1>12 DEF ExchangeFails
<1>13. CASE LateWriteApplies
  BY <1>13 DEF LateWriteApplies
<1>14. CASE Close
  BY <1>14 DEF Close, Gate!Close
<1>15. CASE Tick
  BY <1>15 DEF Tick
<1>16. CASE UNCHANGED vars
  BY <1>16 DEF vars
<1> QED
  BY <1>1, <1>2, <1>3, <1>4, <1>5, <1>6, <1>7, <1>8,
     <1>9, <1>10, <1>11, <1>12, <1>13, <1>14, <1>15, <1>16
     DEF Next, Operation, Starts

(* The word that was read stays the word until it is written. *)
LEMMA SeenStep == IInv /\ [Next]_vars => (LateIsTold /\ SeenIsCurrent)'
<1> SUFFICES ASSUME IInv, [Next]_vars PROVE (LateIsTold /\ SeenIsCurrent)'
  OBVIOUS
<1>0. orphans' = orphans
  BY DEF Next, vars
<1> USE <1>0
<1> USE BitInWordAssumption
       DEF IInv, TypeOK, Gate!TypeOK, HoldsTurn, HasJob, OnWire, Installed,
           LateIsTold, SeenIsCurrent, Undisturbed, Places, InTurn, gateVars,
           timeVars, bounds, Start, Goto, Begins
<1>1. ASSUME NEW t \in Threads, NEW j \in Atomic!Jobs, StartFree(t, j)
      PROVE  (LateIsTold /\ SeenIsCurrent)'
  BY <1>1 DEF StartFree, Gate!TakeFree
<1>2. ASSUME NEW t \in Threads, NEW j \in Atomic!Jobs, StartQueued(t, j)
      PROVE  (LateIsTold /\ SeenIsCurrent)'
  BY <1>2 DEF StartQueued, Gate!Join
<1>3. ASSUME NEW t \in Threads, TurnGranted(t)
      PROVE  (LateIsTold /\ SeenIsCurrent)'
  BY <1>3 DEF TurnGranted, Gate!Take
<1>4. ASSUME NEW t \in Threads, TurnRefused(t)
      PROVE  (LateIsTold /\ SeenIsCurrent)'
  BY <1>4 DEF TurnRefused, Gate!Refuse
<1>5. ASSUME NEW t \in Threads, Leave(t) PROVE (LateIsTold /\ SeenIsCurrent)'
  BY <1>5 DEF Leave, Gate!Release
<1>6. ASSUME NEW t \in Threads, Sends(t) PROVE (LateIsTold /\ SeenIsCurrent)'
  BY <1>6 DEF Sends
<1>7. ASSUME NEW t \in Threads, SendFails(t)
      PROVE  (LateIsTold /\ SeenIsCurrent)'
  BY <1>7 DEF SendFails
<1>8. ASSUME NEW t \in Threads, PlcReads(t)
      PROVE  (LateIsTold /\ SeenIsCurrent)'
  BY <1>8 DEF PlcReads
<1>9. ASSUME NEW t \in Threads, PlcWrites(t)
      PROVE  (LateIsTold /\ SeenIsCurrent)'
  BY <1>9 DEF PlcWrites
<1>10. ASSUME NEW t \in Threads, ReadDone(t)
      PROVE  (LateIsTold /\ SeenIsCurrent)'
  BY <1>10 DEF ReadDone
<1>11. ASSUME NEW t \in Threads, WriteDone(t)
      PROVE  (LateIsTold /\ SeenIsCurrent)'
  BY <1>11 DEF WriteDone
<1>12. ASSUME NEW t \in Threads, ExchangeFails(t)
      PROVE  (LateIsTold /\ SeenIsCurrent)'
  BY <1>12 DEF ExchangeFails
<1>13. CASE LateWriteApplies
  BY <1>13 DEF LateWriteApplies
<1>14. CASE Close
  BY <1>14 DEF Close, Gate!Close
<1>15. CASE Tick
  BY <1>15 DEF Tick
<1>16. CASE UNCHANGED vars
  BY <1>16 DEF vars
<1> QED
  BY <1>1, <1>2, <1>3, <1>4, <1>5, <1>6, <1>7, <1>8,
     <1>9, <1>10, <1>11, <1>12, <1>13, <1>14, <1>15, <1>16
     DEF Next, Operation, Starts

(* The conjunction is inductive. *)
LEMMA InvariantStep == IInv /\ [Next]_vars => IInv'
BY TypeStep, TurnStep, TimeStep, SeenStep DEF IInv

(* It holds in every state that is reached. *)
LEMMA Invariance == Spec => []IInv
BY InitInvariant, InvariantStep, PTL DEF Spec

------------------------------------------------------------------------------
(* Nothing but a job changes the word, as long as nobody was told of an    *)
(* outcome that is unknown, or the PLC drops what a failed exchange sent.  *)
LEMMA WordStep ==
  IInv /\ [Next]_vars /\ Undisturbed
    => UNCHANGED word \/ \E t \in Threads : Atomic!Applies(t)
<1> SUFFICES ASSUME IInv, [Next]_vars, Undisturbed, word' # word
             PROVE  \E t \in Threads : Atomic!Applies(t)
  OBVIOUS
<1>1. ASSUME NEW t \in Threads, PlcWrites(t)
      PROVE  Atomic!Applies(t)
  <2>1. /\ pc[t] = "writing" /\ wire = "sent"
        /\ word' = Atomic!Effect(job[t], seen) /\ job' = job
    BY <1>1 DEF PlcWrites
  <2>2. job[t] \in Atomic!Jobs /\ job[t] # NoJob
    BY <2>1, NoJobAssumption DEF IInv, HasJob
  <2>3. job[t].kind = "bit" => seen = word
    BY <2>1 DEF IInv, SeenIsCurrent
  <2>4. word' = Atomic!Effect(job[t], word)
    BY <2>1, <2>3 DEF Atomic!Effect
  <2> QED
    BY <2>1, <2>2, <2>4 DEF Atomic!Applies
<1>2. ~LateWriteApplies
  BY DEF LateWriteApplies, IInv, LateIsTold
<1>3. PICK t \in Threads : Operation(t) \/ Starts(t)
  BY <1>2 DEF Next, vars, Close, Tick
<1>4. PlcWrites(t)
  BY <1>3 DEF Operation, Starts, StartFree, StartQueued, Start, TurnGranted,
              TurnRefused, Leave, Sends, SendFails, PlcReads, ReadDone,
              WriteDone, ExchangeFails
<1> QED
  BY <1>1, <1>4

(* A step of a caller changes its own job, if any. *)
LEMMA JobStep ==
  IInv /\ [Next]_vars /\ UNCHANGED word
    => UNCHANGED job \/ \E t \in Threads, j \in Atomic!Jobs \union {NoJob} :
                          Atomic!Asks(t, j)
<1> SUFFICES ASSUME IInv, [Next]_vars, UNCHANGED word, job' # job
             PROVE  \E t \in Threads, j \in Atomic!Jobs \union {NoJob} :
                      Atomic!Asks(t, j)
  OBVIOUS
<1>1. PICK t \in Threads : Operation(t) \/ Starts(t)
  BY DEF Next, vars, Close, Tick, LateWriteApplies
<1>2. \E j \in Atomic!Jobs \union {NoJob} : job' = [job EXCEPT ![t] = j]
  BY <1>1 DEF Operation, Starts, StartFree, StartQueued, Start, TurnGranted,
              TurnRefused, Leave, Sends, SendFails, PlcReads, PlcWrites,
              ReadDone, WriteDone, ExchangeFails
<1> QED
  BY <1>2 DEF Atomic!Asks

(* The values of the variables, for any number of callers and updates.     *)
THEOREM WordTypes == Spec => []TypeOK
<1>1. IInv => TypeOK
  BY DEF IInv
<1> QED
  BY <1>1, Invariance, PTL

(* Both exchanges of a read-modify-write run under the deadline of their   *)
(* turn, and any other under its own: write_bit_in_word() leaves nothing   *)
(* in _active_deadline, however its exchanges end.                         *)
THEOREM DeadlinesAreOwn == Spec => []OwnDeadline
<1>1. IInv => OwnDeadline
  BY DEF IInv
<1> QED
  BY <1>1, Invariance, PTL

(* write_bit_in_word() is one step to the callers of its client, however   *)
(* many they are and whatever they do, when the PLC drops what a failed    *)
(* exchange had sent.                                                      *)
THEOREM UpdatesAreAtomic == Spec => AtomicUpdates
<1>1. Init => Atomic!Init
  BY DEF Init, Atomic!Init, Atomic!Words, Blank
<1>2. IInv /\ [Next]_vars
        => [orphans = "dropped" => Atomic!Next]_<<word, job>>
  <2> SUFFICES ASSUME IInv, [Next]_vars, orphans = "dropped"
               PROVE  [Atomic!Next]_<<word, job>>
    OBVIOUS
  <2>1. UNCHANGED word \/ \E t \in Threads : Atomic!Applies(t)
    BY WordStep DEF Undisturbed
  <2>2. UNCHANGED word =>
          UNCHANGED job \/ \E t \in Threads, j \in Atomic!Jobs \union {NoJob} :
                             Atomic!Asks(t, j)
    BY JobStep
  <2> QED
    BY <2>1, <2>2 DEF Atomic!Next
<1> QED
  BY <1>1, <1>2, Invariance, PTL DEF Spec, AtomicUpdates

(* Whatever the PLC does with what a failed exchange had sent, an update   *)
(* is lost only after a caller was told that an outcome is unknown.        *)
THEOREM LossesAreAnnounced == Spec => LossIsAnnounced
<1>1. IInv /\ [Next]_vars
        => [told = {} => \/ UNCHANGED word
                         \/ \E t \in Threads : Atomic!Applies(t)]_word
  BY WordStep DEF Undisturbed
<1> QED
  BY <1>1, Invariance, PTL DEF Spec, LossIsAnnounced
------------------------------------------------------------------------------
Devices == [code : STRING, number : Nat]
Entries == [address : Addresses, kind : {"WORD", "DWORD", "none"},
            index : Nat, dtype : Dtypes, bit : Nat]

Distinct(ds) == \A i, j \in DOMAIN ds : i # j => ds[i] # ds[j]

(* What With() and IndexIn() do to a list without duplicates. *)
LEMMA Listing ==
  ASSUME NEW ds \in Seq(Devices), NEW d \in Devices, Distinct(ds)
  PROVE  /\ With(ds, d) \in Seq(Devices)
         /\ Distinct(With(ds, d))
         /\ IndexIn(ds, d) \in DOMAIN With(ds, d)
         /\ IndexIn(ds, d) \in Nat
         /\ With(ds, d)[IndexIn(ds, d)] = d
         /\ \A i \in DOMAIN ds : /\ i \in DOMAIN With(ds, d)
                                 /\ With(ds, d)[i] = ds[i]
<1>1. CASE Listed(ds, d)
  <2>1. PICK i \in DOMAIN ds : ds[i] = d
    BY <1>1 DEF Listed
  <2>2. IndexIn(ds, d) \in DOMAIN ds /\ ds[IndexIn(ds, d)] = d
    BY <1>1, <2>1 DEF IndexIn
  <2> QED
    BY <1>1, <2>2 DEF With
<1>2. CASE ~Listed(ds, d)
  <2>1. With(ds, d) = Append(ds, d) /\ IndexIn(ds, d) = Len(ds) + 1
    BY <1>2 DEF With, IndexIn
  <2>2. \A i \in DOMAIN ds : ds[i] # d
    BY <1>2 DEF Listed
  <2>3. Distinct(Append(ds, d))
    BY <2>2 DEF Distinct
  <2> QED
    BY <2>1, <2>3
<1> QED
  BY <1>1, <1>2

------------------------------------------------------------------------------
ReadTyped ==
  /\ asked \in Seq(Addresses)
  /\ entries \in Seq(Entries)
  /\ words \in Seq(Devices)
  /\ dwords \in Seq(Devices)
  /\ Len(entries) <= Len(asked)
  /\ step \in {"compile", "prepare", "send", "sent", "answered", "waits",
             "done", "refused"}

(* A bit of a long counter is listed as a word too, and refused for it.    *)
CounterBit(a) == a.code = "LCN" /\ a.dtype = "BIT_IN_WORD"

Routed ==
  \A i \in DOMAIN entries :
    /\ TypeFits(asked[i])
    /\ CounterBit(asked[i]) => \E j \in DOMAIN words : words[j].code = "LCN"

Whole ==
  /\ Len(entries) = Len(asked)
  /\ \A i \in DOMAIN entries : entries[i].kind # "none"

Planned ==
  /\ step \in {"prepare", "send", "sent", "answered", "waits", "done"} => Whole
  /\ step \in {"send", "sent", "answered", "waits", "done"} =>
       \A j \in DOMAIN words : words[j].code # "LCN"

Answered ==
  step = "answered" =>
    /\ answer.words = [i \in DOMAIN words |-> <<"word", words[i]>>]
    /\ answer.dwords = [i \in DOMAIN dwords |-> <<"dword", dwords[i]>>]

ReadIInv == ReadTyped /\ PlanIsSound /\ Routed /\ Planned /\ Answered
          /\ ValuesAreTheirs

LEMMA EntryIsEntry ==
  ASSUME NEW a \in Addresses, NEW index \in Nat
  PROVE  Entry(a, index) \in Entries
<1>1. Kind(a) \in {"WORD", "DWORD", "none"}
  BY DEF Kind
<1>2. a.number % 16 \in Nat
  BY DEF Addresses
<1> QED
  BY <1>1, <1>2 DEF Entry, Entries, Addresses, Dtypes

(* A new entry at the end of a sound plan, whose lists have grown by With. *)
LEMMA PlanGrows ==
  ASSUME ReadTyped, PlanIsSound, Compiling,
         NEW d \in Devices, NEW index \in Nat,
         entries' = Append(entries, Entry(Current, index)),
         words' = words \/ words' = With(words, d),
         dwords' = dwords \/ dwords' = With(dwords, d),
         Home(Entry(Current, index), words', dwords'),
         asked' = asked
  PROVE  PlanIsSound'
<1>1. Current \in Addresses
  BY DEF ReadTyped, Compiling, Current
<1>2. Entry(Current, index) \in Entries
  BY <1>1, EntryIsEntry
<1>3. /\ Distinct(words') /\ Distinct(dwords')
      /\ \A i \in DOMAIN words : i \in DOMAIN words' /\ words'[i] = words[i]
      /\ \A i \in DOMAIN dwords :
           i \in DOMAIN dwords' /\ dwords'[i] = dwords[i]
  <2>1. Distinct(words) /\ Distinct(dwords)
    BY DEF PlanIsSound, Distinct
  <2>2. /\ Distinct(words')
        /\ \A i \in DOMAIN words : i \in DOMAIN words' /\ words'[i] = words[i]
    <3>1. CASE words' = words
      BY <2>1, <3>1
    <3>2. CASE words' = With(words, d)
      BY <2>1, <3>2, Listing DEF ReadTyped
    <3> QED
      BY <3>1, <3>2
  <2>3. /\ Distinct(dwords')
        /\ \A i \in DOMAIN dwords :
             i \in DOMAIN dwords' /\ dwords'[i] = dwords[i]
    <3>1. CASE dwords' = dwords
      BY <2>1, <3>1
    <3>2. CASE dwords' = With(dwords, d)
      BY <2>1, <3>2, Listing DEF ReadTyped
    <3> QED
      BY <3>1, <3>2
  <2> QED
    BY <2>2, <2>3
<1>4. \A i \in DOMAIN entries : Home(entries[i], words', dwords')
  <2> SUFFICES ASSUME NEW i \in DOMAIN entries
               PROVE  Home(entries[i], words', dwords')
    BY DEF ReadTyped
  <2> QED
    BY <1>3 DEF PlanIsSound, Home
<1>5. entries' \in Seq(Entries) /\ DOMAIN entries' = 1..(Len(entries) + 1)
  BY <1>2 DEF ReadTyped
<1>6. \A i \in DOMAIN entries :
        i \in DOMAIN entries' /\ entries'[i] = entries[i]
  BY <1>2 DEF ReadTyped
<1>7. entries'[Len(entries) + 1] = Entry(Current, index)
  BY <1>2 DEF ReadTyped
<1>8. Entry(Current, index).index = index
  BY DEF Entry
<1>9. ASSUME NEW i \in DOMAIN entries'
      PROVE  /\ entries'[i] = Entry(asked'[i], entries'[i].index)
             /\ Home(entries'[i], words', dwords')
  <2>1. CASE i \in DOMAIN entries
    BY <1>4, <1>6, <2>1 DEF PlanIsSound
  <2>2. CASE i = Len(entries) + 1
    BY <1>7, <1>8, <2>2 DEF Current
  <2> QED
    BY <1>5, <2>1, <2>2 DEF ReadTyped
<1> QED
  BY <1>3, <1>9 DEF PlanIsSound, Distinct

LEMMA SourceIsDevice ==
  ASSUME NEW a \in Addresses
  PROVE  Source(a) \in Devices
<1>1. a.number - (a.number % 16) \in Nat
  <2>1. a.number \in Nat
    BY DEF Addresses
  <2>2. a.number % 16 \in 0..a.number
    BY <2>1
  <2> QED
    BY <2>1, <2>2
<1> QED
  BY <1>1 DEF Source, Device, DeviceOf, Devices, Addresses

(* An entry picks the value of its own address out of an answer, unless it *)
(* is a bit of a long counter.                                             *)
LEMMA EntryMeansAddress ==
  ASSUME NEW a \in Addresses, NEW index \in Nat, NEW from,
         Kind(a) # "none", TypeFits(a), ~CounterBit(a),
         Kind(a) = "WORD" => from.words[index] = <<"word", Source(a)>>,
         Kind(a) = "DWORD" => from.dwords[index] = <<"dword", Source(a)>>
  PROVE  Value(Entry(a, index), from) = Meaning(a)
<1> USE DEF Value, Entry, Meaning, Source, DeviceOf
<1>1. CASE a.code = "LCN"
  <2>1. a.dtype \in {"D", "L", "F", "U", "S"}
    BY <1>1 DEF TypeFits, IsBit, BitCodes, CounterBit, Addresses, Dtypes
  <2>2. a.dtype \in {"D", "L"}
    BY <1>1, <2>1 DEF TypeFits, LongTimers
  <2>3. Kind(a) = "DWORD"
    BY <1>1 DEF Kind
  <2> QED
    BY <2>2, <2>3 DEF WordDtypes
<1>2. CASE a.code # "LCN" /\ a.dtype = "BIT"
  <2>1. a.code \in PlainBitCodes /\ Kind(a) = "WORD"
    BY <1>2 DEF Kind, TypeFits, Batchable, IsBit
  <2>2. a.number - (a.number % 16) + (a.number % 16) = a.number
    <3>1. a.number \in Nat
      BY DEF Addresses
    <3>2. a.number % 16 \in Int
      BY <3>1
    <3> QED
      BY <3>1, <3>2
  <2>3. Value(Entry(a, index), from) = BitOf(from.words[index], a.number % 16)
    BY <1>2, <2>1
  <2>4. from.words[index] =
          <<"word", Device(a.code, a.number - (a.number % 16))>>
    BY <1>2, <2>1
  <2>5. BitOf(from.words[index], a.number % 16) =
          <<"bit", Device(a.code, a.number)>>
    BY <2>1, <2>2, <2>4 DEF BitOf, BitCodes, PlainBitCodes, Device
  <2> QED
    BY <1>2, <2>3, <2>5
<1>3. CASE a.code # "LCN" /\ a.dtype = "BIT_IN_WORD"
  <2>1. a.code \notin BitCodes /\ Kind(a) = "WORD"
    BY <1>3 DEF Kind, TypeFits, IsBit, WordDtypes
  <2> QED
    BY <1>3, <2>1 DEF BitOf, Device
<1>4. CASE a.code # "LCN" /\ a.dtype \in WordDtypes
  <2>1. Kind(a) = "WORD"
    BY <1>4 DEF Kind, WordDtypes
  <2> QED
    BY <1>4, <2>1 DEF WordDtypes
<1>5. CASE a.code # "LCN" /\ a.dtype \in DwordDtypes
  <2>1. Kind(a) = "DWORD"
    BY <1>5 DEF Kind, WordDtypes, DwordDtypes
  <2> QED
    BY <1>5, <2>1 DEF WordDtypes, DwordDtypes
<1> QED
  BY <1>1, <1>2, <1>3, <1>4, <1>5
     DEF Addresses, Dtypes, WordDtypes, DwordDtypes

------------------------------------------------------------------------------
(* One address more: the plan stays sound, and a bit of a long counter is  *)
(* listed as a word.                                                       *)
LEMMA EntryAdded ==
  ASSUME ReadIInv, Compiling, TypeFits(Current),
         NEW d \in Devices, NEW index \in Nat,
         entries' = Append(entries, Entry(Current, index)),
         words' = words \/ words' = With(words, d),
         dwords' = dwords \/ dwords' = With(dwords, d),
         Home(Entry(Current, index), words', dwords'),
         CounterBit(Current) =>
           \E j \in DOMAIN words' : words'[j].code = "LCN",
         UNCHANGED <<asked, step, answer, result>>
  PROVE  ReadIInv'
<1> USE DEF ReadIInv
<1>1. Current \in Addresses
  BY DEF ReadTyped, Compiling, Current
<1>2. Entry(Current, index) \in Entries
  BY <1>1, EntryIsEntry
<1>3. /\ entries' \in Seq(Entries) /\ Len(entries') = Len(entries) + 1
      /\ DOMAIN entries' = 1..(Len(entries) + 1)
  BY <1>2 DEF ReadTyped
<1>4. Distinct(words) /\ Distinct(dwords)
  BY DEF PlanIsSound, Distinct
<1>5. /\ words' \in Seq(Devices)
      /\ \A i \in DOMAIN words : i \in DOMAIN words' /\ words'[i] = words[i]
  <2>1. CASE words' = words
    BY <2>1 DEF ReadTyped
  <2>2. CASE words' = With(words, d)
    BY <1>4, <2>2, Listing DEF ReadTyped
  <2> QED
    BY <2>1, <2>2
<1>6. dwords' \in Seq(Devices)
  <2>1. CASE dwords' = dwords
    BY <2>1 DEF ReadTyped
  <2>2. CASE dwords' = With(dwords, d)
    BY <1>4, <2>2, Listing DEF ReadTyped
  <2> QED
    BY <2>1, <2>2
<1>7. ReadTyped'
  BY <1>3, <1>5, <1>6 DEF ReadTyped, Compiling
<1>8. PlanIsSound'
  BY PlanGrows
<1>9. Routed'
  <2>1. ASSUME NEW i \in DOMAIN entries'
        PROVE  /\ TypeFits(asked'[i])
               /\ CounterBit(asked'[i]) =>
                    \E j \in DOMAIN words' : words'[j].code = "LCN"
    <3>1. CASE i \in DOMAIN entries
      <4>1. TypeFits(asked[i])
        BY <3>1 DEF Routed
      <4>2. ASSUME CounterBit(asked[i])
            PROVE  \E j \in DOMAIN words' : words'[j].code = "LCN"
        <5>1. PICK j \in DOMAIN words : words[j].code = "LCN"
          BY <3>1, <4>2 DEF Routed
        <5> QED
          BY <1>5, <5>1
      <4> QED
        BY <4>1, <4>2
    <3>2. CASE i = Len(entries) + 1
      BY <3>2 DEF Current
    <3> QED
      BY <1>3, <3>1, <3>2 DEF ReadTyped
  <2> QED
    BY <2>1 DEF Routed
<1>10. Planned' /\ Answered' /\ ValuesAreTheirs'
  BY DEF Planned, Answered, ValuesAreTheirs, Compiling
<1> QED
  BY <1>7, <1>8, <1>9, <1>10

(* An address read from a word keeps the invariant. *)
LEMMA CompileWordKeeps ==
  ASSUME ReadIInv, CompileWord
  PROVE  ReadIInv'
<1> DEFINE d == Source(Current)
<1>1. Current \in Addresses /\ d \in Devices
  BY SourceIsDevice DEF ReadIInv, ReadTyped, CompileWord, Compiling, Current
<1>2. /\ Kind(Current) = "WORD" /\ TypeFits(Current) /\ ~CounterBit(Current)
      /\ Compiling
  BY DEF CompileWord, CounterBit, Kind
<1>3. /\ words' = With(words, d)
      /\ entries' = Append(entries, Entry(Current, IndexIn(words, d)))
      /\ UNCHANGED <<asked, step, dwords, answer, result>>
  BY DEF CompileWord
<1> HIDE DEF d
<1>4. /\ IndexIn(words, d) \in DOMAIN words' /\ IndexIn(words, d) \in Nat
      /\ words'[IndexIn(words, d)] = d
  BY <1>1, <1>3, Listing DEF ReadIInv, ReadTyped, PlanIsSound, Distinct
<1>5. Home(Entry(Current, IndexIn(words, d)), words', dwords')
  BY <1>2, <1>4 DEF Home, Entry, d
<1> QED
  BY <1>1, <1>2, <1>3, <1>4, <1>5, EntryAdded

(* An address read from a double word keeps the invariant. *)
LEMMA CompileDwordKeeps ==
  ASSUME ReadIInv, CompileDword
  PROVE  ReadIInv'
<1> DEFINE d == Source(Current)
<1>1. Current \in Addresses /\ d \in Devices
  BY SourceIsDevice DEF ReadIInv, ReadTyped, CompileDword, Compiling, Current
<1>2. Kind(Current) = "DWORD" /\ TypeFits(Current) /\ Compiling
  BY DEF CompileDword
<1>3. /\ dwords' = With(dwords, d)
      /\ entries' = Append(entries, Entry(Current, IndexIn(dwords, d)))
      /\ words' = IF Current.dtype = "BIT_IN_WORD" THEN With(words, d)
                                                   ELSE words
      /\ UNCHANGED <<asked, step, answer, result>>
  BY DEF CompileDword
<1>4. CounterBit(Current) => d.code = "LCN"
  BY DEF CounterBit, Source, DeviceOf, Device, PlainBitCodes
<1> HIDE DEF d
<1>5. Distinct(words) /\ Distinct(dwords)
  BY DEF ReadIInv, PlanIsSound, Distinct
<1>6. /\ IndexIn(dwords, d) \in DOMAIN dwords' /\ IndexIn(dwords, d) \in Nat
      /\ dwords'[IndexIn(dwords, d)] = d
  BY <1>1, <1>3, <1>5, Listing DEF ReadIInv, ReadTyped
<1>7. Home(Entry(Current, IndexIn(dwords, d)), words', dwords')
  BY <1>2, <1>6 DEF Home, Entry, d
<1>8. CounterBit(Current) => \E j \in DOMAIN words' : words'[j].code = "LCN"
  <2> SUFFICES ASSUME CounterBit(Current)
               PROVE  \E j \in DOMAIN words' : words'[j].code = "LCN"
    OBVIOUS
  <2>1. words' = With(words, d)
    BY <1>3 DEF CounterBit
  <2>2. With(words, d)[IndexIn(words, d)] = d
        /\ IndexIn(words, d) \in DOMAIN With(words, d)
    BY <1>1, <1>5, Listing DEF ReadIInv, ReadTyped
  <2> QED
    BY <1>4, <2>1, <2>2
<1> QED
  BY <1>1, <1>2, <1>3, <1>6, <1>7, <1>8, EntryAdded

(* An address no batch takes keeps the invariant. *)
LEMMA CompileUnbatchedKeeps ==
  ASSUME ReadIInv, CompileUnbatched
  PROVE  ReadIInv'
<1>1. Current \in Addresses
  BY DEF ReadIInv, ReadTyped, CompileUnbatched, Compiling, Current
<1>2. Source(Current) \in Devices
  BY <1>1, SourceIsDevice
<1>3. Kind(Current) = "none" /\ ~CounterBit(Current)
  BY DEF CompileUnbatched, CounterBit, Kind
<1>4. Home(Entry(Current, 0), words', dwords')
  BY <1>3 DEF Home, Entry
<1>5. /\ Compiling /\ TypeFits(Current)
      /\ entries' = Append(entries, Entry(Current, 0))
      /\ UNCHANGED <<asked, step, words, dwords, answer, result>>
  BY DEF CompileUnbatched
<1> QED
  BY <1>2, <1>3, <1>4, <1>5, EntryAdded

------------------------------------------------------------------------------
(* The steps after the compilation leave the plan alone. *)
LEMMA PlanStands ==
  ASSUME ReadIInv, UNCHANGED <<asked, plan>>
  PROVE  PlanIsSound' /\ Routed' /\ (Whole => Whole')
BY DEF ReadIInv, plan, PlanIsSound, Routed, Whole

(* The end of the compilation, and what the builder of the request makes   *)
(* of the plan: a plan with a word of a long counter is not sent.          *)
LEMMA PreparationKeeps ==
  ASSUME ReadIInv, CompileRefused \/ CompileEnds \/ Prepares
  PROVE  ReadIInv'
<1> USE DEF ReadIInv
<1>1. CASE CompileRefused
  <2>1. UNCHANGED <<asked, plan, answer, result>> /\ step' = "refused"
    BY <1>1 DEF CompileRefused, Refuses
  <2> QED
    BY <2>1, PlanStands DEF plan, ReadTyped, Planned, Answered, ValuesAreTheirs
<1>2. CASE CompileEnds
  <2>1. /\ UNCHANGED <<asked, plan, answer, result>>
        /\ \/ step' = "refused"
           \/ step' = "prepare" /\ Whole
    BY <1>2 DEF CompileEnds, Whole
  <2> QED
    BY <2>1, PlanStands DEF plan, ReadTyped, Planned, Answered, ValuesAreTheirs
<1>3. CASE Prepares
  <2>1. /\ UNCHANGED <<asked, plan, answer, result>>
        /\ step = "prepare"
        /\ \/ step' = "refused"
           \/ step' = "send" /\ \A j \in DOMAIN words : words[j].code # "LCN"
    BY <1>3 DEF Prepares, Preparable
  <2>2. Whole
    BY <2>1 DEF Planned
  <2>3. Planned'
    BY <2>1, <2>2, PlanStands DEF plan, Planned
  <2> QED
    BY <2>1, <2>3, PlanStands DEF plan, ReadTyped, Answered, ValuesAreTheirs
<1> QED
  BY <1>1, <1>2, <1>3

(* Sending, the PLC's changes and its answer, and the wait of a poll. *)
LEMMA ExchangeKeeps ==
  ASSUME ReadIInv, SendsPlan \/ PlcChanges \/ PlcAnswers \/ PollsAgain
  PROVE  ReadIInv'
<1> USE DEF ReadIInv
<1>1. CASE SendsPlan \/ PollsAgain
  <2>1. /\ UNCHANGED <<asked, plan, answer, result>>
        /\ step \in {"send", "waits"} /\ step' \in {"send", "sent"}
    BY <1>1 DEF SendsPlan, PollsAgain
  <2>2. Planned'
    BY <2>1, PlanStands DEF plan, Planned
  <2> QED
    BY <2>1, <2>2, PlanStands DEF plan, ReadTyped, Answered, ValuesAreTheirs
<1>2. CASE PlcChanges
  <2>1. UNCHANGED <<asked, plan, answer, result, step>>
    BY <1>2 DEF PlcChanges
  <2>2. Planned'
    BY <2>1, PlanStands DEF plan, Planned
  <2> QED
    BY <2>1, <2>2, PlanStands DEF plan, ReadTyped, Answered, ValuesAreTheirs
<1>3. CASE PlcAnswers
  <2>1. /\ UNCHANGED <<asked, plan, result>>
        /\ step = "sent" /\ step' = "answered"
    BY <1>3 DEF PlcAnswers
  <2>2. Planned'
    BY <2>1, PlanStands DEF plan, Planned
  <2>3. Answered'
    BY <1>3 DEF PlcAnswers, plan, Answered
  <2> QED
    BY <2>1, <2>2, <2>3, PlanStands DEF plan, ReadTyped, ValuesAreTheirs
<1> QED
  BY <1>1, <1>2, <1>3

(* The answer is taken apart: an entry means what its address means. *)
LEMMA DecodesKeeps ==
  ASSUME ReadIInv, Decodes
  PROVE  ReadIInv'
<1> USE DEF ReadIInv
<1>1. /\ UNCHANGED <<asked, plan, answer>>
      /\ step = "answered" /\ step' \in {"waits", "done"}
  BY DEF Decodes
<1>2. /\ Whole /\ \A j \in DOMAIN words : words[j].code # "LCN"
      /\ answer.words = [j \in DOMAIN words |-> <<"word", words[j]>>]
      /\ answer.dwords = [j \in DOMAIN dwords |-> <<"dword", dwords[j]>>]
  BY <1>1 DEF Planned, Answered
<1>3. /\ DOMAIN entries = 1..Len(asked) /\ DOMAIN asked = 1..Len(asked)
      /\ Len(asked) \in Nat
  BY <1>2 DEF ReadTyped, Whole
<1>4. result' = [i \in DOMAIN entries |->
                   [address |-> entries[i].address,
                    value |-> Value(entries[i], answer),
                    version |-> answer.version]]
  BY DEF Decodes
<1>5. ASSUME NEW i \in DOMAIN asked
      PROVE  /\ result'[i].address = asked[i]
             /\ result'[i].value = Meaning(asked[i])
             /\ result'[i].version = answer.version
  <2> DEFINE index == entries[i].index
  <2>1. asked[i] \in Addresses /\ index \in Nat /\ i \in DOMAIN entries
    <3>1. asked[i] \in Addresses /\ i \in DOMAIN entries
      BY <1>3 DEF ReadTyped
    <3>2. entries[i] \in Entries
      BY <3>1 DEF ReadTyped
    <3> QED
      BY <3>1, <3>2 DEF Entries
  <2>2. /\ entries[i] = Entry(asked[i], index)
        /\ Home(entries[i], words, dwords)
        /\ TypeFits(asked[i]) /\ ~CounterBit(asked[i])
        /\ entries[i].kind # "none"
    BY <1>2, <2>1 DEF PlanIsSound, Routed, Whole
  <2>3. /\ Kind(asked[i]) # "none"
        /\ Kind(asked[i]) = "WORD" =>
             answer.words[index] = <<"word", Source(asked[i])>>
        /\ Kind(asked[i]) = "DWORD" =>
             answer.dwords[index] = <<"dword", Source(asked[i])>>
    <3>1. entries[i].kind = Kind(asked[i]) /\ entries[i].address = asked[i]
      BY <2>2 DEF Entry
    <3> QED
      BY <1>2, <2>2, <3>1 DEF Home
  <2>4. Value(entries[i], answer) = Meaning(asked[i])
    BY <2>1, <2>2, <2>3, EntryMeansAddress
  <2>5. entries[i].address = asked[i]
    BY <2>2 DEF Entry
  <2> QED
    BY <1>4, <2>1, <2>4, <2>5
<1>6. Len(result') = Len(asked)
  BY <1>3, <1>4
<1>7. ValuesAreTheirs'
  BY <1>1, <1>5, <1>6 DEF ValuesAreTheirs
<1>8. Planned'
  BY <1>1, PlanStands DEF plan, Planned
<1> QED
  BY <1>1, <1>7, <1>8, PlanStands DEF plan, ReadTyped, Answered

------------------------------------------------------------------------------
(* The invariant holds in every state of NamedRead. *)
THEOREM ReadInvariant == ReadSpec => []ReadIInv
<1>1. ReadInit => ReadIInv
  <2> SUFFICES ASSUME ReadInit
               PROVE  ReadIInv
    OBVIOUS
  <2>1. ReadTyped
    BY NamedReadAssumption DEF ReadInit, ReadTyped
  <2>2. PlanIsSound /\ Routed
    BY DEF ReadInit, PlanIsSound, Routed
  <2>3. Planned /\ Answered /\ ValuesAreTheirs
    BY DEF ReadInit, Planned, Answered, ValuesAreTheirs
  <2> QED
    BY <2>1, <2>2, <2>3 DEF ReadIInv
<1>2. ReadIInv /\ [ReadNext]_readVars => ReadIInv'
  <2> SUFFICES ASSUME ReadIInv, [ReadNext]_readVars
               PROVE  ReadIInv'
    OBVIOUS
  <2>1. CASE CompileWord \/ CompileDword \/ CompileUnbatched
    BY <2>1, CompileWordKeeps, CompileDwordKeeps, CompileUnbatchedKeeps
  <2>2. CASE CompileRefused \/ CompileEnds \/ Prepares
    BY <2>2, PreparationKeeps
  <2>3. CASE SendsPlan \/ PlcChanges \/ PlcAnswers \/ PollsAgain
    BY <2>3, ExchangeKeeps
  <2>4. CASE Decodes
    BY <2>4, DecodesKeeps
  <2>5. CASE UNCHANGED readVars
    BY <2>5
       DEF readVars, ReadIInv, ReadTyped, PlanIsSound, Routed, Planned,
           Whole, Answered, ValuesAreTheirs
  <2> QED
    BY <2>1, <2>2, <2>3, <2>4, <2>5 DEF ReadNext
<1> QED
  BY <1>1, <1>2, PTL DEF ReadSpec

(* Every index of a read plan is the place of its own address's device,    *)
(* and no device is read twice (_compile_read_plan).                       *)
THEOREM SoundPlan == ReadSpec => []PlanIsSound
<1>1. ReadIInv => PlanIsSound
  BY DEF ReadIInv
<1> QED
  BY <1>1, ReadInvariant, PTL

(* A read by name, and every cycle of a poll, gives each address its own   *)
(* value, all of one answer (_decode_read_plan, poll).                     *)
THEOREM OwnValues == ReadSpec => []ValuesAreTheirs
<1>1. ReadIInv => ValuesAreTheirs
  BY DEF ReadIInv
<1> QED
  BY <1>1, ReadInvariant, PTL
------------------------------------------------------------------------------
(* WriteProbes.                                                            *)
(* The phases of a row: it has read, and it has chosen what to write.      *)
Begun == {"choose", "ask", "write", "readback", "restore", "verify", "judge",
          "finally", "record"}
Tested == Begun \ {"choose", "ask"}

(* The lines of a report.                                                  *)
ReportRows == [kind : {"span", "label"}, cells : Seq(Cells), status : Statuses,
            wrote : BOOLEAN, moved : SUBSET Cells]

RowTyped ==
    /\ rows \in Seq(Rows)
    /\ mode \in {"read_only", "restore", "keep"}
    /\ phase \in Begun \cup {"read", "failed", "quit"}
    /\ verdict \in Statuses \cup {"none", "failed", "interrupted"}
    /\ report \in Seq(ReportRows)
    /\ moved \subseteq Cells
    /\ failed \in BOOLEAN

(* Words are words, in the PLC and in what is yet to arrive there.         *)
Fits(cells, values) ==
    /\ DOMAIN values = DOMAIN cells
    /\ \A i \in DOMAIN cells : values[i] \in Values
MemoryTyped ==
    /\ mem \in [Cells -> Values] /\ origin \in [Cells -> Values]
    /\ nature \in [Cells -> Natures]
    /\ \A c \in Cells :
        /\ nature[c] = "masked" => mem[c] < 2 /\ origin[c] < 2
        /\ nature[c] = "stuck" => mem[c] = origin[c]
    /\ \A w \in overdue : w.cells \in Seq(Cells) /\ Fits(w.cells, w.values)

RowHolds ==
    /\ phase \in Begun \cup {"failed"} => rows # <<>>
    /\ phase = "read" => before = <<>> /\ test = <<>> /\ verdict = "none"
    /\ phase \in Begun => Fits(Row.cells, before)
    /\ phase \in {"choose", "ask"} => test = <<>>
    /\ phase \in Tested => Fits(Row.cells, test)
    /\ phase \in {"choose", "readback", "restore", "verify"} =>
           Row.kind = "span"
    /\ phase \in {"ask", "judge", "finally", "record"} => Row.kind = "label"
    /\ phase = "write" /\ Row.kind = "span" => mode # "read_only"
    /\ phase = "readback" => mode # "read_only"
    /\ phase \in {"restore", "verify"} => mode = "restore"
    /\ phase \in {"finally", "record"} => verdict # "none"
    /\ phase = "failed" => failed
    /\ ~failed => overdue = {}

(* A word that is not as its row found it has moved since.                 *)
MovesAreSeen ==
    /\ phase \in Begun =>
        \A i \in DOMAIN Row.cells :
            mem[Row.cells[i]] # before[i] => Row.cells[i] \in moved
    /\ phase \in Tested /\ Row.kind = "span" =>
        \A i \in DOMAIN Row.cells : test[i] # before[i]
    /\ phase \in {"restore", "verify"} => Range(Row.cells) \subseteq moved
    /\ OkHasMoved

(* The words of the rows that are NG, and of a row that is to become NG.   *)
Flagged ==
    {c \in Cells : \E i \in DOMAIN report :
        report[i].status = "NG" /\ c \in Range(report[i].cells)}
Doomed ==
    \/ phase = "failed"
    \/ phase \in {"finally", "record"} /\ verdict \in {"failed", "interrupted"}
Settled ==
    \/ phase \in {"read", "choose", "ask", "write"}
    \/ phase = "record" /\ ~Doomed

(* A tool that restores: other words than those of its row are changed or  *)
(* may yet change only if they are flagged, those of the row only where it *)
(* has written or is to become NG, and it goes back to what was there.     *)
Restoring ==
    mode = "restore" /\ phase # "quit" =>
        /\ \A c \in Cells :
            mem[c] # origin[c] =>
                \/ c \in Flagged
                \/ c \in InHand /\ ~Settled
        /\ \A w \in overdue : \A i \in DOMAIN w.cells :
                \/ w.cells[i] \in Flagged
                \/ w.cells[i] \in InHand /\ Doomed
        /\ phase \in Begun =>
            \A i \in DOMAIN Row.cells :
                before[i] = origin[Row.cells[i]] \/ Row.cells[i] \in Flagged

(* The labels of a tool without a failure, before and between their tests. *)
OnlyLabels ==
    /\ \A i \in DOMAIN report : report[i].kind = "label"
    /\ rows # <<>> /\ phase # "read" => Row.kind = "label"
Undoing ==
    mode = "restore" /\ ~failed /\ OnlyLabels =>
        /\ phase \notin {"judge", "finally"} => mem = origin
        /\ phase \in Begun =>
            /\ \A i \in DOMAIN Row.cells : before[i] = origin[Row.cells[i]]
            /\ \A c \in Cells : mem[c] # origin[c] => c \in InHand

ToolIInv ==
    RowTyped /\ MemoryTyped /\ RowHolds /\ MovesAreSeen /\ Restoring /\ Undoing
------------------------------------------------------------------------------
(* What a word is after it was written, and what was there comes back.     *)
LEMMA StoredIs ==
  ASSUME MemoryTyped, NEW c \in Cells, NEW v \in Values
  PROVE  /\ Stored(c, v) \in Values
         /\ nature[c] = "masked" => Stored(c, v) < 2
         /\ nature[c] = "stuck" => Stored(c, v) = mem[c]
         /\ v = origin[c] => Stored(c, v) = origin[c]
<1>1. nature[c] \in {"plain", "masked", "stuck"} /\ mem[c] \in Values
  BY DEF MemoryTyped, Natures
<1>2. v \in Nat /\ v < WordModulus /\ WordModulus \in Nat
  BY WriteProbesAssumption DEF Values
<1>3. v % 2 \in Nat /\ v % 2 < 2 /\ v % 2 <= v
  BY <1>2
<1>4. v < 2 => v % 2 = v
  BY <1>2
<1>5. v % 2 \in Values
  BY <1>2, <1>3 DEF Values
<1>6. CASE nature[c] = "plain"
  BY <1>6 DEF Stored
<1>7. CASE nature[c] = "masked"
  <2>1. Stored(c, v) = v % 2
    BY <1>7 DEF Stored
  <2> QED
    BY <1>3, <1>4, <1>5, <1>7, <2>1 DEF MemoryTyped
<1>8. CASE nature[c] = "stuck"
  <2>1. Stored(c, v) = mem[c]
    BY <1>8 DEF Stored
  <2> QED
    BY <1>1, <1>8, <2>1 DEF MemoryTyped
<1> QED
  BY <1>1, <1>6, <1>7, <1>8

(* A write stores a word in each of its cells, and leaves the others.      *)
LEMMA AfterWriteIs ==
  ASSUME MemoryTyped, NEW cells \in Seq(Cells), NEW values,
         Fits(cells, values)
  PROVE  /\ AfterWrite(cells, values) \in [Cells -> Values]
         /\ \A c \in Cells :
              \/ c \notin Range(cells) /\ AfterWrite(cells, values)[c] = mem[c]
              \/ \E i \in DOMAIN cells :
                   /\ cells[i] = c
                   /\ AfterWrite(cells, values)[c] = Stored(c, values[i])
<1> DEFINE after == AfterWrite(cells, values)
           At(c) == {i \in DOMAIN cells : cells[i] = c}
<1>1. ASSUME NEW c \in Cells
      PROVE  /\ after[c] \in Values
             /\ \/ c \notin Range(cells) /\ after[c] = mem[c]
                \/ \E i \in DOMAIN cells :
                     cells[i] = c /\ after[c] = Stored(c, values[i])
  <2>1. CASE At(c) = {}
    <3>1. after[c] = mem[c]
      BY <2>1 DEF AfterWrite
    <3> QED
      BY <2>1, <3>1 DEF Range, MemoryTyped
  <2>2. CASE At(c) # {}
    <3> DEFINE last == CHOOSE i \in DOMAIN cells :
                         /\ cells[i] = c
                         /\ \A j \in DOMAIN cells : cells[j] = c => j <= i
    <3>1. after[c] = Stored(c, values[last])
      BY <2>2 DEF AfterWrite
    <3>2. Len(cells) \in Nat /\ DOMAIN cells = 1..Len(cells)
      OBVIOUS
    <3>3. \E i \in At(c) : \A j \in At(c) : j <= i
      BY <2>2, <3>2, LastExists
    <3>4. last \in DOMAIN cells /\ cells[last] = c
      BY <3>3
    <3> HIDE DEF last
    <3>5. values[last] \in Values
      BY <3>4 DEF Fits
    <3>6. Stored(c, values[last]) \in Values
      BY <3>5, StoredIs
    <3> QED
      BY <3>1, <3>4, <3>6
  <2> QED
    BY <2>1, <2>2
<1>2. after = [c \in Cells |-> after[c]]
  BY DEF AfterWrite
<1> HIDE DEF after
<1> QED
  BY <1>1, <1>2 DEF after

(* A step that stores words in no more than these cells.                   *)
Changes(cells) ==
  /\ mem' \in [Cells -> Values]
  /\ moved \subseteq moved' /\ moved' \subseteq Cells
  /\ \A c \in Cells :
       /\ nature[c] = "masked" => mem'[c] < 2
       /\ nature[c] = "stuck" => mem'[c] = mem[c]
       /\ mem'[c] # mem[c] => c \in Range(cells) /\ c \in moved'

(* A write that is carried out changes no other word.                      *)
LEMMA AppliedChanges ==
  ASSUME RowTyped, MemoryTyped,
         NEW cells \in Seq(Cells), NEW values, Fits(cells, values),
         Applied(cells, values)
  PROVE  /\ Changes(cells)
         /\ \A c \in Range(cells) :
              \E i \in DOMAIN cells :
                cells[i] = c /\ mem'[c] = Stored(c, values[i])
<1>1. mem' = AfterWrite(cells, values)
      /\ moved' = moved \cup {c \in Cells : mem'[c] # mem[c]}
  BY DEF Applied
<1>2. /\ mem' \in [Cells -> Values]
      /\ \A c \in Cells :
           \/ c \notin Range(cells) /\ mem'[c] = mem[c]
           \/ \E i \in DOMAIN cells :
                cells[i] = c /\ mem'[c] = Stored(c, values[i])
  BY <1>1, AfterWriteIs
<1>3. ASSUME NEW c \in Cells
      PROVE  /\ nature[c] = "masked" => mem'[c] < 2
             /\ nature[c] = "stuck" => mem'[c] = mem[c]
             /\ mem'[c] # mem[c] => c \in Range(cells) /\ c \in moved'
  <2>1. CASE mem'[c] = mem[c]
    BY <2>1 DEF MemoryTyped
  <2>2. CASE mem'[c] # mem[c]
    <3>1. PICK i \in DOMAIN cells :
            cells[i] = c /\ mem'[c] = Stored(c, values[i])
      BY <1>2, <2>2
    <3>2. values[i] \in Values
      BY DEF Fits
    <3>3. c \in Range(cells) /\ c \in moved'
      BY <1>1, <2>2, <3>1 DEF Range
    <3> QED
      BY <3>1, <3>2, <3>3, StoredIs
  <2> QED
    BY <2>1, <2>2
<1>4. Changes(cells)
  BY <1>1, <1>2, <1>3 DEF Changes, RowTyped
<1>5. Range(cells) \subseteq Cells
  BY DEF Range
<1> QED
  BY <1>2, <1>4, <1>5

(* A write, whatever becomes of its exchange. *)
LEMMA WriteChanges ==
  ASSUME RowTyped, MemoryTyped,
         NEW cells \in Seq(Cells), NEW values, Fits(cells, values),
         NEW ok \in BOOLEAN, Write(cells, values, ok)
  PROVE  /\ Changes(cells)
         /\ failed' = (failed \/ ~ok)
         /\ \/ overdue' = overdue
            \/ /\ ~ok
               /\ overdue' = overdue \cup
                               {[cells |-> cells, values |-> values]}
         /\ ok => \A c \in Range(cells) :
                    \E i \in DOMAIN cells :
                      cells[i] = c /\ mem'[c] = Stored(c, values[i])
<1>1. CASE Applied(cells, values)
  BY <1>1, AppliedChanges DEF Write, RowTyped
<1>2. CASE UNCHANGED <<mem, moved>>
  <2>1. Changes(cells)
    BY <1>2 DEF Changes, RowTyped, MemoryTyped
  <2>2. (failed' = TRUE /\ ~ok) \/ Applied(cells, values)
    BY DEF Write
  <2> QED
    BY <1>1, <1>2, <2>1, <2>2 DEF Write, RowTyped
<1> QED
  BY <1>1, <1>2 DEF Write
------------------------------------------------------------------------------
(* What the write steps do, and what a record says of its row.             *)
RowWrites == ProbeWrites \/ LabelWrites \/ ProbeRestores
               \/ (Finally /\ mode = "restore")
WrittenNow == IF phase = "write" THEN test ELSE before

(* The first row is one.                                                   *)
LEMMA RowIsRow ==
  ASSUME RowTyped, rows # <<>>
  PROVE  /\ Row \in Rows
         /\ Tail(rows) \in Seq(Rows)
BY HeadTail DEF RowTyped, Row

(* A row writes words to its own cells.  An exchange that fails brings the *)
(* row where it is going to be NG, or to leave the tool.                   *)
LEMMA RowWriteIs ==
  ASSUME ToolIInv, RowWrites
  PROVE  /\ rows # <<>> /\ Row \in Rows
         /\ Fits(Row.cells, WrittenNow)
         /\ UNCHANGED <<rows, mode, report, nature, origin, before, test>>
         /\ Changes(Row.cells)
         /\ failed => failed'
         /\ \/ overdue' = overdue
            \/ /\ failed' = TRUE
               /\ overdue' = overdue \cup {[cells |-> Row.cells,
                                      values |-> WrittenNow]}
               /\ Doomed'
         /\ \/ \A c \in Range(Row.cells) :
                 \E i \in DOMAIN Row.cells :
                   /\ Row.cells[i] = c
                   /\ mem'[c] = Stored(c, WrittenNow[i])
            \/ Doomed' /\ failed' = TRUE
<1> USE DEF RowWrites, GoesTo
<1>1. rows # <<>> /\ Row \in Rows
  BY RowIsRow
     DEF ProbeWrites, LabelWrites, ProbeRestores, Finally, ToolIInv
<1>2. Fits(Row.cells, WrittenNow)
  BY DEF ProbeWrites, LabelWrites, ProbeRestores, Finally, ToolIInv, RowHolds,
         WrittenNow, Begun, Tested
<1>3. UNCHANGED <<rows, mode, report, nature, origin, before, test>>
  BY DEF ProbeWrites, LabelWrites, ProbeRestores, Finally
<1>4. PICK ok \in BOOLEAN :
        /\ Write(Row.cells, WrittenNow, ok)
        /\ ~ok => Doomed'
  <2>1. CASE ProbeWrites
    BY <2>1 DEF ProbeWrites, WrittenNow, Doomed
  <2>2. CASE LabelWrites
    BY <2>2 DEF LabelWrites, WrittenNow, Doomed
  <2>3. CASE ProbeRestores
    BY <2>3 DEF ProbeRestores, WrittenNow, Doomed
  <2>4. CASE Finally /\ mode = "restore"
    BY <2>4 DEF Finally, WrittenNow, Doomed
  <2> QED
    BY <2>1, <2>2, <2>3, <2>4
<1>5. /\ Changes(Row.cells)
      /\ failed' = (failed \/ ~ok)
      /\ \/ overdue' = overdue
         \/ /\ ~ok
            /\ overdue' = overdue \cup {[cells |-> Row.cells,
                                   values |-> WrittenNow]}
      /\ ok => \A c \in Range(Row.cells) :
                 \E i \in DOMAIN Row.cells :
                   /\ Row.cells[i] = c
                   /\ mem'[c] = Stored(c, WrittenNow[i])
  BY <1>1, <1>2, <1>4, WriteChanges DEF ToolIInv, Rows
<1> QED
  BY <1>1, <1>2, <1>3, <1>4, <1>5

(* A write that comes late stores words of its own cells. *)
LEMMA LateWriteIs ==
  ASSUME ToolIInv, LateWrite
  PROVE  /\ \E w \in overdue : Changes(w.cells) /\ overdue' = overdue \ {w}
         /\ UNCHANGED <<rows, mode, phase, before, test, verdict, report,
                        nature, origin, failed>>
<1>1. PICK w \in overdue :
        Applied(w.cells, w.values) /\ overdue' = overdue \ {w}
  BY DEF LateWrite
<1>2. w.cells \in Seq(Cells) /\ Fits(w.cells, w.values)
  BY DEF ToolIInv, MemoryTyped
<1>3. Changes(w.cells)
  BY <1>1, <1>2, AppliedChanges DEF ToolIInv
<1> QED
  BY <1>1, <1>3 DEF LateWrite

(* The line of the report.                                                 *)
Entered(status) ==
  [kind |-> Row.kind, cells |-> Row.cells, status |-> status,
   wrote |-> test # <<>>, moved |-> moved]

(* The steps that record their row, and with what.                         *)
Records(status) ==
  \/ Abandon /\ status = "NG"
  \/ ReadOnly /\ status = "OK"
  \/ /\ rows # <<>> /\ phase = "readback" /\ Record(status)
     /\ \/ status = "NG"
        \/ status = "OK" /\ Read(Row.cells) = test /\ mode = "keep"
  \/ /\ Verify
     /\ status = IF Read(Row.cells) = before THEN "OK" ELSE "NG"
  \/ /\ rows # <<>> /\ phase = "ask" /\ status = "SKIP" /\ Record(status)
  \/ /\ RecordLabel
     /\ status = IF verdict = "failed" THEN "NG" ELSE verdict

(* A row that is recorded is not NG only if nothing of it failed.          *)
LEMMA RecordIs ==
  ASSUME ToolIInv, NEW status, Records(status)
  PROVE  /\ rows # <<>> /\ Row \in Rows
         /\ Row.kind \in {"span", "label"} /\ Row.cells \in Seq(Cells)
         /\ phase \in Begun \cup {"failed"}
         /\ status \in Statuses
         /\ status # "NG" => ~Doomed
         /\ rows' = Tail(rows)
         /\ rows' \in Seq(Rows)
         /\ report' = Append(report, Entered(status))
         /\ Entered(status) \in ReportRows
         /\ phase' = "read" /\ before' = <<>> /\ test' = <<>>
         /\ verdict' = "none"
         /\ UNCHANGED <<mode, nature, origin, mem, overdue, moved, failed>>
<1>1. /\ rows # <<>> /\ phase \in Begun \cup {"failed"}
      /\ status \in Statuses
      /\ status # "NG" => ~Doomed
      /\ Record(status)
  <2>1. CASE RecordLabel
    <3>1. /\ rows # <<>> /\ phase = "record" /\ verdict # "interrupted"
          /\ verdict # "none"
          /\ verdict \in Statuses \cup {"none", "failed", "interrupted"}
      BY <2>1 DEF RecordLabel, ToolIInv, RowTyped, RowHolds
    <3>2. /\ status = IF verdict = "failed" THEN "NG" ELSE verdict
          /\ Record(status)
      BY <2>1, <3>1 DEF Records, RecordLabel, Abandon, ReadOnly, Verify
    <3> QED
      BY <3>1, <3>2 DEF Doomed, Statuses, Begun
  <2>2. CASE ~RecordLabel
    BY <2>2 DEF Abandon, ReadOnly, Verify, Records, Doomed, Statuses, Begun
  <2> QED
    BY <2>1, <2>2
<1>2. /\ Row \in Rows
      /\ Tail(rows) \in Seq(Rows)
  BY <1>1, RowIsRow DEF ToolIInv
<1>3. (test # <<>>) \in BOOLEAN /\ moved \in SUBSET Cells
  BY DEF ToolIInv, RowTyped
<1> QED
  BY <1>1, <1>2, <1>3 DEF Record, PlcRests, Entered, ReportRows, Rows
------------------------------------------------------------------------------
(* What is written for a test is a list of words.                          *)
LEMMA TestValues ==
  ASSUME NEW cells \in Seq(Cells), NEW values,
         Fits(cells, values)
  PROVE  /\ Fits(cells, ProbeValues(values))
         /\ \A i \in DOMAIN cells : ProbeValues(values)[i] # values[i]
         /\ Fits(cells, LabelValues(values))
<1>1. WordModulus \in Nat /\ 2 <= WordModulus /\ WordModulus % 2 = 0
      /\ PreferredBase \in Nat
  BY WriteProbesAssumption
<1>2. DOMAIN values = DOMAIN cells /\ DOMAIN cells = 1..Len(cells)
      /\ Len(cells) \in Nat
  BY DEF Fits
<1>3. ASSUME NEW i \in DOMAIN cells
      PROVE  /\ ProbeValues(values)[i] \in Values
             /\ ProbeValues(values)[i] # values[i]
             /\ LabelValues(values)[i] \in Values
  <2> DEFINE v == values[i]
             n == (PreferredBase + i - 1) % WordModulus
  <2>1. v \in 0..(WordModulus - 1)
    BY DEF Fits, Values
  <2>2. PreferredBase + i - 1 \in Nat
    BY <1>1, <1>2
  <2>3. n \in 0..(WordModulus - 1)
    BY <1>1, <2>2
  <2>4. ProbeValues(values)[i] = IF n # v THEN n ELSE (n + 1) % WordModulus
    BY <1>2 DEF ProbeValues
  <2>5. LabelValues(values)[i] = IF v % 2 = 0 THEN v + 1 ELSE v - 1
    BY <1>2 DEF LabelValues
  <2> HIDE DEF v, n
  <2>6. (n + 1) % WordModulus \in 0..(WordModulus - 1)
    BY <1>1, <2>3
  <2>7. (n + 1) % WordModulus # n
    <3>1. CASE n + 1 < WordModulus
      <4>1. (n + 1) % WordModulus = n + 1
        BY <1>1, <2>3, <3>1
      <4> QED
        BY <2>3, <4>1
    <3>2. CASE n + 1 = WordModulus
      <4>1. (n + 1) % WordModulus = 0
        BY <1>1, <2>3, <3>2
      <4> QED
        BY <1>1, <3>2, <4>1
    <3> QED
      BY <1>1, <2>3, <3>1, <3>2
  <2>8. v % 2 = 0 => v + 1 < WordModulus
    <3> SUFFICES ASSUME v % 2 = 0, v + 1 = WordModulus PROVE FALSE
      BY <1>1, <2>1
    <3> QED
      BY <1>1, <2>1
  <2>9. v % 2 # 0 => v - 1 \in Nat
    BY <2>1
  <2>10. ProbeValues(values)[i] \in Values /\ ProbeValues(values)[i] # v
    BY <2>3, <2>4, <2>6, <2>7 DEF Values
  <2>11. LabelValues(values)[i] \in 0..(WordModulus - 1)
    BY <1>1, <2>1, <2>5, <2>8, <2>9
  <2> QED
    BY <2>10, <2>11 DEF Values, v
<1>4. DOMAIN ProbeValues(values) = DOMAIN cells
      /\ DOMAIN LabelValues(values) = DOMAIN cells
  BY <1>2 DEF ProbeValues, LabelValues
<1> QED
  BY <1>3, <1>4 DEF Fits

------------------------------------------------------------------------------
(* The steps that do neither.                                              *)
Others == ReadBefore \/ ReadFails \/ Choose \/ Judge \/ Quit
            \/ (ReadBack /\ phase' = "restore") \/ (Ask /\ phase' = "write")
            \/ (Finally /\ mode = "keep")

(* Every step records its row, writes, is a late write or one of the rest. *)
LEMMA Steps ==
  ASSUME ToolIInv, ToolNext
  PROVE  \/ \E status : Records(status)
         \/ RowWrites
         \/ LateWrite
         \/ Others
<1>1. ASSUME ReadBack
      PROVE  (\E status : Records(status)) \/ Others
  BY <1>1 DEF ReadBack, Records, Others, GoesTo
<1>2. ASSUME Ask PROVE (\E status : Records(status)) \/ Others
  BY <1>2 DEF Ask, Records, Others, GoesTo
<1>3. ASSUME Abandon \/ ReadOnly \/ Verify \/ RecordLabel
      PROVE  \E status : Records(status)
  BY <1>3 DEF Records
<1>4. ASSUME Finally PROVE RowWrites \/ Others
  BY <1>4 DEF Finally, RowWrites, Others
<1> QED
  BY <1>1, <1>2, <1>3, <1>4 DEF ToolNext, RowWrites, Others

(* The rest leaves the PLC and the rows alone. *)
LEMMA OthersAre ==
  ASSUME ToolIInv, Others
  PROVE  /\ UNCHANGED <<mode, report, nature, origin, mem, overdue>>
         /\ failed => failed'
         /\ ReadBefore \/ moved' = moved
         /\ rows # <<>> /\ Row \in Rows /\ Row.cells \in Seq(Cells)
         /\ Quit \/ rows' = rows
<1>1. rows # <<>>
  BY DEF Others, ReadBefore, ReadFails, Choose, Judge, Quit, ReadBack, Ask,
         Finally
<1>2. Row \in Rows /\ Row.cells \in Seq(Cells)
  BY <1>1, RowIsRow DEF ToolIInv, Rows
<1>3. ReadBack /\ phase' = "restore" =>
        UNCHANGED <<mode, report, nature, origin, mem, overdue, failed, moved,
                    rows>>
  BY DEF ReadBack, Record, GoesTo, PlcRests
<1>4. Ask /\ phase' = "write" =>
        UNCHANGED <<mode, report, nature, origin, mem, overdue, failed, moved,
                    rows>>
  BY DEF Ask, Record, GoesTo, PlcRests
<1>5. ReadBefore \/ ReadFails \/ Choose \/ Judge \/ Quit
        \/ (Finally /\ mode = "keep") =>
        /\ UNCHANGED <<mode, report, nature, origin, mem, overdue>>
        /\ failed => failed'
        /\ ReadBefore \/ moved' = moved
        /\ Quit \/ rows' = rows
  BY DEF ReadBefore, ReadFails, Choose, Judge, Quit, Finally, GoesTo, PlcRests
<1> QED
  BY <1>1, <1>2, <1>3, <1>4, <1>5 DEF Others
------------------------------------------------------------------------------
(* Every step keeps the rows and the report what they are. *)
LEMMA RowTypedStep ==
  ASSUME ToolIInv, ToolNext
  PROVE  RowTyped'
<1> USE DEF RowTyped
<1>1. RowTyped
  BY DEF ToolIInv
<1>2. ASSUME NEW status, Records(status) PROVE RowTyped'
  <2>1. rows' \in Seq(Rows) /\ report' = Append(report, Entered(status))
        /\ Entered(status) \in ReportRows
    BY <1>2, RecordIs DEF ToolIInv
  <2>2. report' \in Seq(ReportRows)
    BY <1>1, <2>1, Appended
  <2> QED
    BY <1>1, <1>2, <2>1, <2>2, RecordIs
<1>3. ASSUME RowWrites PROVE RowTyped'
  <2>1. /\ phase' \in {"readback", "failed", "judge", "finally", "verify",
                       "record"}
        /\ verdict' \in {verdict, "failed"}
        /\ failed' \in BOOLEAN
    BY <1>1, <1>3 DEF RowWrites, ProbeWrites, LabelWrites, ProbeRestores,
                      Finally, GoesTo, Write
  <2> QED
    BY <1>1, <1>3, <2>1, RowWriteIs DEF Changes, Begun
<1>4. ASSUME LateWrite PROVE RowTyped'
  BY <1>1, <1>4, LateWriteIs DEF Changes
<1>5. ASSUME Others PROVE RowTyped'
  <2>1. /\ mode' = mode /\ report' = report
        /\ rows' = rows \/ rows' = <<>>
        /\ moved' = moved \/ moved' = {}
    BY <1>5, OthersAre DEF ReadBefore, Quit
  <2>3. rows' \in Seq(Rows)
    <3>1. <<>> \in Seq(Rows)
      OBVIOUS
    <3> QED
      BY <1>1, <2>1, <3>1
  <2>4. moved' \subseteq Cells
    BY <1>1, <2>1
  <2>2. /\ phase' \in Begun \cup {"read", "failed", "quit"}
        /\ verdict' \in Statuses \cup {"none", "failed", "interrupted"}
        /\ failed' \in BOOLEAN
    BY <1>1, <1>5
       DEF Others, ReadBefore, ReadFails, Choose, Judge, Quit, ReadBack, Ask,
           Finally, GoesTo, PlcRests, Begun, Record
  <2> QED
    BY <1>1, <2>1, <2>2, <2>3, <2>4
<1> QED
  BY <1>2, <1>3, <1>4, <1>5, Steps

(* Every step keeps words words, in the PLC and on the way. *)
LEMMA MemoryTypedStep ==
  ASSUME ToolIInv, ToolNext
  PROVE  MemoryTyped'
<1>1. MemoryTyped /\ RowTyped
  BY DEF ToolIInv
<1>2. ASSUME UNCHANGED <<mem, overdue, nature, origin>> PROVE MemoryTyped'
  BY <1>1, <1>2 DEF MemoryTyped, Fits, Values
<1>3. ASSUME NEW cells, Changes(cells), UNCHANGED <<nature, origin>>,
             \A w \in overdue' :
               w.cells \in Seq(Cells) /\ Fits(w.cells, w.values)
      PROVE  MemoryTyped'
  BY <1>1, <1>3 DEF MemoryTyped, Changes, Fits, Values
<1>4. ASSUME NEW status, Records(status) PROVE MemoryTyped'
  BY <1>2, <1>4, RecordIs
<1>5. ASSUME RowWrites PROVE MemoryTyped'
  <2>1. \A w \in overdue' : w.cells \in Seq(Cells) /\ Fits(w.cells, w.values)
    <3>1. \A w \in overdue' :
            \/ w \in overdue
            \/ w = [cells |-> Row.cells, values |-> WrittenNow]
      BY <1>5, RowWriteIs
    <3>2. Row.cells \in Seq(Cells) /\ Fits(Row.cells, WrittenNow)
      BY <1>5, RowWriteIs DEF Rows
    <3> QED
      BY <1>1, <3>1, <3>2 DEF MemoryTyped
  <2> QED
    BY <1>3, <1>5, <2>1, RowWriteIs
<1>6. ASSUME LateWrite PROVE MemoryTyped'
  <2>1. PICK w \in overdue : Changes(w.cells) /\ overdue' = overdue \ {w}
    BY <1>6, LateWriteIs
  <2>2. \A x \in overdue' : x.cells \in Seq(Cells) /\ Fits(x.cells, x.values)
    BY <1>1, <2>1 DEF MemoryTyped
  <2> QED
    BY <1>3, <1>6, <2>1, <2>2, LateWriteIs
<1>7. ASSUME Others PROVE MemoryTyped'
  BY <1>2, <1>7, OthersAre
<1> QED
  BY <1>4, <1>5, <1>6, <1>7, Steps

(* Every step leaves a row with what its next phase needs. *)
LEMMA RowHoldsStep ==
  ASSUME ToolIInv, ToolNext
  PROVE  RowHolds'
<1>1. RowTyped /\ MemoryTyped /\ RowHolds
  BY DEF ToolIInv
<1>2. ASSUME NEW status, Records(status) PROVE RowHolds'
  BY <1>1, <1>2, RecordIs DEF RowHolds, Begun, Tested
<1>3. ASSUME RowWrites PROVE RowHolds'
  <2>1. /\ UNCHANGED <<rows, before, test, mode>> /\ rows # <<>>
        /\ phase \in Tested
        /\ ~failed' => overdue' = overdue /\ ~failed
    BY <1>1, <1>3, RowWriteIs
       DEF RowWrites, ProbeWrites, LabelWrites, ProbeRestores, Finally, Tested,
           Begun, RowTyped
  <2>2. \/ phase' \in {"readback", "failed"} /\ Row.kind = "span"
             /\ mode # "read_only"
        \/ phase' \in {"judge", "finally"} /\ Row.kind = "label"
        \/ phase' \in {"verify", "failed"} /\ Row.kind = "span"
             /\ mode = "restore"
        \/ phase' = "record" /\ Row.kind = "label"
    BY <1>1, <1>3
       DEF RowWrites, ProbeWrites, LabelWrites, ProbeRestores, Finally, GoesTo,
           RowHolds
  <2>3. /\ phase' \in {"finally", "record"} => verdict' # "none"
        /\ phase' = "failed" => failed'
    BY <1>1, <1>3
       DEF RowWrites, ProbeWrites, LabelWrites, ProbeRestores, Finally, GoesTo,
           RowHolds, Write
  <2> QED
    BY <1>1, <2>1, <2>2, <2>3 DEF RowHolds, Begun, Tested, Row, Fits
<1>4. ASSUME LateWrite PROVE RowHolds'
  BY <1>1, <1>4, LateWriteIs DEF RowHolds, Row, Fits
<1>5. ASSUME Others PROVE RowHolds'
  <2>1. /\ rows # <<>> /\ Row \in Rows /\ Row.cells \in Seq(Cells)
        /\ UNCHANGED <<mode, overdue>>
        /\ ~failed' => ~failed
    BY <1>5, OthersAre
  <2>2. CASE ReadBefore
    <3>1. /\ before' = Read(Row.cells) /\ phase = "read"
          /\ UNCHANGED <<rows, test, verdict, failed>>
          /\ Row.kind = "label" => phase' = "ask"
          /\ Row.kind # "label" => phase' = "choose"
      BY <2>2 DEF ReadBefore, GoesTo
    <3>3. Row.kind \in {"span", "label"}
      BY <2>1 DEF Rows
    <3>2. Fits(Row.cells, Read(Row.cells))
      BY <1>1, <2>1 DEF Fits, Read, MemoryTyped
    <3> QED
      BY <1>1, <2>1, <3>1, <3>2, <3>3 DEF RowHolds, Begun, Tested, Row, Fits
  <2>3. CASE ReadFails
    BY <1>1, <2>1, <2>3 DEF ReadFails, GoesTo, RowHolds, Begun, Tested, Row
  <2>4. CASE Choose
    <3>1. Fits(Row.cells, before) /\ Fits(Row.cells, ProbeValues(before))
      BY <1>1, <2>1, <2>4, TestValues DEF RowHolds, Begun, Choose
    <3> QED
      BY <1>1, <2>1, <2>4, <3>1
         DEF Choose, GoesTo, PlcRests, RowHolds, Begun, Tested, Row, Fits
  <2>5. CASE Judge
    BY <1>1, <2>1, <2>5
       DEF Judge, GoesTo, PlcRests, RowHolds, Begun, Tested, Row, Fits,
           Statuses
  <2>6. CASE Quit
    BY <1>1, <2>1, <2>6 DEF Quit, PlcRests, RowHolds, Begun, Tested
  <2>7. CASE ReadBack /\ phase' = "restore"
    <3>1. /\ mode = "restore" /\ phase = "readback"
          /\ UNCHANGED <<rows, before, test, verdict, failed>>
      BY <2>7 DEF ReadBack, Record, GoesTo, PlcRests
    <3> QED
      BY <1>1, <2>1, <2>7, <3>1 DEF RowHolds, Begun, Tested, Row, Fits
  <2>8. CASE Ask /\ phase' = "write"
    <3>1. /\ phase = "ask" /\ test' = LabelValues(before)
          /\ UNCHANGED <<rows, before, verdict, failed>>
      BY <2>8 DEF Ask, Record, GoesTo, PlcRests
    <3>2. Fits(Row.cells, before) /\ Fits(Row.cells, LabelValues(before))
          /\ Row.kind = "label"
      BY <1>1, <2>1, <3>1, TestValues DEF RowHolds, Begun
    <3> QED
      BY <1>1, <2>1, <2>8, <3>1, <3>2 DEF RowHolds, Begun, Tested, Row, Fits
  <2>9. CASE Finally /\ mode = "keep"
    BY <1>1, <2>1, <2>9
       DEF Finally, GoesTo, PlcRests, RowHolds, Begun, Tested, Row, Fits
  <2> QED
    BY <1>5, <2>2, <2>3, <2>4, <2>5, <2>6, <2>7, <2>8, <2>9 DEF Others
<1> QED
  BY <1>2, <1>3, <1>4, <1>5, Steps

(* A step that changes a word of a row says so in moved.                   *)
LEMMA MovesStep ==
  ASSUME ToolIInv, ToolNext
  PROVE  MovesAreSeen'
<1>1. RowTyped /\ MemoryTyped /\ RowHolds /\ MovesAreSeen
  BY DEF ToolIInv
<1>2. ASSUME NEW status, Records(status) PROVE MovesAreSeen'
  <2>1. /\ rows # <<>> /\ Row.cells \in Seq(Cells)
        /\ report' = Append(report, Entered(status))
        /\ Entered(status) \in ReportRows
        /\ phase' = "read"
    BY <1>2, RecordIs DEF ToolIInv
  <2>2. ASSUME Row.kind = "span", status = "OK", test # <<>>
        PROVE  Range(Row.cells) \subseteq moved
    <3>1. ~ReadOnly
      BY <1>1, <2>2 DEF ReadOnly, RowHolds
    <3>2. CASE phase = "readback" /\ Read(Row.cells) = test
      <4>1. ASSUME NEW i \in DOMAIN Row.cells PROVE Row.cells[i] \in moved
        <5>1. test[i] # before[i]
          BY <1>1, <2>2, <3>2 DEF MovesAreSeen, Tested, Begun
        <5>2. mem[Row.cells[i]] = test[i]
          BY <3>2 DEF Read
        <5> QED
          BY <1>1, <3>2, <5>1, <5>2 DEF MovesAreSeen, Begun
      <4> QED
        BY <4>1 DEF Range
    <3>3. CASE phase = "verify"
      BY <1>1, <3>3 DEF MovesAreSeen
    <3>4. ~RecordLabel
      BY <1>1, <2>2 DEF RecordLabel, RowHolds
    <3> QED
      BY <1>2, <2>2, <3>1, <3>2, <3>3, <3>4 DEF Records, Verify
  <2>3. OkHasMoved'
    <3> SUFFICES ASSUME NEW i \in DOMAIN report', report'[i].kind = "span",
                        report'[i].status = "OK", report'[i].wrote
                 PROVE  Range(report'[i].cells) \subseteq report'[i].moved
      BY DEF OkHasMoved
    <3>0. /\ report'[i].kind = "span" /\ report'[i].status = "OK"
          /\ report'[i].wrote
      OBVIOUS
    <3>1. CASE i \in DOMAIN report
      <4>1. report'[i] = report[i]
        BY <1>1, <2>1, <3>1, Appended DEF RowTyped
      <4> QED
        BY <1>1, <3>1, <4>1 DEF MovesAreSeen, OkHasMoved
    <3>2. CASE i \notin DOMAIN report
      <4>1. report'[i] = Entered(status)
        BY <1>1, <2>1, <3>2, Appended DEF RowTyped
      <4>2. Entered(status).wrote => test # <<>>
        BY Zenon DEF Entered
      <4>3. /\ Entered(status).kind = Row.kind
            /\ Entered(status).status = status
            /\ Entered(status).cells = Row.cells
            /\ Entered(status).moved = moved
        BY DEF Entered
      <4> QED
        BY <2>2, <3>0, <4>1, <4>2, <4>3
    <3> QED
      BY <3>1, <3>2
  <2> QED
    BY <2>1, <2>3 DEF MovesAreSeen, Begun, Tested
<1>3. ASSUME NEW cells, Changes(cells), rows # <<>>,
             UNCHANGED <<rows, before, test, report>>,
             phase' \in Begun => phase \in Begun,
             phase' \in Tested => phase \in Tested,
             phase' \in {"restore", "verify"} =>
               phase \in {"restore", "verify"}
      PROVE  MovesAreSeen'
  <2>1. Row.cells \in Seq(Cells) /\ Row' = Row
    BY <1>1, <1>3, RowIsRow DEF Row, Rows
  <2>2. ASSUME NEW i \in DOMAIN Row.cells, phase' \in Begun,
               mem'[Row.cells[i]] # before[i]
        PROVE  Row.cells[i] \in moved'
    <3>1. Row.cells[i] \in Cells
      BY <2>1
    <3>2. mem[Row.cells[i]] # before[i] => Row.cells[i] \in moved
      BY <1>1, <1>3, <2>2 DEF MovesAreSeen
    <3> QED
      BY <1>3, <2>2, <3>1, <3>2 DEF Changes
  <2>3. OkHasMoved'
    BY <1>1, <1>3 DEF MovesAreSeen, OkHasMoved
  <2> QED
    BY <1>1, <1>3, <2>1, <2>2, <2>3 DEF MovesAreSeen, Changes
<1>4. ASSUME RowWrites PROVE MovesAreSeen'
  <2>1. /\ phase \in Tested
        /\ phase' \in {"readback", "failed", "judge", "finally", "verify",
                       "record"}
        /\ phase' \in {"restore", "verify"} => phase = "restore"
    BY <1>4 DEF RowWrites, ProbeWrites, LabelWrites, ProbeRestores, Finally,
                GoesTo, Tested, Begun
  <2> QED
    BY <1>3, <1>4, <2>1, RowWriteIs DEF Tested, Begun
<1>5. ASSUME LateWrite PROVE MovesAreSeen'
  <2>1. PICK w \in overdue : Changes(w.cells)
    BY <1>5, LateWriteIs
  <2>2. UNCHANGED <<rows, before, test, report, phase>>
    BY <1>5, LateWriteIs
  <2>3. CASE rows # <<>>
    BY <1>3, <2>1, <2>2, <2>3
  <2>4. CASE rows = <<>>
    BY <1>1, <2>2, <2>4
       DEF MovesAreSeen, OkHasMoved, RowHolds, Begun, Tested
  <2> QED
    BY <2>3, <2>4
<1>6. ASSUME Others PROVE MovesAreSeen'
  <2>1. /\ rows # <<>> /\ Row.cells \in Seq(Cells)
        /\ UNCHANGED <<report, mem>>
        /\ ReadBefore \/ moved' = moved
        /\ Quit \/ rows' = rows
    BY <1>6, OthersAre
  <2>2. OkHasMoved'
    BY <1>1, <2>1 DEF MovesAreSeen, OkHasMoved
  <2>3. CASE ReadBefore
    <3>1. /\ before' = Read(Row.cells) /\ rows' = rows
          /\ phase' \in {"ask", "choose"}
      BY <2>3 DEF ReadBefore, GoesTo
    <3>2. \A i \in DOMAIN Row.cells : mem'[Row.cells[i]] = before'[i]
      BY <2>1, <3>1 DEF Read
    <3> QED
      BY <2>2, <3>1, <3>2 DEF MovesAreSeen, Tested, Begun, Row
  <2>4. CASE Quit
    <3>1. phase' = "quit"
      BY <2>4 DEF Quit
    <3> QED
      BY <2>2, <3>1 DEF MovesAreSeen, Tested, Begun
  <2>5. CASE Choose
    <3>1. /\ phase = "choose" /\ phase' = "write"
          /\ test' = ProbeValues(before) /\ UNCHANGED <<rows, before, moved>>
      BY <2>5 DEF Choose, GoesTo, PlcRests
    <3>2. \A i \in DOMAIN Row.cells : test'[i] # before[i]
      BY <1>1, <2>1, <3>1, TestValues DEF RowHolds, Begun
    <3> QED
      BY <1>1, <2>1, <2>2, <3>1, <3>2 DEF MovesAreSeen, Tested, Begun, Row
  <2>6. CASE ReadBack /\ phase' = "restore"
    <3>1. /\ phase = "readback" /\ Read(Row.cells) = test
          /\ UNCHANGED <<rows, before, test, moved>>
      BY <2>6 DEF ReadBack, Record, GoesTo, PlcRests
    <3>2. Row.kind = "span"
      BY <1>1, <3>1 DEF RowHolds
    <3>3. ASSUME NEW i \in DOMAIN Row.cells PROVE Row.cells[i] \in moved
      <4>1. test[i] # before[i] /\ mem[Row.cells[i]] = test[i]
        BY <1>1, <3>1, <3>2 DEF MovesAreSeen, Tested, Begun, Read
      <4> QED
        BY <1>1, <3>1, <4>1 DEF MovesAreSeen, Begun
    <3>4. Range(Row.cells) \subseteq moved
      BY <3>3 DEF Range
    <3> QED
      BY <1>1, <2>1, <2>2, <2>6, <3>1, <3>4
         DEF MovesAreSeen, Tested, Begun, Row
  <2>7. CASE Ask /\ phase' = "write"
    <3>1. /\ phase = "ask" /\ UNCHANGED <<rows, before, moved>>
      BY <2>7 DEF Ask, Record, GoesTo, PlcRests
    <3>2. Row.kind = "label"
      BY <1>1, <3>1 DEF RowHolds
    <3> QED
      BY <1>1, <2>1, <2>2, <2>7, <3>1, <3>2
         DEF MovesAreSeen, Tested, Begun, Row
  <2>8. CASE ReadFails \/ Judge \/ (Finally /\ mode = "keep")
    <3>1. /\ UNCHANGED <<rows, before, test, moved>>
          /\ \/ phase' = "failed"
             \/ phase \in Tested /\ phase' \in {"finally", "record"}
      BY <2>8 DEF ReadFails, Judge, Finally, GoesTo, PlcRests, Tested, Begun
    <3> QED
      BY <1>1, <2>1, <2>2, <3>1 DEF MovesAreSeen, Tested, Begun, Row
  <2> QED
    BY <1>6, <2>3, <2>4, <2>5, <2>6, <2>7, <2>8 DEF Others
<1> QED
  BY <1>2, <1>4, <1>5, <1>6, Steps

(* A row that is recorded NG flags its words. *)
LEMMA FlagsGrow ==
  ASSUME RowTyped, NEW status, report' = Append(report, Entered(status)),
         Entered(status) \in ReportRows
  PROVE  /\ Flagged \subseteq Flagged'
         /\ status = "NG" => Range(Row.cells) \cap Cells \subseteq Flagged'
<1>1. /\ Len(report) + 1 \in DOMAIN report'
      /\ report'[Len(report) + 1] = Entered(status)
      /\ \A i \in DOMAIN report : i \in DOMAIN report'
                                  /\ report'[i] = report[i]
  BY Appended DEF RowTyped
<1>2. Flagged \subseteq Flagged'
  BY <1>1 DEF Flagged
<1>3. Entered(status).status = status /\ Entered(status).cells = Row.cells
  BY DEF Entered
<1> QED
  BY <1>1, <1>2, <1>3 DEF Flagged

(* Every step of a tool that restores keeps the changed words accounted    *)
(* for: each is flagged, or the row in hand has yet to restore it.         *)
LEMMA RestoringStep ==
  ASSUME ToolIInv, ToolNext
  PROVE  Restoring'
<1> SUFFICES ASSUME mode' = "restore", phase' # "quit" PROVE Restoring'
  BY DEF Restoring
<1>1. RowTyped /\ MemoryTyped /\ RowHolds /\ Restoring
  BY DEF ToolIInv
<1>2. ASSUME NEW status, Records(status) PROVE Restoring'
  <2>1. /\ rows # <<>> /\ Row.cells \in Seq(Cells)
        /\ phase \in Begun \cup {"failed"}
        /\ status # "NG" => ~Doomed
        /\ report' = Append(report, Entered(status))
        /\ Entered(status) \in ReportRows
        /\ phase' = "read" /\ verdict' = "none"
        /\ UNCHANGED <<mode, nature, origin, mem, overdue>>
    BY <1>2, RecordIs DEF ToolIInv
  <2>2. Flagged \subseteq Flagged'
        /\ (status = "NG" => Range(Row.cells) \cap Cells \subseteq Flagged')
    BY <1>1, <2>1, FlagsGrow
  <2>3. InHand = Range(Row.cells) /\ phase # "quit" /\ mode = "restore"
    BY <2>1 DEF InHand, Begun
  <2>4. ASSUME NEW c \in Cells, mem'[c] # origin'[c] PROVE c \in Flagged'
    <3>1. c \in Flagged \/ (c \in InHand /\ ~Settled)
      BY <1>1, <2>1, <2>3, <2>4 DEF Restoring
    <3>2. ASSUME c \in Range(Row.cells), ~Settled, status # "NG"
          PROVE  c \in Flagged
      <4>1. phase = "verify" /\ Read(Row.cells) = before
        BY <1>2, <2>1, <2>3, <3>2
           DEF Records, Settled, Abandon, ReadOnly, Verify, RecordLabel
      <4>2. PICK i \in DOMAIN Row.cells : Row.cells[i] = c
        BY <3>2 DEF Range
      <4>3. before[i] = mem[c]
        BY <4>1, <4>2 DEF Read
      <4>4. before[i] = origin[c] \/ c \in Flagged
        BY <1>1, <2>3, <4>1, <4>2 DEF Restoring, Begun
      <4> QED
        BY <2>1, <2>4, <4>3, <4>4
    <3> QED
      BY <2>2, <2>3, <3>1, <3>2
  <2>5. ASSUME NEW w \in overdue', NEW i \in DOMAIN w.cells
        PROVE  w.cells[i] \in Flagged'
    <3>1. w \in overdue /\ w.cells \in Seq(Cells)
      BY <1>1, <2>1 DEF MemoryTyped
    <3>2. w.cells[i] \in Cells
      BY <3>1
    <3>3. w.cells[i] \in Flagged \/ (w.cells[i] \in InHand /\ Doomed)
      BY <1>1, <2>3, <3>1 DEF Restoring
    <3> QED
      BY <2>1, <2>2, <2>3, <3>2, <3>3
  <2> QED
    BY <2>1, <2>4, <2>5 DEF Restoring, Begun
<1>3. ASSUME RowWrites PROVE Restoring'
  <2>1. /\ rows # <<>> /\ Row.cells \in Seq(Cells)
        /\ UNCHANGED <<rows, mode, report, nature, origin, before, test>>
        /\ Changes(Row.cells)
        /\ \/ overdue' = overdue
           \/ /\ overdue' = overdue \cup {[cells |-> Row.cells,
                                     values |-> WrittenNow]}
              /\ Doomed'
        /\ \/ \A c \in Range(Row.cells) :
                \E i \in DOMAIN Row.cells :
                  /\ Row.cells[i] = c
                  /\ mem'[c] = Stored(c, WrittenNow[i])
           \/ Doomed'
    BY <1>3, RowWriteIs DEF Rows
  <2>2. /\ phase \in Tested /\ phase # "quit" /\ mode = "restore"
        /\ phase' \in {"readback", "failed", "judge", "finally", "verify",
                       "record"}
        /\ phase' = "record" => phase = "finally"
        /\ Doomed => Doomed'
    BY <1>3, <2>1 DEF RowWrites, ProbeWrites, LabelWrites, ProbeRestores,
                      Finally, GoesTo, Tested, Begun, Doomed
  <2>3. Flagged' = Flagged /\ InHand' = InHand /\ InHand = Range(Row.cells)
    BY <2>1 DEF Flagged, InHand, Row
  <2>4. \A i \in DOMAIN Row.cells :
          before[i] = origin[Row.cells[i]] \/ Row.cells[i] \in Flagged
    BY <1>1, <2>2 DEF Restoring, Tested
  <2>5. ASSUME NEW c \in Cells, mem'[c] # origin[c]
        PROVE  c \in Flagged \/ (c \in InHand /\ ~Settled')
    <3>1. CASE c \notin InHand
      <4>1. mem'[c] = mem[c]
        BY <2>1, <2>3, <3>1 DEF Changes
      <4> QED
        BY <1>1, <2>2, <2>5, <3>1, <4>1 DEF Restoring
    <3>2. CASE c \in InHand /\ Settled'
      <4>1. phase = "finally" /\ ~Doomed'
        BY <2>2, <3>2 DEF Settled
      <4>2. PICK i \in DOMAIN Row.cells :
              Row.cells[i] = c /\ mem'[c] = Stored(c, WrittenNow[i])
        BY <2>1, <2>3, <3>2, <4>1
      <4>3. WrittenNow = before
        BY <4>1 DEF WrittenNow
      <4>4. before[i] \in Values
        BY <1>1, <2>2 DEF RowHolds, Tested, Fits
      <4>5. before[i] = origin[c] => mem'[c] = origin[c]
        BY <1>1, <4>2, <4>3, <4>4, StoredIs
      <4> QED
        BY <2>4, <2>5, <4>2, <4>5
    <3> QED
      BY <3>1, <3>2
  <2>6. ASSUME NEW w \in overdue', NEW i \in DOMAIN w.cells
        PROVE  w.cells[i] \in Flagged \/ (w.cells[i] \in InHand /\ Doomed')
    <3>1. CASE w \in overdue
      BY <1>1, <2>2, <3>1 DEF Restoring
    <3>2. CASE w \notin overdue
      <4>1. w.cells = Row.cells /\ Doomed'
        BY <2>1, <3>2
      <4> QED
        BY <2>3, <4>1 DEF Range
    <3> QED
      BY <3>1, <3>2
  <2>7. Row' = Row /\ before' = before /\ origin' = origin
    BY <2>1 DEF Row
  <2> QED
    BY <2>3, <2>4, <2>5, <2>6, <2>7 DEF Restoring
<1>4. ASSUME LateWrite PROVE Restoring'
  <2>1. PICK w \in overdue : Changes(w.cells) /\ overdue' = overdue \ {w}
    BY <1>4, LateWriteIs
  <2>2. UNCHANGED <<rows, mode, phase, before, test, verdict, report,
                    nature, origin, failed>>
    BY <1>4, LateWriteIs
  <2>3. /\ Flagged' = Flagged /\ InHand' = InHand /\ Row' = Row
        /\ Doomed' = Doomed /\ Settled' = Settled
    BY <2>2 DEF Flagged, InHand, Row, Doomed, Settled
  <2>4. ASSUME NEW c \in Cells, mem'[c] # origin[c]
        PROVE  c \in Flagged \/ (c \in InHand /\ ~Settled)
    <3>1. CASE mem'[c] = mem[c]
      BY <1>1, <2>2, <2>4, <3>1 DEF Restoring
    <3>2. CASE mem'[c] # mem[c]
      <4>1. PICK i \in DOMAIN w.cells : w.cells[i] = c
        BY <2>1, <3>2 DEF Changes, Range
      <4>2. c \in Flagged \/ (c \in InHand /\ Doomed)
        BY <1>1, <2>1, <2>2, <4>1 DEF Restoring
      <4>3. Doomed => ~Settled
        BY DEF Doomed, Settled
      <4> QED
        BY <4>2, <4>3
    <3> QED
      BY <3>1, <3>2
  <2> QED
    BY <1>1, <2>1, <2>2, <2>3, <2>4 DEF Restoring
<1>5. ASSUME Others PROVE Restoring'
  <2>1. /\ UNCHANGED <<mode, report, nature, origin, mem, overdue>>
        /\ rows # <<>> /\ Row.cells \in Seq(Cells)
        /\ rows' = rows
    BY <1>5, OthersAre DEF Quit
  <2>2. /\ Flagged' = Flagged /\ InHand' = InHand /\ Row' = Row
        /\ InHand = Range(Row.cells)
    BY <2>1 DEF Flagged, InHand, Row
  <2>3. CASE ReadBefore
    <3>1. /\ phase = "read" /\ phase' \in {"ask", "choose"}
          /\ before' = Read(Row.cells)
      BY <2>3 DEF ReadBefore, GoesTo
    <3>2. Settled /\ Settled' /\ ~Doomed
      BY <3>1 DEF Settled, Doomed
    <3>3. ASSUME NEW i \in DOMAIN Row.cells
          PROVE  before'[i] = origin[Row.cells[i]]
                 \/ Row.cells[i] \in Flagged
      <4>1. before'[i] = mem[Row.cells[i]] /\ Row.cells[i] \in Cells
        BY <2>1, <3>1 DEF Read
      <4> QED
        BY <1>1, <2>1, <3>1, <3>2, <4>1 DEF Restoring
    <3> QED
      BY <1>1, <2>1, <2>2, <3>1, <3>2, <3>3 DEF Restoring
  <2>4. CASE ~ReadBefore
    <3>1. /\ phase # "quit"
          /\ before' = before
          /\ Settled' => Settled
          /\ Doomed => Doomed'
          /\ phase' \in Begun => phase \in Begun
      <4>1. CASE ReadFails \/ Choose
        BY <4>1 DEF ReadFails, Choose, GoesTo, Settled, Doomed, Begun
      <4>2. CASE Judge \/ Quit
        BY <4>2 DEF Judge, Quit, GoesTo, Settled, Doomed, Begun
      <4>3. CASE (ReadBack /\ phase' = "restore") \/ (Ask /\ phase' = "write")
        BY <4>3 DEF ReadBack, Ask, Record, GoesTo, Settled, Doomed, Begun
      <4> QED
        BY <1>5, <2>1, <2>4, <4>1, <4>2, <4>3 DEF Others
    <3> QED
      BY <1>1, <2>1, <2>2, <3>1 DEF Restoring
  <2> QED
    BY <2>3, <2>4
<1> QED
  BY <1>2, <1>3, <1>4, <1>5, Steps

(* Every step of a label verification without failures does so, too.       *)
LEMMA UndoingStep ==
  ASSUME ToolIInv, ToolNext
  PROVE  Undoing'
<1> SUFFICES ASSUME mode' = "restore", ~failed', OnlyLabels' PROVE Undoing'
  BY DEF Undoing
<1>1. RowTyped /\ MemoryTyped /\ RowHolds /\ Undoing
  BY DEF ToolIInv
<1>2. ASSUME NEW status, Records(status) PROVE Undoing'
  <2>1. /\ rows # <<>>
        /\ phase \in Begun \cup {"failed"}
        /\ report' = Append(report, Entered(status))
        /\ Entered(status) \in ReportRows
        /\ phase' = "read"
        /\ UNCHANGED <<mode, origin, mem, failed>>
    BY <1>2, RecordIs
  <2>2. /\ Len(report) + 1 \in DOMAIN report'
        /\ report'[Len(report) + 1] = Entered(status)
        /\ \A i \in DOMAIN report : i \in DOMAIN report'
                                    /\ report'[i] = report[i]
    BY <1>1, <2>1, Appended DEF RowTyped
  <2>3. Row.kind = "label" /\ OnlyLabels
    <3>1. Entered(status).kind = Row.kind
      BY DEF Entered
    <3> QED
      BY <2>2, <3>1 DEF OnlyLabels
  <2>4. phase \notin {"judge", "finally"}
    BY <1>2 DEF Records, Abandon, ReadOnly, Verify, RecordLabel
  <2>5. mem = origin
    BY <1>1, <2>1, <2>3, <2>4 DEF Undoing
  <2> QED
    BY <2>1, <2>5 DEF Undoing, Begun
<1>3. ASSUME RowWrites PROVE Undoing'
  <2>1. /\ rows # <<>> /\ Row \in Rows
        /\ UNCHANGED <<rows, mode, report, nature, origin, before>>
        /\ Changes(Row.cells)
        /\ ~failed
        /\ \A c \in Range(Row.cells) :
             \E i \in DOMAIN Row.cells :
               /\ Row.cells[i] = c
               /\ mem'[c] = Stored(c, WrittenNow[i])
    BY <1>3, RowWriteIs
  <2>2. /\ phase \in Tested
        /\ phase' \in Begun \cup {"failed"}
        /\ phase' \in {"readback", "failed", "judge", "finally", "verify"}
           \/ (phase' = "record" /\ phase = "finally")
        /\ phase' \in {"readback", "failed", "verify"} => Row.kind = "span"
    BY <1>1, <1>3 DEF RowWrites, ProbeWrites, LabelWrites, ProbeRestores,
                      Finally, GoesTo, Tested, Begun, RowHolds
  <2>3. Row' = Row /\ InHand' = InHand /\ InHand = Range(Row.cells)
    BY <2>1 DEF Row, InHand
  <2>4. Row.kind = "label" /\ OnlyLabels
    BY <2>1, <2>2, <2>3 DEF OnlyLabels, Begun
  <2>5. /\ \A i \in DOMAIN Row.cells : before[i] = origin[Row.cells[i]]
        /\ \A c \in Cells : mem[c] # origin[c] => c \in InHand
    BY <1>1, <2>1, <2>2, <2>4 DEF Undoing, Tested
  <2>6. \A c \in Cells : mem'[c] # origin[c] => c \in InHand
    BY <2>1, <2>3, <2>5 DEF Changes
  <2>7. ASSUME phase' \notin {"judge", "finally"} PROVE mem' = origin
    <3>1. phase = "finally" /\ WrittenNow = before
      BY <2>2, <2>4, <2>7 DEF WrittenNow
    <3>2. ASSUME NEW c \in Cells PROVE mem'[c] = origin[c]
      <4>1. CASE c \in Range(Row.cells)
        <5>1. PICK i \in DOMAIN Row.cells :
                Row.cells[i] = c /\ mem'[c] = Stored(c, before[i])
          BY <2>1, <3>1, <4>1
        <5>2. before[i] = origin[c] /\ before[i] \in Values
          BY <1>1, <2>2, <2>5, <5>1 DEF RowHolds, Tested, Fits
        <5> QED
          BY <1>1, <5>1, <5>2, StoredIs
      <4>2. CASE c \notin Range(Row.cells)
        BY <2>3, <2>6, <4>2
      <4> QED
        BY <4>1, <4>2
    <3> QED
      BY <1>1, <2>1, <3>2 DEF MemoryTyped, Changes
  <2> QED
    BY <2>1, <2>3, <2>5, <2>6, <2>7 DEF Undoing
<1>4. ASSUME LateWrite PROVE Undoing'
  BY <1>1, <1>4, LateWriteIs DEF RowHolds, LateWrite
<1>5. ASSUME Others PROVE Undoing'
  <2>1. /\ UNCHANGED <<mode, report, origin, mem>>
        /\ rows # <<>> /\ Row \in Rows /\ Row.cells \in Seq(Cells)
        /\ ~failed
        /\ Quit \/ rows' = rows
    BY <1>5, OthersAre
  <2>2. CASE ReadBefore
    <3>1. /\ phase = "read" /\ phase' \in {"ask", "choose"}
          /\ before' = Read(Row.cells) /\ rows' = rows
      BY <2>2 DEF ReadBefore, GoesTo
    <3>2. OnlyLabels
      BY <2>1, <3>1 DEF OnlyLabels
    <3>3. mem = origin
      BY <1>1, <2>1, <3>1, <3>2 DEF Undoing
    <3>4. \A i \in DOMAIN Row.cells : before'[i] = origin[Row.cells[i]]
      BY <3>1, <3>3 DEF Read
    <3> QED
      BY <2>1, <3>1, <3>3, <3>4 DEF Undoing, Row
  <2>3. CASE Quit
    <3>1. /\ phase = "record" /\ phase' = "quit"
      BY <2>3 DEF Quit
    <3>2. OnlyLabels
      BY <1>1, <2>1, <3>1 DEF OnlyLabels, RowHolds
    <3>3. mem = origin
      BY <1>1, <2>1, <3>1, <3>2 DEF Undoing
    <3> QED
      BY <2>1, <3>1, <3>3 DEF Undoing, Begun
  <2>4. CASE Judge \/ (Ask /\ phase' = "write")
    <3>1. /\ UNCHANGED <<rows, before>>
          /\ phase \in {"ask", "judge"}
          /\ phase = "ask" => phase' = "write"
          /\ phase = "judge" => phase' = "finally"
      BY <2>4 DEF Judge, Ask, Record, GoesTo, PlcRests
    <3>2. OnlyLabels
      BY <1>1, <2>1, <3>1 DEF OnlyLabels, RowHolds
    <3> QED
      BY <1>1, <2>1, <3>1, <3>2 DEF Undoing, Begun, InHand, Row
  <2>5. CASE Choose \/ (ReadBack /\ phase' = "restore")
    <3>1. /\ rows' = rows /\ phase \in {"choose", "readback"}
          /\ phase' \in {"write", "restore"}
      BY <2>5 DEF Choose, ReadBack, Record, GoesTo, PlcRests
    <3>2. Row.kind = "span"
      BY <1>1, <3>1 DEF RowHolds
    <3> QED
      BY <2>1, <3>1, <3>2 DEF OnlyLabels, Row
  <2>6. ~ReadFails /\ ~(Finally /\ mode = "keep")
    BY <2>1 DEF ReadFails
  <2> QED
    BY <1>5, <2>2, <2>3, <2>4, <2>5, <2>6 DEF Others
<1> QED
  BY <1>2, <1>3, <1>4, <1>5, Steps

(* A tool begins with everything as it is. *)
LEMMA ToolInitHolds == ToolInit => ToolIInv
<1> SUFFICES ASSUME ToolInit PROVE ToolIInv
  OBVIOUS
<1>1. RowTyped
  <2>1. rows \in Seq(Rows) /\ report \in Seq(ReportRows)
        /\ moved \subseteq Cells
    <3>1. <<>> \in Seq(ReportRows)
      OBVIOUS
    <3> QED
      BY <3>1, WriteProbesAssumption DEF ToolInit
  <2>2. mode \in {"read_only", "restore", "keep"}
    BY DEF ToolInit
  <2> QED
    BY <2>1, <2>2 DEF ToolInit, RowTyped
<1>2. MemoryTyped
  BY DEF ToolInit, MemoryTyped
<1>3. RowHolds
  BY DEF ToolInit, RowHolds, Begun, Tested
<1>4. MovesAreSeen /\ Restoring /\ Undoing
  BY DEF ToolInit, MovesAreSeen, OkHasMoved, Restoring, Undoing, Begun, Tested
<1> QED
  BY <1>1, <1>2, <1>3, <1>4 DEF ToolIInv

(* The invariant holds in every state of a tool. *)
THEOREM ToolInvariant == ToolSpec => []ToolIInv
<1>1. ASSUME ToolIInv, UNCHANGED toolVars PROVE ToolIInv'
  BY <1>1 DEF ToolIInv, toolVars, RowTyped, MemoryTyped, RowHolds,
              MovesAreSeen, OkHasMoved, Restoring, Undoing, Row, Flagged,
              Doomed, Settled, InHand, OnlyLabels, Fits, Values
<1>2. ToolIInv /\ [ToolNext]_toolVars => ToolIInv'
  BY <1>1, RowTypedStep, MemoryTypedStep, RowHoldsStep, MovesStep,
     RestoringStep, UndoingStep DEF ToolIInv
<1> QED
  BY <1>2, ToolInitHolds, PTL DEF ToolSpec

(* Whatever rows a tool is given, whatever the words make of a write, and  *)
(* wherever an exchange fails: a word that a tool that restores has left   *)
(* changed is in a row that is NG, a probe that is OK has seen its words   *)
(* move, and labels are undone when nothing fails (cli.py).                *)
THEOREM HonestTools == ToolSpec => []ToolsAreHonest
<1>1. ToolIInv => ToolsAreHonest
  <2> SUFFICES ASSUME ToolIInv PROVE ToolsAreHonest
    OBVIOUS
  <2>1. ChangedIsReported
    BY DEF ToolIInv, Restoring, ChangedIsReported, Flagged
  <2>2. LabelsAreUndone
    <3>1. rows = <<>> => phase \notin {"judge", "finally"}
      BY DEF ToolIInv, RowHolds, Begun
    <3> QED
      BY <3>1 DEF ToolIInv, Undoing, OnlyLabels, LabelsAreUndone
  <2> QED
    BY <2>1, <2>2 DEF ToolIInv, MovesAreSeen, ToolsAreHonest
<1> QED
  BY <1>1, ToolInvariant, PTL
-----------------------------------------------------------------------------
(* Addresses.                                                              *)

(* The letters of device codes.                                            *)
Letters ==
  {"S", "M", "X", "Y", "L", "F", "V", "B", "T", "C", "D", "W", "N", "Z", "R",
   "G", "H"}

(* The digits of each radix.                                               *)
LEMMA DigitsAre ==
  /\ DigitsOf(8) = {"0", "1", "2", "3", "4", "5", "6", "7"}
  /\ DigitsOf(10) = DigitsOf(8) \cup {"8", "9"}
  /\ DigitsOf(16) = DigitsOf(10) \cup {"A", "B", "C", "D", "E", "F"}
<1>1. /\ 1..8 = {1, 2, 3, 4, 5, 6, 7, 8}
      /\ 1..10 = 1..8 \cup {9, 10}
      /\ 1..16 = 1..10 \cup {11, 12, 13, 14, 15, 16}
  OBVIOUS
<1>2. DigitsOf(8) = {"0", "1", "2", "3", "4", "5", "6", "7"}
  BY <1>1 DEF DigitsOf, Digits
<1>3. DigitsOf(10) = DigitsOf(8) \cup {Digits[i] : i \in {9, 10}}
  BY <1>1 DEF DigitsOf
<1>4. DigitsOf(16) = DigitsOf(10) \cup
                       {Digits[i] : i \in {11, 12, 13, 14, 15, 16}}
  BY <1>1 DEF DigitsOf
<1>5. {Digits[i] : i \in {9, 10}} = {"8", "9"}
  BY DEF Digits
<1>6. {Digits[i] : i \in {11, 12, 13, 14, 15, 16}}
        = {"A", "B", "C", "D", "E", "F"}
  BY DEF Digits
<1> QED BY <1>2, <1>3, <1>4, <1>5, <1>6

(* No two digits are the same, so each has its value.                      *)
LEMMA ValueIs ==
  ASSUME NEW k \in 1..16
  PROVE  ValueOf(Digits[k]) = k - 1
<1>1. ASSUME NEW i \in 1..16, NEW j \in 1..16, Digits[i] = Digits[j]
      PROVE  i = j
  BY <1>1, SMTT(60) DEF Digits
<1> QED BY <1>1 DEF ValueOf

LEMMA CodesAre ==
  ASSUME NEW c \in Codes
  PROVE  c \in Seq(Letters) /\ Len(c) \in 1..4
<1> DEFINE
      One == c[1] \in Letters /\ c = <<c[1]>>
      Two == c[1] \in Letters /\ c[2] \in Letters /\ c = <<c[1], c[2]>>
      Three ==
        /\ c[1] \in Letters /\ c[2] \in Letters /\ c[3] \in Letters
        /\ c = <<c[1], c[2], c[3]>>
      Four ==
        /\ c[1] \in Letters /\ c[2] \in Letters
        /\ c[3] \in Letters /\ c[4] \in Letters
        /\ c = <<c[1], c[2], c[3], c[4]>>
<1>1. ASSUME c \in BitDevices PROVE One \/ Two \/ Three \/ Four
  BY <1>1, SMTT(60) DEF BitDevices, Letters
<1>2. ASSUME c \in WordDevices PROVE One \/ Two \/ Three \/ Four
  BY <1>2, SMTT(60) DEF WordDevices, Letters
<1>3. CASE One
  <2> DEFINE a == c[1]
  <2>1. a \in Letters
        /\ c = <<a>>
    BY <1>3
  <2> HIDE DEF a
  <2> QED BY <2>1
<1>4. CASE Two
  <2> DEFINE a == c[1]  b == c[2]
  <2>1. a \in Letters /\ b \in Letters
        /\ c = <<a, b>>
    BY <1>4
  <2> HIDE DEF a, b
  <2> QED BY <2>1
<1>5. CASE Three
  <2> DEFINE a == c[1]  b == c[2]  d == c[3]
  <2>1. a \in Letters /\ b \in Letters /\ d \in Letters
        /\ c = <<a, b, d>>
    BY <1>5
  <2> HIDE DEF a, b, d
  <2> QED BY <2>1
<1>6. CASE Four
  <2> DEFINE a == c[1]  b == c[2]  d == c[3]  e == c[4]
  <2>1. a \in Letters /\ b \in Letters /\ d \in Letters /\ e \in Letters
        /\ c = <<a, b, d, e>>
    BY <1>6
  <2> HIDE DEF a, b, d, e
  <2> QED BY <2>1
<1> HIDE DEF One, Two, Three, Four
<1> QED BY <1>1, <1>2, <1>3, <1>4, <1>5, <1>6 DEF Codes

LEMMA HexDevicesEnd ==
  ASSUME NEW c \in Codes
  PROVE  /\ c[1] = "X" => c = <<"X">>
         /\ c[1] = "Y" => c = <<"Y">>
         /\ c[1] = "B" => c = <<"B">>
         /\ c[1] = "W" => c = <<"W">>
         /\ c[1] = "S" /\ Len(c) > 1 /\ c[2] = "B" => c = <<"S", "B">>
         /\ c[1] = "S" /\ Len(c) > 1 /\ c[2] = "W" => c = <<"S", "W">>
         /\ c[1] = "D" /\ Len(c) > 1 /\ c[2] = "X" => c = <<"D", "X">>
         /\ c[1] = "D" /\ Len(c) > 1 /\ c[2] = "Y" => c = <<"D", "Y">>
<1>1. ASSUME c \in BitDevices
      PROVE  /\ c[1] \in {"X", "Y", "B", "W"} => c = <<c[1]>>
  BY <1>1, SMTT(60) DEF BitDevices
<1>2. ASSUME c \in WordDevices
      PROVE  /\ c[1] \in {"X", "Y", "B", "W"} => c = <<c[1]>>
  BY <1>2, SMTT(60) DEF WordDevices
<1>3. ASSUME c \in BitDevices, Len(c) > 1, c[1] \in {"S", "D"},
             c[2] \in {"B", "W", "X", "Y"}
      PROVE  c = <<c[1], c[2]>>
  BY <1>3, SMTT(60) DEF BitDevices
<1>4. ASSUME c \in WordDevices, Len(c) > 1, c[1] \in {"S", "D"},
             c[2] \in {"B", "W", "X", "Y"}
      PROVE  c = <<c[1], c[2]>>
  BY <1>4, SMTT(60) DEF WordDevices
<1> QED BY <1>1, <1>2, <1>3, <1>4 DEF Codes

(* The numbers of a text of digits, one digit after another.               *)
Counts(v, digits, radix) ==
  /\ v[0] = 0
  /\ \A i \in 1..Len(digits) :
       v[i] = radix * v[i - 1] + ValueOf(digits[i])

LEMMA NumberFacts ==
  ASSUME NEW S, NEW digits \in Seq(S), NEW radix
  PROVE  \E v : Counts(v, digits, radix)
                /\ Number(digits, radix) = v[Len(digits)]
<1> DEFINE Body(f, n) == IF n = 0 THEN 0
                         ELSE radix * f[n - 1] + ValueOf(digits[n])
           Is(f, n) == f = [m \in 0..n |-> Body(f, m)]
           G == {n \in Nat : \E f : Is(f, n)}
<1>0. Len(digits) \in Nat
  OBVIOUS
<1>1. 0 \in G
  <2>1. Is([m \in 0..0 |-> 0], 0)
    OBVIOUS
  <2> HIDE DEF Is
  <2> QED BY <2>1
<1>2. ASSUME NEW n \in 1..Len(digits), n - 1 \in G PROVE n \in G
  <2>0. n \in Nat /\ n - 1 \in Nat
    BY <1>0
  <2>1. PICK f : Is(f, n - 1)
    BY <1>2
  <2> DEFINE g == [m \in 0..n |-> IF m = n THEN Body(f, n) ELSE f[m]]
  <2>2. ASSUME NEW m \in 0..n PROVE g[m] = Body(g, m)
    <3>1. CASE m = n
      BY <3>1, <2>0
    <3>2. CASE m # n
      <4>1. m \in 0..(n - 1) /\ g[m] = f[m]
        BY <3>2, <2>0
      <4>2. f[m] = Body(f, m)
        BY <2>1, <4>1
      <4>3. m # 0 => m - 1 \in 0..n /\ m - 1 # n
        BY <4>1, <2>0
      <4>4. Body(g, m) = Body(f, m)
        BY <4>3
      <4> QED BY <4>1, <4>2, <4>4
    <3> QED BY <3>1, <3>2
  <2>3. Is(g, n)
    BY <2>2
  <2> HIDE DEF Is, g
  <2> QED BY <2>0, <2>3
<1>3. Len(digits) \in G
  <2> HIDE DEF G
  <2>1. 0..Len(digits) \subseteq G
    BY <1>0, <1>1, <1>2, UpTo
  <2> QED BY <1>0, <2>1
<1> DEFINE upTo == CHOOSE f : Is(f, Len(digits))
<1>4. Is(upTo, Len(digits))
  <2>2. \E f : Is(f, Len(digits))
    BY <1>3
  <2> HIDE DEF Is
  <2> QED BY <2>2
<1>5. \A n \in 0..Len(digits) : upTo[n] = Body(upTo, n)
  <2> HIDE DEF Next, upTo
  <2> QED BY <1>4
<1>6. Number(digits, radix) = upTo[Len(digits)]
  BY DEF Number
<1>7. Counts(upTo, digits, radix)
  <2> HIDE DEF upTo
  <2>1. \A i \in 1..Len(digits) : i # 0 /\ i \in 0..Len(digits)
    BY <1>0
  <2> QED BY <1>0, <1>5, <2>1 DEF Counts
<1> HIDE DEF upTo
<1> QED BY <1>6, <1>7

(* Nothing else counts as they do.                                         *)
LEMMA NumberIs ==
  ASSUME NEW S, NEW digits \in Seq(S), NEW radix, NEW v,
         Counts(v, digits, radix)
  PROVE  Number(digits, radix) = v[Len(digits)]
<1>0. Len(digits) \in Nat
  OBVIOUS
<1>1. PICK w : Counts(w, digits, radix)
               /\ Number(digits, radix) = w[Len(digits)]
  BY NumberFacts
<1> DEFINE G == {n \in 0..Len(digits) : v[n] = w[n]}
<1>2. 0 \in G
  BY <1>0, <1>1 DEF Counts
<1>3. ASSUME NEW m \in 1..Len(digits), m - 1 \in G PROVE m \in G
  BY <1>0, <1>1, <1>3 DEF Counts
<1>4. 0..Len(digits) \subseteq G
  <2> HIDE DEF G
  <2> QED BY <1>0, <1>2, <1>3, UpTo
<1> QED BY <1>0, <1>1, <1>4

LEMMA OneMoreDigit ==
  ASSUME NEW S, NEW digits \in Seq(S), NEW d \in S, NEW radix
  PROVE  Number(Append(digits, d), radix)
           = radix * Number(digits, radix) + ValueOf(d)
<1> DEFINE longer == Append(digits, d)
<1>1. /\ longer \in Seq(S) /\ Len(longer) = Len(digits) + 1
      /\ longer[Len(digits) + 1] = d /\ Len(digits) \in Nat
      /\ \A i \in 1..Len(digits) : longer[i] = digits[i]
  OBVIOUS
<1> HIDE DEF longer
<1>2. PICK v : Counts(v, longer, radix)
               /\ Number(longer, radix) = v[Len(longer)]
  BY <1>1, NumberFacts
<1>3. Counts(v, digits, radix)
  <2>1. \A i \in 1..Len(digits) : i \in 1..Len(longer)
    BY <1>1
  <2> QED BY <1>1, <1>2, <2>1 DEF Counts
<1>4. Number(digits, radix) = v[Len(digits)]
  BY <1>3, NumberIs
<1>5. v[Len(longer)] = radix * v[Len(digits)] + ValueOf(d)
  <2>1. Len(longer) \in 1..Len(longer) /\ Len(longer) - 1 = Len(digits)
    BY <1>1
  <2> QED BY <1>1, <1>2, <2>1 DEF Counts
<1> QED BY <1>2, <1>4, <1>5 DEF longer

LEMMA OneDigit ==
  ASSUME NEW S, NEW d \in S, NEW radix \in Nat, ValueOf(d) \in Nat
  PROVE  Number(<<d>>, radix) = ValueOf(d)
<1>1. <<d>> \in Seq(S) /\ Len(<<d>>) = 1 /\ <<d>>[1] = d
  OBVIOUS
<1>2. PICK v : Counts(v, <<d>>, radix) /\ Number(<<d>>, radix) = v[1]
  BY <1>1, NumberFacts
<1>3. v[0] = 0 /\ v[1] = radix * v[0] + ValueOf(d)
  BY <1>1, <1>2 DEF Counts
<1> QED BY <1>2, <1>3

(* The radixes of device numbers.                                          *)
Radixes == {8, 10, 16}

LEMMA Divided ==
  ASSUME NEW r \in Radixes, NEW m \in Nat
  PROVE  /\ m \div r \in Nat /\ m % r \in 0..(r - 1)
         /\ m = r * (m \div r) + (m % r)
         /\ m >= r => m \div r <= m - 1
<1>1. CASE r = 8
  BY <1>1
<1>2. CASE r = 10
  BY <1>2
<1>3. CASE r = 16
  BY <1>3
<1> QED BY <1>1, <1>2, <1>3 DEF Radixes

(* The text of a number, one digit after another.                          *)
Spells(f, n, radix) ==
  \A m \in 0..n :
    f[m] = IF m < radix THEN <<Digits[m + 1]>>
           ELSE Append(f[m \div radix], Digits[(m % radix) + 1])

LEMMA TextFacts ==
  ASSUME NEW n \in Nat, NEW radix \in Radixes
  PROVE  \E f : Spells(f, n, radix) /\ NumberText(n, radix) = f[n]
<1> DEFINE Body(f, m) == IF m < radix THEN <<Digits[m + 1]>>
                         ELSE Append(f[m \div radix],
                                     Digits[(m % radix) + 1])
           Is(f, k) == f = [m \in 0..k |-> Body(f, m)]
           G == {k \in Nat : \E f : Is(f, k)}
<1>0. radix \in Nat /\ radix > 0
  BY DEF Radixes
<1>1. 0 \in G
  <2>1. Is([m \in 0..0 |-> <<Digits[m + 1]>>], 0)
    BY <1>0
  <2> HIDE DEF Is
  <2> QED BY <2>1
<1>2. ASSUME NEW k \in 1..n, k - 1 \in G PROVE k \in G
  <2>0. k \in Nat /\ k - 1 \in Nat
    OBVIOUS
  <2>1. PICK f : Is(f, k - 1)
    BY <1>2
  <2> DEFINE g == [m \in 0..k |-> IF m = k THEN Body(f, k) ELSE f[m]]
  <2>2. ASSUME NEW m \in 0..k PROVE g[m] = Body(g, m)
    <3>0. m >= radix => m \div radix \in 0..k /\ m \div radix # k
                          /\ g[m \div radix] = f[m \div radix]
      <4>1. ASSUME m >= radix
            PROVE  m \div radix \in 0..k /\ m \div radix # k
        <5>1. m \div radix \in Nat /\ m \div radix <= m - 1 /\ m \in Nat
          BY <4>1, Divided
        <5> HIDE DEF g
        <5> QED BY <2>0, <5>1
      <4> QED BY <4>1
    <3>1. Body(g, m) = Body(f, m)
      <4>1. m < radix \/ m >= radix
        BY <1>0
      <4> HIDE DEF g
      <4> QED BY <3>0, <4>1
    <3>2. CASE m = k
      <4> HIDE DEF Next
      <4> QED BY <3>1, <3>2, <2>0
    <3>3. CASE m # k
      <4>1. m \in 0..(k - 1) /\ g[m] = f[m]
        BY <3>3, <2>0
      <4>2. f[m] = Body(f, m)
        <5> HIDE DEF Next, g
        <5> QED BY <2>1, <4>1
      <4> HIDE DEF Next, g
      <4> QED BY <3>1, <4>1, <4>2
    <3> QED BY <3>2, <3>3
  <2>3. Is(g, k)
    <3> HIDE DEF Next
    <3> QED BY <2>2
  <2> HIDE DEF Is, g
  <2> QED BY <2>0, <2>3
<1>3. n \in G
  <2> HIDE DEF G
  <2>1. 0..n \subseteq G
    BY <1>1, <1>2, UpTo
  <2> QED BY <2>1
<1> DEFINE text == CHOOSE f : Is(f, n)
<1>4. Is(text, n)
  <2>2. \E f : Is(f, n)
    BY <1>3
  <2> HIDE DEF Is
  <2> QED BY <2>2
<1>5. \A m \in 0..n : text[m] = Body(text, m)
  <2> HIDE DEF Next, text
  <2> QED BY <1>4
<1>6. NumberText(n, radix) = text[n]
  BY DEF NumberText
<1>7. Spells(text, n, radix)
  <2> HIDE DEF text
  <2> QED BY <1>5 DEF Spells
<1> HIDE DEF text
<1> QED BY <1>6, <1>7

LEMMA DigitIs ==
  ASSUME NEW radix \in Radixes, NEW k \in 0..(radix - 1)
  PROVE  Digits[k + 1] \in DigitsOf(radix) /\ ValueOf(Digits[k + 1]) = k
<1>1. k + 1 \in 1..radix /\ k + 1 \in 1..16 /\ k \in Nat
  BY DEF Radixes
<1>2. ValueOf(Digits[k + 1]) = k
  BY <1>1, ValueIs
<1> QED BY <1>1, <1>2 DEF DigitsOf

(* A number is read from its text.                                         *)
LEMMA NumberIsRead ==
  ASSUME NEW n \in Nat, NEW radix \in Radixes
  PROVE  /\ NumberText(n, radix) \in Seq(DigitsOf(radix))
         /\ NumberText(n, radix) # <<>>
         /\ Number(NumberText(n, radix), radix) = n
<1>1. PICK f : Spells(f, n, radix) /\ NumberText(n, radix) = f[n]
  BY TextFacts
<1> DEFINE Good(m) == /\ f[m] \in Seq(DigitsOf(radix)) /\ f[m] # <<>>
                      /\ Number(f[m], radix) = m
           bad == {m \in 0..n : ~Good(m)}
<1>0. radix \in Nat
  BY DEF Radixes
<1>2. SUFFICES ASSUME bad # {} PROVE FALSE
  <2>1. ASSUME bad = {} PROVE Good(n)
    <3> HIDE DEF Good
    <3> QED BY <2>1
  <2> QED BY <1>1, <2>1
<1>3. PICK m \in bad : \A y \in bad : m <= y
  <2>1. bad \in SUBSET Nat
    OBVIOUS
  <2> HIDE DEF bad
  <2> QED BY <1>2, <2>1, LeastExists
<1>4. m \in 0..n /\ m \in Nat /\ ~Good(m)
  <2> HIDE DEF Good
  <2> QED OBVIOUS
<1>5. CASE m < radix
  <2> DEFINE d == Digits[m + 1]
  <2>1. f[m] = <<d>>
    BY <1>1, <1>4, <1>5 DEF Spells
  <2>2. d \in DigitsOf(radix) /\ ValueOf(d) = m
    BY <1>0, <1>4, <1>5, DigitIs
  <2> HIDE DEF d
  <2>3. Number(<<d>>, radix) = m
    BY <1>0, <1>4, <2>2, OneDigit
  <2>4. <<d>> \in Seq(DigitsOf(radix)) /\ <<d>> # <<>>
    BY <2>2
  <2> QED BY <1>4, <2>1, <2>3, <2>4
<1>6. CASE m >= radix
  <2> DEFINE rest == m \div radix
             d == Digits[(m % radix) + 1]
  <2>1. f[m] = Append(f[rest], d)
    <3>1. ~(m < radix)
      BY <1>0, <1>4, <1>6
    <3> QED BY <1>1, <1>4, <3>1, Zenon DEF Spells
  <2>2. /\ rest \in Nat /\ rest <= m - 1 /\ m % radix \in 0..(radix - 1)
        /\ m = radix * rest + (m % radix)
    BY <1>4, <1>6, Divided
  <2>3. d \in DigitsOf(radix) /\ ValueOf(d) = m % radix
    BY <2>2, DigitIs
  <2> HIDE DEF d, rest
  <2>4. Good(rest)
    <3>1. rest \in 0..n /\ ~(m <= rest)
      BY <1>4, <2>2
    <3> HIDE DEF Good
    <3> QED BY <1>3, <3>1
  <2>5. Number(Append(f[rest], d), radix) = radix * rest + ValueOf(d)
    BY <2>3, <2>4, OneMoreDigit
  <2>6. /\ Append(f[rest], d) \in Seq(DigitsOf(radix))
        /\ Append(f[rest], d) # <<>>
    BY <2>3, <2>4
  <2>7. Number(f[m], radix) = m
    BY <2>1, <2>2, <2>3, <2>5
  <2> QED BY <1>4, <2>1, <2>6, <2>7
<1> QED BY <1>0, <1>4, <1>5, <1>6

LEMMA RadixIs ==
  ASSUME NEW c, NEW p
  PROVE  /\ Radix(c, p) \in Radixes
         /\ Radix(c, p) = 16 => c \in HexDevices
         /\ DigitsOf(Radix(c, p)) \subseteq DigitsOf(16)
         /\ Radix(c, p) # 16 => DigitsOf(Radix(c, p)) \subseteq DigitsOf(10)
<1>1. /\ Radix(c, p) \in {8, 10, 16}
      /\ Radix(c, p) = 16 => c \in HexDevices
  BY DEF Radix
<1>2. DigitsOf(8) \subseteq DigitsOf(10) /\ DigitsOf(10) \subseteq DigitsOf(16)
  BY DigitsAre
<1> QED BY <1>1, <1>2 DEF Radixes

(* A prefix is the same element by element.                                *)
LEMMA PrefixIs ==
  ASSUME NEW S, NEW T, NEW s \in Seq(S), NEW t \in Seq(T)
  PROVE  IsPrefix(s, t) <=> /\ Len(s) <= Len(t)
                            /\ \A i \in 1..Len(s) : s[i] = t[i]
<1>1. ASSUME Len(s) <= Len(t)
      PROVE  /\ SubSeq(t, 1, Len(s)) \in Seq(T)
             /\ Len(SubSeq(t, 1, Len(s))) = Len(s)
             /\ \A i \in 1..Len(s) : SubSeq(t, 1, Len(s))[i] = t[i]
  BY <1>1
<1>2. /\ SubSeq(s, 1, Len(s)) \in Seq(S)
      /\ Len(SubSeq(s, 1, Len(s))) = Len(s)
      /\ \A i \in 1..Len(s) : SubSeq(s, 1, Len(s))[i] = s[i]
  OBVIOUS
<1>3. CASE ~(Len(s) <= Len(t))
  BY <1>3 DEF IsPrefix
<1>4. CASE Len(s) <= Len(t)
  <2> DEFINE a == SubSeq(s, 1, Len(s))  b == SubSeq(t, 1, Len(s))
  <2>1. IsPrefix(s, t) <=> a = b
    BY <1>4 DEF IsPrefix
  <2>2. a \in Seq(S) /\ b \in Seq(T) /\ Len(a) = Len(s) /\ Len(b) = Len(s)
    BY <1>1, <1>2, <1>4
  <2>3. \A i \in 1..Len(s) : a[i] = s[i] /\ b[i] = t[i]
    BY <1>1, <1>2, <1>4
  <2> HIDE DEF a, b
  <2>4. a = b <=> \A i \in 1..Len(s) : a[i] = b[i]
    BY <2>2
  <2> QED BY <1>4, <2>1, <2>3, <2>4
<1> QED BY <1>3, <1>4

LEMMA Joined ==
  ASSUME NEW S, NEW s \in Seq(S), NEW t \in Seq(S)
  PROVE  /\ s \o t \in Seq(S) /\ Len(s \o t) = Len(s) + Len(t)
         /\ \A i \in 1..Len(s) : (s \o t)[i] = s[i]
         /\ \A i \in 1..Len(t) : (s \o t)[Len(s) + i] = t[i]
         /\ SubSeq(s \o t, Len(s) + 1, Len(s \o t)) = t
OBVIOUS

(* No device code goes on with a digit where another one ends.             *)
LEMMA CodesEnd ==
  ASSUME NEW c \in Codes, NEW o \in Codes, NEW p, Len(o) > Len(c),
         \A i \in 1..Len(c) : o[i] = c[i]
  PROVE  o[Len(c) + 1] \notin DigitsOf(Radix(c, p))
<1>1. c \in Seq(Letters) /\ Len(c) \in 1..4 /\ o \in Seq(Letters)
        /\ Len(o) \in 1..4
  BY CodesAre
<1>2. o[Len(c) + 1] \in Letters /\ o[1] = c[1]
  BY <1>1
<1>3. CASE Radix(c, p) # 16
  <2>1. DigitsOf(Radix(c, p)) \subseteq DigitsOf(10)
    BY <1>3, RadixIs
  <2>2. Letters \cap DigitsOf(10) = {}
    BY DigitsAre DEF Letters
  <2> QED BY <1>2, <2>1, <2>2
<1>4. CASE Radix(c, p) = 16
  <2>1. c \in HexDevices
    BY <1>4, RadixIs
  <2>2. CASE c \in {<<"X">>, <<"Y">>, <<"B">>, <<"W">>}
    <3>1. Len(c) = 1 /\ c[1] \in {"X", "Y", "B", "W"}
      BY <2>2
    <3>2. o[1] \in {"X", "Y", "B", "W"} => Len(o) = 1
      BY HexDevicesEnd
    <3> QED BY <1>2, <3>1, <3>2
  <2>3. CASE c \in {<<"S", "B">>, <<"S", "W">>, <<"D", "X">>, <<"D", "Y">>}
    <3>1. Len(c) = 2 /\ \/ c[1] = "S" /\ c[2] \in {"B", "W"}
                        \/ c[1] = "D" /\ c[2] \in {"X", "Y"}
      BY <2>3
    <3>2. o[1] = c[1] /\ o[2] = c[2] /\ Len(o) > 2
      BY <3>1
    <3>3. Len(o) > 1
      BY <1>1, <3>2
    <3>4. ASSUME o[1] = "S" /\ o[2] \in {"B", "W"} PROVE Len(o) = 2
      BY <3>3, <3>4, HexDevicesEnd
    <3>5. ASSUME o[1] = "D" /\ o[2] \in {"X", "Y"} PROVE Len(o) = 2
      BY <3>3, <3>5, HexDevicesEnd
    <3> QED BY <3>1, <3>2, <3>4, <3>5
  <2> QED BY <2>1, <2>2, <2>3 DEF HexDevices
<1> QED BY <1>3, <1>4

(* A code is read from a text that begins with it and goes on with digits. *)
LEMMA CodeIsRead ==
  ASSUME NEW c \in Codes, NEW p, NEW digits \in Seq(DigitsOf(Radix(c, p))),
         digits # <<>>
  PROVE  LET text == c \o digits
         IN  /\ WellFormed(text) /\ IsPrefix(c, text) /\ CodeOf(text) = c
             /\ SubSeq(text, Len(c) + 1, Len(text)) = digits
<1> DEFINE text == c \o digits
           S == Letters \cup DigitsOf(16)
<1>1. c \in Seq(Letters) /\ Len(c) \in 1..4
  BY CodesAre
<1>2. DigitsOf(Radix(c, p)) \subseteq DigitsOf(16)
  BY RadixIs
<1>3. c \in Seq(S)
  BY <1>1
<1>4. digits \in Seq(S) /\ Len(digits) \in Nat /\ Len(digits) > 0
  BY <1>2
<1>5. /\ text \in Seq(S) /\ Len(text) = Len(c) + Len(digits)
      /\ \A i \in 1..Len(c) : text[i] = c[i]
      /\ \A i \in 1..Len(digits) : text[Len(c) + i] = digits[i]
      /\ SubSeq(text, Len(c) + 1, Len(text)) = digits
  <2> HIDE DEF S
  <2> QED BY <1>3, <1>4, Joined
<1> HIDE DEF S, text
<1>6. WellFormed(text)
  <2>1. text[1] \in Letters /\ text # <<>>
    <3>1. text[1] = c[1] /\ c[1] \in Letters
      BY <1>1, <1>5
    <3> QED BY <1>1, <1>4, <1>5, <3>1
  <2>2. Letters \cap DigitsOf(10) = {}
    BY DigitsAre DEF Letters
  <2>3. text[Len(text)] = digits[Len(digits)]
    BY <1>1, <1>4, <1>5
  <2>4. digits[Len(digits)] \in DigitsOf(16)
    <3>1. Len(digits) \in 1..Len(digits)
      BY <1>4
    <3> QED BY <1>2, <3>1
  <2> QED BY <2>1, <2>2, <2>3, <2>4 DEF WellFormed
<1>7. IsPrefix(c, text)
  BY <1>1, <1>4, <1>5, PrefixIs
<1>8. ASSUME NEW o \in Codes, IsPrefix(o, text) PROVE Len(o) <= Len(c)
  <2>0. o \in Seq(Letters) /\ Len(o) \in 1..4
    BY CodesAre
  <2>1. Len(o) <= Len(text) /\ \A i \in 1..Len(o) : o[i] = text[i]
    BY <1>5, <1>8, <2>0, PrefixIs
  <2>2. SUFFICES ASSUME Len(o) > Len(c) PROVE FALSE
    BY <1>1, <2>0
  <2>3. ASSUME NEW i \in 1..Len(c) PROVE o[i] = c[i]
    <3>1. i \in 1..Len(o)
      BY <1>1, <2>0, <2>2
    <3> QED BY <1>5, <2>1, <3>1
  <2>4. o[Len(c) + 1] = digits[1]
    <3>1. Len(c) + 1 \in 1..Len(o) /\ 1 \in 1..Len(digits)
      BY <1>1, <1>4, <2>0, <2>2
    <3>2. o[Len(c) + 1] = text[Len(c) + 1]
      BY <2>1, <3>1
    <3> QED BY <1>5, <3>1, <3>2
  <2>5. digits[1] \in DigitsOf(Radix(c, p))
    BY <1>4
  <2> QED BY <2>2, <2>3, <2>4, <2>5, CodesEnd
<1>9. CodeOf(text) = c
  <2> DEFINE Longest(d) == /\ IsPrefix(d, text)
                           /\ \A o \in Codes : IsPrefix(o, text)
                                                 => Len(o) <= Len(d)
  <2>1. Longest(c)
    BY <1>7, <1>8
  <2>2. ASSUME NEW d \in Codes, Longest(d) PROVE d = c
    <3>0. d \in Seq(Letters) /\ Len(d) \in 1..4
      BY CodesAre
    <3>1. Len(d) = Len(c)
      BY <1>1, <1>7, <1>8, <2>2, <3>0
    <3>2. \A i \in 1..Len(d) : d[i] = text[i]
      BY <1>5, <2>2, <3>0, PrefixIs
    <3>3. \A i \in 1..Len(c) : d[i] = c[i]
      BY <1>5, <3>1, <3>2
    <3> QED BY <1>1, <3>0, <3>1, <3>3
  <2>3. CodeOf(text) = CHOOSE d \in Codes : Longest(d)
    BY DEF CodeOf
  <2> HIDE DEF Longest
  <2> QED BY <2>1, <2>2, <2>3
<1> QED BY <1>5, <1>6, <1>7, <1>9 DEF text

(* What parse_device() returns: a device of the profile.                   *)
LEMMA ParsedIs ==
  ASSUME NEW T, NEW text \in Seq(T), NEW p, ParseDevice(text, p) # Rejected
  PROVE  \E c \in Codes, n \in Nat :
           /\ c \notin Unsupported(p)
           /\ ParseDevice(text, p) = [code |-> c, number |-> n]
<1> DEFINE code == CodeOf(text)
           digits == SubSeq(text, Len(code) + 1, Len(text))
           radix == Radix(code, p)
<1>1. PICK c \in Codes : IsPrefix(c, text)
  BY DEF ParseDevice
<1>2. code \in Codes
  <2> DEFINE Beginning == {d \in Codes : IsPrefix(d, text)}
             I == {Len(d) : d \in Beginning}
  <2>1. \A d \in Beginning : Len(d) \in 1..4
    BY CodesAre
  <2>2. I \in SUBSET (1..4) /\ I # {}
    BY <1>1, <2>1
  <2>3. PICK x \in I : \A y \in I : y <= x
    <3> HIDE DEF I
    <3> QED BY <2>2, LastExists
  <2>4. PICK d \in Beginning : x = Len(d)
    BY <2>3
  <2>5. \A o \in Codes : IsPrefix(o, text) => Len(o) <= Len(d)
    BY <2>3, <2>4
  <2> QED BY <2>4, <2>5 DEF CodeOf
<1>3. /\ code \notin Unsupported(p)
      /\ \A i \in DOMAIN digits : digits[i] \in DigitsOf(radix)
      /\ ParseDevice(text, p)
           = [code |-> code, number |-> Number(digits, radix)]
  BY <1>1 DEF ParseDevice
<1>4. Number(digits, radix) \in Nat
  <2>1. digits \in Seq(T)
    <3>1. code \in Seq(Letters)
      BY <1>2, CodesAre
    <3> HIDE DEF code
    <3> QED BY <3>1
  <2>2. radix \in Radixes
    BY RadixIs
  <2>3. ASSUME NEW i \in 1..Len(digits) PROVE ValueOf(digits[i]) \in Nat
    <3> HIDE DEF digits, radix
    <3>1. digits[i] \in DigitsOf(radix)
      BY <1>3, <2>1
    <3>2. PICK j \in 1..radix : digits[i] = Digits[j]
      BY <3>1 DEF DigitsOf
    <3>3. j \in 1..16 /\ j - 1 \in Nat
      BY <2>2 DEF Radixes
    <3> QED BY <3>2, <3>3, ValueIs
  <2> HIDE DEF digits, radix
  <2>4. PICK v : Counts(v, digits, radix)
                 /\ Number(digits, radix) = v[Len(digits)]
    BY <2>1, NumberFacts
  <2> DEFINE G == {i \in 0..Len(digits) : v[i] \in Nat}
  <2>5. 0 \in G /\ Len(digits) \in Nat
    BY <2>1, <2>4 DEF Counts
  <2>6. ASSUME NEW m \in 1..Len(digits), m - 1 \in G PROVE m \in G
    <3>1. v[m] = radix * v[m - 1] + ValueOf(digits[m])
      BY <2>4 DEF Counts
    <3>2. \A x \in Nat, y \in Nat : radix * x + y \in Nat
      BY <2>2 DEF Radixes
    <3>3. v[m] \in Nat
      BY <2>3, <2>6, <3>1, <3>2
    <3> QED BY <2>5, <3>3
  <2>7. 0..Len(digits) \subseteq G
    <3> HIDE DEF G
    <3> QED BY <2>5, <2>6, UpTo
  <2> QED BY <2>4, <2>5, <2>7
<1> HIDE DEF digits, radix, code
<1> QED BY <1>2, <1>3, <1>4

(* parse_device() reads from str() of a device that device.                *)
LEMMA StrIsRead ==
  ASSUME NEW c \in Codes, NEW n \in Nat, NEW p, c \notin Unsupported(p)
  PROVE  LET ref == [code |-> c, number |-> n]
         IN  ParseDevice(Str(ref, p), p) = ref
<1> DEFINE radix == Radix(c, p)
           digits == NumberText(n, radix)
           text == c \o digits
<1>1. radix \in Radixes
  BY RadixIs
<1>2. /\ digits \in Seq(DigitsOf(radix)) /\ digits # <<>>
      /\ Number(digits, radix) = n
  <2> HIDE DEF radix
  <2> QED BY <1>1, NumberIsRead
<1>3. /\ WellFormed(text) /\ IsPrefix(c, text) /\ CodeOf(text) = c
      /\ SubSeq(text, Len(c) + 1, Len(text)) = digits
  <2> HIDE DEF digits
  <2> QED BY <1>2, CodeIsRead
<1>4. \A i \in DOMAIN digits : digits[i] \in DigitsOf(radix)
  <2> HIDE DEF digits, radix
  <2> QED BY <1>2
<1>5. Str([code |-> c, number |-> n], p) = text
  BY DEF Str
<1>6. ParseDevice(text, p) = [code |-> c, number |-> n]
  <2> HIDE DEF digits, text
  <2> QED BY <1>2, <1>3, <1>4 DEF ParseDevice
<1> QED BY <1>5, <1>6

(* An address that parse_address() takes: its text is read again as it is. *)
LEMMA AddressIsRead ==
  ASSUME NEW T, NEW address, address.device \in Seq(T), NEW p,
         ParseAddress(address, p) # Rejected
  PROVE  LET taken == ParseAddress(address, p)
         IN  /\ ParseAddress(taken.text, p) = taken
             /\ FormatAddress(taken, p) = taken.text
             /\ NormalizeAddress(address, p) = taken.text
<1> DEFINE ref == ParseDevice(address.device, p)
           suffix == address.suffix
           taken == ParseAddress(address, p)
           text == [device |-> Str(ref, p), suffix |-> suffix]
<1>1. /\ Complete(address) /\ ref # Rejected
      /\ ~(suffix.mark = "." /\ ref.code \in BitDevices)
      /\ ~(suffix.mark = ":" /\ ~DtypeFits(ref, suffix.dtype))
      /\ taken = [ref |-> ref, text |-> text]
  BY DEF ParseAddress
<1>2. ParseDevice(Str(ref, p), p) = ref
  <2>1. PICK c \in Codes, n \in Nat :
          c \notin Unsupported(p) /\ ref = [code |-> c, number |-> n]
    BY <1>1, ParsedIs
  <2> HIDE DEF ref
  <2> QED BY <2>1, StrIsRead
<1> HIDE DEF ref, taken, suffix
<1>3. text.device = Str(ref, p) /\ text.suffix = suffix /\ Complete(text)
  BY <1>1 DEF Complete, suffix
<1>4. taken.text = text
  BY <1>1
<1> HIDE DEF text
<1>5. ParseAddress(text, p) = [ref |-> ref, text |-> text]
  <2>1. text = [device |-> Str(ref, p), suffix |-> suffix]
    BY DEF text
  <2> QED BY <1>1, <1>2, <1>3, <2>1 DEF ParseAddress
<1>6. FormatAddress(taken, p) = text
  BY <1>1, <1>2, <1>3, <1>4 DEF FormatAddress, text
<1>7. NormalizeAddress(address, p) = text
  BY <1>1 DEF NormalizeAddress, ref, suffix, text
<1> QED BY <1>1, <1>4, <1>5, <1>6, <1>7 DEF taken

(* What parse_address() refuses for another reason than a bit of a bit     *)
(* device, normalize_address() refuses too.                                *)
LEMMA RefusedAlike ==
  ASSUME NEW address, NEW p, ParseAddress(address, p) = Rejected,
         address.suffix.mark # "."
  PROVE  NormalizeAddress(address, p) = Rejected
BY DEF ParseAddress, NormalizeAddress, Rejected

(* The provers do not know that a letter is a string.                      *)
Characters == STRING \cup Letters

(* Each taken is that of its call.                                        *)
TextIInv ==
  /\ given.device \in Seq(Characters)
  /\ place \in {"given", "refused", "parsed", "again"}
  /\ place = "given" => parsed = Rejected
  /\ place # "given" =>
       /\ parsed = ParseAddress(given, profile)
       /\ normalized = NormalizeAddress(given, profile)
       /\ place = "refused" <=> parsed = Rejected
  /\ place = "again" => again = ParseAddress(parsed.text, profile)

LEMMA TextsHold ==
  ASSUME TextIInv
  PROVE  TextsAgree
<1>1. RoundTrip
  BY AddressIsRead DEF TextIInv, RoundTrip
<1>2. OneText
  BY AddressIsRead, RefusedAlike DEF TextIInv, OneText, Accepted
<1> QED BY <1>1, <1>2 DEF TextsAgree

(* Its inductive invariant.                                                *)
THEOREM TextInvariant == TextSpec => []TextIInv
<1>1. ASSUME TextInit PROVE TextIInv
  <2>1. PICK c \in Codes, t \in Tails : given.device = c \o t
    BY <1>1 DEF TextInit
  <2>2. c \in Seq(Characters) /\ t \in Seq(Characters)
    BY AddressesAssumption, CodesAre DEF Characters
  <2> QED BY <1>1, <2>1, <2>2 DEF TextInit, TextIInv
<1>2. ASSUME TextIInv, [TextNext]_textVars PROVE TextIInv'
  <2>1. CASE Parses
    BY <1>2, <2>1 DEF TextIInv, Parses, Accepted
  <2>2. CASE ParsesAgain
    BY <1>2, <2>2 DEF TextIInv, ParsesAgain
  <2>3. CASE UNCHANGED textVars
    BY <1>2, <2>3 DEF TextIInv, textVars
  <2> QED BY <1>2, <2>1, <2>2, <2>3 DEF TextNext
<1> QED BY <1>1, <1>2, PTL DEF TextSpec

(* Addresses: whatever device code, number and suffix a text has, and on   *)
(* whatever profile, what parse_address() takes it returns a text for that *)
(* is read as the same device and printed as the same text, and that       *)
(* normalize_address() makes too; what it refuses that does refuse, but    *)
(* for bits (core.py:380-395, :145-152, utils.py:726-755, :803-812).       *)
THEOREM TextsAreOne == TextSpec => []TextsAgree
BY TextInvariant, TextsHold, PTL
=============================================================================
