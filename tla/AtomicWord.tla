------------------------------ MODULE AtomicWord -----------------------------
(***************************************************************************)
(* What write_bit_in_word() promises to the callers of one client: a word  *)
(* of the PLC changes as if each of them applied its update in one step.   *)
(***************************************************************************)
CONSTANTS
  Threads,
  Bits,    (* the bits of the word that are told apart                     *)
  NoJob    (* a caller that asks for nothing                               *)

VARIABLES
  word,    (* the word, as a function from Bits to BOOLEAN                 *)
  job      (* what each caller asks for                                    *)

Words == [Bits -> BOOLEAN]

(* Set or clear one bit, or write the whole word. *)
Jobs == [kind : {"bit"}, bit : Bits, value : BOOLEAN]
          \union [kind : {"word"}, value : Words]

Effect(j, w) == IF j.kind = "bit" THEN [w EXCEPT ![j.bit] = j.value]
                                  ELSE j.value

Init == word \in Words /\ job = [t \in Threads |-> NoJob]

Asks(t, j) == job' = [job EXCEPT ![t] = j] /\ UNCHANGED word

Applies(t) ==
  /\ job[t] # NoJob
  /\ word' = Effect(job[t], word)
  /\ UNCHANGED job

Next ==
  \E t \in Threads : Applies(t) \/ \E j \in Jobs \union {NoJob} : Asks(t, j)

Spec == Init /\ [][Next]_<<word, job>>
==============================================================================
