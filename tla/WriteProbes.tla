---------------------------- MODULE WriteProbes ----------------------------
(***************************************************************************)
(* The command-line tools of slmp/cli.py that write to a running PLC for   *)
(* a test and put back what was there: the word and span probes of         *)
(* Extended Devices, and the manual verification of labels.  A tool works  *)
(* through a list of rows, each of them a sequence of exchanges that may   *)
(* fail, and ends with a report.                                           *)
(***************************************************************************)
EXTENDS Naturals, Sequences, SequencesExt, FiniteSets

CONSTANTS
    Cells,          \* words of the PLC that the rows name
    WordModulus,    \* 65536 in the code
    PreferredBase,  \* --preferred-write-base, and the value of a word probe
    RowLists        \* the lists of rows the tool may be given

\* A row is an Extended Device and its span, or a label.
Rows == [kind : {"span", "label"}, cells : Seq(Cells)]

ASSUME WriteProbesAssumption ==
    /\ WordModulus \in Nat \ {0} /\ WordModulus % 2 = 0
    /\ PreferredBase \in Nat
    /\ RowLists \subseteq Seq(Rows)

VARIABLES
    rows,       \* the rows still to do; the first one is being done
    mode,       \* "read_only", "restore" or "keep" (--keep-written-value)
    phase,      \* where the first row is
    before,     \* before_values: what the row read first
    test,       \* write_values, or the data of _make_manual_label_test_bytes
    verdict,    \* of the operator; "failed": an exception on the way
    report,     \* the rows that were recorded, with their status
    mem,        \* the PLC's words
    nature,     \* how a word behaves when it is written
    overdue,    \* writes whose exchange failed and that may still be done
    origin,     \* history: the memory before the tool ran
    moved,      \* history: the cells that changed while this row ran
    failed      \* history: an exchange of the tool has failed

toolVars ==
    <<rows, mode, phase, before, test, verdict, report, mem, nature, overdue,
      origin, moved, failed>>

Values == 0 .. WordModulus - 1
Statuses == {"OK", "NG", "SKIP"}
Natures == {"plain", "masked", "stuck"}
Row == Head(rows)

(***************************************************************************)
(* The PLC.  A masked word has bits that cannot be set, a stuck one        *)
(* acknowledges a write and stays as it is.                                *)
(***************************************************************************)
Stored(c, v) ==
    CASE nature[c] = "plain"  -> v
      [] nature[c] = "masked" -> v % 2
      [] nature[c] = "stuck"  -> mem[c]

AfterWrite(cells, values) ==
    [c \in Cells |->
        IF \E i \in DOMAIN cells : cells[i] = c
        THEN LET last == CHOOSE i \in DOMAIN cells :
                            /\ cells[i] = c
                            /\ \A j \in DOMAIN cells : cells[j] = c => j <= i
             IN  Stored(c, values[last])
        ELSE mem[c]]

Read(cells) == [i \in DOMAIN cells |-> mem[cells[i]]]

Applied(cells, values) ==
    /\ mem' = AfterWrite(cells, values)
    /\ moved' = moved \cup {c \in Cells : mem'[c] # mem[c]}

\* An exchange of a write.  When it fails the request was refused or never
\* sent, or its outcome is unknown: it was done, will be done, or is lost.
Write(cells, values, acknowledged) ==
    \/ /\ acknowledged
       /\ Applied(cells, values)
       /\ UNCHANGED <<overdue, failed>>
    \/ /\ ~acknowledged
       /\ failed' = TRUE
       /\ \/ UNCHANGED <<mem, moved, overdue>>
          \/ Applied(cells, values) /\ UNCHANGED overdue
          \/ /\ overdue' = overdue \cup {[cells |-> cells, values |-> values]}
             /\ UNCHANGED <<mem, moved>>

LateWrite ==
    \E w \in overdue :
        /\ Applied(w.cells, w.values)
        /\ overdue' = overdue \ {w}
        /\ UNCHANGED <<rows, mode, phase, before, test, verdict, report,
                       nature, origin, failed>>

PlcRests == UNCHANGED <<mem, overdue, moved, failed>>

(***************************************************************************)
(* What the rows write, and how they are recorded.                         *)
(***************************************************************************)
(* Mutant: the preferred values are taken also where they are there.       *)
ProbeValues_Preferred(values) ==
    [i \in DOMAIN values |-> (PreferredBase + i - 1) % WordModulus]

\* _choose_probe_word_values(): never the value that is there.
ProbeValues(values) ==
    [i \in DOMAIN values |->
        LET candidate == (PreferredBase + i - 1) % WordModulus
        IN  IF candidate # values[i] THEN candidate
            ELSE (candidate + 1) % WordModulus]

\* _make_manual_label_test_bytes(): the lowest bit is inverted.
LabelValues(values) ==
    [i \in DOMAIN values |->
        IF values[i] % 2 = 0 THEN values[i] + 1 ELSE values[i] - 1]

\* record(), and on to the next row.
Record(status) ==
    /\ report' = Append(report,
            [kind |-> Row.kind, cells |-> Row.cells, status |-> status,
             wrote |-> test # <<>>, moved |-> moved])
    /\ rows' = Tail(rows)
    /\ phase' = "read"
    /\ before' = <<>> /\ test' = <<>> /\ verdict' = "none"
    /\ UNCHANGED <<mode, nature, origin>>
    /\ PlcRests

\* The row goes on.
GoesTo(next) ==
    /\ phase' = next
    /\ UNCHANGED <<rows, mode, report, nature, origin>>

(***************************************************************************)
(* Steps of both kinds of rows.                                            *)
(***************************************************************************)
ReadBefore ==
    /\ rows # <<>> /\ phase = "read"
    /\ before' = Read(Row.cells)
    /\ moved' = {}
    /\ GoesTo(IF Row.kind = "label" THEN "ask" ELSE "choose")
    /\ UNCHANGED <<test, verdict, mem, overdue, failed>>

\* A read ends with an exception: the loop around the row records it.
ReadFails ==
    /\ rows # <<>> /\ phase \in {"read", "readback", "verify"}
    /\ failed' = TRUE
    /\ GoesTo("failed")
    /\ UNCHANGED <<before, test, verdict, mem, overdue, moved>>

Abandon == rows # <<>> /\ phase = "failed" /\ Record("NG")

(***************************************************************************)
(* _run_extended_device_word_span_probe(); the word probe is the span of   *)
(* one word.                                                               *)
(***************************************************************************)
ReadOnly ==
    /\ rows # <<>> /\ phase = "choose" /\ mode = "read_only"
    /\ Record("OK")

Choose ==
    /\ rows # <<>> /\ phase = "choose" /\ mode # "read_only"
    /\ test' = ProbeValues(before)
    /\ GoesTo("write")
    /\ UNCHANGED <<before, verdict>> /\ PlcRests

ProbeWrites ==
    /\ rows # <<>> /\ phase = "write" /\ Row.kind = "span"
    /\ \E ok \in BOOLEAN :
        /\ Write(Row.cells, test, ok)
        /\ GoesTo(IF ok THEN "readback" ELSE "failed")
    /\ UNCHANGED <<before, test, verdict>>

\* The readback differs: the row is recorded, and nothing is restored.
ReadBack ==
    /\ rows # <<>> /\ phase = "readback"
    /\ \/ /\ Read(Row.cells) # test
          /\ Record("NG")
       \/ /\ Read(Row.cells) = test /\ mode = "keep"
          /\ Record("OK")
       \/ /\ Read(Row.cells) = test /\ mode = "restore"
          /\ GoesTo("restore")
          /\ UNCHANGED <<before, test, verdict>> /\ PlcRests

ProbeRestores ==
    /\ rows # <<>> /\ phase = "restore"
    /\ \E ok \in BOOLEAN :
        /\ Write(Row.cells, before, ok)
        /\ GoesTo(IF ok THEN "verify" ELSE "failed")
    /\ UNCHANGED <<before, test, verdict>>

Verify ==
    /\ rows # <<>> /\ phase = "verify"
    /\ Record(IF Read(Row.cells) = before THEN "OK" ELSE "NG")

(***************************************************************************)
(* manual_label_verification_main(): the operator is asked before the      *)
(* write and judges after it; the write and the judgement are in a try     *)
(* whose finally restores.                                                 *)
(***************************************************************************)
Ask ==
    /\ rows # <<>> /\ phase = "ask"
    /\ \/ Record("SKIP")
       \/ /\ test' = LabelValues(before)
          /\ GoesTo("write")
          /\ UNCHANGED <<before, verdict>> /\ PlcRests

LabelWrites ==
    /\ rows # <<>> /\ phase = "write" /\ Row.kind = "label"
    /\ \E ok \in BOOLEAN :
        /\ Write(Row.cells, test, ok)
        /\ GoesTo(IF ok THEN "judge" ELSE "finally")
        /\ verdict' = IF ok THEN verdict ELSE "failed"
    /\ UNCHANGED <<before, test>>

\* "interrupted": KeyboardInterrupt at the prompt; "failed": end of input.
Judge ==
    /\ rows # <<>> /\ phase = "judge"
    /\ verdict' \in Statuses \cup {"failed", "interrupted"}
    /\ GoesTo("finally")
    /\ UNCHANGED <<before, test>> /\ PlcRests

Finally ==
    /\ rows # <<>> /\ phase = "finally"
    /\ \/ /\ mode = "keep"
          /\ PlcRests /\ UNCHANGED verdict
       \/ /\ mode = "restore"
          /\ \E ok \in BOOLEAN :
                /\ Write(Row.cells, before, ok)
                /\ verdict' = IF ok \/ verdict = "interrupted" THEN verdict
                              ELSE "failed"
    /\ GoesTo("record")
    /\ UNCHANGED <<before, test>>

RecordLabel ==
    /\ rows # <<>> /\ phase = "record" /\ verdict # "interrupted"
    /\ Record(IF verdict = "failed" THEN "NG" ELSE verdict)

\* The interrupt leaves the tool: there is no report.
Quit ==
    /\ rows # <<>> /\ phase = "record" /\ verdict = "interrupted"
    /\ rows' = <<>>
    /\ phase' = "quit"
    /\ UNCHANGED <<mode, before, test, verdict, report, nature, origin>>
    /\ PlcRests

(***************************************************************************)
(* The specification                                                       *)
(***************************************************************************)
ToolInit ==
    /\ rows \in RowLists
    /\ mode \in IF \E i \in DOMAIN rows : rows[i].kind = "label"
                THEN {"restore", "keep"} ELSE {"read_only", "restore", "keep"}
    /\ phase = "read"
    /\ before = <<>> /\ test = <<>> /\ verdict = "none"
    /\ report = <<>>
    /\ nature \in [Cells -> Natures]
    /\ mem \in [Cells -> Values]
    /\ \A c \in Cells : nature[c] = "masked" => mem[c] < 2
    /\ overdue = {}
    /\ origin = mem
    /\ moved = {}
    /\ failed = FALSE

ToolNext ==
    \/ ReadBefore \/ ReadFails \/ Abandon
    \/ ReadOnly \/ Choose \/ ProbeWrites \/ ReadBack \/ ProbeRestores
    \/ Verify
    \/ Ask \/ LabelWrites \/ Judge \/ Finally \/ RecordLabel \/ Quit
    \/ LateWrite

ToolSpec == ToolInit /\ [][ToolNext]_toolVars

(***************************************************************************)
(* Properties                                                              *)
(***************************************************************************)
\* The words that the row being done may have in a state between.
InHand == IF rows = <<>> THEN {} ELSE Range(Row.cells)

\* A tool that is told to restore and ends with its report has left a word
\* changed only if a row about that word is NG: with exit code 0 the PLC is
\* as it was, whatever failed, came late or did not take its value.
\* (cli.py: the restore of a probe and the finally of a label row)
ChangedIsReported ==
    mode = "restore" /\ phase # "quit" =>
        \A c \in Cells :
            mem[c] # origin[c] =>
                \/ c \in InHand
                \/ \E i \in DOMAIN report :
                        /\ report[i].status = "NG"
                        /\ c \in Range(report[i].cells)

\* A probe that wrote and is OK has seen each of its words take another
\* value: a word that ignores writes is never reported as working.
\* (_choose_probe_word_values() and the readback)
OkHasMoved ==
    \A i \in DOMAIN report :
        report[i].kind = "span" /\ report[i].status = "OK"
            /\ report[i].wrote
        => Range(report[i].cells) \subseteq report[i].moved

\* The manual label verification leaves every label as it found it when its
\* exchanges succeed, also when the operator leaves it at the prompt.
\* (the finally of cli.py:4349-4356 and :4410-4425)
LabelsAreUndone ==
    /\ rows = <<>> /\ mode = "restore" /\ ~failed
    /\ \A i \in DOMAIN report : report[i].kind = "label"
    => mem = origin

\* A test tool puts back what it changed or says so.
ToolsAreHonest == ChangedIsReported /\ OkHasMoved /\ LabelsAreUndone
=============================================================================
