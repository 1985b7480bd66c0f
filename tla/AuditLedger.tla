----------------------------- MODULE AuditLedger -----------------------------
(***************************************************************************)
(* What one audit stream promises to the commands that use it, whatever    *)
(* the integrity level: a numbered ledger of entries.  An entry, once in   *)
(* the ledger, keeps its number for ever; a receipt is given at most once  *)
(* per number and only for the entry that holds it; and a stream that has  *)
(* been damaged stops growing for good (nothing in the program repairs     *)
(* it).  AuditLog implements this specification.                           *)
(***************************************************************************)
EXTENDS Naturals, Sequences

CONSTANT Data   \* what a command asks to be recorded (an action, a payload)

VARIABLES
  entries,   \* the numbered entries a reader accepts
  receipts,  \* the set of <<number, data>> reported as recorded
  frozen     \* the stream has been damaged

vars == <<entries, receipts, frozen>>

\* The types of the variables.
TypeOK ==
  /\ entries \in Seq(Data)
  /\ receipts \subseteq ((Nat \ {0}) \X Data)
  /\ frozen \in BOOLEAN

Init ==
  /\ entries = <<>>
  /\ receipts = {}
  /\ frozen = FALSE

Record(d) ==
  /\ ~frozen
  /\ entries' = Append(entries, d)
  /\ UNCHANGED <<receipts, frozen>>

Damage ==
  /\ ~frozen
  /\ frozen' = TRUE
  /\ UNCHANGED <<entries, receipts>>

\* A receipt may still be issued after damage: an A3 command that verified
\* the chain before may finish its checkpoint comparison afterwards.
Acknowledge(n) ==
  /\ n \in 1..Len(entries)
  /\ <<n, entries[n]>> \notin receipts
  /\ receipts' = receipts \cup {<<n, entries[n]>>}
  /\ UNCHANGED <<entries, frozen>>

Next ==
  \/ \E d \in Data : Record(d)
  \/ Damage
  \/ \E n \in 1..Len(entries) : Acknowledge(n)

Spec == Init /\ [][Next]_vars

=============================================================================
