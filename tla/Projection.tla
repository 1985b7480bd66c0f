----------------------------- MODULE Projection -----------------------------
(***************************************************************************)
(* A generated document of the project (AGENTS.md, the IDE rules, ...) and *)
(* the commands that keep it: projection render, status and repair         *)
(* (internal/projection, cmd_projection.go).                               *)
(*                                                                         *)
(* A rendering is a function of what the store holds and of the machine    *)
(* contract, read one after the other before the document itself is; here  *)
(* each source is a version, and a rendering the pair of those it was made *)
(* from.  atrakta knows a document by the marker in its text and by        *)
(* nothing else.  A command may be killed anywhere, a write is a           *)
(* truncation and a write, and the sources and the document may be changed *)
(* by others between any two steps.  The run stream is what AuditLedger    *)
(* promises, as in Onboarding.                                             *)
(***************************************************************************)
EXTENDS Naturals, Sequences, FiniteSets

CONSTANTS
  Proc,      \* the commands
  Requests,  \* what they may ask for
  Versions,  \* the versions a source may be at
  Faulty,    \* an append may fail
  Edits      \* bound on the changes of sources and document by others

Request == [action : {"render", "status", "repair"}, approves : BOOLEAN, dry : BOOLEAN]

ASSUME ProjectionAssumption ==
  /\ Requests \subseteq Request
  /\ Versions \in Nat
  /\ Faulty \in BOOLEAN
  /\ Edits \in Nat

VARIABLES
  source,   \* the version of the store and of the contract
  doc,      \* the document
  log,      \* the events a reader of the run stream accepts
  frozen,   \* the stream no longer verifies
  pc,       \* where each command is
  req,      \* its arguments
  read,     \* the versions it renders from
  found,    \* projection_status
  again,    \* it renders for the second time, to write
  status,   \* the status it reports
  wrote,    \* history: it has changed the document
  torn,     \* history: a killed command left the document truncated
  byUser,   \* history: the document is somebody else's
  spent,    \* the changes by others so far
  raced     \* history: two commands overlapped, or a command and a change

vars == <<source, doc, log, frozen, pc, req, read, found, again, status, wrote,
          torn, byUser, spent, raced>>
auditVars == <<log, frozen>>
histVars  == <<torn, byUser>>

-----------------------------------------------------------------------------
(* The document *)

Source == [store : 0..Versions, contract : 0..Versions]
Text(s) == [kind |-> "rendered", from |-> s]
Other(k) == [kind |-> k, from |-> [store |-> 0, contract |-> 0]]

\* "touched" is a rendering with changes that leave the marker in place.
Doc == {Text(s) : s \in Source} \cup {Other(k) : k \in {"absent", "empty", "user", "touched"}}
Marked(d) == d.kind \in {"rendered", "touched"}

StatusOf(d, rendered) ==
  IF d.kind = "absent" THEN "missing"
  ELSE IF d = rendered THEN "up_to_date"
  ELSE IF Marked(d) THEN "stale"
  ELSE "modified_externally"
Drift(p) == found[p] # "up_to_date"

\* A write to the document as others have left it since it was opened.
Overlay(now, text) ==
  IF now.kind = "absent" THEN {now}
  ELSE IF now.kind = "empty" \/ now = text THEN {text}
  ELSE {text, Other("touched")}

PC == {"idle", "store", "contract", "compare", "decide", "truncate", "write", "gate",
       "approved", "event", "done", "killed"}
Running(p) == pc[p] \notin {"idle", "done", "killed"}
Goto(p, l) == pc' = [pc EXCEPT ![p] = l]
Report(p, s) == status' = [status EXCEPT ![p] = s] /\ Goto(p, "event")

Init ==
  /\ source = [store |-> 0, contract |-> 0]
  /\ doc \in {Other("absent"), Other("user"), Text(source)}
  /\ log = <<>>
  /\ frozen = FALSE
  /\ pc = [p \in Proc |-> "idle"]
  /\ req \in [Proc -> Requests]
  /\ read = [p \in Proc |-> source]
  /\ found = [p \in Proc |-> "missing"]
  /\ again = [p \in Proc |-> FALSE]
  /\ status = [p \in Proc |-> "none"]
  /\ wrote = [p \in Proc |-> FALSE]
  /\ torn = FALSE
  /\ byUser = (doc.kind = "user")
  /\ spent = 0
  /\ raced = FALSE

-----------------------------------------------------------------------------
(* Render *)

\* DetectAssets, DetectCanonicalState, ResolveInterface.
ReadStore(p) ==
  /\ pc[p] \in {"idle", "store"}
  /\ read' = [read EXCEPT ![p].store = source.store]
  /\ Goto(p, "contract")
  /\ UNCHANGED <<source, doc, auditVars, req, found, again, status, wrote, histVars, spent>>

ReadContract(p) ==
  /\ pc[p] = "contract"
  /\ read' = [read EXCEPT ![p].contract = source.contract]
  /\ Goto(p, "compare")
  /\ UNCHANGED <<source, doc, auditVars, req, found, again, status, wrote, histVars, spent>>

\* Write renders anew and writes whatever the comparison says.
Compare(p) ==
  /\ pc[p] = "compare"
  /\ found' = [found EXCEPT ![p] = StatusOf(doc, Text(read[p]))]
  /\ Goto(p, IF again[p] THEN "truncate" ELSE "decide")
  /\ UNCHANGED <<source, doc, auditVars, req, read, again, status, wrote, histVars, spent>>

Truncate(p) ==
  /\ pc[p] = "truncate"
  /\ doc' = Other("empty")
  /\ wrote' = [wrote EXCEPT ![p] = TRUE]
  /\ byUser' = FALSE
  /\ Goto(p, "write")
  /\ UNCHANGED <<source, auditVars, req, read, found, again, status, torn, spent>>

\* Repair says up_to_date afterwards but keeps its Drift.
WriteDoc(p) ==
  /\ pc[p] = "write"
  /\ doc' \in Overlay(doc, Text(read[p]))
  /\ IF again[p]
       THEN Report(p, IF req[p].action = "repair" THEN "repaired" ELSE "ok")
       ELSE Goto(p, "gate") /\ UNCHANGED status
  /\ UNCHANGED <<source, auditVars, req, read, found, again, wrote, histVars, spent>>

-----------------------------------------------------------------------------
(* runProjectionAction *)

Here == UNCHANGED <<source, doc, auditVars, req, read, found, again, wrote, histVars, spent>>

DecideStatus(p) ==
  /\ pc[p] = "decide" /\ req[p].action = "status"
  /\ Report(p, IF Drift(p) THEN "drift" ELSE "ok")
  /\ Here

DecideRender(p) ==
  /\ pc[p] = "decide" /\ req[p].action = "render"
  /\ IF req[p].dry THEN Report(p, "ok") ELSE Goto(p, "gate") /\ UNCHANGED status
  /\ Here

\* Mutant: a document modified externally is repaired like a stale one.
DecideRepairAll(p) ==
  /\ pc[p] = "decide" /\ req[p].action = "repair"
  /\ Goto(p, IF Drift(p) THEN "truncate" ELSE "gate")
  /\ UNCHANGED status /\ Here

\* projection.Repair, which the command calls first: it writes.
DecideRepair(p) ==
  /\ pc[p] = "decide" /\ req[p].action = "repair"
  /\ Goto(p, IF Drift(p) /\ found[p] # "modified_externally" THEN "truncate" ELSE "gate")
  /\ UNCHANGED status /\ Here

\* --approve or a yes at the prompt.
Gate(p) ==
  /\ pc[p] = "gate"
  /\ IF req[p].approves THEN Goto(p, "approved") /\ UNCHANGED status
     ELSE Report(p, "needs_approval")
  /\ Here

\* Mutant: a stale document blocks like a modified one.
ApprovedStale(p) ==
  /\ pc[p] = "approved"
  /\ IF req[p].action = "repair" /\ found[p] \in {"stale", "modified_externally"}
       THEN Report(p, "blocked") /\ UNCHANGED again
     ELSE /\ again' = [again EXCEPT ![p] = TRUE]
          /\ Goto(p, "store")
          /\ UNCHANGED status
  /\ UNCHANGED <<source, doc, auditVars, req, read, found, wrote, histVars, spent>>

\* A blocked or needless repair ends; else everything is rendered once more.
Approved(p) ==
  /\ pc[p] = "approved"
  /\ IF req[p].action = "repair" /\ found[p] = "modified_externally"
       THEN Report(p, "blocked") /\ UNCHANGED again
     ELSE IF req[p].action = "repair" /\ ~Drift(p)
       THEN Report(p, "ok") /\ UNCHANGED again
     ELSE /\ again' = [again EXCEPT ![p] = TRUE]
          /\ Goto(p, "store")
          /\ UNCHANGED status
  /\ UNCHANGED <<source, doc, auditVars, req, read, found, wrote, histVars, spent>>

\* Mutant: written is what the second rendering did.
WrittenAgain(p) == again[p]

\* resp.Written, from projection.Repair or from projection.Write.
Written(p) == \/ again[p]
              \/ req[p].action = "repair" /\ found[p] \in {"missing", "stale"}

\* emitProjectionWithEvent.
Emit(p) ==
  /\ pc[p] = "event"
  /\ LET e == [by |-> p, status |-> status[p], written |-> Written(p)]
     IN \/ /\ ~frozen
           /\ log' = Append(log, e)
           /\ UNCHANGED <<frozen, status>>
        \/ /\ Faulty \/ frozen
           /\ log' \in {log, Append(log, e)}
           /\ frozen' = TRUE
           /\ status' = [status EXCEPT ![p] = "error"]
  /\ Goto(p, "done")
  /\ UNCHANGED <<source, doc, req, read, found, again, wrote, histVars, spent>>

-----------------------------------------------------------------------------
(* Faults, the user and other commands *)

Kill(p) ==
  /\ Running(p)
  /\ Goto(p, "killed")
  /\ torn' = (torn \/ pc[p] = "write")
  /\ UNCHANGED <<source, doc, auditVars, req, read, found, again, status, wrote, byUser, spent>>

Others(s, d) ==
  /\ spent < Edits
  /\ spent' = spent + 1
  /\ source' = s /\ doc' = d
  /\ UNCHANGED <<auditVars, pc, req, read, found, again, status, wrote, torn>>

ChangeSource(k) == /\ source[k] < Versions
                   /\ Others([source EXCEPT ![k] = @ + 1], doc)
                   /\ UNCHANGED byUser
EditDoc == /\ \E k \in {"user", "absent"} \cup IF Marked(doc) THEN {"touched"} ELSE {} :
                Others(source, Other(k)) /\ byUser' = (k = "user")
           /\ doc' # doc

Step(p) ==
  \/ ReadStore(p) \/ ReadContract(p) \/ Compare(p) \/ Truncate(p) \/ WriteDoc(p)
  \/ DecideStatus(p) \/ DecideRender(p) \/ DecideRepair(p)
  \/ Gate(p) \/ Approved(p) \/ Emit(p)

World == (\E k \in {"store", "contract"} : ChangeSource(k)) \/ EditDoc

Note(overlap) == raced' = (raced \/ overlap)

Next ==
  \/ \E p \in Proc : (Step(p) \/ Kill(p)) /\ Note(\E q \in Proc \ {p} : Running(q))
  \/ World /\ Note(\E p \in Proc : Running(p))

Spec == Init /\ [][Next]_vars

-----------------------------------------------------------------------------
(* Properties *)

\* The types of the variables.
TypeOK ==
  /\ source \in Source
  /\ doc \in Doc
  /\ \A i \in 1..Len(log) : log[i].by \in Proc /\ log[i].written \in BOOLEAN
  /\ frozen \in BOOLEAN
  /\ pc \in [Proc -> PC]
  /\ req \in [Proc -> Requests]
  /\ read \in [Proc -> Source]
  /\ found \in [Proc -> {"missing", "up_to_date", "stale", "modified_externally"}]
  /\ again \in [Proc -> BOOLEAN]
  /\ status \in [Proc -> {"none", "ok", "drift", "repaired", "blocked", "needs_approval", "error"}]
  /\ wrote \in [Proc -> BOOLEAN]
  /\ torn \in BOOLEAN /\ byUser \in BOOLEAN
  /\ spent \in 0..Edits
  /\ raced \in BOOLEAN

\* Whatever the interleaving, a command that exits without an error has recorded
\* exactly one event, and its "written" tells whether it touched the document;
\* also the one of a repair that says it still wants approval.
EventTruthful ==
  \A p \in Proc : pc[p] = "done" /\ status[p] # "error" =>
    LET mine == {i \in 1..Len(log) : log[i].by = p}
    IN Cardinality(mine) = 1 /\ \A i \in mine : log[i].written = wrote[p]

\* One command at a time: a document of the user's is replaced by an approved
\* render only.  And what is written without approval, whatever the interleaving,
\* is written by a repair that found the document missing or stale: repair calls
\* the function that writes before it asks (cmd_projection.go:89-90, 154-172).
UserDocSpared ==
  [][\A p \in Proc :
       /\ byUser /\ ~byUser' /\ pc'[p] # pc[p] /\ ~raced' =>
            req[p].action = "render" /\ req[p].approves
       /\ wrote[p] # wrote'[p] /\ ~req[p].approves =>
            req[p].action = "repair" /\ found[p] \in {"missing", "stale"}]_vars

\* One command at a time: a repair is blocked only where the document is the
\* user's, or where a command was killed between truncating and writing it.
BlockedExplained ==
  ~raced => \A p \in Proc : pc[p] = "event" /\ status[p] = "blocked" => byUser \/ torn
=============================================================================
