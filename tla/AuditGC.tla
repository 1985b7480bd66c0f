------------------------------ MODULE AuditGC ------------------------------
(***************************************************************************)
(* "atrakta gc --scope events --apply" (cmd_gc.go) beside the commands     *)
(* that append to the run-events stream.  AuditLog is that stream; here a  *)
(* collector reads it, drops the events older than the retention period,   *)
(* and writes what is left, renumbered and rehashed, over the file.  Then  *)
(* it appends its own event as every command does.                         *)
(*                                                                         *)
(* All run events are recorded at A2, so the A3 branch that writes         *)
(* run-head.json is not taken.  The other stream, which gc verifies too    *)
(* and never writes, is left out, and so is the scope "tmp".               *)
(***************************************************************************)
EXTENDS AuditLog

CONSTANTS
  Collectors,  \* the invocations that are gc commands
  Old          \* the data older than the retention period

ASSUME CollectorAssumption ==
  /\ Collectors \subseteq Proc
  /\ Old \subseteq Data

VARIABLES
  gc,      \* where each collector is; at "append" it is an invocation of AuditLog
  plan,    \* the lines it is going to write
  at,      \* the number of the line it is at
  landed   \* history: the fresh data appended so far, in order

gcVars  == <<gc, plan, at>>
appendVars == <<checkpoint, pc, req, ev, pos, seen>>
allVars == <<vars, gcVars, landed>>

GC == {"idle", "plan", "create", "write", "verify", "append", "failed", "killed"}
Collecting(c) == gc[c] \in {"plan", "create", "write", "verify"}
GoGC(c, l) == gc' = [gc EXCEPT ![c] = l]

\* What buildGCRunEventsPlan keeps, event by event.
Fresh(lines) ==
  LET kept[i \in 0..Len(lines)] ==
        IF i = 0 THEN <<>>
        ELSE IF lines[i].data \in Old THEN kept[i - 1]
        ELSE Append(kept[i - 1], lines[i])
  IN kept[Len(lines)]

\* Mutant: the kept events keep their numbers and hashes.
KeepAsTheyAre(level, kept) == kept

\* What writeGCRunEvents makes of the events it keeps.
Rebuild(level, kept) ==
  LET built[i \in 0..Len(kept)] ==
        IF i = 0 THEN <<>>
        ELSE Append(built[i - 1], NewEvent(level, kept[i].data, built[i - 1]))
  IN built[Len(kept)]

GCInit ==
  /\ Init
  /\ \A c \in Collectors : req[c].append /\ req[c].level = A2 /\ req[c].data \notin Old
  /\ gc = [c \in Collectors |-> "idle"]
  /\ plan = [c \in Collectors |-> <<>>]
  /\ at = [c \in Collectors |-> 1]
  /\ landed = <<>>

-----------------------------------------------------------------------------
(* The steps of a collector *)

\* verifyGCAuditIntegrity, before anything else.
GCPreflight(c) ==
  /\ gc[c] = "idle"
  /\ GoGC(c, IF ChainOK(A2, log) THEN "plan" ELSE "failed")
  /\ UNCHANGED <<log, open, appendVars, plan, at, landed>>

\* Mutant: the newest event is forgotten.
GCPlanShort(c) ==
  /\ gc[c] = "plan"
  /\ readEvents(log)
  /\ plan' = [plan EXCEPT ![c] = Rebuild(A2, Fresh(SubSeq(log, 1, Len(log) - 1)))]
  /\ GoGC(c, IF \E i \in DOMAIN log : log[i].data \in Old THEN "create" ELSE "append")
  /\ UNCHANGED <<log, open, appendVars, at, landed>>

\* buildGCRunEventsPlan reads the file once more.
GCPlan(c) ==
  /\ gc[c] = "plan"
  /\ IF ~readEvents(log) THEN GoGC(c, "failed") /\ UNCHANGED plan
     ELSE IF \A i \in DOMAIN log : log[i].data \notin Old
       THEN GoGC(c, "append") /\ UNCHANGED plan
     ELSE /\ plan' = [plan EXCEPT ![c] = Rebuild(log[1].level, Fresh(log))]
          /\ GoGC(c, "create")
  /\ UNCHANGED <<log, open, appendVars, at, landed>>

\* os.Create truncates; a stream of which nothing is left is removed.
GCCreate(c) ==
  /\ gc[c] = "create"
  /\ log' = <<>>
  /\ open' = FALSE
  /\ GoGC(c, IF plan[c] = <<>> THEN "verify" ELSE "write")
  /\ UNCHANGED <<appendVars, plan, at, landed>>

\* The file was not opened for appending: a line is written where the one
\* before it ended, over whatever another command has put there, and when it
\* is shorter than that a fragment stays behind.
GCWriteLine(c) ==
  /\ gc[c] = "write"
  /\ LET line == plan[c][at[c]]
         tail == SubSeq(log, at[c] + 1, Len(log))
         head == Append(SubSeq(log, 1, at[c] - 1), line)
     IN \/ log' = head \o tail
        \/ at[c] <= Len(log) /\ log' = head \o <<Garbled>> \o tail
  /\ at' = [at EXCEPT ![c] = @ + 1]
  /\ GoGC(c, IF at[c] = Len(plan[c]) THEN "verify" ELSE "write")
  /\ UNCHANGED <<open, appendVars, plan, landed>>

\* verifyGCAuditIntegrity again; then gc_run is appended.
GCVerify(c) ==
  /\ gc[c] = "verify"
  /\ GoGC(c, IF ChainOK(A2, log) THEN "append" ELSE "failed")
  /\ UNCHANGED <<log, open, appendVars, plan, at, landed>>

GCKill(c) ==
  /\ Collecting(c)
  /\ GoGC(c, "killed")
  /\ UNCHANGED <<log, open, appendVars, plan, at, landed>>

Collect(c) ==
  \/ GCPreflight(c) \/ GCPlan(c) \/ GCCreate(c) \/ GCWriteLine(c) \/ GCVerify(c)
  \/ GCKill(c)

\* An appending command; a collector becomes one when it has collected.
Appending(p) ==
  /\ p \in Collectors => gc[p] = "append"
  /\ Step(p) \/ Kill(p)
  /\ landed' = IF pc[p] = "write" /\ pc'[p] # "killed" /\ req[p].data \notin Old
               THEN Append(landed, req[p].data) ELSE landed
  /\ UNCHANGED gcVars

GCNext == \/ \E c \in Collectors : Collect(c)
          \/ \E p \in Proc : Appending(p)
GCSpec == GCInit /\ [][GCNext]_allVars

Busy(p) ==
  \/ Running(p)
  \/ p \in Collectors /\ (Collecting(p) \/ (gc[p] = "append" /\ pc[p] = "start"))
SerialGCNext ==
  \E p \in Proc : /\ \A q \in Proc \ {p} : ~Busy(q)
                  /\ Appending(p) \/ (p \in Collectors /\ Collect(p))
SerialGCSpec == GCInit /\ [][SerialGCNext]_allVars

-----------------------------------------------------------------------------
(* Properties *)

\* The types of the variables.
GCTypeOK ==
  /\ gc \in [Collectors -> GC]
  /\ plan \in [Collectors -> Seq(Event)]
  /\ \A c \in Collectors : at[c] \in 1..Len(plan[c]) + 1
  /\ landed \in Seq(Data \ Old)

\* One command at a time the stream verifies at A2 in every state, also while a
\* collector rewrites it and after one was killed in the middle: AuditLog's
\* SerialChainOK.

\* One command at a time: collection is invisible to the fresh events; whoever
\* reads the stream finds all of them, in the order in which they came, unless
\* a collector was killed between its os.Create and its last line.
Settled == \A c \in Collectors : gc[c] \notin {"write", "killed"}
FreshRetained ==
  Settled => [i \in 1..Len(Fresh(log)) |-> Fresh(log)[i].data] = landed

\* ADR-004: the stream must remain append-only.  At the least, an event that is
\* not old and was reported recorded is not lost.
FreshNotLost ==
  Settled => \A p \in Proc : Acked(p) /\ req[p].data \notin Old =>
    \E i \in DOMAIN log : log[i] # Garbled /\ log[i].data = req[p].data
=============================================================================
