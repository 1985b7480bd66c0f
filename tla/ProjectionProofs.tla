-------------------------- MODULE ProjectionProofs --------------------------
(***************************************************************************)
(* Theorems about Projection, for any set of commands, any requests, any   *)
(* number of versions and any bound on the changes by others.              *)
(***************************************************************************)
EXTENDS Projection, FiniteSetTheorems, SequenceTheorems, TLAPS

-----------------------------------------------------------------------------
(* Types *)

Status == {"none", "ok", "drift", "repaired", "blocked", "needs_approval", "error"}
Found == {"missing", "up_to_date", "stale", "modified_externally"}
Entry == [by : Proc, status : Status, written : BOOLEAN]
TypeInv == TypeOK /\ log \in Seq(Entry)

LEMMA DocFacts ==
  /\ \A s \in Source : Text(s) \in Doc /\ Text(s).kind = "rendered"
  /\ \A k \in {"absent", "empty", "user", "touched"} : Other(k) \in Doc /\ Other(k).kind = k
  /\ \A d \in Doc : d.kind \in {"rendered", "absent", "empty", "user", "touched"}
BY DEF Doc, Text, Other

LEMMA OverlayFacts ==
  ASSUME NEW now \in Doc, NEW s \in Source, NEW d \in Overlay(now, Text(s))
  PROVE  d \in Doc /\ d.kind \notin {"user", "empty"}
<1>1. CASE now.kind = "absent"
  BY <1>1 DEF Overlay
<1>2. CASE now.kind # "absent"
  <2>1. d \in {Text(s), Other("touched")}
    BY <1>2 DEF Overlay
  <2> QED
    BY <2>1, DocFacts
<1> QED
  BY <1>1, <1>2

\* What a step of one command leaves alone.
Same(q) ==
  UNCHANGED <<req, pc[q], read[q], found[q], again[q], status[q], wrote[q]>>

Rendering(p) == ReadStore(p) \/ ReadContract(p) \/ Compare(p)
Deciding(p) == DecideStatus(p) \/ DecideRender(p) \/ DecideRepair(p) \/ Gate(p) \/ Approved(p)

LEMMA StepCases ==
  ASSUME NEW p \in Proc
  PROVE  Step(p) <=> Rendering(p) \/ Deciding(p) \/ Truncate(p) \/ WriteDoc(p) \/ Emit(p)
BY DEF Step, Rendering, Deciding

LEMMA Gone ==
  ASSUME TypeInv, NEW p \in Proc, NEW l \in PC, Goto(p, l)
  PROVE  pc' \in [Proc -> PC] /\ pc'[p] = l /\ \A q \in Proc \ {p} : pc'[q] = pc[q]
BY DEF Goto, TypeInv, TypeOK

LEMMA RenderingStep ==
  ASSUME TypeInv, NEW p \in Proc, Rendering(p)
  PROVE  /\ UNCHANGED <<source, doc, auditVars, again, status, wrote, histVars, spent>>
         /\ \A q \in Proc \ {p} : Same(q)
         /\ req' = req /\ pc' \in [Proc -> PC] /\ read' \in [Proc -> Source]
         /\ found' \in [Proc -> Found]
         /\ \/ /\ pc[p] \in {"idle", "store"} /\ pc'[p] = "contract" /\ found'[p] = found[p]
            \/ /\ pc[p] = "contract" /\ pc'[p] = "compare" /\ found'[p] = found[p]
            \/ /\ pc[p] = "compare" /\ found'[p] = StatusOf(doc, Text(read[p]))
               /\ pc'[p] = IF again[p] THEN "truncate" ELSE "decide"
<1>1. CASE ReadStore(p)
  <2>1. Goto(p, "contract") /\ pc'[p] = "contract" /\ \A q \in Proc \ {p} : pc'[q] = pc[q]
    BY <1>1, Gone DEF ReadStore, PC
  <2>2. read' \in [Proc -> Source] /\ \A q \in Proc \ {p} : read'[q] = read[q]
    BY <1>1 DEF ReadStore, TypeInv, TypeOK, Source
  <2> QED
    BY <1>1, <2>1, <2>2, Gone DEF ReadStore, Same, TypeInv, TypeOK, Found, PC
<1>2. CASE ReadContract(p)
  <2>1. Goto(p, "compare") /\ pc'[p] = "compare" /\ \A q \in Proc \ {p} : pc'[q] = pc[q]
    BY <1>2, Gone DEF ReadContract, PC
  <2>2. read' \in [Proc -> Source] /\ \A q \in Proc \ {p} : read'[q] = read[q]
    BY <1>2 DEF ReadContract, TypeInv, TypeOK, Source
  <2> QED
    BY <1>2, <2>1, <2>2, Gone DEF ReadContract, Same, TypeInv, TypeOK, Found, PC
<1>3. CASE Compare(p)
  <2>1. Goto(p, IF again[p] THEN "truncate" ELSE "decide")
    BY <1>3 DEF Compare
  <2>2. /\ pc' \in [Proc -> PC] /\ \A q \in Proc \ {p} : pc'[q] = pc[q]
        /\ pc'[p] = IF again[p] THEN "truncate" ELSE "decide"
    BY <2>1, Gone DEF PC
  <2>3. StatusOf(doc, Text(read[p])) \in Found
    BY DEF StatusOf, Found
  <2>4. /\ found' \in [Proc -> Found] /\ found'[p] = StatusOf(doc, Text(read[p]))
        /\ \A q \in Proc \ {p} : found'[q] = found[q]
    BY <1>3, <2>3 DEF Compare, TypeInv, TypeOK, Found
  <2> QED
    BY <1>3, <2>2, <2>4 DEF Compare, Same, TypeInv, TypeOK
<1> QED
  BY <1>1, <1>2, <1>3 DEF Rendering

LEMMA Reported ==
  ASSUME TypeInv, NEW p \in Proc, NEW s \in Status, Report(p, s)
  PROVE  /\ pc' \in [Proc -> PC] /\ pc'[p] = "event" /\ \A q \in Proc \ {p} : pc'[q] = pc[q]
         /\ status' \in [Proc -> Status] /\ status'[p] = s
         /\ \A q \in Proc \ {p} : status'[q] = status[q]
BY DEF Report, Goto, TypeInv, TypeOK, Status, PC

LEMMA DecidingStep ==
  ASSUME TypeInv, NEW p \in Proc, Deciding(p)
  PROVE  /\ UNCHANGED <<source, doc, auditVars, read, found, wrote, histVars, spent>>
         /\ \A q \in Proc \ {p} : Same(q)
         /\ req' = req /\ pc' \in [Proc -> PC]
         /\ again' \in [Proc -> BOOLEAN] /\ status' \in [Proc -> Status]
         /\ \/ /\ pc[p] = "decide" /\ again'[p] = again[p]
               /\ \/ pc'[p] = "event" /\ status'[p] # "blocked" /\ req[p].action # "repair"
                  \/ /\ pc'[p] = "gate" /\ req[p].action # "status"
                     /\ req[p].action = "repair" => found[p] \notin {"missing", "stale"}
                  \/ /\ pc'[p] = "truncate" /\ req[p].action = "repair"
                     /\ found[p] \in {"missing", "stale"}
            \/ /\ pc[p] = "gate" /\ again'[p] = again[p]
               /\ \/ pc'[p] = "event" /\ status'[p] # "blocked"
                  \/ pc'[p] = "approved" /\ req[p].approves
            \/ /\ pc[p] = "approved"
               /\ \/ /\ pc'[p] = "event" /\ again'[p] = again[p]
                     /\ status'[p] = "blocked" => found[p] = "modified_externally"
                  \/ /\ pc'[p] = "store" /\ again'[p] = TRUE
                     /\ req[p].action = "repair" => found[p] \in {"missing", "stale"}
<1> USE DEF Here
<1>a. found[p] \in Found /\ again \in [Proc -> BOOLEAN] /\ status \in [Proc -> Status]
  BY DEF TypeInv, TypeOK, Found, Status
<1>b. ASSUME NEW l \in PC, Goto(p, l), UNCHANGED <<status, again>>,
             UNCHANGED <<source, doc, auditVars, req, read, found, wrote, histVars, spent>>
      PROVE  /\ \A q \in Proc \ {p} : Same(q)
             /\ pc' \in [Proc -> PC] /\ pc'[p] = l
  BY <1>b, Gone DEF Same
<1>c. ASSUME NEW s \in Status, Report(p, s), UNCHANGED again,
             UNCHANGED <<source, doc, auditVars, req, read, found, wrote, histVars, spent>>
      PROVE  /\ \A q \in Proc \ {p} : Same(q)
             /\ pc' \in [Proc -> PC] /\ pc'[p] = "event"
             /\ status' \in [Proc -> Status] /\ status'[p] = s
  BY <1>c, Reported DEF Same
<1>1. CASE DecideStatus(p)
  <2>1. Report(p, IF Drift(p) THEN "drift" ELSE "ok")
    BY <1>1 DEF DecideStatus
  <2>2. PICK s \in {"drift", "ok"} : Report(p, s)
    BY <2>1
  <2>3. s \in Status /\ s # "blocked"
    BY DEF Status
  <2> QED
    BY <1>1, <1>a, <2>2, <2>3, <1>c DEF DecideStatus
<1>2. CASE DecideRender(p)
  <2>1. CASE req[p].dry
    BY <1>2, <1>a, <2>1, <1>c DEF DecideRender, Status
  <2>2. CASE ~req[p].dry
    BY <1>2, <1>a, <2>2, <1>b DEF DecideRender, PC
  <2> QED
    BY <2>1, <2>2
<1>3. CASE DecideRepair(p)
  <2>1. CASE Drift(p) /\ found[p] # "modified_externally"
    BY <1>3, <1>a, <2>1, <1>b DEF DecideRepair, PC, Drift, Found
  <2>2. CASE ~(Drift(p) /\ found[p] # "modified_externally")
    BY <1>3, <1>a, <2>2, <1>b DEF DecideRepair, PC, Drift
  <2> QED
    BY <2>1, <2>2
<1>4. CASE Gate(p)
  <2>1. CASE req[p].approves
    BY <1>4, <1>a, <2>1, <1>b DEF Gate, PC
  <2>2. CASE ~req[p].approves
    BY <1>4, <1>a, <2>2, <1>c DEF Gate, Status
  <2> QED
    BY <2>1, <2>2
<1>5. CASE Approved(p)
  <2>1. CASE req[p].action = "repair" /\ found[p] = "modified_externally"
    BY <1>5, <1>a, <2>1, <1>c DEF Approved, Status
  <2>2. CASE req[p].action = "repair" /\ found[p] = "up_to_date"
    BY <1>5, <1>a, <2>2, <1>c DEF Approved, Status, Drift
  <2>3. CASE ~(req[p].action = "repair" /\ found[p] \in {"modified_externally", "up_to_date"})
    <3>1. Goto(p, "store") /\ again' = [again EXCEPT ![p] = TRUE] /\ UNCHANGED status
      BY <1>5, <2>3 DEF Approved, Drift
    <3>2. /\ again' \in [Proc -> BOOLEAN] /\ again'[p] = TRUE
          /\ \A q \in Proc \ {p} : again'[q] = again[q]
      BY <1>a, <3>1
    <3>3. pc' \in [Proc -> PC] /\ pc'[p] = "store" /\ \A q \in Proc \ {p} : pc'[q] = pc[q]
      BY <3>1, Gone DEF PC
    <3> QED
      BY <1>5, <1>a, <2>3, <3>1, <3>2, <3>3 DEF Approved, Same, Found
  <2> QED
    BY <1>5, <2>1, <2>2, <2>3
<1> QED
  BY <1>1, <1>2, <1>3, <1>4, <1>5 DEF Deciding

LEMMA TruncateStep ==
  ASSUME TypeInv, NEW p \in Proc, Truncate(p)
  PROVE  /\ UNCHANGED <<source, auditVars, req, read, found, again, status, torn, spent>>
         /\ \A q \in Proc \ {p} : Same(q)
         /\ pc[p] = "truncate" /\ pc' \in [Proc -> PC] /\ pc'[p] = "write"
         /\ wrote' \in [Proc -> BOOLEAN] /\ wrote'[p] = TRUE
         /\ doc' \in Doc /\ doc'.kind = "empty" /\ byUser' = FALSE
<1>1. pc' \in [Proc -> PC] /\ pc'[p] = "write" /\ \A q \in Proc \ {p} : pc'[q] = pc[q]
  BY Gone DEF Truncate, PC
<1>2. /\ wrote' \in [Proc -> BOOLEAN] /\ wrote'[p] = TRUE
      /\ \A q \in Proc \ {p} : wrote'[q] = wrote[q]
  BY DEF Truncate, TypeInv, TypeOK
<1>3. doc' \in Doc /\ doc'.kind = "empty"
  BY DocFacts DEF Truncate
<1> QED
  BY <1>1, <1>2, <1>3 DEF Truncate, Same

LEMMA WriteStep ==
  ASSUME TypeInv, NEW p \in Proc, WriteDoc(p)
  PROVE  /\ UNCHANGED <<source, auditVars, req, read, found, again, wrote, histVars, spent>>
         /\ \A q \in Proc \ {p} : Same(q)
         /\ pc[p] = "write" /\ pc' \in [Proc -> PC] /\ status' \in [Proc -> Status]
         /\ pc'[p] = (IF again[p] THEN "event" ELSE "gate")
         /\ again[p] => status'[p] # "blocked"
         /\ doc' \in Doc /\ doc'.kind \notin {"user", "empty"}
<1>1. doc' \in Doc /\ doc'.kind \notin {"user", "empty"}
  BY OverlayFacts DEF WriteDoc, TypeInv, TypeOK
<1>2. CASE again[p]
  <2>1. PICK s \in {"repaired", "ok"} : Report(p, s)
    BY <1>2 DEF WriteDoc
  <2>2. s \in Status /\ s # "blocked"
    BY DEF Status
  <2> QED
    BY <1>1, <1>2, <2>1, <2>2, Reported DEF WriteDoc, Same
<1>3. CASE ~again[p]
  <2>1. pc' \in [Proc -> PC] /\ pc'[p] = "gate" /\ \A q \in Proc \ {p} : pc'[q] = pc[q]
    BY <1>3, Gone DEF WriteDoc, PC
  <2> QED
    BY <1>1, <1>3, <2>1 DEF WriteDoc, Same, TypeInv, TypeOK, Status
<1> QED
  BY <1>2, <1>3

LEMMA EmitStep ==
  ASSUME TypeInv, NEW p \in Proc, Emit(p)
  PROVE  /\ UNCHANGED <<source, doc, req, read, found, again, wrote, histVars, spent>>
         /\ \A q \in Proc \ {p} : Same(q)
         /\ pc[p] = "event" /\ pc' \in [Proc -> PC] /\ pc'[p] = "done"
         /\ frozen' \in BOOLEAN /\ status' \in [Proc -> Status]
         /\ \E e \in Entry :
              /\ e.by = p /\ e.written = Written(p)
              /\ log' \in {log, Append(log, e)}
              /\ status'[p] # "error" => log' = Append(log, e)
<1> DEFINE e == [by |-> p, status |-> status[p], written |-> Written(p)]
<1>1. e \in Entry /\ e.by = p /\ e.written = Written(p)
  BY DEF Entry, TypeInv, TypeOK, Status, Written
<1>2. pc' \in [Proc -> PC] /\ pc'[p] = "done" /\ \A q \in Proc \ {p} : pc'[q] = pc[q]
  BY Gone DEF Emit, PC
<1>3. \/ log' = Append(log, e) /\ UNCHANGED <<frozen, status>>
      \/ /\ log' \in {log, Append(log, e)} /\ frozen' = TRUE
         /\ status' = [status EXCEPT ![p] = "error"]
  BY DEF Emit
<1> HIDE DEF e
<1>4. /\ frozen' \in BOOLEAN /\ status' \in [Proc -> Status]
      /\ \A q \in Proc \ {p} : status'[q] = status[q]
      /\ status'[p] # "error" => log' = Append(log, e)
      /\ log' \in {log, Append(log, e)}
  BY <1>3 DEF TypeInv, TypeOK, Status
<1> QED
  BY <1>1, <1>2, <1>4 DEF Emit, Same

LEMMA KillStep ==
  ASSUME TypeInv, NEW p \in Proc, Kill(p)
  PROVE  /\ UNCHANGED <<source, doc, auditVars, req, read, found, again, status, wrote,
                        byUser, spent>>
         /\ \A q \in Proc \ {p} : Same(q)
         /\ Running(p) /\ pc' \in [Proc -> PC] /\ pc'[p] = "killed"
         /\ torn' = (torn \/ pc[p] = "write")
<1>1. pc' \in [Proc -> PC] /\ pc'[p] = "killed" /\ \A q \in Proc \ {p} : pc'[q] = pc[q]
  BY Gone DEF Kill, PC
<1> QED
  BY <1>1 DEF Kill, Same

LEMMA SameOthers ==
  ASSUME TypeInv, NEW p \in Proc, Step(p) \/ Kill(p)
  PROVE  \A q \in Proc \ {p} : Same(q)
<1>1. CASE Rendering(p) \/ Deciding(p)
  BY <1>1, RenderingStep, DecidingStep
<1>2. CASE Truncate(p) \/ WriteDoc(p)
  BY <1>2, TruncateStep, WriteStep
<1>3. CASE Emit(p) \/ Kill(p)
  BY <1>3, EmitStep, KillStep
<1> QED
  BY <1>1, <1>2, <1>3, StepCases

LEMMA WorldStep ==
  ASSUME TypeInv, World
  PROVE  /\ UNCHANGED <<auditVars, pc, req, read, found, again, status, wrote, torn>>
         /\ source' \in Source /\ doc' \in Doc /\ spent' \in 0..Edits /\ byUser' \in BOOLEAN
         /\ doc'.kind # "empty" \/ doc' = doc
         /\ byUser' <=> (IF doc' = doc THEN byUser ELSE doc'.kind = "user")
<1>1. CASE \E k \in {"store", "contract"} : ChangeSource(k)
  <2>1. PICK k \in {"store", "contract"} : ChangeSource(k)
    BY <1>1
  <2>2. source' \in Source
    BY <2>1, ProjectionAssumption DEF ChangeSource, Others, TypeInv, TypeOK, Source
  <2> QED
    BY <2>1, <2>2, ProjectionAssumption DEF ChangeSource, Others, TypeInv, TypeOK
<1>2. CASE EditDoc
  <2>1. PICK k \in {"user", "absent", "touched"} : Others(source, Other(k)) /\ byUser' = (k = "user")
    BY <1>2 DEF EditDoc
  <2>2. doc' \in Doc /\ doc'.kind = k /\ doc' # doc
    BY <1>2, <2>1, DocFacts DEF EditDoc, Others
  <2>3. byUser' \in BOOLEAN /\ (byUser' <=> k = "user")
    BY <2>1
  <2>4. UNCHANGED <<auditVars, pc, req, read, found, again, status, wrote, torn>> /\ source' = source
    BY <2>1 DEF Others
  <2>5. source' \in Source /\ spent' \in 0..Edits
    BY <2>1, ProjectionAssumption DEF Others, TypeInv, TypeOK
  <2> QED
    BY <2>1, <2>2, <2>3, <2>4, <2>5
<1> QED
  BY <1>1, <1>2 DEF World

-----------------------------------------------------------------------------
(* Types, and what a command has at each step *)

LEMMA TypeNext == TypeInv /\ [Next]_vars => TypeInv'
<1> SUFFICES ASSUME TypeInv, [Next]_vars PROVE TypeInv'
  OBVIOUS
<1>a. TypeOK /\ log \in Seq(Entry) /\ frozen \in BOOLEAN
  BY DEF TypeInv, TypeOK
<1>b. ASSUME /\ source' \in Source /\ doc' \in Doc /\ log' \in Seq(Entry) /\ frozen' \in BOOLEAN
             /\ pc' \in [Proc -> PC] /\ req' = req /\ read' \in [Proc -> Source]
             /\ found' \in [Proc -> Found] /\ again' \in [Proc -> BOOLEAN]
             /\ status' \in [Proc -> Status] /\ wrote' \in [Proc -> BOOLEAN]
             /\ torn' \in BOOLEAN /\ byUser' \in BOOLEAN /\ spent' \in 0..Edits
             /\ raced' \in BOOLEAN
      PROVE  TypeInv'
  <2>1. \A i \in 1..Len(log') : log'[i] \in Entry
    BY <1>b, ElementOfSeq
  <2>2. \A i \in 1..Len(log') : log'[i].by \in Proc /\ log'[i].written \in BOOLEAN
    BY <2>1 DEF Entry
  <2>3. TypeOK'
    BY <1>a, <1>b, <2>2 DEF TypeOK, Found, Status
  <2> QED
    BY <1>b, <2>3 DEF TypeInv, Entry, Status
<1>c. raced' \in BOOLEAN
  <2>1. ASSUME NEW overlap, Note(overlap)
        PROVE  raced' \in BOOLEAN
    BY <2>1 DEF Note
  <2>2. CASE Next
    BY <2>1, <2>2 DEF Next
  <2>3. CASE UNCHANGED vars
    BY <1>a, <2>3 DEF TypeOK, vars
  <2> QED
    BY <2>2, <2>3
<1>1. ASSUME NEW p \in Proc, Rendering(p)
      PROVE  TypeInv'
  BY <1>a, <1>b, <1>c, <1>1, RenderingStep DEF TypeOK, Status, auditVars, histVars
<1>2. ASSUME NEW p \in Proc, Deciding(p)
      PROVE  TypeInv'
  BY <1>a, <1>b, <1>c, <1>2, DecidingStep DEF TypeOK, Found, auditVars, histVars
<1>3. ASSUME NEW p \in Proc, Truncate(p)
      PROVE  TypeInv'
  BY <1>a, <1>b, <1>c, <1>3, TruncateStep DEF TypeOK, Found, Status, auditVars
<1>4. ASSUME NEW p \in Proc, WriteDoc(p)
      PROVE  TypeInv'
  BY <1>a, <1>b, <1>c, <1>4, WriteStep DEF TypeOK, Found, auditVars, histVars
<1>5. ASSUME NEW p \in Proc, Emit(p)
      PROVE  TypeInv'
  <2>1. log' \in Seq(Entry)
    BY <1>a, <1>5, EmitStep
  <2> QED
    BY <1>a, <1>b, <1>c, <1>5, <2>1, EmitStep DEF TypeOK, Found, histVars
<1>6. ASSUME NEW p \in Proc, Kill(p)
      PROVE  TypeInv'
  BY <1>a, <1>b, <1>c, <1>6, KillStep DEF TypeOK, Found, Status, auditVars
<1>7. CASE World
  BY <1>a, <1>b, <1>c, <1>7, WorldStep DEF TypeOK, Found, Status, auditVars
<1>8. CASE UNCHANGED vars
  BY <1>8 DEF vars, TypeInv, TypeOK
<1> QED
  BY <1>1, <1>2, <1>3, <1>4, <1>5, <1>6, <1>7, <1>8, StepCases DEF Next

\* What a command has written by the place it is at: it has changed the document
\* in its second rendering, or as a repair of what was missing or stale.
Ctl(p) ==
  /\ again[p] => /\ pc[p] \in {"store", "contract", "compare", "truncate", "write", "event",
                               "done", "killed"}
                 /\ req[p].approves /\ req[p].action # "status"
  /\ pc[p] = "store" => again[p]
  /\ ~again[p] /\ pc[p] \in {"idle", "contract", "compare", "decide"} => ~wrote[p]
  /\ ~again[p] /\ pc[p] \in {"truncate", "write"} =>
       req[p].action = "repair" /\ found[p] \in {"missing", "stale"}
  /\ pc[p] \in {"gate", "approved"} => req[p].action # "status"
  /\ pc[p] = "approved" => req[p].approves
  /\ pc[p] = "write" => wrote[p]
  /\ pc[p] \in {"gate", "approved", "event"} => wrote[p] = Written(p)

\* The events of a command.
Mine(p) == {i \in 1..Len(log) : log[i].by = p}
Traced(p) ==
  /\ pc[p] # "done" => Mine(p) = {}
  /\ pc[p] = "done" /\ status[p] # "error" =>
       \E i \in 1..Len(log) : Mine(p) = {i} /\ log[i].written = wrote[p]

CommandInv == TypeInv /\ \A p \in Proc : Ctl(p) /\ Traced(p)

-----------------------------------------------------------------------------
(* What the events say *)

LEMMA CtlKept ==
  ASSUME NEW q \in Proc, Ctl(q), Same(q)
  PROVE  Ctl(q)'
BY DEF Ctl, Same, Written

LEMMA TracedKept ==
  ASSUME NEW q \in Proc, Traced(q), Same(q), log' = log
  PROVE  Traced(q)'
BY DEF Traced, Mine, Same

LEMMA CtlStep ==
  ASSUME TypeInv, NEW p \in Proc, Ctl(p), Step(p) \/ Kill(p)
  PROVE  Ctl(p)'
<1>a. /\ again[p] \in BOOLEAN /\ wrote[p] \in BOOLEAN /\ found[p] \in Found
  BY DEF TypeInv, TypeOK, Found
<1>1. CASE Rendering(p)
  BY <1>1, <1>a, RenderingStep DEF Ctl
<1>2. CASE Deciding(p)
  <2>1. /\ wrote' = wrote /\ found' = found /\ req' = req
        /\ pc[p] \in {"decide", "gate", "approved"} /\ ~again[p]
    BY <1>2, DecidingStep DEF Ctl
  <2>2. CASE pc'[p] = "store"
    BY <1>2, <2>1, <2>2, DecidingStep DEF Ctl
  <2>3. CASE pc'[p] = "truncate"
    BY <1>2, <2>1, <2>3, DecidingStep DEF Ctl
  <2>4. CASE pc'[p] \in {"event", "gate", "approved"}
    <3>1. ~again'[p] /\ (pc'[p] = "gate" => pc[p] = "decide")
      BY <1>2, <2>1, <2>4, DecidingStep
    <3>2. Written(p)' <=> req[p].action = "repair" /\ found[p] \in {"missing", "stale"}
      BY <2>1, <3>1 DEF Written
    <3>3. wrote[p] <=> req[p].action = "repair" /\ found[p] \in {"missing", "stale"}
      <4>1. CASE pc[p] = "decide"
        BY <1>2, <2>1, <2>4, <4>1, DecidingStep DEF Ctl
      <4>2. CASE pc[p] # "decide"
        BY <2>1, <4>2 DEF Ctl, Written
      <4> QED
        BY <4>1, <4>2
    <3>4. wrote'[p] = Written(p)'
      <4>1. Written(p)' \in BOOLEAN
        BY DEF Written
      <4> QED
        BY <1>a, <2>1, <3>2, <3>3, <4>1
    <3>5. /\ pc'[p] \in {"gate", "approved"} => req[p].action # "status"
          /\ pc'[p] = "approved" => req[p].approves
      BY <1>2, <2>4, DecidingStep DEF Ctl
    <3> QED
      BY <2>1, <2>4, <3>1, <3>4, <3>5 DEF Ctl
  <2> QED
    BY <1>2, <2>2, <2>3, <2>4, DecidingStep
<1>3. CASE Truncate(p)
  <2>1. /\ found' = found /\ req' = req /\ again' = again /\ wrote'[p]
        /\ pc[p] = "truncate" /\ pc'[p] = "write"
    BY <1>3, TruncateStep
  <2> QED
    BY <2>1 DEF Ctl
<1>4. CASE WriteDoc(p)
  <2>1. /\ UNCHANGED <<wrote, found, req, again>> /\ pc[p] = "write" /\ wrote[p]
        /\ pc'[p] = IF again[p] THEN "event" ELSE "gate"
    BY <1>4, WriteStep DEF Ctl
  <2>2. Written(p)'
    BY <2>1 DEF Ctl, Written
  <2>3. wrote'[p] = Written(p)'
    <3>1. Written(p)' \in BOOLEAN
      BY DEF Written
    <3> QED
      BY <1>a, <2>1, <2>2, <3>1
  <2> QED
    BY <1>a, <2>1, <2>3 DEF Ctl
<1>5. CASE Emit(p)
  BY <1>5, <1>a, EmitStep DEF Ctl
<1>6. CASE Kill(p)
  BY <1>6, <1>a, KillStep DEF Ctl
<1> QED
  BY <1>1, <1>2, <1>3, <1>4, <1>5, <1>6, StepCases

LEMMA CommandNext == CommandInv /\ [Next]_vars => CommandInv'
<1> SUFFICES ASSUME CommandInv, [Next]_vars, NEW q \in Proc
             PROVE  Ctl(q)' /\ Traced(q)'
  BY TypeNext DEF CommandInv
<1> USE DEF CommandInv
<1>1. ASSUME NEW p \in Proc, Step(p) \/ Kill(p), ~Emit(p)
      PROVE  Ctl(q)' /\ Traced(q)'
  <2>1. log' = log /\ (q # p => Same(q)) /\ pc[p] # "done" /\ pc'[p] # "done"
    BY <1>1, StepCases, RenderingStep, DecidingStep, TruncateStep, WriteStep, KillStep
       DEF auditVars, Running
  <2>2. CASE q # p
    BY <2>1, <2>2, CtlKept, TracedKept
  <2>3. CASE q = p
    BY <1>1, <2>1, <2>3, CtlStep DEF Traced, Mine
  <2> QED
    BY <2>2, <2>3
<1>2. ASSUME NEW p \in Proc, Emit(p)
      PROVE  Ctl(q)' /\ Traced(q)'
  <2>1. PICK e \in Entry : /\ e.by = p /\ e.written = Written(p)
                           /\ log' \in {log, Append(log, e)}
                           /\ status'[p] # "error" => log' = Append(log, e)
    BY <1>2, EmitStep
  <2>2. log \in Seq(Entry) /\ Len(log) \in Nat
    BY DEF TypeInv
  <2>3. /\ pc[p] = "event" /\ pc'[p] = "done" /\ wrote' = wrote
        /\ q # p => Same(q)
    BY <1>2, EmitStep
  <2>4. CASE log' = log
    <3>1. CASE q # p
      BY <2>3, <2>4, <3>1, CtlKept, TracedKept
    <3>2. CASE q = p
      <4>1. status'[p] = "error"
        BY <2>1, <2>2, <2>4
      <4> QED
        BY <1>2, <2>3, <3>2, <4>1, CtlStep, StepCases DEF Traced
    <3> QED
      BY <3>1, <3>2
  <2>5. CASE log' = Append(log, e)
    <3>1. /\ Len(log') = Len(log) + 1 /\ log'[Len(log) + 1] = e
          /\ \A i \in 1..Len(log) : log'[i] = log[i]
      BY <2>2, <2>5
    <3>2. CASE q # p
      <4>1. Mine(q)' = Mine(q)
        BY <2>1, <2>2, <3>1, <3>2 DEF Mine
      <4> QED
        BY <2>2, <2>3, <3>1, <3>2, <4>1, CtlKept DEF Traced, Same, Mine
    <3>3. CASE q = p
      <4>1. Mine(p) = {} /\ wrote[p] = Written(p)
        BY <2>3 DEF Traced, Ctl
      <4>2. Mine(p)' = {Len(log) + 1}
        BY <2>1, <2>2, <3>1, <4>1 DEF Mine
      <4>3. Len(log) + 1 \in 1..Len(log') /\ log'[Len(log) + 1].written = wrote'[p]
        BY <2>1, <2>2, <2>3, <3>1, <4>1
      <4>4. Traced(p)'
        BY <2>3, <4>2, <4>3 DEF Traced
      <4> QED
        BY <1>2, <3>3, <4>4, CtlStep, StepCases
    <3> QED
      BY <3>2, <3>3
  <2> QED
    BY <2>1, <2>4, <2>5
<1>3. CASE World \/ UNCHANGED vars
  <2>1. Same(q) /\ log' = log
    BY <1>3, WorldStep DEF Same, auditVars, vars
  <2> QED
    BY <2>1, CtlKept, TracedKept
<1> QED
  BY <1>1, <1>2, <1>3 DEF Next

LEMMA InitInv == Init => CommandInv
<1> SUFFICES ASSUME Init PROVE CommandInv
  OBVIOUS
<1>1. source \in Source /\ doc \in Doc
  BY ProjectionAssumption, DocFacts DEF Init, Source
<1>2. TypeOK
  <2>0. byUser \in BOOLEAN
    BY DEF Init
  <2>1. /\ torn \in BOOLEAN /\ raced \in BOOLEAN /\ frozen \in BOOLEAN
        /\ req \in [Proc -> Requests] /\ Len(log) = 0
    BY DEF Init
  <2>4. spent = 0 /\ spent \in 0..Edits
    <3>1. spent = 0
      BY DEF Init
    <3> QED
      BY <3>1, ProjectionAssumption
  <2>2. /\ pc \in [Proc -> PC] /\ read \in [Proc -> Source] /\ again \in [Proc -> BOOLEAN]
        /\ found \in [Proc -> Found] /\ status \in [Proc -> Status] /\ wrote \in [Proc -> BOOLEAN]
    BY <1>1 DEF Init, PC, Found, Status
  <2>3. \A i \in 1..Len(log) : log[i].by \in Proc /\ log[i].written \in BOOLEAN
    BY <2>1
  <2> QED
    BY <1>1, <2>0, <2>1, <2>2, <2>3, <2>4 DEF TypeOK, Found, Status
<1>3. log \in Seq(Entry)
  BY DEF Init
<1>4. \A p \in Proc : Ctl(p) /\ Traced(p)
  BY DEF Init, Ctl, Traced, Mine
<1> QED
  BY <1>2, <1>3, <1>4 DEF CommandInv, TypeInv

LEMMA CommandAlways == Spec => []CommandInv
BY InitInv, CommandNext, PTL DEF Spec

\* Type correctness of the files, the log and the commands' locals.
THEOREM TypeSafe == Spec => []TypeOK
<1>1. CommandInv => TypeOK
  BY DEF CommandInv, TypeInv
<1> QED
  BY <1>1, CommandAlways, PTL

\* emitProjectionWithEvent appends once, and resp.Written is what Repair and
\* Write did, whatever the interleaving.
THEOREM EventsAreTruthful == Spec => []EventTruthful
<1>1. CommandInv => EventTruthful
  <2> SUFFICES ASSUME CommandInv, NEW p \in Proc, pc[p] = "done", status[p] # "error"
               PROVE  Cardinality(Mine(p)) = 1 /\ \A i \in Mine(p) : log[i].written = wrote[p]
    BY DEF EventTruthful, Mine
  <2>1. PICK i \in 1..Len(log) : Mine(p) = {i} /\ log[i].written = wrote[p]
    BY DEF CommandInv, Traced
  <2> QED
    BY <2>1, FS_Singleton
<1> QED
  BY <1>1, CommandAlways, PTL

-----------------------------------------------------------------------------
(* Commands one at a time *)

OneRuns == \A p, q \in Proc : p # q => ~(Running(p) /\ Running(q))

\* A document of the user's is the user's, an empty one has a writer or had one
\* that was killed; this holds whatever races.
DocInv ==
  /\ doc.kind = "user" => byUser
  /\ doc.kind = "empty" => torn \/ \E p \in Proc : pc[p] = "write"

\* What a command found is still so, and a repair rewrites nothing of the user's.
Fresh(p) ==
  /\ byUser /\ pc[p] \in {"decide", "gate", "approved", "truncate"} /\ ~again[p] =>
       found[p] = "modified_externally"
  /\ found[p] = "modified_externally" /\ pc[p] \in {"decide", "gate", "approved"} /\ ~again[p] =>
       byUser \/ torn
  /\ pc[p] = "event" /\ status[p] = "blocked" => byUser \/ torn
  /\ byUser /\ again[p] /\ Running(p) => req[p].action = "render"
  /\ pc[p] = "write" => ~byUser
AloneInv ==
  ~raced => /\ OneRuns
            /\ byUser => doc.kind = "user"
            /\ \A p \in Proc : Fresh(p)

LEMMA DocKept ==
  ASSUME DocInv, doc' = doc, torn' <=> torn, byUser' <=> byUser,
         (\E p \in Proc : pc[p] = "write") => \E p \in Proc : pc'[p] = "write"
  PROVE  DocInv'
BY DEF DocInv

LEMMA DocNext == CommandInv /\ DocInv /\ [Next]_vars => DocInv'
<1> SUFFICES ASSUME CommandInv, DocInv, [Next]_vars PROVE DocInv'
  OBVIOUS
<1> USE DEF CommandInv
<1>1. ASSUME NEW p \in Proc, Rendering(p) \/ Deciding(p) \/ Emit(p)
      PROVE  DocInv'
  <2>1. /\ UNCHANGED <<doc, histVars>> /\ pc[p] # "write"
        /\ \A q \in Proc \ {p} : Same(q)
    <3>1. CASE Rendering(p)
      BY <3>1, RenderingStep
    <3>2. CASE Deciding(p)
      BY <3>2, DecidingStep
    <3>3. CASE Emit(p)
      BY <3>3, EmitStep
    <3> QED
      BY <1>1, <3>1, <3>2, <3>3
  <2>2. (\E q \in Proc : pc[q] = "write") => \E q \in Proc : pc'[q] = "write"
    BY <2>1 DEF Same
  <2> QED
    BY <2>1, <2>2, DocKept DEF histVars
<1>2. ASSUME NEW p \in Proc, Truncate(p)
      PROVE  DocInv'
  BY <1>2, TruncateStep DEF DocInv
<1>3. ASSUME NEW p \in Proc, WriteDoc(p)
      PROVE  DocInv'
  BY <1>3, WriteStep DEF DocInv
<1>4. ASSUME NEW p \in Proc, Kill(p)
      PROVE  DocInv'
  <2>1. /\ UNCHANGED <<doc, byUser>> /\ torn' = (torn \/ pc[p] = "write")
        /\ \A q \in Proc \ {p} : pc'[q] = pc[q]
    BY <1>4, KillStep DEF Same
  <2> QED
    BY <2>1 DEF DocInv
<1>5. CASE World
  <2>1. /\ UNCHANGED <<pc, torn>> /\ (doc'.kind # "empty" \/ doc' = doc)
        /\ byUser' <=> (IF doc' = doc THEN byUser ELSE doc'.kind = "user")
    BY <1>5, WorldStep
  <2> QED
    BY <2>1 DEF DocInv
<1>6. CASE UNCHANGED vars
  BY <1>6 DEF DocInv, vars
<1> QED
  BY <1>1, <1>2, <1>3, <1>4, <1>5, <1>6, StepCases DEF Next

LEMMA FreshKept ==
  ASSUME NEW q \in Proc, ~Running(q), pc'[q] = pc[q]
  PROVE  Fresh(q)' /\ ~Running(q)'
BY DEF Fresh, Running

LEMMA FreshStep ==
  ASSUME CommandInv, DocInv, NEW p \in Proc, Fresh(p), byUser => doc.kind = "user",
         \A q \in Proc \ {p} : ~Running(q), Step(p) \/ Kill(p)
  PROVE  (byUser' => doc'.kind = "user") /\ Fresh(p)'
<1>a. /\ TypeInv /\ Ctl(p) /\ doc \in Doc
      /\ byUser \in BOOLEAN /\ torn \in BOOLEAN /\ again[p] \in BOOLEAN
  BY DEF CommandInv, TypeInv, TypeOK
<1>b. req[p].action \in {"render", "status", "repair"}
  BY <1>a, ProjectionAssumption DEF TypeInv, TypeOK, Request
<1>1. CASE Rendering(p)
  <2>1. UNCHANGED <<doc, byUser, torn, again, status, req>>
    BY <1>1, <1>a, RenderingStep DEF histVars
  <2>2. CASE pc'[p] \in {"contract", "compare"}
    <3>1. pc[p] # "idle" => Running(p)
      BY <1>1, <1>a, RenderingStep DEF Running
    <3>2. again[p] => Running(p)
      BY <1>a, <3>1 DEF Ctl
    <3> QED
      BY <2>1, <2>2, <3>2 DEF Fresh
  <2>3. CASE pc'[p] \notin {"contract", "compare"}
    <3>1. /\ pc[p] = "compare" /\ found'[p] = StatusOf(doc, Text(read[p]))
          /\ pc'[p] = IF again[p] THEN "truncate" ELSE "decide"
      BY <1>1, <1>a, <2>3, RenderingStep
    <3>2. read[p] \in Source /\ Text(read[p]).kind = "rendered"
      BY <1>a, DocFacts DEF TypeInv, TypeOK
    <3>3. byUser => found'[p] = "modified_externally"
      BY <3>1, <3>2 DEF StatusOf, Marked
    <3>4. found'[p] = "modified_externally" => doc.kind \in {"user", "empty"}
      BY <1>a, <3>1, DocFacts DEF StatusOf, Marked
    <3>5. ~\E q \in Proc : pc[q] = "write"
      BY <3>1 DEF Running
    <3>6. found'[p] = "modified_externally" => byUser \/ torn
      BY <3>4, <3>5 DEF DocInv
    <3>7. Running(p)
      BY <3>1 DEF Running
    <3> QED
      BY <2>1, <3>1, <3>3, <3>6, <3>7 DEF Fresh
  <2> QED
    BY <2>2, <2>3
<1>2. CASE Deciding(p)
  <2>1. /\ UNCHANGED <<doc, byUser, torn, found, req>> /\ ~again[p]
        /\ pc[p] \in {"decide", "gate", "approved"}
    BY <1>2, <1>a, DecidingStep DEF histVars, Ctl
  <2>2. CASE pc'[p] = "store"
    BY <1>2, <1>a, <1>b, <2>1, <2>2, DecidingStep DEF Fresh, Ctl
  <2>3. CASE pc'[p] = "event"
    BY <1>2, <1>a, <2>1, <2>3, DecidingStep DEF Fresh
  <2>4. CASE pc'[p] \in {"gate", "approved", "truncate"}
    BY <1>2, <1>a, <2>1, <2>4, DecidingStep DEF Fresh
  <2> QED
    BY <1>2, <1>a, <2>2, <2>3, <2>4, DecidingStep
<1>3. CASE Truncate(p)
  BY <1>3, <1>a, TruncateStep DEF Fresh
<1>4. CASE WriteDoc(p)
  <2>1. /\ ~byUser /\ byUser' = byUser /\ torn' = torn /\ found' = found /\ again' = again
        /\ pc'[p] = (IF again[p] THEN "event" ELSE "gate")
        /\ again[p] => status'[p] # "blocked"
        /\ ~again[p] => found[p] \in {"missing", "stale"}
    BY <1>4, <1>a, WriteStep DEF Fresh, Ctl, histVars
  <2> QED
    BY <2>1 DEF Fresh
<1>5. CASE Emit(p) \/ Kill(p)
  <2>1. /\ UNCHANGED <<doc, byUser>> /\ pc'[p] \in {"done", "killed"}
    BY <1>5, <1>a, EmitStep, KillStep DEF histVars
  <2> QED
    BY <2>1 DEF Fresh, Running
<1> QED
  BY <1>1, <1>2, <1>3, <1>4, <1>5, StepCases

\* Without a race, the command that steps is the only one under way.
LEMMA Alone ==
  ASSUME [Next]_vars, ~raced'
  PROVE  /\ ~raced
         /\ \/ \E p \in Proc : (Step(p) \/ Kill(p)) /\ \A q \in Proc \ {p} : ~Running(q)
            \/ World /\ \A q \in Proc : ~Running(q)
            \/ UNCHANGED vars
<1>1. CASE UNCHANGED vars
  BY <1>1 DEF vars
<1>2. CASE Next
  BY <1>2 DEF Next, Note
<1> QED
  BY <1>1, <1>2

LEMMA AloneNext == CommandInv /\ DocInv /\ AloneInv /\ [Next]_vars => AloneInv'
<1> SUFFICES ASSUME CommandInv, DocInv, AloneInv, [Next]_vars, ~raced'
             PROVE  /\ OneRuns'
                    /\ (byUser' => doc'.kind = "user")
                    /\ \A p \in Proc : Fresh(p)'
  BY DEF AloneInv
<1>a. /\ ~raced /\ TypeInv /\ OneRuns /\ (byUser => doc.kind = "user")
      /\ \A p \in Proc : Fresh(p)
  BY Alone DEF AloneInv, CommandInv
<1>1. ASSUME NEW p \in Proc, Step(p) \/ Kill(p), \A q \in Proc \ {p} : ~Running(q)
      PROVE  /\ OneRuns'
             /\ (byUser' => doc'.kind = "user")
             /\ \A q \in Proc : Fresh(q)'
  <2>1. \A q \in Proc \ {p} : pc'[q] = pc[q]
    BY <1>a, <1>1, SameOthers DEF Same
  <2>2. \A q \in Proc \ {p} : Fresh(q)' /\ ~Running(q)'
    BY <1>1, <2>1, FreshKept
  <2>3. (byUser' => doc'.kind = "user") /\ Fresh(p)'
    BY <1>a, <1>1, FreshStep
  <2> QED
    BY <2>2, <2>3 DEF OneRuns
<1>2. ASSUME World, \A q \in Proc : ~Running(q)
      PROVE  /\ OneRuns'
             /\ (byUser' => doc'.kind = "user")
             /\ \A q \in Proc : Fresh(q)'
  <2>1. pc' = pc /\ (byUser' => doc'.kind = "user")
    BY <1>a, <1>2, WorldStep
  <2>2. \A q \in Proc : Fresh(q)' /\ ~Running(q)'
    BY <1>2, <2>1, FreshKept
  <2> QED
    BY <2>1, <2>2 DEF OneRuns
<1>3. CASE UNCHANGED vars
  BY <1>a, <1>3 DEF vars, OneRuns, Fresh, Running
<1> QED
  BY <1>1, <1>2, <1>3, Alone

LEMMA AloneInit == Init => DocInv /\ AloneInv
<1> SUFFICES ASSUME Init PROVE DocInv /\ AloneInv
  OBVIOUS
<1>1. doc.kind # "empty" /\ (byUser <=> doc.kind = "user")
  <2>1. source \in Source
    BY ProjectionAssumption DEF Init, Source
  <2> QED
    BY <2>1, DocFacts DEF Init
<1> QED
  BY <1>1 DEF Init, DocInv, AloneInv, OneRuns, Fresh, Running

LEMMA AloneAlways == Spec => [](DocInv /\ AloneInv)
<1>1. CommandInv /\ (DocInv /\ AloneInv) /\ [Next]_vars => (DocInv /\ AloneInv)'
  BY DocNext, AloneNext
<1> QED
  BY <1>1, AloneInit, CommandAlways, PTL DEF Spec

\* projection.Repair takes for the user's what carries no marker, and so blocks
\* over nothing else but what a killed command has truncated.
THEOREM BlocksAreExplained == Spec => []BlockedExplained
<1>1. AloneInv => BlockedExplained
  BY DEF AloneInv, Fresh, BlockedExplained
<1> QED
  BY <1>1, AloneAlways, PTL

\* What the user put in place of the document is replaced by an approved render
\* only; without approval repair alone writes, before its prompt.
THEOREM UserDocIsSpared == Spec => UserDocSpared
<1> DEFINE A == \A p \in Proc :
                  /\ byUser /\ ~byUser' /\ pc'[p] # pc[p] /\ ~raced' =>
                       req[p].action = "render" /\ req[p].approves
                  /\ wrote[p] # wrote'[p] /\ ~req[p].approves =>
                       req[p].action = "repair" /\ found[p] \in {"missing", "stale"}
<1>1. CommandInv /\ AloneInv /\ [Next]_vars => A
  <2> SUFFICES ASSUME CommandInv, AloneInv, [Next]_vars, NEW p \in Proc
               PROVE  /\ byUser /\ ~byUser' /\ pc'[p] # pc[p] /\ ~raced' =>
                            req[p].action = "render" /\ req[p].approves
                      /\ wrote[p] # wrote'[p] /\ ~req[p].approves =>
                            req[p].action = "repair" /\ found[p] \in {"missing", "stale"}
    OBVIOUS
  <2>a. TypeInv /\ Ctl(p)
    BY DEF CommandInv
  <2>1. CASE Truncate(p)
    <3>1. ~again[p] => req[p].action = "repair" /\ found[p] \in {"missing", "stale"}
      BY <2>a, <2>1, TruncateStep DEF Ctl
    <3>2. again[p] => req[p].approves
      BY <2>a DEF Ctl
    <3>3. ASSUME byUser, ~raced'
          PROVE  again[p] /\ req[p].action = "render"
      <4>1. Fresh(p) /\ pc[p] = "truncate"
        BY <2>a, <2>1, <3>3, Alone, TruncateStep DEF AloneInv
      <4>2. again[p]
        BY <3>1, <3>3, <4>1 DEF Fresh
      <4> QED
        BY <3>3, <4>1, <4>2 DEF Fresh, Running
    <3> QED
      BY <3>1, <3>2, <3>3
  <2>2. CASE Step(p) \/ Kill(p)
    <3>1. CASE Rendering(p) \/ Deciding(p) \/ WriteDoc(p) \/ Emit(p) \/ Kill(p)
      BY <2>a, <3>1, RenderingStep, DecidingStep, WriteStep, EmitStep, KillStep DEF histVars
    <3> QED
      BY <2>1, <2>2, <3>1, StepCases
  <2>3. ASSUME NEW q \in Proc \ {p}, Step(q) \/ Kill(q)
        PROVE  pc'[p] = pc[p] /\ wrote'[p] = wrote[p]
    BY <2>a, <2>3, SameOthers DEF Same
  <2>4. CASE World \/ UNCHANGED vars
    <3>1. pc'[p] = pc[p] /\ wrote'[p] = wrote[p]
      BY <2>a, <2>4, WorldStep DEF vars
    <3> QED
      BY <3>1
  <2> QED
    BY <2>2, <2>3, <2>4 DEF Next
<1> HIDE DEF A
<1>2. Spec => [][A]_vars
  BY <1>1, CommandAlways, AloneAlways, PTL DEF Spec
<1> QED
  BY <1>2 DEF UserDocSpared, A

=============================================================================
