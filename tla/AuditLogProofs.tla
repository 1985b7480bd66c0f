--------------------------- MODULE AuditLogProofs ---------------------------
(***************************************************************************)
(* Theorems about AuditLog and AuditGC, for any set of invocations, any    *)
(* data and any requests.  The argument: the line an invocation writes     *)
(* stays where it landed (WriteInv), so a verification that passes after   *)
(* the write proves that the number the invocation holds is the number of  *)
(* its own line, and two invocations never own the same line.  The third   *)
(* part shows that AuditLog implements AuditLedger, and the last that a    *)
(* collector used alone is invisible to the events it keeps (GCInv).       *)
(***************************************************************************)
EXTENDS AuditGC, SequenceTheorems, WellFoundedInduction, TLAPS

-----------------------------------------------------------------------------
(* What the operators return *)

LEMMA HeadOfType ==
  ASSUME NEW lines \in Seq(Line), readEvents(lines)
  PROVE  HeadOf(lines) \in Checkpoint
<1>1. CASE lines = <<>>
  BY <1>1 DEF HeadOf, Checkpoint, NoHash, Hash
<1>2. CASE lines # <<>>
  <2>1. Len(lines) \in 1..Len(lines)
    BY <1>2, EmptySeq, LenProperties
  <2>2. lines[Len(lines)] \in Event
    BY <2>1, ElementOfSeq DEF readEvents, Parses, Line
  <2> QED
    BY <1>2, <2>2 DEF HeadOf, Checkpoint, Event
<1> QED
  BY <1>1, <1>2

LEMMA NewEventType ==
  ASSUME NEW lines \in Seq(Line), readEvents(lines),
         NEW level \in Level, NEW data \in Data
  PROVE  NewEvent(level, data, lines) \in Event
<1> DEFINE ph == IF level >= A1 THEN data ELSE None
           lk == [seq |-> Len(lines) + 1, data |-> data, payloadHash |-> ph]
<1>1. Len(lines) + 1 \in Nat /\ ph \in Data \cup {None}
  BY LenProperties
<1>2. HeadOf(lines).hash \in Seq(Link)
  BY HeadOfType DEF Checkpoint, Hash
<1>3. lk \in Link
  BY <1>1 DEF Link
<1>4. Append(HeadOf(lines).hash, lk) \in Seq(Link)
  BY <1>2, <1>3, AppendProperties
<1>5. NoHash \in Seq(Link)
  BY DEF NoHash
<1> QED
  BY <1>1, <1>2, <1>4, <1>5 DEF NewEvent, Event, Hash, computeChainHash

\* An append leaves the complete lines alone and puts one line at the end.
LEMMA LandProperties ==
  ASSUME log \in Seq(Line), open \in BOOLEAN, open => Len(log) > 0,
         NEW line \in Line
  PROVE  /\ Land(line) \in Seq(Line)
         /\ Len(Land(line)) = (IF open THEN Len(log) ELSE Len(log) + 1)
         /\ Land(line)[Len(Land(line))] = (IF open THEN Garbled ELSE line)
         /\ \A j \in 1..Len(log) : (open => j # Len(log)) => Land(line)[j] = log[j]
<1>1. CASE open
  <2>1. Len(log) \in 1..Len(log) /\ Garbled \in Line
    BY <1>1, LenProperties DEF Line
  <2> QED
    BY <1>1, <2>1, ExceptSeq DEF Land
<1>2. CASE ~open
  BY <1>2, AppendProperties, LenProperties DEF Land
<1> QED
  BY <1>1, <1>2

-----------------------------------------------------------------------------
(* Type correctness *)

Built(p) == pc[p] \in {"write", "truncate", "checkpoint", "verify", "head", "ok"}
              /\ req[p].append

TypeInv ==
  /\ TypeOK
  /\ open => Len(log) > 0
  /\ \A p \in Proc : /\ pc[p] \in {"write", "truncate", "checkpoint"} => req[p].append
                     /\ Built(p) => ev[p] \in Event

LEMMA TypeInvStep == TypeInv /\ [Next]_vars => TypeInv'
<1> SUFFICES ASSUME TypeInv, [Next]_vars PROVE TypeInv'
  OBVIOUS
<1> USE DataAssumption
<1>a. /\ log \in Seq(Line)
      /\ Len(log) \in Nat
      /\ open \in BOOLEAN
      /\ open => Len(log) > 0
  BY LenProperties DEF TypeInv, TypeOK
<1>b. \A p \in Proc : req[p].level \in Level /\ req[p].data \in Data /\ req[p].append \in BOOLEAN
  BY DEF TypeInv, TypeOK, Request
<1>1. ASSUME NEW p \in Proc, ReadLog(p) PROVE TypeInv'
  <2>1. CASE readEvents(log)
    <3>1. NewEvent(req[p].level, req[p].data, log) \in Event
      BY <1>a, <1>b, <2>1, NewEventType
    <3>2. /\ pc[p] = "start" /\ req[p].append /\ pc' = [pc EXCEPT ![p] = "write"]
          /\ ev' = [ev EXCEPT ![p] = NewEvent(req[p].level, req[p].data, log)]
          /\ UNCHANGED <<log, open, checkpoint, req, pos, seen>>
      BY <1>1, <2>1 DEF ReadLog, Goto
    <3>3. ev' \in [Proc -> Event \cup {None}] /\ pc' \in [Proc -> PC]
      BY <3>1, <3>2 DEF TypeInv, TypeOK, PC
    <3>4. \A q \in Proc : ev'[q] = IF q = p THEN NewEvent(req[p].level, req[p].data, log) ELSE ev[q]
      BY <3>2 DEF TypeInv, TypeOK
    <3>5. \A q \in Proc : pc'[q] = IF q = p THEN "write" ELSE pc[q]
      BY <3>2 DEF TypeInv, TypeOK
    <3>6. TypeOK'
      BY <3>2, <3>3 DEF TypeInv, TypeOK
    <3> QED
      BY <3>1, <3>2, <3>4, <3>5, <3>6 DEF TypeInv, Built
  <2>2. CASE ~readEvents(log)
    BY <1>1, <2>2 DEF TypeInv, TypeOK, Built, ReadLog, Goto, PC
  <2> QED
    BY <2>1, <2>2
<1>2. ASSUME NEW p \in Proc, WriteLine(p) PROVE TypeInv'
  <2>1. ev[p] \in Line
    BY <1>2 DEF TypeInv, Built, WriteLine, Line
  <2>2. log' \in Seq(Line) /\ Len(log') \in Nat /\ open' = FALSE
    BY <1>2, <1>a, <2>1, LandProperties DEF WriteLine
  <2> QED
    BY <1>2, <2>2 DEF TypeInv, TypeOK, Built, WriteLine, Goto, PC
<1>3. ASSUME NEW p \in Proc, PartialWrite(p) PROVE TypeInv'
  <2>1. PICK left \in {Garbled, ev[p]} : log' = Land(left)
    BY <1>3 DEF PartialWrite
  <2>2. left \in Line
    BY <1>3 DEF TypeInv, Built, PartialWrite, Line
  <2>3. log' \in Seq(Line) /\ Len(log') > 0 /\ open' = TRUE
    BY <1>3, <1>a, <2>1, <2>2, LandProperties DEF PartialWrite
  <2> QED
    BY <1>3, <2>3 DEF TypeInv, TypeOK, Built, PartialWrite, Goto, PC
<1>4. ASSUME NEW p \in Proc, TruncateCheckpoint(p) PROVE TypeInv'
  BY <1>4 DEF TypeInv, TypeOK, Built, TruncateCheckpoint, Goto, PC
<1>5. ASSUME NEW p \in Proc, WriteCheckpoint(p) PROVE TypeInv'
  <2>1. ev[p] \in Event
    BY <1>5 DEF TypeInv, Built, WriteCheckpoint
  <2>2. checkpoint' \in Checkpoint
    BY <1>5, <2>1 DEF WriteCheckpoint, Event, Checkpoint
  <2> QED
    BY <1>5, <2>2 DEF TypeInv, TypeOK, Built, WriteCheckpoint, Goto, PC
<1>6. ASSUME NEW p \in Proc, VerifyLog(p) PROVE TypeInv'
  <2>1. CASE ChainOK(req[p].level, log) /\ req[p].level = A3
    <3>1. readEvents(log)
      BY <2>1 DEF ChainOK, PrefixOK, readEvents
    <3>2. HeadOf(log) \in Checkpoint
      BY <1>a, <3>1, HeadOfType
    <3>3. /\ seen' = [seen EXCEPT ![p] = HeadOf(log)]
          /\ pc' = [pc EXCEPT ![p] = "head"]
          /\ pc[p] = IF req[p].append THEN "verify" ELSE "start"
          /\ UNCHANGED <<log, open, checkpoint, req, ev, pos>>
      BY <1>6, <2>1 DEF VerifyLog, Goto
    <3> QED
      BY <3>2, <3>3 DEF TypeInv, TypeOK, Built, PC
  <2>2. CASE ~(ChainOK(req[p].level, log) /\ req[p].level = A3)
    BY <1>6, <2>2 DEF TypeInv, TypeOK, Built, VerifyLog, Goto, PC
  <2> QED
    BY <2>1, <2>2
<1>7. ASSUME NEW p \in Proc, VerifyCheckpoint(p) PROVE TypeInv'
  BY <1>7 DEF TypeInv, TypeOK, Built, VerifyCheckpoint, Goto, PC
<1>8. ASSUME NEW p \in Proc, Kill(p) PROVE TypeInv'
  BY <1>8 DEF TypeInv, TypeOK, Built, Kill, Goto, PC
<1>9. CASE UNCHANGED vars
  BY <1>9 DEF TypeInv, TypeOK, Built, vars
<1> QED
  BY <1>1, <1>2, <1>3, <1>4, <1>5, <1>6, <1>7, <1>8, <1>9 DEF Next, Step

LEMMA TypeInvInit == Init => TypeInv
<1> SUFFICES ASSUME Init PROVE TypeInv
  OBVIOUS
<1>1. log \in Seq(Line)
  BY EmptySeq DEF Init
<1> QED
  BY <1>1 DEF Init, TypeInv, TypeOK, Built, PC

\* The state stays well typed and every event written was built by its writer.
THEOREM TypeCorrect == Spec => []TypeInv
BY TypeInvInit, TypeInvStep, PTL DEF Spec

\* Every variable keeps its type, whatever the interleaving and the faults.
THEOREM TypeSafe == Spec => []TypeOK
<1>1. TypeInv => TypeOK
  BY DEF TypeInv
<1> QED
  BY <1>1, TypeCorrect, PTL

-----------------------------------------------------------------------------
(* Acknowledged appends *)

\* p's line is in the file and p has not failed since.
Wrote(p) == pc[p] \in {"truncate", "checkpoint", "verify", "head", "ok"}
              /\ req[p].append
Verified(p) == pc[p] \in {"head", "ok"} /\ req[p].append

\* Where a line landed, it stays: it is complete, it is the writer's event
\* unless a torn write had spoilt it before, and no one else's line is there.
WriteInv ==
  /\ \A p \in Proc : Wrote(p) =>
       /\ pos[p] \in 1..Len(log)
       /\ open => pos[p] # Len(log)
       /\ log[pos[p]] = ev[p] \/ log[pos[p]] = Garbled
  /\ \A p, q \in Proc : Wrote(p) /\ Wrote(q) /\ p # q => pos[p] # pos[q]
  /\ \A p \in Proc : Verified(p) =>
       /\ ev[p].seq = pos[p]
       /\ log[pos[p]] = ev[p]
       /\ PrefixOK(req[p].level, log, pos[p])

\* A complete prefix reads the same after any line lands.
LEMMA PrefixStable ==
  ASSUME TypeInv, NEW line \in Line, NEW level \in Level,
         NEW n \in 1..Len(log), open => n # Len(log)
  PROVE  /\ n \in 1..Len(Land(line))
         /\ n # Len(Land(line))
         /\ Land(line)[n] = log[n]
         /\ PrefixOK(level, log, n) => PrefixOK(level, Land(line), n)
<1>1. /\ log \in Seq(Line)
      /\ Len(log) \in Nat
      /\ open \in BOOLEAN
      /\ open => Len(log) > 0
  BY LenProperties DEF TypeInv, TypeOK
<1>2. /\ Len(Land(line)) = IF open THEN Len(log) ELSE Len(log) + 1
      /\ \A j \in 1..Len(log) : (open => j # Len(log)) => Land(line)[j] = log[j]
  BY <1>1, LandProperties
<1>3. \A j \in 1..n : j \in 1..Len(log) /\ (open => j # Len(log))
  BY <1>1
<1>4. \A j \in 1..n : Land(line)[j] = log[j]
  BY <1>2, <1>3
<1>5. \A j \in 1..n : PrevHash(Land(line), j) = PrevHash(log, j)
  <2> TAKE j \in 1..n
  <2>1. j # 1 => j - 1 \in 1..n
    BY <1>1
  <2> QED
    BY <2>1, <1>4 DEF PrevHash
<1>6. PrefixOK(level, log, n) => PrefixOK(level, Land(line), n)
  BY <1>4, <1>5 DEF PrefixOK, EntryOK
<1> QED
  BY <1>1, <1>2, <1>4, <1>6

\* What any landing line, complete or not, does to the part of WriteInv about
\* the other invocations.
LEMMA WriteInvOthers ==
  ASSUME TypeInv, WriteInv, NEW p \in Proc, NEW line \in Line, pc[p] = "write",
         log' = Land(line), UNCHANGED <<req, ev>>,
         \A q \in Proc \ {p} : pc'[q] = pc[q] /\ pos'[q] = pos[q]
  PROVE  \A q \in Proc \ {p} :
           /\ Wrote(q)' => /\ pos'[q] \in 1..Len(log')
                           /\ pos'[q] # Len(log')
                           /\ log'[pos'[q]] = ev'[q] \/ log'[pos'[q]] = Garbled
           /\ Verified(q)' => /\ ev'[q].seq = pos'[q]
                              /\ log'[pos'[q]] = ev'[q]
                              /\ PrefixOK(req'[q].level, log', pos'[q])
<1> TAKE q \in Proc \ {p}
<1>1. (Wrote(q)' => Wrote(q)) /\ (Verified(q)' => Verified(q)) /\ (Verified(q) => Wrote(q))
  BY DEF Wrote, Verified
<1>2. Wrote(q) => pos[q] \in 1..Len(log) /\ (open => pos[q] # Len(log))
                  /\ (log[pos[q]] = ev[q] \/ log[pos[q]] = Garbled)
  BY DEF WriteInv
<1>3. Verified(q) => ev[q].seq = pos[q] /\ log[pos[q]] = ev[q]
                     /\ PrefixOK(req[q].level, log, pos[q])
  BY DEF WriteInv
<1>4. req[q].level \in Level
  BY DataAssumption DEF TypeInv, TypeOK, Request
<1>5. Wrote(q) => /\ pos[q] \in 1..Len(log')
                  /\ pos[q] # Len(log')
                  /\ log'[pos[q]] = log[pos[q]]
                  /\ PrefixOK(req[q].level, log, pos[q]) => PrefixOK(req[q].level, log', pos[q])
  BY <1>2, <1>4, PrefixStable
<1> QED
  BY <1>1, <1>2, <1>3, <1>5

LEMMA WriteInvStep == TypeInv /\ WriteInv /\ [Next]_vars => WriteInv'
<1> SUFFICES ASSUME TypeInv, WriteInv, [Next]_vars PROVE WriteInv'
  OBVIOUS
<1>a. /\ log \in Seq(Line)
      /\ Len(log) \in Nat
      /\ open \in BOOLEAN
      /\ open => Len(log) > 0
  BY LenProperties DEF TypeInv, TypeOK
<1>b. pc \in [Proc -> PC] /\ pos \in [Proc -> Nat]
  BY DEF TypeInv, TypeOK
<1>1. ASSUME NEW p \in Proc, ReadLog(p) PROVE WriteInv'
  <2>1. /\ ~Wrote(p)' /\ ~Verified(p)'
        /\ \A q \in Proc \ {p} : pc'[q] = pc[q] /\ ev'[q] = ev[q]
        /\ UNCHANGED <<log, open, req, pos>>
    <3>1. /\ pc' = [pc EXCEPT ![p] = "write"] \/ pc' = [pc EXCEPT ![p] = "err"]
          /\ \A q \in Proc \ {p} : ev'[q] = ev[q]
          /\ UNCHANGED <<log, open, req, pos>>
      BY <1>1, <1>b DEF ReadLog, Goto, TypeInv, TypeOK
    <3> QED
      BY <3>1, <1>b DEF Wrote, Verified
  <2> QED
    BY <2>1 DEF WriteInv, Wrote, Verified
<1>2. ASSUME NEW p \in Proc, WriteLine(p) PROVE WriteInv'
  <2>1. ev[p] \in Line
    BY <1>2 DEF TypeInv, Built, WriteLine, Line
  <2>2. /\ pc[p] = "write"
        /\ log' = Land(ev[p])
        /\ open' = FALSE
        /\ pos' = [pos EXCEPT ![p] = Len(log')]
        /\ pc'[p] \in {"truncate", "verify"}
        /\ \A q \in Proc \ {p} : pc'[q] = pc[q] /\ pos'[q] = pos[q]
        /\ UNCHANGED <<req, ev>>
    BY <1>2, <1>b DEF WriteLine, Goto
  <2>3. /\ Len(log') \in Nat
        /\ Len(log') > 0
        /\ log'[Len(log')] = ev[p] \/ log'[Len(log')] = Garbled
    BY <1>a, <2>1, <2>2, LandProperties
  <2>4. pos'[p] = Len(log') /\ Len(log') \in 1..Len(log') /\ ~Verified(p)'
    BY <2>2, <2>3, <1>b DEF Verified
  <2>5. \A q \in Proc \ {p} :
           /\ Wrote(q)' => /\ pos'[q] \in 1..Len(log')
                           /\ pos'[q] # Len(log')
                           /\ log'[pos'[q]] = ev'[q] \/ log'[pos'[q]] = Garbled
           /\ Verified(q)' => /\ ev'[q].seq = pos'[q]
                              /\ log'[pos'[q]] = ev'[q]
                              /\ PrefixOK(req'[q].level, log', pos'[q])
    BY <2>1, <2>2, WriteInvOthers
  <2>6. \A q, r \in Proc \ {p} : Wrote(q)' /\ Wrote(r)' /\ q # r => pos'[q] # pos'[r]
    BY <2>2 DEF WriteInv, Wrote
  <2> QED
    BY <2>2, <2>3, <2>4, <2>5, <2>6 DEF WriteInv
<1>3. ASSUME NEW p \in Proc, PartialWrite(p) PROVE WriteInv'
  <2>1. PICK left \in {Garbled, ev[p]} : log' = Land(left)
    BY <1>3 DEF PartialWrite
  <2>2. left \in Line
    BY <1>3 DEF TypeInv, Built, PartialWrite, Line
  <2>3. /\ pc[p] = "write"
        /\ ~Wrote(p)'
        /\ ~Verified(p)'
        /\ \A q \in Proc \ {p} : pc'[q] = pc[q] /\ pos'[q] = pos[q]
        /\ UNCHANGED <<req, ev>>
    BY <1>3, <1>b DEF PartialWrite, Goto, Wrote, Verified
  <2>4. \A q \in Proc \ {p} :
           /\ Wrote(q)' => /\ pos'[q] \in 1..Len(log')
                           /\ pos'[q] # Len(log')
                           /\ log'[pos'[q]] = ev'[q] \/ log'[pos'[q]] = Garbled
           /\ Verified(q)' => /\ ev'[q].seq = pos'[q]
                              /\ log'[pos'[q]] = ev'[q]
                              /\ PrefixOK(req'[q].level, log', pos'[q])
    BY <2>1, <2>2, <2>3, WriteInvOthers
  <2>5. \A q, r \in Proc \ {p} : Wrote(q)' /\ Wrote(r)' /\ q # r => pos'[q] # pos'[r]
    BY <2>3 DEF WriteInv, Wrote
  <2> QED
    BY <2>3, <2>4, <2>5 DEF WriteInv
<1>4. ASSUME NEW p \in Proc, TruncateCheckpoint(p) PROVE WriteInv'
  BY <1>4, <1>b DEF WriteInv, Wrote, Verified, TruncateCheckpoint, Goto
<1>5. ASSUME NEW p \in Proc, WriteCheckpoint(p) PROVE WriteInv'
  BY <1>5, <1>b DEF WriteInv, Wrote, Verified, WriteCheckpoint, Goto
<1>6. ASSUME NEW p \in Proc, VerifyLog(p) PROVE WriteInv'
  <2>1. /\ \A q \in Proc \ {p} : pc'[q] = pc[q]
        /\ UNCHANGED <<log, open, req, ev, pos>>
    BY <1>6, <1>b DEF VerifyLog, Goto
  <2>2. Wrote(p)' => Wrote(p)
    BY <1>6, <1>b DEF VerifyLog, Goto, Wrote
  <2>3. Verified(p)' => ChainOK(req[p].level, log)
    BY <1>6, <1>b DEF VerifyLog, Goto, Verified
  <2>4. Verified(p)' => /\ ev[p].seq = pos[p]
                        /\ log[pos[p]] = ev[p]
                        /\ PrefixOK(req[p].level, log, pos[p])
    <3> SUFFICES ASSUME Verified(p)' PROVE /\ ev[p].seq = pos[p]
                                          /\ log[pos[p]] = ev[p]
                                          /\ PrefixOK(req[p].level, log, pos[p])
      OBVIOUS
    <3>1. Wrote(p)
      BY <2>2 DEF Verified, Wrote
    <3>2. pos[p] \in 1..Len(log) /\ (log[pos[p]] = ev[p] \/ log[pos[p]] = Garbled)
      BY <3>1 DEF WriteInv
    <3>3. Parses(log[pos[p]]) /\ EntryOK(req[p].level, log, pos[p])
      BY <2>3, <3>2 DEF ChainOK, PrefixOK
    <3>4. \A i \in 1..pos[p] : i \in 1..Len(log)
      BY <1>a, <3>2
    <3> QED
      BY <2>3, <3>2, <3>3, <3>4 DEF ChainOK, PrefixOK, Parses, EntryOK
  <2>5. \A q \in Proc \ {p} : (Wrote(q)' <=> Wrote(q)) /\ (Verified(q)' <=> Verified(q))
    BY <2>1 DEF Wrote, Verified
  <2> QED
    BY <2>1, <2>2, <2>4, <2>5 DEF WriteInv
<1>7. ASSUME NEW p \in Proc, VerifyCheckpoint(p) PROVE WriteInv'
  BY <1>7, <1>b DEF WriteInv, Wrote, Verified, VerifyCheckpoint, Goto
<1>8. ASSUME NEW p \in Proc, Kill(p) PROVE WriteInv'
  BY <1>8, <1>b DEF WriteInv, Wrote, Verified, Kill, Goto
<1>9. CASE UNCHANGED vars
  BY <1>9 DEF WriteInv, Wrote, Verified, vars
<1> QED
  BY <1>1, <1>2, <1>3, <1>4, <1>5, <1>6, <1>7, <1>8, <1>9 DEF Next, Step

LEMMA WriteInvariant == Spec => [](TypeInv /\ WriteInv)
<1>1. Init => WriteInv
  BY DEF Init, WriteInv, Wrote, Verified
<1> QED
  BY <1>1, TypeCorrect, WriteInvStep, PTL DEF Spec

\* A reported append is durable: its line is at the number it returned, with a
\* verified prefix, for ever.
THEOREM AppendDurable == Spec => []AckedDurable
<1>1. TypeInv /\ WriteInv => AckedDurable
  BY DEF WriteInv, AckedDurable, Acked, Wrote, Verified
<1> QED
  BY <1>1, WriteInvariant, PTL

\* Of the appends that race for a number, at most one is reported successful.
THEOREM AppendUnique == Spec => []AckedUnique
<1>1. TypeInv /\ WriteInv => AckedUnique
  BY DEF WriteInv, AckedUnique, Acked, Wrote, Verified
<1> QED
  BY <1>1, WriteInvariant, PTL

-----------------------------------------------------------------------------
(* The checkpoint *)

\* A complete line that the file keeps for good holds this number and this hash,
\* or a torn write has spoilt it.
Kept(lines, torn, seq, hash) ==
  \E i \in 1..Len(lines) :
     /\ torn => i # Len(lines)
     /\ lines[i] = Garbled \/ (lines[i].seq = seq /\ lines[i].hash = hash)

CheckpointInv == checkpoint \in Checkpoint => Kept(log, open, checkpoint.seq, checkpoint.hash)

\* No line that lands takes the place of a complete one.
LEMMA LandKeeps ==
  ASSUME TypeInv, NEW line \in Line, NEW torn \in BOOLEAN,
         NEW seq, NEW hash, Kept(log, open, seq, hash)
  PROVE  Kept(Land(line), torn, seq, hash)
<1>1. PICK i \in 1..Len(log) :
        /\ open => i # Len(log)
        /\ log[i] = Garbled \/ (log[i].seq = seq /\ log[i].hash = hash)
  BY DEF Kept
<1>2. /\ i \in 1..Len(Land(line))
      /\ i # Len(Land(line))
      /\ Land(line)[i] = log[i]
  BY <1>1, PrefixStable DEF Level
<1> QED
  BY <1>1, <1>2 DEF Kept

LEMMA CheckpointInvStep ==
  TypeInv /\ WriteInv /\ CheckpointInv /\ [Next]_vars => CheckpointInv'
<1> SUFFICES ASSUME TypeInv, WriteInv, CheckpointInv, [Next]_vars PROVE CheckpointInv'
  OBVIOUS
<1>a. Torn \notin Checkpoint
  BY DataAssumption
<1>1. ASSUME NEW p \in Proc, WriteLine(p) \/ PartialWrite(p) PROVE CheckpointInv'
  <2>1. /\ pc[p] = "write" /\ checkpoint' = checkpoint /\ open' \in BOOLEAN
        /\ \E left \in {Garbled, ev[p]} : log' = Land(left)
    BY <1>1 DEF WriteLine, PartialWrite
  <2>2. PICK left \in {Garbled, ev[p]} : log' = Land(left)
    BY <2>1
  <2>3. left \in Line
    BY <2>1 DEF TypeInv, Built, Line
  <2> QED
    BY <2>1, <2>2, <2>3, LandKeeps DEF CheckpointInv
<1>2. ASSUME NEW p \in Proc, TruncateCheckpoint(p) PROVE CheckpointInv'
  BY <1>2, <1>a DEF CheckpointInv, TruncateCheckpoint
<1>3. ASSUME NEW p \in Proc, WriteCheckpoint(p) PROVE CheckpointInv'
  <2>1. Wrote(p)
    BY <1>3 DEF WriteCheckpoint, Wrote, TypeInv
  <2>2. /\ pos[p] \in 1..Len(log)
        /\ open => pos[p] # Len(log)
        /\ log[pos[p]] = ev[p] \/ log[pos[p]] = Garbled
    BY <2>1 DEF WriteInv
  <2>3. /\ checkpoint'.seq = ev[p].seq
        /\ checkpoint'.hash = ev[p].hash
        /\ UNCHANGED <<log, open>>
    BY <1>3 DEF WriteCheckpoint
  <2>4. Kept(log, open, ev[p].seq, ev[p].hash)
    BY <2>2 DEF Kept
  <2> QED
    BY <2>3, <2>4 DEF CheckpointInv
<1>4. ASSUME UNCHANGED <<log, open, checkpoint>> PROVE CheckpointInv'
  BY <1>4 DEF CheckpointInv
<1>5. ASSUME NEW p \in Proc,
             ReadLog(p) \/ VerifyLog(p) \/ VerifyCheckpoint(p) \/ Kill(p)
      PROVE  UNCHANGED <<log, open, checkpoint>>
  BY <1>5 DEF ReadLog, VerifyLog, VerifyCheckpoint, Kill
<1>6. UNCHANGED vars => UNCHANGED <<log, open, checkpoint>>
  BY DEF vars
<1> QED
  BY <1>1, <1>2, <1>3, <1>4, <1>5, <1>6 DEF Next, Step

\* The checkpoint names an event that is in the log, in every state in which a
\* reader accepts the log at all: it is written after the line it is about, and the
\* line stays.
THEOREM CheckpointHasItsEvent == Spec => []CheckpointNamesEvent
<1>1. Init => CheckpointInv
  BY DataAssumption DEF Init, CheckpointInv
<1>2. TypeInv /\ CheckpointInv => CheckpointNamesEvent
  <2> SUFFICES ASSUME TypeInv, CheckpointInv, checkpoint \in Checkpoint, readEvents(log)
               PROVE  \E i \in DOMAIN log : /\ log[i].seq = checkpoint.seq
                                             /\ log[i].hash = checkpoint.hash
    BY DEF CheckpointNamesEvent
  <2>1. log \in Seq(Line)
    BY DEF TypeInv, TypeOK
  <2>2. DOMAIN log = 1..Len(log) /\ \A i \in 1..Len(log) : log[i] # Garbled
    BY <2>1, LenProperties DEF readEvents, Parses
  <2> QED
    BY <2>2 DEF CheckpointInv, Kept
<1> QED
  BY <1>1, <1>2, CheckpointInvStep, WriteInvariant, PTL DEF Spec

-----------------------------------------------------------------------------
(* Damage *)

LEMMA LandNeverMends ==
  ASSUME TypeInv, NEW line \in Line, NEW level \in Level, ChainOK(level, Land(line))
  PROVE  ChainOK(level, log)
<1>1. /\ log \in Seq(Line)
      /\ Len(log) \in Nat
      /\ open \in BOOLEAN
      /\ open => Len(log) > 0
  BY LenProperties DEF TypeInv, TypeOK
<1>2. /\ Len(Land(line)) = IF open THEN Len(log) ELSE Len(log) + 1
      /\ Land(line)[Len(Land(line))] = IF open THEN Garbled ELSE line
      /\ \A j \in 1..Len(log) : (open => j # Len(log)) => Land(line)[j] = log[j]
  BY <1>1, LandProperties
<1>3. ~open
  <2> SUFFICES ASSUME open PROVE FALSE
    BY <1>1
  <2>1. Len(log) \in 1..Len(Land(line)) /\ Land(line)[Len(log)] = Garbled
    BY <1>1, <1>2
  <2> QED
    BY <2>1 DEF ChainOK, PrefixOK, Parses
<1>4. /\ \A j \in 1..Len(log) : Land(line)[j] = log[j]
      /\ Len(log) < Len(Land(line))
  BY <1>1, <1>2, <1>3
<1>5. \A j \in 1..Len(log) : PrevHash(Land(line), j) = PrevHash(log, j)
  <2> TAKE j \in 1..Len(log)
  <2>1. j # 1 => j - 1 \in 1..Len(log)
    BY <1>1
  <2> QED
    BY <2>1, <1>4 DEF PrevHash
<1>6. \A j \in 1..Len(log) : j \in 1..Len(Land(line))
  BY <1>1, <1>2, <1>3
<1> QED
  BY <1>4, <1>5, <1>6 DEF ChainOK, PrefixOK, EntryOK

\* No step of any command mends a stream that fails verification.
THEOREM DamageIsPermanent == Spec => DamagePermanent
<1>1. TypeInv /\ [Next]_vars =>
        [\A l \in Level : ChainOK(l, log)' => ChainOK(l, log)]_log
  <2> SUFFICES ASSUME TypeInv, [Next]_vars, log' # log, NEW l \in Level, ChainOK(l, log)'
               PROVE  ChainOK(l, log)
    OBVIOUS
  <2>1. PICK p \in Proc : WriteLine(p) \/ PartialWrite(p)
    BY DEF Next, Step, vars, ReadLog, TruncateCheckpoint, WriteCheckpoint,
           VerifyLog, VerifyCheckpoint, Kill
  <2>2. PICK line \in {Garbled, ev[p]} : log' = Land(line)
    BY <2>1 DEF WriteLine, PartialWrite
  <2>3. line \in Line
    BY <2>1 DEF TypeInv, Built, WriteLine, PartialWrite, Line
  <2>4. ChainOK(l, Land(line))
    BY <2>2
  <2> QED
    BY <2>3, <2>4, LandNeverMends
<1> QED
  BY <1>1, TypeCorrect, PTL DEF Spec, DamagePermanent

-----------------------------------------------------------------------------
(* One command at a time *)

\* Between the writer's steps, the log, the event it holds, the line it wrote
\* and the checkpoint agree.
SerialInv ==
  StrongOnly =>
    /\ ~open
    /\ ChainOK(A2, log)
    /\ \A p, q \in Proc : Running(p) /\ Running(q) => p = q
    /\ \A p \in Proc :
         /\ pc[p] = "write" => ev[p] = NewEvent(req[p].level, req[p].data, log)
         /\ req[p].append => pc[p] # "err"
         /\ pc[p] \in {"truncate", "checkpoint"} =>
              /\ HeadOf(log) = [seq |-> ev[p].seq, hash |-> ev[p].hash]
              /\ pos[p] = Len(log)
         /\ pc[p] = "verify" /\ req[p].append /\ req[p].level = A3 => checkpoint = HeadOf(log)
         /\ pc[p] = "head" /\ req[p].append =>
              checkpoint = HeadOf(log) /\ seen[p] = HeadOf(log)
         /\ Acked(p) /\ req[p].level = A3 /\ pos[p] = Len(log) => checkpoint = HeadOf(log)

LEMMA A3VerifiesAsA2 ==
  ASSUME NEW level \in {A2, A3}, NEW lines
  PROVE  ChainOK(level, lines) = ChainOK(A2, lines)
BY DEF ChainOK, PrefixOK, EntryOK, A1, A2, A3

\* A good chain extended by the event built from it is a good chain.
LEMMA ChainExtends ==
  ASSUME NEW lines \in Seq(Line), ChainOK(A2, lines), NEW level \in {A2, A3},
         NEW data \in Data \ Oversize
  PROVE  ChainOK(A2, Append(lines, NewEvent(level, data, lines)))
<1> DEFINE e == NewEvent(level, data, lines)
           new == Append(lines, e)
<1>1. Len(lines) \in Nat /\ readEvents(lines)
  BY LenProperties DEF ChainOK, PrefixOK, readEvents
<1>2. e \in Event
  BY <1>1, NewEventType DEF Level, A2, A3
<1>3. Len(new) = Len(lines) + 1
  BY <1>2, AppendProperties DEF Line
<1>4. new[Len(lines) + 1] = e /\ \A j \in 1..Len(lines) : new[j] = lines[j]
  BY <1>1, <1>2, AppendProperties DEF Line
<1>5. \A j \in 1..Len(lines) : PrevHash(new, j) = PrevHash(lines, j)
  <2> TAKE j \in 1..Len(lines)
  <2>1. j # 1 => j - 1 \in 1..Len(lines)
    BY <1>1
  <2> QED
    BY <2>1, <1>4 DEF PrevHash
<1>6. HeadOf(lines).hash = PrevHash(new, Len(lines) + 1)
  <2>1. CASE lines = <<>>
    BY <2>1 DEF HeadOf, PrevHash
  <2>2. CASE lines # <<>>
    <3>1. Len(lines) \in 1..Len(lines) /\ Len(lines) + 1 # 1
          /\ (Len(lines) + 1) - 1 = Len(lines)
      BY <1>1, <2>2, EmptySeq
    <3> QED
      BY <2>2, <3>1, <1>4 DEF HeadOf, PrevHash
  <2> QED
    BY <2>1, <2>2
<1>7. /\ e.seq = Len(lines) + 1
      /\ e.data = data
      /\ e.payloadHash = data
      /\ e.prevHash = HeadOf(lines).hash
      /\ e.hash = computeChainHash(e.seq, e.data, e.payloadHash, e.prevHash)
  BY DEF NewEvent, A1, A2, A3
<1>8. Parses(e) /\ EntryOK(A2, new, Len(lines) + 1)
  BY <1>2, <1>4, <1>6, <1>7, DataAssumption DEF Parses, EntryOK
<1>9. ASSUME NEW j \in 1..Len(new)
       PROVE  Parses(new[j]) /\ EntryOK(A2, new, j)
  <2>1. CASE j = Len(lines) + 1
    BY <2>1, <1>4, <1>8
  <2>2. CASE j # Len(lines) + 1
    <3>1. j \in 1..Len(lines)
      BY <2>2, <1>1, <1>3
    <3> QED
      BY <3>1, <1>4, <1>5 DEF ChainOK, PrefixOK, EntryOK
  <2> QED
    BY <2>1, <2>2
<1> QED
  BY <1>9 DEF ChainOK, PrefixOK

\* So does the event an append builds from a good log, and it is the new head.
LEMMA NewEventExtends ==
  ASSUME TypeInv, ~open, ChainOK(A2, log), NEW level \in {A2, A3},
         NEW data \in Data \ Oversize
  PROVE  /\ ChainOK(A2, Land(NewEvent(level, data, log)))
         /\ Len(Land(NewEvent(level, data, log))) = Len(log) + 1
         /\ HeadOf(Land(NewEvent(level, data, log))) =
              [seq |-> NewEvent(level, data, log).seq, hash |-> NewEvent(level, data, log).hash]
<1> DEFINE e == NewEvent(level, data, log)
           new == Land(e)
<1>1. log \in Seq(Line) /\ Len(log) \in Nat
  BY LenProperties DEF TypeInv, TypeOK
<1>2. e \in Event
  BY <1>1, NewEventType DEF Level, A2, A3, ChainOK, PrefixOK, readEvents
<1>3. new = Append(log, e) /\ new \in Seq(Line) /\ Len(new) = Len(log) + 1
      /\ new[Len(log) + 1] = e
  BY <1>1, <1>2, AppendProperties DEF Land, Line
<1>4. ChainOK(A2, new)
  BY <1>1, <1>3, ChainExtends
<1>5. HeadOf(new) = [seq |-> e.seq, hash |-> e.hash]
  BY <1>1, <1>3, EmptySeq DEF HeadOf
<1> QED
  BY <1>3, <1>4, <1>5

LEMMA SerialInvStep == TypeInv /\ WriteInv /\ SerialInv /\ [SerialNext]_vars => SerialInv'
<1> SUFFICES ASSUME TypeInv, WriteInv, SerialInv, [SerialNext]_vars, StrongOnly
             PROVE  SerialInv'
  BY DEF SerialInv
<1>a. pc \in [Proc -> PC] /\ ev \in [Proc -> Event \cup {None}] /\ pos \in [Proc -> Nat]
      /\ seen \in [Proc -> Checkpoint \cup {None}] /\ log \in Seq(Line) /\ Len(log) \in Nat
  BY LenProperties DEF TypeInv, TypeOK
<1>b. \A p \in Proc : req[p].append =>
        req[p].level \in {A2, A3} /\ req[p].data \in Data \ Oversize
  <2> TAKE p \in Proc
  <2>1. req[p] \in Requests /\ req[p] \in Request
    BY DataAssumption DEF TypeInv, TypeOK
  <2>2. \A l \in Level : l >= A2 => l \in {A2, A3}
    BY DEF Level, A2, A3
  <2> QED
    BY <2>1, <2>2 DEF StrongOnly, Request
<1>c. ~open /\ ChainOK(A2, log) /\ readEvents(log)
  BY DEF SerialInv, ChainOK, PrefixOK, readEvents
<1>d. ASSUME NEW p \in Proc, Serial(p), NEW pc1 \in PC, pc' = [pc EXCEPT ![p] = pc1]
      PROVE  \A q, r \in Proc : Running(q)' /\ Running(r)' => q = r
  BY <1>a, <1>d DEF Serial, Running
<1>1. ASSUME NEW p \in Proc, Serial(p), ReadLog(p) PROVE SerialInv'
  <2>1. /\ pc[p] = "start" /\ pc' = [pc EXCEPT ![p] = "write"]
        /\ ev' = [ev EXCEPT ![p] = NewEvent(req[p].level, req[p].data, log)]
        /\ UNCHANGED <<log, open, checkpoint, req, pos, seen>>
    BY <1>1, <1>c DEF ReadLog, Goto
  <2>2. \A q, r \in Proc : Running(q)' /\ Running(r)' => q = r
    BY <1>1, <1>d, <2>1 DEF PC
  <2>3. \A q \in Proc : q # p => ev'[q] = ev[q] /\ pc'[q] = pc[q]
    BY <1>a, <2>1
  <2>4. pc'[p] = "write" /\ ev'[p] = NewEvent(req[p].level, req[p].data, log)
    BY <1>a, <2>1
  <2> QED
    BY <2>1, <2>2, <2>3, <2>4 DEF SerialInv, Acked
<1>2. ASSUME NEW p \in Proc, Serial(p), WriteLine(p) PROVE SerialInv'
  <2>1. /\ pc[p] = "write" /\ req[p].append
        /\ ev[p] = NewEvent(req[p].level, req[p].data, log)
        /\ log' = Land(ev[p]) /\ open' = FALSE
        /\ pos' = [pos EXCEPT ![p] = Len(log')]
        /\ pc' = [pc EXCEPT ![p] = IF req[p].level = A3 THEN "truncate" ELSE "verify"]
        /\ UNCHANGED <<checkpoint, req, ev, seen>>
    BY <1>2 DEF SerialInv, WriteLine, Goto, TypeInv
  <2>2. /\ ChainOK(A2, log') /\ Len(log') = Len(log) + 1
        /\ HeadOf(log') = [seq |-> ev[p].seq, hash |-> ev[p].hash]
    BY <1>b, <1>c, <2>1, NewEventExtends
  <2>3. \A q, r \in Proc : Running(q)' /\ Running(r)' => q = r
    BY <1>2, <1>d, <2>1 DEF PC
  <2>4. \A q \in Proc \ {p} : pc'[q] = pc[q] /\ pos'[q] = pos[q] /\ ~Running(q)
    BY <1>2, <1>a, <2>1 DEF Serial
  <2>5. \A q \in Proc \ {p} : Acked(q) => pos[q] # Len(log')
    BY <1>a, <2>2 DEF WriteInv, Wrote, Acked
  <2>6. pc'[p] \in {"truncate", "verify"} /\ pos'[p] = Len(log')
        /\ (pc'[p] = "verify" => req[p].level # A3)
    BY <1>a, <2>1
  <2>7. ASSUME NEW q \in Proc
        PROVE  /\ pc'[q] # "write" /\ pc'[q] # "checkpoint"
               /\ req'[q].append => pc'[q] # "err"
               /\ pc'[q] = "truncate" => q = p
               /\ pc'[q] = "verify" => q = p
               /\ pc'[q] # "head"
               /\ Acked(q)' => pos'[q] # Len(log')
    <3>1. CASE q = p
      BY <3>1, <2>6 DEF Acked
    <3>2. CASE q # p
      BY <3>2, <2>1, <2>4, <2>5 DEF Running, SerialInv, Acked
    <3> QED
      BY <3>1, <3>2
  <2> QED
    BY <2>1, <2>2, <2>3, <2>6, <2>7 DEF SerialInv
<1>3. ASSUME NEW p \in Proc, Serial(p), TruncateCheckpoint(p) PROVE SerialInv'
  <2>1. /\ pc[p] = "truncate" /\ pc' = [pc EXCEPT ![p] = "checkpoint"] /\ req[p].append
        /\ UNCHANGED <<log, open, req, ev, pos, seen>>
    BY <1>3 DEF TruncateCheckpoint, Goto, TypeInv
  <2>2. \A q, r \in Proc : Running(q)' /\ Running(r)' => q = r
    BY <1>3, <1>d, <2>1 DEF PC
  <2>3. pos[p] = Len(log) /\ \A q \in Proc \ {p} : Acked(q) => pos[q] # Len(log)
    BY <2>1 DEF SerialInv, WriteInv, Wrote, Acked
  <2>4. pc'[p] = "checkpoint" /\ \A q \in Proc \ {p} : pc'[q] = pc[q] /\ ~Running(q)
    BY <1>3, <1>a, <2>1 DEF Serial
  <2> QED
    BY <1>c, <2>1, <2>2, <2>3, <2>4 DEF SerialInv, Running, Acked
<1>4. ASSUME NEW p \in Proc, Serial(p), WriteCheckpoint(p) PROVE SerialInv'
  <2>1. /\ pc[p] = "checkpoint" /\ pc' = [pc EXCEPT ![p] = "verify"] /\ req[p].append
        /\ checkpoint' = [seq |-> ev[p].seq, hash |-> ev[p].hash]
        /\ UNCHANGED <<log, open, req, ev, pos, seen>>
    BY <1>4 DEF WriteCheckpoint, Goto, TypeInv
  <2>2. \A q, r \in Proc : Running(q)' /\ Running(r)' => q = r
    BY <1>4, <1>d, <2>1 DEF PC
  <2>3. checkpoint' = HeadOf(log)
    BY <2>1 DEF SerialInv
  <2>4. pc'[p] = "verify" /\ \A q \in Proc \ {p} : pc'[q] = pc[q] /\ ~Running(q)
    BY <1>4, <1>a, <2>1 DEF Serial
  <2>5. ASSUME NEW q \in Proc
        PROVE  /\ pc'[q] \notin {"write", "truncate", "checkpoint", "head"}
               /\ req'[q].append => pc'[q] # "err"
    BY <2>1, <2>4 DEF SerialInv, Running
  <2> QED
    BY <1>c, <2>1, <2>2, <2>3, <2>5 DEF SerialInv
<1>5. ASSUME NEW p \in Proc, Serial(p), VerifyLog(p) PROVE SerialInv'
  <2>1. /\ pc[p] = IF req[p].append THEN "verify" ELSE "start"
        /\ UNCHANGED <<log, open, checkpoint, req, ev, pos>>
    BY <1>5 DEF VerifyLog
  <2>2. req[p].append => ChainOK(req[p].level, log)
    BY <1>b, <1>c, A3VerifiesAsA2
  <2>3. PICK next \in {"head", "ok", "err"} :
          /\ pc' = [pc EXCEPT ![p] = next]
          /\ req[p].append => next # "err"
          /\ next = "head" => seen' = [seen EXCEPT ![p] = HeadOf(log)] /\ req[p].level = A3
          /\ next # "head" => seen' = seen
          /\ next = "ok" => req[p].level # A3
    BY <1>5, <2>2 DEF VerifyLog, Goto
  <2>4. \A q, r \in Proc : Running(q)' /\ Running(r)' => q = r
    BY <1>5, <1>d, <2>3 DEF PC
  <2>5. /\ pc'[p] = next
        /\ next = "head" => seen'[p] = HeadOf(log)
        /\ \A q \in Proc \ {p} : pc'[q] = pc[q] /\ seen'[q] = seen[q] /\ ~Running(q)
    BY <1>5, <1>a, <2>3 DEF Serial
  <2> QED
    BY <1>c, <2>1, <2>3, <2>4, <2>5 DEF SerialInv, Running, Acked
<1>6. ASSUME NEW p \in Proc, Serial(p), VerifyCheckpoint(p) PROVE SerialInv'
  <2>1. /\ pc[p] = "head"
        /\ pc' = [pc EXCEPT ![p] = IF checkpoint = seen[p] THEN "ok" ELSE "err"]
        /\ UNCHANGED <<log, open, checkpoint, req, ev, pos, seen>>
    BY <1>6 DEF VerifyCheckpoint, Goto
  <2>2. req[p].append => checkpoint = HeadOf(log) /\ pc' = [pc EXCEPT ![p] = "ok"]
    BY <2>1 DEF SerialInv
  <2>3. \A q, r \in Proc : Running(q)' /\ Running(r)' => q = r
    BY <1>6, <1>d, <2>1 DEF PC
  <2>4. /\ pc'[p] \in {"ok", "err"} /\ (req[p].append => pc'[p] = "ok")
        /\ \A q \in Proc \ {p} : pc'[q] = pc[q] /\ ~Running(q)
    BY <1>6, <1>a, <2>1, <2>2 DEF Serial
  <2> QED
    BY <1>c, <2>1, <2>2, <2>3, <2>4 DEF SerialInv, Running, Acked
<1>7. ASSUME NEW p \in Proc, Serial(p), Kill(p) PROVE SerialInv'
  <2>1. /\ pc' = [pc EXCEPT ![p] = "killed"]
        /\ UNCHANGED <<log, open, checkpoint, req, ev, pos, seen>>
    BY <1>7 DEF Kill, Goto
  <2>2. \A q, r \in Proc : Running(q)' /\ Running(r)' => q = r
    BY <1>7, <1>d, <2>1 DEF PC
  <2>3. pc'[p] = "killed" /\ \A q \in Proc \ {p} : pc'[q] = pc[q]
    BY <1>a, <2>1
  <2> QED
    BY <1>c, <2>1, <2>2, <2>3 DEF SerialInv, Acked
<1>8. CASE UNCHANGED vars
  BY <1>8 DEF SerialInv, Running, Acked, vars
<1> QED
  BY <1>1, <1>2, <1>3, <1>4, <1>5, <1>6, <1>7, <1>8 DEF SerialNext, Step

LEMMA SerialInvariant == SerialSpec => [](TypeInv /\ WriteInv /\ SerialInv)
<1>1. Init => TypeInv /\ WriteInv /\ SerialInv
  <2> SUFFICES ASSUME Init PROVE TypeInv /\ WriteInv /\ SerialInv
    OBVIOUS
  <2>1. log \in Seq(Line) /\ Len(log) = 0
    BY EmptySeq DEF Init
  <2>2. TypeInv
    BY <2>1, DataAssumption DEF Init, TypeInv, TypeOK, Built, PC
  <2>3. WriteInv
    BY DEF Init, WriteInv, Wrote, Verified
  <2>4. SerialInv
    BY <2>1 DEF Init, SerialInv, ChainOK, PrefixOK, Running, Acked
  <2> QED
    BY <2>2, <2>3, <2>4
<1>2. [SerialNext]_vars => [Next]_vars
  BY DEF SerialNext, Next
<1> QED
  BY <1>1, <1>2, TypeInvStep, WriteInvStep, SerialInvStep, PTL DEF SerialSpec

\* Commands that run one at a time on a disk that does not fail keep the
\* stream verifiable at A2 in every state, killed or not.
THEOREM SerialStreamVerifies == SerialSpec => []SerialChainOK
<1>1. SerialInv => SerialChainOK
  BY DEF SerialInv, SerialChainOK
<1> QED
  BY <1>1, SerialInvariant, PTL

\* Then no append at A2 or A3 is ever refused,
THEOREM SerialAppendsAreAccepted == SerialSpec => []SerialAppendsSucceed
<1>1. SerialInv => SerialAppendsSucceed
  BY DEF SerialInv, SerialAppendsSucceed
<1> QED
  BY <1>1, SerialInvariant, PTL

\* and a reported A3 append leaves the checkpoint at the head of the log.
THEOREM SerialCheckpoint == SerialSpec => []SerialCheckpointIsHead
<1>1. SerialInv => SerialCheckpointIsHead
  BY DEF SerialInv, SerialCheckpointIsHead, Acked
<1> QED
  BY <1>1, SerialInvariant, PTL

-----------------------------------------------------------------------------
(***************************************************************************)
(* AuditLog implements AuditLedger, for any set of invocations, any data   *)
(* and any requests: under every interleaving, kill and torn write the     *)
(* system calls of the invocations are steps of the numbered ledger, or    *)
(* change nothing of it.                                                   *)
(*                                                                         *)
(* A line that lands is Record when it extends the accepted prefix, and    *)
(* Damage when it does not; the step that reports an append is             *)
(* Acknowledge, once per number because no two reported appends hold the   *)
(* same one (AckedUnique).                                                 *)
(***************************************************************************)

(* The accepted prefix *)

IsExtent(n) == n \in 0..Closed /\ Accepted(n) /\ (n < Closed => ~Accepted(n + 1))

\* The file always has an accepted prefix of greatest length.
ExtentInv == \E n \in 0..Closed : IsExtent(n)

LEMMA ClosedType ==
  ASSUME TypeInv
  PROVE  /\ log \in Seq(Line)
         /\ Len(log) \in Nat
         /\ open \in BOOLEAN
         /\ open => Len(log) > 0
         /\ Closed \in Nat
         /\ Closed = IF open THEN Len(log) - 1 ELSE Len(log)
         /\ \A i \in 1..Closed : i \in 1..Len(log) /\ (open => i # Len(log))
BY LenProperties DEF TypeInv, TypeOK, Closed

\* What is accepted is accepted from the start.
LEMMA AcceptedDown ==
  ASSUME NEW m \in Nat, NEW n \in 0..m, Accepted(m)
  PROVE  Accepted(n)
BY DEF Accepted

LEMMA ExtentUnique ==
  ASSUME TypeInv, NEW n, IsExtent(n)
  PROVE  Extent = n
<1>1. Closed \in Nat
  BY ClosedType
<1>2. ASSUME NEW m, IsExtent(m) PROVE m = n
  <2>1. m \in 0..Closed /\ n \in 0..Closed
    BY <1>2 DEF IsExtent
  <2>2. CASE m < n
    <3>1. m + 1 \in 0..n /\ m < Closed /\ n \in Nat
      BY <1>1, <2>1, <2>2
    <3> QED
      BY <1>2, <3>1, AcceptedDown DEF IsExtent
  <2>3. CASE n < m
    <3>1. n + 1 \in 0..m /\ n < Closed /\ m \in Nat
      BY <1>1, <2>1, <2>3
    <3> QED
      BY <1>2, <3>1, AcceptedDown DEF IsExtent
  <2> QED
    BY <1>1, <2>1, <2>2, <2>3
<1> QED
  BY <1>2 DEF Extent, IsExtent

LEMMA ExtentProperties ==
  ASSUME TypeInv, ExtentInv
  PROVE  IsExtent(Extent)
BY ExtentUnique DEF ExtentInv

\* When the whole file is accepted it is its own accepted prefix.
LEMMA ExtentWhole ==
  ASSUME TypeInv, Accepted(Closed)
  PROVE  IsExtent(Closed) /\ Extent = Closed
<1>1. IsExtent(Closed)
  BY ClosedType DEF IsExtent
<1> QED
  BY <1>1, ExtentUnique

\* Both facts hold of the next state as well.
LEMMA ClosedNext == (TypeInv => Closed \in Nat)'
<1>1. TypeInv => Closed \in Nat
  BY ClosedType
<1> QED
  BY <1>1, PTL

LEMMA ExtentNext == (TypeInv => \A n : IsExtent(n) => Extent = n)'
<1>1. TypeInv => \A n : IsExtent(n) => Extent = n
  BY ExtentUnique
<1> QED
  BY <1>1, PTL

-----------------------------------------------------------------------------
(* What a line that lands does to it *)

LEMMA LandAccepted ==
  ASSUME TypeInv, NEW line \in Line, log' = Land(line)
  PROVE  /\ \A i \in 1..Closed : log'[i] = log[i]
         /\ \A n \in 0..Closed : Accepted(n)' <=> Accepted(n)
<1>1. \A i \in 1..Closed : log'[i] = log[i]
  BY ClosedType, LandProperties
<1>2. ASSUME NEW n \in 0..Closed PROVE Accepted(n)' <=> Accepted(n)
  <2>1. \A i \in 1..n : i \in 1..Closed
    BY ClosedType
  <2> QED
    BY <1>1, <2>1 DEF Accepted
<1> QED
  BY <1>1, <1>2

\* A line that does not extend the accepted prefix leaves it as it is.
LEMMA LandLeavesExtent ==
  ASSUME TypeInv, TypeInv', ExtentInv, NEW line \in Line, log' = Land(line),
         NEW c, c = Closed,
         Closed' = c \/ (Closed' = c + 1 /\ ~Accepted(c + 1)')
  PROVE  ExtentInv' /\ Entries' = Entries
<1>1. PICK n : n = Extent
  OBVIOUS
<1>2. IsExtent(n) /\ Closed \in Nat /\ Closed' \in Nat
  BY <1>1, ExtentProperties, ClosedType, ClosedNext
<1>3. n \in 0..Closed /\ Accepted(n) /\ (n < Closed => ~Accepted(n + 1))
  BY <1>2 DEF IsExtent
<1>4. n \in 0..Closed' /\ Accepted(n)'
  BY <1>2, <1>3, LandAccepted
<1>5. n < Closed' => ~Accepted(n + 1)'
  <2>1. CASE n < Closed
    <3>1. n + 1 \in 0..Closed
      BY <1>2, <1>3, <2>1
    <3> QED
      BY <1>3, <2>1, <3>1, LandAccepted
  <2>2. CASE n = Closed
    BY <1>2, <2>2
  <2> QED
    BY <1>2, <1>3, <2>1, <2>2
<1>6. IsExtent(n)'
  BY <1>4, <1>5 DEF IsExtent
<1>7. Extent' = n
  BY <1>6, ExtentNext
<1>8. \A i \in 1..n : log'[i].data = log[i].data
  <2>1. \A i \in 1..n : i \in 1..Closed
    BY <1>2, <1>3
  <2> QED
    BY <2>1, LandAccepted
<1>9. Entries' = [i \in 1..n |-> log'[i].data] /\ Entries = [i \in 1..n |-> log[i].data]
  BY <1>1, <1>7 DEF Entries
<1> QED
  BY <1>4, <1>6, <1>8, <1>9 DEF ExtentInv

\* A complete line that the prefix goes on with becomes its last entry.
LEMMA LandExtends ==
  ASSUME TypeInv, TypeInv', NEW line \in Event, log' = Land(line), ~open,
         NEW c, c = Closed, Closed' = c + 1, Accepted(c + 1)'
  PROVE  /\ ExtentInv'
         /\ Accepted(c)
         /\ Entries \in Seq(Data)
         /\ Entries' = Append(Entries, line.data)
<1>1. c \in Nat /\ c = Len(log) /\ log \in Seq(Line)
  BY ClosedType
<1>2. Accepted(c)
  <2>1. Accepted(c)'
    BY <1>1 DEF Accepted
  <2> QED
    BY <1>1, <2>1, LandAccepted DEF Line
<1>3. Extent = c
  BY <1>2, ExtentWhole
<1>4. IsExtent(c + 1)'
  BY <1>1 DEF IsExtent
<1>5. Extent' = c + 1
  BY <1>4, ExtentNext
<1>6. log'[c + 1] = line /\ \A i \in 1..c : log'[i] = log[i]
  BY <1>1, AppendProperties DEF Land, Line
<1>7. \A i \in 1..c : log[i].data \in Data
  BY <1>1, <1>2, ElementOfSeq DEF Accepted, Parses, Line, Event
<1>8. Entries = [i \in 1..c |-> log[i].data] /\ Len(Entries) = c
      /\ Entries \in Seq(Data)
  BY <1>1, <1>3, <1>7 DEF Entries
<1>9. Entries' = [i \in 1..(c + 1) |-> log'[i].data]
  BY <1>5 DEF Entries
<1>10. Entries' = Append(Entries, line.data)
  BY <1>1, <1>6, <1>8, <1>9
<1> QED
  BY <1>1, <1>2, <1>4, <1>8, <1>10 DEF ExtentInv

-----------------------------------------------------------------------------
(* The steps *)

\* Steps that neither write a line nor report an append change nothing.
LEMMA SameReceipts ==
  ASSUME \A p \in Proc : Acked(p)' <=> Acked(p),
         \A p \in Proc : Acked(p) => ev'[p] = ev[p]
  PROVE  Receipts' = Receipts
BY DEF Receipts

LEMMA SameFile ==
  ASSUME UNCHANGED <<log, open>>
  PROVE  Entries' = Entries /\ Frozen' = Frozen /\ (ExtentInv => ExtentInv')
BY DEF Entries, Frozen, Extent, ExtentInv, IsExtent, Accepted, Closed

LEMMA WriteStep ==
  ASSUME TypeInv, TypeInv', ExtentInv, NEW p \in Proc, WriteLine(p)
  PROVE  ExtentInv' /\ [Ledger!Next]_(Ledger!vars)
<1>1. /\ pc[p] = "write" /\ req[p].append
      /\ log' = Land(ev[p])
      /\ open' = FALSE
      /\ pc' = [pc EXCEPT ![p] = IF req[p].level = A3 THEN "truncate" ELSE "verify"]
      /\ UNCHANGED <<req, ev>>
  BY DEF WriteLine, Goto, TypeInv
<1>2. ev[p] \in Event /\ ev[p] \in Line /\ pc \in [Proc -> PC]
  BY <1>1 DEF TypeInv, TypeOK, Built, Line
<1>3. Receipts' = Receipts
  <2>1. \A q \in Proc : Acked(q)' <=> Acked(q)
    BY <1>1, <1>2 DEF Acked
  <2> QED
    BY <1>1, <2>1, SameReceipts
<1>4. PICK c : c = Closed
  OBVIOUS
<1>5. c \in Nat /\ Closed' = c + 1
  <2>1. Closed' = Len(log')
    BY <1>1 DEF Closed
  <2>2. Len(log') = IF open THEN Len(log) ELSE Len(log) + 1
    BY <1>1, <1>2, ClosedType, LandProperties
  <2> QED
    BY <1>4, <2>1, <2>2, ClosedType
<1>6. CASE Accepted(c + 1)'
  <2>1. ~open
    <3> SUFFICES ASSUME open PROVE FALSE
      OBVIOUS
    <3>1. log'[Len(log)] = Garbled /\ c + 1 = Len(log)
      BY <1>1, <1>2, <1>4, ClosedType, LandProperties
    <3>2. c + 1 \in 1..(c + 1)
      BY <1>5
    <3> QED
      BY <1>6, <3>1, <3>2 DEF Accepted, Parses
  <2>2. /\ ExtentInv'
        /\ Accepted(c)
        /\ Entries' = Append(Entries, ev[p].data)
    BY <1>1, <1>2, <1>4, <1>5, <1>6, <2>1, LandExtends
  <2>3. ~Frozen /\ ~Frozen'
    BY <1>1, <1>4, <1>5, <1>6, <2>1, <2>2 DEF Frozen
  <2>4. ev[p].data \in Data
    BY <1>2 DEF Event
  <2>5. Ledger!Record(ev[p].data)
    BY <1>3, <2>2, <2>3 DEF Ledger!Record, Frozen
  <2> QED
    BY <2>2, <2>4, <2>5 DEF Ledger!Next
<1>7. CASE ~Accepted(c + 1)'
  <2>1. ExtentInv' /\ Entries' = Entries
    BY <1>1, <1>2, <1>4, <1>5, <1>7, LandLeavesExtent
  <2>2. Frozen'
    BY <1>5, <1>7 DEF Frozen
  <2>3. CASE Frozen
    BY <1>3, <2>1, <2>2, <2>3 DEF Ledger!vars
  <2>4. CASE ~Frozen
    <3>1. Ledger!Damage
      BY <1>3, <2>1, <2>2, <2>4 DEF Ledger!Damage
    <3> QED
      BY <2>1, <3>1 DEF Ledger!Next
  <2> QED
    BY <2>3, <2>4
<1> QED
  BY <1>6, <1>7

LEMMA PartialWriteStep ==
  ASSUME TypeInv, TypeInv', ExtentInv, NEW p \in Proc, PartialWrite(p)
  PROVE  ExtentInv' /\ [Ledger!Next]_(Ledger!vars)
<1>1. PICK left \in {Garbled, ev[p]} : log' = Land(left)
  BY DEF PartialWrite
<1>2. left \in Line
  BY DEF PartialWrite, TypeInv, Built, Line
<1>3. Receipts' = Receipts
  <2>1. \A q \in Proc : Acked(q)' <=> Acked(q)
    BY DEF PartialWrite, Goto, Acked, TypeInv, TypeOK
  <2> QED
    BY <2>1, SameReceipts DEF PartialWrite
<1>4. PICK c : c = Closed
  OBVIOUS
<1>5. Closed' = c
  <2>1. Closed' = Len(log') - 1
    BY DEF PartialWrite, Closed
  <2>2. Len(log') = IF open THEN Len(log) ELSE Len(log) + 1
    BY <1>1, <1>2, ClosedType, LandProperties
  <2> QED
    BY <1>4, <2>1, <2>2, ClosedType
<1>6. ExtentInv' /\ Entries' = Entries
  BY <1>1, <1>2, <1>4, <1>5, LandLeavesExtent
<1>7. Frozen'
  BY DEF PartialWrite, Frozen
<1>8. CASE Frozen
  BY <1>3, <1>6, <1>7, <1>8 DEF Ledger!vars
<1>9. CASE ~Frozen
  <2>1. Ledger!Damage
    BY <1>3, <1>6, <1>7, <1>9 DEF Ledger!Damage
  <2> QED
    BY <1>6, <2>1 DEF Ledger!Next
<1> QED
  BY <1>8, <1>9

\* A verification that ends well reports the append, if it is of one: its event is
\* an entry, and no one else has reported that number.
LEMMA VerifyStep ==
  ASSUME TypeInv, WriteInv', AckedUnique', ExtentInv, NEW p \in Proc,
         VerifyLog(p) \/ VerifyCheckpoint(p)
  PROVE  ExtentInv' /\ [Ledger!Next]_(Ledger!vars)
<1>1. /\ UNCHANGED <<log, open, req, ev, pos>>
      /\ pc[p] # "ok"
      /\ \A q \in Proc \ {p} : pc'[q] = pc[q]
  <2>1. pc \in [Proc -> PC]
    BY DEF TypeInv, TypeOK
  <2> QED
    BY <2>1 DEF VerifyLog, VerifyCheckpoint, Goto
<1>2. Entries' = Entries /\ Frozen' = Frozen /\ ExtentInv'
  BY <1>1, SameFile
<1>3. CASE ~Acked(p)'
  <2>1. \A q \in Proc : Acked(q)' <=> Acked(q)
    BY <1>1, <1>3 DEF Acked
  <2>2. Receipts' = Receipts
    BY <1>1, <2>1, SameReceipts
  <2> QED
    BY <1>2, <2>2 DEF Ledger!vars
<1>4. CASE Acked(p)'
  <2> DEFINE n == ev[p].seq
  <2>1. /\ pos[p] \in 1..Len(log)
        /\ open => pos[p] # Len(log)
        /\ log[pos[p]] = ev[p]
        /\ n = pos[p]
        /\ PrefixOK(req[p].level, log, pos[p])
    BY <1>1, <1>4 DEF WriteInv, Acked, Wrote, Verified
  <2>2. n \in 1..Closed /\ Accepted(n)
    <3>1. n \in 1..Closed
      BY <2>1, ClosedType
    <3>2. Accepted(n)
      BY <2>1 DEF PrefixOK, EntryOK, Accepted
    <3> QED
      BY <3>1, <3>2
  <2>3. Extent \in Nat /\ n \in 1..Extent
    <3>1. IsExtent(Extent) /\ Closed \in Nat
      BY ExtentProperties, ClosedType
    <3>2. Extent \in 0..Closed /\ (Extent < Closed => ~Accepted(Extent + 1))
      BY <3>1 DEF IsExtent
    <3>3. ~(Extent < n)
      <4> SUFFICES ASSUME Extent < n PROVE FALSE
        OBVIOUS
      <4>1. Extent < Closed /\ Extent + 1 \in 0..n /\ n \in Nat
        BY <2>2, <3>1, <3>2
      <4> QED
        BY <2>2, <3>2, <4>1, AcceptedDown
    <3> QED
      BY <2>2, <3>1, <3>2, <3>3
  <2>4. Len(Entries) = Extent /\ Entries[n] = ev[p].data
    BY <2>1, <2>3 DEF Entries
  <2>5. <<n, ev[p].data>> \notin Receipts
    <3>1. ~Acked(p)
      BY <1>1 DEF Acked
    <3>2. \A q \in Proc : Acked(q) => q # p /\ Acked(q)'
      BY <1>1, <3>1 DEF Acked
    <3>3. \A q \in Proc : Acked(q) => ev[q].seq # n
      BY <1>1, <1>4, <3>2 DEF AckedUnique
    <3> QED
      BY <3>3 DEF Receipts
  <2>6. Receipts' = Receipts \cup {<<n, ev[p].data>>}
    <3>1. \A q \in Proc : Acked(q)' <=> Acked(q) \/ q = p
      BY <1>1, <1>4 DEF Acked
    <3> QED
      BY <1>1, <3>1 DEF Receipts
  <2>7. Ledger!Acknowledge(n)
    BY <1>2, <2>3, <2>4, <2>5, <2>6 DEF Ledger!Acknowledge
  <2> QED
    BY <1>2, <2>3, <2>4, <2>7 DEF Ledger!Next
<1> QED
  BY <1>3, <1>4

\* Every other step is one of the ledger's that changes nothing.
LEMMA SilentStep ==
  ASSUME TypeInv, ExtentInv,
         \/ \E p \in Proc : \/ ReadLog(p) \/ TruncateCheckpoint(p)
                            \/ WriteCheckpoint(p) \/ Kill(p)
         \/ UNCHANGED vars
  PROVE  ExtentInv' /\ [Ledger!Next]_(Ledger!vars)
<1>1. UNCHANGED <<log, open, req>>
  BY DEF ReadLog, TruncateCheckpoint, WriteCheckpoint, Kill, vars
<1>2. \A q \in Proc : Acked(q)' <=> Acked(q)
  BY <1>1 DEF ReadLog, TruncateCheckpoint, WriteCheckpoint, Kill, vars, Goto, Running,
     Acked, TypeInv, TypeOK
<1>3. \A q \in Proc : Acked(q) => ev'[q] = ev[q]
  BY DEF ReadLog, TruncateCheckpoint, WriteCheckpoint, Kill, vars, Acked, TypeInv, TypeOK
<1> QED
  BY <1>1, <1>2, <1>3, SameFile, SameReceipts DEF Ledger!vars

\* AuditLog implements AuditLedger: an entry keeps its number for ever, at most one
\* receipt is given for a number and only for the entry that holds it, and a damaged
\* stream never grows again, whatever the commands that share the two files do.
THEOREM LogImplementsLedger == Spec => LedgerSpec
<1>1. Init => ExtentInv /\ Ledger!Init
  <2> SUFFICES ASSUME Init PROVE ExtentInv /\ Ledger!Init
    OBVIOUS
  <2>1. Len(log) = 0 /\ Closed = 0 /\ ~open
    BY EmptySeq DEF Init, Closed
  <2>2. Accepted(0)
    BY DEF Accepted
  <2>3. ExtentInv /\ Extent = 0
    BY <2>1, <2>2, TypeInvInit, ExtentWhole DEF ExtentInv
  <2>4. Entries = <<>>
    BY <2>3 DEF Entries
  <2>5. Receipts = {}
    BY DEF Init, Receipts, Acked
  <2> QED
    BY <2>1, <2>2, <2>3, <2>4, <2>5 DEF Ledger!Init, Frozen
<1>2. /\ TypeInv /\ TypeInv' /\ WriteInv' /\ AckedUnique' /\ ExtentInv
      /\ [Next]_vars
      => ExtentInv' /\ [Ledger!Next]_(Ledger!vars)
  BY WriteStep, PartialWriteStep, VerifyStep, SilentStep DEF Next, Step
<1> QED
  BY <1>1, <1>2, WriteInvariant, AppendUnique, PTL DEF Spec, LedgerSpec, Ledger!Spec

-----------------------------------------------------------------------------
(* What the loops of a collector compute.  Fresh and Rebuild are recursive  *)
(* functions; SetInduction is the induction that shows that there is a     *)
(* function of that kind, and then what it returns.                        *)

\* A set of naturals that is not empty has a least element,
LEMMA LeastNat ==
  ASSUME NEW T \in SUBSET Nat, T # {}
  PROVE  \E n \in T : \A m \in T : n <= m
<1> DEFINE R == {ss \in Nat \X Nat : ss[1] < ss[2]}
<1>1. IsWellFoundedOn(R, Nat)
  BY NatLessThanWellFounded DEF OpToRel
<1>2. \E x \in T : \A y \in T : <<y, x>> \notin R
  <2> HIDE DEF R
  <2> QED
    BY <1>1, WFMin
<1>3. PICK x \in T : \A y \in T : <<y, x>> \notin R
  BY <1>2
<1>4. ASSUME NEW y \in T PROVE x <= y
  <2>1. <<y, x>> \in Nat \X Nat /\ <<y, x>>[1] = y /\ <<y, x>>[2] = x
    OBVIOUS
  <2>2. ~(y < x)
    BY <1>3, <2>1
  <2> QED
    BY <2>2
<1> QED
  BY <1>4

\* and what holds of 0 and is passed on by every natural holds of all.
LEMMA SetInduction ==
  ASSUME NEW T \in SUBSET Nat, 0 \in T, \A n \in T : n + 1 \in T
  PROVE  \A n \in Nat : n \in T
<1> SUFFICES ASSUME NEW k \in Nat, k \notin T PROVE FALSE
  OBVIOUS
<1>1. PICK n \in Nat \ T : \A m \in Nat \ T : n <= m
  BY LeastNat
<1>2. n # 0 /\ n - 1 \in Nat
  BY <1>1
<1>3. n - 1 \in T
  BY <1>1, <1>2
<1>4. (n - 1) + 1 = n
  BY <1>2
<1> QED
  BY <1>1, <1>3, <1>4

LEMMA NewEventOf ==
  ASSUME NEW lines \in Seq(Event), NEW level \in Level, NEW data \in Data
  PROVE  /\ NewEvent(level, data, lines) \in Event
         /\ NewEvent(level, data, lines).data = data
         /\ NewEvent(level, data, lines).level = level
<1> DEFINE ph == IF level >= A1 THEN data ELSE None
           lk == [seq |-> Len(lines) + 1, data |-> data, payloadHash |-> ph]
<1>1. Len(lines) + 1 \in Nat /\ ph \in Data \cup {None}
  BY LenProperties
<1>2. HeadOf(lines).hash \in Seq(Link)
  <2>1. CASE lines = <<>>
    BY <2>1 DEF HeadOf, NoHash
  <2>2. CASE lines # <<>>
    <3>1. Len(lines) \in 1..Len(lines)
      BY <2>2, EmptySeq, LenProperties
    <3>2. lines[Len(lines)] \in Event
      BY <3>1, ElementOfSeq
    <3> QED
      BY <2>2, <3>2 DEF HeadOf, Event, Hash
  <2> QED
    BY <2>1, <2>2
<1>3. lk \in Link
  BY <1>1 DEF Link
<1>4. Append(HeadOf(lines).hash, lk) \in Seq(Link)
  BY <1>2, <1>3, AppendProperties
<1>5. NoHash \in Seq(Link)
  BY DEF NoHash
<1> QED
  BY <1>1, <1>2, <1>4, <1>5 DEF NewEvent, Event, Hash, computeChainHash

\* What buildGCRunEventsPlan keeps, event by event.
LEMMA FreshRounds ==
  ASSUME NEW lines \in Seq(Event)
  PROVE  \E kept \in [0..Len(lines) -> Seq(Event)] :
           /\ kept[0] = <<>>
           /\ \A i \in 1..Len(lines) :
                kept[i] = IF lines[i].data \in Old THEN kept[i - 1]
                          ELSE Append(kept[i - 1], lines[i])
           /\ Fresh(lines) = kept[Len(lines)]
<1> DEFINE N == Len(lines)
           next(x, i) == IF lines[i].data \in Old THEN x ELSE Append(x, lines[i])
           Upto(g, n) == /\ g \in [0..N -> Seq(Event)]
                         /\ g[0] = <<>>
                         /\ \A i \in 1..N : i <= n => g[i] = next(g[i - 1], i)
           T == {n \in Nat : n <= N => \E g : Upto(g, n)}
           Rounds(g) == g = [i \in 0..N |->
                               IF i = 0 THEN <<>>
                               ELSE IF lines[i].data \in Old THEN g[i - 1]
                               ELSE Append(g[i - 1], lines[i])]
<1>1. N \in Nat /\ \A i \in 1..N : lines[i] \in Event
  BY LenProperties, ElementOfSeq
<1>2. <<>> \in Seq(Event)
  BY EmptySeq
<1>3. ASSUME NEW x \in Seq(Event), NEW i \in 1..N PROVE next(x, i) \in Seq(Event)
  <2>1. Append(x, lines[i]) \in Seq(Event)
    BY <1>1, <1>3, AppendProperties
  <2> QED
    BY <2>1
<1> HIDE DEF next, N
<1>4. 0 \in T
  <2>1. PICK g : g = [i \in 0..N |-> <<>>]
    OBVIOUS
  <2>2. Upto(g, 0)
    BY <1>1, <1>2, <2>1
  <2> QED
    BY <2>2
<1>5. ASSUME NEW n \in T PROVE n + 1 \in T
  <2> SUFFICES ASSUME n + 1 <= N PROVE \E g : Upto(g, n + 1)
    OBVIOUS
  <2>1. PICK g : Upto(g, n)
    <3>1. n <= N
      BY <1>1
    <3> HIDE DEF Upto
    <3> QED
      BY <3>1
  <2>2. n \in 0..N /\ n + 1 \in 1..N /\ n \in Nat
    BY <1>1
  <2>3. PICK y \in Seq(Event) : y = next(g[n], n + 1)
    BY <1>3, <2>1, <2>2
  <2>4. PICK h : h = [i \in 0..N |-> IF i = n + 1 THEN y ELSE g[i]]
    OBVIOUS
  <2>5. h \in [0..N -> Seq(Event)] /\ h[0] = <<>>
    <3>1. 0 \in 0..N /\ 0 # n + 1
      BY <1>1, <2>2
    <3>2. h \in [0..N -> Seq(Event)]
      BY <2>1, <2>3, <2>4
    <3> QED
      BY <2>1, <2>4, <3>1, <3>2
  <2>6. ASSUME NEW i \in 1..N, i <= n + 1 PROVE h[i] = next(h[i - 1], i)
    <3>1. i - 1 \in 0..N /\ i \in 0..N /\ i - 1 # n + 1
      BY <1>1, <2>2, <2>6
    <3>2. h[i - 1] = g[i - 1]
      BY <2>4, <3>1
    <3>3. CASE i = n + 1
      <4>1. h[i] = y /\ i - 1 = n
        BY <2>2, <2>4, <3>1, <3>3
      <4> QED
        BY <2>3, <3>2, <3>3, <4>1
    <3>4. CASE i # n + 1
      <4>1. h[i] = g[i] /\ i <= n
        BY <2>2, <2>4, <2>6, <3>1, <3>4
      <4> QED
        BY <2>1, <3>2, <4>1
    <3> QED
      BY <3>3, <3>4
  <2>7. Upto(h, n + 1)
    BY <2>5, <2>6
  <2> QED
    BY <2>7
<1>6. PICK g : Upto(g, N)
  <2>1. \A n \in Nat : n \in T
    <3>1. T \in SUBSET Nat
      OBVIOUS
    <3> HIDE DEF T
    <3> QED
      BY <1>4, <1>5, <3>1, SetInduction
  <2>2. N <= N /\ N \in T
    <3> HIDE DEF T
    <3> QED
      BY <1>1, <2>1
  <2> HIDE DEF Upto
  <2> QED
    BY <2>2
<1>7. Rounds(g)
  <2>1. ASSUME NEW i \in 0..N
        PROVE  g[i] = IF i = 0 THEN <<>>
                      ELSE IF lines[i].data \in Old THEN g[i - 1]
                      ELSE Append(g[i - 1], lines[i])
    <3>1. CASE i = 0
      BY <1>6, <3>1
    <3>2. CASE i # 0
      <4>1. i \in 1..N /\ i <= N
        BY <1>1, <3>2
      <4> QED
        BY <1>6, <3>2, <4>1 DEF next
    <3> QED
      BY <3>1, <3>2
  <2>2. g = [i \in 0..N |-> g[i]]
    BY <1>6
  <2> QED
    BY <2>1, <2>2
<1>8. Fresh(lines) = (CHOOSE h : Rounds(h))[N]
  BY DEF Fresh, N
<1>9. PICK h : h = CHOOSE k : Rounds(k)
  OBVIOUS
<1>10. Rounds(h)
  <2> HIDE DEF Rounds
  <2> QED
    BY <1>7, <1>9
<1>11. h[0] = <<>> /\ \A i \in 1..N : h[i] = next(h[i - 1], i)
  <2>1. \A i \in 0..N :
          h[i] = IF i = 0 THEN <<>>
                 ELSE IF lines[i].data \in Old THEN h[i - 1]
                 ELSE Append(h[i - 1], lines[i])
    BY <1>10
  <2>2. 0 \in 0..N /\ \A i \in 1..N : i \in 0..N /\ i # 0
    BY <1>1
  <2> HIDE DEF Rounds
  <2> QED
    BY <2>1, <2>2 DEF next
<1>12. \A i \in 0..N : h[i] \in Seq(Event)
  <2> DEFINE U == {i \in Nat : i <= N => h[i] \in Seq(Event)}
  <2>1. 0 \in U
    BY <1>2, <1>11
  <2>2. ASSUME NEW i \in U PROVE i + 1 \in U
    <3> SUFFICES ASSUME i + 1 <= N PROVE h[i + 1] \in Seq(Event)
      OBVIOUS
    <3>1. i + 1 \in 1..N /\ (i + 1) - 1 = i /\ h[i] \in Seq(Event)
      BY <1>1
    <3>2. next(h[i], i + 1) \in Seq(Event)
      BY <1>3, <3>1
    <3> QED
      BY <1>11, <3>1, <3>2
  <2>3. \A i \in Nat : i \in U
    <3>1. U \in SUBSET Nat
      OBVIOUS
    <3> HIDE DEF U
    <3> QED
      BY <2>1, <2>2, <3>1, SetInduction
  <2> QED
    BY <1>1, <2>3
<1>13. h \in [0..N -> Seq(Event)]
  <2>1. h = [i \in 0..N |-> h[i]]
    BY <1>10
  <2> HIDE DEF Rounds
  <2> QED
    BY <1>12, <2>1
<1>14. \A i \in 1..N : h[i] = IF lines[i].data \in Old THEN h[i - 1]
                             ELSE Append(h[i - 1], lines[i])
  BY <1>11 DEF next
<1> HIDE DEF Rounds
<1> QED
  BY <1>8, <1>9, <1>11, <1>13, <1>14 DEF N

\* What writeGCRunEvents makes of the events that are kept, event by event.
LEMMA RebuildRounds ==
  ASSUME NEW kept \in Seq(Event), NEW level \in Level
  PROVE  \E built \in [0..Len(kept) -> Seq(Event)] :
           /\ built[0] = <<>>
           /\ \A i \in 1..Len(kept) :
                built[i] = Append(built[i - 1], NewEvent(level, kept[i].data, built[i - 1]))
           /\ Rebuild(level, kept) = built[Len(kept)]
<1> DEFINE N == Len(kept)
           next(x, i) == Append(x, NewEvent(level, kept[i].data, x))
           Upto(g, n) == /\ g \in [0..N -> Seq(Event)]
                         /\ g[0] = <<>>
                         /\ \A i \in 1..N : i <= n => g[i] = next(g[i - 1], i)
           T == {n \in Nat : n <= N => \E g : Upto(g, n)}
           Rounds(g) == g = [i \in 0..N |->
                               IF i = 0 THEN <<>>
                               ELSE Append(g[i - 1], NewEvent(level, kept[i].data, g[i - 1]))]
<1>1. N \in Nat /\ \A i \in 1..N : kept[i] \in Event
  BY LenProperties, ElementOfSeq
<1>2. <<>> \in Seq(Event)
  BY EmptySeq
<1>3. ASSUME NEW x \in Seq(Event), NEW i \in 1..N PROVE next(x, i) \in Seq(Event)
  <2>1. NewEvent(level, kept[i].data, x) \in Event
    BY <1>1, <1>3, NewEventOf DEF Event
  <2>2. Append(x, NewEvent(level, kept[i].data, x)) \in Seq(Event)
    BY <1>3, <2>1, AppendProperties
  <2> QED
    BY <2>2
<1> HIDE DEF next, N
<1>4. 0 \in T
  <2>1. PICK g : g = [i \in 0..N |-> <<>>]
    OBVIOUS
  <2>2. Upto(g, 0)
    BY <1>1, <1>2, <2>1
  <2> QED
    BY <2>2
<1>5. ASSUME NEW n \in T PROVE n + 1 \in T
  <2> SUFFICES ASSUME n + 1 <= N PROVE \E g : Upto(g, n + 1)
    OBVIOUS
  <2>1. PICK g : Upto(g, n)
    <3>1. n <= N
      BY <1>1
    <3> HIDE DEF Upto
    <3> QED
      BY <3>1
  <2>2. n \in 0..N /\ n + 1 \in 1..N /\ n \in Nat
    BY <1>1
  <2>3. PICK y \in Seq(Event) : y = next(g[n], n + 1)
    BY <1>3, <2>1, <2>2
  <2>4. PICK h : h = [i \in 0..N |-> IF i = n + 1 THEN y ELSE g[i]]
    OBVIOUS
  <2>5. h \in [0..N -> Seq(Event)] /\ h[0] = <<>>
    <3>1. 0 \in 0..N /\ 0 # n + 1
      BY <1>1, <2>2
    <3>2. h \in [0..N -> Seq(Event)]
      BY <2>1, <2>3, <2>4
    <3> QED
      BY <2>1, <2>4, <3>1, <3>2
  <2>6. ASSUME NEW i \in 1..N, i <= n + 1 PROVE h[i] = next(h[i - 1], i)
    <3>1. i - 1 \in 0..N /\ i \in 0..N /\ i - 1 # n + 1
      BY <1>1, <2>2, <2>6
    <3>2. h[i - 1] = g[i - 1]
      BY <2>4, <3>1
    <3>3. CASE i = n + 1
      <4>1. h[i] = y /\ i - 1 = n
        BY <2>2, <2>4, <3>1, <3>3
      <4> QED
        BY <2>3, <3>2, <3>3, <4>1
    <3>4. CASE i # n + 1
      <4>1. h[i] = g[i] /\ i <= n
        BY <2>2, <2>4, <2>6, <3>1, <3>4
      <4> QED
        BY <2>1, <3>2, <4>1
    <3> QED
      BY <3>3, <3>4
  <2>7. Upto(h, n + 1)
    BY <2>5, <2>6
  <2> QED
    BY <2>7
<1>6. PICK g : Upto(g, N)
  <2>1. \A n \in Nat : n \in T
    <3>1. T \in SUBSET Nat
      OBVIOUS
    <3> HIDE DEF T
    <3> QED
      BY <1>4, <1>5, <3>1, SetInduction
  <2>2. N <= N /\ N \in T
    <3> HIDE DEF T
    <3> QED
      BY <1>1, <2>1
  <2> HIDE DEF Upto
  <2> QED
    BY <2>2
<1>7. Rounds(g)
  <2>1. ASSUME NEW i \in 0..N
        PROVE  g[i] = IF i = 0 THEN <<>>
                      ELSE Append(g[i - 1], NewEvent(level, kept[i].data, g[i - 1]))
    <3>1. CASE i = 0
      BY <1>6, <3>1
    <3>2. CASE i # 0
      <4>1. i \in 1..N /\ i <= N
        BY <1>1, <3>2
      <4> QED
        BY <1>6, <3>2, <4>1 DEF next
    <3> QED
      BY <3>1, <3>2
  <2>2. g = [i \in 0..N |-> g[i]]
    BY <1>6
  <2> QED
    BY <2>1, <2>2
<1>8. Rebuild(level, kept) = (CHOOSE h : Rounds(h))[N]
  BY DEF Rebuild, N
<1>9. PICK h : h = CHOOSE k : Rounds(k)
  OBVIOUS
<1>10. Rounds(h)
  <2> HIDE DEF Rounds
  <2> QED
    BY <1>7, <1>9
<1>11. h[0] = <<>> /\ \A i \in 1..N : h[i] = next(h[i - 1], i)
  <2>1. \A i \in 0..N :
          h[i] = IF i = 0 THEN <<>>
                 ELSE Append(h[i - 1], NewEvent(level, kept[i].data, h[i - 1]))
    BY <1>10
  <2>2. 0 \in 0..N /\ \A i \in 1..N : i \in 0..N /\ i # 0
    BY <1>1
  <2> HIDE DEF Rounds
  <2> QED
    BY <2>1, <2>2 DEF next
<1>12. \A i \in 0..N : h[i] \in Seq(Event)
  <2> DEFINE U == {i \in Nat : i <= N => h[i] \in Seq(Event)}
  <2>1. 0 \in U
    BY <1>2, <1>11
  <2>2. ASSUME NEW i \in U PROVE i + 1 \in U
    <3> SUFFICES ASSUME i + 1 <= N PROVE h[i + 1] \in Seq(Event)
      OBVIOUS
    <3>1. i + 1 \in 1..N /\ (i + 1) - 1 = i /\ h[i] \in Seq(Event)
      BY <1>1
    <3>2. next(h[i], i + 1) \in Seq(Event)
      BY <1>3, <3>1
    <3> QED
      BY <1>11, <3>1, <3>2
  <2>3. \A i \in Nat : i \in U
    <3>1. U \in SUBSET Nat
      OBVIOUS
    <3> HIDE DEF U
    <3> QED
      BY <2>1, <2>2, <3>1, SetInduction
  <2> QED
    BY <1>1, <2>3
<1>13. h \in [0..N -> Seq(Event)]
  <2>1. h = [i \in 0..N |-> h[i]]
    BY <1>10
  <2> HIDE DEF Rounds
  <2> QED
    BY <1>12, <2>1
<1>14. \A i \in 1..N : h[i] = Append(h[i - 1], NewEvent(level, kept[i].data, h[i - 1]))
  BY <1>11 DEF next
<1> HIDE DEF Rounds
<1> QED
  BY <1>8, <1>9, <1>11, <1>13, <1>14 DEF N

NoOld(lines) == \A i \in 1..Len(lines) : lines[i].data \notin Old
DataOf(lines) == [i \in 1..Len(lines) |-> lines[i].data]

\* The events a collector keeps are events of the stream, none of them old.
LEMMA FreshProperties ==
  ASSUME NEW lines \in Seq(Event)
  PROVE  /\ Fresh(lines) \in Seq(Event)
         /\ NoOld(Fresh(lines))
         /\ \A k \in 1..Len(Fresh(lines)) :
              \E j \in 1..Len(lines) : Fresh(lines)[k] = lines[j]
<1>1. PICK kept \in [0..Len(lines) -> Seq(Event)] :
        /\ kept[0] = <<>>
        /\ \A i \in 1..Len(lines) :
             kept[i] = IF lines[i].data \in Old THEN kept[i - 1]
                       ELSE Append(kept[i - 1], lines[i])
        /\ Fresh(lines) = kept[Len(lines)]
  BY FreshRounds
<1>2. Len(lines) \in Nat /\ \A i \in 1..Len(lines) : lines[i] \in Event
  BY LenProperties, ElementOfSeq
<1> DEFINE Good(s) == \A k \in 1..Len(s) :
                        /\ s[k].data \notin Old
                        /\ \E j \in 1..Len(lines) : s[k] = lines[j]
           T == {i \in Nat : i <= Len(lines) => Good(kept[i])}
<1>3. 0 \in T
  <2>1. 1..Len(kept[0]) = {}
    BY <1>1, EmptySeq
  <2> QED
    BY <2>1
<1>4. ASSUME NEW i \in T PROVE i + 1 \in T
  <2> SUFFICES ASSUME i + 1 <= Len(lines) PROVE Good(kept[i + 1])
    OBVIOUS
  <2>1. i + 1 \in 1..Len(lines) /\ (i + 1) - 1 = i /\ i \in 0..Len(lines) /\ Good(kept[i])
    BY <1>2
  <2>2. kept[i + 1] = IF lines[i + 1].data \in Old THEN kept[i]
                      ELSE Append(kept[i], lines[i + 1])
    BY <1>1, <2>1
  <2>3. PICK s \in Seq(Event) : s = kept[i]
    BY <1>1, <2>1
  <2>4. PICK e \in Event : e = lines[i + 1]
    BY <1>2, <2>1
  <2>5. CASE e.data \in Old
    BY <2>1, <2>2, <2>4, <2>5
  <2>6. CASE e.data \notin Old
    <3>1. /\ Len(Append(s, e)) = Len(s) + 1 /\ Len(s) \in Nat
          /\ \A k \in 1..Len(s) : Append(s, e)[k] = s[k]
          /\ Append(s, e)[Len(s) + 1] = e
      BY AppendProperties, LenProperties
    <3>2. ASSUME NEW k \in 1..Len(s) + 1
          PROVE  /\ Append(s, e)[k].data \notin Old
                 /\ \E j \in 1..Len(lines) : Append(s, e)[k] = lines[j]
      <4>1. CASE k \in 1..Len(s)
        BY <2>1, <2>3, <3>1, <4>1
      <4>2. CASE k = Len(s) + 1
        BY <2>1, <2>4, <2>6, <3>1, <4>2
      <4>3. k \in 1..Len(s) \/ k = Len(s) + 1
        BY <3>1
      <4> QED
        BY <4>1, <4>2, <4>3
    <3>3. Good(Append(s, e))
      BY <3>1, <3>2
    <3> QED
      BY <2>2, <2>3, <2>4, <2>6, <3>3
  <2> QED
    BY <2>5, <2>6
<1>5. Good(kept[Len(lines)])
  <2>1. \A i \in Nat : i \in T
    <3>1. T \in SUBSET Nat
      OBVIOUS
    <3> HIDE DEF T
    <3> QED
      BY <1>3, <1>4, <3>1, SetInduction
  <2> HIDE DEF Good
  <2> QED
    BY <1>2, <2>1
<1> QED
  BY <1>1, <1>2, <1>5 DEF NoOld

\* When nothing is old, everything is kept.
LEMMA FreshAll ==
  ASSUME NEW lines \in Seq(Event), NoOld(lines)
  PROVE  Fresh(lines) = lines
<1>1. PICK kept \in [0..Len(lines) -> Seq(Event)] :
        /\ kept[0] = <<>>
        /\ \A i \in 1..Len(lines) :
             kept[i] = IF lines[i].data \in Old THEN kept[i - 1]
                       ELSE Append(kept[i - 1], lines[i])
        /\ Fresh(lines) = kept[Len(lines)]
  BY FreshRounds
<1>2. Len(lines) \in Nat /\ \A i \in 1..Len(lines) : lines[i] \in Event
  BY LenProperties, ElementOfSeq
<1> DEFINE Same(s, n) == Len(s) = n /\ \A k \in 1..n : s[k] = lines[k]
           T == {i \in Nat : i <= Len(lines) => Same(kept[i], i)}
<1>3. 0 \in T
  <2>1. Len(kept[0]) = 0
    BY <1>1, EmptySeq
  <2> QED
    BY <2>1
<1>4. ASSUME NEW i \in T PROVE i + 1 \in T
  <2> SUFFICES ASSUME i + 1 <= Len(lines) PROVE Same(kept[i + 1], i + 1)
    OBVIOUS
  <2>1. i + 1 \in 1..Len(lines) /\ (i + 1) - 1 = i /\ i \in 0..Len(lines) /\ i \in Nat
        /\ Same(kept[i], i)
    BY <1>2
  <2>2. kept[i + 1] = Append(kept[i], lines[i + 1])
    BY <1>1, <2>1 DEF NoOld
  <2>3. PICK s \in Seq(Event) : s = kept[i]
    BY <1>1, <2>1
  <2>4. PICK e \in Event : e = lines[i + 1]
    BY <1>2, <2>1
  <2>5. /\ Len(Append(s, e)) = Len(s) + 1 /\ Len(s) = i
        /\ \A k \in 1..Len(s) : Append(s, e)[k] = s[k]
        /\ Append(s, e)[Len(s) + 1] = e
    BY <2>1, <2>3, AppendProperties
  <2>6. ASSUME NEW k \in 1..i + 1 PROVE Append(s, e)[k] = lines[k]
    <3>1. CASE k \in 1..i
      BY <2>1, <2>3, <2>5, <3>1
    <3>2. CASE k = i + 1
      BY <2>1, <2>4, <2>5, <3>2
    <3>3. k \in 1..i \/ k = i + 1
      BY <2>1
    <3> QED
      BY <3>1, <3>2, <3>3
  <2>7. Same(Append(s, e), i + 1)
    BY <2>5, <2>6
  <2> QED
    BY <2>2, <2>3, <2>4, <2>7
<1>5. Same(kept[Len(lines)], Len(lines))
  <2>1. \A i \in Nat : i \in T
    <3>1. T \in SUBSET Nat
      OBVIOUS
    <3> HIDE DEF T
    <3> QED
      BY <1>3, <1>4, <3>1, SetInduction
  <2> HIDE DEF Same
  <2> QED
    BY <1>2, <2>1
<1>6. PICK s \in Seq(Event) : s = Fresh(lines)
  BY FreshProperties
<1>7. Len(s) = Len(lines) /\ \A k \in 1..Len(s) : s[k] = lines[k]
  BY <1>1, <1>5, <1>6
<1> QED
  BY <1>6, <1>7, SeqEqual

\* An event that is added is kept or dropped by its own age.
LEMMA FreshAppend ==
  ASSUME NEW lines \in Seq(Event), NEW e \in Event
  PROVE  Fresh(Append(lines, e)) = IF e.data \in Old THEN Fresh(lines)
                                   ELSE Append(Fresh(lines), e)
<1>1. PICK kept \in [0..Len(lines) -> Seq(Event)] :
        /\ kept[0] = <<>>
        /\ \A i \in 1..Len(lines) :
             kept[i] = IF lines[i].data \in Old THEN kept[i - 1]
                       ELSE Append(kept[i - 1], lines[i])
        /\ Fresh(lines) = kept[Len(lines)]
  BY FreshRounds
<1>2. PICK more \in Seq(Event) : more = Append(lines, e)
  BY AppendProperties
<1>3. PICK kept2 \in [0..Len(more) -> Seq(Event)] :
        /\ kept2[0] = <<>>
        /\ \A i \in 1..Len(more) :
             kept2[i] = IF more[i].data \in Old THEN kept2[i - 1]
                        ELSE Append(kept2[i - 1], more[i])
        /\ Fresh(more) = kept2[Len(more)]
  BY FreshRounds
<1>4. /\ Len(lines) \in Nat
      /\ Len(more) = Len(lines) + 1
      /\ \A i \in 1..Len(lines) : more[i] = lines[i]
      /\ more[Len(lines) + 1] = e
  BY <1>2, AppendProperties, LenProperties
<1> DEFINE T == {i \in Nat : i <= Len(lines) => kept2[i] = kept[i]}
<1>5. 0 \in T
  BY <1>1, <1>3
<1>6. ASSUME NEW i \in T PROVE i + 1 \in T
  <2> SUFFICES ASSUME i + 1 <= Len(lines) PROVE kept2[i + 1] = kept[i + 1]
    OBVIOUS
  <2>1. /\ i + 1 \in 1..Len(lines) /\ i + 1 \in 1..Len(more)
        /\ (i + 1) - 1 = i
        /\ kept2[i] = kept[i]
    BY <1>4
  <2>2. more[i + 1] = lines[i + 1]
    BY <1>4, <2>1
  <2> QED
    BY <1>1, <1>3, <2>1, <2>2
<1>7. kept2[Len(lines)] = kept[Len(lines)]
  <2>1. \A i \in Nat : i \in T
    <3>1. T \in SUBSET Nat
      OBVIOUS
    <3> HIDE DEF T
    <3> QED
      BY <1>5, <1>6, <3>1, SetInduction
  <2> QED
    BY <1>4, <2>1
<1>8. Len(more) \in 1..Len(more) /\ Len(more) - 1 = Len(lines)
  BY <1>4
<1>9. Fresh(more) = IF e.data \in Old THEN kept2[Len(lines)]
                    ELSE Append(kept2[Len(lines)], e)
  BY <1>3, <1>4, <1>8
<1> QED
  BY <1>1, <1>2, <1>7, <1>9

\* What is written is as long as what was kept, has the same data, one level,
\* and verifies at A2.
LEMMA RebuildProperties ==
  ASSUME NEW kept \in Seq(Event), NEW level \in Level
  PROVE  /\ Rebuild(level, kept) \in Seq(Event)
         /\ Len(Rebuild(level, kept)) = Len(kept)
         /\ \A k \in 1..Len(kept) : /\ Rebuild(level, kept)[k].data = kept[k].data
                                    /\ Rebuild(level, kept)[k].level = level
         /\ level \in {A2, A3} /\ (\A k \in 1..Len(kept) : kept[k].data \notin Oversize)
              => ChainOK(A2, Rebuild(level, kept))
<1>1. PICK built \in [0..Len(kept) -> Seq(Event)] :
        /\ built[0] = <<>>
        /\ \A i \in 1..Len(kept) :
             built[i] = Append(built[i - 1], NewEvent(level, kept[i].data, built[i - 1]))
        /\ Rebuild(level, kept) = built[Len(kept)]
  BY RebuildRounds
<1>2. Len(kept) \in Nat /\ \A i \in 1..Len(kept) : kept[i] \in Event
  BY LenProperties, ElementOfSeq
<1> DEFINE Sound == /\ level \in {A2, A3}
                    /\ \A k \in 1..Len(kept) : kept[k].data \notin Oversize
           Same(s, n) == /\ Len(s) = n
                         /\ \A k \in 1..n : s[k].data = kept[k].data /\ s[k].level = level
                         /\ Sound => ChainOK(A2, s)
           T == {i \in Nat : i <= Len(kept) => Same(built[i], i)}
<1>3. 0 \in T
  <2>1. Len(built[0]) = 0
    BY <1>1, EmptySeq
  <2> QED
    BY <2>1 DEF ChainOK, PrefixOK
<1>4. ASSUME NEW i \in T PROVE i + 1 \in T
  <2> SUFFICES ASSUME i + 1 <= Len(kept) PROVE Same(built[i + 1], i + 1)
    OBVIOUS
  <2>1. i + 1 \in 1..Len(kept) /\ (i + 1) - 1 = i /\ i \in 0..Len(kept) /\ i \in Nat
        /\ Same(built[i], i)
    BY <1>2
  <2>2. PICK s \in Seq(Event) : s = built[i]
    BY <1>1, <2>1
  <2>3. PICK d \in Data : d = kept[i + 1].data
    BY <1>2, <2>1 DEF Event
  <2>4. PICK e \in Event : e = NewEvent(level, d, s)
    BY NewEventOf
  <2>5. e.data = d /\ e.level = level
    BY <2>4, NewEventOf
  <2>6. built[i + 1] = Append(s, e)
    BY <1>1, <2>1, <2>2, <2>3, <2>4
  <2>7. /\ Len(Append(s, e)) = Len(s) + 1 /\ Len(s) = i
        /\ \A k \in 1..Len(s) : Append(s, e)[k] = s[k]
        /\ Append(s, e)[Len(s) + 1] = e
    BY <2>1, <2>2, AppendProperties
  <2>8. ASSUME NEW k \in 1..i + 1
        PROVE  Append(s, e)[k].data = kept[k].data /\ Append(s, e)[k].level = level
    <3>1. CASE k \in 1..i
      BY <2>1, <2>2, <2>7, <3>1
    <3>2. CASE k = i + 1
      BY <2>1, <2>3, <2>5, <2>7, <3>2
    <3>3. k \in 1..i \/ k = i + 1
      BY <2>1
    <3> QED
      BY <3>1, <3>2, <3>3
  <2>9. Sound => ChainOK(A2, Append(s, e))
    <3> SUFFICES ASSUME Sound PROVE ChainOK(A2, Append(s, e))
      OBVIOUS
    <3>1. s \in Seq(Line)
      <4>1. Event \subseteq Line
        BY DEF Line
      <4> HIDE DEF T, Same, Sound
      <4> QED
        BY <4>1, SeqMonotonic
    <3>2. ChainOK(A2, s) /\ d \in Data \ Oversize
      BY <2>1, <2>2, <2>3
    <3>3. level \in {A2, A3}
      OBVIOUS
    <3> HIDE DEF T, Same, Sound
    <3> QED
      BY <2>4, <3>1, <3>2, <3>3, ChainExtends
  <2>10. Same(Append(s, e), i + 1)
    BY <2>7, <2>8, <2>9
  <2> HIDE DEF Same
  <2> QED
    BY <2>6, <2>10
<1>5. Same(built[Len(kept)], Len(kept))
  <2>1. \A i \in Nat : i \in T
    <3>1. T \in SUBSET Nat
      OBVIOUS
    <3> HIDE DEF T
    <3> QED
      BY <1>3, <1>4, <3>1, SetInduction
  <2> HIDE DEF Same
  <2> QED
    BY <1>2, <2>1
<1>6. built[Len(kept)] \in Seq(Event)
  BY <1>1, <1>2
<1> QED
  BY <1>1, <1>5, <1>6

\* The first lines of a good chain are a good chain.
LEMMA ChainPrefix ==
  ASSUME NEW lines \in Seq(Event), ChainOK(A2, lines), NEW n \in 0..Len(lines)
  PROVE  ChainOK(A2, SubSeq(lines, 1, n))
<1>1. Len(lines) \in Nat /\ \A i \in 1..Len(lines) : lines[i] \in Event
  BY LenProperties, ElementOfSeq
<1>2. PICK s : s = SubSeq(lines, 1, n)
  OBVIOUS
<1>3. Len(s) = n /\ \A i \in 1..n : s[i] = lines[i]
  <2>1. \A i \in 1..n : lines[i] \in Event
    BY <1>1
  <2>2. /\ Len(SubSeq(lines, 1, n)) = IF 1 <= n THEN n - 1 + 1 ELSE 0
        /\ \A i \in 1..n - 1 + 1 : SubSeq(lines, 1, n)[i] = lines[1 + i - 1]
    BY <1>1, <2>1, SubSeqProperties
  <2>3. n \in Nat /\ n - 1 + 1 = n /\ \A i \in 1..n : 1 + i - 1 = i
    BY <1>1
  <2> QED
    BY <1>2, <2>2, <2>3
<1>4. \A i \in 1..n : i \in 1..Len(lines) /\ (i # 1 => i - 1 \in 1..n)
  BY <1>1
<1>5. \A i \in 1..n : PrevHash(s, i) = PrevHash(lines, i)
  BY <1>3, <1>4 DEF PrevHash
<1>6. \A i \in 1..Len(lines) : Parses(lines[i]) /\ EntryOK(A2, lines, i)
  BY DEF ChainOK, PrefixOK
<1>7. \A i \in 1..n : Parses(s[i]) /\ EntryOK(A2, s, i)
  BY <1>3, <1>4, <1>5, <1>6 DEF EntryOK
<1> QED
  BY <1>2, <1>3, <1>7 DEF ChainOK, PrefixOK

LEMMA EmptyData == DataOf(<<>>) = <<>>
<1>1. Len(<<>>) = 0 /\ 1..0 = {}
  BY EmptySeq
<1> QED
  BY <1>1 DEF DataOf

LEMMA DataOfProperties ==
  ASSUME NEW lines \in Seq(Event)
  PROVE  /\ DataOf(lines) \in Seq(Data)
         /\ Len(DataOf(lines)) = Len(lines)
         /\ \A i \in 1..Len(lines) : DataOf(lines)[i] = lines[i].data
<1>1. Len(lines) \in Nat /\ \A i \in 1..Len(lines) : lines[i].data \in Data
  <2>1. Len(lines) \in Nat /\ \A i \in 1..Len(lines) : lines[i] \in Event
    BY LenProperties, ElementOfSeq
  <2> QED
    BY <2>1 DEF Event
<1>2. DataOf(lines) \in [1..Len(lines) -> Data]
  BY <1>1 DEF DataOf
<1>3. DataOf(lines) \in Seq(Data) /\ Len(DataOf(lines)) = Len(lines)
  BY <1>1, <1>2
<1> QED
  BY <1>3 DEF DataOf

LEMMA SameData ==
  ASSUME NEW lines \in Seq(Event), NEW others \in Seq(Event), Len(lines) = Len(others),
         \A i \in 1..Len(lines) : lines[i].data = others[i].data
  PROVE  DataOf(lines) = DataOf(others)
BY DEF DataOf

LEMMA DataOfAppend ==
  ASSUME NEW lines \in Seq(Event), NEW e \in Event
  PROVE  DataOf(Append(lines, e)) = Append(DataOf(lines), e.data)
<1>1. PICK more \in Seq(Event) : more = Append(lines, e)
  BY AppendProperties
<1>2. /\ Len(more) = Len(lines) + 1 /\ Len(lines) \in Nat
      /\ \A i \in 1..Len(lines) : more[i] = lines[i]
      /\ more[Len(lines) + 1] = e
  BY <1>1, AppendProperties, LenProperties
<1>3. PICK d \in Seq(Data) : d = DataOf(lines)
  BY DataOfProperties
<1>4. PICK f \in Seq(Data) : f = DataOf(more)
  BY DataOfProperties
<1>5. e.data \in Data
  BY DEF Event
<1>6. PICK g \in Seq(Data) : g = Append(d, e.data)
  BY <1>5, AppendProperties
<1>7. /\ Len(d) = Len(lines) /\ \A i \in 1..Len(lines) : d[i] = lines[i].data
      /\ Len(f) = Len(more) /\ \A i \in 1..Len(more) : f[i] = more[i].data
  BY <1>3, <1>4, DataOfProperties
<1>8. Len(g) = Len(d) + 1 /\ (\A i \in 1..Len(d) : g[i] = d[i]) /\ g[Len(d) + 1] = e.data
  BY <1>5, <1>6, AppendProperties
<1>9. Len(f) = Len(g)
  BY <1>2, <1>7, <1>8
<1>10. ASSUME NEW i \in 1..Len(f) PROVE f[i] = g[i]
  <2>1. i \in 1..Len(lines) \/ i = Len(lines) + 1
    BY <1>2, <1>7
  <2>2. CASE i \in 1..Len(lines)
    BY <1>2, <1>7, <1>8, <2>2
  <2>3. CASE i = Len(lines) + 1
    BY <1>2, <1>7, <1>8, <2>3
  <2> QED
    BY <2>1, <2>2, <2>3
<1>11. f = g
  BY <1>9, <1>10, SeqEqual
<1> QED
  BY <1>1, <1>3, <1>4, <1>6, <1>11

LEMMA FreshEmpty == Fresh(<<>>) = <<>>
<1>1. <<>> \in Seq(Event) /\ NoOld(<<>>)
  BY EmptySeq DEF NoOld
<1> QED
  BY <1>1, FreshAll

-----------------------------------------------------------------------------
(* One command at a time, collectors among them *)

Strong(lines) ==
  ChainOK(A2, lines) /\ \A i \in 1..Len(lines) : lines[i].level \in {A2, A3}
Planned(c) == gc[c] \in {"create", "write"}
Whole == \A c \in Collectors : gc[c] # "killed"

GCTypes ==
  /\ log \in Seq(Event)
  /\ open = FALSE
  /\ pc \in [Proc -> PC]
  /\ req \in [Proc -> Requests]
  /\ ev \in [Proc -> Event \cup {None}]
  /\ at \in [Collectors -> Nat]
  /\ GCTypeOK

\* Where the command at work is, and what it relies on: a writer's event was
\* built from the stream as it is, and a collector that rewrites the stream has
\* put the first lines of its plan there and nothing else.
GCPlaced ==
  /\ \A p, q \in Proc : Busy(p) /\ Busy(q) => p = q
  /\ \A c \in Collectors : gc[c] # "append" => pc[c] = "start"
  /\ \A p \in Proc : pc[p] = "write" =>
       req[p].append /\ ev[p] = NewEvent(req[p].level, req[p].data, log)
  /\ \A c \in Collectors : gc[c] \in {"idle", "plan", "create"} => at[c] = 1
  /\ \A c \in Collectors : gc[c] = "write" =>
       at[c] \in 1..Len(plan[c]) /\ log = SubSeq(plan[c], 1, at[c] - 1)

\* The plan is the fresh events, and so is the stream when nobody rewrites it.
GCRetained ==
  /\ \A c \in Collectors : Planned(c) => NoOld(plan[c])
  /\ Whole => \A c \in Collectors : Planned(c) => DataOf(plan[c]) = landed
  /\ Whole /\ (\A c \in Collectors : gc[c] # "write") => DataOf(Fresh(log)) = landed

\* The plan verifies, and so does the stream.
GCVerifies ==
  StrongOnly => Strong(log) /\ \A c \in Collectors : Planned(c) => Strong(plan[c])

GCInv == GCTypes /\ GCPlaced /\ GCRetained /\ GCVerifies

LEMMA GCInvInit == GCInit => GCInv
<1> SUFFICES ASSUME GCInit PROVE GCInv
  OBVIOUS
<1>1. /\ log = <<>> /\ open = FALSE /\ pc = [p \in Proc |-> "start"]
      /\ req \in [Proc -> Requests] /\ ev = [p \in Proc |-> None]
      /\ gc = [c \in Collectors |-> "idle"]
      /\ plan = [c \in Collectors |-> <<>>]
      /\ at = [c \in Collectors |-> 1]
      /\ landed = <<>>
  BY DEF GCInit, Init
<1>2. <<>> \in Seq(Event) /\ <<>> \in Seq(Data \ Old) /\ Len(<<>>) = 0
  BY EmptySeq
<1>3. \A c \in Collectors : gc[c] = "idle" /\ at[c] = 1 /\ plan[c] = <<>>
  BY <1>1
<1>4. \A p \in Proc : pc[p] = "start"
  BY <1>1
<1>5. GCTypes
  BY <1>1, <1>2, <1>3 DEF GCTypes, GCTypeOK, GC, PC
<1>6. GCPlaced
  <2>1. \A p \in Proc : ~Busy(p)
    BY <1>3, <1>4 DEF Busy, Running, Collecting
  <2>2. \A c \in Collectors : c \in Proc
    BY CollectorAssumption
  <2> QED
    BY <1>3, <1>4, <2>1, <2>2 DEF GCPlaced
<1>7. GCRetained
  BY <1>1, <1>3, FreshEmpty, EmptyData DEF GCRetained, Planned
<1>8. GCVerifies
  BY <1>1, <1>2, <1>3 DEF GCVerifies, Planned, Strong, ChainOK, PrefixOK
<1> QED
  BY <1>5, <1>6, <1>7, <1>8 DEF GCInv

\* While one command is at work no other collector is between its first look
\* at the stream and its last line, and nobody else is about to write.
LEMMA Turns ==
  ASSUME GCInv, NEW p \in Proc, \A q \in Proc \ {p} : ~Busy(q)
  PROVE  /\ \A c \in Collectors \ {p} : ~Collecting(c) /\ ~Planned(c)
         /\ \A q \in Proc \ {p} : pc[q] # "write"
<1>1. \A c \in Collectors : c \in Proc
  BY CollectorAssumption
<1>2. \A c \in Collectors \ {p} : ~Collecting(c)
  BY <1>1 DEF Busy
<1>3. \A q \in Proc \ {p} : pc[q] # "write"
  BY DEF Busy, Running
<1> QED
  BY <1>2, <1>3 DEF Collecting, Planned

\* The steps that leave the stream, the plans and the history alone.
LEMMA GCQuiet ==
  ASSUME GCInv, NEW p \in Proc, \A q \in Proc \ {p} : ~Busy(q),
         UNCHANGED <<log, open, req, ev, plan, at, landed>>,
         pc' \in [Proc -> PC], \A q \in Proc \ {p} : pc'[q] = pc[q],
         gc' \in [Collectors -> GC], \A c \in Collectors \ {p} : gc'[c] = gc[c],
         pc'[p] # "write",
         p \in Collectors =>
           /\ gc'[p] \notin {"idle", "create", "write"}
           /\ gc[p] = "write" => gc'[p] = "killed"
           /\ gc[p] = "killed" => gc'[p] = "killed"
           /\ gc'[p] = "plan" => gc[p] = "idle"
           /\ gc'[p] # "append" => pc'[p] = "start"
  PROVE  GCInv'
<1>1. /\ \A c \in Collectors \ {p} : ~Collecting(c) /\ ~Planned(c)
      /\ \A q \in Proc \ {p} : pc[q] # "write"
  BY Turns
<1>2. \A c \in Collectors : ~Planned(c)'
  BY <1>1 DEF Planned
<1>3. GCTypes'
  BY DEF GCInv, GCTypes, GCTypeOK
<1>4. \A q \in Proc \ {p} : ~Busy(q)'
  BY DEF Busy, Running, Collecting
<1>5. GCPlaced'
  <2>1. \A q, r \in Proc : Busy(q)' /\ Busy(r)' => q = r
    BY <1>4
  <2>2. \A c \in Collectors : gc'[c] # "append" => pc'[c] = "start"
    <3> TAKE c \in Collectors
    <3>1. c \in Proc
      BY CollectorAssumption
    <3> QED
      BY <3>1 DEF GCInv, GCPlaced
  <2>3. \A q \in Proc : pc'[q] # "write"
    BY <1>1
  <2>4. \A c \in Collectors : gc'[c] \in {"idle", "plan", "create"} => at'[c] = 1
    BY DEF GCInv, GCPlaced
  <2>5. \A c \in Collectors : gc'[c] # "write"
    BY <1>2 DEF Planned
  <2> QED
    BY <2>1, <2>2, <2>3, <2>4, <2>5 DEF GCPlaced
<1>6. GCRetained'
  <2>1. Whole' => Whole /\ \A c \in Collectors : gc[c] # "write"
    BY <1>1 DEF Whole, Planned
  <2>2. Whole' => DataOf(Fresh(log)) = landed
    BY <2>1 DEF GCInv, GCRetained
  <2> QED
    BY <1>2, <2>2 DEF GCRetained
<1>7. GCVerifies'
  BY <1>2 DEF GCInv, GCVerifies
<1> QED
  BY <1>3, <1>5, <1>6, <1>7 DEF GCInv

\* The steps of a collector.
LEMMA GCPlanStep ==
  ASSUME GCInv, NEW c \in Collectors, c \in Proc, \A q \in Proc \ {c} : ~Busy(q), GCPlan(c)
  PROVE  GCInv'
<1>1. /\ gc \in [Collectors -> GC] /\ pc \in [Proc -> PC] /\ log \in Seq(Event)
      /\ plan \in [Collectors -> Seq(Event)] /\ open = FALSE
      /\ \A d \in Collectors : at[d] \in 1..Len(plan[d]) + 1
  BY DEF GCInv, GCTypes, GCTypeOK
<1>2. /\ gc[c] = "plan" /\ pc[c] = "start" /\ at[c] = 1
      /\ UNCHANGED <<log, open, pc, req, ev, at, landed>>
  BY DEF GCPlan, appendVars, GCInv, GCPlaced
<1>3. CASE ~readEvents(log) \/ \A i \in DOMAIN log : log[i].data \notin Old
  <2>1. PICK l \in {"failed", "append"} : gc' = [gc EXCEPT ![c] = l]
    BY <1>3 DEF GCPlan, GoGC
  <2>2. UNCHANGED plan
    BY <1>3 DEF GCPlan
  <2>3. gc'[c] = l /\ gc' \in [Collectors -> GC]
        /\ \A d \in Collectors \ {c} : gc'[d] = gc[d]
    BY <1>1, <2>1 DEF GC
  <2> QED
    BY <1>1, <1>2, <2>2, <2>3, GCQuiet
<1>4. CASE readEvents(log) /\ \E i \in DOMAIN log : log[i].data \in Old
  <2> DEFINE lines == Rebuild(log[1].level, Fresh(log))
  <2>1. plan' = [plan EXCEPT ![c] = lines] /\ gc' = [gc EXCEPT ![c] = "create"]
    BY <1>4 DEF GCPlan, GoGC
  <2>2. /\ Len(log) \in Nat /\ DOMAIN log = 1..Len(log)
        /\ \A i \in 1..Len(log) : log[i] \in Event
    BY <1>1, LenProperties, ElementOfSeq
  <2>3. 1 \in 1..Len(log)
    BY <1>4, <2>2
  <2>4. log[1].level \in Level
    BY <2>2, <2>3 DEF Event
  <2>5. PICK kept \in Seq(Event) :
          /\ kept = Fresh(log)
          /\ NoOld(kept)
          /\ \A k \in 1..Len(kept) : \E j \in 1..Len(log) : kept[k] = log[j]
    BY <1>1, FreshProperties
  <2>6. PICK new \in Seq(Event) :
          /\ new = lines
          /\ Len(new) = Len(kept)
          /\ \A k \in 1..Len(kept) : new[k].data = kept[k].data /\ new[k].level = log[1].level
          /\ log[1].level \in {A2, A3} /\ (\A k \in 1..Len(kept) : kept[k].data \notin Oversize)
               => ChainOK(A2, new)
    BY <2>4, <2>5, RebuildProperties
  <2> HIDE DEF lines
  <2>7. /\ plan'[c] = new /\ gc'[c] = "create"
        /\ \A d \in Collectors \ {c} : plan'[d] = plan[d] /\ gc'[d] = gc[d]
        /\ plan' \in [Collectors -> Seq(Event)] /\ gc' \in [Collectors -> GC]
    BY <1>1, <2>1, <2>6 DEF GC
  <2>8. /\ \A d \in Collectors \ {c} : ~Collecting(d) /\ ~Planned(d)
        /\ \A q \in Proc \ {c} : pc[q] # "write"
    BY Turns
  <2>9. GCTypes'
    <3>1. \A d \in Collectors : at'[d] \in 1..Len(plan'[d]) + 1
      <4> TAKE d \in Collectors
      <4>1. CASE d = c
        <5>1. Len(new) \in Nat
          BY LenProperties
        <5> QED
          BY <1>2, <2>7, <4>1, <5>1
      <4>2. CASE d # c
        BY <1>1, <1>2, <2>7, <4>2
      <4> QED
        BY <4>1, <4>2
    <3> QED
      BY <1>2, <2>7, <3>1 DEF GCInv, GCTypes, GCTypeOK
  <2>10. GCPlaced'
    <3>1. \A q, r \in Proc : Busy(q)' /\ Busy(r)' => q = r
      <4>1. \A q \in Proc \ {c} : ~Busy(q)'
        BY <1>2, <2>7 DEF Busy, Running, Collecting
      <4> QED
        BY <4>1
    <3>2. \A d \in Collectors : gc'[d] # "append" => pc'[d] = "start"
      BY <1>2, <2>7 DEF GCInv, GCPlaced
    <3>3. \A q \in Proc : pc'[q] # "write"
      BY <1>2, <2>8
    <3>4. \A d \in Collectors : gc'[d] \in {"idle", "plan", "create"} => at'[d] = 1
      BY <1>2, <2>7 DEF GCInv, GCPlaced
    <3>5. \A d \in Collectors : gc'[d] # "write"
      BY <2>7, <2>8 DEF Planned
    <3> QED
      BY <3>1, <3>2, <3>3, <3>4, <3>5 DEF GCPlaced
  <2>11. NoOld(new)
    BY <2>5, <2>6 DEF NoOld
  <2>12. Whole' => DataOf(new) = landed /\ DataOf(Fresh(log)) = landed
    <3> SUFFICES ASSUME Whole' PROVE DataOf(new) = landed /\ DataOf(Fresh(log)) = landed
      OBVIOUS
    <3>1. Whole /\ \A d \in Collectors : gc[d] # "write"
      BY <1>2, <2>7, <2>8 DEF Whole, Planned
    <3>2. DataOf(kept) = landed
      BY <2>5, <3>1 DEF GCInv, GCRetained
    <3>3. DataOf(new) = DataOf(kept)
      BY <2>6, SameData
    <3> QED
      BY <2>5, <3>2, <3>3
  <2>13. GCRetained'
    BY <1>2, <2>7, <2>8, <2>11, <2>12 DEF GCRetained, Planned
  <2>14. ASSUME StrongOnly PROVE Strong(log) /\ Strong(new)
    <3>1. Strong(log)
      BY <2>14 DEF GCInv, GCVerifies
    <3>2. log[1].level \in {A2, A3}
      BY <2>3, <3>1 DEF Strong
    <3>3. \A k \in 1..Len(kept) : kept[k].data \notin Oversize
      BY <1>4, <2>5 DEF readEvents, Parses
    <3> QED
      BY <2>6, <3>1, <3>2, <3>3 DEF Strong
  <2>15. GCVerifies'
    BY <1>2, <2>7, <2>8, <2>14 DEF GCVerifies, Planned, StrongOnly
  <2> QED
    BY <2>9, <2>10, <2>13, <2>15 DEF GCInv
<1> QED
  BY <1>3, <1>4

LEMMA GCCreateStep ==
  ASSUME GCInv, NEW c \in Collectors, c \in Proc, \A q \in Proc \ {c} : ~Busy(q), GCCreate(c)
  PROVE  GCInv'
<1>1. /\ gc \in [Collectors -> GC] /\ pc \in [Proc -> PC] /\ plan[c] \in Seq(Event)
  BY DEF GCInv, GCTypes, GCTypeOK
<1>2. /\ gc[c] = "create" /\ pc[c] = "start" /\ at[c] = 1
      /\ log' = <<>> /\ open' = FALSE
      /\ gc' = [gc EXCEPT ![c] = IF plan[c] = <<>> THEN "verify" ELSE "write"]
      /\ UNCHANGED <<pc, req, ev, plan, at, landed>>
  BY DEF GCCreate, GoGC, appendVars, GCInv, GCPlaced
<1>3. <<>> \in Seq(Event) /\ Len(<<>>) = 0
  BY EmptySeq
<1>4. /\ \A d \in Collectors \ {c} : ~Collecting(d) /\ ~Planned(d)
      /\ \A q \in Proc \ {c} : pc[q] # "write"
  BY Turns
<1>5. /\ gc'[c] = IF plan[c] = <<>> THEN "verify" ELSE "write"
      /\ \A d \in Collectors \ {c} : gc'[d] = gc[d]
      /\ gc' \in [Collectors -> GC]
  BY <1>1, <1>2 DEF GC
<1>6. GCTypes'
  BY <1>2, <1>3, <1>5 DEF GCInv, GCTypes, GCTypeOK
<1>7. GCPlaced'
  <2>1. \A q, r \in Proc : Busy(q)' /\ Busy(r)' => q = r
    <3>1. \A q \in Proc \ {c} : ~Busy(q)'
      BY <1>2, <1>5 DEF Busy, Running, Collecting
    <3> QED
      BY <3>1
  <2>2. \A d \in Collectors : gc'[d] # "append" => pc'[d] = "start"
    BY <1>2, <1>5 DEF GCInv, GCPlaced
  <2>3. \A q \in Proc : pc'[q] # "write"
    BY <1>2, <1>4
  <2>4. \A d \in Collectors : gc'[d] \in {"idle", "plan", "create"} => at'[d] = 1
    BY <1>2, <1>5 DEF GCInv, GCPlaced
  <2>5. ASSUME NEW d \in Collectors, gc'[d] = "write"
        PROVE  at'[d] \in 1..Len(plan'[d]) /\ log' = SubSeq(plan'[d], 1, at'[d] - 1)
    <3>1. d = c /\ plan[c] # <<>>
      BY <1>4, <1>5, <2>5 DEF Planned
    <3>2. Len(plan[c]) \in Nat \ {0}
      BY <1>1, <3>1, EmptySeq
    <3>3. SubSeq(plan[c], 1, 0) = <<>>
      BY SubSeqEmpty
    <3> QED
      BY <1>2, <3>1, <3>2, <3>3
  <2> QED
    BY <2>1, <2>2, <2>3, <2>4, <2>5 DEF GCPlaced
<1>8. GCRetained'
  <2>1. NoOld(plan[c]) /\ (Whole => DataOf(plan[c]) = landed)
    BY <1>2 DEF GCInv, GCRetained, Planned
  <2>2. Whole' => Whole
    BY <1>2, <1>5 DEF Whole
  <2>3. \A d \in Collectors : Planned(d)' => d = c
    BY <1>4, <1>5 DEF Planned
  <2>4. ASSUME Whole', gc'[c] # "write" PROVE DataOf(Fresh(log')) = landed
    <3>1. plan[c] = <<>>
      BY <1>5, <2>4
    <3> QED
      BY <1>2, <2>1, <2>2, <2>4, <3>1, FreshEmpty
  <2> QED
    BY <1>2, <2>1, <2>2, <2>3, <2>4 DEF GCRetained
<1>9. GCVerifies'
  <2>1. \A d \in Collectors : Planned(d)' => Planned(d)
    BY <1>2, <1>5 DEF Planned
  <2>2. Strong(<<>>)
    BY <1>3 DEF Strong, ChainOK, PrefixOK
  <2> QED
    BY <1>2, <2>1, <2>2 DEF GCInv, GCVerifies, StrongOnly
<1> QED
  BY <1>6, <1>7, <1>8, <1>9 DEF GCInv

\* In a write the stream is the lines written so far, so the line lands at its
\* end and there is nothing for it to cover.
LEMMA GCWriteLineStep ==
  ASSUME GCInv, NEW c \in Collectors, c \in Proc, \A q \in Proc \ {c} : ~Busy(q),
         GCWriteLine(c)
  PROVE  GCInv'
<1> DEFINE k == at[c]
           last == k = Len(plan[c])
<1>1. /\ gc \in [Collectors -> GC] /\ pc \in [Proc -> PC] /\ plan[c] \in Seq(Event)
      /\ log \in Seq(Event) /\ \A d \in Collectors : at[d] \in 1..Len(plan[d]) + 1
      /\ at \in [Collectors -> Nat]
  BY DEF GCInv, GCTypes, GCTypeOK
<1>2. /\ gc[c] = "write" /\ pc[c] = "start"
      /\ k \in 1..Len(plan[c]) /\ log = SubSeq(plan[c], 1, k - 1)
      /\ gc' = [gc EXCEPT ![c] = IF last THEN "verify" ELSE "write"]
      /\ at' = [at EXCEPT ![c] = k + 1]
      /\ UNCHANGED <<open, pc, req, ev, plan, landed>>
  BY DEF GCWriteLine, GoGC, appendVars, GCInv, GCPlaced
<1> HIDE DEF last
<1>3. PICK s \in Seq(Event) : s = plan[c]
  BY <1>1
<1>4. /\ Len(s) \in Nat /\ k \in Nat /\ k - 1 \in Nat /\ k \in 1..Len(s)
      /\ \A i \in 1..Len(s) : s[i] \in Event
  <2>1. Len(s) \in Nat /\ \A i \in 1..Len(s) : s[i] \in Event
    BY LenProperties, ElementOfSeq
  <2> QED
    BY <1>2, <1>3, <2>1
<1>5. Len(log) = k - 1 /\ \A i \in 1..k - 1 : log[i] = s[i]
  <2>1. \A i \in 1..k - 1 : s[i] \in Event
    BY <1>4
  <2>2. /\ Len(SubSeq(s, 1, k - 1)) = IF 1 <= k - 1 THEN (k - 1) - 1 + 1 ELSE 0
        /\ \A i \in 1..(k - 1) - 1 + 1 : SubSeq(s, 1, k - 1)[i] = s[1 + i - 1]
    BY <1>4, <2>1, SubSeqProperties
  <2>3. (k - 1) - 1 + 1 = k - 1 /\ (~(1 <= k - 1) => k - 1 = 0)
        /\ \A i \in 1..k - 1 : 1 + i - 1 = i
    BY <1>4
  <2> QED
    BY <1>2, <1>3, <2>2, <2>3
<1>6. log' = Append(log, s[k])
  <2>1. SubSeq(log, k + 1, Len(log)) = <<>>
    BY <1>4, <1>5, SubSeqEmpty
  <2>2. SubSeq(log, 1, k - 1) = log
    BY <1>1, <1>5, SubSeqFull
  <2>3. ~(k <= Len(log))
    BY <1>4, <1>5
  <2>4. log' = Append(SubSeq(log, 1, k - 1), plan[c][k]) \o SubSeq(log, k + 1, Len(log))
    BY <2>3 DEF GCWriteLine
  <2>5. Append(log, s[k]) \in Seq(Event)
    BY <1>1, <1>4, AppendProperties
  <2>6. Append(log, s[k]) \o <<>> = Append(log, s[k])
    BY <2>5, ConcatEmptySeq
  <2> QED
    BY <1>3, <2>1, <2>2, <2>4, <2>6
<1>7. PICK new \in Seq(Event) :
        /\ new = log'
        /\ Len(new) = k
        /\ \A i \in 1..k : new[i] = s[i]
  <2>1. PICK e \in Event : e = s[k]
    BY <1>4
  <2>2. PICK new \in Seq(Event) :
          /\ new = Append(log, e)
          /\ Len(new) = Len(log) + 1
          /\ \A i \in 1..Len(log) : new[i] = log[i]
          /\ new[Len(log) + 1] = e
    BY <1>1, AppendProperties
  <2>3. Len(log) + 1 = k
    BY <1>4, <1>5
  <2>4. \A i \in 1..k : i \in 1..k - 1 \/ i = k
    BY <1>4
  <2>5. \A i \in 1..k : new[i] = s[i]
    BY <1>5, <2>1, <2>2, <2>3, <2>4
  <2> QED
    BY <1>6, <2>1, <2>2, <2>3, <2>5
<1>8. new = SubSeq(s, 1, k)
  <2>1. \A i \in 1..k : s[i] \in Event
    BY <1>4
  <2>2. /\ SubSeq(s, 1, k) \in Seq(Event)
        /\ Len(SubSeq(s, 1, k)) = IF 1 <= k THEN k - 1 + 1 ELSE 0
        /\ \A i \in 1..k - 1 + 1 : SubSeq(s, 1, k)[i] = s[1 + i - 1]
    BY <1>4, <2>1, SubSeqProperties
  <2>3. k - 1 + 1 = k /\ 1 <= k /\ \A i \in 1..k : 1 + i - 1 = i
    BY <1>4
  <2>4. Len(SubSeq(s, 1, k)) = k /\ \A i \in 1..k : SubSeq(s, 1, k)[i] = s[i]
    BY <2>2, <2>3
  <2> QED
    BY <1>7, <2>2, <2>4, SeqEqual
<1>9. /\ \A d \in Collectors \ {c} : ~Collecting(d) /\ ~Planned(d)
      /\ \A q \in Proc \ {c} : pc[q] # "write"
  BY Turns
<1>10. /\ gc'[c] = IF last THEN "verify" ELSE "write"
       /\ \A d \in Collectors \ {c} : gc'[d] = gc[d]
       /\ gc' \in [Collectors -> GC]
  BY <1>1, <1>2 DEF GC
<1>11. \A d \in Collectors \ {c} : at'[d] = at[d]
  BY <1>2
<1>12. at'[c] = k + 1 /\ at' \in [Collectors -> Nat]
  <2>1. k + 1 \in Nat
    BY <1>4
  <2> QED
    BY <1>1, <1>2, <2>1
<1>13. GCTypes'
  <2>1. \A d \in Collectors : at'[d] \in 1..Len(plan'[d]) + 1
    BY <1>1, <1>2, <1>3, <1>4, <1>11, <1>12
  <2> QED
    BY <1>2, <1>7, <1>10, <1>12, <2>1 DEF GCInv, GCTypes, GCTypeOK
<1>14. GCPlaced'
  <2>1. \A q, r \in Proc : Busy(q)' /\ Busy(r)' => q = r
    <3>1. \A q \in Proc \ {c} : ~Busy(q)'
      BY <1>2, <1>10 DEF Busy, Running, Collecting
    <3> QED
      BY <3>1
  <2>2. \A d \in Collectors : gc'[d] # "append" => pc'[d] = "start"
    BY <1>2, <1>10 DEF GCInv, GCPlaced
  <2>3. \A q \in Proc : pc'[q] # "write"
    BY <1>2, <1>9
  <2>4. \A d \in Collectors : gc'[d] \in {"idle", "plan", "create"} => at'[d] = 1
    BY <1>2, <1>10, <1>11 DEF GCInv, GCPlaced
  <2>5. ASSUME NEW d \in Collectors, gc'[d] = "write"
        PROVE  at'[d] \in 1..Len(plan'[d]) /\ log' = SubSeq(plan'[d], 1, at'[d] - 1)
    <3>1. d = c /\ ~last
      BY <1>9, <1>10, <2>5 DEF Planned
    <3>2. k # Len(s)
      BY <1>3, <3>1 DEF last
    <3>3. k + 1 \in 1..Len(s) /\ (k + 1) - 1 = k
      BY <1>4, <3>2
    <3> QED
      BY <1>2, <1>3, <1>7, <1>8, <1>12, <3>1, <3>3
  <2> QED
    BY <2>1, <2>2, <2>3, <2>4, <2>5 DEF GCPlaced
<1>15. GCRetained'
  <2>1. NoOld(s) /\ (Whole => DataOf(s) = landed)
    BY <1>2, <1>3 DEF GCInv, GCRetained, Planned
  <2>2. Whole' => Whole
    BY <1>2, <1>10 DEF Whole
  <2>3. \A d \in Collectors : Planned(d)' => d = c
    BY <1>9, <1>10 DEF Planned
  <2>4. ASSUME Whole', gc'[c] # "write" PROVE DataOf(Fresh(log')) = landed
    <3>1. k = Len(s)
      BY <1>3, <1>10, <2>4 DEF last
    <3>2. log' = s
      BY <1>7, <3>1, SeqEqual
    <3>3. Fresh(s) = s
      BY <2>1, FreshAll
    <3> QED
      BY <2>1, <2>2, <2>4, <3>2, <3>3
  <2> QED
    BY <1>2, <1>3, <2>1, <2>2, <2>3, <2>4 DEF GCRetained
<1>16. GCVerifies'
  <2> SUFFICES ASSUME StrongOnly
               PROVE  Strong(log') /\ \A d \in Collectors : Planned(d)' => Strong(plan[d])
    BY <1>2 DEF GCVerifies, StrongOnly, Strong, ChainOK, PrefixOK, EntryOK, PrevHash, Parses
  <2>1. \A d \in Collectors : Planned(d)' => d = c
    BY <1>9, <1>10 DEF Planned
  <2>2. Strong(s)
    BY <1>2, <1>3 DEF GCInv, GCVerifies, Planned
  <2>3. ChainOK(A2, SubSeq(s, 1, k))
    BY <1>4, <2>2, ChainPrefix DEF Strong
  <2>4. Strong(new)
    BY <1>4, <1>7, <1>8, <2>2, <2>3 DEF Strong
  <2> QED
    BY <1>3, <1>7, <2>1, <2>2, <2>4
<1> QED
  BY <1>13, <1>14, <1>15, <1>16 DEF GCInv

\* What an appending command does to the stream: its line lands at the end.
LEMMA GCLandStep ==
  ASSUME GCInv, NEW p \in Proc, \A q \in Proc \ {p} : ~Busy(q),
         p \in Collectors => gc[p] = "append", WriteLine(p), Appending(p)
  PROVE  GCInv'
<1>1. /\ gc \in [Collectors -> GC] /\ pc \in [Proc -> PC] /\ log \in Seq(Event)
      /\ open = FALSE /\ landed \in Seq(Data \ Old)
      /\ req[p].level \in Level /\ req[p].data \in Data
  <2>1. req[p] \in Request
    BY DataAssumption DEF GCInv, GCTypes
  <2> QED
    BY <2>1 DEF GCInv, GCTypes, GCTypeOK, Request
<1>2. PICK l \in {"truncate", "verify"} :
        /\ pc[p] = "write" /\ pc' = [pc EXCEPT ![p] = l]
        /\ log' = Append(log, ev[p]) /\ open' = FALSE
        /\ UNCHANGED <<req, ev, gc, plan, at>>
  BY <1>1 DEF WriteLine, Goto, Land, Appending, gcVars
<1>3. pc'[p] = l /\ pc' \in [Proc -> PC] /\ \A q \in Proc \ {p} : pc'[q] = pc[q]
  BY <1>1, <1>2 DEF PC
<1>4. landed' = IF req[p].data \notin Old THEN Append(landed, req[p].data) ELSE landed
  BY <1>2, <1>3 DEF Appending
<1>5. PICK e \in Event :
        /\ e = ev[p]
        /\ e = NewEvent(req[p].level, req[p].data, log)
        /\ e.data = req[p].data /\ e.level = req[p].level
  <2>1. ev[p] = NewEvent(req[p].level, req[p].data, log)
    BY <1>2 DEF GCInv, GCPlaced
  <2> QED
    BY <1>1, <2>1, NewEventOf
<1>6. PICK new \in Seq(Event) :
        /\ new = log' /\ new = Append(log, e)
        /\ Len(new) = Len(log) + 1
        /\ \A i \in 1..Len(log) : new[i] = log[i]
        /\ new[Len(log) + 1] = e
  <2>1. log' = Append(log, e)
    BY <1>2, <1>5
  <2>2. /\ Append(log, e) \in Seq(Event)
        /\ Len(Append(log, e)) = Len(log) + 1
        /\ \A i \in 1..Len(log) : Append(log, e)[i] = log[i]
        /\ Append(log, e)[Len(log) + 1] = e
    BY <1>1, AppendProperties
  <2> QED
    BY <2>1, <2>2
<1>7. /\ \A c \in Collectors \ {p} : ~Collecting(c) /\ ~Planned(c)
      /\ \A q \in Proc \ {p} : pc[q] # "write"
  BY Turns
<1>8. \A c \in Collectors : ~Planned(c) /\ ~Planned(c)'
  BY <1>2, <1>7 DEF Planned
<1>9. GCTypes'
  <2>1. landed' \in Seq(Data \ Old)
    <3>1. CASE req[p].data \in Old
      BY <1>1, <1>4, <3>1
    <3>2. CASE req[p].data \notin Old
      <4>1. Append(landed, req[p].data) \in Seq(Data \ Old)
        BY <1>1, <3>2, AppendProperties
      <4> QED
        BY <1>4, <3>2, <4>1
    <3> QED
      BY <3>1, <3>2
  <2> QED
    BY <1>2, <1>3, <1>6, <2>1 DEF GCInv, GCTypes, GCTypeOK
<1>10. GCPlaced'
  <2>1. \A q, r \in Proc : Busy(q)' /\ Busy(r)' => q = r
    <3>1. \A q \in Proc \ {p} : ~Busy(q)'
      BY <1>2, <1>3 DEF Busy, Running, Collecting
    <3> QED
      BY <3>1
  <2>2. \A d \in Collectors : gc'[d] # "append" => pc'[d] = "start"
    <3> TAKE d \in Collectors
    <3>1. d \in Proc
      BY CollectorAssumption
    <3> QED
      BY <1>2, <1>3, <3>1 DEF GCInv, GCPlaced
  <2>3. \A q \in Proc : pc'[q] # "write"
    BY <1>3, <1>7
  <2>4. \A d \in Collectors : gc'[d] \in {"idle", "plan", "create"} => at'[d] = 1
    BY <1>2 DEF GCInv, GCPlaced
  <2>5. \A d \in Collectors : gc'[d] # "write"
    BY <1>8 DEF Planned
  <2> QED
    BY <2>1, <2>2, <2>3, <2>4, <2>5 DEF GCPlaced
<1>11. GCRetained'
  <2>1. Whole' => DataOf(Fresh(log)) = landed
    BY <1>2, <1>8 DEF GCInv, GCRetained, Whole, Planned
  <2>2. Fresh(new) = IF e.data \in Old THEN Fresh(log) ELSE Append(Fresh(log), e)
    BY <1>1, <1>6, FreshAppend
  <2>3. DataOf(Append(Fresh(log), e)) = Append(DataOf(Fresh(log)), e.data)
    <3>1. Fresh(log) \in Seq(Event)
      BY <1>1, FreshProperties
    <3> QED
      BY <3>1, DataOfAppend
  <2>4. Whole' => DataOf(Fresh(new)) = landed'
    <3>1. CASE e.data \in Old
      BY <1>4, <1>5, <2>1, <2>2, <3>1
    <3>2. CASE e.data \notin Old
      BY <1>4, <1>5, <2>1, <2>2, <2>3, <3>2
    <3> QED
      BY <3>1, <3>2
  <2> QED
    BY <1>6, <1>8, <2>4 DEF GCRetained
<1>12. GCVerifies'
  <2> SUFFICES ASSUME StrongOnly PROVE Strong(new)
    BY <1>6, <1>8 DEF GCVerifies, StrongOnly
  <2>1. Strong(log)
    BY DEF GCInv, GCVerifies
  <2>2. req[p].level \in {A2, A3} /\ req[p].data \in Data \ Oversize
    <3>1. req[p].append
      BY <1>2 DEF GCInv, GCPlaced
    <3>2. req[p] \in Requests
      BY DEF GCInv, GCTypes
    <3>3. req[p].level >= A2 /\ req[p].data \notin Oversize
      BY <3>1, <3>2 DEF StrongOnly
    <3>4. \A n \in Level : n >= A2 => n \in {A2, A3}
      BY DEF Level, A2, A3
    <3> QED
      BY <1>1, <3>3, <3>4
  <2>3. log \in Seq(Line)
    <3>1. Event \subseteq Line
      BY DEF Line
    <3> QED
      BY <1>1, <3>1, SeqMonotonic
  <2>4. ChainOK(A2, new)
    BY <1>5, <1>6, <2>1, <2>2, <2>3, ChainExtends DEF Strong
  <2>5. ASSUME NEW i \in 1..Len(new) PROVE new[i].level \in {A2, A3}
    <3>1. Len(log) \in Nat
      BY <1>1, LenProperties
    <3>2. i \in 1..Len(log) \/ i = Len(log) + 1
      BY <1>6, <3>1
    <3>3. CASE i \in 1..Len(log)
      BY <1>6, <2>1, <3>3 DEF Strong
    <3>4. CASE i = Len(log) + 1
      BY <1>5, <1>6, <2>2, <3>4
    <3> QED
      BY <3>2, <3>3, <3>4
  <2> QED
    BY <2>4, <2>5 DEF Strong
<1> QED
  BY <1>9, <1>10, <1>11, <1>12 DEF GCInv

\* The other steps of an appending command leave the stream alone.
LEMMA GCAppendingStep ==
  ASSUME GCInv, NEW p \in Proc, \A q \in Proc \ {p} : ~Busy(q), Appending(p)
  PROVE  GCInv'
<1>1. /\ gc \in [Collectors -> GC] /\ pc \in [Proc -> PC] /\ log \in Seq(Event)
      /\ ev \in [Proc -> Event \cup {None}] /\ open = FALSE
      /\ req[p].level \in Level /\ req[p].data \in Data
  <2>1. req[p] \in Request
    BY DataAssumption DEF GCInv, GCTypes
  <2> QED
    BY <2>1 DEF GCInv, GCTypes, GCTypeOK, Request
<1>2. (p \in Collectors => gc[p] = "append") /\ UNCHANGED <<gc, plan, at>>
  BY DEF Appending, gcVars
<1>3. CASE WriteLine(p)
  BY <1>2, <1>3, GCLandStep
<1>4. CASE ReadLog(p) /\ readEvents(log)
  <2>1. /\ pc[p] = "start" /\ req[p].append
        /\ ev' = [ev EXCEPT ![p] = NewEvent(req[p].level, req[p].data, log)]
        /\ pc' = [pc EXCEPT ![p] = "write"]
        /\ UNCHANGED <<log, open, req>>
    BY <1>4 DEF ReadLog, Goto
  <2>2. landed' = landed
    BY <2>1 DEF Appending
  <2>3. NewEvent(req[p].level, req[p].data, log) \in Event
    BY <1>1, NewEventOf
  <2>4. /\ pc'[p] = "write" /\ pc' \in [Proc -> PC] /\ \A q \in Proc \ {p} : pc'[q] = pc[q]
        /\ ev'[p] = NewEvent(req[p].level, req[p].data, log)
        /\ ev' \in [Proc -> Event \cup {None}]
    BY <1>1, <2>1, <2>3 DEF PC
  <2>5. /\ \A c \in Collectors \ {p} : ~Collecting(c) /\ ~Planned(c)
        /\ \A q \in Proc \ {p} : pc[q] # "write"
    BY Turns
  <2>6. \A c \in Collectors : ~Planned(c) /\ ~Planned(c)'
    BY <1>2, <2>5 DEF Planned
  <2>7. GCTypes'
    BY <1>2, <2>1, <2>2, <2>4 DEF GCInv, GCTypes, GCTypeOK
  <2>8. GCPlaced'
    <3>1. \A q, r \in Proc : Busy(q)' /\ Busy(r)' => q = r
      <4>1. \A q \in Proc \ {p} : ~Busy(q)'
        BY <1>2, <2>4 DEF Busy, Running, Collecting
      <4> QED
        BY <4>1
    <3>2. \A d \in Collectors : gc'[d] # "append" => pc'[d] = "start"
      <4> TAKE d \in Collectors
      <4>1. d \in Proc
        BY CollectorAssumption
      <4> QED
        BY <1>2, <2>4, <4>1 DEF GCInv, GCPlaced
    <3>3. \A q \in Proc : pc'[q] = "write" =>
            req'[q].append /\ ev'[q] = NewEvent(req'[q].level, req'[q].data, log')
      BY <2>1, <2>4, <2>5
    <3>4. \A d \in Collectors : gc'[d] \in {"idle", "plan", "create"} => at'[d] = 1
      BY <1>2 DEF GCInv, GCPlaced
    <3>5. \A d \in Collectors : gc'[d] # "write"
      BY <2>6 DEF Planned
    <3> QED
      BY <3>1, <3>2, <3>3, <3>4, <3>5 DEF GCPlaced
  <2>9. GCRetained'
    BY <1>2, <2>1, <2>2, <2>6 DEF GCInv, GCRetained, Whole, Planned
  <2>10. GCVerifies'
    BY <2>1, <2>6 DEF GCInv, GCVerifies
  <2> QED
    BY <2>7, <2>8, <2>9, <2>10 DEF GCInv
<1>5. CASE \/ ReadLog(p) /\ ~readEvents(log)
           \/ TruncateCheckpoint(p) \/ WriteCheckpoint(p)
           \/ VerifyLog(p) \/ VerifyCheckpoint(p) \/ Kill(p)
  <2>1. /\ UNCHANGED <<log, open, req, ev>>
        /\ \E l \in PC \ {"write", "start"} : pc' = [pc EXCEPT ![p] = l]
        /\ Kill(p) \/ pc[p] # "write"
    BY <1>5 DEF ReadLog, TruncateCheckpoint, WriteCheckpoint, VerifyLog, VerifyCheckpoint,
                Kill, Goto, PC
  <2>2. PICK l \in PC \ {"write", "start"} : pc' = [pc EXCEPT ![p] = l]
    BY <2>1
  <2>3. pc'[p] = l /\ pc' \in [Proc -> PC] /\ \A q \in Proc \ {p} : pc'[q] = pc[q]
    BY <1>1, <2>2
  <2>4. Kill(p) => pc'[p] = "killed"
    BY <1>1 DEF Kill, Goto
  <2>5. landed' = landed
    BY <2>1, <2>4 DEF Appending
  <2> QED
    BY <1>1, <1>2, <2>1, <2>3, <2>5, GCQuiet
<1> QED
  BY <1>3, <1>4, <1>5 DEF Appending, Step

LEMMA GCCollectStep ==
  ASSUME GCInv, NEW c \in Collectors, c \in Proc, \A q \in Proc \ {c} : ~Busy(q), Collect(c)
  PROVE  GCInv'
<1>1. gc \in [Collectors -> GC] /\ pc \in [Proc -> PC]
  BY DEF GCInv, GCTypes, GCTypeOK
<1>2. CASE GCPreflight(c) \/ GCVerify(c) \/ GCKill(c)
  <2>1. /\ UNCHANGED <<log, open, pc, req, ev, plan, at, landed>>
        /\ gc[c] \in {"idle", "plan", "create", "write", "verify"}
    BY <1>2 DEF GCPreflight, GCVerify, GCKill, appendVars, Collecting
  <2>2. PICK l \in GC : /\ gc' = [gc EXCEPT ![c] = l]
                        /\ l \notin {"idle", "create", "write"}
                        /\ gc[c] = "write" => l = "killed"
                        /\ l = "plan" => gc[c] = "idle"
    BY <1>2 DEF GCPreflight, GCVerify, GCKill, GoGC, GC
  <2>3. gc'[c] = l /\ gc' \in [Collectors -> GC] /\ \A d \in Collectors \ {c} : gc'[d] = gc[d]
    BY <1>1, <2>2
  <2>4. pc[c] = "start"
    BY <2>1 DEF GCInv, GCPlaced
  <2> QED
    BY <1>1, <2>1, <2>2, <2>3, <2>4, GCQuiet
<1>3. CASE GCPlan(c)
  BY <1>3, GCPlanStep
<1>4. CASE GCCreate(c)
  BY <1>4, GCCreateStep
<1>5. CASE GCWriteLine(c)
  BY <1>5, GCWriteLineStep
<1> QED
  BY <1>2, <1>3, <1>4, <1>5 DEF Collect

LEMMA GCInvariant == SerialGCSpec => []GCInv
<1>1. GCInv /\ [SerialGCNext]_allVars => GCInv'
  <2> SUFFICES ASSUME GCInv, [SerialGCNext]_allVars PROVE GCInv'
    OBVIOUS
  <2>1. CASE SerialGCNext
    <3>1. PICK p \in Proc : /\ \A q \in Proc \ {p} : ~Busy(q)
                            /\ Appending(p) \/ (p \in Collectors /\ Collect(p))
      BY <2>1 DEF SerialGCNext
    <3> QED
      BY <3>1, GCAppendingStep, GCCollectStep
  <2>2. CASE UNCHANGED allVars
    BY <2>2 DEF allVars, vars, gcVars, GCInv, GCTypes, GCTypeOK, GCPlaced, GCRetained,
                GCVerifies, Busy, Running, Collecting, Planned, Whole, StrongOnly
  <2> QED
    BY <2>1, <2>2
<1> QED
  BY <1>1, GCInvInit, PTL DEF SerialGCSpec

\* A collector that runs while nobody else does leaves a stream that verifies
\* at A2: between any two of its writes, and wherever it is killed.
THEOREM CollectionKeepsChain == SerialGCSpec => []SerialChainOK
<1>1. GCInv => SerialChainOK
  BY DEF GCInv, GCVerifies, Strong, SerialChainOK
<1> QED
  BY <1>1, GCInvariant, PTL

\* No such collector loses, reorders or doubles an event that is not old.
THEOREM FreshAreRetained == SerialGCSpec => []FreshRetained
<1>1. GCInv => FreshRetained
  <2> SUFFICES ASSUME GCInv, Settled PROVE DataOf(Fresh(log)) = landed
    BY DEF FreshRetained, DataOf
  <2>1. Whole /\ \A c \in Collectors : gc[c] # "write"
    BY DEF Settled, Whole
  <2> QED
    BY <2>1 DEF GCInv, GCRetained
<1> QED
  BY <1>1, GCInvariant, PTL
=============================================================================
