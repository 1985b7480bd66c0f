------------------------------ MODULE AuditLog ------------------------------
(***************************************************************************)
(* One audit stream of a project store (internal/audit): a JSON-lines file *)
(* and its checkpoint file, used by commands that are separate, short-     *)
(* lived operating-system processes.  Nothing locks the files, so every    *)
(* system call of one process interleaves with those of the others.        *)
(*                                                                         *)
(* A process is one invocation of AppendAndVerify (append, then verify at  *)
(* the same level) or of VerifyIntegrity alone.  Its arguments are chosen  *)
(* once, in Init; it may start at any time and runs at most once.          *)
(*                                                                         *)
(* A hash is modelled by what it commits to: the hash of an event is the   *)
(* sequence of <<seq, data, payload hash>> links chained so far.  That     *)
(* makes computeChainHash injective, as SHA-256 is assumed to be.          *)
(***************************************************************************)
EXTENDS Naturals, Sequences, FiniteSets

CONSTANTS
  Proc,      \* the invocations
  Data,      \* an action name together with its payload
  Oversize,  \* the data whose line exceeds the scanner's 64 KiB buffer
  Requests,  \* the requests the invocations may make
  None,      \* no data, no payload hash, no event, no checkpoint file
  Garbled,   \* a line that is not one JSON object
  Torn       \* a checkpoint file that was truncated and not yet rewritten

Level == 0..3   \* A0 .. A3, ordered as levelRank orders them
A0 == 0
A1 == 1
A2 == 2
A3 == 3

Link  == [seq : Nat, data : Data, payloadHash : Data \cup {None}]
Hash  == Seq(Link)
NoHash == <<>>
Event == [seq : Nat, data : Data, level : Level,
          payloadHash : Data \cup {None}, prevHash : Hash, hash : Hash]
Line  == Event \cup {Garbled}
Checkpoint == [seq : Nat, hash : Hash]
Request == [append : BOOLEAN, level : Level, data : Data]

ASSUME DataAssumption ==
  /\ Oversize \subseteq Data
  /\ Requests \subseteq Request
  /\ None \notin Data
  /\ None \notin Event
  /\ None \notin Checkpoint
  /\ Garbled \notin Event
  /\ Torn \notin Checkpoint

VARIABLES
  log,         \* the lines of the events file
  open,        \* the last line of the file lacks its newline
  checkpoint,  \* the checkpoint file: None, Torn or a Checkpoint
  pc,          \* where each invocation is
  req,         \* its arguments
  ev,          \* the event it built, None before
  pos,         \* history: the number of the line its event landed on, 0 before
  seen         \* the log head its verification read, for the A3 comparison

vars == <<log, open, checkpoint, pc, req, ev, pos, seen>>

-----------------------------------------------------------------------------
(* Reading and verifying the file *)

computeChainHash(seq, data, payloadHash, prevHash) ==
  Append(prevHash, [seq |-> seq, data |-> data, payloadHash |-> payloadHash])

Parses(line) == line # Garbled /\ line.data \notin Oversize

readEvents(lines) == \A i \in 1..Len(lines) : Parses(lines[i])

PrevHash(lines, i) == IF i = 1 THEN NoHash ELSE lines[i - 1].hash

EntryOK(level, lines, i) ==
  /\ lines[i].seq = i
  /\ level >= A1 => lines[i].payloadHash = lines[i].data
  /\ level >= A2 =>
       /\ lines[i].prevHash = PrevHash(lines, i)
       /\ lines[i].hash = computeChainHash(lines[i].seq, lines[i].data,
                                           lines[i].payloadHash, lines[i].prevHash)

PrefixOK(level, lines, n) ==
  \A i \in 1..n : Parses(lines[i]) /\ EntryOK(level, lines, i)

\* VerifyIntegrity without the checkpoint comparison of level A3.
ChainOK(level, lines) == PrefixOK(level, lines, Len(lines))

HeadOf(lines) ==
  IF lines = <<>> THEN [seq |-> 0, hash |-> NoHash]
  ELSE [seq |-> lines[Len(lines)].seq, hash |-> lines[Len(lines)].hash]

\* The event AppendEvent builds from the lines it has read.
NewEvent(level, data, lines) ==
  LET seq  == Len(lines) + 1
      ph   == IF level >= A1 THEN data ELSE None
      prev == HeadOf(lines).hash
  IN [seq |-> seq, data |-> data, level |-> level, payloadHash |-> ph,
      prevHash |-> IF level >= A2 THEN prev ELSE NoHash,
      hash |-> IF level >= A2 THEN computeChainHash(seq, data, ph, prev)
               ELSE NoHash]

-----------------------------------------------------------------------------
(* The steps of an invocation *)

PC == {"start", "write", "truncate", "checkpoint", "verify", "head",
       "ok", "err", "killed"}
Running(p) == pc[p] \in {"write", "truncate", "checkpoint", "verify", "head"}
Goto(p, l) == pc' = [pc EXCEPT ![p] = l]

Init ==
  /\ log = <<>>
  /\ open = FALSE
  /\ checkpoint = None
  /\ pc = [p \in Proc |-> "start"]
  /\ req \in [Proc -> Requests]
  /\ ev = [p \in Proc |-> None]
  /\ pos = [p \in Proc |-> 0]
  /\ seen = [p \in Proc |-> None]

\* Mutant: at A3 the checkpoint is written before the line.
ReadLogCheckpointFirst(p) ==
  /\ pc[p] = "start" /\ req[p].append /\ readEvents(log)
  /\ ev' = [ev EXCEPT ![p] = NewEvent(req[p].level, req[p].data, log)]
  /\ Goto(p, IF req[p].level = A3 THEN "truncate" ELSE "write")
  /\ UNCHANGED <<log, open, checkpoint, req, pos, seen>>

\* AppendEvent reads the whole file; the next number and the previous hash
\* come from what it read.
ReadLog(p) ==
  /\ pc[p] = "start" /\ req[p].append
  /\ IF readEvents(log)
       THEN /\ ev' = [ev EXCEPT ![p] = NewEvent(req[p].level, req[p].data, log)]
            /\ Goto(p, "write")
       ELSE /\ Goto(p, "err")
            /\ UNCHANGED ev
  /\ UNCHANGED <<log, open, checkpoint, req, pos, seen>>

\* Mutant: the file is opened with O_TRUNC.
LandTruncates(line) == <<line>>

\* An O_APPEND write lands on the line after the last newline.
Land(line) == IF open THEN [log EXCEPT ![Len(log)] = Garbled]
                      ELSE Append(log, line)

WriteLine(p) ==
  /\ pc[p] = "write"
  /\ log' = Land(ev[p])
  /\ open' = FALSE
  /\ pos' = [pos EXCEPT ![p] = Len(log')]
  /\ Goto(p, IF req[p].level = A3 THEN "truncate" ELSE "verify")
  /\ UNCHANGED <<checkpoint, req, ev, seen>>

\* The disk is full or the power fails during the write: a fragment of the
\* line, or the whole line without its newline, is left behind.
PartialWrite(p) ==
  /\ pc[p] = "write"
  /\ \E left \in {Garbled, ev[p]} : log' = Land(left)
  /\ open' = TRUE
  /\ Goto(p, "err")
  /\ UNCHANGED <<checkpoint, req, ev, pos, seen>>

\* os.WriteFile truncates the checkpoint and then writes it.  (Checkpoints
\* are taken to have equal length, so that one write covers another.)
TruncateCheckpoint(p) ==
  /\ pc[p] = "truncate"
  /\ checkpoint' = Torn
  /\ Goto(p, "checkpoint")
  /\ UNCHANGED <<log, open, req, ev, pos, seen>>

\* Mutant: the checkpoint holds the whole event.
WriteCheckpointEvent(p) ==
  /\ pc[p] = "checkpoint"
  /\ checkpoint' = ev[p]
  /\ Goto(p, "verify")
  /\ UNCHANGED <<log, open, req, ev, pos, seen>>

WriteCheckpoint(p) ==
  /\ pc[p] = "checkpoint"
  /\ checkpoint' = [seq |-> ev[p].seq, hash |-> ev[p].hash]
  /\ Goto(p, "verify")
  /\ UNCHANGED <<log, open, req, ev, pos, seen>>

\* Mutant: AppendEvent without the verification after it.
VerifyLogSkipped(p) ==
  /\ pc[p] = IF req[p].append THEN "verify" ELSE "start"
  /\ Goto(p, "ok")
  /\ UNCHANGED <<log, open, checkpoint, req, ev, pos, seen>>

\* VerifyIntegrity reads the file again; at A3 it goes on to the checkpoint.
VerifyLog(p) ==
  /\ pc[p] = IF req[p].append THEN "verify" ELSE "start"
  /\ IF ~ChainOK(req[p].level, log)
       THEN Goto(p, "err") /\ UNCHANGED seen
     ELSE IF req[p].level = A3
       THEN /\ seen' = [seen EXCEPT ![p] = HeadOf(log)]
            /\ Goto(p, "head")
       ELSE Goto(p, "ok") /\ UNCHANGED seen
  /\ UNCHANGED <<log, open, checkpoint, req, ev, pos>>

VerifyCheckpoint(p) ==
  /\ pc[p] = "head"
  /\ Goto(p, IF checkpoint = seen[p] THEN "ok" ELSE "err")
  /\ UNCHANGED <<log, open, checkpoint, req, ev, pos, seen>>

\* The process is killed between two system calls.
Kill(p) ==
  /\ Running(p)
  /\ Goto(p, "killed")
  /\ UNCHANGED <<log, open, checkpoint, req, ev, pos, seen>>

\* Steps a process takes by itself.
Step(p) ==
  \/ ReadLog(p)
  \/ WriteLine(p)
  \/ TruncateCheckpoint(p)
  \/ WriteCheckpoint(p)
  \/ VerifyLog(p)
  \/ VerifyCheckpoint(p)

Next == \E p \in Proc : Step(p) \/ PartialWrite(p) \/ Kill(p)

Spec == Init /\ [][Next]_vars

\* The same program used by one command at a time, on a disk that does not
\* fail: what the code's callers assume, though nothing enforces it.
Serial(p) == \A q \in Proc \ {p} : ~Running(q)
SerialNext == \E p \in Proc : Serial(p) /\ (Step(p) \/ Kill(p))
SerialSpec == Init /\ [][SerialNext]_vars

-----------------------------------------------------------------------------
(* Properties *)

\* The types of the variables.
TypeOK ==
  /\ log \in Seq(Line)
  /\ open \in BOOLEAN
  /\ checkpoint \in Checkpoint \cup {None, Torn}
  /\ pc \in [Proc -> PC]
  /\ req \in [Proc -> Requests]
  /\ ev \in [Proc -> Event \cup {None}]
  /\ pos \in [Proc -> Nat]
  /\ seen \in [Proc -> Checkpoint \cup {None}]

Acked(p) == pc[p] = "ok" /\ req[p].append

\* An append that was reported successful is on its own line, under the
\* number it returned, and everything up to it verifies at the level that
\* was asked for; no race, kill or torn write of others takes that away.
AckedDurable ==
  \A p \in Proc : Acked(p) =>
    /\ pos[p] \in 1..Len(log)
    /\ ev[p].seq = pos[p]
    /\ log[pos[p]] = ev[p]
    /\ PrefixOK(req[p].level, log, pos[p])

\* Racing appends read the same length and build the same number; at most
\* one of those that hold a number is ever reported successful.
AckedUnique ==
  \A p, q \in Proc : Acked(p) /\ Acked(q) /\ p # q => ev[p].seq # ev[q].seq

\* The checkpoint never names an event that is not in the log: it is
\* written after the line, whatever the processes in between do.
CheckpointNamesEvent ==
  checkpoint \in Checkpoint /\ readEvents(log) =>
    \E i \in DOMAIN log : /\ log[i].seq = checkpoint.seq
                          /\ log[i].hash = checkpoint.hash

\* Damage is permanent: no step of any command, failing or not, brings a
\* stream that does not verify back to one that does.
DamagePermanent ==
  [][\A l \in Level : ChainOK(l, log)' => ChainOK(l, log)]_log

\* The implementation of the ledger: the numbered prefix a reader accepts.
\* A last line without its newline is not counted: the next append destroys it.
Closed == IF open THEN Len(log) - 1 ELSE Len(log)
Accepted(n) == \A i \in 1..n : Parses(log[i]) /\ log[i].seq = i
Extent == CHOOSE n \in 0..Closed : Accepted(n) /\ (n < Closed => ~Accepted(n + 1))
Entries == [i \in 1..Extent |-> log[i].data]
Receipts == {<<ev[p].seq, ev[p].data>> : p \in {q \in Proc : Acked(q)}}
Frozen == ~Accepted(Closed) \/ open
Ledger ==
  INSTANCE AuditLedger WITH
    entries  <- Entries,
    receipts <- Receipts,
    frozen   <- Frozen

\* The stream keeps the ledger's promise under every interleaving and fault.
LedgerSpec == Ledger!Spec

\* Every append is made at A2 or above, as all commands but "audit append" do,
\* and none is too long to be read back.
StrongOnly == \A r \in Requests : r.append => r.level >= A2 /\ r.data \notin Oversize

\* One command at a time: the chain verifies at A2 in every state.
SerialChainOK == StrongOnly => ChainOK(A2, log)

\* One command at a time: no append is ever refused.
SerialAppendsSucceed ==
  StrongOnly =>
     \A p \in Proc : req[p].append => pc[p] # "err"

\* One command at a time: once an A3 append has ended by itself, and until
\* the next line, the checkpoint is the head of the log.
SerialCheckpointIsHead ==
  StrongOnly =>
     \A p \in Proc :
        /\ pc[p] \in {"ok", "err"}
        /\ req[p].append /\ req[p].level = A3
        /\ pos[p] = Len(log)
        => checkpoint = HeadOf(log)
=============================================================================
