------------------------------ MODULE AuditLog ------------------------------
(***************************************************************************)
(* internal/audit: the hash-chained JSONL log.  A Writer appends events    *)
(* under its mutex, each with the hash of the one before, and a signed     *)
(* checkpoint after every CheckpointEvery of them; NewWriter replays an    *)
(* existing log and resumes its chain; Verify replays it with or without   *)
(* the public key.                                                         *)
(*                                                                         *)
(* A write may fail or the process may end with nothing, a part of the     *)
(* line or all of it but the newline in the file: whatever is written next *)
(* is then on the same line.  What has been written stays written: Append  *)
(* does not sync, so a crash of the machine may lose more than this model  *)
(* shows.  One Writer has the log at a time; the code takes no lock on the *)
(* file and leaves that to its callers.  While none has it open, anyone    *)
(* who can write the file can cut, reorder, add and change lines and hash  *)
(* the rest again, but cannot sign.                                        *)
(*                                                                         *)
(* SHA-256 and the canonical encoding are injective: the hash of an event  *)
(* is the sequence of the events it covers.                                *)
(***************************************************************************)
EXTENDS Integers, Sequences

CONSTANTS
  Events,            \* what an event says
  CheckpointEvery,   \* 0: no checkpoints
  MaxLines, MaxFaults  \* bounds: lines in the file; writes that fail, crashes, edits

ASSUME AuditAssumption ==
  /\ {CheckpointEvery, MaxLines, MaxFaults} \subseteq Nat
  /\ "ready" \notin Events  \* a stage of the Writer

VARIABLES
  file,          \* the lines of the file
  unterminated,  \* its last line has no newline
  writer,        \* [open, lastSeq, lastHash, stage]
  acked,         \* history: <<seq, event>> of each Append that returned nil
  signed,        \* history: what SignCheckpoint has signed
  damaged,       \* history: a failed write or a crash has left part of a line
  tampered,      \* history: the file has been edited
  faults         \* bound

vars == <<file, unterminated, writer, acked, signed, damaged, tampered, faults>>

GenesisHash == <<>>

HashEvent(seq, ev, prev) == Append(prev, <<seq, ev>>)

EventLine(seq, ev, prev) ==
  [type |-> "call", seq |-> seq, event |-> ev, prev |-> prev, hash |-> HashEvent(seq, ev, prev)]

\* SignCheckpoint; sig says whose key made it.
Checkpoint(seq, hash) == [type |-> "checkpoint", seq |-> seq, hash |-> hash, sig |-> "key"]

\* What is no JSON object: part of a line, or two lines run together.
Torn == [type |-> "torn"]

-----------------------------------------------------------------------------
(* Verification *)

\* Mutant: a checkpoint is checked for its signature and its position only.
VerifyLineUnhashed(rep, line, withKey) ==
  CASE line.type = "checkpoint" ->
         [rep EXCEPT !.ok = line.seq = rep.lastSeq /\ (withKey => line.sig = "key")]
    [] line.type = "call" ->
         IF /\ line.seq = rep.lastSeq + 1
            /\ line.prev = rep.lastHash
            /\ line.hash = HashEvent(line.seq, line.event, rep.lastHash)
         THEN [rep EXCEPT !.lastSeq = line.seq, !.lastHash = line.hash]
         ELSE [rep EXCEPT !.ok = FALSE]
    [] OTHER -> [rep EXCEPT !.ok = FALSE]

\* verifyLine: a line against the chain so far.
VerifyLine(rep, line, withKey) ==
  CASE line.type = "checkpoint" ->
         [rep EXCEPT !.ok = /\ line.seq = rep.lastSeq
                            /\ line.hash = rep.lastHash
                            /\ withKey => line.sig = "key"]
    [] line.type = "call" ->
         IF /\ line.seq = rep.lastSeq + 1
            /\ line.prev = rep.lastHash
            /\ line.hash = HashEvent(line.seq, line.event, rep.lastHash)
         THEN [rep EXCEPT !.lastSeq = line.seq, !.lastHash = line.hash]
         ELSE [rep EXCEPT !.ok = FALSE]
    [] OTHER -> [rep EXCEPT !.ok = FALSE]

\* VerifyReader: the report after the first line that breaks the chain, or
\* the last one.
VerifyReader(lines, withKey) ==
  LET rep[i \in 0..Len(lines)] ==
        IF i = 0 THEN [ok |-> TRUE, lastSeq |-> 0, lastHash |-> GenesisHash]
        ELSE IF rep[i - 1].ok THEN VerifyLine(rep[i - 1], lines[i], withKey)
        ELSE rep[i - 1]
  IN rep[Len(lines)]

Verify(lines) == VerifyReader(lines, FALSE)

VerifyWithKey(lines) == VerifyReader(lines, TRUE)

-----------------------------------------------------------------------------
(* The writer *)

ClosedWriter == [open |-> FALSE, lastSeq |-> 0, lastHash |-> GenesisHash, stage |-> "ready"]

Init ==
  /\ file = <<>> /\ unterminated = FALSE
  /\ writer = ClosedWriter
  /\ acked = {} /\ signed = {}
  /\ damaged = FALSE /\ tampered = FALSE /\ faults = 0

\* NewWriter: refused if the chain does not verify.
NewWriter ==
  LET rep == Verify(file)
  IN /\ ~writer.open
     /\ rep.ok
     /\ writer' = [open |-> TRUE, lastSeq |-> rep.lastSeq, lastHash |-> rep.lastHash, stage |-> "ready"]
     /\ UNCHANGED <<file, unterminated, acked, signed, damaged, tampered, faults>>

\* File.Write of a line and its newline; how much of it reaches the file.
Write(line, how) ==
  /\ file' = CASE how = "nothing" -> file
               [] how # "nothing" /\ unterminated -> [file EXCEPT ![Len(file)] = Torn]
               [] how = "part" /\ ~unterminated -> Append(file, Torn)
               [] OTHER -> Append(file, line)
  /\ unterminated' = IF how = "nothing" THEN unterminated ELSE how # "all"
  /\ damaged' = (damaged \/ how \in {"part", "no_newline"})

Failures == {"nothing", "part", "no_newline"}

NextEvent(ev) == EventLine(writer.lastSeq + 1, ev, writer.lastHash)

CheckpointDue(seq) == CheckpointEvery > 0 /\ seq % CheckpointEvery = 0

\* Append writes its event; if no checkpoint is due it returns nil.
AppendEvent(ev) ==
  LET seq == writer.lastSeq + 1
  IN /\ writer.open /\ writer.stage = "ready"
     /\ Len(file) < MaxLines
     /\ Write(NextEvent(ev), "all")
     /\ writer' = [writer EXCEPT !.lastSeq = seq, !.lastHash = HashEvent(seq, ev, @),
                                 !.stage = IF CheckpointDue(seq) THEN ev ELSE "ready"]
     /\ acked' = IF CheckpointDue(seq) THEN acked ELSE acked \cup {<<seq, ev>>}
     /\ UNCHANGED <<signed, tampered, faults>>

\* Mutant: the event of a failed write keeps its place in the chain.
AppendFailsAdvanced(ev, how) ==
  /\ writer.open /\ writer.stage = "ready"
  /\ Len(file) < MaxLines /\ faults < MaxFaults
  /\ Write(NextEvent(ev), how)
  /\ writer' = [writer EXCEPT !.lastSeq = @ + 1, !.lastHash = HashEvent(writer.lastSeq + 1, ev, @)]
  /\ faults' = faults + 1
  /\ UNCHANGED <<acked, signed, tampered>>

\* The write fails and Append returns the error.
AppendFails(ev, how) ==
  /\ writer.open /\ writer.stage = "ready"
  /\ Len(file) < MaxLines /\ faults < MaxFaults
  /\ Write(NextEvent(ev), how)
  /\ faults' = faults + 1
  /\ UNCHANGED <<writer, acked, signed, tampered>>

DueCheckpoint == Checkpoint(writer.lastSeq, writer.lastHash)

\* Append goes on to write the checkpoint, and returns nil.
AppendCheckpoint ==
  /\ writer.stage # "ready"
  /\ Write(DueCheckpoint, "all")
  /\ writer' = [writer EXCEPT !.stage = "ready"]
  /\ acked' = acked \cup {<<writer.lastSeq, writer.stage>>}
  /\ signed' = signed \cup {writer.lastHash}
  /\ UNCHANGED <<tampered, faults>>

\* That write fails: Append returns an error though its event is written.
CheckpointFails(how) ==
  /\ writer.stage # "ready"
  /\ faults < MaxFaults
  /\ Write(DueCheckpoint, how)
  /\ writer' = [writer EXCEPT !.stage = "ready"]
  /\ signed' = signed \cup {writer.lastHash}
  /\ faults' = faults + 1
  /\ UNCHANGED <<acked, tampered>>

Close ==
  /\ writer.open /\ writer.stage = "ready"
  /\ writer' = ClosedWriter
  /\ UNCHANGED <<file, unterminated, acked, signed, damaged, tampered, faults>>

\* The process ends, perhaps within the write of an event or a checkpoint.
Crash ==
  /\ writer.open
  /\ faults < MaxFaults
  /\ \/ UNCHANGED <<file, unterminated, damaged, signed>>
     \/ /\ writer.stage = "ready" /\ Len(file) < MaxLines
        /\ \E ev \in Events, how \in Failures \cup {"all"} : Write(NextEvent(ev), how)
        /\ UNCHANGED signed
     \/ /\ writer.stage # "ready"
        /\ \E how \in Failures \cup {"all"} : Write(DueCheckpoint, how)
        /\ signed' = signed \cup {writer.lastHash}
  /\ writer' = ClosedWriter
  /\ faults' = faults + 1
  /\ UNCHANGED <<acked, tampered>>

-----------------------------------------------------------------------------
(* Edits of the file by others, while no writer has it open *)

\* A line hashed again on top of prev: an event gets the next number; a
\* checkpoint that no longer fits gets the new hash, but not a signature.
RehashedLine(prev, line) ==
  CASE line.type = "call" ->
         LET new == EventLine(Len(prev) + 1, line.event, prev)
         IN [hash |-> new.hash, line |-> new]
    [] line.type = "checkpoint" /\ line.hash # prev ->
         [hash |-> prev, line |-> [line EXCEPT !.seq = Len(prev), !.hash = prev, !.sig = "other"]]
    [] OTHER -> [hash |-> prev, line |-> line]

\* The lines numbered and hashed again from the start.
Rehashed(lines) ==
  LET new[i \in 0..Len(lines)] ==
        IF i = 0 THEN [hash |-> GenesisHash, line |-> Torn]
        ELSE RehashedLine(new[i - 1].hash, lines[i])
  IN [i \in 1..Len(lines) |-> new[i].line]

\* The lines with line put in before the n-th.
Inserted(lines, n, line) == Append(SubSeq(lines, 1, n - 1), line) \o SubSeq(lines, n, Len(lines))

\* The last lines are cut off, one is taken out, one is put in (a new event,
\* or a line of the file once more), two change places, or an event is changed.
Rearranged ==
  {SubSeq(file, 1, n) : n \in 0..Len(file)}
  \cup {SubSeq(file, 1, n - 1) \o SubSeq(file, n + 1, Len(file)) : n \in 1..Len(file)}
  \cup {Inserted(file, n, EventLine(1, ev, GenesisHash)) : n \in 1..Len(file) + 1, ev \in Events}
  \cup {Inserted(file, n, file[m]) : n \in 1..Len(file) + 1, m \in 1..Len(file)}
  \cup {[file EXCEPT ![n] = file[m], ![m] = file[n]] : n \in 1..Len(file), m \in 1..Len(file)}
  \cup {[file EXCEPT ![n] = EventLine(1, ev, GenesisHash)] : n \in 1..Len(file), ev \in Events}

\* The result is left so, hashed again, or hashed again with the checkpoints
\* of before.
Edits ==
  \E lines \in Rearranged :
    /\ Len(lines) <= MaxLines
    /\ \/ file' = lines
       \/ file' = Rehashed(lines)
       \/ file' = [i \in 1..Len(lines) |-> IF lines[i].type = "checkpoint" THEN lines[i]
                                           ELSE Rehashed(lines)[i]]

Tamper ==
  /\ ~writer.open
  /\ faults < MaxFaults
  /\ Edits
  /\ file' # file
  /\ unterminated' = FALSE
  /\ tampered' = TRUE
  /\ faults' = faults + 1
  /\ UNCHANGED <<writer, acked, signed, damaged>>

Next ==
  \/ NewWriter \/ Close \/ Crash \/ Tamper \/ AppendCheckpoint
  \/ \E ev \in Events : AppendEvent(ev) \/ \E how \in Failures : AppendFails(ev, how)
  \/ \E how \in Failures : CheckpointFails(how)

Spec == Init /\ [][Next]_vars

-----------------------------------------------------------------------------
(* Properties *)

ToSet(q) == {q[i] : i \in 1..Len(q)}

\* Types; a line is terminated if there is none.
TypeOK ==
  /\ \A i \in 1..Len(file) : file[i].type \in {"call", "checkpoint", "torn"}
  /\ unterminated \in BOOLEAN /\ (file = <<>> => ~unterminated)
  /\ writer.open \in BOOLEAN /\ writer.lastSeq = Len(writer.lastHash)
  /\ writer.stage \in Events \cup {"ready"}
  /\ faults \in 0..MaxFaults

\* While no line has been left unfinished, a log only the Writer has written
\* verifies with the key at every moment, through failed writes, crashes
\* between an event and its checkpoint and restarts, and the Writer's own
\* seq and hash are those of the file (Append, resumeLog; writer.go:115).
ChainHolds ==
  ~damaged /\ ~tampered =>
    LET rep == VerifyWithKey(file)
    IN rep.ok /\ (writer.open => rep.lastSeq = writer.lastSeq /\ rep.lastHash = writer.lastHash)

\* An event whose Append returned nil is never lost without a trace: a log
\* that verifies has it in its chain, also if an earlier write stopped short
\* and the event was written on the end of that line (writer.go:149), unless
\* someone has cut the log.
NoSilentLoss ==
  ~tampered /\ Verify(file).ok => acked \subseteq ToSet(Verify(file).lastHash)

\* What the lines say up to the n-th: their events, in order.
Said(lines, n) ==
  LET said[i \in 0..Len(lines)] ==
        IF i = 0 THEN GenesisHash
        ELSE IF lines[i].type = "call" THEN Append(said[i - 1], <<lines[i].seq, lines[i].event>>)
        ELSE said[i - 1]
  IN said[n]

EventsUpTo(n) == Said(file, n)

\* "a verifier holding only the public key can prove the chain was not
\* rewritten wholesale" (doc.go): in a log that verifies with the key, the
\* events up to each checkpoint are ones the Writer signed, however the file
\* was edited and hashed again, and whatever was appended to it since.
SignedPrefixGenuine ==
  VerifyWithKey(file).ok =>
    \A n \in 1..Len(file) : file[n].type = "checkpoint" => EventsUpTo(n) \in signed

\* A log tells what was written to it: it verifies as long as nothing was cut
\* short, and one that verifies has lost nothing.
LogTells == TypeOK /\ ChainHolds /\ NoSilentLoss
=============================================================================
