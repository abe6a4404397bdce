--------------------------- MODULE SecretChannel ---------------------------
(***************************************************************************)
(* The credential pipe of one invocation: secrets.open_secret_channel and  *)
(* its writer thread in the executor, secrets.read_secrets in the child.   *)
(*                                                                         *)
(* The pipe holds less than a bundle may be, the child is started after    *)
(* the writer, may end without reading, and may leave a process behind     *)
(* that inherited the read end.  Material is counted in blocks.            *)
(***************************************************************************)
EXTENDS ChannelBounds

VARIABLES
  pc,       \* the executor: open_secret_channel and what runs inside it
  size,     \* of the bundle
  left,     \* blocks the writer thread has not written
  writer,   \* the writer thread; when it has ended the write end is closed
  pipe,     \* blocks in the pipe
  readers,  \* who holds the read end
  child,    \* the child process
  got       \* blocks the child has read

vars == <<pc, size, left, writer, pipe, readers, child, got>>

Init ==
  /\ pc = "open" /\ size \in Sizes
  /\ left = 0 /\ writer = "none" /\ pipe = 0 /\ readers = {}
  /\ child = "none" /\ got = 0

-----------------------------------------------------------------------------
(* The executor.                                                            *)

TooLarge(n) == n > MaxBundle

\* A bundle over the limit is refused before a pipe exists.
Open ==
  /\ pc = "open"
  /\ IF TooLarge(size)
     THEN pc' = "refused" /\ UNCHANGED <<left, writer, readers>>
     ELSE /\ pc' = "opened"
          /\ left' = size /\ writer' = "writing" /\ readers' = {"executor"}
  /\ UNCHANGED <<size, pipe, child, got>>

Spawn_AfterDelivery ==
  /\ pc = "opened" /\ writer = "ended"
  /\ pc' = "running" /\ child' = "reading" /\ readers' = readers \cup {"child"}
  /\ UNCHANGED <<size, left, writer, pipe, got>>

\* The writer runs by itself, so the child can start with the bundle undelivered.
Spawn ==
  /\ pc = "opened"
  /\ pc' = "running" /\ child' = "reading" /\ readers' = readers \cup {"child"}
  /\ UNCHANGED <<size, left, writer, pipe, got>>

\* Building the context or its leak check refuses, inside the channel.
PrepareFails ==
  /\ pc = "opened" /\ pc' = "leave"
  /\ UNCHANGED <<size, left, writer, pipe, readers, child, got>>

\* The supervised run is over: its process has ended or is killed.
RunOver ==
  /\ pc = "running" /\ pc' = "leave"
  /\ readers' = readers \ {"child"}
  /\ child' = IF child = "reading" THEN "ended" ELSE child
  /\ UNCHANGED <<size, left, writer, pipe, got>>


\* "The read end closes first on purpose".
CloseReadEnd ==
  /\ pc = "leave" /\ pc' = "join"
  /\ readers' = readers \ {"executor"}
  /\ UNCHANGED <<size, left, writer, pipe, child, got>>

\* writer.join(timeout=5): the thread has ended, or the time is up.
Join ==
  /\ pc = "join" /\ pc' = "done"
  /\ UNCHANGED <<size, left, writer, pipe, readers, child, got>>

-----------------------------------------------------------------------------
(* The writer thread.                                                       *)

WritesOn_Short == IF left' = 0 \/ pipe' = PipeSize THEN "ended" ELSE "writing"
\* The loop goes on until all is written, os.write returning short as it may.
WritesOn == IF left' = 0 THEN "ended" ELSE "writing"

WriteBlock ==
  /\ writer = "writing" /\ left > 0 /\ readers # {} /\ pipe < PipeSize
  /\ left' = left - 1 /\ pipe' = pipe + 1
  /\ writer' = WritesOn
  /\ UNCHANGED <<pc, size, readers, child, got>>

NobodyReads_Ignored == FALSE
\* EPIPE: the rest of the bundle is dropped and the thread ends.
NobodyReads == readers = {}

WriterStops ==
  /\ writer = "writing" /\ NobodyReads
  /\ writer' = "ended"
  /\ UNCHANGED <<pc, size, left, pipe, readers, child, got>>

-----------------------------------------------------------------------------
(* The child, and a process it leaves behind.                               *)

Read ==
  /\ child = "reading" /\ pipe > 0
  /\ got' = got + pipe /\ pipe' = 0
  /\ UNCHANGED <<pc, size, left, writer, readers, child>>

\* The end of the pipe: the bundle is complete and the descriptor is closed.
ReadEnd ==
  /\ child = "reading" /\ pipe = 0 /\ writer = "ended"
  /\ child' = "read" /\ readers' = readers \ {"child"}
  /\ UNCHANGED <<pc, size, left, writer, pipe, got>>

\* A provider that refuses earlier, or dies.
ChildEnds ==
  /\ child = "reading"
  /\ child' = "ended" /\ readers' = readers \ {"child"}
  /\ UNCHANGED <<pc, size, left, writer, pipe, got>>

Fork ==
  /\ child = "reading" /\ readers' = readers \cup {"orphan"}
  /\ UNCHANGED <<pc, size, left, writer, pipe, child, got>>

OrphanEnds ==
  /\ "orphan" \in readers /\ readers' = readers \ {"orphan"}
  /\ UNCHANGED <<pc, size, left, writer, pipe, child, got>>

-----------------------------------------------------------------------------
Executor == Open \/ Spawn \/ PrepareFails \/ RunOver \/ CloseReadEnd \/ Join
Writer == WriteBlock \/ WriterStops
Child == Read \/ ReadEnd \/ ChildEnds \/ Fork \/ OrphanEnds

Next == Executor \/ Writer \/ Child

Spec == Init /\ [][Next]_vars

-----------------------------------------------------------------------------
(* Properties.                                                              *)

TypeOK ==
  /\ pc \in {"open", "refused", "opened", "running", "leave", "join", "done"}
  /\ size \in Sizes /\ left \in 0..size
  /\ writer \in {"none", "writing", "ended"}
  /\ writer # "none" => size <= MaxBundle
  /\ pipe \in 0..PipeSize /\ got \in 0..size
  /\ readers \subseteq {"executor", "child", "orphan"}
  /\ child \in {"none", "reading", "read", "ended"}

\* The child reads the whole bundle or learns that it did not: the end of the
\* pipe is never reached with material missing, however the writes were cut and
\* whenever the executor left.
WholeBundle == child = "read" => got = size

Blocked == writer = "writing" /\ left > 0 /\ pipe = PipeSize /\ readers # {}

\* The executor never waits in join for a writer that nothing will unblock,
\* unless a process it does not control holds the read end.
JoinNeverStuck == pc = "join" /\ "orphan" \notin readers => ~Blocked
=============================================================================
