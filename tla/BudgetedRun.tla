---------------------------- MODULE BudgetedRun ----------------------------
(***************************************************************************)
(* One supervised run: budget.run_with_budget against the process it       *)
(* starts and that process's descendants.                                  *)
(*                                                                         *)
(* The supervisor reads two pipes under a deadline and a byte cap, waits   *)
(* for the process it started (the leader of a new process group), and on  *)
(* a breach kills the group.  The processes on the other side do as they   *)
(* please: write, stay silent, close their streams and go on, start        *)
(* children that inherit any of their descriptors, leave the group, exit.  *)
(* Data is counted in blocks.                                              *)
(***************************************************************************)
EXTENDS Naturals, FiniteSets

CONSTANTS
  Leader, Kids,  \* the process Popen started, and what it may start
  OutputCap,     \* budgets.output_bytes
  PipeSize,      \* how much a pipe holds; one os.read takes at most this much
  InputSize,     \* how much of stdin does not fit in its pipe
  MaxWrites      \* bound: blocks the processes write, of both streams together

ASSUME SizeAssumption == /\ OutputCap \in Nat /\ PipeSize \in Nat \ {0}
                         /\ InputSize \in Nat /\ MaxWrites \in Nat
ASSUME LeaderAssumption == Leader \notin Kids

Outputs == {"stdout", "stderr"}
Streams == Outputs \cup {"stdin"}
Processes == {Leader} \cup Kids

VARIABLES
  alive,    \* the processes that run
  group,    \* the processes in the leader's process group
  holds,    \* the pipe ends each process holds open
  pipe,     \* blocks in each output pipe
  unfed,    \* blocks of stdin the writer thread still has to hand over
  feeder,   \* the writer thread
  pc,       \* where run_with_budget is
  open,     \* streams registered with the selector
  ready,    \* events of the last select still to be handled
  taken,    \* blocks read from each output pipe
  breach,   \* the breach found
  expired,  \* the deadline has passed
  leaderLed,\* history: the leader was running when the group was to be killed
  written   \* history: blocks written to each output pipe

vars == <<alive, group, holds, pipe, unfed, feeder, pc, open, ready, taken,
          breach, expired, leaderLed, written>>
processes == <<alive, group, holds, pipe, unfed, written>>
supervisor == <<pc, open, ready, taken, breach, leaderLed>>

Total(f) == f["stdout"] + f["stderr"]

Init ==
  /\ alive = {Leader} /\ group = {Leader}
  /\ holds = [p \in Processes |-> IF p = Leader THEN Streams ELSE {}]
  /\ pipe = [s \in Outputs |-> 0]
  /\ unfed \in 0..InputSize
  /\ feeder = "writing"
  /\ pc = "start" /\ open = Outputs /\ ready = {}
  /\ taken = [s \in Outputs |-> 0]
  /\ breach = "none" /\ expired = FALSE /\ leaderLed = TRUE
  /\ written = [s \in Outputs |-> 0]

Held(s) == \E p \in alive : s \in holds[p]

-----------------------------------------------------------------------------
(* The provider process and its descendants.                                *)

Write(p, s) ==
  /\ p \in alive /\ s \in holds[p] \cap Outputs
  /\ pipe[s] < PipeSize /\ Total(written) < MaxWrites
  /\ pipe' = [pipe EXCEPT ![s] = @ + 1]
  /\ written' = [written EXCEPT ![s] = @ + 1]
  /\ UNCHANGED <<alive, group, holds, unfed, feeder, supervisor, expired>>

ReadInput(p) ==
  /\ p \in alive /\ "stdin" \in holds[p] /\ unfed > 0
  /\ unfed' = unfed - 1
  /\ UNCHANGED <<alive, group, holds, pipe, written, feeder, supervisor, expired>>

Close(p, s) ==
  /\ p \in alive /\ s \in holds[p]
  /\ holds' = [holds EXCEPT ![p] = @ \ {s}]
  /\ UNCHANGED <<alive, group, pipe, unfed, written, feeder, supervisor, expired>>

\* The leader starts a child, in its own group or in a session of the child's.
Spawn(k, inherited) ==
  /\ Leader \in alive /\ k \notin alive /\ k \notin group
  /\ alive' = alive \cup {k}
  /\ group' \in {group, group \cup {k}}
  /\ holds' = [holds EXCEPT ![k] = inherited]
  /\ UNCHANGED <<pipe, unfed, written, feeder, supervisor, expired>>

Exit(p) ==
  /\ p \in alive
  /\ alive' = alive \ {p}
  /\ holds' = [holds EXCEPT ![p] = {}]
  /\ UNCHANGED <<group, pipe, unfed, written, feeder, supervisor, expired>>

-----------------------------------------------------------------------------
(* The stdin writer thread, and the clock.                                  *)

\* Everything is handed over, or nobody can read it any more (EPIPE).
FeederEnds ==
  /\ feeder = "writing"
  /\ unfed = 0 \/ ~Held("stdin")
  /\ feeder' = "ended"
  /\ UNCHANGED <<processes, supervisor, expired>>

Expire ==
  /\ ~expired
  /\ expired' = TRUE
  /\ UNCHANGED <<processes, supervisor, feeder>>

-----------------------------------------------------------------------------
(* run_with_budget.                                                         *)

SupervisorOnly == UNCHANGED <<processes, feeder, expired>>

Start_FeedsFirst ==
  /\ pc = "start" /\ feeder = "ended"
  /\ pc' = "loop"
  /\ UNCHANGED <<open, ready, taken, breach, leaderLed>> /\ SupervisorOnly

\* The writer runs on a thread of its own; the loop starts at once.
Start ==
  /\ pc = "start"
  /\ pc' = "loop"
  /\ UNCHANGED <<open, ready, taken, breach, leaderLed>> /\ SupervisorOnly

\* The deadline is looked at between two selects.
LoopDeadline ==
  /\ pc = "loop" /\ open # {} /\ expired
  /\ breach' = "wall_clock" /\ pc' = "cleanup"
  /\ UNCHANGED <<open, ready, taken, leaderLed>> /\ SupervisorOnly

\* A stream is readable when it has data, or when nobody can write to it.  A
\* select that times out changes nothing.
Select ==
  /\ pc = "loop" /\ open # {} /\ ~expired
  /\ ready' = {s \in open : pipe[s] > 0 \/ ~Held(s)}
  /\ ready' # {}
  /\ pc' = "events"
  /\ UNCHANGED <<open, taken, breach, leaderLed>> /\ SupervisorOnly

OverCap_PerStream(s, t) == t[s] > OutputCap
\* One cap over both streams.
OverCap(s, t) == Total(t) > OutputCap

ReadChunk(s) ==
  /\ pc = "events" /\ s \in ready /\ pipe[s] > 0
  /\ taken' = [taken EXCEPT ![s] = @ + pipe[s]]
  /\ pipe' = [pipe EXCEPT ![s] = 0]
  /\ IF OverCap(s, taken')
     THEN breach' = "output_size" /\ pc' = "cleanup" /\ ready' = {}
     ELSE /\ ready' = ready \ {s}
          /\ pc' = IF ready' = {} THEN "loop" ELSE "events"
          /\ UNCHANGED breach
  /\ UNCHANGED <<open, leaderLed, alive, group, holds, unfed, written, feeder, expired>>


\* An empty read is the end of the stream.
ReadEnd(s) ==
  /\ pc = "events" /\ s \in ready /\ pipe[s] = 0
  /\ open' = open \ {s}
  /\ ready' = ready \ {s}
  /\ pc' = IF ready' = {} THEN "loop" ELSE "events"
  /\ UNCHANGED <<taken, breach, leaderLed>> /\ SupervisorOnly

LoopEnds_WithLeader == open = {} \/ Leader \notin alive
LoopEnds == open = {}

EndLoop ==
  /\ pc = "loop" /\ LoopEnds
  /\ pc' = "wait"
  /\ UNCHANGED <<open, ready, taken, breach, leaderLed>> /\ SupervisorOnly

\* process.wait with what is left of the deadline.
WaitOver == Leader \notin alive

Wait ==
  /\ pc = "wait"
  /\ \/ WaitOver /\ UNCHANGED breach
     \/ ~WaitOver /\ expired /\ breach' = "wall_clock"
  /\ pc' = "cleanup"
  /\ UNCHANGED <<open, ready, taken, leaderLed>> /\ SupervisorOnly

Killed_LeaderOnly == {Leader}
\* os.killpg reaches the group, which is gone from a reaped leader's pid.
Killed == group

\* _terminate: a leader that has exited is left, and so is the rest of its group.
Cleanup ==
  /\ pc = "cleanup"
  /\ leaderLed' = (Leader \in alive)
  /\ IF breach # "none" /\ Leader \in alive
     THEN /\ alive' = alive \ Killed
          /\ holds' = [p \in Processes |-> IF p \in Killed THEN {} ELSE holds[p]]
     ELSE UNCHANGED <<alive, holds>>
  /\ pc' = "done"
  /\ UNCHANGED <<open, ready, taken, breach, group, pipe, unfed, written, feeder, expired>>

-----------------------------------------------------------------------------
Supervisor == \/ Start \/ LoopDeadline \/ Select
              \/ \E s \in Outputs : ReadChunk(s) \/ ReadEnd(s)
              \/ EndLoop \/ Wait \/ Cleanup

Child(p) == \/ \E s \in Streams : Write(p, s) \/ Close(p, s)
            \/ ReadInput(p) \/ Exit(p)

\* What processes do after the run is over concerns no property and is left out.
Next == \/ Supervisor \/ FeederEnds \/ Expire
        \/ pc # "done" /\ \/ \E p \in Processes : Child(p)
                          \/ \E k \in Kids, h \in SUBSET Streams :
                               h \subseteq holds[Leader] /\ Spawn(k, h)

Spec == Init /\ [][Next]_vars

\* The supervisor's thread is scheduled and time passes.  Nothing is assumed of
\* the processes it supervises.
FairSpec == Spec /\ WF_vars(Supervisor) /\ WF_vars(Expire)

-----------------------------------------------------------------------------
(* Properties.                                                              *)

TypeOK ==
  /\ alive \subseteq Processes /\ group \subseteq Processes
  /\ holds \in [Processes -> SUBSET Streams]
  /\ pipe \in [Outputs -> 0..PipeSize]
  /\ unfed \in 0..InputSize
  /\ feeder \in {"writing", "ended"}
  /\ pc \in {"start", "loop", "events", "wait", "cleanup", "done"}
  /\ open \subseteq Outputs /\ ready \subseteq open
  /\ taken \in [Outputs -> Nat] /\ written \in [Outputs -> Nat]
  /\ breach \in {"none", "wall_clock", "output_size"}
  /\ expired \in BOOLEAN /\ leaderLed \in BOOLEAN

Accepted == pc = "done" /\ breach = "none"
Refused  == pc = "done" /\ breach # "none"

\* budget.py:166 "One cap over both streams": an accepted run's output fits the
\* budget, and a refused one never made the supervisor hold more than one read
\* beyond it, however the bytes were spread over the streams and the writers.
OutputBounded ==
  /\ Accepted => Total(taken) <= OutputCap
  /\ Total(taken) <= OutputCap + PipeSize

\* An accepted run's output is all of it: nothing a process wrote before the
\* run was accepted is left in a pipe, whether the leader or a child of it
\* wrote last, and in which order they exited.
OutputComplete == Accepted => taken = written

\* A run is accepted only once its process has ended, so the envelope it
\* printed is final; a process that closes its streams and runs on is refused.
AcceptedHasExited == Accepted => Leader \notin alive

\* A breach found while the leader runs leaves no process of its group behind.
BreachKillsGroup == Refused /\ leaderLed => alive \cap group = {}

\* budget.py:119 "The child is placed in its own process group so that a breach
\* kills any grandchildren it spawned rather than orphaning them."
BreachLeavesNoOrphan == Refused => alive \cap group = {}

\* Every supervised run ends, with a process that never reads its input, never
\* writes, closes its streams and sleeps, or leaves a child holding them.
RunEnds == <>(pc = "done")
=============================================================================
