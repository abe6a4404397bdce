------------------------- MODULE BudgetedRunProofs -------------------------
(***************************************************************************)
(* Proofs of the safety properties of BudgetedRun, for every cap, pipe     *)
(* size, amount of input and output, and set of descendants.               *)
(***************************************************************************)
EXTENDS BudgetedRun, Integers, TLAPS

\* Every block written is either read or still in its pipe.
Conserved == \A s \in Outputs : taken[s] + pipe[s] = written[s]

\* A stream taken off the selector is empty and has no writer, and an event
\* still to be handled is data or the end of its stream.
StreamsSettled ==
  /\ \A s \in Outputs \ open : pipe[s] = 0 /\ ~Held(s)
  /\ \A s \in ready : pipe[s] > 0 \/ ~Held(s)

\* What each place in run_with_budget has established.
Progress ==
  /\ pc \in {"start", "loop", "events", "wait"} => breach = "none"
  /\ pc = "wait" => open = {}
  /\ pc \in {"cleanup", "done"} /\ breach = "none"
       => open = {} /\ Leader \notin alive

\* The cap holds as long as no breach is found, and a breach is one read late.
CapKept ==
  /\ Total(taken) <= OutputCap + PipeSize
  /\ breach = "none" => Total(taken) <= OutputCap

IInv == /\ TypeOK /\ Conserved /\ StreamsSettled /\ Progress /\ CapKept
        /\ BreachKillsGroup

\* Nobody opens an end that no running process holds: a child inherits its
\* descriptors from the leader.
LEMMA HeldOnlyShrinks ==
  ASSUME NEW k \in Kids, NEW h \in SUBSET Streams, NEW s,
         h \subseteq holds[Leader], Spawn(k, h), TypeOK, ~Held(s)
  PROVE  ~Held(s)'
  BY LeaderAssumption DEF Spawn, Held, TypeOK, Processes

\* Init establishes the invariant.
LEMMA InitIInv == Init => IInv
<1> SUFFICES ASSUME Init PROVE IInv OBVIOUS
<1>1. TypeOK
  <2>1. holds \in [Processes -> SUBSET Streams]
    BY DEF Init
  <2>2. 0 \in 0..PipeSize
    BY SizeAssumption
  <2>3. pipe \in [Outputs -> 0..PipeSize]
    BY <2>2 DEF Init
  <2>4. alive \subseteq Processes /\ group \subseteq Processes
    BY DEF Init, Processes
  <2> QED BY <2>1, <2>3, <2>4 DEF Init, TypeOK
<1>2. Conserved /\ StreamsSettled
  BY DEF Init, Conserved, StreamsSettled
<1>3. CapKept
  BY SizeAssumption DEF Init, CapKept, Total, Outputs
<1> QED BY <1>1, <1>2, <1>3 DEF Init, IInv, Progress, BreachKillsGroup, Refused

\* No step of the supervised processes, of the writer thread or of the clock
\* disturbs the invariant.
LEMMA ChildKeepsIInv ==
  ASSUME IInv, pc # "done", NEW p \in Processes, Child(p)
  PROVE  IInv'
<1>1. ASSUME NEW s \in Streams, Write(p, s) PROVE IInv'
  <2> s \in Outputs BY <1>1 DEF Write
  <2>1. TypeOK'
    BY <1>1, SizeAssumption DEF Write, IInv, TypeOK, supervisor
  <2>2. Conserved'
    BY <1>1 DEF Write, IInv, TypeOK, Conserved, supervisor
  <2>3. StreamsSettled'
    BY <1>1 DEF Write, IInv, TypeOK, StreamsSettled, Held, supervisor
  <2> QED BY <1>1, <2>1, <2>2, <2>3
          DEF Write, IInv, Progress, CapKept, BreachKillsGroup, Refused, Total,
              supervisor
<1>2. ASSUME NEW s \in Streams, Close(p, s) PROVE IInv'
  BY <1>2 DEF Close, IInv, TypeOK, Conserved, StreamsSettled, Held, Progress,
              CapKept, BreachKillsGroup, Refused, Total, supervisor
<1>3. CASE ReadInput(p)
  BY <1>3, SizeAssumption DEF ReadInput, IInv, TypeOK, Conserved, StreamsSettled,
              Held, Progress, CapKept, BreachKillsGroup, Refused, Total, supervisor
<1>4. CASE Exit(p)
  BY <1>4 DEF Exit, IInv, TypeOK, Conserved, StreamsSettled, Held, Progress,
              CapKept, BreachKillsGroup, Refused, Total, supervisor
<1> QED BY <1>1, <1>2, <1>3, <1>4 DEF Child

LEMMA SpawnKeepsIInv ==
  ASSUME IInv, pc # "done", NEW k \in Kids, NEW h \in SUBSET Streams,
         h \subseteq holds[Leader], Spawn(k, h)
  PROVE  IInv'
<1>1. TypeOK' BY DEF Spawn, IInv, TypeOK, Processes, supervisor
<1>2. StreamsSettled'
  BY HeldOnlyShrinks DEF IInv, StreamsSettled, Spawn, supervisor
<1>3. Progress' BY LeaderAssumption DEF IInv, Progress, Spawn, supervisor
<1> QED BY <1>1, <1>2, <1>3
        DEF IInv, Conserved, CapKept, BreachKillsGroup, Refused, Total, Spawn, supervisor

\* A read moves blocks from the pipe to the buffers, and either keeps the cap or
\* is a breach.
LEMMA ReadChunkKeepsIInv ==
  ASSUME IInv, NEW s \in Outputs, ReadChunk(s)
  PROVE  IInv'
<1>1. TypeOK' BY SizeAssumption DEF ReadChunk, OverCap, IInv, TypeOK
<1>2. Conserved' BY DEF ReadChunk, OverCap, IInv, TypeOK, Conserved
<1>3. StreamsSettled'
  BY DEF ReadChunk, OverCap, IInv, TypeOK, StreamsSettled, Held
<1>4. Progress' BY DEF ReadChunk, OverCap, IInv, TypeOK, Progress
<1>5. CapKept'
  <2>1. Total(taken) <= OutputCap
    BY DEF ReadChunk, IInv, Progress, CapKept
  <2>2. Total(taken') <= Total(taken) + PipeSize
    BY SizeAssumption DEF ReadChunk, IInv, TypeOK, Total, Outputs
  <2>3. Total(taken) \in Nat /\ Total(taken') \in Nat
    BY <1>1 DEF IInv, TypeOK, Total, Outputs
  <2>4. breach' = "none" => Total(taken') <= OutputCap
    BY <2>3, SizeAssumption DEF ReadChunk, OverCap
  <2> QED BY <2>1, <2>2, <2>3, <2>4, SizeAssumption DEF CapKept, Total
<1>6. BreachKillsGroup'
  BY DEF ReadChunk, OverCap, IInv, BreachKillsGroup, Refused
<1> QED BY <1>1, <1>2, <1>3, <1>4, <1>5, <1>6 DEF IInv

\* An empty read takes off a stream that is empty and has no writer.
LEMMA ReadEndKeepsIInv ==
  ASSUME IInv, NEW s \in Outputs, ReadEnd(s)
  PROVE  IInv'
<1> USE DEF ReadEnd, SupervisorOnly, processes, IInv
<1>1. TypeOK' BY DEF TypeOK
<1>2. Conserved' BY DEF Conserved
<1>3. pipe[s] = 0 /\ ~Held(s) BY DEF StreamsSettled
<1>4. StreamsSettled' BY <1>3 DEF StreamsSettled, Held
<1>5. Progress' BY DEF Progress
<1> QED BY <1>1, <1>2, <1>4, <1>5 DEF CapKept, Total, BreachKillsGroup, Refused

\* The cleanup kills processes or leaves them, and opens nothing.
LEMMA CleanupKeepsIInv ==
  ASSUME IInv, Cleanup
  PROVE  IInv'
<1> USE DEF Cleanup, IInv
<1>1. TypeOK' BY DEF TypeOK, Processes
<1>2. Conserved' BY DEF Conserved
<1>3. alive' \subseteq alive /\ \A p \in alive' : holds'[p] = holds[p]
  BY DEF TypeOK
<1>4. \A s : ~Held(s) => ~Held(s)'
  BY <1>3 DEF Held
<1>5. StreamsSettled' BY <1>4 DEF StreamsSettled
<1>6. Progress' BY <1>3 DEF Progress
<1>7. BreachKillsGroup' BY DEF BreachKillsGroup, Refused, Killed
<1> QED BY <1>1, <1>2, <1>5, <1>6, <1>7 DEF CapKept, Total

\* Every step keeps the invariant.
LEMMA StepKeepsIInv == IInv /\ [Next]_vars => IInv'
<1> SUFFICES ASSUME IInv, [Next]_vars PROVE IInv' OBVIOUS
<1> USE DEF IInv, TypeOK, Conserved, StreamsSettled, Held, Progress, CapKept,
            BreachKillsGroup, Refused, Total, SupervisorOnly, processes
<1>1. CASE Start BY <1>1 DEF Start
<1>2. CASE LoopDeadline BY <1>2 DEF LoopDeadline
<1>3. CASE Select BY <1>3 DEF Select
<1>4. ASSUME NEW s \in Outputs, ReadChunk(s) PROVE IInv'
  BY <1>4, ReadChunkKeepsIInv
<1>5. ASSUME NEW s \in Outputs, ReadEnd(s) PROVE IInv'
  BY <1>5, ReadEndKeepsIInv
<1>6. CASE EndLoop BY <1>6 DEF EndLoop, LoopEnds
<1>7. CASE Wait BY <1>7 DEF Wait, WaitOver
<1>8. CASE Cleanup BY <1>8, CleanupKeepsIInv
<1>9. CASE FeederEnds BY <1>9 DEF FeederEnds, supervisor
<1>10. CASE Expire BY <1>10 DEF Expire, supervisor
<1>11. ASSUME pc # "done", NEW p \in Processes, Child(p) PROVE IInv'
  BY <1>11, ChildKeepsIInv
<1>12. ASSUME pc # "done", NEW k \in Kids, NEW h \in SUBSET Streams,
              h \subseteq holds[Leader], Spawn(k, h)
       PROVE IInv'
  BY <1>12, SpawnKeepsIInv
<1>13. CASE UNCHANGED vars BY <1>13 DEF vars
<1> QED BY <1>1, <1>2, <1>3, <1>4, <1>5, <1>6, <1>7, <1>8, <1>9, <1>10, <1>11,
           <1>12, <1>13 DEF Next, Supervisor

\* The inductive invariant holds in every reachable state.
THEOREM Invariance == Spec => []IInv
  BY InitIInv, StepKeepsIInv, PTL DEF Spec

\* Every variable keeps its type; in particular an event is handled only for a
\* stream still registered.
THEOREM TypeCorrect == Spec => []TypeOK
<1>1. IInv => TypeOK BY DEF IInv
<1> QED BY <1>1, Invariance, PTL

\* budget.py:192: the cap over both streams together.
THEOREM OutputBoundedHolds == Spec => []OutputBounded
<1>1. IInv => OutputBounded BY DEF IInv, CapKept, OutputBounded, Accepted
<1> QED BY <1>1, Invariance, PTL

\* budget.py:173: the loop ends only when both streams have, so nothing written
\* is missing from an accepted output.
THEOREM OutputCompleteHolds == Spec => []OutputComplete
<1>1. IInv => OutputComplete
  <2> SUFFICES ASSUME IInv, Accepted PROVE taken = written
    BY DEF OutputComplete
  <2>1. \A s \in Outputs : pipe[s] = 0
    BY DEF IInv, Accepted, Progress, StreamsSettled
  <2>2. \A s \in Outputs : taken[s] = written[s]
    BY <2>1 DEF IInv, Conserved, TypeOK
  <2> QED BY <2>2 DEF IInv, TypeOK
<1> QED BY <1>1, Invariance, PTL

\* budget.py:199-207: the exit is waited for before the output is returned.
THEOREM AcceptedHasExitedHolds == Spec => []AcceptedHasExited
<1>1. IInv => AcceptedHasExited BY DEF IInv, Progress, AcceptedHasExited, Accepted
<1> QED BY <1>1, Invariance, PTL

\* budget.py:96-105: a breach found while the leader runs kills the group.
THEOREM BreachKillsGroupHolds == Spec => []BreachKillsGroup
<1>1. IInv => BreachKillsGroup BY DEF IInv
<1> QED BY <1>1, Invariance, PTL

-----------------------------------------------------------------------------
(* The loop ends: each step of the supervisor leaves it less to do.         *)

\* What the loop may still handle: a block over the cap ends it, and so does the end of
\* both streams.
EventsLeft ==
  OutputCap + 1 - Total(taken)
  + (IF "stdout" \in open THEN 1 ELSE 0) + (IF "stderr" \in open THEN 1 ELSE 0)

StepsLeft ==
  CASE pc = "start" -> 2 * EventsLeft + 5
    [] pc = "loop" -> 2 * EventsLeft + 4
    [] pc = "events" -> 2 * EventsLeft + 3
    [] pc = "wait" -> 2
    [] pc = "cleanup" -> 1
    [] pc = "done" -> 0

\* A select that returns has an event to handle.
EventsInHand == pc = "events" => ready # {}

\* Both are read off the places of run_with_budget.
LEMMA LeftIsNumber ==
  ASSUME IInv
  PROVE  StepsLeft \in Nat /\ (pc \in {"start", "loop", "events", "wait"} => EventsLeft \in Nat)
<1>1. Total(taken) \in Nat /\ OutputCap \in Nat
  BY SizeAssumption DEF IInv, TypeOK, Total, Outputs
<1>2. pc \in {"start", "loop", "events", "wait"} => Total(taken) <= OutputCap
  BY DEF IInv, Progress, CapKept
<1>3. pc \in {"start", "loop", "events", "wait"} => EventsLeft \in Nat
  BY <1>1, <1>2 DEF EventsLeft
<1>4. pc \in {"start", "loop", "events", "wait", "cleanup", "done"} BY DEF IInv, TypeOK
<1> QED BY <1>3, <1>4 DEF StepsLeft

\* One event less makes up for the turn of the loop after it.
LEMMA TurnIsLess == ASSUME NEW e \in Int, NEW e1 \in Int, e1 < e PROVE 2 * e1 + 4 < 2 * e + 3
  OBVIOUS

\* A read takes a block at least, and none is read once they exceed the cap.
LEMMA ReadLeavesLess ==
  ASSUME IInv, IInv', NEW s \in Outputs, ReadChunk(s) \/ ReadEnd(s)
  PROVE  StepsLeft' < StepsLeft /\ EventsInHand'
<1>1. pc = "events" /\ EventsLeft \in Nat /\ StepsLeft = 2 * EventsLeft + 3
  BY LeftIsNumber DEF ReadChunk, ReadEnd, StepsLeft
<1>2. Total(taken) \in Nat /\ Total(taken') \in Nat /\ OutputCap \in Nat
  BY SizeAssumption DEF IInv, TypeOK, Total, Outputs
<1>3. CASE pc' = "cleanup"
  BY <1>1, <1>3 DEF StepsLeft, EventsInHand
<1>4. CASE pc' # "cleanup" /\ ReadChunk(s)
  <2>1. /\ pipe[s] > 0 /\ taken' = [taken EXCEPT ![s] = @ + pipe[s]] /\ open' = open
        /\ pc' = IF ready' = {} THEN "loop" ELSE "events"
    BY <1>4 DEF ReadChunk
  <2>2. Total(taken') > Total(taken)
    BY <2>1 DEF IInv, TypeOK, Total, Outputs
  <2>3. EventsLeft' < EventsLeft /\ EventsLeft' \in Int
    BY <1>2, <2>1, <2>2 DEF EventsLeft
  <2>4. StepsLeft' <= 2 * EventsLeft' + 4 /\ EventsInHand'
    BY <2>1, <2>3 DEF StepsLeft, EventsInHand
  <2>5. StepsLeft' \in Int BY <2>1, <2>3 DEF StepsLeft
  <2>6. 2 * EventsLeft' + 4 < 2 * EventsLeft + 3
    BY <1>2, <2>1, <2>2, TurnIsLess DEF EventsLeft
  <2> QED BY <1>1, <1>2, <2>1, <2>2, <2>4, <2>5, <2>6 DEF EventsLeft
<1>5. CASE pc' # "cleanup" /\ ReadEnd(s)
  <2>1. /\ s \in open /\ open' = open \ {s} /\ taken' = taken
        /\ pc' = IF ready' = {} THEN "loop" ELSE "events"
    BY <1>5 DEF ReadEnd, IInv, TypeOK
  <2>2. EventsLeft' < EventsLeft /\ EventsLeft' \in Int
    BY <1>2, <2>1 DEF EventsLeft, Outputs, Total
  <2>3. StepsLeft' <= 2 * EventsLeft' + 4 /\ EventsInHand'
    BY <2>1, <2>2 DEF StepsLeft, EventsInHand
  <2>4. StepsLeft' \in Int BY <2>1, <2>2 DEF StepsLeft
  <2>5. 2 * EventsLeft' + 4 < 2 * EventsLeft + 3
    BY <1>2, <2>1, <2>2 DEF EventsLeft, Outputs, Total
  <2> QED BY <1>1, <2>2, <2>3, <2>4, <2>5 DEF EventsLeft
<1> QED BY <1>3, <1>4, <1>5

\* Every step of the supervisor leaves it less to do, and no other gives it more.
LEMMA StepLeavesLess ==
  ASSUME IInv, IInv', EventsInHand, [Next]_vars
  PROVE  /\ Supervisor => StepsLeft' < StepsLeft
         /\ StepsLeft' <= StepsLeft /\ EventsInHand'
<1>0. StepsLeft \in Nat /\ (pc \in {"start", "loop", "events", "wait"} => EventsLeft \in Nat)
  BY LeftIsNumber
<1>1. CASE \E s \in Outputs : ReadChunk(s) \/ ReadEnd(s)
  <2>1. StepsLeft' < StepsLeft /\ EventsInHand' BY <1>1, ReadLeavesLess
  <2>2. pc' \in {"cleanup", "loop", "events"} BY <1>1 DEF ReadChunk, ReadEnd
  <2>3. StepsLeft' \in Int
    <3>1. EventsLeft' \in Int BY SizeAssumption DEF EventsLeft, IInv, TypeOK, Total, Outputs
    <3> QED BY <2>2, <3>1 DEF StepsLeft
  <2> QED BY <1>0, <2>1, <2>3
<1>2. CASE Start \/ LoopDeadline \/ Select \/ EndLoop \/ Wait \/ Cleanup
  <2>1. StepsLeft' < StepsLeft /\ EventsInHand'
    <3>1. CASE Start \/ Select
      <4>1. taken' = taken /\ open' = open BY <3>1 DEF Start, Select
      <4>2. EventsLeft' = EventsLeft BY <4>1 DEF EventsLeft
      <4> QED BY <1>0, <3>1, <4>2 DEF Start, Select, StepsLeft, EventsInHand
    <3>2. CASE LoopDeadline \/ EndLoop \/ Wait \/ Cleanup
      BY <1>0, <3>2 DEF LoopDeadline, EndLoop, Wait, Cleanup, StepsLeft, EventsInHand
    <3> QED BY <1>2, <3>1, <3>2
  <2>2. StepsLeft' \in Int
    <3>1. EventsLeft' \in Int BY SizeAssumption DEF EventsLeft, IInv, TypeOK, Total, Outputs
    <3>2. pc' \in {"start", "loop", "events", "wait", "cleanup", "done"} BY DEF IInv, TypeOK
    <3> QED BY <3>1, <3>2 DEF StepsLeft
  <2> QED BY <1>0, <2>1, <2>2
<1>3. CASE ~Supervisor
  <2>1. UNCHANGED <<pc, open, ready, taken>>
    BY <1>3 DEF Next, FeederEnds, Expire, Child, Write, Close, ReadInput, Exit, Spawn, supervisor, vars
  <2>2. StepsLeft' = StepsLeft BY <2>1 DEF StepsLeft, EventsLeft
  <2> QED BY <1>0, <1>3, <2>1, <2>2 DEF EventsInHand
<1> QED BY <1>1, <1>2, <1>3 DEF Supervisor

\* budget.py:146-200: however the processes write, stall, close and inherit, the
\* supervisor goes round its loop a number of times that the cap bounds, and no
\* select returns without something to handle: it neither spins nor is kept busy.
THEOREM SupervisorRunsOut ==
  Spec => /\ [](StepsLeft \in Nat /\ EventsInHand)
          /\ [][(Supervisor => StepsLeft' < StepsLeft) /\ StepsLeft' <= StepsLeft]_vars
<1>1. Init => EventsInHand BY DEF Init, EventsInHand
<1>2. IInv /\ IInv' /\ EventsInHand /\ [Next]_vars
        => EventsInHand' /\ [(Supervisor => StepsLeft' < StepsLeft) /\ StepsLeft' <= StepsLeft]_vars
  BY StepLeavesLess
<1>3. IInv => StepsLeft \in Nat BY LeftIsNumber
<1> QED BY <1>1, <1>2, <1>3, Invariance, PTL DEF Spec
=============================================================================
