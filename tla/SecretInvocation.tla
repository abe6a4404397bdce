-------------------------- MODULE SecretInvocation --------------------------
(***************************************************************************)
(* Invocation inside its credential channel: execute.invoke's "with" block *)
(* around the supervised run.  The two components share the executor and   *)
(* the child: the channel is opened before the context is built, the child *)
(* drains the pipe between resolving the entrypoint and the call, and the  *)
(* executor leaves the channel before it looks at what the child wrote.    *)
(* A run in a container gets its credentials from the image's shim and     *)
(* never sees this pipe.                                                   *)
(***************************************************************************)
EXTENDS Invocation, ChannelBounds

\* Without credentials there is no channel, and Invocation is the whole run.
ASSUME CredentialsAssumption == Refs # {}

VARIABLES chan, size, left, writer, pipe, readers, reader, got,  \* SecretChannel
          container   \* the run is in a container

channel == <<chan, size, left, writer, pipe, readers, reader, got>>
jointVars == <<vars, channel, container>>

Channel == INSTANCE SecretChannel WITH pc <- chan, child <- reader

JointInit == Init /\ Channel!Init /\ container \in BOOLEAN

-----------------------------------------------------------------------------
(* The executor.                                                            *)

\* The payload is admitted before there is a channel.
AdmissionRefused ==
  /\ chan = "open" /\ Prepare /\ code' = "bucket"
  /\ UNCHANGED channel

OpenChannel ==
  /\ xpc = "prepare" /\ Channel!Open
  /\ IF chan' = "refused" THEN Prepare /\ code' = "bundle" ELSE UNCHANGED vars

ContextRefused == Prepare /\ code' = "secret_leak" /\ Channel!PrepareFails

\* A container's own process inherits the pipe's number and not the pipe.
StartRun == Prepare /\ xpc' = "run" /\ Channel!Spawn

\* The supervisor returns or raises with the child gone.
BreachRun == Breach /\ Channel!RunOver

RunReturns == cpc = "gone" /\ xpc = "run" /\ Channel!RunOver /\ UNCHANGED vars

LeaveChannel == (Channel!CloseReadEnd \/ Channel!Join) /\ UNCHANGED vars

\* The envelope is read outside the "with" block.
CollectRun == chan = "done" /\ Collect /\ UNCHANGED channel

JointExecutor == \/ AdmissionRefused \/ OpenChannel \/ ContextRefused
                 \/ BreachRun \/ RunReturns \/ LeaveChannel \/ CollectRun

-----------------------------------------------------------------------------
(* The child.                                                               *)

\* A process that ends without having drained the pipe lets go of it.
LetsGo == IF cpc' = "gone" /\ reader = "reading" THEN Channel!ChildEnds
          ELSE UNCHANGED channel

Drain == /\ cpc = "secrets" /\ ~container
         /\ Channel!Read /\ UNCHANGED vars

\* The end of the pipe: a whole bundle parses and has every ref.
Drained == /\ cpc = "secrets" /\ ~container
           /\ Channel!ReadEnd /\ ReadSecrets
           /\ IF got = size THEN secrets' = Refs ELSE ending'.how = "refusal"

\* In a container any of what the shim may have left on the descriptor.
ShimDelivered == cpc = "secrets" /\ container /\ ReadSecrets /\ UNCHANGED channel

ForkChild == HarnessRuns /\ ~container /\ Channel!Fork /\ UNCHANGED vars

OtherChild == (Parse \/ Resolve \/ Build \/ Handle \/ Write \/ Provider) /\ LetsGo

JointChild == Drain \/ Drained \/ ShimDelivered \/ ForkChild \/ OtherChild

-----------------------------------------------------------------------------
WriterThread == Channel!Writer /\ UNCHANGED vars
Orphan == Channel!OrphanEnds /\ UNCHANGED vars

JointNext ==
  /\ JointExecutor \/ StartRun \/ WriterThread \/ JointChild \/ Orphan
  /\ UNCHANGED container

JointSpec == JointInit /\ [][JointNext]_jointVars

\* The executor's threads are scheduled and its deadline passes (BudgetedRun);
\* nothing is assumed of the child, of what it leaves behind, or that preparing
\* a run fails.
JointFairSpec ==
  /\ JointSpec
  /\ WF_jointVars(OpenChannel /\ UNCHANGED container)
  /\ WF_jointVars(StartRun /\ UNCHANGED container)
  /\ WF_jointVars((BreachRun \/ RunReturns) /\ UNCHANGED container)
  /\ WF_jointVars((LeaveChannel \/ CollectRun) /\ UNCHANGED container)
  /\ WF_jointVars(WriterThread /\ UNCHANGED container)

-----------------------------------------------------------------------------
(* Properties.                                                              *)

\* A child that reads to the end of the pipe has the whole bundle, and calls the
\* provider with nothing less.
BundleReachesProvider ==
  /\ Channel!WholeBundle
  /\ cpc = "call" /\ ~container => got = size

\* Every invocation ends, outside its channel, wherever the child hangs and
\* however much of the bundle it leaves in the pipe.
InvocationReturns == <>(Ended /\ chan \in {"open", "refused", "done"})

\* The writer thread and its copy of the credentials do not outlive the run for
\* good, once nothing the child left behind holds the pipe.
WriterEnds == <>[]("orphan" \notin readers) => <>[](writer # "writing")
=============================================================================
