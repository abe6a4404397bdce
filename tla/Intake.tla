------------------------------- MODULE Intake -------------------------------
(***************************************************************************)
(* What a host does with a package around an invocation: its registration  *)
(* data are read, its backend is prepared, a local environment by a build  *)
(* or a container by vouching for its image, and an input is admitted and  *)
(* answered by an adapter (here of the quantitative plane).  The four      *)
(* share no state, and the host that calls them is not part of the         *)
(* repository: a behaviour does one of them.                               *)
(***************************************************************************)
EXTENDS Registration, EnvironmentBuild, ImageProvenance, QuantPlane

intake == <<registration, build, image, quant>>

IntakeInit == RegistrationInit /\ BuildInit /\ ImageInit /\ QuantInit

Inspecting ==
  /\ step = "idle" /\ proposals = 0 /\ phase = "idle"
  /\ \/ RegistrationStep
     \/ at.label = "idle" /\ \E d \in Distributions : Open(d)
     \/ \E e \in Edits : EditFile(e)
  /\ UNCHANGED <<build, image, quant>>

Building ==
  /\ at.label = "idle" /\ proposals = 0 /\ phase = "idle"
  /\ \/ BuildStep \/ Break
     \/ step = "idle" /\ \E r \in Requests : Ask(r)
  /\ UNCHANGED <<registration, image, quant>>

Vouching ==
  /\ at.label = "idle" /\ step = "idle" /\ phase = "idle"
  /\ verdict = "none"
  /\ \/ \E p \in Payloads : Propose(p)
     \/ \E made \in Builders : BuildImage(made)
     \/ Accept \/ Register \/ VerifyImage
  /\ UNCHANGED <<registration, build, quant>>

Answering ==
  /\ at.label = "idle" /\ step = "idle" /\ proposals = 0
  /\ \/ phase # "idle" /\ QuantStep
     \/ phase = "idle" /\ \E c \in Calls : AskQuant(c)
  /\ UNCHANGED <<registration, build, image>>

IntakeNext == Inspecting \/ Building \/ Vouching \/ Answering

IntakeSpec == IntakeInit /\ [][IntakeNext]_intake
=============================================================================
