---------------------------- MODULE ChannelBounds ----------------------------
(* The sizes the credential channel is about, in blocks.                     *)
EXTENDS Naturals

CONSTANTS
  MaxBundle,  \* MAX_SECRET_BUNDLE_BYTES
  PipeSize,   \* what the kernel's pipe buffer holds
  Sizes       \* sizes of the serialised bundle

ASSUME SizeAssumption == /\ MaxBundle \in Nat /\ PipeSize \in Nat \ {0}
                         /\ Sizes \subseteq Nat
=============================================================================
