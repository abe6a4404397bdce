---------------------------- MODULE MCInvocation ----------------------------
(***************************************************************************)
(* Instances of SecretInvocation for TLC: one declared endpoint and one    *)
(* that is not, a pipe of two blocks, and bundles that fill it, exceed it  *)
(* up to the limit, and exceed the limit.                                  *)
(***************************************************************************)
EXTENDS SecretInvocation

CONSTANTS declared, stray, ref1, ref2

BundleSizes == {2, 5, 6}

\* One credential is a word every error envelope uses.
ErrorWord == [s \in Statuses |-> IF s = "error" THEN {ref2} ELSE {}]
\* And one instance in which no credential is a word of an envelope.
NoWord == [s \in Statuses |-> {}]
=============================================================================
