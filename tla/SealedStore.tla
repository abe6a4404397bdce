---------------------------- MODULE SealedStore ----------------------------
(***************************************************************************)
(* What the materialization cache promises its callers, with no lock, no   *)
(* directory and no verification in sight: a store that is written once.   *)
(* A tree becomes available by being sealed, a caller is only ever handed  *)
(* a sealed tree, and a second tree is sealed for the same digest only     *)
(* after somebody disturbed the first one.                                 *)
(***************************************************************************)
CONSTANTS
  Callers,   \* who asks for the environment
  Trees      \* the environments a build can produce

VARIABLES
  sealed,     \* the trees sealed so far
  disturbed,  \* the stored tree was tampered with, or could not be read
  handed      \* the trees each caller's last call was answered with

storeVars == <<sealed, disturbed, handed>>

StoreInit == /\ sealed = {}
             /\ disturbed = FALSE
             /\ handed = [c \in Callers |-> {}]

Seal == /\ sealed = {} \/ disturbed
        /\ \E t \in Trees : sealed' = sealed \cup {t}
        /\ UNCHANGED <<disturbed, handed>>

Disturb == /\ disturbed' = TRUE
           /\ \/ UNCHANGED handed
              \/ \E c \in Callers : handed' = [handed EXCEPT ![c] = {}]
           /\ UNCHANGED sealed

\* A call is answered with a sealed tree, or ends (or starts) without one.
Hand(c) == /\ \E T \in {{}} \cup {{t} : t \in sealed} : handed' = [handed EXCEPT ![c] = T]
           /\ UNCHANGED <<sealed, disturbed>>

StoreNext == Seal \/ Disturb \/ \E c \in Callers : Hand(c)

StoreSpec == StoreInit /\ [][StoreNext]_storeVars
=============================================================================
