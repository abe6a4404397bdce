------------------------ MODULE MaterializationCache ------------------------
(***************************************************************************)
(* The cache of materialized provider environments                         *)
(* (cruxible_provider_runtime/cache.py), for one materialization digest.   *)
(* Entries of different digests have different directories and different   *)
(* lock files and share only the cache root, so one digest is the whole    *)
(* interaction.                                                            *)
(*                                                                         *)
(* Procs are the threads and processes that call get_or_materialize.  The  *)
(* entry is a directory other processes see half-deleted and half-walked:  *)
(* a verification reads the seal, then one file at a time, and a removal   *)
(* deletes one file at a time, in every order the directory may list them. *)
(* The staging directory is private to the process that made it.           *)
(***************************************************************************)
EXTENDS Naturals, FiniteSets

CONSTANTS
  Procs,      \* callers of get_or_materialize
  Files,      \* the files of a materialized environment, the seal excepted
  SealFile,   \* the file that holds the seal
  Embeds,     \* the files whose content differs from one build to the next
  NoProc,     \* the lock is free
  Gone,       \* the file is not there
  Junk,       \* content no build produced
  NoSeal,     \* no seal file
  BadSeal,    \* a seal that is unreadable, of another version or digest
  InitRoots,  \* what the cache root may be when the first call arrives
  MaxCalls,   \* bound: calls one process makes
  MaxBuilds,  \* bound: builds, of all processes together
  Mishaps     \* bound: how often the kinds of fault happen together

FaultKinds == {"tamper", "read", "remove", "build", "kill"}

ASSUME ProcsAssumption == NoProc \notin Procs
ASSUME ContentAssumption == /\ Embeds \subseteq Files /\ SealFile \notin Files
                            /\ Junk \notin Nat /\ Gone \notin Nat /\ Junk # Gone
ASSUME BoundsAssumption == /\ MaxCalls \in Nat /\ MaxBuilds \in Nat
                           /\ Mishaps \subseteq [FaultKinds -> Nat]
                           /\ InitRoots \subseteq {"absent", "private", "exposed"}

Contents == Nat \cup {Junk, Gone}
Trees    == [Files -> Contents]
NoTree   == [f \in Files |-> Gone]

\* What the k-th build puts in the tree: the staging path is baked into some
\* files (scripts, pyvenv.cfg), the others come from the same wheels each time.
BuildTree(k) == [f \in Files |-> IF f \in Embeds THEN k ELSE 0]
BuiltTrees   == {BuildTree(k) : k \in 1..MaxBuilds}

\* A seal is the digest of the tree it was written over, hence that tree.
ASSUME SealAssumption == NoSeal \notin Trees /\ BadSeal \notin Trees
Seals == Trees \cup {NoSeal, BadSeal}

Dirs      == [exists : BOOLEAN, tree : Trees, seal : Seals]
AbsentDir == [exists |-> FALSE, tree |-> NoTree, seal |-> NoSeal]
EmptyDir  == [exists |-> TRUE, tree |-> NoTree, seal |-> NoSeal]

Reads     == [tree : Trees, seal : Seals]
Answers   == [kind : {"none", "raised", "path"}, tree : Trees]

VARIABLES
  root,       \* the cache root: absent, private (0700, ours) or exposed
  entry,      \* the directory named by the digest
  lock,       \* who holds the digest's flock
  pc,         \* where each process is in get_or_materialize
  at,         \* which of its three verifications a process is in
  todo,       \* files a walk or a removal has still to visit
  seen,       \* what the current verification has read
  staging,    \* the directory a process is building
  answer,     \* how the process's last call ended
  builds,     \* builds started so far
  published,  \* history: the trees that were renamed into place
  calls,      \* calls each process has made
  faults      \* how often each kind of fault has happened

vars == <<root, entry, lock, pc, at, todo, seen, staging, answer, builds,
          published, calls, faults>>

Labels == {"idle", "mkroot", "probe", "read_seal", "walk", "wait", "reprobe",
           "rmtree", "build", "seal", "publish", "unlock"}

\* The code between acquiring the flock and releasing it.
Locked(p) == \/ pc[p] \in {"reprobe", "rmtree", "build", "seal", "publish", "unlock"}
             \/ pc[p] \in {"read_seal", "walk"} /\ at[p] = "locked"

NoAnswer == [kind |-> "none", tree |-> NoTree]
Raised   == [kind |-> "raised", tree |-> NoTree]
Path(t)  == [kind |-> "path", tree |-> t]

Init ==
  /\ root \in InitRoots
  /\ entry = AbsentDir
  /\ lock = NoProc
  /\ pc = [p \in Procs |-> "idle"]
  /\ at = [p \in Procs |-> "fast"]
  /\ todo = [p \in Procs |-> {}]
  /\ seen = [p \in Procs |-> [tree |-> NoTree, seal |-> NoSeal]]
  /\ staging = [p \in Procs |-> AbsentDir]
  /\ answer = [p \in Procs |-> NoAnswer]
  /\ builds = 0
  /\ published = {}
  /\ calls = [p \in Procs |-> 0]
  /\ faults = [k \in FaultKinds |-> 0]

Goto(p, label) == pc' = [pc EXCEPT ![p] = label]
Fault(kind) == /\ faults' = [faults EXCEPT ![kind] = @ + 1]
               /\ faults' \in Mishaps

Leave_HoldsLock(p, result) ==
  /\ Goto(p, "idle")
  /\ answer' = [answer EXCEPT ![p] = result]
  /\ UNCHANGED lock

\* Leaving the call, by return or by exception; a with block that was entered
\* releases the flock on the way out.
Leave(p, result) ==
  /\ Goto(p, "idle")
  /\ answer' = [answer EXCEPT ![p] = result]
  /\ lock' = IF lock = p THEN NoProc ELSE lock

-----------------------------------------------------------------------------
(* ensure_root, then the unlocked look at the entry.                        *)

Call(p) ==
  /\ pc[p] = "idle" /\ calls[p] < MaxCalls
  /\ calls' = [calls EXCEPT ![p] = @ + 1]
  /\ \/ root = "absent"  /\ Goto(p, "mkroot") /\ answer' = [answer EXCEPT ![p] = NoAnswer]
     \/ root = "private" /\ Goto(p, "probe")  /\ answer' = [answer EXCEPT ![p] = NoAnswer]
     \/ root = "exposed" /\ answer' = [answer EXCEPT ![p] = Raised] /\ UNCHANGED pc
  /\ UNCHANGED <<root, entry, lock, at, todo, seen, staging, builds, published, faults>>

\* The mkdir of a root that was absent a moment ago: it has no exist_ok.
MakeRoot(p) ==
  /\ pc[p] = "mkroot"
  /\ \/ root = "absent" /\ root' = "private" /\ Goto(p, "probe") /\ UNCHANGED <<answer, lock>>
     \/ root # "absent" /\ Leave(p, Raised) /\ UNCHANGED root
  /\ UNCHANGED <<entry, at, todo, seen, staging, builds, published, calls, faults>>

Probe(p) ==
  /\ pc[p] = "probe"
  /\ at' = [at EXCEPT ![p] = "fast"]
  /\ Goto(p, IF entry.exists THEN "read_seal" ELSE "wait")
  /\ UNCHANGED <<root, entry, lock, todo, seen, staging, answer, builds,
                 published, calls, faults>>

-----------------------------------------------------------------------------
(* verify, which runs three times in a call: before the lock, under it, and *)
(* once more after it is released.                                          *)

\* A verification that refuses: unlocked, it sends the caller to the lock;
\* under the lock, it has the entry removed; at the end, it fails the call.
Reject(p) ==
  \/ at[p] = "fast"   /\ Goto(p, "wait") /\ UNCHANGED <<answer, lock, todo>>
  \/ at[p] = "locked" /\ Goto(p, "rmtree")
                      /\ todo' = [todo EXCEPT ![p] = Files \cup {SealFile}]
                      /\ UNCHANGED <<answer, lock>>
  \/ at[p] = "final"  /\ Leave(p, Raised) /\ UNCHANGED todo

\* The seal holds the digest, so the digest leaves the seal out.
Hashed == Files

ReadSeal(p) ==
  /\ pc[p] = "read_seal"
  /\ \/ /\ entry.seal \in {NoSeal, BadSeal}
        /\ Reject(p)
        /\ UNCHANGED seen
     \/ /\ entry.seal \notin {NoSeal, BadSeal}
        /\ seen' = [seen EXCEPT ![p] = [tree |-> NoTree, seal |-> entry.seal]]
        /\ todo' = [todo EXCEPT ![p] = Hashed]
        /\ Goto(p, "walk")
        /\ UNCHANGED <<answer, lock>>
  /\ UNCHANGED <<root, entry, at, staging, builds, published, calls, faults>>

\* tree_digest hashes one file.  A file that vanished before it was listed or
\* before it was opened leaves the digest without it, or raises; both refuse.
HashFile(p) ==
  /\ pc[p] = "walk"
  /\ \E f \in todo[p] :
       /\ seen' = [seen EXCEPT ![p].tree[f] = entry.tree[f]]
       /\ todo' = [todo EXCEPT ![p] = @ \ {f}]
  /\ UNCHANGED <<root, entry, lock, pc, at, staging, answer, builds, published,
                 calls, faults>>

DigestMatches(p) == seen[p].seal = seen[p].tree

Judge(p) ==
  /\ pc[p] = "walk" /\ todo[p] = {}
  /\ \/ DigestMatches(p) /\ Leave(p, Path(seen[p].tree)) /\ UNCHANGED todo
     \/ ~DigestMatches(p) /\ Reject(p)
  /\ UNCHANGED <<root, entry, at, seen, staging, builds, published, calls, faults>>

\* Any exception of a verification counts as a refusal: an unreadable file, no
\* descriptors left.
ReadFault(p) ==
  /\ pc[p] \in {"read_seal", "walk"}
  /\ Fault("read")
  /\ Reject(p)
  /\ UNCHANGED <<root, entry, at, seen, staging, builds, published, calls>>

-----------------------------------------------------------------------------
(* Under the per-digest lock.                                               *)

LockFree(p) == lock = NoProc

Acquire_NoRecheck(p) ==
  /\ pc[p] = "wait" /\ LockFree(p)
  /\ lock' = p
  /\ Goto(p, "rmtree")
  /\ at' = [at EXCEPT ![p] = "locked"]
  /\ todo' = [todo EXCEPT ![p] = Files \cup {SealFile}]
  /\ UNCHANGED <<root, entry, seen, staging, answer, builds,
                 published, calls, faults>>

Acquire(p) ==
  /\ pc[p] = "wait" /\ LockFree(p)
  /\ lock' = p
  /\ Goto(p, "reprobe")
  /\ UNCHANGED <<root, entry, at, todo, seen, staging, answer, builds,
                 published, calls, faults>>

\* Another bind may have materialized the entry while this one waited.
Reprobe(p) ==
  /\ pc[p] = "reprobe"
  /\ at' = [at EXCEPT ![p] = "locked"]
  /\ Goto(p, IF entry.exists THEN "read_seal" ELSE "build")
  /\ UNCHANGED <<root, entry, lock, todo, seen, staging, answer, builds,
                 published, calls, faults>>

\* shutil.rmtree(path, ignore_errors=True): one file at a time, and a file it
\* cannot delete is skipped.
Without(d, f) == IF f = SealFile THEN [d EXCEPT !.seal = NoSeal]
                 ELSE [d EXCEPT !.tree[f] = Gone]

RemoveFile(p) ==
  /\ pc[p] = "rmtree"
  /\ \E f \in todo[p] :
       /\ todo' = [todo EXCEPT ![p] = @ \ {f}]
       /\ \/ entry' = Without(entry, f) /\ UNCHANGED faults
          \/ Fault("remove") /\ UNCHANGED entry
  /\ UNCHANGED <<root, lock, pc, at, seen, staging, answer, builds, published, calls>>

RemoveDir(p) ==
  /\ pc[p] = "rmtree" /\ todo[p] = {}
  /\ entry' = IF entry = EmptyDir THEN AbsentDir ELSE entry
  /\ Goto(p, "build")
  /\ UNCHANGED <<root, lock, at, todo, seen, staging, answer, builds,
                 published, calls, faults>>

\* mkdtemp and the builder, which populates the fresh directory or raises.
Build(p) ==
  /\ pc[p] = "build" /\ builds < MaxBuilds
  /\ builds' = builds + 1
  /\ \/ /\ staging' = [staging EXCEPT ![p] =
                         [exists |-> TRUE, tree |-> BuildTree(builds + 1), seal |-> NoSeal]]
        /\ Goto(p, "seal")
        /\ UNCHANGED <<answer, lock, faults>>
     \/ Fault("build") /\ Leave(p, Raised) /\ UNCHANGED staging
  /\ UNCHANGED <<root, entry, at, todo, seen, published, calls>>

Sealed_Forgotten(d) == d
Sealed(d) == [d EXCEPT !.seal = d.tree]

WriteSeal(p) ==
  /\ pc[p] = "seal"
  /\ staging' = [staging EXCEPT ![p] = Sealed(@)]
  /\ Goto(p, "publish")
  /\ UNCHANGED <<root, entry, lock, at, todo, seen, answer, builds, published,
                 calls, faults>>

\* rename(2) replaces an absent or an empty directory and refuses another one
\* with ENOTEMPTY; the staging directory is then thrown away.
Publish(p) ==
  /\ pc[p] = "publish"
  /\ \/ /\ entry \in {AbsentDir, EmptyDir}
        /\ entry' = staging[p]
        /\ published' = published \cup {staging[p].tree}
     \/ /\ entry \notin {AbsentDir, EmptyDir}
        /\ UNCHANGED <<entry, published>>
  /\ staging' = [staging EXCEPT ![p] = AbsentDir]
  /\ Goto(p, "unlock")
  /\ UNCHANGED <<root, lock, at, todo, seen, answer, builds, calls, faults>>

\* The with block ends; the last verification runs without the lock.
Unlock(p) ==
  /\ pc[p] = "unlock"
  /\ lock' = NoProc
  /\ at' = [at EXCEPT ![p] = "final"]
  /\ Goto(p, "read_seal")
  /\ UNCHANGED <<root, entry, todo, seen, staging, answer, builds, published,
                 calls, faults>>

-----------------------------------------------------------------------------
(* What happens to the processes and to the directory from outside.         *)

\* SIGKILL at any point: the kernel drops the flock, the staging directory is
\* left behind, the caller gets no answer.
Kill(p) ==
  /\ pc[p] # "idle"
  /\ Fault("kill")
  /\ Leave(p, NoAnswer)
  /\ staging' = [staging EXCEPT ![p] = AbsentDir]
  /\ UNCHANGED <<root, entry, at, todo, seen, builds, published, calls>>

\* Somebody edits or deletes files of the entry, or deletes all of it.
Tamper ==
  /\ entry.exists
  /\ Fault("tamper")
  /\ \/ \E f \in Files, c \in {Junk, Gone} : entry' = [entry EXCEPT !.tree[f] = c]
     \/ \E s \in {NoSeal, BadSeal} : entry' = [entry EXCEPT !.seal = s]
     \/ entry' = AbsentDir
  /\ UNCHANGED <<root, lock, pc, at, todo, seen, staging, answer, builds,
                 published, calls>>

Verification(p) == ReadSeal(p) \/ HashFile(p) \/ Judge(p)

Removal(p) == RemoveFile(p) \/ RemoveDir(p)

\* The steps the code takes on its own once it is called.
Step(p) == \/ MakeRoot(p) \/ Probe(p) \/ Verification(p)
           \/ Acquire(p) \/ Reprobe(p) \/ Removal(p)
           \/ Build(p) \/ WriteSeal(p) \/ Publish(p) \/ Unlock(p)

Next == \/ \E p \in Procs : Call(p) \/ Step(p) \/ ReadFault(p) \/ Kill(p)
        \/ Tamper

Spec == Init /\ [][Next]_vars

\* A process that is running keeps running, and flock serves its waiters.
FairSpec == Spec /\ \A p \in Procs : WF_vars(Step(p))
-----------------------------------------------------------------------------
(* Properties.                                                              *)

TypeOK ==
  /\ root \in {"absent", "private", "exposed"}
  /\ entry \in Dirs
  /\ lock \in Procs \cup {NoProc}
  /\ pc \in [Procs -> Labels]
  /\ at \in [Procs -> {"fast", "locked", "final"}]
  /\ todo \in [Procs -> SUBSET (Files \cup {SealFile})]
  /\ \A p \in Procs : pc[p] = "walk" => todo[p] \subseteq Files
  /\ seen \in [Procs -> Reads]
  /\ staging \in [Procs -> Dirs]
  /\ answer \in [Procs -> Answers]
  /\ builds \in Nat
  /\ published \in SUBSET Trees
  /\ calls \in [Procs -> Nat]
  /\ faults \in [FaultKinds -> Nat]

\* The directory is what a verification accepts: a complete build under a seal
\* written over exactly that build.
Good(d) == d.exists /\ d.seal = d.tree /\ d.tree \in BuiltTrees

\* Nobody outside the cache touched the entry, and every read of it worked.
Undisturbed == faults["tamper"] = 0 /\ faults["read"] = 0

\* cache.py:219 "exactly one materializes": no two processes are ever between
\* acquiring the digest's flock and releasing it, whatever is killed and
\* whatever the verifications raise.
OneMaterializer == \A p, q \in Procs : Locked(p) /\ Locked(q) => p = q

\* The entry is published whole: whatever process is killed at whatever point
\* and whatever build fails, what the digest names is absent or is a complete
\* sealed build; a half-built or unsealed tree is never reachable by its name.
PublishedWhole == Undisturbed => entry = AbsentDir \/ Good(entry)

\* Whatever happens to the directory while a call walks it, a path is only
\* returned for a tree that some build published under its seal: damage, a
\* removal under way and a mixture of an old and a new tree are all refused.
AnswersWerePublished ==
  \A p \in Procs : answer[p].kind = "path" => answer[p].tree \in published

\* The re-check under the lock: a caller that saw the entry bad, or saw none,
\* never deletes or replaces the good entry another caller published since.
\* Only tampering and an unreadable file make a good entry go away.
GoodEntryStays ==
  [][Good(entry) /\ faults["read"] = 0 /\ faults'["tamper"] = faults["tamper"]
       => entry' = entry]_vars

\* cache.py:220 "both verify the same sealed tree": with nobody disturbing the
\* entry, every path a call returned leads to the tree that call verified, so
\* all calls agree on it and no later rebuild takes it away from under them.
AnswersAgree ==
  Undisturbed => \A p \in Procs :
    answer[p].kind = "path" => entry.exists /\ entry.tree = answer[p].tree

\* cache.py:219 of concurrent binds: "exactly one materializes, and both verify
\* the same sealed tree".  With no fault of any kind, no call fails.
ConcurrentBindsSucceed ==
  (\A k \in FaultKinds : faults[k] = 0) =>
    \A p \in Procs : answer[p].kind # "raised"

\* A call that is not killed ends, and the lock is free again: no exception, no
\* early return and no kill leaves the flock held or a caller waiting for it.
CallsEnd == \A p \in Procs : pc[p] # "idle" ~> pc[p] = "idle"

\* Why the properties hold, as an inductive invariant: who holds the lock, where
\* every seal comes from, what a verification under the lock knows about the
\* entry, and what is left to happen while nobody disturbs it.
LockInv == \A p \in Procs : Locked(p) => lock = p

SealInv ==
  /\ published \subseteq BuiltTrees
  /\ entry.seal \in published \cup {NoSeal, BadSeal}
  /\ \A p \in Procs :
       /\ pc[p] = "walk" => seen[p].seal \in published
       /\ pc[p] \in {"seal", "publish"} => staging[p].exists /\ staging[p].tree \in BuiltTrees
       /\ pc[p] = "publish" => staging[p].seal = staging[p].tree
       /\ answer[p].kind = "path" => answer[p].tree \in published

Agrees(p) == /\ seen[p].seal = entry.seal
             /\ \A f \in Files \ todo[p] : seen[p].tree[f] = entry.tree[f]

LookInv ==
  \A p \in Procs :
    /\ pc[p] = "walk" /\ at[p] = "locked" /\ Good(entry) => Agrees(p)
    /\ pc[p] \in {"rmtree", "build", "seal", "publish"} /\ faults["read"] = 0 => ~Good(entry)

CalmInv ==
  Undisturbed =>
    /\ (entry = AbsentDir /\ published = {}) \/ Good(entry)
    /\ \A p \in Procs :
         /\ pc[p] # "rmtree"
         /\ pc[p] \in {"build", "seal", "publish"} => entry = AbsentDir
         /\ pc[p] \in {"read_seal", "walk", "unlock"} => Good(entry)
         /\ pc[p] = "walk" => Agrees(p)
         /\ answer[p].kind = "path" => Good(entry) /\ answer[p].tree = entry.tree

Inductive == LockInv /\ SealInv /\ LookInv /\ CalmInv

\* The cache implements the store it promises (see SealedStore).
Handed == [p \in Procs |-> IF answer[p].kind = "path" THEN {answer[p].tree} ELSE {}]

Store == INSTANCE SealedStore WITH
  Callers <- Procs, Trees <- BuiltTrees,
  sealed <- published, disturbed <- ~Undisturbed, handed <- Handed

ImplementsStore == Store!StoreSpec
=============================================================================
