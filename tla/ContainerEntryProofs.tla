------------------------- MODULE ContainerEntryProofs -------------------------
(***************************************************************************)
(* What the child of the container shim gets and what is left behind,      *)
(* proved for every cap, chunk, command line, descriptor table and file,   *)
(* and for any number of steps of the others.                              *)
(***************************************************************************)
EXTENDS ContainerEntry, TLAPS

PathSteps == {"open", "inspect", "unlink", "confirm"}
AfterDrain == {"copy", "install", "exec", "child"}

\* The sets the steps range over.
Kept == /\ held \in Nat /\ sent \in Nat /\ moves \in Nat
        /\ inode \in Inodes /\ path \in Inodes \cup {"none"}
        /\ names \in [Inodes -> Nat] /\ size \in [Inodes -> Nat]
        /\ given \in {"none", "path", "fd"} /\ writer \in BOOLEAN

\* Which steps belong to which delivery.
Routed == /\ pc \in PathSteps => given = "path"
          /\ pc = "check" => given = "fd"
          /\ pc \in {"drain", "wait", "copy", "install"} => given # "none"
          /\ pc \in {"parse", "sweep", "check"} \cup PathSteps \/ given = "none" => held = 0

\* What is held against the cap, and against what was sent.
Counted == /\ held <= Cap + 1
           /\ pc \in AfterDrain => held <= Cap
           /\ given = "fd" => held <= sent
           /\ given = "fd" /\ pc \in AfterDrain => held = sent /\ ~writer

\* The delivery path names a file that has a name, and the file the bundle comes
\* from has none once that was confirmed: a file without a name gets none again.
Nameless == /\ path # "none" => names[path] > 0
            /\ given = "path" /\ pc \in {"drain", "wait"} \cup AfterDrain => names[inode] = 0

\* No descriptor but these holds the delivery.
OnlyOn(S) == \A f \in DOMAIN fds \ S : fds[f].what \notin {"file", "copy"}
Within(S) == listable => DOMAIN fds \subseteq {0, 1, 2} \cup S

Table == /\ pc \in {"parse", "sweep"} => OnlyOn({})
         /\ pc \in {"open", "copy"} => OnlyOn({}) /\ Within({})
         /\ pc = "check" => OnlyOn({}) /\ Within({pipeFd})
         /\ pc \in {"inspect", "unlink", "confirm", "drain", "wait", "install"} =>
              OnlyOn({fd}) /\ Within({fd})
         /\ pc \in {"drain", "wait"} /\ given = "fd" => fds[fd].what \in {"pipeR", "pipeW"}
         /\ pc \in {"exec", "child"} /\ given = "none" => OnlyOn({}) /\ Within({})
         /\ pc \in {"exec", "child"} /\ given # "none" =>
              /\ OnlyOn({SecretFd}) /\ Within({SecretFd}) /\ SecretFd \in DOMAIN fds
              /\ fds[SecretFd] = [what |-> "copy", inherit |-> TRUE]

IInv == Kept /\ Routed /\ Counted /\ Nameless /\ Table

-----------------------------------------------------------------------------
(* The start.                                                               *)

\* The smaller of two numbers is one of them and no larger than either.
LEMMA LesserFacts ==
  ASSUME NEW m \in Int, NEW n \in Int
  PROVE  Lesser(m, n) \in {m, n} /\ Lesser(m, n) <= m /\ Lesser(m, n) <= n
BY DEF Lesser

LEMMA InitIInv == Init => IInv
<1> SUFFICES ASSUME Init PROVE IInv OBVIOUS
<1>1. PICK f \in Files :
        /\ names = [i \in Inodes |-> IF i = "bundle" THEN f.names ELSE 1]
        /\ size = [i \in Inodes |-> IF i = "bundle" THEN f.size ELSE 1]
  BY DEF Init
<1>2. f.names \in Nat \ {0} /\ f.size \in Nat
  BY ShimAssumption
<1>3. Kept /\ Routed /\ Counted /\ Nameless
  BY <1>1, <1>2, ShimAssumption
     DEF Init, Kept, Routed, Counted, Nameless, Inodes, PathSteps, AfterDrain
<1>4. Table
  <2>1. PICK t \in Tables : fds = [x \in DOMAIN t |-> [what |-> t[x], inherit |-> TRUE]]
    BY DEF Init
  <2>2. \A x \in DOMAIN t : t[x] \in {"std", "stray", "pipeR", "pipeW"}
    BY ShimAssumption
  <2> QED BY <2>1, <2>2 DEF Init, Table, OnlyOn
<1> QED BY <1>3, <1>4 DEF IInv

-----------------------------------------------------------------------------
(* The others.                                                              *)

\* Nothing the others do gives a nameless file a name, or the child more or less
\* than it has.
LEMMA OthersKeepIInv == ASSUME IInv, Environment \/ Expire \/ UNCHANGED vars PROVE IInv'
<1> USE DEF IInv, Kept, Routed, Counted, Nameless
<1>0. ASSUME UNCHANGED shim, UNCHANGED listable PROVE Table'
  BY <1>0 DEF shim, parsed, Table, OnlyOn, Within
<1>1. ASSUME NEW i \in Inodes, Link(i) PROVE IInv'
  BY <1>0, <1>1 DEF Link, Others, shim, parsed, feeder
<1>2. ASSUME NEW i \in Inodes, DropName(i) PROVE IInv'
  BY <1>0, <1>2 DEF DropName, Others, shim, parsed, feeder
<1>3. ASSUME NEW i \in Inodes, Append1(i) PROVE IInv'
  BY <1>0, <1>3 DEF Append1, Others, shim, parsed, feeder
<1>4. CASE RenameAway
  BY <1>0, <1>4 DEF RenameAway, Others, shim, parsed, feeder
<1>5. CASE RenameOver
  BY <1>0, <1>5 DEF RenameOver, Others, shim, parsed, feeder, Inodes
<1>6. CASE Send
  BY <1>0, <1>6 DEF Send, files, shim, parsed
<1>7. CASE CloseWriter
  BY <1>0, <1>7 DEF CloseWriter, files, shim, parsed
<1>8. CASE Expire
  BY <1>0, <1>8 DEF Expire, files, shim, parsed, feeder
<1>9. CASE UNCHANGED vars
  BY <1>0, <1>9 DEF vars, files, shim, parsed, feeder
<1> QED BY <1>1, <1>2, <1>3, <1>4, <1>5, <1>6, <1>7, <1>8, <1>9 DEF Environment

-----------------------------------------------------------------------------
(* The shim.                                                                *)

\* Before the drain.
LEMMA DeliveryKeepsIInv ==
  ASSUME IInv, ParseOption \/ ParseEnd \/ Sweep \/ Open \/ OpenFails \/ Inspect \/ Unlink
               \/ UnlinkFails \/ Confirm \/ CheckPipe
  PROVE  IInv'
<1> USE ShimAssumption
    DEF IInv, Kept, Routed, Counted, Nameless, World, files, feeder, Refuse, Go, PathSteps, AfterDrain
<1>1. CASE ParseOption
  <2>1. pc' \in {"refused", "parse"} /\ given' \in {"none", "path", "fd"}
        /\ UNCHANGED <<fds, fd, inode, held, late, path, names, size, kind, magic, moves, writer, sent, listable>>
        /\ pc = "parse" /\ (pc' = "refused" => given' = given)
    BY <1>1 DEF ParseOption, parsed
  <2> QED BY <2>1 DEF Table, OnlyOn
<1>2. CASE ParseEnd
  BY <1>2 DEF ParseEnd, Table, OnlyOn
<1>3. CASE Sweep
  <2>1. /\ pc = "sweep" /\ UNCHANGED <<given, pipeFd, fd, inode, held>> /\ World
        /\ pc' = (IF given = "path" THEN "open" ELSE IF given = "fd" THEN "check" ELSE "exec")
    BY <1>3 DEF Sweep, parsed
  <2>2. Table'
    <3> DEFINE keep == {0, 1, 2} \cup (IF given = "fd" THEN {pipeFd} ELSE {})
    <3>1. fds' = IF listable THEN Drop(fds, DOMAIN fds \ keep) ELSE fds
      BY <1>3 DEF Sweep
    <3>2. CASE listable
      <4>1. fds' = [x \in DOMAIN fds \ (DOMAIN fds \ keep) |-> fds[x]]
        BY <3>1, <3>2 DEF Drop
      <4>2. DOMAIN fds' = DOMAIN fds \cap keep /\ \A x \in DOMAIN fds' : fds'[x] = fds[x]
        BY <4>1
      <4>3. OnlyOn({})'
        BY <2>1, <4>2 DEF Table, OnlyOn
      <4>4. Within(IF given = "fd" THEN {pipeFd} ELSE {})'
        BY <2>1, <4>2 DEF Within
      <4> QED BY <2>1, <4>3, <4>4 DEF Table
    <3>3. CASE ~listable
      BY <2>1, <3>1, <3>3 DEF Table, OnlyOn, Within
    <3> QED BY <3>2, <3>3
  <2> QED BY <2>1, <2>2
<1>4. CASE Open
  <2>1. PICK f \in Free : fd' = f /\ fds' = Hold(fds, f, "file", FALSE)
    BY <1>4 DEF Open
  <2>2. /\ pc = "open" /\ pc' = "inspect" /\ inode' = path /\ path # "none"
        /\ UNCHANGED <<given, held>>
    BY <1>4 DEF Open, parsed
  <2>3. DOMAIN fds' = DOMAIN fds \cup {fd'} /\ \A y \in DOMAIN fds \ {fd'} : fds'[y] = fds[y]
    BY <2>1 DEF Hold
  <2>4. Table'
    BY <1>4, <2>2, <2>3 DEF Open, Table, OnlyOn, Within
  <2> QED BY <1>4, <2>2, <2>4 DEF Open
<1>5. CASE OpenFails
  BY <1>5 DEF OpenFails, Table, parsed
<1>6. CASE Inspect
  BY <1>6 DEF Inspect, Table, parsed, OnlyOn, Within
<1>7. CASE Unlink
  BY <1>7 DEF Unlink, Table, parsed, OnlyOn, Within
<1>8. CASE UnlinkFails
  BY <1>8 DEF UnlinkFails, Table, parsed
<1>9. CASE Confirm
  BY <1>9 DEF Confirm, Table, parsed, OnlyOn, Within
<1>10. CASE CheckPipe
  BY <1>10 DEF CheckPipe, Table, parsed, OnlyOn, Within
<1> QED BY <1>1, <1>2, <1>3, <1>4, <1>5, <1>6, <1>7, <1>8, <1>9, <1>10

\* The drain takes no more than there is room for, and ends on all there was.
LEMMA DrainKeepsIInv ==
  ASSUME IInv, DrainRead \/ DrainError \/ DrainBlocked \/ Wake \/ DrainEnd
  PROVE  IInv'
<1> USE ShimAssumption
    DEF IInv, Kept, Routed, Counted, Nameless, World, files, feeder, Refuse, Go, PathSteps, AfterDrain
<1>1. CASE DrainRead
  <2>1. pc = "drain" /\ held <= Cap /\ Available > 0 /\ Available \in Int
    BY <1>1 DEF DrainRead, Available
  <2>2. Room \in Int /\ Room <= Cap + 1 - held /\ Room > 0
    BY <2>1, LesserFacts DEF Room
  <2>3. held' = held + Lesser(Room, Available)
    BY <1>1 DEF DrainRead
  <2>4. held' \in Nat /\ held' <= Cap + 1 /\ held' <= held + Available
    BY <2>1, <2>2, <2>3, LesserFacts
  <2>5. given = "fd" => Available = sent - held
    BY <2>1 DEF Available, Table, Source
  <2>6. /\ pc' \in {"drain", "refused"} /\ (pc' = "drain" => fds' = fds)
        /\ UNCHANGED <<given, pipeFd, fd, inode, path, names, size, moves, writer, sent, listable>>
    BY <1>1 DEF DrainRead, DrainOnly, DrainRefuses, parsed
  <2>7. Table'
    BY <2>1, <2>6 DEF Table, OnlyOn, Within
  <2> QED BY <2>1, <2>4, <2>5, <2>6, <2>7
<1>2. CASE DrainError \/ DrainBlocked \/ Wake
  <2>1. /\ pc \in {"drain", "wait"} /\ pc' \in {"drain", "wait", "refused"}
        /\ (pc' # "refused" => fds' = fds)
        /\ UNCHANGED <<held, given, pipeFd, fd, inode, path, names, size, moves, writer, sent, listable>>
    BY <1>2 DEF DrainError, DrainBlocked, Wake, DrainOnly, DrainRefuses, parsed
  <2>2. Table'
    BY <2>1 DEF Table, OnlyOn, Within
  <2> QED BY <2>1, <2>2
<1>3. CASE DrainEnd
  <2>1. /\ pc = "drain" /\ fds' = Drop(fds, {fd})
        /\ UNCHANGED <<held, given, pipeFd, fd, inode, path, names, size, moves, writer, sent, listable>>
        /\ (held > Cap /\ pc' = "refused") \/ (held <= Cap /\ AtEnd /\ pc' = "copy")
    BY <1>3 DEF DrainEnd, DrainOnly, parsed
  <2>2. given = "fd" /\ AtEnd => sent - held <= 0 /\ ~writer
    BY <2>1 DEF AtEnd, Available, Written, Source, Table
  <2>3. DOMAIN fds' = DOMAIN fds \ {fd} /\ \A x \in DOMAIN fds' : fds'[x] = fds[x]
    BY <2>1 DEF Drop
  <2>4. Table'
    BY <2>1, <2>3 DEF Table, OnlyOn, Within
  <2> QED BY <2>1, <2>2, <2>4
<1> QED BY <1>1, <1>2, <1>3

\* The hand-over puts the copy, and nothing else of the delivery, on the channel.
LEMMA HandOverKeepsIInv ==
  ASSUME IInv, Copy \/ CopyFails \/ Install \/ Exec \/ ExecFails
  PROVE  IInv'
<1> USE ShimAssumption
    DEF IInv, Kept, Routed, Counted, Nameless, World, files, feeder, Refuse, Go, PathSteps, AfterDrain
<1>1. CASE Copy
  <2>1. PICK f \in Free : fd' = f /\ fds' = Hold(fds, f, "copy", FALSE)
    BY <1>1 DEF Copy
  <2>2. DOMAIN fds' = DOMAIN fds \cup {fd'} /\ \A y \in DOMAIN fds \ {fd'} : fds'[y] = fds[y]
    BY <2>1 DEF Hold
  <2>3. Table'
    BY <1>1, <2>2 DEF Copy, Table, OnlyOn, Within, parsed
  <2> QED BY <1>1, <2>3 DEF Copy, parsed
<1>2. CASE CopyFails \/ ExecFails
  BY <1>2 DEF CopyFails, ExecFails, Table, parsed
<1>3. CASE Install
  <2>1. /\ DOMAIN fds' = (DOMAIN fds \ {fd}) \cup {SecretFd}
        /\ fds'[SecretFd] = [what |-> "copy", inherit |-> TRUE]
        /\ \A f \in DOMAIN fds' \ {SecretFd} : f \in DOMAIN fds \ {fd} /\ fds'[f] = fds[f]
    BY <1>3 DEF Install, Hold, Drop
  <2>2. Table'
    BY <1>3, <2>1 DEF Install, Table, OnlyOn, Within, parsed
  <2> QED BY <1>3, <2>2 DEF Install, parsed
<1>4. CASE Exec
  <2>1. /\ \A f \in DOMAIN fds' : f \in DOMAIN fds /\ fds'[f] = fds[f]
        /\ \A f \in DOMAIN fds : fds[f].inherit => f \in DOMAIN fds'
    BY <1>4 DEF Exec, Drop
  <2>2. Table'
    <3>1. pc = "exec" /\ pc' = "child" /\ UNCHANGED <<given, listable, fd>> /\ DOMAIN fds' \subseteq DOMAIN fds
      BY <1>4, <2>1 DEF Exec, parsed
    <3>2. CASE given = "none"
      BY <2>1, <3>1, <3>2 DEF Table, OnlyOn, Within
    <3>3. CASE given # "none"
      <4>1. /\ OnlyOn({SecretFd}) /\ Within({SecretFd}) /\ SecretFd \in DOMAIN fds
            /\ fds[SecretFd] = [what |-> "copy", inherit |-> TRUE]
        BY <3>1, <3>3 DEF Table
      <4>2. SecretFd \in DOMAIN fds' /\ fds'[SecretFd] = [what |-> "copy", inherit |-> TRUE]
        <5>1. fds[SecretFd].inherit = TRUE
          BY <4>1
        <5>2. SecretFd \in DOMAIN fds'
          BY <2>1, <4>1, <5>1
        <5> QED BY <2>1, <4>1, <5>2
      <4>3. OnlyOn({SecretFd})' /\ Within({SecretFd})'
        BY <2>1, <3>1, <4>1 DEF OnlyOn, Within, SecretFd
      <4> QED BY <3>1, <3>3, <4>2, <4>3 DEF Table
    <3> QED BY <3>2, <3>3
  <2> QED BY <1>4, <2>2 DEF Exec, parsed
<1> QED BY <1>1, <1>2, <1>3, <1>4

LEMMA Invariance == Spec => []IInv
<1>1. IInv /\ [Next]_vars => IInv'
  BY OthersKeepIInv, DeliveryKeepsIInv, DrainKeepsIInv, HandOverKeepsIInv DEF Next, Shim
<1> QED BY <1>1, InitIInv, PTL DEF Spec

-----------------------------------------------------------------------------
(* Types.                                                                   *)

\* A descriptor table stays one when entries go.
LEMMA DropTypes ==
  ASSUME NEW T, DOMAIN T \subseteq Nat, \A f \in DOMAIN T : T[f] \in [what : Held, inherit : BOOLEAN], NEW S
  PROVE  /\ DOMAIN Drop(T, S) \subseteq Nat
         /\ \A f \in DOMAIN Drop(T, S) : Drop(T, S)[f] \in [what : Held, inherit : BOOLEAN]
BY DEF Drop

\* It does when one is put on a number.
LEMMA HoldTypes ==
  ASSUME NEW T, DOMAIN T \subseteq Nat, \A f \in DOMAIN T : T[f] \in [what : Held, inherit : BOOLEAN],
         NEW x \in Nat, NEW w \in Held, NEW b \in BOOLEAN
  PROVE  /\ DOMAIN Hold(T, x, w, b) \subseteq Nat
         /\ \A f \in DOMAIN Hold(T, x, w, b) : Hold(T, x, w, b)[f] \in [what : Held, inherit : BOOLEAN]
BY DEF Hold

TableOK == /\ DOMAIN fds \subseteq Nat
           /\ \A f \in DOMAIN fds : fds[f] \in [what : Held, inherit : BOOLEAN]

\* The start is typed.
LEMMA InitTypes == Init => TypeOK
<1> SUFFICES ASSUME Init PROVE TypeOK OBVIOUS
<1>1. PICK t \in Tables : fds = [x \in DOMAIN t |-> [what |-> t[x], inherit |-> TRUE]]
  BY DEF Init
<1>2. TableOK
  BY <1>1, ShimAssumption DEF TableOK, Held
<1>3. PICK f \in Files :
        /\ names = [i \in Inodes |-> IF i = "bundle" THEN f.names ELSE 1]
        /\ size = [i \in Inodes |-> IF i = "bundle" THEN f.size ELSE 1]
        /\ kind = [i \in Inodes |-> IF i = "bundle" THEN f.kind ELSE "regular"]
        /\ magic = f.magic
  BY DEF Init
<1>4. f \in [kind : Kinds, magic : Magics, size : Nat, names : Nat \ {0}]
  BY ShimAssumption
<1>5. names \in [Inodes -> Nat] /\ size \in [Inodes -> Nat] /\ kind \in [Inodes -> Kinds] /\ magic \in Magics
  BY <1>3, <1>4 DEF Kinds
<1>6. MaxFd \in Nat /\ MaxFd > 0 /\ MaxMoves \in Nat
  BY ShimAssumption DEF SecretFd
<1>7. /\ path \in Inodes \cup {"none"} /\ inode \in Inodes
      /\ pipeFd \in 0..MaxFd - 1 /\ moves \in 0..MaxMoves
  BY <1>6 DEF Init, Inodes
<1>8. /\ args \in Argvs /\ at \in Nat \ {0} /\ given \in {"none", "path", "fd"} /\ pc = "parse"
      /\ code \in Codes /\ fd \in Nat /\ held \in Nat /\ sent \in Nat
  BY SMT DEF Init, Codes
<1>9. late \in BOOLEAN /\ writer \in BOOLEAN /\ listable \in BOOLEAN
  BY Zenon DEF Init
<1> QED BY <1>2, <1>5, <1>7, <1>8, <1>9 DEF TypeOK, TableOK

\* Every step keeps the types.
LEMMA OthersKeepTypes ==
  ASSUME IInv, TypeOK, Environment \/ Expire \/ UNCHANGED vars PROVE TypeOK'
<1> USE DEF TypeOK, Others, shim, parsed, files, feeder, Codes
<1>0. MaxMoves \in Nat
  BY ShimAssumption
<1>1. ASSUME NEW i \in Inodes, Link(i) \/ DropName(i) \/ Append1(i) PROVE TypeOK'
  BY <1>0, <1>1 DEF Link, DropName, Append1
<1>2. CASE RenameAway \/ RenameOver
  BY <1>0, <1>2 DEF RenameAway, RenameOver, IInv, Nameless, Inodes
<1>3. CASE Send
  <2>1. sent' \in Nat /\ UNCHANGED <<shim, late, files, writer, listable>>
    BY <1>3 DEF Send
  <2> QED BY <2>1
<1>6. CASE CloseWriter
  <2>1. writer' \in BOOLEAN /\ UNCHANGED <<shim, late, files, sent, listable>>
    BY <1>6 DEF CloseWriter
  <2> QED BY <2>1
<1>4. CASE Expire
  BY <1>4 DEF Expire
<1>5. CASE UNCHANGED vars
  BY <1>5 DEF vars
<1> QED BY <1>1, <1>2, <1>3, <1>4, <1>5, <1>6 DEF Environment

LEMMA ShimKeepsTypes == ASSUME IInv, TypeOK, Shim PROVE TypeOK'
<1> USE DEF World, files, feeder, parsed, Refuse, Go, Codes
<1>0. TableOK
  BY DEF TypeOK, TableOK
<1>1. CASE ParseOption
  <2>1. pipeFd' \in 0..MaxFd - 1 /\ at' \in Nat \ {0} /\ given' \in {"none", "path", "fd"}
        /\ pc' \in {"refused", "parse"} /\ code' \in Codes
        /\ UNCHANGED <<args, command>>
    <3>1. ASSUME NEW v, OptionFault("--secret-pipe-fd", v) = "none"
          PROVE  FdOf[v] \in 0..MaxFd - 1
      BY <3>1 DEF OptionFault, DescriptorOK
    <3>2. \A o, v : OptionFault(o, v) \in Codes
      BY DEF OptionFault
    <3> QED BY <1>1, <3>1, <3>2 DEF ParseOption, TypeOK
  <2> QED BY <1>1, <2>1 DEF ParseOption, TypeOK
<1>2. CASE ParseEnd
  <2>1. pc' \in {"refused", "sweep"} /\ code' \in Codes
    BY <1>2 DEF ParseEnd, TypeOK
  <2> QED BY <1>2, <2>1 DEF ParseEnd, TypeOK
<1>3. CASE Sweep
  <2>1. TableOK'
    BY <1>0, <1>3, DropTypes DEF Sweep, TableOK
  <2> QED BY <1>3, <2>1 DEF Sweep, TypeOK, TableOK
<1>4. CASE Open \/ Copy
  <2>1. PICK f \in Free : fd' = f /\ (fds' = Hold(fds, f, "file", FALSE) \/ fds' = Hold(fds, f, "copy", FALSE))
    BY <1>4 DEF Open, Copy
  <2>2. f \in Nat
    BY ShimAssumption DEF Free
  <2>3. TableOK'
    <3>1. "file" \in Held /\ "copy" \in Held
      BY DEF Held
    <3>2. CASE fds' = Hold(fds, f, "file", FALSE)
      BY <1>0, <2>2, <3>1, <3>2, HoldTypes DEF TableOK
    <3>3. CASE fds' = Hold(fds, f, "copy", FALSE)
      BY <1>0, <2>2, <3>1, <3>3, HoldTypes DEF TableOK
    <3> QED BY <2>1, <3>2, <3>3
  <2> QED BY <1>4, <2>1, <2>2, <2>3 DEF Open, Copy, TypeOK, TableOK
<1>5. CASE Install
  <2>1. TableOK'
    <3>1. "copy" \in Held /\ SecretFd \in Nat
      BY DEF Held, SecretFd
    <3>2. DOMAIN Drop(fds, {fd}) \subseteq Nat
          /\ \A f \in DOMAIN Drop(fds, {fd}) : Drop(fds, {fd})[f] \in [what : Held, inherit : BOOLEAN]
      BY <1>0, DropTypes DEF TableOK
    <3>3. fds' = Hold(Drop(fds, {fd}), SecretFd, "copy", TRUE)
      BY <1>5 DEF Install
    <3> QED BY <3>1, <3>2, <3>3, HoldTypes DEF TableOK
  <2> QED BY <1>5, <2>1 DEF Install, TypeOK, TableOK, SecretFd
<1>6. CASE Inspect
  <2>1. TableOK' /\ FileFault \in Codes
    BY <1>0, <1>6, DropTypes DEF Inspect, TableOK, FileFault
  <2> QED BY <1>6, <2>1 DEF Inspect, TypeOK, TableOK
<1>7. CASE Unlink
  BY <1>7 DEF Unlink, TypeOK, IInv, Nameless
<1>8. CASE UnlinkFails \/ Confirm \/ DrainError \/ DrainBlocked \/ DrainEnd \/ Exec
  <2>1. TableOK'
    BY <1>0, <1>8, DropTypes
       DEF UnlinkFails, Confirm, DrainError, DrainBlocked, DrainEnd, Exec, DrainRefuses, TableOK
  <2> QED BY <1>8, <2>1 DEF UnlinkFails, Confirm, DrainError, DrainBlocked, DrainEnd, Exec, DrainOnly,
                            DrainRefuses, TypeOK, TableOK
<1>9. CASE DrainRead
  <2>1. TableOK' /\ held' \in Nat
    BY <1>0, <1>9, DropTypes, DrainKeepsIInv DEF DrainRead, DrainRefuses, TableOK, IInv, Kept
  <2> QED BY <1>9, <2>1 DEF DrainRead, DrainOnly, DrainRefuses, TypeOK, TableOK
<1>10. CASE OpenFails \/ CheckPipe \/ Wake \/ CopyFails \/ ExecFails
  BY <1>10 DEF OpenFails, CheckPipe, Wake, CopyFails, ExecFails, DrainOnly, TypeOK
<1> QED BY <1>1, <1>2, <1>3, <1>4, <1>5, <1>6, <1>7, <1>8, <1>9, <1>10 DEF Shim

\* Every variable of the shim stays in its set: the descriptor asked for below
\* the limit, the table a table, no count of names below zero.
THEOREM ShimTypes == Spec => []TypeOK
<1>1. IInv /\ TypeOK /\ [Next]_vars => TypeOK'
  BY OthersKeepTypes, ShimKeepsTypes DEF Next
<1> QED BY <1>1, InitTypes, Invariance, PTL DEF Spec

-----------------------------------------------------------------------------
(* The properties.                                                          *)

\* "the cap bound[s] the bytes the child can read" (_drain_descriptor).
THEOREM BundlesAreBounded == Spec => []BundleBounded
<1>1. IInv => BundleBounded
  BY DEF IInv, Counted, BundleBounded, AfterDrain
<1> QED BY <1>1, Invariance, PTL

\* A bundle from the pipe is all of it (_drain_descriptor).
THEOREM BundlesAreWhole == Spec => []BundleWhole
<1>1. IInv => BundleWhole
  BY DEF IInv, Counted, BundleWhole, AfterDrain
<1> QED BY <1>1, Invariance, PTL

\* "nothing readable is left behind" (_open_secret_path).
THEOREM NothingIsLeftBehind == Spec => []NoNameLeft
<1>1. IInv => NoNameLeft
  BY DEF IInv, Nameless, NoNameLeft, AfterDrain
<1> QED BY <1>1, Invariance, PTL

\* The child gets the channel when it was asked for and no other of the
\* descriptors in play (close_stray_descriptors, _install_secret_channel).
THEOREM OnlyTheChannelIsInherited == Spec => []ChildInherits
<1>1. IInv => ChildInherits
  <2> SUFFICES ASSUME IInv, pc = "child" PROVE ChildInherits
    BY DEF ChildInherits
  <2>1. CASE given = "none"
    BY <2>1 DEF IInv, Table, OnlyOn, Within, ChildInherits, SecretFd
  <2>2. CASE given # "none"
    BY <2>2 DEF IInv, Table, OnlyOn, Within, ChildInherits
  <2> QED BY <2>1, <2>2
<1> QED BY <1>1, Invariance, PTL

-----------------------------------------------------------------------------
(* The command line.                                                        *)

\* The tokens before at are m pairs of an option and its value.
Pairs(m) == /\ at = 2*m + 1 /\ 2*m <= Len(args)
            /\ \A j \in 1..m : args[2*j - 1] \in Options

\* The deliveries named before a position, and whether they are the one given.
Named(k) == {j \in 1..k - 1 : j % 2 = 1 /\ args[j] \in DeliveryOptions}
NamedOnce(k) == IF given = "none" THEN Named(k) = {} ELSE \E j \in Named(k) : Named(k) = {j}

CommandHonoured ==
  \E k \in 1..Len(args) :
    BeginsCommand(k) /\ command = SubSeq(args, k, Len(args)) /\ NamedOnce(k)

\* What has been parsed so far, and that it is final once the sweep is reached.
ArgvIInv ==
  /\ args \in Seq(STRING)
  /\ pc = "parse" => NamedOnce(at) /\ \E m \in 0..Len(args) : Pairs(m)
  /\ pc \notin {"parse", "refused"} => CommandHonoured

\* An option that is taken is named once, and keeps the pairs.
LEMMA ParseOptionKeepsArgv == ASSUME ArgvIInv, ParseOption PROVE ArgvIInv'
<1>1. PICK m \in 0..Len(args) : Pairs(m) BY DEF ArgvIInv, ParseOption
<1>2. args \in Seq(STRING) /\ args' = args /\ Len(args) \in Nat BY DEF ArgvIInv, ParseOption, parsed
<1>3. CASE pc' = "refused" BY <1>2, <1>3 DEF ArgvIInv
<1>4. CASE pc' # "refused"
  <2>1. /\ pc = "parse" /\ pc' = "parse" /\ args[at] \in Options /\ at < Len(args) /\ at' = at + 2
        /\ OptionFault(args[at], args[at + 1]) = "none"
        /\ given' = IF args[at] = "--secret-path" THEN "path"
                    ELSE IF args[at] = "--secret-pipe-fd" THEN "fd" ELSE given
    BY <1>1, <1>2, <1>4 DEF ParseOption, Refuse, Go, Pairs
  <2>2. Pairs(m + 1)' BY <1>1, <1>2, <2>1 DEF Pairs
  <2>3. m + 1 \in 0..Len(args) BY <1>1, <1>2, <2>1 DEF Pairs
  <2>4. at \in Nat /\ at % 2 = 1 /\ (at + 1) % 2 = 0 BY <1>1, <1>2 DEF Pairs
  <2>5. Named(at)' = Named(at) \cup (IF args[at] \in DeliveryOptions THEN {at} ELSE {})
    <3>1. 1..at' - 1 = 1..at - 1 \cup {at, at + 1} BY <2>1, <2>4
    <3> QED BY <1>2, <2>4, <3>1 DEF Named
  <2>6. NamedOnce(at)'
    <3>1. CASE args[at] \in DeliveryOptions
      <4>1. given = "none" /\ given' # "none"
        BY <2>1, <3>1 DEF OptionFault, DeliveryOptions
      <4> QED BY <2>1, <2>5, <3>1, <4>1 DEF NamedOnce, ArgvIInv
    <3>2. CASE args[at] \notin DeliveryOptions
      <4>1. given' = given BY <2>1, <3>2 DEF DeliveryOptions
      <4> QED BY <2>1, <2>5, <3>2, <4>1 DEF NamedOnce, ArgvIInv
    <3> QED BY <3>1, <3>2
  <2> QED BY <1>2, <2>1, <2>2, <2>3, <2>6 DEF ArgvIInv
<1> QED BY <1>3, <1>4

\* Where the options end the command begins.
LEMMA ParseEndKeepsArgv == ASSUME ArgvIInv, ParseEnd PROVE ArgvIInv'
<1>1. PICK m \in 0..Len(args) : Pairs(m) BY DEF ArgvIInv, ParseEnd
<1>2. /\ args \in Seq(STRING) /\ args' = args /\ at' = at /\ given' = given
      /\ Len(args) \in Nat /\ at \in Nat /\ pc = "parse"
  BY <1>1 DEF ArgvIInv, ParseEnd, Pairs
<1>3. CASE pc' = "refused" BY <1>2, <1>3 DEF ArgvIInv
<1>4. CASE pc' # "refused"
  <2> DEFINE first == IF at <= Len(args) /\ args[at] = "--" THEN at + 1 ELSE at
  <2>1. first <= Len(args) /\ command' = SubSeq(args, first, Len(args)) /\ pc' = "sweep"
    <3>1. ~(first > Len(args)) /\ command' = SubSeq(args, first, Len(args)) /\ pc' = "sweep"
      BY <1>4, Zenon DEF ParseEnd, Refuse, Go
    <3>2. first \in Nat BY <1>2
    <3> HIDE DEF first
    <3> QED BY <1>2, <3>1, <3>2
  <2>2. at <= Len(args) /\ args[at] \notin Options BY <1>2, <2>1 DEF ParseEnd
  <2>3. PICK k \in 1..Len(args) : k = first BY <1>1, <1>2, <2>1 DEF Pairs
  <2>4. BeginsCommand(k)' BY <1>1, <1>2, <2>2, <2>3 DEF BeginsCommand, Pairs
  <2>5. Named(k) = Named(at)
    <3>1. k = at \/ (k = at + 1 /\ args[at] \notin DeliveryOptions)
      BY <2>2, <2>3 DEF Options
    <3> QED BY <1>2, <3>1 DEF Named
  <2>6. NamedOnce(k)' BY <1>2, <2>5 DEF NamedOnce, Named, ArgvIInv
  <2> HIDE DEF first
  <2>7. CommandHonoured' BY <1>2, <2>1, <2>3, <2>4, <2>6 DEF CommandHonoured
  <2> QED BY <1>2, <2>1, <2>7 DEF ArgvIInv
<1> QED BY <1>3, <1>4

\* Nothing after it looks at the line again.
LEMMA ElseKeepsArgv ==
  ASSUME ArgvIInv, UNCHANGED parsed,
         pc' = pc \/ pc' = "refused" \/ (pc # "parse" /\ pc # "refused" /\ pc' # "parse")
  PROVE  ArgvIInv'
<1>1. UNCHANGED <<args, at, given, command>> BY DEF parsed
<1>2. CommandHonoured' = CommandHonoured /\ NamedOnce(at)' = NamedOnce(at)
  BY <1>1, Zenon DEF CommandHonoured, BeginsCommand, NamedOnce, Named
<1>3. (\E m \in 0..Len(args) : Pairs(m))' = (\E m \in 0..Len(args) : Pairs(m))
  BY <1>1, Zenon DEF Pairs
<1> QED BY <1>1, <1>2, <1>3 DEF ArgvIInv

\* Every step keeps what was parsed.
LEMMA StepKeepsArgv == ASSUME ArgvIInv, [Next]_vars PROVE ArgvIInv'
<1>1. CASE ParseOption \/ ParseEnd BY <1>1, ParseOptionKeepsArgv, ParseEndKeepsArgv
<1>2. CASE Environment \/ Expire \/ UNCHANGED vars
  <2>1. UNCHANGED shim
    BY <1>2 DEF Environment, Link, DropName, Append1, RenameAway, RenameOver, Others, Send,
       CloseWriter, Expire, vars
  <2> QED BY <2>1, ElseKeepsArgv DEF shim
<1>3. CASE Sweep \/ Open \/ OpenFails \/ Inspect \/ Unlink \/ UnlinkFails \/ Confirm \/ CheckPipe
  BY <1>3, ElseKeepsArgv
     DEF Sweep, Open, OpenFails, Inspect, Unlink, UnlinkFails, Confirm, CheckPipe, Refuse, Go
<1>4. CASE DrainRead \/ DrainError \/ DrainBlocked \/ Wake \/ DrainEnd \/ Copy \/ CopyFails
           \/ Install \/ Exec \/ ExecFails
  BY <1>4, ElseKeepsArgv
     DEF DrainRead, DrainError, DrainBlocked, Wake, DrainEnd, DrainOnly, DrainRefuses, Copy,
         CopyFails, Install, Exec, ExecFails, Refuse, Go
<1> QED BY <1>1, <1>2, <1>3, <1>4 DEF Next, Shim

\* What was parsed holds in every reachable state.
THEOREM ArgvInvariance == Spec => []ArgvIInv
<1>1. Init => ArgvIInv
  <2> SUFFICES ASSUME Init PROVE ArgvIInv OBVIOUS
  <2>1. args \in Seq(STRING) /\ at = 1 /\ given = "none" /\ pc = "parse"
    BY ShimAssumption DEF Init
  <2>2. Pairs(0) /\ 0 \in 0..Len(args) BY <2>1 DEF Pairs
  <2>3. NamedOnce(at) BY <2>1 DEF NamedOnce, Named
  <2> QED BY <2>1, <2>2, <2>3 DEF ArgvIInv
<1> QED BY <1>1, StepKeepsArgv, PTL DEF Spec

\* container_entry.py:243-330: the child runs the rest of the line as it stands,
\* with the channel exactly if one delivery was named before it, and inherits the
\* descriptors it was promised.
THEOREM StartsAsAsked == Spec => []ChildAsAsked
<1>1. ArgvIInv => ArgvHonoured
  BY DEF ArgvIInv, CommandHonoured, ArgvHonoured, NamedOnce, Named
<1> QED BY <1>1, ArgvInvariance, OnlyTheChannelIsInherited, PTL DEF ChildAsAsked

-----------------------------------------------------------------------------
(* The shim ends: each step of its own leaves it less to do.                *)

\* The drain would not wait: there is something to read, an end or a deadline.
Ready == Available > 0 \/ AtEnd \/ late \/ Source = "pipeW"

\* What is left to do: the tokens not looked at, the places to come, and for each
\* block there is room for a wait, a wake and a read.
Draining == 4 + 3 * (Cap + 1 - held)
Places == 3 * Cap + 18

StepsLeft ==
  CASE pc = "parse" -> Places + Len(args) - at
    [] pc = "sweep" -> Places - 3
    [] pc \in {"open", "check"} -> Places - 4
    [] pc = "inspect" -> Places - 5
    [] pc = "unlink" -> Places - 6
    [] pc = "confirm" -> Places - 7
    [] pc = "drain" -> Draining + (IF Ready THEN 0 ELSE 2)
    [] pc = "wait" -> Draining + 1
    [] pc = "copy" -> 3
    [] pc = "install" -> 2
    [] pc = "exec" -> 1
    [] OTHER -> 0

\* What StepsLeft is made of are numbers; parsing looks no further than the line.
LEMMA LeftIsNumber ==
  ASSUME IInv, ArgvIInv, TypeOK
  PROVE  /\ held \in Nat /\ Cap \in Nat /\ held <= Cap + 1 /\ at \in Nat /\ Len(args) \in Nat
         /\ pc = "parse" => at <= Len(args) + 1
         /\ StepsLeft \in Nat
<1>1. held \in Nat /\ Cap \in Nat /\ held <= Cap + 1 /\ at \in Nat /\ Len(args) \in Nat
  BY ShimAssumption DEF IInv, Kept, Counted, ArgvIInv, TypeOK
<1>2. pc = "parse" => at <= Len(args) + 1
  BY <1>1 DEF ArgvIInv, Pairs
<1>3. StepsLeft \in Nat
  <2>1. CASE pc = "parse"
    BY <1>1, <1>2, <2>1 DEF StepsLeft, Places
  <2>2. CASE pc \in {"drain", "wait"}
    <3>1. CASE Ready BY <1>1, <2>2, <3>1 DEF StepsLeft, Draining
    <3>2. CASE ~Ready BY <1>1, <2>2, <3>2 DEF StepsLeft, Draining
    <3> QED BY <3>1, <3>2
  <2>3. CASE pc \in {"sweep", "open", "check"} \cup PathSteps
    <3>1. CASE pc \in {"sweep", "open", "check"} BY <1>1, <3>1 DEF StepsLeft, Places
    <3>2. CASE pc \in {"inspect", "unlink", "confirm"} BY <1>1, <3>2 DEF StepsLeft, Places
    <3> QED BY <2>3, <3>1, <3>2 DEF PathSteps
  <2>4. CASE pc \in AfterDrain \cup {"refused"}
    BY <2>4 DEF StepsLeft, AfterDrain
  <2> QED BY <2>1, <2>2, <2>3, <2>4 DEF TypeOK, PathSteps, AfterDrain
<1> QED BY <1>1, <1>2, <1>3

\* A step of the shim before the drain leaves it less to do.
LEMMA DeliveryLeavesLess ==
  ASSUME IInv, ArgvIInv, TypeOK,
         ParseOption \/ ParseEnd \/ Sweep \/ Open \/ OpenFails \/ Inspect \/ Unlink \/ UnlinkFails
         \/ Confirm \/ CheckPipe
  PROVE  StepsLeft' < StepsLeft
<1>1. /\ held \in Nat /\ Cap \in Nat /\ held <= Cap + 1 /\ at \in Nat /\ Len(args) \in Nat
      /\ pc = "parse" => at <= Len(args) + 1
  BY LeftIsNumber
<1>2. CASE ParseOption
  <2>1. /\ pc = "parse" /\ pc' \in {"parse", "refused"} /\ args' = args
        /\ pc' = "parse" => at' = at + 2
    BY <1>2 DEF ParseOption, Refuse, Go, parsed
  <2> QED BY <1>1, <2>1 DEF StepsLeft, Places
<1>3. CASE ParseEnd
  <2>1. pc = "parse" /\ pc' \in {"sweep", "refused"} BY <1>3 DEF ParseEnd, Refuse, Go
  <2> QED BY <1>1, <2>1 DEF StepsLeft, Places
<1>4. CASE Sweep
  <2>1. pc = "sweep" /\ pc' \in {"open", "check", "exec"} BY <1>4 DEF Sweep, Go
  <2> QED BY <1>1, <2>1 DEF StepsLeft, Places
<1>5. CASE Open \/ OpenFails
  <2>1. pc = "open" /\ pc' \in {"inspect", "refused"} BY <1>5 DEF Open, OpenFails, Refuse, Go
  <2> QED BY <1>1, <2>1 DEF StepsLeft, Places
<1>6. CASE Inspect
  <2>1. pc = "inspect" /\ pc' \in {"unlink", "refused"} BY <1>6 DEF Inspect, Refuse, Go
  <2> QED BY <1>1, <2>1 DEF StepsLeft, Places
<1>7. CASE Unlink \/ UnlinkFails
  <2>1. pc = "unlink" /\ pc' \in {"confirm", "refused"} BY <1>7 DEF Unlink, UnlinkFails, Refuse, Go
  <2> QED BY <1>1, <2>1 DEF StepsLeft, Places
<1>8. CASE Confirm \/ CheckPipe
  <2>1. /\ pc \in {"confirm", "check"} /\ pc' \in {"drain", "refused"} /\ held' = held /\ held = 0
    BY <1>8 DEF Confirm, CheckPipe, Refuse, Go, IInv, Routed, PathSteps
  <2>2. CASE pc' = "refused" BY <1>1, <2>1, <2>2 DEF StepsLeft, Places
  <2>3. CASE pc' = "drain" /\ Ready' BY <1>1, <2>1, <2>3 DEF StepsLeft, Places, Draining
  <2>4. CASE pc' = "drain" /\ ~Ready' BY <1>1, <2>1, <2>4 DEF StepsLeft, Places, Draining
  <2> QED BY <2>1, <2>2, <2>3, <2>4
<1> QED BY <1>2, <1>3, <1>4, <1>5, <1>6, <1>7, <1>8

\* A turn of the drain does: a wait is not entered again before a block was read.
LEMMA DrainLeavesLess ==
  ASSUME IInv, IInv', ArgvIInv, TypeOK, DrainRead \/ DrainError \/ DrainBlocked \/ Wake \/ DrainEnd
  PROVE  StepsLeft' < StepsLeft
<1>1. held \in Nat /\ Cap \in Nat /\ held <= Cap + 1
  BY LeftIsNumber
<1>2. held' \in Nat /\ held' <= Cap + 1
  BY DEF IInv, Kept, Counted
<1>3. CASE DrainRead
  <2>1. pc = "drain" /\ held <= Cap /\ Available > 0 /\ Available \in Int
    BY <1>3 DEF DrainRead, Available, IInv, Kept
  <2>2. Room \in Int /\ Room > 0
    BY <1>1, <2>1, LesserFacts, ShimAssumption DEF Room
  <2>3. held' = held + Lesser(Room, Available) /\ Lesser(Room, Available) \in {Room, Available}
    BY <1>3, <2>1, <2>2, LesserFacts DEF DrainRead
  <2>4. held' >= held + 1 BY <1>1, <2>1, <2>2, <2>3
  <2>5. pc' \in {"drain", "refused"} BY <1>3 DEF DrainRead, DrainRefuses, Refuse, Go
  <2>6. CASE pc' = "refused"
    BY <1>1, <2>1, <2>6 DEF StepsLeft, Draining
  <2>7. CASE pc' = "drain"
    <3>1. CASE Ready /\ Ready' BY <1>1, <1>2, <2>1, <2>4, <2>7, <3>1 DEF StepsLeft, Draining
    <3>2. CASE Ready /\ ~Ready' BY <1>1, <1>2, <2>1, <2>4, <2>7, <3>2 DEF StepsLeft, Draining
    <3>3. CASE ~Ready /\ Ready' BY <1>1, <1>2, <2>1, <2>4, <2>7, <3>3 DEF StepsLeft, Draining
    <3>4. CASE ~Ready /\ ~Ready' BY <1>1, <1>2, <2>1, <2>4, <2>7, <3>4 DEF StepsLeft, Draining
    <3> QED BY <3>1, <3>2, <3>3, <3>4
  <2> QED BY <2>5, <2>6, <2>7
<1>4. CASE DrainError \/ DrainEnd
  <2>1. pc = "drain" /\ pc' \in {"refused", "copy"}
    BY <1>4 DEF DrainError, DrainEnd, DrainRefuses, Refuse, Go
  <2> QED BY <1>1, <2>1 DEF StepsLeft, Draining
<1>5. CASE DrainBlocked
  <2>1. /\ pc = "drain" /\ held' = held /\ held <= Cap
        /\ pc' = "refused" \/ (pc' = "wait" /\ ~late /\ ~AtEnd /\ Available <= 0 /\ Source = "pipeR")
    BY <1>5 DEF DrainBlocked, DrainRefuses, Refuse, Go
  <2>2. Available \in Int BY DEF Available, IInv, Kept
  <2>3. pc' = "wait" => ~Ready BY <2>1, <2>2 DEF Ready
  <2> QED BY <1>1, <2>1, <2>3 DEF StepsLeft, Draining
<1>6. CASE Wake
  <2>1. pc = "wait" /\ pc' = "drain" /\ UNCHANGED <<held, fds, fd, late, size, inode, sent, writer>> /\ Ready
    BY <1>6 DEF Wake, Ready, Go, DrainOnly, World, files, feeder
  <2>2. Ready' BY <2>1 DEF Ready, Available, AtEnd, Source, Written
  <2> QED BY <1>1, <2>1, <2>2 DEF StepsLeft, Draining
<1> QED BY <1>3, <1>4, <1>5, <1>6

\* What the others do, or time, sends the shim nowhere: a drain that would not wait
\* still would not.
LEMMA OthersLeaveIt ==
  ASSUME IInv, ArgvIInv, TypeOK, Environment \/ Expire
  PROVE  StepsLeft' <= StepsLeft
<1>1. held \in Nat /\ Cap \in Nat /\ held <= Cap + 1 /\ StepsLeft \in Nat
  BY LeftIsNumber
<1>2. UNCHANGED shim
  BY DEF Environment, Expire, Link, DropName, Append1, RenameAway, RenameOver, Others, Send, CloseWriter
<1>3. UNCHANGED <<args, at, pc, held, fds, fd, inode>>
  BY <1>2 DEF shim, parsed
<1>4. sent \in Nat /\ size \in [Inodes -> Nat] /\ inode \in Inodes
  BY DEF IInv, Kept
<1>5. ASSUME Ready PROVE Ready'
  <2>1. CASE Source = "file"
    <3>1. size' \in [Inodes -> Nat] /\ Source' = "file"
      BY <1>3, <2>1, OthersKeepIInv DEF IInv, Kept, Source
    <3>2. Available' \in Int BY <1>1, <1>3, <1>4, <3>1 DEF Available
    <3> QED BY <3>1, <3>2 DEF Ready, AtEnd
  <2>2. CASE Source # "file"
    <3>1. Available = sent - held /\ Available' = sent' - held
      BY <1>3, <2>2 DEF Available, Source
    <3>2. \/ sent' = sent /\ writer' = writer
          \/ sent' = sent + 1 /\ writer' = writer /\ writer = TRUE
          \/ sent' = sent /\ writer' = FALSE
      BY DEF Environment, Expire, Link, DropName, Append1, RenameAway, RenameOver, Others, Send,
             CloseWriter, feeder
    <3>3. late => late'
      BY DEF Environment, Expire, Link, DropName, Append1, RenameAway, RenameOver, Others, Send,
             CloseWriter
    <3>4. Source' = Source /\ (Written' => Written)
      BY <1>3, <3>2 DEF Source, Written, IInv, Kept
    <3>5. CASE late \/ Source = "pipeW" BY <3>3, <3>4, <3>5 DEF Ready
    <3>6. CASE Available > 0 BY <1>1, <1>4, <3>1, <3>2, <3>6 DEF Ready
    <3>7. CASE AtEnd
      <4>1. Available <= 0 /\ ~Written BY <2>2, <3>7 DEF AtEnd
      <4>2. sent' = sent BY <3>2, <4>1 DEF Written
      <4> QED BY <3>1, <3>4, <4>1, <4>2 DEF Ready, AtEnd
    <3> QED BY <1>5, <3>5, <3>6, <3>7 DEF Ready
  <2> QED BY <2>1, <2>2
<1> QED BY <1>1, <1>3, <1>5 DEF StepsLeft, Draining, Places

\* Every step of the shim leaves it less to do, and no other gives it more.
LEMMA StepLeavesLess ==
  ASSUME IInv, IInv', ArgvIInv, ArgvIInv', TypeOK, TypeOK', Next
  PROVE  (Shim => StepsLeft' < StepsLeft) /\ StepsLeft' <= StepsLeft
<1>1. StepsLeft \in Nat BY LeftIsNumber
<1>2. held' \in Nat /\ Cap \in Nat /\ held' <= Cap + 1 /\ at' \in Nat /\ Len(args') \in Nat
  BY ShimAssumption DEF IInv, Kept, Counted, ArgvIInv, TypeOK
<1>3. StepsLeft' \in Int
  <2>1. CASE pc' = "parse"
    BY <1>2, <2>1 DEF StepsLeft, Places
  <2>2. CASE pc' \in {"drain", "wait"}
    <3>1. CASE Ready' BY <1>2, <2>2, <3>1 DEF StepsLeft, Draining
    <3>2. CASE ~Ready' BY <1>2, <2>2, <3>2 DEF StepsLeft, Draining
    <3> QED BY <3>1, <3>2
  <2>3. CASE pc' \in {"sweep", "open", "check"} \cup PathSteps
    <3>1. CASE pc' \in {"sweep", "open", "check"} BY <1>2, <3>1 DEF StepsLeft, Places
    <3>2. CASE pc' \in {"inspect", "unlink", "confirm"} BY <1>2, <3>2 DEF StepsLeft, Places
    <3> QED BY <2>3, <3>1, <3>2 DEF PathSteps
  <2>4. CASE pc' \in AfterDrain \cup {"refused"}
    BY <2>4 DEF StepsLeft, AfterDrain
  <2> QED BY <2>1, <2>2, <2>3, <2>4 DEF TypeOK, PathSteps, AfterDrain
<1>4. Shim => StepsLeft' < StepsLeft
  <2>1. CASE Copy \/ CopyFails \/ Install \/ Exec \/ ExecFails
    <3>1. \/ pc = "copy" /\ pc' \in {"install", "refused"}
          \/ pc = "install" /\ pc' = "exec"
          \/ pc = "exec" /\ pc' \in {"child", "refused"}
      BY <2>1 DEF Copy, CopyFails, Install, Exec, ExecFails, Refuse, Go
    <3> QED BY <3>1 DEF StepsLeft
  <2> QED BY <2>1, DeliveryLeavesLess, DrainLeavesLess DEF Shim
<1>5. CASE Shim BY <1>1, <1>3, <1>4, <1>5
<1>6. CASE ~Shim BY <1>4, <1>6, OthersLeaveIt DEF Next
<1> QED BY <1>4, <1>5, <1>6

\* container_entry.py: whoever writes, stalls or holds a pipe open, the shim itself
\* does no more steps than its command line and the cap give it at the start.
THEOREM ShimRunsOut ==
  Spec => [](StepsLeft \in Nat) /\ [][(Shim => StepsLeft' < StepsLeft) /\ StepsLeft' <= StepsLeft]_vars
<1>1. IInv /\ ArgvIInv /\ TypeOK => StepsLeft \in Nat BY LeftIsNumber
<1>2. IInv /\ IInv' /\ ArgvIInv /\ ArgvIInv' /\ TypeOK /\ TypeOK' /\ [Next]_vars
        => [(Shim => StepsLeft' < StepsLeft) /\ StepsLeft' <= StepsLeft]_vars
  BY StepLeavesLess
<1> QED BY <1>1, <1>2, Invariance, ArgvInvariance, ShimTypes, PTL DEF Spec
=============================================================================
