--------------------------- MODULE ContainerEntry ---------------------------
(***************************************************************************)
(* The shim an image names as its entrypoint (container_entry.py): it      *)
(* splits its options from the command, closes the descriptors the         *)
(* container runtime left, takes the credential bundle from a file on a    *)
(* memory-backed mount or from a pipe, leaves a copy of it on descriptor   *)
(* 3, and becomes the command.                                             *)
(*                                                                         *)
(* While it works, others rename, link, append to and remove what the path *)
(* names, and the far end of the pipe writes when it likes, stalls or      *)
(* closes.  A bundle is counted in blocks and read in the order written.   *)
(***************************************************************************)
EXTENDS Integers, Sequences

CONSTANTS
  Argvs,     \* command lines
  FdOf,      \* the tokens that spell an integer, and which
  Timeouts,  \* the tokens _parse_timeout accepts
  MaxFd,     \* _max_descriptor: descriptor numbers are below it
  Tables,    \* descriptors a container runtime may hand over
  Files,     \* what the path may name at first
  Cap,       \* MAX_SECRET_BUNDLE_BYTES
  Chunk,     \* _READ_CHUNK
  PipeSize,  \* what a pipe's buffer holds
  MaxSent,   \* bound: blocks the pipe's writer sends
  MaxMoves   \* bound: steps others take on the file system

Inodes == {"bundle", "other"}
Kinds == {"regular", "special"}   \* a FIFO, a directory, a device
Magics == {"memory", "disk", "unknown"}
Held == {"std", "stray", "pipeR", "pipeW", "file", "copy"}
SecretFd == 3                     \* SECRET_CHANNEL_FD

ASSUME ShimAssumption ==
  /\ Cap \in Nat /\ Chunk \in Nat \ {0} /\ PipeSize \in Nat \ {0}
  /\ MaxSent \in Nat /\ MaxMoves \in Nat
  /\ MaxFd \in Nat /\ MaxFd > SecretFd
  /\ \A t \in DOMAIN FdOf : FdOf[t] \in Int
  /\ \A a \in Argvs : a \in Seq(STRING)
  /\ \A t \in Tables : /\ DOMAIN t \subseteq 0..MaxFd - 1
                       /\ \A f \in DOMAIN t : t[f] \in {"std", "stray", "pipeR", "pipeW"}
  /\ Files \subseteq [kind : Kinds, magic : Magics, size : Nat, names : Nat \ {0}]

VARIABLES
  args, at,    \* the command line, and the token _parse_argv looks at
  given,       \* the delivery asked for: "none", "path" or "fd"
  pipeFd,      \* --secret-pipe-fd
  command,
  pc, code,    \* where the shim is, and what it refused with
  fds,         \* the descriptor table: what is held, and is it inherited
  fd,          \* the descriptor the delivery is on
  inode,       \* the file that was opened
  held,        \* blocks read
  late,        \* the drain's deadline has passed
  path,        \* the file the delivery path names
  names,       \* how many names each file has
  size, kind, magic,
  moves,
  writer, sent,\* the executor's end of the pipe: open, and blocks written
  listable     \* the platform has a directory of open descriptors

parsed == <<args, at, given, pipeFd, command>>
files == <<path, names, size, kind, magic, moves>>
feeder == <<writer, sent>>
shim == <<parsed, pc, code, fds, fd, inode, held>>
vars == <<shim, late, files, feeder, listable>>

Drop(f, S) == [x \in DOMAIN f \ S |-> f[x]]
Hold(f, x, what, inherit) ==
  [y \in DOMAIN f \cup {x} |-> IF y = x THEN [what |-> what, inherit |-> inherit] ELSE f[y]]
\* The kernel gives out the lowest number free.
Free == {f \in 0..MaxFd - 1 : f \notin DOMAIN fds /\ 0..f - 1 \subseteq DOMAIN fds}

Init ==
  /\ args \in Argvs /\ at = 1 /\ given = "none" /\ pipeFd = 0 /\ command = <<>>
  /\ pc = "parse" /\ code = "none"
  /\ \E t \in Tables : fds = [f \in DOMAIN t |-> [what |-> t[f], inherit |-> TRUE]]
  /\ fd = 0 /\ inode = "bundle" /\ held = 0 /\ late = FALSE
  /\ path = "bundle" /\ moves = 0
  /\ \E f \in Files :
       /\ names = [i \in Inodes |-> IF i = "bundle" THEN f.names ELSE 1]
       /\ size = [i \in Inodes |-> IF i = "bundle" THEN f.size ELSE 1]
       /\ kind = [i \in Inodes |-> IF i = "bundle" THEN f.kind ELSE "regular"]
       /\ magic = f.magic
  /\ writer = TRUE /\ sent = 0
  /\ listable \in BOOLEAN

-----------------------------------------------------------------------------
(* Others on the delivery directory, and the pipe's writer.                 *)

Others(A) == /\ given = "path" /\ moves < MaxMoves /\ A
             /\ moves' = moves + 1
             /\ UNCHANGED <<shim, late, feeder, listable, kind, magic>>

\* A file without a name cannot be given one again.
Link(i) == Others(/\ names[i] = 1 /\ names' = [names EXCEPT ![i] = 2]
                  /\ UNCHANGED <<path, size>>)
RenameAway == Others(/\ path # "none" /\ path' = "none" /\ UNCHANGED <<names, size>>)
RenameOver == Others(/\ path # "other" /\ names["other"] > 0 /\ path' = "other"
                     /\ names' = IF path = "none" THEN names ELSE [names EXCEPT ![path] = @ - 1]
                     /\ UNCHANGED size)
DropName(i) == Others(/\ names[i] > (IF path = i THEN 1 ELSE 0)
                      /\ names' = [names EXCEPT ![i] = @ - 1] /\ UNCHANGED <<path, size>>)
Append1(i) == Others(size' = [size EXCEPT ![i] = @ + 1] /\ UNCHANGED <<path, names>>)

Send == /\ given = "fd" /\ writer /\ sent < MaxSent /\ sent - held < PipeSize
        /\ sent' = sent + 1
        /\ UNCHANGED <<shim, late, files, writer, listable>>
CloseWriter == /\ given = "fd" /\ writer /\ writer' = FALSE
               /\ UNCHANGED <<shim, late, files, sent, listable>>

\* The deadline is set as the drain begins.
Expire == /\ pc \in {"drain", "wait"} /\ ~late /\ late' = TRUE
          /\ UNCHANGED <<shim, files, feeder, listable>>

-----------------------------------------------------------------------------
(* The command line: _parse_argv.                                           *)

DeliveryOptions == {"--secret-path", "--secret-pipe-fd"}
Options == DeliveryOptions \cup {"--secret-pipe-timeout"}

World == UNCHANGED <<late, files, feeder, listable>>
Refuse(c) == pc' = "refused" /\ code' = c
Go(to) == pc' = to /\ UNCHANGED code

DescriptorOK(t) == t \in DOMAIN FdOf /\ FdOf[t] \in 0..MaxFd - 1

OptionFault(option, value) ==
  IF option = "--secret-pipe-timeout"
  THEN IF value \in Timeouts THEN "none" ELSE "invalid_option_value"
  ELSE IF given # "none" THEN "conflicting_secret_delivery"
  ELSE IF option = "--secret-pipe-fd" /\ ~DescriptorOK(value) THEN "secret_pipe_fd_invalid"
  ELSE "none"

ParseOption ==
  /\ pc = "parse" /\ at <= Len(args) /\ args[at] \in Options
  /\ IF at = Len(args)
     THEN Refuse("missing_option_value") /\ UNCHANGED parsed
     ELSE LET value == args[at + 1]
              fault == OptionFault(args[at], value)
          IN IF fault # "none" THEN Refuse(fault) /\ UNCHANGED parsed
             ELSE /\ at' = at + 2 /\ Go("parse") /\ UNCHANGED <<args, command>>
                  /\ given' = IF args[at] = "--secret-path" THEN "path"
                              ELSE IF args[at] = "--secret-pipe-fd" THEN "fd" ELSE given
                  /\ pipeFd' = IF args[at] = "--secret-pipe-fd" THEN FdOf[value] ELSE pipeFd
  /\ UNCHANGED <<fds, fd, inode, held>> /\ World

\* "--" ends the options; so does the first token that is not one.
ParseEnd ==
  /\ pc = "parse" /\ (at <= Len(args) => args[at] \notin Options)
  /\ LET first == IF at <= Len(args) /\ args[at] = "--" THEN at + 1 ELSE at
     IN IF first > Len(args) THEN Refuse("no_command") /\ UNCHANGED command
        ELSE command' = SubSeq(args, first, Len(args)) /\ Go("sweep")
  /\ UNCHANGED <<args, at, given, pipeFd, fds, fd, inode, held>> /\ World

-----------------------------------------------------------------------------
(* The descriptors, the path, the pipe.                                     *)

Sweep_KeepsFifos ==
  LET keep == {0, 1, 2} \cup {f \in DOMAIN fds : fds[f].what \in {"pipeR", "pipeW"}}
  IN /\ pc = "sweep"
     /\ fds' = IF listable THEN Drop(fds, DOMAIN fds \ keep) ELSE fds
     /\ Go(IF given = "path" THEN "open" ELSE IF given = "fd" THEN "check" ELSE "exec")
     /\ UNCHANGED <<parsed, fd, inode, held>> /\ World
\* Nothing is closed where there is no directory of descriptors to list.
Sweep ==
  LET keep == {0, 1, 2} \cup (IF given = "fd" THEN {pipeFd} ELSE {})
  IN /\ pc = "sweep"
     /\ fds' = IF listable THEN Drop(fds, DOMAIN fds \ keep) ELSE fds
     /\ Go(IF given = "path" THEN "open" ELSE IF given = "fd" THEN "check" ELSE "exec")
     /\ UNCHANGED <<parsed, fd, inode, held>> /\ World

\* Python opens descriptors that are not inherited.
Open ==
  /\ pc = "open" /\ path # "none"
  /\ \E f \in Free : /\ fd' = f
                    /\ fds' = Hold(fds, f, "file", FALSE)
  /\ inode' = path /\ Go("inspect")
  /\ UNCHANGED <<parsed, held>> /\ World

\* Nothing there to open, or the open fails.
OpenFails ==
  /\ pc = "open" /\ Refuse("secret_path_unreadable")
  /\ UNCHANGED <<parsed, fds, fd, inode, held>> /\ World

\* One fstat answers for kind, size and names; the file system is asked after.
FileFault ==
  IF kind[inode] # "regular" THEN "secret_path_unreadable"
  ELSE IF magic = "unknown" THEN "secret_path_unverifiable"
  ELSE IF magic = "disk" THEN "secret_path_not_memory_backed"
  ELSE IF size[inode] > Cap THEN "secret_bundle_too_large"
  ELSE IF names[inode] # 1 THEN "secret_path_not_exclusive"
  ELSE "none"

Inspect ==
  /\ pc = "inspect"
  /\ IF FileFault = "none" THEN Go("unlink") /\ UNCHANGED fds
     ELSE Refuse(FileFault) /\ fds' = Drop(fds, {fd})
  /\ UNCHANGED <<parsed, fd, inode, held>> /\ World

\* The name that goes is whatever the path names by now.
Unlink ==
  /\ pc = "unlink" /\ path # "none"
  /\ names' = [names EXCEPT ![path] = @ - 1] /\ path' = "none" /\ Go("confirm")
  /\ UNCHANGED <<parsed, fds, fd, inode, held, late, size, kind, magic, moves, feeder, listable>>

\* The name is gone, or the directory does not let it go.
UnlinkFails ==
  /\ pc = "unlink"
  /\ Refuse("secret_delivery_failed") /\ fds' = Drop(fds, {fd})
  /\ UNCHANGED <<parsed, fd, inode, held>> /\ World

Confirm_Trusting == /\ pc = "confirm" /\ Go("drain")
                    /\ UNCHANGED <<parsed, fds, fd, inode, held>> /\ World
Confirm ==
  /\ pc = "confirm"
  /\ IF names[inode] = 0 THEN Go("drain") /\ UNCHANGED fds
     ELSE Refuse("secret_path_not_exclusive") /\ fds' = Drop(fds, {fd})
  /\ UNCHANGED <<parsed, fd, inode, held>> /\ World

\* A pipe, and none of the standard streams.
CheckPipe ==
  /\ pc = "check"
  /\ IF /\ pipeFd > 2 /\ pipeFd \in DOMAIN fds
        /\ fds[pipeFd].what \in {"pipeR", "pipeW"}
     THEN fd' = pipeFd /\ Go("drain")
     ELSE Refuse("secret_pipe_fd_invalid") /\ UNCHANGED fd
  /\ UNCHANGED <<parsed, fds, inode, held>> /\ World

-----------------------------------------------------------------------------
(* The drain: _drain_descriptor.                                            *)

Source == fds[fd].what
Available == (IF Source = "file" THEN size[inode] ELSE sent) - held
\* The executor, or a write end the sweep did not reach.
Written == writer \/ \E f \in DOMAIN fds : fds[f].what = "pipeW"
AtEnd == Available <= 0 /\ (Source = "file" \/ ~Written)

DrainOnly == UNCHANGED <<parsed, fd, inode>> /\ World
DrainRefuses(c) == Refuse(c) /\ fds' = Drop(fds, {fd})
Lesser(m, n) == IF m <= n THEN m ELSE n

Room_WholeChunk == Chunk
\* One block over the cap is enough to know.
Room == Lesser(Chunk, Cap + 1 - held)

DrainRead ==
  /\ pc = "drain" /\ held <= Cap /\ Source # "pipeW" /\ Available > 0
  /\ held' = held + Lesser(Room, Available)
  /\ IF late THEN DrainRefuses("secret_pipe_timeout") ELSE Go("drain") /\ UNCHANGED fds
  /\ DrainOnly

\* The write end of a pipe is a pipe too, and cannot be read.
DrainError ==
  /\ pc = "drain" /\ held <= Cap /\ Source = "pipeW"
  /\ DrainRefuses("secret_delivery_failed") /\ UNCHANGED held /\ DrainOnly

DrainBlocked ==
  /\ pc = "drain" /\ held <= Cap /\ Source = "pipeR" /\ Available <= 0 /\ ~AtEnd
  /\ IF late THEN DrainRefuses("secret_pipe_timeout") ELSE Go("wait") /\ UNCHANGED fds
  /\ UNCHANGED held /\ DrainOnly

Wake_OnData == /\ pc = "wait" /\ (Available > 0 \/ AtEnd) /\ Go("drain")
               /\ UNCHANGED <<fds, held>> /\ DrainOnly
\* A wait that fails sleeps and looks again, which changes nothing.
Wake == /\ pc = "wait" /\ (Available > 0 \/ AtEnd \/ late) /\ Go("drain")
        /\ UNCHANGED <<fds, held>> /\ DrainOnly

DrainEnd_OnEmpty ==
  /\ pc = "drain" /\ Source # "pipeW" /\ (held > Cap \/ Available <= 0)
  /\ fds' = Drop(fds, {fd})
  /\ IF held > Cap THEN Refuse("secret_bundle_too_large") ELSE Go("copy")
  /\ UNCHANGED held /\ DrainOnly
DrainEnd ==
  /\ pc = "drain" /\ Source # "pipeW" /\ (held > Cap \/ AtEnd)
  /\ fds' = Drop(fds, {fd})
  /\ IF held > Cap THEN Refuse("secret_bundle_too_large") ELSE Go("copy")
  /\ UNCHANGED held /\ DrainOnly

-----------------------------------------------------------------------------
(* The hand-over.                                                           *)

\* Anonymous memory, or a pipe filled by one write that must not block.
Copy ==
  /\ pc = "copy"
  /\ \E f \in Free : /\ fd' = f
                    /\ fds' = Hold(fds, f, "copy", FALSE)
  /\ Go("install")
  /\ UNCHANGED <<parsed, inode, held>> /\ World

\* No memory or descriptor for the copy, or the pipe takes only a part of it.
CopyFails ==
  /\ pc = "copy"
  /\ Refuse("secret_delivery_failed")
  /\ UNCHANGED <<parsed, fds, fd, inode, held>> /\ World

\* dup2 replaces whatever is on the channel's number.
Install ==
  /\ pc = "install"
  /\ fds' = Hold(Drop(fds, {fd}), SecretFd, "copy", TRUE)
  /\ fd' = SecretFd /\ Go("exec")
  /\ UNCHANGED <<parsed, inode, held>> /\ World

Exec ==
  /\ pc = "exec" /\ Go("child")
  /\ fds' = Drop(fds, {f \in DOMAIN fds : ~fds[f].inherit})
  /\ UNCHANGED <<parsed, fd, inode, held>> /\ World

ExecFails ==
  /\ pc = "exec" /\ Refuse("exec_failed")
  /\ UNCHANGED <<parsed, fds, fd, inode, held>> /\ World

Shim ==
  \/ ParseOption \/ ParseEnd \/ Sweep
  \/ Open \/ OpenFails \/ Inspect \/ Unlink \/ UnlinkFails \/ Confirm \/ CheckPipe
  \/ DrainRead \/ DrainError \/ DrainBlocked \/ Wake \/ DrainEnd
  \/ Copy \/ CopyFails \/ Install \/ Exec \/ ExecFails

Environment ==
  \/ \E i \in Inodes : Link(i) \/ DropName(i) \/ Append1(i)
  \/ RenameAway \/ RenameOver \/ Send \/ CloseWriter

Ended == pc \in {"child", "refused"}

\* A run that has ended stays so: what others do then is no longer followed.
Next == ~Ended /\ (Shim \/ Environment \/ Expire)

Spec == Init /\ [][Next]_vars

\* The shim is scheduled and time passes; nothing is assumed of the others.
FairSpec == Spec /\ WF_vars(Shim /\ ~Ended) /\ WF_vars(Expire /\ ~Ended)

-----------------------------------------------------------------------------
(* Properties.                                                              *)

\* What the shim refuses with.
Codes == {"none", "missing_option_value", "invalid_option_value", "conflicting_secret_delivery",
          "secret_pipe_fd_invalid", "no_command", "secret_path_unreadable",
          "secret_path_unverifiable", "secret_path_not_memory_backed", "secret_bundle_too_large",
          "secret_path_not_exclusive", "secret_delivery_failed", "secret_pipe_timeout", "exec_failed"}

\* The sets the variables range over.
TypeOK ==
  /\ args \in Argvs /\ at \in Nat \ {0} /\ given \in {"none", "path", "fd"}
  /\ pipeFd \in 0..MaxFd - 1
  /\ pc \in {"parse", "sweep", "open", "inspect", "unlink", "confirm", "check", "drain",
             "wait", "copy", "install", "exec", "child", "refused"}
  /\ code \in Codes
  /\ DOMAIN fds \subseteq Nat
  /\ \A f \in DOMAIN fds : fds[f] \in [what : Held, inherit : BOOLEAN]
  /\ fd \in Nat /\ inode \in Inodes /\ held \in Nat /\ late \in BOOLEAN
  /\ path \in Inodes \cup {"none"}
  /\ names \in [Inodes -> Nat] /\ size \in [Inodes -> Nat] /\ kind \in [Inodes -> Kinds]
  /\ magic \in Magics /\ moves \in 0..MaxMoves
  /\ writer \in BOOLEAN /\ sent \in Nat
  /\ listable \in BOOLEAN

\* "the cap bound[s] the bytes the child can read": whatever is appended to the
\* file or pushed into the pipe while the shim reads, it holds at most one block
\* over the cap, and a child is handed at most the cap.
BundleBounded == held <= Cap + 1 /\ (pc = "child" => held <= Cap)

\* A bundle taken from the pipe is all of it: the child starts on what was sent
\* before every writer had closed, never on what had arrived by the deadline.
BundleWhole == pc = "child" /\ given = "fd" => held = sent /\ ~writer

\* "nothing readable is left behind": when the child starts, the file its bundle
\* came from has no name, however it was linked, renamed or replaced meanwhile.
NoNameLeft == pc = "child" /\ given = "path" => names[inode] = 0

\* The child inherits the standard streams, and descriptor 3 exactly when a
\* delivery was asked for, with the bundle on it; where descriptors cannot be
\* listed, whatever else the runtime left but still the bundle on 3.
ChildInherits ==
  pc = "child" =>
    /\ given # "none" => SecretFd \in DOMAIN fds /\ fds[SecretFd].what = "copy"
    /\ \A f \in DOMAIN fds : fds[f].what \in {"file", "copy"} => f = SecretFd /\ given # "none"
    /\ listable => DOMAIN fds \subseteq {0, 1, 2} \cup {SecretFd}
                           /\ (given = "none" => SecretFd \notin DOMAIN fds)

\* The tokens before position k are pairs of an option and its value, and the
\* token at k begins the command.
BeginsCommand(k) ==
  \E m \in 0..Len(args) :
    /\ 2*m < Len(args) /\ \A j \in 1..m : args[2*j - 1] \in Options
    /\ args[2*m + 1] \notin Options
    /\ k = (IF args[2*m + 1] = "--" THEN 2*m + 2 ELSE 2*m + 1)

\* The command that runs is the rest of the line as it stands, and a delivery
\* named before it is not lost: exactly one was named when the child has a
\* channel, none when it has not.
ArgvHonoured ==
  pc = "child" =>
    \E k \in 1..Len(args) :
      /\ BeginsCommand(k) /\ command = SubSeq(args, k, Len(args))
      /\ LET named == {j \in 1..k - 1 : j % 2 = 1 /\ args[j] \in DeliveryOptions}
         IN IF given = "none" THEN named = {} ELSE \E j \in named : named = {j}

\* What starts is what was asked for, on the descriptors it was promised.
ChildAsAsked == ArgvHonoured /\ ChildInherits

\* A writer that sends nothing, trickles or never closes holds no run open past
\* the deadline, even where its leaked write end was not swept.
ShimEnds == <>Ended
=============================================================================
