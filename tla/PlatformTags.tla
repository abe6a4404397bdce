---------------------------- MODULE PlatformTags ----------------------------
(***************************************************************************)
(* tags.compatible_tags: the wheel tags a target environment installs, in  *)
(* order of preference, and resolution._pick_artifact, which ranks the     *)
(* wheels of a package by them.                                            *)
(*                                                                         *)
(* A platform tag is a record; a python tag is a triple whose minor is     *)
(* NoMinor in "py3"; a tag of a wheel is <<python, abi, platform>>.  A     *)
(* target is its interpreter and the tags it declares.                     *)
(***************************************************************************)
EXTENDS Integers, SequencesExt

NoMinor == -1
Python(impl, major, minor) == <<impl, major, minor>>
Platform(family, major, minor, arch) ==
  [family |-> family, major |-> major, minor |-> minor, arch |-> arch]

Down(hi, lo) == [i \in 1..(hi - lo + 1) |-> hi - i + 1]
\* A comprehension over the elements of s, in order.
Each(s, Op(_)) == FlattenSeq([i \in DOMAIN s |-> Op(s[i])])

\* manylinux1, 2010 and 2014 by the glibc they stand for.
Legacy == {<<2, 5>>, <<2, 12>>, <<2, 17>>}

Floors_Above(minor) == Down(minor + 1, 0)
Floors(minor) == Down(minor, 0)

ExpandLinux(p, family) ==
  LET At(minor) ==
        <<Platform(family, p.major, minor, p.arch)>>
        \o (IF family = "manylinux" /\ <<p.major, minor>> \in Legacy
            THEN <<Platform("legacy", p.major, minor, p.arch)>> ELSE <<>>)
  IN  Each(Floors(p.minor), At) \o <<Platform("linux", 0, 0, p.arch)>>

Formats(arch) ==
  CASE arch = "arm64"  -> <<"arm64", "universal2">>
    [] arch = "x86_64" -> <<"x86_64", "intel", "fat64", "fat32", "universal2", "universal">>
    [] OTHER           -> <<arch>>

\* A system from 11 on is named by its yearly release; below it are 10.16 to 10.4.
MacVersions(major, minor) ==
  IF major >= 11
  THEN [i \in DOMAIN Down(major, 11) |-> <<Down(major, 11)[i], 0>>]
       \o [i \in DOMAIN Down(16, 4) |-> <<10, Down(16, 4)[i]>>]
  ELSE [i \in DOMAIN Down(minor, 0) |-> <<major, Down(minor, 0)[i]>>]

ExpandMacos(p) ==
  LET At(v) == [i \in DOMAIN Formats(p.arch) |->
                  Platform("macosx", v[1], v[2], Formats(p.arch)[i])]
  IN  Each(MacVersions(p.major, p.minor), At)

ExpandPlatform(p) ==
  CASE p.family \in {"manylinux", "legacy"} -> ExpandLinux(p, "manylinux")
    [] p.family = "musllinux" -> ExpandLinux(p, "musllinux")
    [] p.family = "macosx"    -> ExpandMacos(p)
    [] OTHER                  -> <<p>>

ExpandInterpreters(declared, who) ==
  LET own == Each(declared, LAMBDA d : IF d[2] \in {"abi3", "none"} THEN <<>>
                                       ELSE <<<<d[1], d[2]>>>>)
      me  == Python(who.impl, who.major, who.minor)
      older(lo, impl, abi) ==
        [i \in DOMAIN Down(who.minor - 1, lo) |->
           <<Python(impl, who.major, Down(who.minor - 1, lo)[i]), abi>>]
  IN  own \o (IF who.impl = "cp" THEN <<<<me, "abi3">>>> ELSE <<>>)
      \o <<<<me, "none">>>>
      \o (IF who.impl = "cp" THEN older(2, "cp", "abi3") ELSE <<>>)
      \o <<<<Python("py", who.major, who.minor), "none">>,
           <<Python("py", who.major, NoMinor), "none">>>>
      \o older(0, "py", "none")

PythonPrefixes(target) == ExpandInterpreters(target.declared, target)
Platforms(target) == Each(target.declared, LAMBDA d : ExpandPlatform(d[3]))

First(s, e) == CHOOSE i \in DOMAIN s : s[i] = e /\ \A j \in 1..(i - 1) : s[j] # e

\* _tag_ranks: where each prefix and each platform first occurs; a tag ranks by
\* its prefix, then by its platform, and one that is in no list is incompatible.
Ranks(target) ==
  LET prefixes == PythonPrefixes(target)
      platforms == Platforms(target)
  IN  [prefix |-> [p \in ToSet(prefixes) |-> First(prefixes, p)],
       platform |-> [p \in ToSet(platforms) |-> First(platforms, p)],
       width |-> Len(platforms)]

Compatible(ranks, tag) ==
  <<tag[1], tag[2]>> \in DOMAIN ranks.prefix /\ tag[3] \in DOMAIN ranks.platform
Rank(ranks, tag) ==
  ranks.prefix[<<tag[1], tag[2]>>] * ranks.width + ranks.platform[tag[3]]

\* The least (rank, filename).
Picked(scores) ==
  CHOOSE s \in scores : \A t \in scores : s[1] < t[1] \/ (s[1] = t[1] /\ s[2] <= t[2])

\* The wheel taken among those offered: <<>> if none is compatible.
PickWheel(ranks, wheels) ==
  LET scores == UNION {{<<Rank(ranks, t), w.file, w>> : t \in {u \in w.tags : Compatible(ranks, u)}} :
                         w \in wheels}
  IN  IF scores = {} THEN <<>> ELSE <<Picked(scores)[3]>>

-----------------------------------------------------------------------------
(* What the tags mean, stated without the lists.                            *)

\* A system of version v runs what was built for version u.
AtMost(u, v) == u[1] < v[1] \/ (u[1] = v[1] /\ u[2] <= v[2])
Version(p) == <<p.major, p.minor>>

RunsPlatform(host, p) ==
  CASE host.family \in {"manylinux", "legacy"} /\ p.family \in {"manylinux", "legacy"} ->
         /\ p.arch = host.arch /\ AtMost(Version(p), Version(host))
         /\ p.family = "legacy" => Version(p) \in Legacy
    [] host.family = "musllinux" /\ p.family = "musllinux" ->
         p.arch = host.arch /\ AtMost(Version(p), Version(host))
    [] host.family \in {"manylinux", "legacy", "musllinux"} /\ p.family = "linux" ->
         p.arch = host.arch
    [] host.family = "macosx" /\ p.family = "macosx" ->
         p.arch \in ToSet(Formats(host.arch)) /\ AtMost(Version(p), Version(host))
    [] OTHER -> p = host

\* Of those, what the expansion leaves out, though tags.py:140 promises "Every macOS
\* deployment target at or below the declared one": from macOS 11 on every release
\* with a minor version, the declared one's own included, and of the older ones all
\* but 10.4 to 10.16; elsewhere an older major version.
Skipped(host, p) ==
  IF host.family = "macosx" /\ host.major >= 11
  THEN IF p.major >= 11 THEN p.minor # 0 ELSE p.major < 10 \/ p.minor \notin 4..16
  ELSE p.family # "linux" /\ p.major < host.major

RunsPython(target, py, abi) ==
  \/ \E d \in ToSet(target.declared) : d[1] = py /\ d[2] = abi /\ abi \notin {"abi3", "none"}
  \/ abi = "none" /\ py = Python(target.impl, target.major, target.minor)
  \/ abi = "none" /\ py[1] = "py" /\ py[2] = target.major /\ py[3] <= target.minor
  \/ /\ abi = "abi3" /\ target.impl = "cp" /\ py[1] = "cp" /\ py[2] = target.major
     /\ py[3] \in (2..target.minor) \cup {target.minor}

\* A platform that differs from another in being a newer version.
NewerPlatform(p, q) ==
  p.family = q.family /\ p.arch = q.arch /\ AtMost(Version(q), Version(p)) /\ p # q

\* The environment can install a wheel with this tag.
Installs(target, tag) ==
  /\ RunsPython(target, tag[1], tag[2])
  /\ \E d \in ToSet(target.declared) : RunsPlatform(d[3], tag[3])

\* No declared platform that runs it lists it.
Overlooked(target, tag) ==
  \A d \in ToSet(target.declared) : RunsPlatform(d[3], tag[3]) => Skipped(d[3], tag[3])

-----------------------------------------------------------------------------
(* What a target declares: "the most preferred tag in each family the       *)
(* environment supports" (tags.py:27), "most preferred first"               *)
(* (resolution.py:93).                                                      *)

\* Names of families and architectures, of implementations and ABIs; those the
\* expansion itself writes are spelled out.
Word == STRING \cup {"manylinux", "legacy", "musllinux", "linux", "macosx", "arm64", "x86_64",
                     "intel", "fat64", "fat32", "universal2", "universal", "cp", "py", "abi3", "none"}

PlatformRec == [family : Word, major : Nat, minor : Nat, arch : Word]
\* linux_<arch> has no version.
PlatformTag == {p \in PlatformRec : p.family = "linux" => p.major = 0 /\ p.minor = 0}
PythonTag == Word \X Nat \X (Nat \cup {NoMinor})
Tag == PythonTag \X Word \X PlatformTag

\* Platforms whose versions are comparable: of one libc and architecture, or macOS.
IsGlibc(p) == p.family \in {"manylinux", "legacy"}
Line(p) == IF IsGlibc(p) THEN "glibc" ELSE p.family
OneLine(p, q) == Line(p) = Line(q) /\ (p.arch = q.arch \/ p.family = "macosx")

\* Of one line, a newer platform is not first declared after an older one.
NewestFirst(declared) ==
  \A i, j \in DOMAIN declared : i < j /\ OneLine(declared[i][3], declared[j][3])
     => \/ AtMost(Version(declared[j][3]), Version(declared[i][3]))
        \/ \E k \in 1..(i - 1) : declared[k][3] = declared[j][3]

\* The last macOS 10 is 10.16, where the expansion of a later system goes on.
LastTen(p) == p.family = "macosx" /\ p.major = 10 => p.minor <= 16

IsTarget(target) ==
  /\ target.impl \in Word /\ target.major \in Nat /\ target.minor \in Nat
  /\ target.declared \in Seq(Tag) /\ NewestFirst(target.declared)
  /\ \A i \in DOMAIN target.declared : LastTen(target.declared[i][3])
=============================================================================
