-------------------------- MODULE EnvironmentBuild --------------------------
(***************************************************************************)
(* From a lock's packages to a sealed environment: the choice of each      *)
(* package's artifact (resolution._pick_artifact), its retrieval from a    *)
(* pinned index (index.ArtifactFetcher) and UvSyncBuilder.build, which     *)
(* fills the staging directory the cache publishes when it returns.        *)
(*                                                                         *)
(* A digest is the bytes it is the digest of.  The index and uv are other  *)
(* programs: the one answers anything, the other may fail or install       *)
(* something else than it was told.  A version is its release: spellings   *)
(* that are equal under PEP 440 are one value.                             *)
(***************************************************************************)
EXTENDS PlatformTags, FiniteSets

CONSTANTS
  Deps, Root,  \* the resolved packages and the provider's own
  Targets,     \* the environments wheels are chosen for
  Requests,    \* what build is asked
  Indexes,     \* the pinned index URLs
  Layouts      \* what a new virtual environment's links are

Packages == Deps \cup {Root}
Versions == {"none", "pinned", "other"}  \* what is installed of a package
Python0 == "python"                      \* the interpreter: .venv/bin/python
Aliases == {Python0, "python3", "python3.12"}
LinkNames == Aliases \cup {"lib64", "pypy"}

NoHash == <<"none">>                     \* a file the lock has no hash of
Tampered == <<"tampered">>               \* bytes nobody pinned

ASSUME BuildAssumption ==
  /\ Root \notin Deps
  /\ \A t \in Targets : IsTarget(t)
  /\ \A r \in Requests :
       /\ r.target \in Targets /\ DOMAIN r.offers = Deps
       /\ \A p \in Deps : \A w \in r.offers[p].wheels : w.file \in Nat /\ w.tags \subseteq Tag
  /\ Layouts \subseteq [LinkNames -> LinkNames \cup {"file", "host"}]

VARIABLES
  step,       \* where build is
  request,    \* what was asked
  closure,    \* the artifact of each package
  staged,     \* the bytes written, by directory and file name
  kept,       \* history: the answer each package's bytes came from
  installed,  \* the .dist-info of site-packages
  links,      \* the links under .venv, "file" for what is not one
  todo,       \* packages to fetch, or aliases to look at
  cause       \* why it was refused

build == <<step, request, closure, staged, kept, installed, links, todo, cause>>

Unasked == [airGapped |-> TRUE]
BuildInit ==
  /\ step = "idle" /\ request = Unasked
  /\ closure = [p \in {} |-> 0] /\ staged = [f \in {} |-> 0] /\ kept = [p \in {} |-> 0]
  /\ installed = [p \in Packages |-> "none"]
  /\ links = [n \in LinkNames |-> "file"] /\ todo = {} /\ cause = "none"

Refuse(why) == /\ step' = "refused" /\ cause' = why
               /\ UNCHANGED <<request, closure, staged, kept, installed, links, todo>>

-----------------------------------------------------------------------------
(* The artifact of each package.                                            *)

Ask(r) ==
  /\ step = "idle"
  /\ step' = "pick" /\ request' = r
  /\ UNCHANGED <<closure, staged, kept, installed, links, todo, cause>>

\* One table for each environment, as the code caches it.
TagRanks == [t \in Targets |-> Ranks(t)]

\* A wheel if one is compatible, else the sdist; <<>> for neither.
PickArtifact(p) ==
  LET wheel == PickWheel(TagRanks[request.target], request.offers[p].wheels)
  IN  IF wheel # <<>> THEN <<[kind |-> "wheel", of |-> wheel[1]]>>
      ELSE IF request.offers[p].sdist # <<>>
      THEN <<[kind |-> "sdist", of |-> request.offers[p].sdist[1]]>>
      ELSE <<>>

Pick ==
  /\ step = "pick"
  /\ \E picked \in {[p \in Deps |-> PickArtifact(p)]} :
       \* The packages are looked at in the lock's order: any.
       \/ (\E p \in Deps : picked[p] = <<>>) /\ Refuse("no_compatible_artifact")
       \/ /\ \E p \in Deps : picked[p] # <<>> /\ picked[p][1].of.hash = NoHash
          /\ Refuse("lock_missing_hash")
       \/ /\ \A p \in Deps : picked[p] # <<>> /\ picked[p][1].of.hash # NoHash
          /\ closure' = [p \in Packages |->
                           IF p = Root THEN [kind |-> "wheel", of |-> request.root] ELSE picked[p][1]]
          /\ step' = "begin"
          /\ UNCHANGED <<request, staged, kept, installed, links, todo, cause>>

-----------------------------------------------------------------------------
(* index.py.                                                                *)

DefaultPort(scheme) == CASE scheme = "https" -> 443 [] scheme = "http" -> 80 [] OTHER -> 0
EffectivePort(u) == IF u.port # 0 THEN u.port ELSE DefaultPort(u.scheme)
EffectiveHost(u) == IF u.scheme = "file" /\ u.host = "localhost" THEN "" ELSE u.host

\* IndexConfig.covers: the same origin, and the path under the pinned one by
\* whole segments.
Covers(u) ==
  /\ u.scheme = "file" \/ u.host # ""
  /\ \E index \in Indexes :
       /\ u.scheme = index.scheme
       /\ EffectiveHost(u) = EffectiveHost(index) /\ EffectivePort(u) = EffectivePort(index)
       /\ IsPrefix(index.path, u.path)

\* What the transport may report: a status, whether the final URL is another than
\* the one asked, a body.
Answers(hash) == [status : {200, 302, 404}, moved : BOOLEAN, body : {hash, Tampered}]

Redirects == {301, 302, 303, 307, 308}

AnswerFault_StatusOnly(a, hash) ==
  IF a.status \in Redirects THEN "index_redirect"
  ELSE IF a.status # 200 THEN "index_not_pinned"
  ELSE IF a.body # hash THEN "artifact_hash_mismatch"
  ELSE "none"

AnswerFault(a, hash) ==
  IF a.status \in Redirects \/ a.moved THEN "index_redirect"
  ELSE IF a.status # 200 THEN "index_not_pinned"
  ELSE IF a.body # hash THEN "artifact_hash_mismatch"
  ELSE "none"

\* A file is written over what has its name.
With(f, x, value) == [y \in DOMAIN f \cup {x} |-> IF y = x THEN value ELSE f[y]]
Place(p) == <<IF p = Root THEN "artifact" ELSE "dependencies", closure[p].of.file>>

\* fetch_url, and the write of what it returned.
Fetch(p, next) ==
  LET of == closure[p].of
  IN  IF request.airGapped THEN Refuse("air_gapped_cache_miss")
      ELSE IF ~Covers(of.url) THEN Refuse("index_not_pinned")
      ELSE IF ~request.transport THEN Refuse("network_disabled")
      ELSE \E a \in Answers(of.hash) :
             IF AnswerFault(a, of.hash) # "none" THEN Refuse(AnswerFault(a, of.hash))
             ELSE /\ staged' = With(staged, Place(p), a.body)
                  /\ kept' = With(kept, p, a)
                  /\ next
                  /\ UNCHANGED <<request, closure, installed, links, cause>>

-----------------------------------------------------------------------------
(* UvSyncBuilder.build.                                                     *)

Begin ==
  /\ step = "begin"
  /\ IF request.airGapped THEN Refuse("air_gapped_cache_miss")
     ELSE IF ~request.lock THEN Refuse("lock_mismatch")
     ELSE IF ~request.pin THEN Refuse("unresolvable_source")
     ELSE IF ~request.uv THEN Refuse("network_disabled")
     ELSE /\ step' = "root"
          /\ staged' = With(With(staged, <<"", "uv.lock">>, <<"lock">>), <<"", "resolution.json">>, <<"triples">>)
          /\ UNCHANGED <<request, closure, kept, installed, links, todo, cause>>

FetchRoot == step = "root" /\ Fetch(Root, step' = "wheels" /\ todo' = Deps)

FetchWheel(p) ==
  /\ step = "wheels" /\ p \in todo
  /\ IF closure[p].kind # "wheel" THEN Refuse("unresolvable_source")
     ELSE Fetch(p, UNCHANGED step /\ todo' = todo \ {p})

\* requirements.txt, then uv venv.
CreateVenv ==
  /\ step = "wheels" /\ todo = {}
  /\ \/ Refuse("environment_divergence")
     \/ /\ links' \in Layouts /\ step' = "sync"
        /\ UNCHANGED <<request, closure, staged, kept, installed, todo, cause>>

\* uv pip sync --require-hashes: the file each requirement names is hashed.
Sync ==
  /\ step = "sync"
  /\ \/ Refuse("artifact_hash_mismatch")
     \/ /\ \A p \in Deps : staged[Place(p)] = closure[p].of.hash
        /\ \E did \in [Deps -> Versions] :
             installed' = [p \in Packages |-> IF p = Root THEN installed[p] ELSE did[p]]
        /\ step' = "install"
        /\ UNCHANGED <<request, closure, staged, kept, links, todo, cause>>

\* uv pip install --no-deps of the fetched root.
InstallRoot ==
  /\ step = "install"
  /\ \/ Refuse("environment_divergence")
     \/ /\ \E v \in Versions : installed' = [installed EXCEPT ![Root] = v]
        /\ step' = "verify"
        /\ UNCHANGED <<request, closure, staged, kept, links, todo, cause>>

Expected == Packages

\* verify_environment; what is installed besides is not looked at.
VerifyEnvironment ==
  /\ step = "verify"
  /\ IF \E p \in Expected : installed[p] # "pinned" THEN Refuse("environment_divergence")
     ELSE /\ step' = "interpreter"
          /\ UNCHANGED <<request, closure, staged, kept, installed, links, todo, cause>>

\* Path.resolve: the end of the chain of links, which passes each of the five once.
Hop(name) == IF name \in LinkNames /\ links[name] # "file" THEN links[name] ELSE name
Resolve(name) == Hop(Hop(Hop(Hop(Hop(name)))))
Outside(name) == Resolve(name) = "host"
IsInside(name) == Resolve(name) \in LinkNames /\ links[Resolve(name)] = "file"

\* The interpreter becomes a file of the tree, with its libpython; resolved
\* strictly, a chain that goes round raises (Break).
CopyInterpreter ==
  /\ step = "interpreter" /\ (Outside(Python0) \/ IsInside(Python0))
  /\ links' = IF Outside(Python0) THEN [links EXCEPT ![Python0] = "file"] ELSE links
  /\ step' = "aliases" /\ todo' = Aliases
  /\ UNCHANGED <<request, closure, staged, kept, installed, cause>>

\* The glob lists the aliases in any order.
RelinkAlias(name) ==
  /\ step = "aliases" /\ name \in todo
  /\ links' = IF links[name] # "file" /\ Outside(name) THEN [links EXCEPT ![name] = Python0] ELSE links
  /\ todo' = todo \ {name}
  /\ UNCHANGED <<step, request, closure, staged, kept, installed, cause>>

Escapes_AliasesOnly == {n \in Aliases : Outside(n)}
Escapes == {n \in LinkNames : Outside(n)}

\* write_execution_seal.
Seal ==
  /\ step = "aliases" /\ todo = {}
  /\ IF Escapes # {} THEN Refuse("environment_divergence")
     ELSE /\ step' = "sealed"
          /\ UNCHANGED <<request, closure, staged, kept, installed, links, todo, cause>>

Ended == step \in {"sealed", "refused"}

\* An OSError of any copy, write or subprocess.
Break == step \notin {"idle", "pick"} /\ ~Ended /\ Refuse("raised")

BuildStep ==
  \/ Pick \/ Begin \/ FetchRoot \/ CreateVenv \/ Sync \/ InstallRoot
  \/ VerifyEnvironment \/ CopyInterpreter \/ Seal
  \/ \E p \in Deps : FetchWheel(p)
  \/ \E n \in Aliases : RelinkAlias(n)

-----------------------------------------------------------------------------
(* Properties.                                                              *)

\* index.py:13 "a redirect refuses rather than being followed, because a
\* followed redirect makes the pin meaningless": whatever the index answers and
\* in whichever order the files arrive or displace each other, a sealed tree
\* holds for every package the pinned bytes, answered at the very URL asked for,
\* under a pinned index; and backends.py:213 "A tree missing it is a
\* dependency-only environment sealed under a digest that names a provider": uv's
\* word is not taken for it that the closure and the root were installed.
SealedAsPinned ==
  step = "sealed" =>
    \A p \in Packages :
      /\ staged[Place(p)] = closure[p].of.hash
      /\ kept[p].status = 200 /\ ~kept[p].moved /\ Covers(closure[p].of.url)
      /\ installed[p] = "pinned"

\* backends.py:432 "Core requires the interpreter itself to be inside the pinned
\* closure": no link of a sealed tree ends on the host, by whichever chain and
\* in whichever order the aliases were rewritten, and its interpreter is a file.
SealedTreeIsClosed ==
  step = "sealed" => (\A n \in LinkNames : ~Outside(n)) /\ IsInside(Python0)

\* tags.py:230 "a tag the environment supports": the wheel chosen is one the
\* target installs, none built for a newer system was passed over for it, and a
\* package is built from source or refused only if the target installs none of
\* its wheels; but for those the expansion overlooks.
AllOverlooked(p) ==
  \A w \in request.offers[p].wheels : \A t \in w.tags :
    Installs(request.target, t) => Overlooked(request.target, t)
Newer(t, u) == t[1] = u[1] /\ t[2] = u[2] /\ NewerPlatform(t[3], u[3])
BestWheelPicked ==
  /\ step \notin {"idle", "pick"} /\ closure # [p \in {} |-> 0] =>
       \A p \in Deps :
         LET wheels == request.offers[p].wheels
             of == closure[p].of
         IN  IF closure[p].kind = "sdist" THEN AllOverlooked(p)
             ELSE /\ of \in wheels
                  /\ \E u \in of.tags :
                       /\ Installs(request.target, u)
                       /\ \A w \in wheels : \A t \in w.tags :
                            Installs(request.target, t) /\ Newer(t, u) => Overlooked(request.target, t)
  /\ cause = "no_compatible_artifact" => \E p \in Deps : AllOverlooked(p)
=============================================================================
