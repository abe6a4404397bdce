# Cruxible providers: TLA+ models, checks and proofs

This directory specifies `cruxible-providers`: what decides whether a provider
runs, on what, and what is believed of its answer (the support library
`cruxible-provider-runtime`), and the two planes of providers that carry logic
of their own, the web and the quantitative one. Paths below are relative to
`src/packages/cruxible-provider-runtime/src/cruxible_provider_runtime/` unless
they start with `src/` or name their plane.

Contents: [the system](#1-the-system) - [modules](#2-modules-and-the-code) -
[runs](#3-what-the-runs-check) - [fairness](#4-fairness) -
[proofs](#5-what-is-proved) - [disagreements](#6-where-code-and-documentation-disagree) -
[limits](#7-known-limits-and-abstractions) - [plan](#8-plan)

## 1. The system

An operator accepts a provider package. A *bind* turns the acceptance into a
`Binding`: it reads the accepted artifact from the registry, compares it with
the package's manifest and lock, resolves the lock into a set of hashed
distributions, digests that set, and asks the materialization cache for the
environment the digest names. An *invocation* of a binding then goes through

    Binding.revalidate        is the binding still what was accepted?
    registry.admit            does the input fall into a claimed bucket?
    open_secret_channel       a pipe, and a thread that writes the credentials
      run_with_budget         child.main in its own process group, or a container
        child.main            parse, resolve, read_secrets, provider.run, redact, write
    (channel closed)
    parse_result_envelope     is there an envelope, and is it this run's?
    redact / assert_no_leak   stderr scrubbed, envelope searched for credentials
    enforce_egress            contacted endpoints against the declared ones
    InvocationOutcome

Any number of processes bind at the same time, and any number of threads
invoke one binding at the same time. The provider is code nobody trusts.

### Components

| Component (source) | State | Operations | What makes it correct |
|---|---|---|---|
| materialization cache (`cache.py`) | cache root; per digest a directory with a seal, a lock file; staging directories | `get_or_materialize` = `ensure_root`, unlocked `verify`, flock, `verify` again, `rmtree`, build, seal, rename, `verify` | one builder per digest; only whole sealed trees have a name; a path is returned only for a tree that was published; a good entry is never replaced; no caller waits for ever |
| binding (`binding.py`) | `Binding` and its `tree_watch` | `bind`, `revalidate` | no run under a withdrawn artifact, an edited manifest or an unsealed tree; the stat gate never replaces a check nobody passed |
| registry (`registry.py`) | interfaces, provider payloads and status | `register_interface`, `register_provider`, `accepted_provider`, `admit` | an interface id keeps its digest; only accepted providers bind or run |
| supervised child (`budget.py`) | process group, two pipes, writer thread, deadline, byte count | `run_with_budget`, `_terminate` | bounded time and output, nothing lost from accepted output, group killed on breach |
| invocation, executor side (`execute.py`) | none between calls | `invoke` and what it calls | an accepted outcome is this run's, holds no credential, and is within the declaration; a run is lost to a credential only where it must be |
| provider harness (`child.py`, `provider_api.py`) | `run_id`, recorder, secrets | `main` | one envelope per run on every path, carrying the egress record and no credential |
| wire protocol (`protocol.py`) | none | parse and validate context and envelope | what has no canonical encoding never leaves |
| egress (`egress.py`) | `EgressRecorder.contacted` | `record`, `undeclared`, `enforce_egress` | undeclared contacts are refused |
| credential channel (`secrets.py`) | pipe, writer thread, read end | `open_secret_channel`, `read_secrets`, `redact`, `assert_no_leak` | whole bundle or a refusal; never parks the executor; no credential in an answer |
| dependency resolution (`resolution.py`) | work list, seen, resolved | `resolve` | the result is the closure; nothing unhashed; refusals name real faults |
| tag expansion (`tags.py`) | none | platform and python tags in preference order | the same lock selects the same wheels everywhere; the best installable wheel is chosen |
| container entry shim (`container_entry.py`) | descriptor table, delivered file, bytes drained, deadline | parse, sweep, open, inspect, unlink, confirm or check the pipe, drain, copy, install, exec | credentials whole and bounded, no name left, the child on the promised descriptors, bounded time |
| backends (`backends.py`) | the staging directory of a build | `UvSyncBuilder.build`, `verify_environment`, `verify_image`, container argv | only a complete, closed environment is handed to the cache; an image is the accepted artifact's |
| acquisition (`index.py`, `acquisition.py`) | none | pinned fetch of one artifact; wire form of a captured response | bytes match the pinned hash, no redirect |
| accepted artifact (`artifact.py`) | payload, status | proposal, acceptance, registration | an image built for the proposal is good after acceptance, and only for that content |
| registration (`registration.py`, `wheels.py`, `manifest.py`) | what has been read so far | `load_registration`, `registration_from_distribution` | the parts of a bundle belong together, whenever each was read |
| bucket vocabularies (`buckets.py`) | none | ids, selectors, matching | a selector stands for one set of buckets everywhere it is read |
| digests, canonical, errors, testing | none | hashing, encoding, names | pure functions |
| web transport (`http.py`, `addresses.py` of the web plane) | per call: pinned addresses, kept connections, hops, body so far | `RecordingClient.get`, the address guard | only vetted addresses; credentials stay with their origin; exact hop limit; capped body |
| web adapters (`fetch.py`, `search.py`, `interfaces.py` of the web plane) | none | input checks, classification, request, what becomes of the answer | decline exactly what is unclaimed; return what was read |
| quantitative plane (`src/packages/cruxible-provider-quant`) | none, but a pinned model's file | seven classifiers, seven adapters around engines | how far the bucket a run is recorded under is that of what was answered; a pinned model scores |
| docs, workspace, noop planes | none | one conversion or computation per run | shape checks around third-party engines |
| repository gates (`src/scripts`) | none | digest goldens, one-package rule, release wheel | one change moves one package's digest |

How they touch: `bind` reads the registry and two files and calls the cache
through a backend, whose build retrieves and installs what the lock pins; `invoke` shares the binding (and its `tree_watch`) with
other invocations; `invoke`, `open_secret_channel` and `run_with_budget` nest
as `with` blocks around one child; the child and the executor share three
pipes and the credential pipe; the harness and the provider share the
recorder. In a container the shim runs between the executor's end of the pipe
and the harness. A plane is reached twice in one run: its classifier runs in the
executor at admission, its adapter in the child, and both read the same input.
The planes and scripts share no state with one another.

### Hard behaviours

 * **Directories seen half done.** `cache.py` verifies without a lock while a
   lock holder deletes and renames. A kill may fall between any two of its
   steps, and `rmtree(ignore_errors=True)` may leave remains.
 * **Verdicts that go stale.** The unlocked verification, the stat
   fingerprint, the artifact and manifest read at bind: each is used after the
   thing it describes may have changed.
 * **Two ends of a pipe.** Feeder thread against reader loop; writer thread
   against a child that does not read; end-of-file withheld by a process
   nobody knows.
 * **Exit paths.** A provider returns, refuses, raises, exits, hangs or leaves
   a thread or process behind; each path builds or loses the envelope elsewhere.
 * **Deadlines and caps.** One deadline and one byte cap over two streams, and a
   leader that may be gone when the breach is found.
 * **Cycles in data.** Locks with cycles through extras and through the root.
 * **Names others hold.** The shim's delivery path, a package's files between
   hash and parse, a model file between hash and load: others rename, link,
   append or rewrite meanwhile.
 * **A far side that changes its mind.** A name resolves differently on each hop,
   a chain of redirects does in two hops what one may not, a body has no size
   until it ends, an index answers anything.
 * **One fact written twice.** A classifier and an adapter, a selector and a
   fixture, a proposal's digest and an image's label: each pair is read apart
   and must agree.

`PROJECT.json` lists 40 such places by line, each with the properties that
would catch it going wrong or the reason none does.

## 2. Modules and the code

| Module | Models | Composes |
|---|---|---|
| `SealedStore` | what the cache promises, as a store written once | abstract specification |
| `MaterializationCache` | `cache.py` | implements `SealedStore` (`Store == INSTANCE ... WITH`) |
| `Binding` | `binding.py`, `registry.py`, the gate at the head of `invoke` | |
| `BudgetedRun` | `budget.py` | |
| `Invocation` | `execute.py`, `child.py`, and what they use of `protocol.py`, `egress.py`, `secrets.py` | |
| `ChannelBounds`, `SecretChannel` | the credential pipe of `secrets.py` | |
| `SecretInvocation` | `Invocation` inside `SecretChannel` | extends the one, instantiates the other |
| `Resolution` | `resolution.resolve` | |
| `ContainerEntry` | `container_entry.py` | refines what `SecretInvocation` leaves open as `ShimDelivered` (not as a checked refinement) |
| `WebTransport` | `http.py`, `addresses.py` of the web plane | |
| `WebAdapters` | `fetch.py`, `search.py`, `interfaces.py` of the web plane | extends `WebTransport` |
| `PlatformTags` | `tags.py`, `resolution._pick_artifact` | operators |
| `BucketSelectors` | `buckets.py` | operators |
| `EnvironmentBuild` | `backends.UvSyncBuilder`, `index.py` | extends `PlatformTags` |
| `Registration` | `registration.py`, `manifest.py`, `wheels.py` | extends `BucketSelectors` |
| `ImageProvenance` | `artifact.py`, `verify_image`, `_bind_container` | |
| `QuantPlane` | the quantitative plane, `Registry.classify` and `Registry.admit` | extends `BucketSelectors` |
| `Intake` | a host that registers, builds, vouches or asks | extends the four before it |
| `MC*` | constants, bounds and symmetry for TLC | |
| `*Proofs` | theorems of the module they are named for | |

Operators whose name has a suffix (`Acquire_NoRecheck`, `OverCap_PerStream`)
are faulty variants of the definition before the underscore; nothing uses them.
They document what each property is sensitive to: with the variant in place of
the definition, TLC finds the property listed with it in `PROJECT.json`
violated.

**MaterializationCache.** One digest, any number of callers. `pc` is the place
in `get_or_materialize`, `at` says which of its three verifications a caller is
in. A directory is a record of existence, file contents and seal; the seal *is*
the tree it was computed over, so comparing digests is comparing trees. What
matters of `tree_digest` is that it reads one file at a time while others
delete (`HashFile`), in any order. `rmtree` likewise (`RemoveFile`), and may
skip a file. A build bakes its staging path into some files (`Embeds`): two
builds of one digest differ, so a mixture of two is told from either. `Publish`
is `rename(2)`: it replaces an absent or empty directory and otherwise discards
the staging directory. `Kill`, `Tamper`, `ReadFault`, and the failing branches of
`RemoveFile` and `Build` are the faults. Staging directories are private, so
the three calls that fill and seal one are two actions. The flock is taken in
a `with` block, so `Leave` releases it on every way out.

**Binding.** `bind` reads one live source after the other: artifact and status,
manifest, interface and backend checks, environment, and the files of the tree it
seals. `revalidate` reads artifact, manifest, fingerprint, the files of the tree,
and records the fingerprint; `Admit` and the run follow. Between any two steps the
registry, the manifest file and the tree may change, and other invocations of the
same `Binding` may write `tree_watch`. Neither digest nor fingerprint sees the tree
at one moment: `tree_digest` opens one file at a time (`BindDigestFile`,
`HashFile`), in any order, and a path that was listed and is gone when it is opened
ends the bind or the run; a fingerprint is a walk from `TakeFingerprint` to
`CompareFingerprint`, whose result is some newest mtime between the two, or the
sentinel `Vanished`. `EditTreeQuietly` is an edit the fingerprint does not show.
`accepted`, `manifests` and `had` are history: what each invocation, and for `had`
each file, could have shown it since it began.

**BudgetedRun.** The supervisor's `select` loop, byte cap, deadline, wait and
kill against processes that write, close, spawn, leave the group and exit as
they please. Data is counted in blocks; a read takes what the pipe holds. The
writer thread for stdin is `FeederEnds`. `leaderLed` is history.

**Invocation.** `xpc` is the executor, `cpc` the harness. `ending` records how
the harness's `try` ended, and the payload by what the protocol tells apart: is
the part its status calls for there, has it a canonical encoding, which
credentials does it repeat (`said`). `Handle` is both handlers, with the envelope
that may itself have no encoding. Scrubbing is done by two parties with two sets:
the harness over its envelope with what it has read by then (`Redacted`), the
executor over stderr with what it sent (`Redactions`); the executor's search
(`Leaks`) is over both and with its own set. A Redactor replaces what it holds and
nothing else, and what it writes in its place may spell a credential again, with the
text around it or alone (`Spelled`); the field names, codes and statuses of an
envelope may contain one too (`Words`), which the harness then scrubs away with
the envelope. `ProviderEnds`, `Contact`, `LeaveThread` and
`ThreadContact` are the provider. `parsed`, `called` and `aside` are history.

**SecretChannel.** Pipe, writer thread, read end, join; a child that may drain,
die or hand the read end to a process it leaves behind. `SecretInvocation`
joins it to `Invocation`: the channel opens after admission, is drained between
`Resolve` and the call, and is left before the envelope is looked at. A
container run gets its credentials from the image's shim instead
(`ShimDelivered`: anything the shim may have left on the descriptor).

**Resolution.** A unit of work is a package with a set of extras. The lock is
chosen at the start and described by what the walk asks of it: does the marker
environment select one entry, which edges does each extra add, what does the
source offer. The code pops from the end of a list; here any piece of work
may be next, so what holds does not rest on the lock's order.

**ContainerEntry.** One action per step of `main`, from the tokens of the command
line to the child. The descriptor table is a function from numbers to what they
hold and whether a child inherits it; a new descriptor is the lowest free one,
as in the kernel, which is what lets the pipe, its copy and the channel's own
number 3 collide. Others link, rename, append to and unlink what the delivery
path names (at most `MaxMoves` times), and the far end of the pipe sends in
blocks or closes. `Expire` is the drain's deadline. A file system's
magic number is one of memory, disk and unknown.

**WebTransport, WebAdapters.** `pc` is the place in `RecordingClient.get`. `Vet`
resolves the host anew on each hop and pins what it found (`pins`); `Send` opens a
socket to a pinned address or uses a kept connection (`pool`), and `wire` is what
was last sent, to whom, with the run's headers or not. An address is the network
it is on and, for the IPv6 forms that carry an IPv4 address, that one's network.
The adapters add the checks of the input alone (`Malformed`, `Unserved`), the
classifiers (`Bucket`), the manifest's selectors, and what becomes of the answer:
format agreement and extraction for a fetch; recency filter, order and cut for a
search. `Waits` is a run between two answers of the far side.

**PlatformTags, EnvironmentBuild.** A tag is a record or triple and `Ranks` the
order `compatible_tags` gives. What tags mean is stated apart from that, by PEP 425
and 600 and `tags.py:140`: a platform runs what was built for one no newer
(`RunsPlatform`). What the expansion leaves out of it is named (`Skipped`,
`Overlooked`). `BuildStep` is `UvSyncBuilder.build`: fetch the root,
fetch each wheel, create, sync, install, verify, copy the interpreter, rewrite
each alias, seal; `Break` is any of them raising. The index answers with any
status, any bytes and any final URL; uv installs anything; the links of a
virtual environment are one of seven layouts.

**Registration.** `at` is the place in `load_registration`; `files` is the
directory, which `EditFile` changes between two reads, `bundle` what was kept. A
part that is parsed from the bytes that were hashed is read once, the manifest and
the vocabularies twice, as in the code.

**ImageProvenance.** A payload is proposed, replaced, accepted and registered,
and an image built, in any order; an image's labels are what its build was given.

**QuantPlane.** `Measured` is the classifiers, `Dimensions` and `Selectors` the
vocabularies and the manifest, `Admit` the registry. After admission the adapter
of the interface declines or returns a value of the shape its code builds from
an engine's, which is any; fractions are integers over `Unit`. `ReadModel` and
`ScoreModel` are the two halves of `Rank._pinned_model`, with `TouchModel` (another
party) between them.

**Intake.** The four share no state, and what calls them is not in the
repository, so a behaviour does one of them. They are one run because the
question is one: is what a host takes in what somebody vouched for.

`PROJECT.json` "map" gives the lines each definition stands for.

## 3. What the runs check

`CHECK_DEADLOCK FALSE` is in every configuration because every component
really stops: calls end, bounds of the environment are used up.

| Run | Instance | Question |
|---|---|---|
| `cache_faults` | 2 callers, 2 calls each, root absent or unsafe, 2 files, any two different ones of 5 faults, 4 builds | `PublishedWhole`, `AnswersAgree`, `GoodEntryStays`, the refinement of `SealedStore` (`ImplementsStore`), and `CallsEnd`: nothing leaves the lock held or a caller waiting |
| `cache_fresh_root` | root absent, no faults | violation: see section 6 |
| `binding_revalidate` | 2 concurrent invocations, 2 artifacts of different manifests for one interface, another digest of it, trees of 2 files with 2 contents, one of them "nothing there", both backends, 4 outside changes, 1 quiet edit | `RunsUnderAcceptance`, `RunsSealedFiles`, `WatchVouches`, `BoundAsAccepted` |
| `budgeted_run` | leader and one child, cap 2, pipe 2, up to 4 blocks written, input that may not fit | `OutputBounded`, `OutputComplete`, `BreachKillsGroup`, `RunEnds` |
| `budgeted_orphan` | the same | violation: see section 6 |
| `invocation` | one declared and one stray endpoint, 2 credentials, one of which a placeholder spells and an error envelope's words contain, pipe 2, bundles of 2, 5 (the limit) and 6 blocks, local and container | `EgressHeld`, `ScrubbedNotRefused`, `RefusalArrives`, `BundleReachesProvider`, `InvocationReturns`, `WriterEnds` |
| `invocation_exit_paths` | the same | violation: see section 6 |
| `resolution` | 3 packages, 1 extra, up to 2 edges out of the root and 1 out of each other, an extra with an edge of its own, one faulty or local entry; every shape, cycles and self-edges included | `ResolvesClosure`, `SuccessIsFaultless`, `WalkEnds` |
| `container_entry` | every line of up to 3 tokens and eight longer ones, 6 descriptor tables, 7 delivered files, cap 2, chunk 2, pipe 2, 4 blocks sent, 3 moves by others | `BundleBounded`, `BundleWhole`, `NoNameLeft`, `ChildAsAsked`, `ShimEnds` |
| `web` | 8 urls over 5 hosts, 4 addresses, up to 2 redirects, bodies around caps of 1 to 3, inputs of every bucket, lists of up to 3 results | `NothingInternal`, `HeadersStayHome`, `LimitExact`, `ServesClaimed`, `ResultIsWhole`, `RunsEnd` |
| `search_range` | the same | violation: see section 6 |
| `intake` | 37 distributions with 2 edits, 849 builds, 7 payloads with 3 proposals and 2 builders, 1583 inputs of the seven interfaces | `BundleIsSound`, `BestWheelPicked`, `SealedAsPinned`, `SealedTreeIsClosed`, `VerdictIsContent`, `AnswersMatchInput`, `ScoresByPinned` |

Why the bounds are enough. *Cache*: every hazard needs a victim and one other
caller; a second call of each meets what the first left (an entry, a remainder,
a dead process's lock); two files are the least that can be half deleted, one
of them build-specific so that mixtures show; one fault of each kind in every
order reaches their pairs, and four builds cover every caller and call building
once. *Binding*: the shared state between invocations is `tree_watch`, which
takes two to race; setting up an accepted binding takes two changes
(registering interface and provider), so four leave two to withdraw, edit,
put back, or to rebuild the tree on either side of one read of a walk over two
files, which is what makes a walk agree with a tree that never was. *BudgetedRun*: one child is enough to hold a pipe past the leader; cap
and pipe of two let the cap be met exactly, passed by one block and passed by a
whole read, and by two streams each within it. *Invocation*: 5 blocks is more
than twice the pipe, so a bundle is cut twice; two credentials allow a partial
set, and of the two one is as awkward for redaction as the code lets one be and
the other is not. *Resolution*: a package met twice under different extras, through a cycle
and through the root, fits in three names. *ContainerEntry*: a file is renamed
away, linked and replaced in three moves, more than any check of the shim looks
at; cap and chunk of two let a bundle end below, at and past the cap within a
chunk. *Web*: a second hop is the first that can undo what the first was vetted
for, and a third request the first past the limit. *Intake*: two edits put a
file back; two packages suffice for one file name to displace another; three
proposals replace one and return to it; the class boundaries of the
quantitative vocabularies are scaled down (`Sizes`, `Unit`, `MinFit`) so that inputs
of two to six elements fall on both sides of each. The theorems of section 5 lift the
safety properties beyond all these bounds.

`RunsSealedFiles` and `WatchVouches` are conditioned on there having been no
quiet edit, `AnswersAgree` and `PublishedWhole` on no tampering and no failed
read: the code makes no promise there, and the same run lets the faults happen
so that the other properties are checked under them.

## 4. Fairness

 * `MaterializationCache!FairSpec`: WF of each caller's `Step`. A running
   process keeps running, and the kernel serves flock waiters. A caller starved
   by others is not excluded by WF alone, but calls are finite. Kills and
   tampering are never forced.
 * `BudgetedRun!FairSpec`: WF of the supervisor and of the clock. Nothing is
   assumed of the supervised processes, which may write nothing for ever.
 * `SecretInvocation!JointFairSpec`: WF of opening the channel, starting the
   run, the supervised run's end (that it ends is `RunEnds` of `BudgetedRun`),
   leaving and collecting, and the writer thread. Nothing of the child, the
   process it leaves behind, or that a preparation fails.
 * `Resolution!FairSpec`: WF of the loop, one thread of a running process.
 * `ContainerEntry!FairSpec`: WF of the shim and of its deadline. Nothing of the
   writer, which may stall for ever, nor of those who rename.
 * `WebAdapters!WebFairSpec`: WF of every step but those that wait for the far side
   (`Waits`). The timeout is of one read of the socket (`http.py:201`), so interim
   responses without end, or bytes that decode to nothing, keep a wait going for
   ever, past the cap too, and nothing is assumed of them. `RunsEnd` therefore says
   that a run ends or is left in one wait for good: by chains and bodies of any
   length, which the limits end, it is never kept going.

`Intake` has no fairness: it checks safety only.

## 5. What is proved

TLAPS checks the following for every value of the constants, under the
assumptions named in the modules (disjointness of sentinels from values, sizes
in `Nat`, a pipe that holds at least one block, `Declared \subseteq Endpoints`,
`Root \in Names`, answers of an index that are sequences of dates, the maps between
artifacts, manifests and interfaces, targets that declare what `tags.py` and
`MarkerEnvironment` say they do: within one family the newest first, and no macOS 10
after 10.16, `IsTarget`, and inputs whose fields have the types their contract or their
adapter's own check of them gives, `IsInput`). Where steps are counted, files, package
names and extras are finitely many.

| Module | Theorems | Inductive invariant |
|---|---|---|
| `MaterializationCacheProofs` | `TypeCorrect`, `OneMaterializerHolds`, `AnswersWerePublishedHolds`, `GoodEntryStaysHolds`, `PublishedWholeHolds`, `AnswersAgreeHolds`, `StoreImplemented`, `CallRunsOut` | `LockInv`, `SealInv`, `LookInv`, `CalmInv`, `HeldOnTheWay` |
| `BindingProofs` | `TypeCorrect`, `InterfacePinnedHolds`, `BoundAsAcceptedHolds`, `RunsUnderAcceptanceHolds`, `WatchVouchesHolds`, `RunsSealedFilesHolds` | `BindInv`, `SeenInv`, `GateInv` |
| `BudgetedRunProofs` | `TypeCorrect`, `OutputBoundedHolds`, `OutputCompleteHolds`, `AcceptedHasExitedHolds`, `BreachKillsGroupHolds`, `SupervisorRunsOut` | `Conserved`, `StreamsSettled`, `Progress`, `CapKept`, `EventsInHand` |
| `InvocationProofs` | `TypeCorrect`, `EgressHeldHolds`, `OkIsWholeHolds`, `ScrubbedNotRefusedHolds`, `RefusalArrivesHolds` | `Phases`, `HarnessKnows`, `DraftTrue` (`Truthful`), the outcome |
| | of the pipe: `ChannelInvariance`, `WholeBundleHolds`, `JoinNeverStuckHolds` | `Conserved`, `HoldersKnown`, `EndIsWhole` |
| | of the two joined: `JointInvariance`, `BundleReachesProviderHolds`, `OutcomesHoldInTheChannel` | `JointIInv` |
| `ResolutionProofs` | `TypeCorrect`, `ResolvesClosureHolds`, `SuccessIsFaultlessHolds`, `RefusalIsRealHolds`, `HashedOnlyHolds`, `WalkRunsOut` | `MetInv`, `DoneInv`, `HashInv` |
| `ContainerEntryProofs` | `ShimTypes`, `BundlesAreBounded`, `BundlesAreWhole`, `NothingIsLeftBehind`, `OnlyTheChannelIsInherited`, `ShimRunsOut` | `IInv` (`Counted`, what each place knows of the table and the file) |
| | of the command line: `ArgvInvariance`, `StartsAsAsked` | `ArgvIInv` (`Pairs`, `NamedOnce`, `CommandHonoured`) |
| `WebTransportProofs` | `TransportTypes`, `GuardedStayOutside`, `CredentialsStayHome`, `EveryRequestRecorded`, `ChainsEndAtTheLimit`, `BodiesStayUnderTheCap`, `ServedIsClaimed`, `RunsRunOut` | `TInv` (`Placed`, `Hops`), `Clean` |
| | of what is returned: `ListedIsFreshest`, `SearchIsFreshest`, `ResultsAreWhole` | `AdapterIInv` (`Underway`, `ResultIsWhole`) |
| `IntakeProofs` | `VerdictIsContentHolds`, `ScoresByPinnedHolds`, `SealedAsPinnedHolds`, `SealedTreeIsClosedHolds`, `BundleIsSoundHolds` | `ImageIInv`, `QuantIInv`, `FetchedSoFar`, `LinksIInv`, `RegistrationIInv` |
| | of the wheels: `CompatibleInstalls`, `WheelIsBest`, `BestWheelPickedHolds` | `ClosureIsPicked` |
| | of the answers: `AnswersMatchInputHolds` | `AnswerIInv` (`AdmittedIsMeasured`) |

The arguments:

 * *Cache.* `LockInv`: whoever is in the locked region holds the lock. `SealInv`:
   the seal on the entry, the seal a walk compares with and every answer are
   trees that were published; a walk that agrees with its seal has therefore
   read a published tree, whatever it walked through. `LookInv` is what makes
   the second look under the lock work: while the entry is good, what a locked
   walk has read agrees with it file by file, so it cannot end in a refusal; a
   caller that deletes or builds does so with the entry not good. Without it
   `GoodEntryStays` is not inductive, because nothing relates a half-finished
   walk to the directory. `CalmInv` is the undisturbed case: no entry and
   nothing published, or a good one, and nobody removing. The refinement maps
   published trees, answers and "tampered or unreadable" to `SealedStore`.
 * *Binding.* `SeenInv` carries what an invocation has checked as membership in
   its histories, which only grow while it is under way. `GateInv`: a recorded or
   pending fingerprint never exceeds the tree's mtime, and equality means that no
   file that was read has moved since (`WatchInv`, `FoundInv`); taking the reading
   after the hash breaks it. A run that skips the hash took its own fingerprint
   while another may have been hashing: whoever began that walk at a fingerprint no
   newer than the other's reading has had the same files before it (`FoundInv`,
   its last part), which is what the recorded fingerprint hands over (`PassInv`).
 * *BudgetedRun.* Bytes are conserved, and a stream that left the selector is
   empty and has no writer; nobody can reopen it because a child only inherits
   what the leader holds (`HeldOnlyShrinks`). So when the loop has ended and the
   leader has exited, taken equals written.
 * *Invocation.* `Truthful`: a draft envelope carries what was contacted during
   the call, the run id, and `ok` exactly for a whole returned ok. Every exit
   path is one case of the step proof. Of credentials the invariant follows each
   from what the package said into what a scrub leaves (`RedactionsLeave`): one the
   scrubber holds is left only if it is `Spelled`, any other only if it was there,
   and a text of which everything is held and nothing spelled is left clean
   (`Vanishes`), which is what a refusal needs to arrive.
 * *SecretChannel.* Material is conserved; the writer ends early only when
   nobody holds the read end, and the executor does as long as a child may read.
 * *SecretInvocation.* `JointNext` is put together from steps and stutters of
   `Invocation` and of the channel. That it implements both (the lemma
   `ComponentsKept`) holds by that construction and says nothing of the program; it
   only lets what is proved of either be cited of the two joined
   (`OutcomesHoldInTheChannel`). What is about the program is `JointIInv`, which adds to the two
   invariants where executor, harness and pipe are at the same time (`InStep`): a
   harness runs only inside its channel, and outside a container it reaches the
   call with the pipe read to its end.
 * *Resolution.* What has been met lies in the closure (`ClosureIsLeast`); when
   the queue is empty what is done is closed (`ClosureIsClosed`), hence equal.
 * *ContainerEntry.* After the last look at the file its link count is zero, and
   no name can be made of a file without one; what is drained is counted against
   what was sent, and the end of a pipe is only seen when no write end is left,
   the runtime's strays included. On the command line the tokens before the cursor
   are pairs of an option and its value (`Pairs`), and of those one names the
   delivery that was taken, or none does (`NamedOnce`); what follows them is the
   child's command.
 * *WebTransport.* `Clean`: every pinned and every kept address is outside, so it
   does not matter which of them a send uses nor how stale it is. Each step of an
   adapter is one of the client's or leaves it alone (`AdapterSteps`), so the
   invariants are shown once. `ServedIsClaimed` is by cases over the buckets, for
   every value of the ceilings. `ResultsAreWhole` is about a list of any length: the
   loop that keeps the recent answers is shown equal to a filter that keeps the
   order (`KeptIsLoop`), by the least number for which it is not. The library's
   induction theorems take an operator and cannot be used; that a set of numbers
   has a least one (`WFMin`) is stated over sets and can (`NumbersReached`).
 * *Intake.* Four components that share no state, each with its own invariant.
   *Image:* what registry and labels hold are payloads somebody wrote, and equal
   digests mean equal in all but the status (`DigestIsContent`). *Model file:*
   whatever is written to it, what was read is hashed before it scores.
   *Fetch:* a package that is not waiting was answered for with the pinned bytes; a
   dependency may displace another of the same file name until the sync hashes them
   all (`FetchedSoFar`). *Links:* once the interpreter is a file of the tree, making
   the aliases cannot lead it out again, so a name that leads into it stays inside
   (`PassedIsInside`). *Registration:* interfaces are read one at a time; those that
   are done are linked to their definition and covered by their fixtures
   (`InterfacesRead`), and a path is hashed before it is parsed (`Unparsed`).
   *Wheels:* the lists of tags are put together from pieces (`FlattenMembers`,
   `FlattenBefore`). What each declared platform expands to is what it runs less what
   `Skipped` names (`Expands`), the newer before the older (`ExpansionIs`); so is what
   they expand to together, because a
   platform declared later adds nothing newer to what an earlier one runs
   (`KeepsNewer`, `PlatformsAre`), which is where `IsTarget` is needed. A tag for a newer
   system therefore has the lower rank, and there is a least one (`LeastNumber`).
   *Answers:* what was admitted is in the bucket that was measured, and some selector
   of the manifest matches it (`AdmittedIsMeasured`). For the anomaly package that is
   all that keeps a gap out: each of its selectors spells `gap_profile=regular`
   (`ClaimedIsRegular`), so the values are the whole series (`ValuesWhole`) and a value's
   position is its observation's. A test and a reduction are found in the bucket by its
   segments (`SegmentOf`). The rest is what the adapters compute: edges, declared or
   of equal width, cover [0, 1] (`EdgesCover`), a prediction lies between those of its bin,
   short of the upper one unless the bin is the last (`BinHolds`, by the least edge above
   it), and in no other, because edges increase; a pair the engine scored agrees on a
   blocking field, so one that was not counted differs on another, and one that was
   counted agrees on all, so what keeps it from the engine is null in each (`PairsHold`);
   the manifest claims no other design for three families of five
   (`ClaimedIsIndependent`), and those have no paired test (`UnpairedTests`); the number of items ahead of one is different
   for each and below their number, so the ranking holds every item once
   (`RankingIs`); and a weighted sum of numbers is a number (`WeightedIsNumber`, by the
   size of the set that is summed), without which the ranking would have no order.
 * *Steps run out.* Five theorems are the half of liveness that the prover can do. Each
   defines what is left to do as a number (`StepsLeft`) and shows that every step of
   the component makes it smaller and that no step of anybody else makes it larger:
   `CallRunsOut`, `SupervisorRunsOut`, `WalkRunsOut`, `ShimRunsOut`, `RunsRunOut`. So
   however the others interleave, a component takes a bounded number of steps,
   whatever the constants are. It takes an argument wherever the code goes round: the
   walk's number counts an item not seen for more than all that can be queued at once;
   the supervisor's a block the cap leaves for more than the select before it, which
   needs that a select never returns with nothing to handle (`EventsInHand`); the
   shim's drain may wait only once before each read, because what it waited for is
   still there when it wakes (`Ready`); the cache's call has three walks and a removal
   ahead of it at most, and the lock it waits for is held by a call on its way to
   release it (`HeldOnTheWay`). What is missing to liveness is that a step is taken:
   fairness and ENABLED.

Proved and no longer checked by a run of their own, because a stronger or a
deeper property of the same run fails with them: the type invariants,
`OneMaterializer`, `AnswersWerePublished`, `InterfacePinned`,
`AcceptedHasExited`, `OkIsWhole`, `WholeBundle`, `JoinNeverStuck`, `RefusalIsReal`,
`HashedOnly`, `ChildInherits`, `AllRecorded`, `BodyBounded`.

Only model-checked: the liveness properties (`CallsEnd`, `RunEnds`,
`InvocationReturns`, `WriterEnds`, `WalkEnds`, `ShimEnds`, `RunsEnd`), which are out of
the prover's reach; for all but `InvocationReturns` and `WriterEnds` the bound on the
steps is proved. Every invariant and every action property of the runs is also a
theorem.

## 6. Where code and documentation disagree

Four runs expect a violation; each shows a sentence of the repository that the
code does not keep.

 * `cache_fresh_root`. "Concurrent binds contend on a per-digest lock: exactly
   one materializes, and both verify the same sealed tree" (`cache.py:219`).
   `ensure_root` runs before the lock: two first binds both find the root absent
   and both call `mkdir` without `exist_ok`; the second fails with
   `FileExistsError`. With the root in place the sentence holds
   (`cache_faults`).
 * `budgeted_orphan`. "so that a breach kills any grandchildren it spawned rather
   than orphaning them" (`budget.py:119`). `_terminate` returns when the leader
   has exited, so a breach found after that (a child holds the output open until
   the deadline) leaves the rest of the group running. A breach found while the
   leader runs does kill the group (`BreachKillsGroup`, proved).
 * `invocation_exit_paths`. The recorder is "read on EVERY exit path"
   (`child.py:117`). A provider that exits (`SystemExit` is no `Exception`), or
   refuses with a detail that has no canonical encoding, leaves no envelope;
   the executor refuses the run, with no trace to compare. Such a run is never
   accepted (`EgressHeld`, proved), so what is lost is the attribution.
 * `search_range`. "Submitting the *narrower* range would lose results the run
   asked for, which is the failure that cannot be repaired downstream"
   (`search.py:275` of the web plane). A bound above a year is served, and `year`
   is submitted for it, which is narrower.

Met while modelling, and no violation of their own. The properties of `intake`
describe what the code does in these places and how far it is from what is written,
so they hold and do not show the sentence kept:

 * `tags.py:140` promises "Every macOS deployment target at or below the declared
   one"; for major 11 and later the code (`tags.py:148`) takes every major with minor
   0 and never looks at the declared minor. A target that declares `macosx_12_3` is
   given no wheel of that very tag, though `tags.py:24` calls it the most preferred it
   supports. `BestWheelPicked` is stated over what the tags mean, and excepts what
   `Skipped` names: such a wheel is passed over, or leaves a package without one.
 * Quantitative plane. `linkage.py:216` gives the engine one blocking rule per
   field, which pairs records that agree on *any* of them; the classifier measures
   blocks that agree on *all*, with null equal to null. `pair_space` ("candidate
   pairs after blocking") is thus not of the pairs that are scored, in either
   direction. `PairsApart` says by which pairs they differ, for any fields and nulls.
 * `calibrate.py:113` calls its bins right-closed; `searchsorted(side="right")` on
   the inner edges makes them left-closed, all but the last, which is what `BinsHold`
   says. Every prediction still has one bin.
 * `classifiers.py:569`: a sample with one outcome class counts as balanced.
 * `stat_test.py` compares the declared family with the test's and never the
   declared design: `paired_t` under `design=independent` is admitted, recorded as
   independent, and run, and `chi2_contingency`, which pairs nothing, under `paired`.
   `TestAsRecorded` holds the design to the test for the three other families, of
   which the manifest claims one design only.
 * `anomaly.py:159` takes a point's timestamp by position among the values that
   are there. Right only in a series without gaps, which the manifest's claim
   alone guarantees (`AnswersMatchInput` fails with a wider claim).

## 7. Known limits and abstractions

Limits of the code that the models show and no property demands away:

 * The digest a binding compares with is taken after, and apart from, the
   cache's verification of the tree (`binding.py:424`); a write between the two
   becomes the baseline. `BindMaterialize` and `BindDigestFile` are separate steps.
 * `tree_digest` (`cache.py:40`) reads file by file and nothing holds the tree still. A
   rebuild under the walk, at bind or before a run, can give a digest of files that
   were never there together. What holds of a run is said of each file
   (`RunsSealedFiles`); of the tree as a whole it holds of the recorded fingerprint
   (`WatchVouches`), and of an invocation under which nothing was edited.
 * An edit that moves neither the entry count nor the newest mtime
   (`binding.py:76`) is not seen by the gate until the fingerprint moves.
 * What a thread of the provider contacts after the recorder was read
   (`child.py:178`) is in no trace; `EgressHeld` is about the call itself.
 * Scrubbing can fail to help. A credential that a placeholder spells is put back by
   the scrub that removes it, one that an envelope's own words contain is found in
   every envelope or, if the harness holds it, takes the envelope with it
   (`secrets.py:150`): an executed run is then refused. What else can lose a run to a
   credential is a package that knows one before it was handed it.
   `ScrubbedNotRefused` says that this is all.
 * A web run has no deadline of its own: a server that keeps a read going without a
   byte of content keeps the run (`http.py:201`). What ends it is the executor's
   deadline (`RunEnds` of `BudgetedRun`).
 * A process the child leaves behind keeps the read end of the credential pipe,
   so closing the executor's copy gives the writer no EPIPE; the join times out
   after 5 s and the thread stays (`secrets.py:105`). `WriterEnds` is
   conditioned on that process letting go.

Abstractions:

 * A digest names its preimage: SHA-256 has no collisions and canonical JSON no
   two encodings of one value.
 * A text is the set of the credentials it repeats. Which of them a placeholder can
   spell and which the envelope's own words contain are constants, any sets; that a
   placeholder does spell one is a choice, since it rests on the text around it.
   Strings are taken to be encodable.
 * Field validation, messages, version parsing and logging are left out; where
   a check only passes or refuses it is one alternative of an action.
 * `admit` is "succeeds or refuses" in `Binding` and `Invocation` and modelled in
   full in `QuantPlane`; the builder likewise in the cache and in
   `EnvironmentBuild`. The lock checks of `bind` are "succeeds or refuses". Markers
   are an input of `Resolution`.
 * `ContainerEntry` counts a bundle in blocks. Its bytes, and the JSON in them, are
   the harness's. Where the platform has no directory of descriptors the sweep is
   left out (`listable`).
 * `WebTransport` has no DNS cache, proxies or TLS: the guard's resolver answers
   anything, a connection fails or not. Times are hops, not seconds.
 * Engines of the quantitative plane return any value of the shape the adapter
   relies on; rounding of floats at a class boundary and the assumption report of
   `stat.test` are left out.
 * The executor's `RunContext` checks are one alternative each of `Prepare`.
 * Variables commented "history" exist for the properties only.

Not modelled, and why, is in the notes of `PROJECT.json` "components". In
short: the document plane (one third-party conversion per run), the workspace and
no-op planes, digests and canonical encoding (hashes), the container's argument
list, captured responses, packaged recordings, the repository's digest gates,
test support and scaffolding.

## 8. Plan

Modules in order, most important first; all of the first plan are done.

 1. `MaterializationCache` over `SealedStore` - done, proved.
 2. `Binding` - done, proved.
 3. `BudgetedRun` - done, proved.
 4. `Invocation`, `SecretChannel`, `SecretInvocation` - done, proved, with the
    refinement that joins them.
 5. `Resolution` - done, proved.
 6. `ContainerEntry` - done, proved.
 7. `WebTransport`, `WebAdapters` - done, proved.
 8. `EnvironmentBuild`, `PlatformTags`, `Registration`, `BucketSelectors`,
    `ImageProvenance`, `QuantPlane` in `Intake` - done, proved.

Left: a checked refinement between `ContainerEntry` and the `ShimDelivered` action, and between `EnvironmentBuild` and
the cache's `Build`; the one-package rule of the digest gates and the line
splitting of the workspace plane as algorithms.

## Running

    tlc -workers 2 -config MCBinding.cfg MCBinding.tla     # any MC module and cfg
    tlapm BindingProofs.tla                                # any *Proofs module
