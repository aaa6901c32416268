# rules_elide in TLA+

rules_elide is a Bazel ruleset that builds Java and Kotlin with the Elide
toolchain. Most of it is Starlark that runs at analysis time; the parts with
state that lives from one request to the next are two persistent workers (one in
Java, one in Kotlin) and the caches Bazel keeps of actions and repositories.
Beside them a release tool rewrites a document in place. This directory models
those parts, checks them with TLC on small instances and proves most of what the checks
show for instances of any size with TLAPS.

Paths below are relative to the root of the repository.

## 1. The system

| Component | Code | State | Operations | Model |
|---|---|---|---|---|
| Incremental Kotlin worker | `elide/private/ic_worker/IncrementalWorker.java` | `states` (signature and directory per output jar), the scratch directory, one resident compiler process, output jars | `main`, `handle`, `signature`, `compile`, `pack`, `remove`, `close`, the shutdown hook | `IncrementalWorker`, `ICShutdown` |
| Worker protocol codec | `elide/private/ic_worker/WorkerProtocol.java` | none | read and write varints, frames and fields; requests, their rewriting, responses, errors | `WorkerProtocol`, `IncrementalWire` |
| Kotlin builder worker | `elide/kotlin/builder/Main.kt`, `ElideWorker.kt`, `ElideCompile.kt` (`run`) | the resident Elide process, its pipe and ids, the record file, temporary files, output artifacts | main loop, `handle`, `compileCmds`, `send`, `bail`, `close` | `KotlinBuilder` |
| Kotlin builder planning | `elide/kotlin/builder/Flagfile.kt`, `Router.kt`, `BuiltinPlugins.kt`, `ElideCompile.kt` (`plan`), `Jdeps.kt` | none between requests | parse, route, rewrite plugins, plan, write jdeps, strict dependencies | `KotlinRouting` |
| Compile rules | `elide/private/compile_common.bzl` and the rules that call it | Bazel's action cache: what each action last read, which inputs it forgot | register actions; edit, build, run, fail | `CompileActions` |
| Module extension and repositories | `elide/extensions.bzl`, `elide/private/{versions,hub,download}.bzl` | tags read so far, repositories, the hub's toolchains, what a repository holds | visit tags, wire, fetch in steps | `ElideExtension` |
| Kotlin toolchain for rules_kotlin | `elide/kotlin/toolchain.bzl` | none | which tool each kind of action reaches | in `KotlinRouting` |
| SBOM of a release | `tools/sbom_enrich.py`, `.github/workflows/release_prep.sh`, `tools/sbom_prep.sh` | the SPDX file, `MODULE.bazel`, the document in memory | scan, load, parse, add, truncate, dump, publish | `SbomEnrich` |
| Rule declarations, toolchains, annotation-processing declarations, launchers, native image, format and JVM tools | `elide/private/rules/*`, `elide/toolchain*`, ... | none | build providers or register one action | section 7 |
| Elide compilers, Bazel, the stock rules_kotlin builder, ijar, singlejar | not in the repository | | | modelled from their use, see section 5 |

How they interact: the extension makes the repositories that hold the compilers.
The compile rules register actions; an incremental Kotlin action is executed by
the incremental worker, other `elide_*` actions call Elide directly, and
rules_kotlin targets reach the Kotlin builder through a toolchain. Both workers
read `WorkRequest`s from Bazel on standard input one at a time, own one child
process each, talk to it over a pipe without a timeout, and answer on standard
output. The jars they leave are inputs of other actions.

What is hard about it:

* Incremental worker: a directory is reused on the strength of a signature that
  *leaves out* sources and classpath jars, because the compiler's incremental
  cache tracks those. Every failure (a compile error, a broken pipe, a wrong id,
  a failed `pack`, a failed removal) must drop precisely the state that is no
  longer known to be good, and the shutdown hook runs beside a main thread that
  holds no lock.
* Kotlin builder: the resident can die before, during or after a request,
  answer late, twice or without an id; the request must still be answered once,
  with the outputs of *this* request.
* Routing: a setting must neither be lost between rules_kotlin's flagfile and
  Elide's command line nor be applied twice, and every declared output must be
  made by some command.
* Compile rules: pruning tells Bazel to ignore changes of inputs. Headers and
  ijars hide bodies from dependents. Both must never leave a stale output after
  any sequence of edits, failed builds and rebuilds.
* Extension: tags of several modules arrive in any order; repositories are
  fetched in any order and in steps that can fail.

* Codec: hand-written protobuf that must reject what is cut or malformed, keep
  two messages on one pipe apart, and hand on every field it does not know.
* SBOM: the file is rewritten in place by a script that may end anywhere, and
  the tool may be run again over its own output.

What makes each correct is the list of properties in section 3; the hazards
they are aimed at are in `PROJECT.json`, each with its source line.

## 2. Modules

`Build` holds the vocabulary of a compile: files, options, requests, contents,
and `CleanJar(r)`, the jar a clean build of `r` makes. Contents are abstract: a
class records the source and everything it was compiled from, so two jars are
equal only if nothing that matters differed.

`CleanBuild` is the abstract specification of a compile service: accept one
request, touch only that target's output while working, answer once under the
request's id, with success only over a good output; or die. Both workers are
shown to implement it, each with its own notion of "good".

`IncrementalWorker` (EXTENDS `Build`). One action per step of the code that can
fail or be interrupted by a failure of the compiler:

| Code | Actions |
|---|---|
| `main` 182-206: read, handle, write | `Receive`, `Respond`; `Die` and `Restart` for the process |
| `handle` 122-131: no output in the arguments | `Reject` |
| 132-142: signature, reuse, reset | `Signature`, `Reuse`, `Reset`, `ResetFails`, `TempDirFails`, `MkdirsFails` |
| `compile` 94-105: start, forward, read the response | `Compiles`, `CompileError`, `CompilerDies`, `BrokenPipe`, `DiesIdle` |
| 143-150: publish or forget | `Publish`, `Forget` |
| 151-159: the catch block | `Abandon`, in `TransportFails`, `PublishFails`, `ForgetFails` |

The hash of `signature` is a record of what is hashed; that SHA-256 does not
collide is taken for granted. `states[o]` is the signature of the retained
`State` (or `None`) and `roots[o]` what its directory holds, the classes and the
cache, which are two things: a torn directory may have one without the other.

`WorkerProtocol` is the codec of both pipes of that worker. It has no state:
`ReadVarint`, `ReadFrame`, `Fields`, `RequestOf`, `WithArguments`, `ResponseOf`
and `ErrorBytes` are the methods of the same meaning, over sequences of bytes.
A `long` is its ten digits to the base 128, because TLC's integers have 32 bits;
the cast `(int)` is `AsInt`. A cursor is an argument, an `IOException` the value
`Malformed`, and recursion over groups a function of the depth. The limits (100
groups, 64 MiB) are constants. A length has at most four digits (`Size`, 256 MiB, which the code's limit is well
below) and an id has 32 bits (`Word`). The module also holds the wire format as a grammar
(`IsMessage`, `IsField`) to compare the parser with. It has no cursor: it says
which byte strings are varints, tags and counted bytes, and which stretches of a
string are fields, as the solution of an equation over shorter stretches and
deeper groups. `IncrementalWire` puts the codec beside the worker and states what
the worker needs of it at the point of the main loop that uses it.

`ICShutdown` zooms in on the end of the same process: two threads (`main`,
`hook`), the unlocked field `compiler`, which a thread may read stale (it is
neither volatile nor, in `handle`, locked), the tree `remove` walks in reverse
order of paths, the monitor of `close()`, and the processes. It deals with one
target and leaves out the signatures. Of `handle` it keeps every path on which
the compiler lives or dies: a write that blocks (`Write`, `WriteFails`), the end
of the stream, a wrong id, a compile error that gives up the directory (`Forget`),
a `pack` that fails on its walk or on a copy; of `close()` the two reads of the
field, closing the compiler's stream (`Shut`, which has to enter the monitor a
blocked write holds), the bounded wait and the kill.

`KotlinBuilder`: `Receive`, `Stock` or `Unpack`, `NewReport` (the two temporaries
are made one after the other, before the `try`) and `Plan`; `Start`, `Send` and
`Tee` (write and flush, then the record file) and the resident's side
(`ResidentCompiles`, `ResidentDies`, from the flush on), `Accept` or `Bail`, `Rest`
(the second command), `OneShot`, `Deps`, `Answer`, `EndOfInput`. The pipe is a queue
of responses with ids; the record file is a sequence of requests, whole or torn;
`Faults` names everything that may go wrong.

`KotlinRouting` follows one request: `Read` (`Parse` of the tokens rules_kotlin
wrote), `Choose` (`RouteOf`), after `Launched` has told whether the toolchain
gives the action to the builder at all (KSP2 without native tools stays with
rules_kotlin: `StockKsp2`); then `Stock` or `MakePlan`, `RunCommand` for each
command, `Deps`. Tokens are strings, and what the code learns by looking into a
string (it begins with `--`, it names a plugin jar) is a constant. `Args` is what
the compile's command line says: sources and source jars, classpath and friends,
module name, target label and versions, passthrough flags, plugins and their
options, processors and the `-A` options of the javac options.

`CompileActions`: the graph of actions each target registers (`KindsOf`,
`Inputs`, `Outputs`, from the conditions of `compile_common.bzl`) under Bazel:
`Edit`, `Build`, `Run`, `Fail`, `Built`. A file's content is a tree of
declarations and code: a header keeps the declarations only. Of `javac_opts` and
`kotlinc_opts` each rule says whether one asks for processing; the two are looked
at by different conditions (133-141, 279-283, 399). What a dep exports as
annotation processors is a set of targets whose jars the processors are
(`java_plugin`, which wraps them, is not of this repository); where Bazel's own
`java_common.compile` takes over (`ByBazel`, 540-557) it loads those, and has the
compile jars of the plugins on its classpath.

`ElideExtension`: `Visit` (one module's tags), `Wire` (`UseLocal`, `UseRelease`,
`Install`, `NoInstall`, or `Fail`), then `Base`, `Overlay`, `Restore`, `Link`
and `FetchFails` for each repository.

`SbomEnrich`: `Scan` (syft) or `StartByHand`, then the steps of
`sbom_enrich.py`: `Load`, `Parse`, one `Add` or `Skip` for each dependency,
`Truncate`, `Dump`; then `Publish` if the release script runs. `Crash` may follow
any step, and `Edit` changes `MODULE.bazel` between runs. `MODULE.bazel` is a
sequence of statements with the order of their keywords, some of them comments,
since the pattern looks at the one and not at the other; `Sanitize` is the substitution that makes an id of a name and
may send two names to one id.

The `MC*` modules give the constants their values. `X_proof` holds the theorems
about `X` (section 6) and `Lemmas` what several proofs need of numbers and
sequences. A definition whose comment says it is a mutant
(`ExemptEveryJar`, `BailSendsAgain`, ...) is used by no specification: it is a
plausible bug, listed in `PROJECT.json`, that makes the property it is listed
with fail and so shows that the property can fail. `PROJECT.json` also maps
every definition to the lines it models.

## 3. What is checked

Properties, by run. Each finishes within two minutes on two cores.

### `ic_core`: the incremental worker and its codec (109,272 states)

* `KeptTogether`: a retained directory holds classes and a cache that some one
  set of contents explains, together with the signature it is kept under.
* `SuccessIsClean`: a success is given only over the jar of a clean build.
* `NoStateWithoutCompiler`: after a compiler is given up, every target starts
  from an empty directory.
* `ImplementsService`: the worker refines `CleanBuild`.
* `Answered`: a request read is answered unless the process ends.
* `ParsesLegalMessages`: the parser accepts exactly the messages of the grammar
  and their fields, one after another, are the message.
* `FramesKeptApart`: a frame is read whole and the next is untouched; a frame cut
  anywhere is an error, never a shorter message or the end of input; lengths of
  more than five bytes or above the limit are refused.
* `RewritingKeepsRest`: with other arguments a request keeps its id, its inputs
  and every other field byte for byte and in order.
* `ErrorsCarryTheirId`: an error carries its id, whatever its 32 bits, and an id
  below zero is read alike from ten bytes and from five.

Bounds: two outputs, so that one target's failure can disturb another's state;
two sources, so that one can be deleted; one jar, one other input (a plugin);
two contents, enough for "changed and changed back", since properties compare
contents for equality only; two ids, for an answer under the wrong one; one
plain and one conservative option. The twelve requests edit each kind of input,
delete a source, drop the jar, change the option, come without digests (the
one-shot path) and name no output. All faults but `midway` (see the next run).
Deadlock is checked: the worker always can go on or be restarted.

The four properties of the codec quantify over byte strings: all of up to three
bytes out of twelve (the tags of fields 1, 2 and 3 with each wire type, short
lengths, the continuation bit), all of four out of seven, and about sixty longer
ones: varints of ten bytes with each last byte, tags of 32 bits and more, groups
nested to `MaxDepth` = 2 and beyond, inputs with path and digest, texts that are
not UTF-8, messages at and above `MaxMessage` = 130, which takes two length
bytes. Both limits are reached from either side. They do not depend on the
worker's state, so TLC evaluates each once.

### `ic_shutdown`: termination (81,851 states)

* `TerminationEnds`: once the hook starts, the process halts whatever the main
  thread and the compilers do, unless the main thread is stuck in a write to a
  compiler that does not read (`ic_shutdown_stuck` below).
* `QuietEndCleansUp`: if the main thread was not at work after the signal,
  nothing is left on disk.
* `NormalEndStopsCompiler`: the end of input leaves no compiler running, also
  when an earlier request gave one up that was alive: after a wrong id, or after
  `pack` or a removal failed (line 154).

Two class files, so that a walk and a deletion can interleave between them; two
requests, so that a second compiler can follow a first.

### `kt_builder`: the Kotlin builder worker (1,223,880 states)

* `ImplementsService`: one answer per request, under its id, and a success only
  if every artifact wanted was built from this request's inputs.
* `RecordedWasSent`: the record file lists, in the order they were sent, requests
  a process took and no others, and does not lack the one whose response is
  awaited. Recording before the flush, a failed write, a death between the flush
  and the record and a rerun could each break it.
* `TryCleansUp`: between two requests no temporary file is left by anything that
  fails from the `try` on. What fails before
  it may leave one: `NoTempsLeft` in the list below.
* `Answered`: a request in the handler is answered.

Two targets, two builds (to tell an old response's outputs from new ones), five
requests that cover source jars, native jdeps, reported, stubbed and no jdeps,
the stock builder and a worker without a resident; `MaxId` = 3 compiles sent, so
that a duplicate response of the first can meet the third.

### `kt_routing`: planning (20,436 states)

* `DeclaredMade`: every output the request declares is written when it succeeds.
* `PluginsOnce`: a plugin named on the plugin classpath, in the passthrough
  flags or in both is loaded exactly once, as its jar or as Elide's builtin.
* `NothingLost`: the compile's command line has every source and source jar, jar,
  friend, name, version, label, passthrough flag, plugin option, processor and
  processor option the flagfile asked for, under whichever of its names a setting
  was written; plugins are `PluginsOnce`. What goes elsewhere (stub plugins on a plain compile, the label of
  the jdeps this builder writes itself) is not on it and not claimed.
* `StrictDeps`: after commands that succeed, a native request fails exactly if it
  is in mode `error` and some jar of its classpath is used explicitly without
  being direct.

Compile, KAPT and KSP2 requests with every combination of the optional outputs
and settings in `MCKotlinRouting`, under all four toolchains (native tools or
not, `jvm-abi-gen` or not), and every result the compiler may report on jars.

### `actions_avoid`: compile avoidance (402,053 states)

* `Current`: after a build every output is what its action makes of the present
  inputs, whatever was edited, forgotten or failed on the way.
* `BodyEditsStayLocal`: edits of bodies rerun only actions of the targets edited
  and actions into whose compile, or into one they are compiled against, an edited
  target is loaded as a plugin. The second half is needed for plugins of plugins:
  a plugin may generate what others see.
* `JavaHeadersComplete`: what dependents of a Java target compile against
  declares every class of its full jar.

Nine graphs of three targets: no headers, separate and combined headers, ijars,
pruning on and off, an incremental target, a plugin, a plugin of a plugin, exported
processors with and without a plugin beside them, processing options of either
compiler, associates, resources and resource jars. Two edits, with failed compiles wherever an edit is
left: one to change a use (so that an input becomes forgotten or needed), one to
change what it refers to.

### `extension`: versions and repositories (16,656 states)

* `HighestInstalled`: no version of three numbers that a module asked for outranks
  the one installed. What the docstring says of other versions is not what the code
  does: `IrregularLast` in the list below.
* `PythonForAll`: Python asked for by one module is there on every platform of
  the version chosen, or the extension fails.
* `RootDecides`: repositories get another name or URL only if a tag of the root
  module says so.
* `ToolchainsHaveRepos`: each toolchain of the hub names a declared repository.
  It is stated for modules with at least one tag; without any it fails, which is
  `NoEmptyToolchain` in the list below.
* `ReadyToRun`: a repository that is used has an executable binary of the right
  kind (base or Python overlay).

The root and one dependency, eight versions (`1.10.0` against `1.6.2`, a
prerelease against its release, a build suffix, `1.6`, `latest`, one that is not a
number), overlays for all, some or no platform, two platforms and a foreign one.

### `sbom`: the SBOM of a release (14,386 states)

* `PublishedIsExact`: what is published holds what syft found and, beyond that,
  only packages of dependencies declared at that time, development ones too, each
  with its name and version, and one `DEPENDS_ON` for each. Every dependency whose
  id is its own has its package; `OnePackageEach` in the list below is about
  those that share one.
* `ScanKept`: a whole document always begins with what syft found; a file torn by
  an interrupted rewrite is never taken for an empty one.
* `IdsUnique`: no two packages share an id and no relationship dangles, over
  edits, reruns and names that become one id.
* `RerunChangesNothing`: with the `MODULE.bazel` it was last enriched for, the
  tool writes the document it read.

Four names of which two become one id, two versions, four `MODULE.bazel` (a new
version, another order, an override with a dependency that has no version, an
empty one) and two scans, with and without `documentDescribes`. No bound on runs
or edits is needed: ids are unique, so the document cannot grow for ever.

### Runs that find a disagreement

Each checks one statement of the repository's docs or comments that the code
does not keep; `PROJECT.json` quotes them under "findings".

| Run | Property | What the trace shows |
|---|---|---|
| `ic_reset_fails` | `NeverReusesUnknown` | A reset calls `remove(state.root)` outside the `try` (line 133). If it fails midway the old `State` stays, over a directory that lost classes and kept its cache, and a request with the old signature compiles incrementally in it. |
| `ic_shutdown_jar` | `CompleteJars` | The hook deletes class files while `pack` copies them; the response says success over an incomplete jar. |
| `ic_shutdown_stuck` | `HookFinishes` | The main thread is blocked in a write to a compiler that does not read (line 99) and holds the monitor of its stream. The hook's `close()` flushes that stream (166) and never reaches the bounded wait (168). |
| `kt_noreport` | `StubWithoutReport` | `usedReport.exists()` is always true, because the builder created the file; without a report the jdeps call every entry unused instead of being the documented stub. |
| `kt_routing_javacopts` | `RetainsSettings` | `--release 21` among the javac options is taken for a flag of the flagfile; the router sees no javac option and Elide never gets it. |

### Other disagreements

The following definitions state a doc or a comment too, and the code breaks them.
No run is kept for them; each is seen by adding the definition to the invariants of
the configuration named, with the change given.

* `NoTempsLeft` (`kt_builder.cfg`). `Main.kt` 64-65 says of the source jars'
  directory "clean up the temp dir after". `createTempFile` (71) may fail after
  `createTempDirectory` (66), both before the `try` (75): the directory stays.
* `Replayable` (`kt_builder.cfg`). `ElideWorker.kt` 34-36 tees "every forwarded
  request byte-for-byte for offline PGO replay". When a write to the record file
  fails midway the process is given up and the file kept (93); the next request is
  appended behind the torn one, and the file cannot be read past it.
* `AdvertisedJdepsComplete` (`actions_avoid.cfg` with `Graphs <- MCProcessed`). The
  repository's `README.md` 245-247 says "mixed targets expose separate Java and
  Kotlin reports rather than an incomplete combined proto". With processors only the
  Kotlin compile has a report (`compile_common.bzl` 503), and it is advertised as
  the jdeps of the whole target (599).
* `IrregularLast` (`extension.cfg`). `versions.bzl` 241 says "Non-numeric or short
  versions sort lexically after numeric ones". The code pads short ones with zeros
  and puts the others below all (256-258), so a pinned release is installed where
  the docstring has the other version chosen, and refused as unknown.
* `NoEmptyToolchain` (`extension.cfg`). `hub.bzl` 47 says "Register a toolchain only
  for platforms that actually have a repo". When no module has a tag no repository is
  declared (`extensions.bzl` 186), and the hub registers one for each platform.
* `OnePackageEach` (`sbom.cfg`). `sbom_enrich.py` 5-7 says it "adds one SPDX package
  per direct `bazel_dep` (name + version)". `rules-java` and `rules_java` become one
  id (37), and the second is skipped as listed already (38). With
  `Modules <- MCUnusual` it and `PublishedIsExact` fail for another reason: the pattern (20) does not match
  a `bazel_dep` with its version first, and matches one in a comment.

## 4. Fairness

* `IncrementalWorker!FairSpec`: `WF(Handle)`, the main thread runs on to its
  response, and `WF(Compiler)`, a live compiler answers or dies. The second is an
  assumption on the compiler: the code reads the pipe without a timeout, so a
  compiler that does neither hangs the worker. Nothing forces Bazel to send
  another request, nor the process to die or be restarted.
* `ICShutdown!Spec`: `WF(Main)` and `WF(Close("hook"))`, the two threads are
  scheduled. Nothing forces a compiler to read what is written to it (`Write` is
  not among the fair steps of `Main`), to answer or to exit, Bazel to close the
  input, or a signal to come. `Wait` is also the timed wait that runs out.
* `KotlinBuilder!Spec`: `WF(Work)` for the builder, `WF(Elide)` for the resident
  (it answers, or a death lets the builder go on), for the same reason.

The codec and `SbomEnrich` promise nothing that must happen: the release script
may end at any step and nobody must start it again. The other modules have no
liveness property and no fairness. They say
`CHECK_DEADLOCK FALSE` (but for `SbomEnrich`, where a scan is always possible)
because a request, a sequence of edits or an analysis
really ends; so do the workers when their input ends.

## 5. Assumptions on code outside the repository

* The Elide incremental compiler tracks the digests of sources and of classpath
  jars, recompiles what they reach, and tracks nothing else. `Dirty` and
  `Incremental` say so; lines 60-61 and 82-83 of the worker rely on it. A failed
  compile may have updated any part of classes and cache.
* A killed process is gone at once. `destroyForcibly` does not wait, so a dying
  compiler may still write under `scratch`; its effect on the worker, a
  removal that fails, is a fault of its own.
* The resident Elide process answers under the request's id or leaves ids unset.
  One that leaves them unset *and* answers twice is excluded: nothing in the
  protocol could tell its responses apart.
* rules_kotlin sends KAPT actions only with processor names and puts no KSP
  plugin on them; requests that mix these are left out of `kt_routing`.
* Bazel reruns an action only if an input it did not forget has changed, never
  uses outputs of a failed action or a repository whose rule failed, and lists
  the root module first. Compilers read the declarations of the classes used;
  processors and plugins may read whatever is on the classpath.
* The JDK's UTF-8 decoder accepts well-formed UTF-8 only (`IsCharacter`), and
  writing a string back gives the bytes it was read from. So what is sent as a
  text has a UTF-8 form (`TextsAssumption`); half a surrogate pair would be
  written as `?`.
* syft writes a whole document with unique ids or fails, and gives no package an
  id of the form `sbom_enrich.py` makes. Which documents it writes is a constant.
* In the passing run of `SbomEnrich`, `MODULE.bazel` gives each name before its
  version and has no `bazel_dep` in a comment, as the repository's: `MCUnusual`
  has both. The archive and `MODULE.bazel` are of one commit.
* When `createDirectories(scratch)` fails in the catch block, every later request
  that needs a fresh directory is answered with an error until the process is
  restarted. The model keeps this behaviour (`scratch` stays false); that the
  worker heals is not claimed.

## 6. What is proved

Each theorem holds for all values of the constants that satisfy the named
assumptions of the module it is about (sentinels are no values, requests and
graphs are well-formed), with no bound on files, targets, requests, edits, scans
or versions but the ones the module names. Where a theorem has a hypothesis of its
own it is given here, with the run or code that shows why it is there. In each module the
inductive invariant is a conjunction of named parts, each with its lemma "a step
keeps it", in which every action is a step; TLC checked every part on the
instances of section 3 before it was proved, but for the ledger of
`CompileActions_proof`, which quantifies over too much to enumerate.

### `IncrementalWorker_proof`

* `TypeCorrect`: `TypeOK /\ AtEachPoint`. `AtEachPoint` is what holds
  where `pc` stands: past the check of the output it is a real output, at "ready"
  its State is the one of this request's signature, and so on.
* `ClassesAndCacheTogether` (`KeptTogether`), `SuccessfulJarsAreClean`
  (`SuccessIsClean`) and `WorkerImplementsService` (`ImplementsService`), if
  `"midway" \notin Faults`; `ic_reset_fails` is the counterexample without it.
* `NothingOutlivesCompiler` (`NoStateWithoutCompiler`), under any faults.

The argument. Neither safety property is inductive: `SuccessIsClean` speaks of
the moment of the answer, and what makes it true was decided when the directory
was chosen. The inductive invariant is `TypeOK /\ AtEachPoint /\ ReadyToBuild /\
BuiltClean /\ KeptTogether /\ SuccessIsClean`:

1. `KeptTogether`: whatever is retained is explained by some contents. This is
   what a failure could break; each failing action drops the State, empties the
   directory or, while the reply is still to be looked at, has its target
   excepted by `InDoubt`.
2. `ReadyToBuild`: a request without digests compiles in an empty directory.
3. `BuiltClean`: a successful reply leaves the directory with a clean build. It
   follows from 1 and 2 by `IncrementalIsClean`, the heart of the proof: if a
   directory agrees with the request's signature, an incremental compile in it
   leaves what a clean build leaves. The reason is `HashedOrTracked`: every input
   that can change a class is hashed by the signature or tracked by the cache,
   so an input that differs resets the directory or makes the class dirty. A
   class that is not dirty was made from the contents of this request.
4. `SuccessIsClean`: `pack` copies that directory.

For the refinement each action is shown to be the step of `CleanBuild` it maps
to (`Receive` accepts, `Respond` answers, `Die` dies, what writes a jar works) or
a stutter; that an answer of success is over a good jar is `SuccessIsClean`.

The codec, in the same module:

* `ParserAcceptsTheGrammar` (`ParsesLegalMessages`), `FramesStayApart`
  (`FramesKeptApart`), `RewritingTouchesArgumentsOnly` (`RewritingKeepsRest`) and
  `ErrorsKeepTheirId` (`ErrorsCarryTheirId`), for any set of messages, texts, ids
  and refused lengths, and any limits: TLC's sixty long samples become all byte
  strings, its two groups any number of them. What the constants must satisfy is
  that bytes are bytes, ids have 32 bits, texts are UTF-8 and refused lengths are
  too long or above the limit (`SamplesAssumption`, `IdsAssumption`,
  `WireIdsAssumption`, `TextsAssumption`, `LengthsAssumption`), and that an
  `IOException` is no message (`MalformedAssumption`).

Its state is that of the worker, so each invariant follows from a fact about the
functions alone (`Parses`, `FramesApart`, `Rewrites`, `IdsCarried`). The lemmas
climb from numbers to messages:

1. Longs and varints. `Expansion` and `AsIntLong`: the digits of an int, added up,
   are the int. `VarintWritten`: what the loop writes is read back, wherever it
   stands. Frames need no more (`FrameWhole`, `FrameCut`, `LengthRefused`).
2. Fields. The parser recurses over groups and, within one, over fields; the model
   has a table of the field at each cursor for each depth (`FieldAtIs`) and a
   function that follows a group to its end (`GroupEndIs`). Both have the values
   their equations give them, by `Recursion` in `Lemmas`: each value depends on a
   later cursor or a deeper table only. `ReadIsField` and `FieldIsRead` say
   without a case distinction what it means that a field stands at a cursor.
3. Locality (`FieldAtLocal`). A field is read alike wherever its bytes stand,
   whatever surrounds it. This is what lets a piece be taken out of one message
   and put into another.
4. Messages. `ReadIsCut`: what is parsed is a cut of the message, in which each
   piece is `Whole`, a field to itself. `ReadPieces` is the converse: whole pieces put
   one after another are parsed as those pieces. `Rewriting` takes the pieces of
   the request that are kept (`ChosenCarried`: they stay in order, side by side)
   behind the new arguments.
5. The grammar. `FieldGrammar`: if the grammar and the parser agree on what is
   within a group, they agree on the field. `SolvedOnce`: the grammar's equation
   has one solution, by induction on the length of a stretch, and the parser's
   tables are one (`StretchGrammar`); so `MessageRead`. `WholeIsField`: a field
   cannot be cut into two messages, since the parser would stop at the first.

### `ICShutdown_proof`

* `TypeCorrect`, `QuietEndLeavesNothing` (`QuietEndCleansUp`) and
  `NormalEndLeavesNoCompiler` (`NormalEndStopsCompiler`), for any class files,
  any number of requests and any interleaving of the two threads.

`Exclusive`: the lock is held by the thread inside `close()`, so never by two.
`OneCompiler`: until the signal the field names the only compiler that may be alive,
through every failure of a request and its catch block, which is why the end of
input kills it; after the signal the field may be read stale and nothing of the kind
holds. `Cleaning`: unless the main thread worked late, what a
closing thread has still to delete is exactly what exists. So no deletion meets a
directory that is not empty or a path that is gone, and when nothing is left to
delete nothing is left at all.

### `KotlinBuilder_proof`

* `TypeCorrect`, `TempsAreRemoved` (`TryCleansUp`, and that a directory is left
  behind only where temporary files cannot be made) and `RecordIsOfSent`
  (`RecordedWasSent`), under any faults.
* `BuilderImplementsService` (`ImplementsService`), under any faults.
* `UnusedOnlyWithoutReport`: if `"noreport" \notin Faults`, jdeps call every entry
  unused only when a report says so: `kt_noreport` needs that fault.

`InStep` is the invariant that matters: no response in the pipe is ahead of the
request, and one that fits it, by its id or by having none, was written after
this request's compile, whose code it carries; a response without an id has no
fitting one before it. From there `Progress` carries "built from this request"
through the second command and the jdeps to the answer. `InOrder` is about the
record: what is in it was taken by a process, in ascending order of ids and below
the id in hand, so what `Tee` appends is new, and taken since the flush before it.

### `KotlinRouting_proof`

* `TypeCorrect`, for any requests.
* `EveryArtifact` (`DeclaredMade`), `EachPluginOnce` (`PluginsOnce`),
  `AllReachesTheCompile` (`NothingLost`) and `StrictAsAsked` (`StrictDeps`), if
  every request is `Ordinary`: no value begins with `--`, an output has one file,
  a setting has one value and one of its two names, no plugin stands twice under
  one flag, and the artifacts are those of one kind of action, with processors
  for KAPT. That is how rules_kotlin writes a request, and TLC checks it of every
  request of `kt_routing` (`OrdinaryRequests`). Without the first condition the
  code does something else: `kt_routing_javacopts`.

`Understood` is the heart of the proof: under each flag the builder finds the
values asked under it, in any order of fields and with a flag given several
times. The flagfile grows by a field at a time (`Written`), the loop of `Parse`
reads a field by opening its list (`OpeningFacts`) and adding to it
(`ReadValues`), and an induction over the fields adds up. `Meaning` says it of
the fields of the typed request. The invariant proper is `Flow` (the request and
the route are kept), `Running` and `Ran` (what is made and what is left of the
plan are the plan) and `Outcome` (which ends there are).

### `CompileActions_proof`

* `TypeCorrect`, `BuildsAreCurrent` (`Current`) and `HeadersDeclareAll`
  (`JavaHeadersComplete`), for any graphs and any number of edits and failures.

`Planned`: the registered actions are those the rules decide. `Remembered`: what an
action remembers covers every input its outputs depend on. This is the soundness
of pruning: an input a report calls unused is one no class, processor or plugin
of the target reads. `Settled`: the outputs of an action whose remembered inputs
still have their digests are what the action would make now. A complete build
leaves nothing stale, so all outputs are. The edges of the build graph
(`DepsOf`, `Following`) are least closed sets, not recursive operators, and the
proof only needs that they are closed.

* `BodyEditsStayHome` (`BodyEditsStayLocal`, a property of steps), for the same.

An action runs again if an input it remembers differs from what is there. Some of
its inputs may have been rebuilt since, others not yet, others failed, so what it
remembers and what is there may be of different moments. `Explained` says what they
have in common: as long as only bodies were edited since the last complete build,
some ledger (`Ledger`) gives one content to every source and jar, such that

1. each jar in it is what its action makes of the inputs in it,
2. each jar on disk whose action has succeeded, and each jar an action
   remembers, is that of the ledger,

all but for what edits of bodies may change, which is the relation `Alike`: the same
declarations and classes, and the same code unless the target was edited and the jar
is neither a header nor an ijar. `MadeAlike` is the reason it is kept: of alike
inputs an action makes alike outputs, if no plugin it loads was edited, because
all it takes from other targets are declarations. `Steady` leaves out the targets below an
edited plugin, and `UpstreamFacts` and `ReadIsSteady` say that what a steady action
reads is steady. An edit puts the new source into the ledger, an action that runs for
the first time its outputs, one that runs again finds its outputs there already, a
failure leaves less to explain, and a complete build is a ledger itself. The
ledger replaces an induction over the build graph: contents are nested as deep as
the graph, but a step looks at one level of it.

### `ElideExtension_proof`

* `TypeCorrect`, `InstallsTheHighest` (`HighestInstalled`), `PythonEverywhere`
  (`PythonForAll`), `OnlyRootDecides` (`RootDecides`) and `ReadyIsRunnable`
  (`ReadyToRun`), for any list of modules and any version order that is one.
* `HubIsExact` (`ToolchainsHaveRepos`), if every pinned version pins every
  platform, as `versions.bzl` does. With a version that pins fewer, the hub still
  names a toolchain for each platform of the list (`hub.bzl` 51).

`Gathered` says what the tags visited so far amount to, `Named` who chose the
name and source, `Wired` what was declared from them, `Fetching` what a
repository holds between the steps of its fetch.

### `SbomEnrich_proof`

* `TypeCorrect`, `IdsStayUnique` (`IdsUnique`), `ScanIsKept` (`ScanKept`) and
  `RerunIsIdempotent` (`RerunChangesNothing`, a property of steps), over any scans,
  any `MODULE.bazel` and any sequence of edits, crashes and reruns.
* `PublishedExactly` (`PublishedIsExact`), if every `bazel_dep` with a version is
  written name first and none is in a comment, which is the convention section 5
  names and `MCUnusual` does without. `PublishedAsMatched`
  is the same promise without the hypothesis, for what the pattern matches.

`History` relates the file, the document in memory and what syft wrote:
`FileKept` (a whole file extends the scan and is sound), `LoadedKept`, `Enriching`
(the ids known to the loop are those of the document, which holds the
dependencies done so far) and `Shipped`.

### `Lemmas`

Induction over the natural numbers is stated as "a set with 0 and closed under
successor holds every number" and proved from the well-foundedness of `<`, since
the library's theorem takes an operator the provers cannot instantiate. Beside
it: prefixes, `Append`, `Head` and `Tail`, the elements of a concatenation, what
`FlattenSeq` does from left to right, `Min` and `Max`, pieces of a sequence and
where they stand, and the ascending order of a set of places. `Recursion` justifies
the recursive functions of the codec: a function on `0..N` each of whose values
is given by one later value exists, and so the `CHOOSE` of its definition finds it.

### What stays with TLC

* Liveness (`Answered`, `TerminationEnds`) and all that needs ENABLED.
* The violations of section 3: a counterexample needs no proof.

## 7. What is not modelled

* A kill is not waited for (`IncrementalWorker.java:156`, `ElideWorker.kt:93`):
  what a dying compiler may still write is left out, except as the removal that
  fails (section 5).
* Two requests that name different `--elide` paths to one builder process
  (`Main.kt:152` keeps the first resident): Bazel starts a process for each set
  of startup flags. KAPT requests without processor names (`Router.kt:23`):
  rules_kotlin sends none.
* A process killed between the constructor and `addShutdownHook`
  (`IncrementalWorker.java:184`) leaves its scratch directory; nothing in the
  code could find it again.
* The launcher script of `toolchain.bzl` (runfiles, `JAVA_HOME`): it keeps
  nothing and starts one process.
* Rule declarations, the other toolchains and annotation-processing declarations: they
  build providers from attributes and keep nothing.
* Launchers, `make_elide_info`, source jars, native image, format and the JVM
  tool rules: one action each, or strings.
* `Fallback`'s choice of a JVM flag by `JAVA_HOME`, warnings and other wording.
* Build settings that only change command lines (the classpath cache, worker
  switches); those that change actions are the record `Setting`.
* Of the release, archives, notes, checksums and attestation; end-to-end
  workspaces, benchmarks and policy checks: not part of the program.

## 8. Plan

Done in this order, the most important behaviour first: `Build`,
`IncrementalWorker`, its proof, `ICShutdown`, `CleanBuild` with both refinements,
`KotlinBuilder`, `KotlinRouting`, `CompileActions`, `ElideExtension`,
`WorkerProtocol` with `IncrementalWire`, `SbomEnrich`, and the toolchain's choice of
tool in `KotlinRouting`.

Then the proofs of section 6, in the order `IncrementalWorker`, `SbomEnrich`,
`KotlinBuilder`, `ElideExtension`, `CompileActions`, `ICShutdown`, `KotlinRouting`,
`WorkerProtocol` and `BodyEditsStayLocal`. Every invariant and action property a run
checks and expects to hold is now a theorem.

The proofs were also a test of the model. An earlier form of
`BodyEditsStayLocal` excepted only the plugins of the target itself. Its proof does
not go through, and TLC showed why on a plugin compiled with a plugin: the body of
the inner one may change what it generates in the outer one, whose full jar is loaded
into a third compile. The graph is in the instance since, and the property says so.

What could follow: the hazard without a property (a resident killed while it
writes), which needs outputs written in parts, and the codec's decoder of UTF-8,
which section 5 takes from the JDK.
