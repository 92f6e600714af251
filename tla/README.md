# kubectl-xray in TLA+

`kubectl xray` captures heap dumps, thread dumps, environment variables and
facts from a running pod. It injects an ephemeral *toolbox* container, execs a
script in it, streams the result back and persists it, with secrets masked on
the way. This directory models the program, checks the models with TLC and
proves the results that matter most with TLAPS.

Run `tlc -config X.cfg M` for the runs listed below, `tlapm M.tla` for the
proofs. Source references are relative to the root of the repository.

## The system

| Part | State | Operations | Talks to |
|---|---|---|---|
| `archive.Write`, `Extract`, `writeFile`, `limiter` (`internal/archive/archive.go`) | temp file, files under their real names, byte budget, count | create, fill, fsync, close, rename, undo | a reader, the file system |
| `archiveStore`, `dirStore`, `redactStore` (`internal/xray/dump.go`) | none; `redactStore` has a pipe and a goroutine | `Put` | archive, `redact.Bundle` |
| `captureBundle` (`dump.go`) | pipe, exec goroutine, errors, verdict | exec, Put, cancel, drain, verdict | stores, exec stream |
| `redact.Bundle`, `redact.HPROF` (`internal/redact/hprof.go`) | position in the stream, bytes left in the record | one record after another | two streams |
| `redact.Line`, `redact.Writer` (`internal/redact/redact.go`) and `captureOn` (`internal/xray/capture.go`) | buffered part of a line, number of masked values | `Write`, `Flush` | exec stream, terminal |
| toolbox: `idleCommand`, `inToolbox`, `keepalive` (`internal/xray/ephemeral.go`, `dump.go`) | two marker files, three shells | the steps of the shells | exec, the container runtime |
| `startToolbox`, `injectEphemeralContainer`, `discoverTargetUID`, `watchEphemeralStatus` (`capture.go`, `ephemeral.go`) | the pod's ephemeral containers and their status, a copy per client | review, probe, Get + Update, watch | API server, kubelet |
| `resolvePod`, `pickPod`, `deriveUser`, `parseStatusUID` | none | lookups, a choice | API server |
| dump scripts (`buildJVMDumpScript`, `buildGoDumpScript`), `resolveSteps`, `captureInPod` | staging directory, the target's `/tmp` | one step per artifact, tar | the JVM in the target |
| command line, `info`, `debug` | flags | checks, wiring | the above |

What is hard here: three goroutines and two unbuffered pipes that may stop in
any order; a connection that may break without an error; temp files, failures
of every file operation, a kill or a power loss between any two steps; three
shells that synchronise over two files while one of them holds the life of the
container; optimistic concurrency against the API server with the kubelet
writing to the same pod, and pods that are replaced under their name; captures
that share the target's `/tmp` and outlive their scripts in the JVM; streams cut
into chunks anywhere; a binary format of
which one wrong size shifts everything that follows. `PROJECT.json` lists each
hazard at its line with the properties about it.

## The modules

    AtomicPut  <--refines--  Store  <--EXTENDS/refines--  Capture
    HprofFormat  <--accepted and zeroed by (HprofProofs)--  Hprof
    Target    Inject    Toolbox    DumpScript    RedactWriter

`MCx` gives module `x` its small instance, `xProofs` holds its theorems. A
definition marked `MUTANT` is a plausible bug in the definition that follows
it; no specification uses it.

**Store** models one `Put` of `archiveStore` (`extract = FALSE`) or `dirStore`
(`TRUE`). `pc` walks through `writeFile`: `OpenTemp`, `Fill` per chunk, `Sync`,
`Close`, `Rename`, with `Undo` for the deferred function; `Scan` is
`extractTar`'s loop and `Extract`'s drain. A gzipped tar is a sequence of tokens
(headers, body chunks, end-of-archive, CRC footer); a token is one block on
disk. Every file operation may fail, `Cut` is the end or the corruption of the
stream, `Crash` kills the process, and `PowerLoss` also loses renames and data
that was not fsync'd. **AtomicPut** is what `Store.Put` promises: files appear
whole, a bundle appears exactly when `Put` succeeds, success means everything.
`Result` and `visible` in `Store` are the refinement mapping.

**Capture** extends `Store` with the rest of `captureBundle`: the exec goroutine
(`xpc`), `redact.Bundle`'s goroutine (`bpc`, only when redacting) and the main
goroutine (`mpc`), connected by `io.Pipe`s, which have no buffer: `sent`, `tk`
and `got` count the tokens that arrived, were read off the exec's pipe, and were
read by `Put`. The script, the connection and the user are an environment that
may act at any time and need not act at all. The actions of `Store` are reused as
they are; a kill and a power loss are left to `Store`, where they are checked
for the same steps. `Verdict` is the switch at the end, in its order.

**Toolbox** has one step per test, assignment, trap and signal of the idle loop,
the wrapper of `inToolbox`, and the script with its keepalive. When the loop
exits the runtime kills the rest (`Teardown`).

**Inject** has several xray processes and the kubelet working on one pod. An
Update from a stale Get is refused; the answer to an Update may be lost after it
was applied; the watch starts with the pod as it is and then delivers each
change in order (`inbox`). A probe's process ends (`Exits`, `exit`) without a write
to the pod, and its log ends with it, so that the client may go on (`ReadUID`) long
before the kubelet writes the probe's status: that late write is one of those that
make the toolbox's Update conflict. A log may also fail or be closed early
(`LogCut`, `closed`); the code takes a log that was closed in good order for whole.

**Target** is what happens before, from `TYPE/NAME` to the user of the toolbox:
`Complete` and `Validate`, `resolvePod` (`GetPod`, `GetDeployment`, `List`), one
turn of `pickPod`'s loop per step (`PickNext`), `debug`'s look at the terminal,
`deriveUser` with the override, and the probe and the toolbox as far as they say
which pod they are beside and as whom. The code passes names on, so pods that
are deleted and created anew (`lives`) may stand in for one another between any
two calls; `from` remembers which of them the UID was learnt from. So a pod that the
deployment does not select may be injected when it took the name of the one picked
(`KindKept` says just how far it can go), and the toolbox beside a setuid process
gets its real UID. How an injection goes about its work is `Inject`, where the pod
keeps its identity.

**DumpScript** takes a command line (`line`) through `resolveSteps`, the test for
nothing to dump, `checkDumpDir` and `parseMaxSize` to the script, a sequence of
commands (`Script`, put together from one `Part` per step as the Go code does), and
runs several such scripts one command at a time (`pc`) under `set -e`. `work` is a
script's staging directory, `files` the target's directories, by the file's name:
the pod's, or with `--dump-dir` the pod's and the second.
What a file holds is abstracted to whose it is and whether it is whole. The tools
are outside: each may fail, and `jmap` and `jcmd` may fail with exit status 0
(`hushed`). `jvm` is what the JVM is still doing for a script, also after its end.
To `Capture` the script is an environment; `Want` is the number it waits for.

**Hprof** is `HPROF` byte by byte: `Take`, `Copy` and `Zero` are `claim` followed
by the transfer, `sub` and `n` stand for the place in the Go call stack. `out` is
what has been handed to the buffered writer. When the input ends inside a
primitive array the zeros of the whole chunks before its end (`Chunk`) have been
written. **HprofFormat** is the format itself, apart from any parser: a cursor
marks where a record, a sub-record or an entry of a class's tables starts, `After`
says which cursor comes after which if all the bytes between are there, `Places`
follows it from the first record on, and `Readable` and `Values` follow from that.
`MCHprof` builds dumps the other way round, by laying records out one after the
other while noting where the values fall, and its assumption `FormatAgrees` has
TLC find the same ends and the same values by the grammar, in the whole dumps, in
every prefix and in the damaged ones.

**RedactWriter** is `redact.Writer` with `Line`, and `captureOn` around it.
A character that makes `keyRe` match is a symbol of its own; a value matches one of
`valueRes` when it has `v` with `w` after it, so that the end of the stream may fall
between what a secret begins with and what makes it one. What is to be masked is
judged on the whole text, whether it has arrived or not (`AllLines`). A newline is
either the end of a variable (the NUL that `tr` replaced) or part of a
value. A write to the terminal may fail once or for good (`broken`), which ends the
exec's copier without anybody being told; `outcome` says how the exec ended. With
`--no-redact` the chunks are written as they come.

## The runs

| Run | Question | Bounds |
|---|---|---|
| `store` | does a Put keep its promise under every failure? | members with no, one empty and two artifacts, the first longer than the second; `--max-size` unlimited, too small for everything, for some files, and for the bundle only |
| `capture` | do the goroutines, the pipes and the verdict work together, and do the goroutines never wait for each other in a circle? | members with no, one and two artifacts; asked for 1 or 2; with and without redaction and a size limit |
| `toolbox` | does the loop neither cut a command short nor stay for ever? | timeout of two turns, so that a start can fall before, in and after the last; TERM and KILL |
| `inject` | do concurrent injections keep out of each other's way? | two clients, one of which probes and is barred from exec, but whose review may fail, so that it goes on all the same; two attempts, so that one conflict is retried and two are not |
| `hprof` | do exactly the values of primitive arrays become zero, and is exactly what the format allows accepted? | every kind of root, sub-record and element size with identifiers of 4 and 8 bytes, followed by an array that shows a shift; records of other kinds, with an unknown tag too; all prefixes; damaged dumps |
| `redact` | is a secret shown, or anything else lost, when the stream is cut anywhere? | all texts of up to six characters, room for a variable that is masked and one that is not, and for a line to end inside its value; all chunkings; the connection broken or closed anywhere; writes that fail for a while or for good; an interrupt; with and without redaction |
| `target` | does the toolbox land where, and run as whom, it should? | two replicas of a deployment `web`, each with a successor of its name, one of which the deployment does not select, and a pod named `web`; a setuid process among them; users set on the container, the pod, or nowhere; eleven requests |
| `script` | does a script deliver what was asked, whatever goes on beside it? | two captures of one pod; ten command lines, which between them have every step, both targets and every refusal; two seconds to name files after; one turn of the wait for a recording instead of thirty, since only "in time" and "too late" differ |

The properties are stated with their comments at the end of each module. For
each of them a mutant in `PROJECT.json` shows that a bug of the code would break
it.

Four runs show a place where the code does other than its comments, docs or
tests say:

| Run | What the code does |
|---|---|
| `capture_redact_failsfast` | "unblock Bundle if inner stopped early" (`dump.go:65`) unblocks a Bundle that writes, not one that reads a silent stream: a full disk or an exceeded `--max-size` is not reported until the remote speaks or the user interrupts. |
| `toolbox_exit_code` | The done marker is created before the wrapper has exited; the loop may end the container first, and the exit code is lost. |
| `redact_multiline` | Only the first line of a multi-line secret, such as a PEM key, is masked; the trace ends with a character of the second on the terminal. |
| `script_leftover` | A script that fails after the JVM wrote its dump, for instance because `cp` finds no space, leaves it in the target's `/tmp`, against "the app's `/tmp` is cleaned up after". |

More divergences and weak spots came up that have no run of their own; the models
show each of them, and where a property has to leave one out its comment says so.

- `writeFile` "durably writes" but does not fsync the directory: after a power
  loss a reported bundle may be gone (`PowerLoss` in `Store`).
- A signal between the started marker and the traps leaves a toolbox that idles
  for ever, against "however it finishes" (the premise of `ToolboxEnds`). A command
  that starts between the loop's look at the marker and its test of the counter,
  in its last turn, is killed (`InTime`).
- A top-level record with an unknown tag is copied, against "an error rather than
  passed through" (`hprof.go:19`). `AcceptsReadable` does not check that sentence for
  such records: the grammar takes them as the code does, and a dump of `MCHprof` has
  one.
- After an interrupt `Flush` may meet a `Write` that is still under way, and after
  a failed `Write` the lines it left: it judges them as one (the premises of
  `MaskedUnlessCut`; the data race itself is not modelled). The error of a failed
  `Write` is lost in the copier, and a connection closed in good order counts as
  success for `env` and `info`, which have no trailer to check (`NothingLost`).
- A connection that ends inside a value, before the character that makes it a
  secret (`postgres://user:pa` without its `@`), leaves a line that `Flush` shows as it
  is: `MaskedUnlessCut` leaves out these lines (`Torn`).
- `parseStatusUID` returns the real UID where its comment, and that of
  `discoverTargetUID` (`ephemeral.go:99-101, 131-132`), say the effective one: the
  toolbox beside a setuid process does not match it. The group is never
  probed; a pod replaced after its UID was learnt is not noticed (the premises of
  `UserMatches`). Nor is it asked whether the deployment selects a pod that took the
  name of the one picked (`KindKept`).
- A probe's log that is closed early in good order counts as whole
  (`ExecIntoStarted`).
- `jmap` or `jcmd` may fail with exit status 0, and a file of the same name that
  was there before is then taken for the new dump (`hushed`). The wait for a
  recording tests that the file exists, not that it is finished. `--jfr` below a
  second becomes `duration=0s`, without end; a negative one asks for nothing, and
  the empty bundle is reported as success. Two captures with `--dump-dir` in the same
  second use the same files (`OwnName`), and one with `--jfr` may report success
  without a recording. `OkMeansOwn` leaves out just these. A streamed capture whose
  wait for its recording ran out may take another's of the same name and succeed; its
  own may then come and stay (`OkCleansUp`).

## Fairness

- `Capture`: weak fairness for each of the three goroutines, which the Go
  scheduler gives. None for the script, the connection and the user, so `Ends`
  has them as its premise, and `RawFailsFast` holds even if they never act.
- `Toolbox`: weak fairness for the loop, the wrapper and the command (the kernel
  runs every process; a dump step ends). None for the exec, since xray may have
  died, and none for signals.
- `Inject`: weak fairness for each client except for a watch or a log that is cut,
  for the kubelet's first report on a container it was given, and for the end of a
  probe's process (`cat /proc/1/status`). None for later reports, restarts or the end
  of a toolbox.
- `DumpScript`: weak fairness for the commands of each script and for the JVM
  while it writes a dump, which `jmap` waits for. None for recordings, so that
  `ScriptEnds` holds though the file never comes, and none for `Killed`.
- `Store`, `Target`, `Hprof` and `RedactWriter` check safety only; `Store`'s
  termination is part of `Ends`.

## The proofs

Each follows the same argument: an inductive invariant made of named parts, one
lemma per action, a temporal step by PTL.

- **StoreProofs**, for any set of well-formed members and any size limits. `Inv`
  adds to the types where in the member each phase of `writeFile` stands
  (`PosInv`), when a temp file exists (`TmpInv`), that what is in place is whole
  and synced (`DiskInv`), and that names and count follow the headers dealt with
  (`NamesInv`); without the last two neither `OkMeansAll` nor the refinement is
  inductive. From it: `NoPartialFile`, `SuccessIsComplete`, `FailureIsClean`,
  `NoTempLeft`, and `StoreKeepsPromise`, the refinement of `AtomicPut` step by step.
  `NeverOverSize` has an invariant of its own: the blocks under real names, those of
  the temp file and what is left of the budget together never exceed the limit.
  `PutRunsOut`: every step of a Put lowers `PutLeft`, eight for each token still to
  come and a weight for the phase of `writeFile`.
- **CaptureProofs**, for any members, limits and wants. The lemma `CaptureIsStore`
  has `Store`'s invariant hold in `Capture` as well, since a capture uses `Store`'s
  steps; so a capture too keeps what `AtomicPut` promises (`CaptureKeepsPromise`).
  `CInv` relates the three program counters and the three positions in the stream. From both: `CaptureTypesHold`,
  `SuccessIsEarned`, `LeftoversAreReported`, `NothingRunsOn`. `FailedScriptIsBlamed`
  has `BlameInv`: which error may come of which cause, and that the exec of a script
  that failed is over before a cut stream can end Put (`CutIsShort`: only a member
  that has not come to its end can be cut).
  `NobodyElseWaits` (with `WaitInv`: the exec goroutine runs until it has closed its
  pipe, a Bundle that only has to flush has read everything) says that while a
  capture is not over one of its goroutines can go on or all wait for a remote that
  is silent; `CaptureRunsOut` that the steps of everybody, the remote, the network
  and the user included, lower a natural number (`CaptureLeft`). The two are the
  argument for `Ends`, for members of any length. What is left to TLC is fairness,
  and that the formulas for who can go on (`ExecMoves`, `BundleMoves`, `MainMoves`)
  say when the actions are enabled.
- **ToolboxProofs**, for any timeout and signals: `NothingCutShort`,
  `NoZombieLeft`, `StartIsSeen`. The invariant says which states of the three
  shells go together.
- **InjectProofs**, for any clients and number of attempts: `AppendsOnly`,
  `InjectsOnce`, `DeniedIsClean`, `ExecsIntoStarted`. The heart of `IInv` is that a
  copy the API server would accept equals the spec (`FreshInv`) and that a client's
  container is in the spec when it is past its Update and not when it has still to
  send one (`ListedInv`); a lost answer lies between the two. `StartedInv` says what
  a watch may have been told, and that a client which probed and has got past the
  probe heard the log of a process that ended well, or one that was cut.
- **TargetProofs**, for any pods, manifests, deployments and requests: `PicksBest`,
  `KeepsKind`, `MatchesUser`, `DebugIsClean`. `PickInv` is the loop invariant of
  `pickPod` (`best` is the best of what was looked at), `UserInv` says what is
  known of the UID (`Learnt`), `LivesInv` that two pods of one name are not alive at
  once, so that a pod injected in the place of the one picked comes after its end.
- **RedactWriterProofs**, for any text and any way to cut it: `MasksSecrets` and
  `ShowsTheRest`. `Exact` says that as long as nothing failed what was shown is
  what may be seen of the lines that end before `start` (`Past`), and that `N`
  counts the masked ones; `Frontier` says that `start` follows a newline. A line that
  the end of the stream cuts is shown only if it is `Torn`.
- **DumpScriptProofs**, for any number of captures and any command lines:
  `ScriptTypeOK`, `ScriptOkMeansOwn`, `ScriptOkCleansUp`. First, about the scripts
  alone: each is a `Stretch`, in which what the JVM dumps is copied and removed at
  once, and which delivers exactly the steps asked for. The invariant is `Own(c)`
  for each capture: its script is where its JVM says it is (`CtrlInv`, `JvmInv`), and,
  as long as no tool hid a failure, the name in `/tmp` that it dumps to is its own
  until it is removed (`LockInv`: another's `jmap` refuses to write there), what it
  staged is its own and whole (`WorkInv`), what it left with `--dump-dir` is
  (`DirInv`), and no dump of it stays in `/tmp` (`CleanInv`). A step of one capture
  keeps `Own` of the others since it touches only names that are free or its own
  (`Frame`, `OthersKeep`). Recordings have no such lock; `RecInv` says that one is
  started once and that what a capture has taken, if it was its own, the next command
  removes. `ScriptsRunOut`: what a script has left (`TurnsLeft`) is a
  number that its own commands and the dumps it waits for lower and that no step of
  the other captures, a recording or the JVM raises; it is the argument for
  `ScriptEnds`, for any wait and any number of captures.
- **HprofProofs**, for any input, not only dumps. `TypesHold`: the parser stays
  within input and record. `AcceptsTheFormat`: it succeeds only on what the
  grammar of `HprofFormat` reads to its end and fails only on what it does not (of
  records that are no heap dump the grammar takes any, see above).
  `ZeroesValuesOnly`: at any time exactly the values among the bytes written are
  zero. `ParserEnds`: every step, also one that reads nothing (an array without
  elements, an empty table), lowers a natural number, so that no input makes the
  parser loop. First, about the grammar alone: `PlacesFrom` is a recursive
  function, and `PlacesFromStep` proves that its equation has a solution (the
  least sets that are closed under `After`); `PlacesLeast` and `PlacesClosed`,
  that `Places` is the least such set that holds the first record (`FromBehind`,
  along the bytes ahead: `LeastNat`, a least number in any set of numbers,
  stands in for induction). The invariant is a trail (`Sense`): the places
  passed so far with the one the parser is at, each of them led to by the one
  before, all values of the former behind it, and the parser's own `pc`, `sub`,
  `n` and `left` say which cursor that is (`Reading`). Since a place leads to
  one other at most (`LeadsOnce`), nothing else can be a place: a set that
  leaves out the rest is still closed. Each action has a lemma (`...Onward`)
  that it moves along the trail, or fails where the place leads nowhere.

The assumptions are the named ones on the constants, in the modules that declare
them: members are well formed, `NoFile` is no file, limits, timeouts and creation
times are numbers, `Attempts` is positive, probing and barred clients are clients,
there are finitely many pods, `"none"` is none of them, texts and inputs are
sequences, `"nobody"` is no capture, and a command line names step flags of its own tool only (cobra refuses
others).

Every invariant and every action property of the passing runs is stated by a
theorem. Only model-checked are:

- Liveness (`Ends`, `RawFailsFast`, `ToolboxEnds`, `EveryoneDecides`, `ScriptEnds`),
  which is out of the prover's reach. For `Ends` and `ScriptEnds` the proofs have
  the part that depends on the size of the instance, as said above.
- `FormatAgrees`, that grammar and layouts agree: the layouts are built by folds,
  and the installed provers cannot instantiate the induction theorems for those.
  Where a proof needs induction over numbers it takes a least counterexample
  instead (`LeastNat`). That the grammar is the format is, as for any
  specification, for the reader to judge: it is written as the comments of
  `hprof.go` give the layout.

## Assumptions about what is outside

- Removing one's own temp file succeeds; a rename within a directory is atomic;
  fsync makes a file's data survive.
- The tar of a script holds distinct base names, and `set -e` lets it exit 0 only
  after the whole tar was written.
- `StreamWithContext` returns at once when its context is cancelled, without
  waiting for its copiers, and may return nil for a connection that was closed in
  good order.
- A probe that fails has written no `Uid:` line; a report of the kubelet may come
  late, but not before what it reports.
- The API server checks the resourceVersion, and delivers watch events in order.
- A shell that an untrapped signal kills does not run its EXIT trap (busybox ash
  and dash, the shells of the default images).
- Random container names do not collide. In `Inject` a pod keeps its identity.
- `jmap` and `Thread.dump_to_file` refuse to write over an existing file, a
  recording does not; both write in place. `cp` and `jfr scrub` copy what is there.

## Not modelled

- The `info` script: a fixed list of independent reads without state. Its exec,
  redaction and error are `captureOn` in `RedactWriter`.
- Terminal I/O and window sizes of `debug`; its check of the terminal is in
  `Target`, its wrapper in `Toolbox`.
- How `redact.Bundle` rewrites tar headers: entries are tokens in `Capture`, and
  the one it changes goes through `Hprof`.
- The declaration of flags, version, kubeconfig and client set-up, the security
  context but for the UID, stderr and the wording of messages.
- The race of client-go's copier with the reader of stderr after a cancel: it
  affects the text of a message only.

## Plan

Done, in this order: `Store` with `AtomicPut`, `Capture`, `Toolbox`, `Inject`,
`Hprof`, `RedactWriter`, `DumpScript`, `Target`; the proofs of every safety property
of these, the format of heap dumps with the proof that `Hprof` follows it, and that
puts, captures, scripts and the parser run out of steps.

What is left:

1. `DumpScript` as the environment of `Capture`: a refinement in which `Produce` and
   `RemoteExit` are the steps of a script, so that `Want` and what the tar holds are
   related in one model.
2. `redact.Bundle` around `Hprof`: the entries of a tar, of which only `.hprof` ones
   go through the parser, as a refinement of the tokens they are in `Capture`.
3. `Target` with the security context (`runAsNonRoot` beside an unknown user).
