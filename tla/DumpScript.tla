----------------------------- MODULE DumpScript -----------------------------
(***************************************************************************)
(* The dump scripts of jvm-dump and go-dump (internal/xray/dump.go,        *)
(* command.go): which steps a command line asks for, the script built from *)
(* them, and several such scripts running under set -e in toolboxes beside *)
(* one JVM.  A streamed capture stages its artifacts in a private          *)
(* directory, but the JVM writes into the target's /tmp, which all         *)
(* captures of the pod share and where a file's name is made of the pod's  *)
(* alone.  With --dump-dir everything lands in one directory of the target.*)
(* The tools, the JVM among them, are external: each may fail, and some    *)
(* tell of a failure only on their standard output, which is thrown away.  *)
(***************************************************************************)
EXTENDS Naturals, Sequences, FiniteSets

CONSTANTS Captures,
          Lines,     \* the command lines a user may type
          Seconds,   \* what time.Now() may read
          PollLimit  \* the script's wait for a recording: 30 turns

ASSUME PollLimitAssumption == PollLimit \in Nat
ASSUME CapturesAssumption == "nobody" \notin Captures

NoFile == [by |-> "nobody", whole |-> FALSE]
File == [by: Captures, whole: BOOLEAN]

-----------------------------------------------------------------------------
\* The command line.  flags holds the step flags the user named.

StepsOf(tool) == IF tool = "jvm" THEN {"thread", "histogram", "vthreads", "heap", "jfr"}
                                 ELSE {"goroutine", "heap", "profile"}
Steps == StepsOf("jvm") \cup StepsOf("go")

Changed(l) == DOMAIN l.flags

\* A tool knows its own step flags only.
ASSUME LinesAssumption ==
  \A l \in Lines : l.tool \in {"jvm", "go"} /\ Changed(l) \subseteq StepsOf(l.tool)

Default(tool) == IF tool = "jvm" THEN {"thread", "histogram"} ELSE {"goroutine", "heap"}

\* jfr counts when positive, the other steps when true.
Positive == {"true", "500ms", "60s"}

Asked(l) ==
  IF Changed(l) = {} THEN Default(l.tool)
                     ELSE {s \in Changed(l) : l.flags[s] \in Positive}

\* jvm-dump tests jfr == 0 here, so a negative duration is not nothing.
NothingToDump(l) == Asked(l) = {} /\ ("jfr" \in Changed(l) => l.flags["jfr"] = "0s")

\* --dump-dir needs an absolute path and takes none of the local flags.
BadDumpDir(l) == /\ l.dumpDir # ""
                 /\ \/ l.dumpDir = "relative"
                    \/ l.local # {} \/ l.maxSize # ""

BadMaxSize(l) == l.maxSize \in {"negative", "invalid"}

Refused(l) == NothingToDump(l) \/ BadDumpDir(l) \/ BadMaxSize(l)

Streamed(l) == l.dumpDir = ""

\* --dump-dir turns redaction off; go-dump has none.
Redacting(l) == Streamed(l) /\ l.tool = "jvm" /\ ~l.noRedact

\* The number of artifacts captureBundle expects.
Want(l) == Cardinality(Asked(l))

-----------------------------------------------------------------------------
\* The script.

Cmd(op, s) == [op |-> op, step |-> s]

\* MUTANT: the file is copied out and stays.
FetchKeeps(l, s) == IF Streamed(l) THEN <<Cmd("copy", s)>> ELSE <<>>

\* What the JVM wrote into /tmp is copied and removed; into dumpDir, it stays.
Fetch(l, s) == IF Streamed(l) THEN <<Cmd("copy", s), Cmd("remove", s)>> ELSE <<>>

StepScript(l, s) ==
  IF l.tool = "go" \/ s \in {"thread", "histogram"} THEN <<Cmd("write", s)>>
  ELSE IF s \in {"vthreads", "heap"} THEN <<Cmd("dump", s)>> \o Fetch(l, s)
  ELSE <<Cmd("record", s), Cmd("poll", s)>> \o
       (IF Redacting(l) THEN <<Cmd("scrub", s), Cmd("remove", s)>> ELSE Fetch(l, s))

Part(l, s) == IF s \in Asked(l) THEN StepScript(l, s) ELSE <<>>

JvmScript(l) == Part(l, "thread") \o Part(l, "histogram") \o Part(l, "vthreads")
                  \o Part(l, "heap") \o Part(l, "jfr")
GoScript(l) == Part(l, "goroutine") \o Part(l, "heap") \o Part(l, "profile")

Script(l) == <<Cmd("open", "")>> \o (IF l.tool = "jvm" THEN JvmScript(l) ELSE GoScript(l))
                                 \o <<Cmd("close", "")>>

NoLine == [tool |-> "jvm", flags |-> <<>>, dumpDir |-> "", local |-> {}, maxSize |-> "",
           noRedact |-> FALSE]

Scripts == [l \in Lines \cup {NoLine} |-> Script(l)]

-----------------------------------------------------------------------------
VARIABLES line, name,  \* of each capture: its command line, the name of its files
          pc, exit,    \* the command its script is at; how it ended
          polls,       \* i of the wait for a recording
          work,        \* its private staging directory, $W of a streamed capture
          files,       \* what is in the target's directories
          jvm,         \* what the JVM is doing for it
          hushed       \* some tool failed and exited 0

vars == <<line, name, pc, exit, polls, work, files, jvm, hushed>>

Names == {"pod"} \cup Seconds

Init ==
  /\ line = [c \in Captures |-> NoLine] /\ name = [c \in Captures |-> "pod"]
  /\ pc = [c \in Captures |-> 1] /\ exit = [c \in Captures |-> "idle"]
  /\ polls = [c \in Captures |-> 0]
  /\ work = [c \in Captures |-> [s \in Steps |-> NoFile]]
  /\ files = [n \in Names |-> [s \in Steps |-> NoFile]]
  /\ jvm = [c \in Captures |-> [s \in Steps |-> "idle"]]
  /\ hushed = FALSE

\* captureBundle names the files after the pod, captureInPod adds the time.
Begin(c) ==
  /\ exit[c] = "idle"
  /\ \E l \in Lines, n \in Names :
       /\ n = "pod" <=> Streamed(l) \/ Refused(l)
       /\ line' = [line EXCEPT ![c] = l] /\ name' = [name EXCEPT ![c] = n]
       /\ exit' = [exit EXCEPT ![c] = IF Refused(l) THEN "refused" ELSE "run"]
  /\ UNCHANGED <<pc, polls, work, files, jvm, hushed>>

-----------------------------------------------------------------------------
\* One command of a script at a time.

Now(c) == Scripts[line[c]][pc[c]]
Step(c) == Now(c).step
At(c, op) == exit[c] = "run" /\ Now(c).op = op
Seen(c) == files[name[c]][Step(c)]

Advance(c) ==
  /\ pc' = [pc EXCEPT ![c] = @ + 1]
  /\ exit' = IF pc[c] = Len(Scripts[line[c]]) THEN [exit EXCEPT ![c] = "zero"] ELSE exit

\* MUTANT: no set -e, the script goes on.
FailIgnored(c) == Advance(c)

\* set -e
Fail(c) == exit' = [exit EXCEPT ![c] = "nonzero"] /\ UNCHANGED pc

\* A tool that fails may still exit 0, with the error on its standard output.
FailSomehow(c) ==
  \/ Fail(c) /\ UNCHANGED hushed
  \/ Advance(c) /\ hushed' = TRUE

Into(c, f) ==
  IF Streamed(line[c])
  THEN work' = [work EXCEPT ![c][Step(c)] = f] /\ UNCHANGED files
  ELSE files' = [files EXCEPT ![name[c]][Step(c)] = f] /\ UNCHANGED work

\* mktemp -d, or the test for the directory; and at the end tar, or ls.
OpenOrClose(c) ==
  /\ At(c, "open") \/ At(c, "close")
  /\ Advance(c) \/ Fail(c)
  /\ UNCHANGED <<line, name, polls, work, files, jvm, hushed>>

\* jstack, jcmd and wget write the artifact themselves.
WriteOut(c) ==
  /\ At(c, "write")
  /\ \E whole \in BOOLEAN :
       /\ Into(c, [by |-> c, whole |-> whole])
       /\ IF whole THEN Advance(c) ELSE Fail(c)
  /\ UNCHANGED <<line, name, polls, jvm, hushed>>

\* jmap and Thread.dump_to_file: the JVM creates the file, unless there is one.
Dump(c) ==
  /\ At(c, "dump") /\ jvm[c][Step(c)] = "idle"
  /\ \/ /\ Seen(c) = NoFile
        /\ files' = [files EXCEPT ![name[c]][Step(c)] = [by |-> c, whole |-> FALSE]]
        /\ jvm' = [jvm EXCEPT ![c][Step(c)] = "writing"]
        /\ UNCHANGED <<pc, exit, hushed>>
     \/ FailSomehow(c) /\ UNCHANGED <<files, jvm>>
  /\ UNCHANGED <<line, name, polls, work>>

\* JFR.start returns at once, also for a recording that will never end.
Record(c) ==
  /\ At(c, "record")
  /\ \/ Advance(c) /\ jvm' = [jvm EXCEPT ![c]["jfr"] = "recording"] /\ UNCHANGED hushed
     \/ FailSomehow(c) /\ UNCHANGED jvm
  /\ UNCHANGED <<line, name, polls, work, files>>

\* MUTANT: one turn more.
PollLate(c) ==
  /\ At(c, "poll")
  /\ IF Seen(c) # NoFile \/ polls[c] > PollLimit
     THEN Advance(c) /\ UNCHANGED polls
     ELSE polls' = [polls EXCEPT ![c] = @ + 1] /\ UNCHANGED <<pc, exit>>
  /\ UNCHANGED <<line, name, work, files, jvm, hushed>>

\* MUTANT: until the file is there.
PollForever(c) ==
  /\ At(c, "poll")
  /\ IF Seen(c) # NoFile THEN Advance(c) ELSE UNCHANGED <<pc, exit>>
  /\ UNCHANGED <<line, name, polls, work, files, jvm, hushed>>

\* while [ ! -f file ] && [ $i -lt 30 ]
Poll(c) ==
  /\ At(c, "poll")
  /\ IF Seen(c) # NoFile \/ polls[c] = PollLimit
     THEN Advance(c) /\ UNCHANGED polls
     ELSE polls' = [polls EXCEPT ![c] = @ + 1] /\ UNCHANGED <<pc, exit>>
  /\ UNCHANGED <<line, name, work, files, jvm, hushed>>

\* cp or jfr scrub, out of the target into $W.
CopyOut(c) ==
  /\ At(c, "copy") \/ At(c, "scrub")
  /\ \/ Seen(c) # NoFile /\ Into(c, Seen(c)) /\ Advance(c)
     \/ Fail(c) /\ UNCHANGED <<work, files>>
  /\ UNCHANGED <<line, name, polls, jvm, hushed>>

\* rm -f
RemoveFile(c) ==
  /\ At(c, "remove")
  /\ \/ Advance(c) /\ files' = [files EXCEPT ![name[c]][Step(c)] = NoFile]
     \/ Fail(c) /\ UNCHANGED files
  /\ UNCHANGED <<line, name, polls, work, jvm, hushed>>

Run(c) == OpenOrClose(c) \/ WriteOut(c) \/ Dump(c) \/ Record(c) \/ Poll(c) \/ CopyOut(c) \/ RemoveFile(c)

\* The toolbox, or the whole exec, goes away under the script.
Killed(c) ==
  /\ exit[c] = "run"
  /\ exit' = [exit EXCEPT ![c] = "killed"]
  /\ UNCHANGED <<line, name, pc, polls, work, files, jvm, hushed>>

-----------------------------------------------------------------------------
\* The JVM, which goes on whatever becomes of the script.

\* The recording's file appears, over whatever is there.  A duration below a
\* second is rounded down to 0s: the recording has no end.
JvmOpens(c) ==
  /\ jvm[c]["jfr"] = "recording" /\ line[c].flags["jfr"] # "500ms"
  /\ jvm' = [jvm EXCEPT ![c]["jfr"] = "writing"]
  /\ files' = [files EXCEPT ![name[c]]["jfr"] = [by |-> c, whole |-> FALSE]]
  /\ UNCHANGED <<line, name, pc, exit, polls, work, hushed>>

\* The file is finished, if it still is there, or the disk was full; a dump's
\* tool waits for that.
JvmCloses(c, s) ==
  /\ jvm[c][s] = "writing"
  /\ jvm' = [jvm EXCEPT ![c][s] = "idle"]
  /\ \/ /\ files' = [files EXCEPT ![name[c]][s] =
                       IF @.by # c THEN @ ELSE [@ EXCEPT !.whole = TRUE]]
        /\ IF At(c, "dump") /\ Step(c) = s THEN Advance(c) ELSE UNCHANGED <<pc, exit>>
        /\ UNCHANGED hushed
     \/ /\ UNCHANGED files
        /\ IF At(c, "dump") /\ Step(c) = s THEN FailSomehow(c) ELSE UNCHANGED <<pc, exit, hushed>>
  /\ UNCHANGED <<line, name, polls, work>>

Next ==
  \/ \E c \in Captures : Begin(c) \/ Run(c) \/ Killed(c) \/ JvmOpens(c)
  \/ \E c \in Captures, s \in Steps : JvmCloses(c, s)

\* A script's commands are not held up for ever, nor is the JVM in a dump.
Fairness ==
  \A c \in Captures : /\ WF_vars(Run(c))
                      /\ \A s \in {"vthreads", "heap"} : WF_vars(JvmCloses(c, s))

Spec == Init /\ [][Next]_vars /\ Fairness

-----------------------------------------------------------------------------
TypeOK ==
  /\ line \in [Captures -> Lines \cup {NoLine}] /\ name \in [Captures -> Names]
  /\ exit \in [Captures -> {"idle", "refused", "run", "zero", "nonzero", "killed"}]
  /\ pc \in [Captures -> Nat \ {0}]
  /\ \A c \in Captures : pc[c] <= Len(Scripts[line[c]]) + 1
  /\ polls \in [Captures -> 0..PollLimit]
  /\ work \in [Captures -> [Steps -> File \cup {NoFile}]]
  /\ files \in [Names -> [Steps -> File \cup {NoFile}]]
  /\ jvm \in [Captures -> [Steps -> {"idle", "recording", "writing"}]]
  /\ hushed \in BOOLEAN

Delivered(c) == IF Streamed(line[c]) THEN work[c] ELSE files[name[c]]

\* captureBundle's verdict: the script exited 0 with as many artifacts as asked.
Succeeded(c) ==
  /\ exit[c] = "zero"
  /\ Streamed(line[c]) => Cardinality({s \in Steps : work[c][s] # NoFile}) = Want(line[c])

\* Nobody else's capture uses the name: always so unless two captures with
\* --dump-dir read the same second.
OwnName(c) == Streamed(line[c]) \/ \A d \in Captures \ {c} : name[d] # name[c]

\* A capture that succeeds has delivered what its flags named, or the defaults
\* when they named none, and every artifact but a recording is its own and
\* whole, whatever other captures of the pod, failed and killed ones included,
\* did to the files of the same name in /tmp.  It holds as far as the tools
\* tell of their failures; a recording may be taken half written, and with
\* --dump-dir not be there at all.
OkMeansOwn ==
  \A c \in Captures :
    LET l == line[c]
        named == {s \in Changed(l) : l.flags[s] \in Positive}
        defaults == IF l.tool = "jvm" THEN {"thread", "histogram"} ELSE {"goroutine", "heap"}
        wanted == IF Changed(l) = {} THEN defaults ELSE named
    IN  Succeeded(c) /\ ~hushed /\ OwnName(c) =>
          /\ Streamed(l) => {s \in Steps : work[c][s] # NoFile} = wanted
          /\ \A s \in wanted \ {"jfr"} : Delivered(c)[s] = [by |-> c, whole |-> TRUE]

\* A streamed capture that succeeds leaves no dump of its own in the target's
\* /tmp, whoever else dumps there, and not the recording that it delivered.
\* When it took another capture's recording of the same name, its own may come
\* later and stay; and nothing is said once a tool has kept silent of a failure.
OkCleansUp ==
  \A c \in Captures : Succeeded(c) /\ Streamed(line[c]) /\ ~hushed =>
    \A s \in Steps :
      files["pod"][s].by = c => s = "jfr" /\ work[c]["jfr"].by # c

\* Every script ends: also the one that waits for a recording that the JVM
\* never writes.
ScriptEnds == \A c \in Captures : exit[c] = "run" ~> exit[c] # "run"

\* README.md:38-39: the app's /tmp is cleaned up after.  A script that has
\* ended of itself leaves no dump of its own there.
TmpCleaned ==
  \A c \in Captures, s \in Steps :
    exit[c] \in {"zero", "nonzero"} => files["pod"][s] # [by |-> c, whole |-> TRUE]

=============================================================================
