------------------------------ MODULE Toolbox ------------------------------
(***************************************************************************)
(* The life of one injected toolbox container (internal/xray/ephemeral.go, *)
(* dump.go): the idle loop that keeps it alive, the wrapper that execs     *)
(* the command and tells the loop when it starts and finishes, the command *)
(* itself and its keepalive.  The processes are shells; every test,        *)
(* assignment and trap of theirs is a step, and they share only the two    *)
(* marker files.  When the loop exits the runtime kills the others.        *)
(***************************************************************************)
EXTENDS Naturals

CONSTANTS StartTimeout, \* idleCommand's timeout, in turns of the loop
          Signals       \* what may hit the wrapper: "TERM" (or HUP, INT), "KILL"

ASSUME StartTimeoutAssumption == StartTimeout \in Nat
ASSUME SignalsAssumption == Signals \subseteq {"TERM", "KILL"}

VARIABLES started, done, \* /tmp/xray-started, /tmp/xray-done
          ipc, i,        \* the idle loop and its counter
          wpc,           \* the wrapper
          pending,       \* a trapped signal waits for the command to end
          status,        \* what exec reports: exit 0 ("ok"), 1 ("failed"), 129
                         \* ("signal"), or that the shell was killed ("lost")
          cpc, code,     \* the exec'd command and its exit code
          hb             \* the keepalive beside the command

vars == <<started, done, ipc, i, wpc, pending, status, cpc, code, hb>>

idleVars == <<ipc, i>>
wrapVars == <<wpc, pending, status>>
commandVars == <<cpc, code, hb>>

Exits == {"exit0", "exit1"}
Running == ipc \notin Exits

Init ==
  /\ started = FALSE /\ done = FALSE
  /\ ipc = "done?" /\ i = 0
  /\ wpc = "absent" /\ pending = FALSE /\ status = "none"
  /\ cpc = "absent" /\ code = "ok" /\ hb = "absent"

-----------------------------------------------------------------------------
\* while [ ! -e done ]; do [ -e started ] || i=$((i+1));
\*                         [ $i -le timeout ] || exit 1; sleep 1; done

\* What the loop leaves behind when it exits: nothing that runs.
Teardown ==
  /\ wpc' = IF wpc \in {"absent", "gone"} THEN wpc ELSE "gone"
  /\ status' = IF wpc \in {"absent", "gone"} THEN status ELSE "lost"
  /\ cpc' = IF cpc = "absent" THEN cpc ELSE "gone"
  /\ hb' = IF hb = "absent" THEN hb ELSE "gone"
  /\ UNCHANGED <<started, done, i, pending, code>>

LoopGoes(to) ==
  /\ ipc' = to
  /\ UNCHANGED <<started, done, i, wrapVars, commandVars>>

TestDone ==
  /\ ipc = "done?"
  /\ \/ ~done /\ LoopGoes("started?")
     \/ done /\ ipc' = "exit0" /\ Teardown

\* MUTANT: the loop counts on when a command has started.
TestStartedIgnored == ipc = "started?" /\ LoopGoes("count")

TestStarted ==
  /\ ipc = "started?"
  /\ LoopGoes(IF started THEN "limit" ELSE "count")

Count ==
  /\ ipc = "count"
  /\ i' = i + 1 /\ ipc' = "limit"
  /\ UNCHANGED <<started, done, wrapVars, commandVars>>

\* MUTANT: one turn too many.
TestLimitLate ==
  /\ ipc = "limit"
  /\ \/ i <= StartTimeout + 1 /\ LoopGoes("sleep")
     \/ i > StartTimeout + 1 /\ ipc' = "exit1" /\ Teardown

TestLimit ==
  /\ ipc = "limit"
  /\ \/ i <= StartTimeout /\ LoopGoes("sleep")
     \/ i > StartTimeout /\ ipc' = "exit1" /\ Teardown

Sleep == ipc = "sleep" /\ LoopGoes("done?")

Idle == TestDone \/ TestStarted \/ Count \/ TestLimit \/ Sleep

-----------------------------------------------------------------------------
\* : > started || exit 1; trap ': > done' EXIT; trap 'exit 129' HUP INT TERM;
\* "$@"; exit $?

\* The client's exec, which may never come.
Exec ==
  /\ Running /\ wpc = "absent"
  /\ wpc' = "touch"
  /\ UNCHANGED <<started, done, idleVars, pending, status, commandVars>>

MarkStarted ==
  /\ wpc = "touch"
  /\ \/ started' = TRUE /\ wpc' = "trapEXIT" /\ UNCHANGED status
     \/ wpc' = "gone" /\ status' = "failed" /\ UNCHANGED started
  /\ UNCHANGED <<done, idleVars, pending, commandVars>>

SetTrap ==
  /\ wpc \in {"trapEXIT", "trapTERM"}
  /\ wpc' = IF wpc = "trapEXIT" THEN "trapTERM" ELSE "fork"
  /\ UNCHANGED <<started, done, idleVars, pending, status, commandVars>>

Fork ==
  /\ wpc = "fork"
  /\ IF pending THEN wpc' = "exit" /\ UNCHANGED cpc
                ELSE wpc' = "wait" /\ cpc' = "spawn"
  /\ UNCHANGED <<started, done, idleVars, pending, status, code, hb>>

\* MUTANT: the command runs in the background and is not waited for.
ReapNothing ==
  /\ wpc = "wait" /\ wpc' = "exit"
  /\ UNCHANGED <<started, done, idleVars, pending, status, commandVars>>

Reap ==
  /\ wpc = "wait" /\ cpc = "gone"
  /\ wpc' = "exit"
  /\ UNCHANGED <<started, done, idleVars, pending, status, commandVars>>

\* MUTANT: the command replaces the shell, whose EXIT trap never runs.
MarkDoneSkipped ==
  /\ wpc = "exit" /\ wpc' = "leave"
  /\ UNCHANGED <<started, done, idleVars, pending, status, commandVars>>

\* The EXIT trap, and only then the end of the shell.
MarkDone ==
  /\ wpc = "exit"
  /\ done' = TRUE /\ wpc' = "leave"
  /\ UNCHANGED <<started, idleVars, pending, status, commandVars>>

Leave ==
  /\ wpc = "leave"
  /\ wpc' = "gone" /\ status' = IF pending THEN "signal" ELSE code
  /\ UNCHANGED <<started, done, idleVars, pending, commandVars>>

Wrapper == MarkStarted \/ SetTrap \/ Fork \/ Reap \/ MarkDone \/ Leave

\* A signal to the wrapper.  Untrapped it kills the shell on the spot, without
\* its EXIT trap; trapped it waits for the foreground command.
Term ==
  /\ "TERM" \in Signals /\ ~pending
  /\ \/ wpc \in {"fork", "wait"} /\ pending' = TRUE /\ UNCHANGED <<wpc, status>>
     \/ /\ wpc \in {"touch", "trapEXIT", "trapTERM"}
        /\ wpc' = "gone" /\ status' = "lost" /\ UNCHANGED pending
  /\ UNCHANGED <<started, done, idleVars, commandVars>>

Kill ==
  /\ "KILL" \in Signals
  /\ wpc \notin {"absent", "gone"}
  /\ wpc' = "gone" /\ status' = "lost"
  /\ UNCHANGED <<started, done, idleVars, pending, commandVars>>

-----------------------------------------------------------------------------
\* set -e; (keepalive) & HB=$!; trap 'kill $HB; wait $HB' EXIT; the dump steps

CommandGoes(from, to) ==
  /\ cpc = from /\ cpc' = to
  /\ UNCHANGED <<started, done, idleVars, wrapVars>>

SpawnKeepalive ==
  CommandGoes("spawn", "dump") /\ hb' = "beats" /\ UNCHANGED code

\* The last step, or the first that fails.
DumpEnds ==
  CommandGoes("dump", "stop") /\ code' \in {"ok", "failed"} /\ UNCHANGED hb

StopKeepalive ==
  CommandGoes("stop", "wait") /\ hb' = "told" /\ UNCHANGED code

\* The keepalive's TERM trap waits out its one-second sleep.
KeepaliveEnds ==
  /\ hb = "told" /\ hb' = "zombie"
  /\ UNCHANGED <<started, done, idleVars, wrapVars, cpc, code>>

\* MUTANT: the command's EXIT trap kills the keepalive and leaves.
WaitForNothing == CommandGoes("wait", "gone") /\ UNCHANGED <<hb, code>>

WaitKeepalive ==
  /\ hb = "zombie"
  /\ CommandGoes("wait", "gone") /\ hb' = "gone" /\ UNCHANGED code

Command == SpawnKeepalive \/ DumpEnds \/ StopKeepalive \/ KeepaliveEnds
             \/ WaitKeepalive

Stopped == ~Running /\ UNCHANGED vars

Next == Idle \/ Exec \/ Wrapper \/ Term \/ Kill \/ Command \/ Stopped

Spec == Init /\ [][Next]_vars

\* The kernel runs every process, and a dump ends.
FairSpec ==
  Spec /\ WF_vars(Idle) /\ WF_vars(Wrapper) /\ WF_vars(Command)

-----------------------------------------------------------------------------

TypeOK ==
  /\ started \in BOOLEAN /\ done \in BOOLEAN /\ pending \in BOOLEAN
  /\ ipc \in {"done?", "started?", "count", "limit", "sleep"} \cup Exits
  /\ i \in 0..StartTimeout + 1
  /\ wpc \in {"absent", "touch", "trapEXIT", "trapTERM", "fork", "wait", "exit",
              "leave", "gone"}
  /\ status \in {"none", "lost", "ok", "failed", "signal"}
  /\ cpc \in {"absent", "spawn", "dump", "stop", "wait", "gone"}
  /\ code \in {"ok", "failed"}
  /\ hb \in {"absent", "beats", "told", "zombie", "gone"}

\* The toolbox exits 0 only after the command and its keepalive are over: the
\* loop never ends a capture that is under way (ephemeral.go:36-51).
NeverCutShort ==
  done => cpc \in {"absent", "gone"} /\ hb \in {"absent", "gone"}

\* A command that started while the loop could still see it keeps the toolbox
\* alive: from then on it never times out (ephemeral.go:46-47).
InTime == started /\ i <= StartTimeout /\ ipc \notin {"count", "exit1"}
StaysAlive == [][InTime => InTime']_vars

\* The keepalive is reaped by its own shell, never left to the target's PID 1
\* (dump.go:131-133), as long as nobody kills the shells.
KeepaliveReaped == cpc = "gone" => hb \in {"absent", "gone"}

\* Nothing keeps an idle toolbox: it exits once its command is over or, without
\* one, after the timeout (ephemeral.go:39), unless a signal killed the wrapper
\* before its EXIT trap could run.
ToolboxEnds == <>(ipc \in Exits \/ (status = "lost" /\ ~done))

\* "The payload and exit code pass through untouched" (dump_test.go:14-15).
ExitCodePasses == wpc = "gone" /\ done => status # "lost"

=============================================================================
