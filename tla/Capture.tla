------------------------------ MODULE Capture ------------------------------
(***************************************************************************)
(* captureBundle (internal/xray/dump.go): the exec goroutine streams the   *)
(* toolbox's stdout into a pipe, the main goroutine runs Store.Put on the  *)
(* other end, and with redactStore a third goroutine runs redact.Bundle    *)
(* between the two, feeding Put through a second pipe.  io.Pipe has no     *)
(* buffer: a write waits for its reader.                                   *)
(*                                                                         *)
(* The remote script, the connection and the user act at any time; none of *)
(* them is required to act.                                                *)
(***************************************************************************)
EXTENDS Store

CONSTANTS Redacts, \* the values of o.redact
          Wants    \* the numbers of artifacts the enabled flags ask for

ASSUME RedactsAssumption == Redacts \subseteq BOOLEAN
ASSUME WantsAssumption == Wants \subseteq Nat

VARIABLES redact, want,
          sent,    \* tokens that reach the client side of the connection
          tk,      \* tokens read off the stdout pipe
          remote,  \* the script: "run", or how it exited: "zero", "nonzero"
          conn,    \* "up" or "lost"
          ctx,     \* the user's signal has cancelled ctx
          xpc, xerr, \* the exec goroutine and what execInContainer returned
          bpc, berr, \* redact.Bundle's goroutine and its result
          mpc, cerr, \* captureBundle and consumeErr
          verdict

linkVars == <<sent, remote, conn, ctx>>
execVars == <<xpc, xerr>>
bundleVars == <<bpc, berr>>
mainVars == <<mpc, cerr, verdict>>
captureVars ==
  <<storeVars, redact, want, linkVars, tk, execVars, bundleVars, mainVars>>

CaptureInit ==
  /\ StoreInit
  /\ redact \in Redacts /\ want \in Wants
  /\ sent = 0 /\ tk = 0 /\ remote = "run" /\ conn = "up" /\ ctx = FALSE
  /\ xpc = "off" /\ xerr = "none" /\ bpc = "off" /\ berr = "none"
  /\ mpc = "start" /\ cerr = "none" /\ verdict = "none"

-----------------------------------------------------------------------------
\* The other side of the stream.

Produce ==
  /\ remote = "run" /\ conn = "up" /\ sent < N
  /\ sent' = sent + 1
  /\ UNCHANGED <<remote, conn, ctx>>

\* set -e: exit 0 only after the whole tar went out.
RemoteExit ==
  /\ remote = "run" /\ conn = "up"
  /\ remote' \in IF sent = N THEN {"zero", "nonzero"} ELSE {"nonzero"}
  /\ UNCHANGED <<sent, conn, ctx>>

\* What was still under way may arrive or not.
ConnLost ==
  /\ conn = "up"
  /\ conn' = "lost" /\ sent' \in tk..sent
  /\ UNCHANGED <<remote, ctx>>

\* main.go: SIGINT or SIGTERM cancels ctx, once.
Interrupt ==
  /\ ~ctx /\ ctx' = TRUE
  /\ UNCHANGED <<sent, remote, conn>>

\* Interrupt apart, only what happens during the exec matters.
Environment ==
  /\ \/ xpc = "stream" /\ (Produce \/ RemoteExit \/ ConnLost)
     \/ mpc # "done" /\ Interrupt
  /\ UNCHANGED <<storeVars, redact, want, tk, execVars, bundleVars, mainVars>>

-----------------------------------------------------------------------------
\* The exec goroutine.

\* MUTANT: the exec is not given ctx.
ExecCancelledByPut == mpc = "drain" /\ cerr # "none"

\* MUTANT: no cancelExec after a failed Put.
ExecCancelledByUser == ctx

\* execCtx: ctx, or the cancelExec of a failed Put.
ExecCancelled == ctx \/ (mpc = "drain" /\ cerr # "none")

\* Ended by the remote or the network, once all that arrived is copied; a
\* connection closed in good order carries no error of its own.  Cancelled,
\* execInContainer returns at once.
ExecReturn ==
  /\ xpc = "stream"
  /\ \/ /\ tk = sent
        /\ \/ remote = "nonzero" /\ xerr' = "exit"
           \/ remote = "zero" /\ xerr' = "nil"
           \/ conn = "lost" /\ xerr' \in {"net", "nil"}
     \/ ExecCancelled /\ xerr' = "ctx"
  /\ xpc' = "returned"
  /\ UNCHANGED <<storeVars, redact, want, linkVars, tk, bundleVars, mainVars>>

\* stdoutW.CloseWithError, then the send to the buffered execDone.
ExecClose ==
  /\ xpc = "returned" /\ xpc' = "closed"
  /\ UNCHANGED <<storeVars, redact, want, linkVars, tk, xerr, bundleVars, mainVars>>

\* A read of the stdout pipe finds a token.
Offered == xpc \in {"stream", "returned"} /\ tk < sent

-----------------------------------------------------------------------------
\* redact.Bundle.  Its gzip writer holds back what it likes; the tar trailer
\* and the footer go out in zw.Close, after r was read to the end.

BundleRead ==
  /\ bpc = "read" /\ Offered
  /\ tk' = tk + 1
  /\ bpc' = IF tk' = N THEN "flush" ELSE "read"
  /\ UNCHANGED <<storeVars, redact, want, linkVars, execVars, berr, mainVars>>

\* MUTANT: redactStore.Put does not close pr.
NeverGone == FALSE

\* pr.Close after Put: only a write notices.
ReaderGone == mpc = "join"

BundleEnd ==
  /\ \/ bpc = "read" /\ \/ xpc = "closed" /\ berr' = "cut"
                        \/ tk > 0 /\ berr' = "parse"
                        \/ ReaderGone /\ got < tk /\ berr' = "closed"
     \/ bpc = "flush" /\ \/ got = N /\ berr' = "none"
                         \/ ReaderGone /\ got < N /\ berr' = "closed"
  /\ bpc' = "closed"
  /\ UNCHANGED <<storeVars, redact, want, linkVars, tk, execVars, mainVars>>

-----------------------------------------------------------------------------
\* captureBundle itself.

\* The toolbox is running already: MkdirAll(outDir) may fail beside it.
Launch ==
  /\ mpc = "start"
  /\ \/ /\ mpc' = "done" /\ verdict' = "mkdir" /\ UNCHANGED <<xpc, bpc>>
     \/ /\ mpc' = "put" /\ xpc' = "stream" /\ UNCHANGED verdict
        /\ bpc' = IF redact THEN "read" ELSE "off"
  /\ UNCHANGED <<storeVars, redact, want, linkVars, tk, xerr, berr, cerr>>

\* Put reads a token, from Bundle or from the exec stream.
Readable ==
  IF redact
  THEN bpc \in {"read", "flush"} /\ got < tk /\ (got + 2 < N \/ bpc = "flush")
  ELSE Offered

PutReads ==
  /\ Readable
  /\ Scan \/ Fill \/ FillError
  /\ tk' = IF redact THEN tk ELSE tk + 1

\* The end of its input, with or without an error, comes too early for Put.
PutCut ==
  /\ IF redact THEN bpc = "closed" ELSE xpc = "closed"
  /\ Cut /\ UNCHANGED tk

PutWorks ==
  /\ MakeDir \/ OpenTemp \/ FillEnd \/ Sync \/ Close \/ Rename \/ Undo
  /\ UNCHANGED tk

Put ==
  /\ mpc = "put"
  /\ PutReads \/ PutCut \/ PutWorks
  /\ UNCHANGED <<redact, want, linkVars, execVars, bundleVars, mainVars>>

\* MUTANT: redactStore.Put does not wait for done.
PutReturnsEarly ==
  /\ mpc = "put" /\ pc = "ret"
  /\ cerr' = err /\ mpc' = "drain"
  /\ UNCHANGED <<storeVars, redact, want, linkVars, tk, execVars, bundleVars, verdict>>

PutReturn ==
  /\ mpc = "put" /\ pc = "ret"
  /\ cerr' = err /\ mpc' = IF redact THEN "join" ELSE "drain"
  /\ UNCHANGED <<storeVars, redact, want, linkVars, tk, execVars, bundleVars, verdict>>

\* redactStore.Put waits for Bundle; an error of its own wins.
Join ==
  /\ mpc = "join" /\ bpc = "closed"
  /\ cerr' = IF berr \in {"cut", "parse"} THEN "redact" ELSE cerr
  /\ mpc' = "drain"
  /\ UNCHANGED <<storeVars, redact, want, linkVars, tk, execVars, bundleVars, verdict>>

Drain ==
  /\ mpc = "drain" /\ Offered
  /\ tk' = tk + 1
  /\ UNCHANGED <<storeVars, redact, want, linkVars, execVars, bundleVars, mainVars>>

\* MUTANT: artifacts is not compared with want.
VerdictUncounted == IF xerr = "exit" THEN "exited"
                    ELSE IF cerr # "none" THEN "consume"
                    ELSE IF xerr # "nil" THEN "broken" ELSE "ok"

\* MUTANT: consumeErr is looked at before the exit status.
VerdictSwapped == IF cerr # "none" THEN "consume"
                  ELSE IF xerr = "exit" THEN "exited"
                  ELSE IF xerr # "nil" THEN "broken"
                  ELSE IF count # want THEN "count" ELSE "ok"

Verdict == IF xerr = "exit" THEN "exited"
           ELSE IF cerr # "none" THEN "consume"
           ELSE IF xerr # "nil" THEN "broken"
           ELSE IF count # want THEN "count" ELSE "ok"

\* The drain has met the end and execDone its value.
Finish ==
  /\ mpc = "drain" /\ xpc = "closed"
  /\ mpc' = "done" /\ verdict' = Verdict
  /\ UNCHANGED <<storeVars, redact, want, linkVars, tk, execVars, bundleVars, cerr>>

-----------------------------------------------------------------------------

Main == Launch \/ Put \/ PutReturn \/ Join \/ Drain \/ Finish
Exec == ExecReturn \/ ExecClose
Bundle == BundleRead \/ BundleEnd

Over == mpc = "done" /\ UNCHANGED captureVars

CaptureNext == Environment \/ Exec \/ Bundle \/ Main \/ Over

CaptureSpec == CaptureInit /\ [][CaptureNext]_captureVars

\* Go runs every goroutine that can run.
FairCaptureSpec ==
  CaptureSpec /\ WF_captureVars(Main) /\ WF_captureVars(Exec)
              /\ WF_captureVars(Bundle)

-----------------------------------------------------------------------------

CaptureTypeOK ==
  /\ TypeOK
  /\ redact \in BOOLEAN /\ want \in Nat
  /\ sent \in 0..N /\ tk \in 0..sent
  /\ remote \in {"run", "zero", "nonzero"} /\ conn \in {"up", "lost"}
  /\ ctx \in BOOLEAN
  /\ xpc \in {"off", "stream", "returned", "closed"}
  /\ xerr \in {"none", "nil", "exit", "net", "ctx"}
  /\ bpc \in {"off", "read", "flush", "closed"}
  /\ berr \in {"none", "cut", "parse", "closed"}
  /\ mpc \in {"start", "put", "join", "drain", "done"}
  /\ cerr \in {"none", "io", "cut", "toolarge", "redact"}
  /\ verdict \in {"none", "mkdir", "exited", "consume", "broken", "count", "ok"}

\* captureBundle reports "wrote ..., toolbox exited 0" (dump.go:204) only for a
\* member read to its CRC, persisted in full, with the artifacts asked for and
\* a script that exited 0 -- which a connection closed early may hide.
OkMeansComplete ==
  verdict = "ok" =>
    /\ got = N /\ {f.name : f \in disk} = Wanted /\ NeverPartial
    /\ want = Cardinality(Headers(N))
    /\ berr = "none"
    /\ remote = "zero" \/ conn = "lost"

\* A script that failed is what the user hears of, with its exit status and its
\* stderr, and not the cut stream that it caused (dump.go:185-196): the cut ends
\* Put, whose error cancels the exec, but the exec is over by then.  Unless the
\* connection was lost, the user interrupted, or Put or Bundle gave up for a
\* reason of its own.
ScriptIsBlamed ==
  /\ mpc = "done" /\ remote = "nonzero" /\ conn = "up" /\ ~ctx
  /\ err \in {"none", "cut"} /\ berr # "parse"
  => verdict = "exited"

\* A bundle left behind by a failed capture is whole, and the error says to
\* discard or distrust it (dump.go:196, 200, 202).
LeftoverIsReported ==
  mpc = "done" /\ verdict # "ok" /\ ~extract /\ disk # {} =>
    NeverPartial /\ verdict \in {"exited", "broken", "count"}

\* No goroutine of the capture outlives it, whoever stopped first.
NoGoroutineLeft ==
  mpc = "done" => xpc \in {"off", "closed"} /\ bpc \in {"off", "closed"}

\* Who can take a step, or is given one by the other end of its pipe; a failure
\* that may come or not is not counted on.
ExecMoves ==
  \/ xpc = "stream" /\ ExecCancelled
  \/ xpc = "stream" /\ tk = sent /\ (remote # "run" \/ conn = "lost")
  \/ xpc = "returned"

BundleMoves ==
  \/ bpc = "read" /\ (Offered \/ xpc = "closed" \/ (ReaderGone /\ got < tk))
  \/ bpc = "flush" /\ (got = N \/ ReaderGone)

PutWaits == pc = "scan" \/ (pc = "fill" /\ tmp.len < tmp.need)
PutIsServed == Readable \/ IF redact THEN bpc = "closed" ELSE xpc = "closed"

MainMoves ==
  \/ mpc = "start"
  \/ mpc = "put" /\ pc # "dead" /\ (PutWaits => PutIsServed)
  \/ mpc = "join" /\ bpc = "closed"
  \/ mpc = "drain" /\ (Offered \/ xpc = "closed")

RemoteSilent ==
  xpc = "stream" /\ tk = sent /\ remote = "run" /\ conn = "up" /\ ~ExecCancelled

\* The three goroutines of a capture never wait for each other in a circle: if
\* none of them can go on, all that was sent was read and the remote is silent
\* ("unblock Bundle if inner stopped early", dump.go:65; dump.go:185-191).
OnlyRemoteWaits ==
  mpc # "done" => ExecMoves \/ BundleMoves \/ MainMoves \/ RemoteSilent

\* The capture ends once the script, the connection or the user ended it.
Ends == (ctx \/ remote # "run" \/ conn = "lost") ~> mpc = "done"

\* The capture ends once its Put has failed, even if the remote is silent:
\* cancelExec (dump.go:186-188) and "unblock Bundle if inner stopped early"
\* (dump.go:65).
FailsFast == (mpc # "done" /\ pc = "ret" /\ err # "none") ~> mpc = "done"

\* Without redaction it does (dump.go:185-190).
RawFailsFast ==
  (~redact /\ mpc # "done" /\ pc = "ret" /\ err # "none") ~> mpc = "done"
=============================================================================
