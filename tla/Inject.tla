------------------------------- MODULE Inject -------------------------------
(***************************************************************************)
(* startToolbox (internal/xray/capture.go, ephemeral.go): several xray     *)
(* processes inject ephemeral containers into one pod.  Each asks whether  *)
(* it may exec at all, discovers the target's UID with a probe container   *)
(* when no spec or flag gives it, appends its toolbox to the pod with      *)
(* Get + Update under RetryOnConflict, and watches the pod until the       *)
(* toolbox runs.  The API server refuses an Update made from a stale Get;  *)
(* the kubelet starts the containers and reports their status, which makes *)
(* every earlier Get stale too.  The log of a probe ends with the probe's  *)
(* process, its status may be written later.                               *)
(***************************************************************************)
EXTENDS Naturals, Sequences

CONSTANTS Clients,
          Probing,  \* the clients that must probe for the UID
          Barred,   \* the clients that may not exec into pods
          Attempts  \* retry.DefaultRetry.Steps

ASSUME ClientsAssumption == Probing \subseteq Clients /\ Barred \subseteq Clients
ASSUME AttemptsAssumption == Attempts \in Nat \ {0}

Containers == Clients \X {"probe", "toolbox"}

VARIABLES spec,    \* the ephemeral containers of the pod's spec, in order
          status,  \* what the kubelet reports of each
          exit,    \* how each client's probe ended: it may not have yet
          copy,    \* the spec each client got last
          fresh,   \* whether its resourceVersion is still current
          tries, pc,
          job,     \* what it injects: first "probe", then "toolbox"
          review,  \* the answer to its SelfSubjectAccessReview
          inbox,   \* the status events its watch has yet to deliver
          closed   \* whether the probe's log was closed before its end

vars == <<spec, status, exit, copy, fresh, tries, pc, job, review, inbox, closed>>

podVars == <<spec, status, exit>>

Mine(c) == <<c, job[c]>>
Final == {"refused", "failed", "exec"}
Watching == {c \in Clients : pc[c] = "watch"}

Init ==
  /\ spec = <<>> /\ status = [k \in Containers |-> "waiting"]
  /\ copy = [c \in Clients |-> <<>>] /\ fresh = [c \in Clients |-> FALSE]
  /\ tries = [c \in Clients |-> 0] /\ pc = [c \in Clients |-> "review"]
  /\ job = [c \in Clients |-> IF c \in Probing THEN "probe" ELSE "toolbox"]
  /\ review = [c \in Clients |-> "none"]
  /\ inbox = [c \in Clients |-> <<>>]
  /\ exit = [c \in Clients |-> "none"] /\ closed = [c \in Clients |-> FALSE]

Goto(c, to) == pc' = [pc EXCEPT ![c] = to]

\* Every write to the pod makes the earlier Gets stale.
Bump == fresh' = [c \in Clients |-> FALSE]

-----------------------------------------------------------------------------

\* MUTANT: the probe goes in before the review is looked at.
ReviewLate(c) ==
  /\ pc[c] = "review"
  /\ \E answer \in {"error", IF c \in Barred THEN "denied" ELSE "allowed"} :
       review' = [review EXCEPT ![c] = answer]
  /\ Goto(c, "get")
  /\ UNCHANGED <<podVars, copy, fresh, tries, job, inbox, closed>>

\* A review that itself fails is ignored.
Review(c) ==
  /\ pc[c] = "review"
  /\ \E answer \in {"error", IF c \in Barred THEN "denied" ELSE "allowed"} :
       /\ review' = [review EXCEPT ![c] = answer]
       /\ Goto(c, IF answer = "denied" THEN "refused" ELSE "get")
  /\ UNCHANGED <<podVars, copy, fresh, tries, job, inbox, closed>>

Get(c) ==
  /\ pc[c] = "get"
  /\ \/ /\ copy' = [copy EXCEPT ![c] = spec]
        /\ fresh' = [fresh EXCEPT ![c] = TRUE]
        /\ Goto(c, "update")
     \/ Goto(c, "failed") /\ UNCHANGED <<copy, fresh>>
  /\ UNCHANGED <<podVars, tries, job, review, inbox, closed>>

\* MUTANT: the pod is written whatever its resourceVersion.
UpdateBlindly(c) ==
  /\ pc[c] = "update"
  /\ spec' = Append(copy[c], Mine(c))
  /\ Bump
  /\ \E to \in {"open", "failed"} : Goto(c, to)
  /\ UNCHANGED <<status, exit, copy, tries, job, review, inbox, closed>>

\* MUTANT: a lost response is retried like a conflict.
UpdateRetried(c) ==
  /\ pc[c] = "update" /\ fresh[c] /\ tries[c] < Attempts
  /\ spec' = Append(copy[c], Mine(c))
  /\ tries' = [tries EXCEPT ![c] = @ + 1]
  /\ Bump
  /\ \E to \in {"open", "get"} : Goto(c, to)
  /\ UNCHANGED <<status, exit, copy, job, review, inbox, closed>>

\* The response may be lost after the Update was applied: an error that is no
\* conflict, so it is not retried.
Update(c) ==
  /\ pc[c] = "update" /\ fresh[c]
  /\ spec' = Append(copy[c], Mine(c))
  /\ Bump
  /\ \E to \in {"open", "failed"} : Goto(c, to)
  /\ UNCHANGED <<status, exit, copy, tries, job, review, inbox, closed>>

\* MUTANT: conflicts are retried for ever.
UpdateFailsForever(c) ==
  /\ pc[c] = "update"
  /\ ~fresh[c] /\ tries' = [tries EXCEPT ![c] = @ + 1] /\ Goto(c, "get")
  /\ UNCHANGED <<podVars, copy, fresh, job, review, inbox, closed>>

\* Conflict, or any other error.
UpdateFails(c) ==
  /\ pc[c] = "update"
  /\ \/ Goto(c, "failed") /\ UNCHANGED tries
     \/ /\ ~fresh[c]
        /\ tries' = [tries EXCEPT ![c] = @ + 1]
        /\ Goto(c, IF tries'[c] < Attempts THEN "get" ELSE "failed")
  /\ UNCHANGED <<podVars, copy, fresh, job, review, inbox, closed>>

\* MUTANT: the watch delivers changes only.
OpenWatchLate(c) ==
  /\ pc[c] = "open"
  /\ Goto(c, "watch")
  /\ UNCHANGED <<podVars, copy, fresh, tries, job, review, inbox, closed>>

\* The watch first delivers the pod as it is.
OpenWatch(c) ==
  /\ pc[c] = "open"
  /\ \/ Goto(c, "watch") /\ inbox' = [inbox EXCEPT ![c] = <<status[Mine(c)]>>]
     \/ Goto(c, "failed") /\ UNCHANGED inbox
  /\ UNCHANGED <<podVars, copy, fresh, tries, job, review, closed>>

\* waitForEphemeralStart's check: backoff stands for the Waiting reasons of
\* isWaitingFailure.
Observe(c) ==
  /\ pc[c] = "watch" /\ inbox[c] # <<>>
  /\ inbox' = [inbox EXCEPT ![c] = Tail(@)]
  /\ Goto(c, CASE Head(inbox[c]) = "running" ->
                    IF job[c] = "probe" THEN "logs" ELSE "exec"
               [] Head(inbox[c]) = "terminated" ->
                    IF job[c] = "probe" THEN "logs" ELSE "failed"
               [] Head(inbox[c]) = "backoff" -> "failed"
               [] OTHER -> "watch")
  /\ UNCHANGED <<podVars, copy, fresh, tries, job, review, closed>>

\* The watch closes before the container is seen to start.
WatchEnds(c) ==
  /\ pc[c] = "watch"
  /\ Goto(c, "failed")
  /\ UNCHANGED <<podVars, copy, fresh, tries, job, review, inbox, closed>>

\* MUTANT: the log is read once, not followed to its end.
ReadUIDOnce(c) ==
  /\ pc[c] = "logs"
  /\ job' = [job EXCEPT ![c] = "toolbox"]
  /\ tries' = [tries EXCEPT ![c] = 0]
  /\ Goto(c, "get")
  /\ UNCHANGED <<podVars, copy, fresh, review, inbox, closed>>

\* The log is followed to its end, which comes with the probe's; a probe that
\* fails has written no Uid line.  Then the toolbox is injected.
ReadUID(c) ==
  /\ pc[c] = "logs" /\ exit[c] # "none"
  /\ \/ /\ exit[c] = "zero"
        /\ job' = [job EXCEPT ![c] = "toolbox"]
        /\ tries' = [tries EXCEPT ![c] = 0]
        /\ Goto(c, "get")
     \/ Goto(c, "failed") /\ UNCHANGED <<job, tries>>
  /\ UNCHANGED <<podVars, copy, fresh, review, inbox, closed>>

\* The log stream fails, or is closed in good order before the probe ends:
\* what came of the log may have a Uid line, whole or in part.
LogCut(c) ==
  /\ pc[c] = "logs"
  /\ \/ /\ exit[c] # "nonzero"
        /\ closed' = [closed EXCEPT ![c] = TRUE]
        /\ job' = [job EXCEPT ![c] = "toolbox"]
        /\ tries' = [tries EXCEPT ![c] = 0]
        /\ Goto(c, "get")
     \/ Goto(c, "failed") /\ UNCHANGED <<job, tries, closed>>
  /\ UNCHANGED <<podVars, copy, fresh, review, inbox>>

-----------------------------------------------------------------------------

Listed(k) == \E p \in 1..Len(spec) : spec[p] = k

\* backoff: a start that failed for a reason the kubelet may try again.
Follows ==
  [waiting |-> {"backoff", "running", "terminated"},
   backoff |-> {"running", "terminated"},
   running |-> {"terminated"}, terminated |-> {}]

\* The probe's process ends: no write to the pod.
Exits(c) ==
  /\ Listed(<<c, "probe">>) /\ exit[c] = "none"
  /\ \E e \in {"zero", "nonzero"} : exit' = [exit EXCEPT ![c] = e]
  /\ UNCHANGED <<spec, status, copy, fresh, tries, pc, job, review, inbox, closed>>

\* A report may come late, but never before what it reports.
Kubelet(k) ==
  /\ Listed(k)
  /\ \E s \in Follows[status[k]] :
       /\ k[2] = "probe" /\ s = "terminated" => exit[k[1]] # "none"
       /\ k[2] = "probe" /\ s = "backoff" => exit[k[1]] = "none"
       /\ status' = [status EXCEPT ![k] = s]
       /\ inbox' = [c \in Clients |-> IF c \in Watching /\ Mine(c) = k
                                      THEN Append(inbox[c], s) ELSE inbox[c]]
  /\ Bump
  /\ UNCHANGED <<spec, exit, copy, tries, pc, job, review, closed>>

-----------------------------------------------------------------------------

Client(c) ==
  \/ Review(c) \/ Get(c) \/ Update(c) \/ UpdateFails(c) \/ OpenWatch(c)
  \/ Observe(c) \/ WatchEnds(c) \/ ReadUID(c) \/ LogCut(c)

Settled == (\A c \in Clients : pc[c] \in Final) /\ UNCHANGED vars

Next ==
  \/ \E c \in Clients : Client(c)
  \/ \E c \in Clients : Exits(c)
  \/ \E k \in Containers : Kubelet(k)
  \/ Settled

Spec == Init /\ [][Next]_vars

\* Each xray runs, and the kubelet tries to start what is listed and reports
\* what came of it; it may try again, a container may run on, and a watch or a
\* log may end early, but none of this must happen.  A probe ends by itself.
FairSpec ==
  /\ Spec
  /\ \A c \in Clients :
       /\ WF_vars(Review(c) \/ Get(c) \/ Update(c) \/ UpdateFails(c)
                    \/ OpenWatch(c) \/ Observe(c) \/ ReadUID(c))
       /\ WF_vars(Exits(c))
  /\ \A k \in Containers : WF_vars(status[k] = "waiting" /\ Kubelet(k))

-----------------------------------------------------------------------------

States == {"waiting", "backoff", "running", "terminated"}

TypeOK ==
  /\ spec \in Seq(Containers) /\ status \in [Containers -> States]
  /\ copy \in [Clients -> Seq(Containers)]
  /\ fresh \in [Clients -> BOOLEAN]
  /\ tries \in [Clients -> 0..Attempts]
  /\ pc \in [Clients -> {"review", "get", "update", "open", "watch", "logs"} \cup Final]
  /\ job \in [Clients -> {"probe", "toolbox"}]
  /\ review \in [Clients -> {"none", "error", "allowed", "denied"}]
  /\ inbox \in [Clients -> Seq(States)]
  /\ exit \in [Clients -> {"none", "zero", "nonzero"}]
  /\ closed \in [Clients -> BOOLEAN]

\* Concurrent injections never drop or reorder one another's containers: the
\* reason for Get + Update under RetryOnConflict (ephemeral.go:176-179).
AppendOnly ==
  [][Len(spec) <= Len(spec') /\ \A p \in 1..Len(spec) : spec'[p] = spec[p]]_vars

\* However often an injection is tried, and even if the answer to it is lost,
\* the container is in the pod once (ephemeral.go:184-192).
InjectedOnce ==
  \A p, q \in 1..Len(spec) : spec[p] = spec[q] => p = q

\* An xray that was told it can't exec leaves no container behind, not even a
\* probe (capture.go:152-161).
DeniedLeavesNothing ==
  \A c \in Clients, j \in {"probe", "toolbox"} :
    review[c] = "denied" => ~Listed(<<c, j>>)

\* The exec goes into a toolbox that is in the pod and did start, and where the
\* UID was probed for, the probe was heard out and did not fail
\* (capture.go:132-146, 172-183): unless its log was closed early in good order,
\* which the code cannot tell from the end of the probe.
ExecIntoStarted ==
  \A c \in Clients : pc[c] = "exec" =>
    /\ Listed(<<c, "toolbox">>)
    /\ status[<<c, "toolbox">>] \in {"running", "terminated"}
    /\ c \in Probing /\ ~closed[c] => exit[c] = "zero"

\* Every xray comes to a decision, however the others interfere: no start goes
\* unseen between the Update and the watch (ephemeral.go:215-268).
EveryoneDecides == \A c \in Clients : <>(pc[c] \in Final)
=============================================================================
