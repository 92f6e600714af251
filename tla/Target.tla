------------------------------- MODULE Target -------------------------------
(***************************************************************************)
(* From the command's argument to the user of the toolbox                  *)
(* (internal/xray/capture.go, ephemeral.go, options.go, debug.go): which   *)
(* pod is meant, which of a deployment's pods is picked, which container,  *)
(* and as which user the toolbox runs beside it.  Meanwhile pods come and  *)
(* go; every call after the choice reaches the pod by its name.            *)
(***************************************************************************)
EXTENDS Integers, FiniteSets, Sequences

CONSTANTS Pods,      \* every pod that ever is, whatever its name
          Manifest,  \* of each pod: name, creation time and the users it asks for
          Status,    \* the Uid line of each container's PID 1: real, effective
          Selected,  \* the pods each deployment's selector matches, by its name
          Requests   \* the command lines

Unset == -1

ASSUME PodsAssumption == IsFiniteSet(Pods) /\ "none" \notin Pods
ASSUME CreatedAssumption == \A p \in Pods : Manifest[p].created \in Nat

Running(phase) == phase = "Running"
Item == [pod : Pods, phase : {"Pending", "Running"}, ready : BOOLEAN]
NoToolbox == [pod |-> "none", uid |-> Unset, gid |-> Unset]

VARIABLES lives,     \* of each pod: is it not yet there, alive, or gone?
          request, pc,
          list,      \* the pods that the List call returned, as it found them
          i, best,   \* the loop over them: next index, index of the best so far
          pod,       \* the pod the request resolved to
          container, \* the container it is about
          uid, gid, from, \* the user of the toolbox and the pod it was learnt from
          injected,  \* the pods that got a container of this process, for good
          toolbox    \* where the toolbox runs, and as whom

vars == <<lives, request, pc, list, i, best, pod, container, uid, gid, from,
          injected, toolbox>>
choice == <<list, i, best>>
user == <<container, uid, gid, from>>
effects == <<injected, toolbox>>

-----------------------------------------------------------------------------
\* parseTarget and Validate: TYPE/NAME, or a bare name.

Kind(r) == IF ~r.typed THEN "" ELSE
           IF r.type \in {"pod", "pods", "po"} THEN "pod" ELSE
           IF r.type \in {"deployment", "deployments", "deploy"} THEN "deployment"
                                                                 ELSE "unsupported"
BadRequest(r) == r.name = "" \/ r.image = "" \/ Kind(r) = "unsupported"

Alive == {p \in Pods : lives[p] = "alive"}
Named(name) == {p \in Alive : Manifest[p].name = name}

Init ==
  /\ lives \in [Pods -> {"unborn", "alive"}]
  /\ \A p, q \in Alive : Manifest[p].name = Manifest[q].name => p = q
  /\ request \in Requests
  /\ pc = IF BadRequest(request) THEN "refused" ELSE
          IF Kind(request) = "deployment" THEN "deployment" ELSE "get"
  /\ list = <<>> /\ i = 1 /\ best = 0
  /\ pod = "none" /\ container = ""
  /\ uid = Unset /\ gid = Unset /\ from = "none"
  /\ injected = {} /\ toolbox = NoToolbox

-----------------------------------------------------------------------------
\* resolvePod

\* MUTANT: pod/NAME goes on to the deployment of that name.
GetPodFallsThrough ==
  /\ pc = "get"
  /\ \/ \E p \in Named(request.name) : pod' = p /\ pc' = "picked"
     \/ Named(request.name) = {} /\ pc' = "deployment" /\ UNCHANGED pod
  /\ UNCHANGED <<lives, request, choice, user, effects>>

\* Any other error than NotFound ends the command.
GetPod ==
  /\ pc = "get"
  /\ \/ \E p \in Named(request.name) : pod' = p /\ pc' = "picked"
     \/ /\ Named(request.name) = {} /\ UNCHANGED pod
        /\ pc' = IF Kind(request) = "pod" THEN "refused" ELSE "deployment"
     \/ pc' = "refused" /\ UNCHANGED pod
  /\ UNCHANGED <<lives, request, choice, user, effects>>

GetDeployment ==
  /\ pc = "deployment"
  /\ \/ request.name \in DOMAIN Selected /\ pc' = "list"
     \/ pc' = "refused"
  /\ UNCHANGED <<lives, request, choice, pod, user, effects>>

Listings(S) == {l \in [1..Cardinality(S) -> Item] : {l[j].pod : j \in DOMAIN l} = S}

List ==
  /\ pc = "list"
  /\ \/ list' \in Listings(Selected[request.name] \cap Alive) /\ pc' = "pick"
     \/ pc' = "refused" /\ UNCHANGED list
  /\ UNCHANGED <<lives, request, i, best, pod, user, effects>>

podRank(p) == IF ~Running(p.phase) THEN 0 ELSE IF p.ready THEN 2 ELSE 1
Created(p) == Manifest[p.pod].created

\* MUTANT: the newest of all.
BetterNewer(p, q) ==
  \/ Created(p) > Created(q)
  \/ Created(p) = Created(q) /\ podRank(p) > podRank(q)

Better(p, q) ==
  \/ podRank(p) > podRank(q)
  \/ podRank(p) = podRank(q) /\ Created(p) > Created(q)

\* MUTANT: the index of the best is one off.
PickNextOff ==
  /\ pc = "pick" /\ i <= Len(list)
  /\ best' = IF best = 0 \/ Better(list[i], list[best]) THEN i + 1 ELSE best
  /\ i' = i + 1
  /\ UNCHANGED <<lives, request, pc, list, pod, user, effects>>

PickNext ==
  /\ pc = "pick" /\ i <= Len(list)
  /\ best' = IF best = 0 \/ Better(list[i], list[best]) THEN i ELSE best
  /\ i' = i + 1
  /\ UNCHANGED <<lives, request, pc, list, pod, user, effects>>

PickDone ==
  /\ pc = "pick" /\ i > Len(list)
  /\ IF best = 0 THEN pc' = "refused" /\ UNCHANGED pod
                 ELSE pc' = "picked" /\ pod' = list[best].pod
  /\ UNCHANGED <<lives, request, choice, user, effects>>

-----------------------------------------------------------------------------
\* debug wants a terminal before anything is injected.

NoTerminal(r) == r.command = "debug" /\ ~r.terminal

\* MUTANT: the terminal is looked at only when the shell starts.
CheckTerminalLate ==
  /\ pc = "picked" /\ pc' = "derive"
  /\ UNCHANGED <<lives, request, choice, pod, user, effects>>

CheckTerminal ==
  /\ pc = "picked"
  /\ pc' = IF NoTerminal(request) THEN "refused" ELSE "derive"
  /\ UNCHANGED <<lives, request, choice, pod, user, effects>>

-----------------------------------------------------------------------------
\* startToolbox: the container, the user, and the two injections.

resolveContainer(p) ==
  IF request.container # "" THEN request.container ELSE
  IF Manifest[p].annotation # "" THEN Manifest[p].annotation ELSE Manifest[p].containers[1]

Has(p, c) == c \in DOMAIN Manifest[p].user

Or(a, b) == IF a # Unset THEN a ELSE b

\* MUTANT: the pod's user goes before the container's.
deriveUIDPodFirst(p, c) ==
  Or(Manifest[p].podUser, IF Has(p, c) THEN Manifest[p].user[c] ELSE Unset)

\* deriveUser; a container that does not exist has no user of its own.
deriveUID(p, c) == Or(IF Has(p, c) THEN Manifest[p].user[c] ELSE Unset, Manifest[p].podUser)
deriveGID(p, c) == Or(IF Has(p, c) THEN Manifest[p].group[c] ELSE Unset, Manifest[p].podGroup)

Derive ==
  /\ pc = "derive"
  /\ LET c == resolveContainer(pod)
         u == Or(request.override, deriveUID(pod, c))
     IN  /\ container' = c /\ uid' = u /\ gid' = deriveGID(pod, c) /\ from' = pod
         /\ pc' = IF u = Unset THEN "probe" ELSE "inject"
  /\ UNCHANGED <<lives, request, choice, pod, effects>>

\* The API server takes a container only beside one that exists, in the pod
\* that has the name now.
Receives(p) == p \in Named(Manifest[pod].name) /\ Has(p, container)

Probe ==
  /\ pc = "probe"
  /\ \/ \E p \in Pods : /\ Receives(p) /\ pc' = "read"
                        /\ injected' = injected \cup {p} /\ from' = p
     \/ pc' = "refused" /\ UNCHANGED <<injected, from>>
  /\ UNCHANGED <<lives, request, choice, pod, container, uid, gid, toolbox>>

\* The first number of the Uid line, the real UID.
parseStatusUID(line) == line[1]

ReadUID ==
  /\ pc = "read"
  /\ \/ lives[from] = "alive" /\ uid' = parseStatusUID(Status[from][container]) /\ pc' = "inject"
     \/ pc' = "refused" /\ UNCHANGED uid
  /\ UNCHANGED <<lives, request, choice, pod, container, gid, from, effects>>

Inject ==
  /\ pc = "inject"
  /\ \/ \E p \in Pods : /\ Receives(p) /\ pc' = "done"
                        /\ injected' = injected \cup {p}
                        /\ toolbox' = [pod |-> p, uid |-> uid, gid |-> gid]
     \/ pc' = "refused" /\ UNCHANGED effects
  /\ UNCHANGED <<lives, request, choice, pod, user>>

Client == \/ GetPod \/ GetDeployment \/ List \/ PickNext \/ PickDone \/ CheckTerminal
          \/ Derive \/ Probe \/ ReadUID \/ Inject

-----------------------------------------------------------------------------
\* Pods are deleted, and created anew, also under a name that has become free.

Delete(p) == lives[p] = "alive" /\ lives' = [lives EXCEPT ![p] = "gone"]
Create(p) == /\ lives[p] = "unborn" /\ Named(Manifest[p].name) = {}
             /\ lives' = [lives EXCEPT ![p] = "alive"]

Cluster == /\ \E p \in Pods : Delete(p) \/ Create(p)
           /\ UNCHANGED <<request, pc, choice, pod, user, effects>>

Next == Client \/ Cluster

Spec == Init /\ [][Next]_vars

-----------------------------------------------------------------------------
TypeOK ==
  /\ lives \in [Pods -> {"unborn", "alive", "gone"}]
  /\ request \in Requests
  /\ pc \in {"get", "deployment", "list", "pick", "picked", "derive", "probe", "read",
             "inject", "done", "refused"}
  /\ list \in Seq(Item) /\ i \in 1..(Len(list) + 1) /\ best \in 0..Len(list)
  /\ pod \in Pods \cup {"none"} /\ from \in Pods \cup {"none"}
  /\ injected \subseteq Pods /\ toolbox.pod \in Pods \cup {"none"}

\* When a deployment left a choice, the pod taken is one of the list, no other
\* has a higher rank (ready before running before anything else), and none of
\* the same rank is newer or as new and listed before it.
PickedBest ==
  list # <<>> /\ pod # "none" =>
    \E k \in 1..Len(list) :
      /\ list[k].pod = pod
      /\ \A j \in 1..Len(list) :
           /\ podRank(list[j]) <= podRank(list[k])
           /\ podRank(list[j]) = podRank(list[k]) =>
                /\ Created(list[j]) <= Created(list[k])
                /\ j < k => Created(list[j]) < Created(list[k])

\* TYPE/NAME is kept to (capture.go:47-88): for pod/NAME only a pod of that name
\* is injected, for deployment/NAME a pod of the deployment is picked even if
\* another pod has the deployment's name.  What is injected is the pod picked
\* or, when that one is gone, one that was created under its name: the calls go
\* by name (ephemeral.go:185-189), and no one asks whether the deployment
\* selects the new pod.
KindKept ==
  \A p \in injected :
    /\ Kind(request) = "pod" => Manifest[p].name = request.name
    /\ Kind(request) = "deployment" => pod \in Selected[request.name]
    /\ \/ p = pod
       \/ lives[pod] = "gone" /\ Manifest[p].name = Manifest[pod].name

RealUID(p, c) == Status[p][c][1]
EffectiveUID(p, c) == Status[p][c][2]

\* A process that runs as its manifest asks, if it asks for anything.
Obeys(p, c) ==
  LET asked == IF Manifest[p].user[c] # Unset THEN Manifest[p].user[c] ELSE Manifest[p].podUser
  IN  asked \in {Unset, EffectiveUID(p, c)}

\* Without --run-as-user the toolbox has the effective UID of the target's PID 1,
\* "the real running UID, which we then match to read environ"
\* (ephemeral.go:99-101), be it taken from the pod or probed.  The premises are
\* what the code does not do: the pod was not replaced under its name after the
\* UID was learnt, the process has not left the user of its manifest, and it was
\* not started setuid, for parseStatusUID takes the real UID.
UserMatches ==
  /\ toolbox.pod # "none" /\ toolbox.pod = from /\ request.override = Unset
  /\ Obeys(toolbox.pod, container)
  /\ RealUID(toolbox.pod, container) = EffectiveUID(toolbox.pod, container)
  => toolbox.uid = EffectiveUID(toolbox.pod, container)

\* debug without a terminal leaves no container behind, no probe either.
DebugLeavesNothing == NoTerminal(request) => injected = {}

=============================================================================
