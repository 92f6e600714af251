---------------------------- MODULE TargetProofs ----------------------------
(***************************************************************************)
(* The safety properties of Target, for any pods, manifests, deployments   *)
(* and requests.  TInv adds to them what the loop of pickPod knows after   *)
(* each turn, where the UID comes from at each point, and that of the pods *)
(* of one name at most one is alive.                                       *)
(***************************************************************************)
EXTENDS Target, FiniteSetTheorems, TLAPS

\* After n turns over l, k is the index of the best of the first n; 0 before
\* the first turn.
BestOf(l, k, n) ==
  /\ k = 0 <=> n = 0
  /\ n # 0 =>
       /\ k \in 1..n
       /\ \A j \in 1..n :
            /\ podRank(l[j]) <= podRank(l[k])
            /\ podRank(l[j]) = podRank(l[k]) =>
                 /\ Created(l[j]) <= Created(l[k])
                 /\ j < k => Created(l[j]) < Created(l[k])

Early == {"get", "deployment", "list"}
Undecided == Early \cup {"pick", "picked", "derive"}
Resolved == {"picked", "derive", "probe", "read", "inject", "done"}

PickInv ==
  /\ pc \in Early => list = <<>> /\ i = 1 /\ best = 0 /\ pod = "none"
  /\ pc = "pick" => BestOf(list, best, i - 1) /\ pod = "none"
  /\ list # <<>> /\ pod # "none" =>
       BestOf(list, best, Len(list)) /\ pod = list[best].pod

KindInv ==
  /\ Kind(request) = "deployment" => pc # "get"
  /\ Kind(request) = "pod" => pc \notin {"deployment", "list", "pick"}
  /\ pc = "pick" => \A j \in 1..Len(list) : list[j].pod \in Selected[request.name]
  /\ pc \in Undecided => injected = {}
  /\ pc \in Resolved \/ injected # {} =>
       /\ pod \in Pods
       /\ Kind(request) = "pod" => Manifest[pod].name = request.name
       /\ Kind(request) = "deployment" => pod \in Selected[request.name]
  /\ \A p \in injected :
       p = pod \/ (lives[pod] = "gone" /\ Manifest[p].name = Manifest[pod].name)

\* A name has one pod at a time, and what was picked did exist.
LivesInv ==
  /\ \A p, q \in Alive : Manifest[p].name = Manifest[q].name => p = q
  /\ pc = "pick" => \A j \in 1..Len(list) : lives[list[j].pod] # "unborn"
  /\ pod # "none" => lives[pod] # "unborn"

\* What is known of the UID when it is not given on the command line.
Learnt == \/ uid = Status[from][container][1]
          \/ uid # Unset /\ uid = deriveUID(from, container)

UserInv ==
  /\ pc = "probe" => request.override = Unset
  /\ pc = "read" => from \in Pods
  /\ pc \in {"inject", "done"} => request.override # Unset \/ Learnt
  /\ toolbox.pod # "none" =>
       /\ pc = "done" /\ toolbox.uid = uid /\ Has(toolbox.pod, container)

DebugInv == NoTerminal(request) => pc \in Early \cup {"pick", "picked", "refused"} /\ injected = {}

TInv == TypeOK /\ PickInv /\ KindInv /\ LivesInv /\ UserInv /\ DebugInv

-----------------------------------------------------------------------------
\* A pod's rank is one of three.
LEMMA RankType == \A p \in Item : podRank(p) \in 0..2 /\ Created(p) \in Nat
  BY CreatedAssumption DEF podRank, Item, Running, Created

\* What List returns is a sequence of items whose pods are the ones asked for.
LEMMA ListingType ==
  ASSUME NEW S \in SUBSET Pods, NEW l \in Listings(S)
  PROVE  l \in Seq(Item) /\ \A j \in 1..Len(l) : l[j].pod \in S
<1>1. IsFiniteSet(S)
  BY PodsAssumption, FS_Subset
<1>2. Cardinality(S) \in Nat
  BY <1>1, FS_CardinalityType
<1>3. l \in [1..Cardinality(S) -> Item] /\ {l[j].pod : j \in DOMAIN l} = S
  BY DEF Listings
<1>4. l \in Seq(Item) /\ DOMAIN l = 1..Len(l)
  BY <1>2, <1>3
<1>. QED
  BY <1>3, <1>4

\* One turn of the loop keeps the index of the best.
LEMMA PickTurn ==
  ASSUME NEW l \in Seq(Item), NEW k \in Nat, NEW n \in 1..Len(l), BestOf(l, k, n - 1)
  PROVE  BestOf(l, IF k = 0 \/ Better(l[n], l[k]) THEN n ELSE k, n)
<1> DEFINE m == IF k = 0 \/ Better(l[n], l[k]) THEN n ELSE k
<1>1. \A j \in 1..Len(l) : podRank(l[j]) \in 0..2 /\ Created(l[j]) \in Nat
  BY RankType
<1>2. CASE k = 0
  <2>1. n = 1 /\ m = 1
    BY <1>2 DEF BestOf
  <2> QED BY <1>1, <2>1 DEF BestOf
<1>3. CASE k # 0
  <2>1. k \in 1..(n - 1) /\ n - 1 # 0 /\ m \in 1..n
    BY <1>3 DEF BestOf
  <2>2. \A j \in 1..(n - 1) :
          /\ podRank(l[j]) <= podRank(l[k])
          /\ podRank(l[j]) = podRank(l[k]) =>
               /\ Created(l[j]) <= Created(l[k])
               /\ j < k => Created(l[j]) < Created(l[k])
    BY <2>1 DEF BestOf
  <2>3. ASSUME NEW j \in 1..n
        PROVE  /\ podRank(l[j]) <= podRank(l[m])
               /\ podRank(l[j]) = podRank(l[m]) =>
                    /\ Created(l[j]) <= Created(l[m])
                    /\ j < m => Created(l[j]) < Created(l[m])
    <3>1. /\ podRank(l[j]) \in 0..2 /\ Created(l[j]) \in Nat
          /\ podRank(l[n]) \in 0..2 /\ Created(l[n]) \in Nat
          /\ podRank(l[k]) \in 0..2 /\ Created(l[k]) \in Nat
      BY <1>1, <2>1
    <3>2. CASE Better(l[n], l[k])
      BY <1>3, <2>1, <2>2, <3>1, <3>2 DEF Better
    <3>3. CASE ~Better(l[n], l[k])
      BY <1>3, <2>1, <2>2, <3>1, <3>3 DEF Better
    <3> QED BY <3>2, <3>3
  <2>4. BestOf(l, m, n)
    <3> HIDE DEF m
    <3> QED BY <2>1, <2>3 DEF BestOf
  <2> QED BY <2>4
<1> QED BY <1>2, <1>3

-----------------------------------------------------------------------------
LEMMA TInvInit == Init => TInv
<1> SUFFICES ASSUME Init PROVE TInv
  OBVIOUS
<1>1. Kind(request) \in {"", "pod", "deployment", "unsupported"}
  BY DEF Kind
<1>2. pc \in {"refused", "deployment", "get"}
  BY DEF Init
<1>3. TypeOK
  <2>1. lives \in [Pods -> {"unborn", "alive", "gone"}]
    BY DEF Init
  <2>2. list \in Seq(Item) /\ i \in 1..(Len(list) + 1) /\ best \in 0..Len(list)
    <3>1. list = <<>> /\ i = 1 /\ best = 0
      BY DEF Init
    <3>2. <<>> \in Seq(Item) /\ Len(<<>>) = 0
      OBVIOUS
    <3> QED BY <3>1, <3>2
  <2>3. injected \subseteq Pods /\ toolbox.pod \in Pods \cup {"none"}
    BY DEF Init, NoToolbox
  <2>4. request \in Requests /\ pod = "none" /\ from = "none"
    BY DEF Init
  <2> QED BY <1>2, <2>1, <2>2, <2>3, <2>4 DEF TypeOK
<1>4. PickInv
  BY <1>2 DEF Init, PickInv, Early
<1>5. KindInv
  BY <1>1, <1>2 DEF Init, KindInv, Early, Undecided, Resolved, BadRequest
<1>6. UserInv /\ DebugInv
  BY <1>2 DEF Init, UserInv, DebugInv, Early, NoToolbox
<1>7. LivesInv
  BY <1>2 DEF Init, LivesInv
<1> QED
  BY <1>3, <1>4, <1>5, <1>6, <1>7 DEF TInv

\* Types, one action at a time.
LEMMA TypeStep == TypeOK /\ PickInv /\ UserInv /\ Next => TypeOK'
<1> SUFFICES ASSUME TypeOK, PickInv, UserInv, Next PROVE TypeOK'
  OBVIOUS
<1> USE DEF TypeOK, choice, user, effects
<1>1. CASE GetPod BY <1>1 DEF GetPod, Named, Alive
<1>2. CASE GetDeployment BY <1>2 DEF GetDeployment
<1>3. CASE List
  <2>1. Selected[request.name] \cap Alive \in SUBSET Pods
    BY DEF Alive
  <2>2. list' \in Seq(Item)
    BY <1>3, <2>1, ListingType DEF List
  <2>3. i = 1 /\ best = 0
    BY <1>3 DEF List, PickInv, Early
  <2> QED BY <1>3, <2>2, <2>3 DEF List
<1>4. CASE PickNext BY <1>4 DEF PickNext
<1>5. CASE PickDone
  <2>1. best # 0 => list[best] \in Item
    OBVIOUS
  <2> QED BY <1>5, <2>1 DEF PickDone, Item
<1>6. CASE CheckTerminal BY <1>6 DEF CheckTerminal
<1>7. CASE Derive BY <1>7 DEF Derive
<1>8. CASE Probe BY <1>8 DEF Probe
<1>9. CASE ReadUID BY <1>9 DEF ReadUID
<1>10. CASE Inject BY <1>10 DEF Inject
<1>11. CASE Cluster BY <1>11 DEF Cluster, Delete, Create
<1> QED
  BY <1>1, <1>2, <1>3, <1>4, <1>5, <1>6, <1>7, <1>8, <1>9, <1>10, <1>11 DEF Next, Client

\* What the loop knows.
LEMMA PickStep == TypeOK /\ PickInv /\ Next => PickInv'
<1> SUFFICES ASSUME TypeOK, PickInv, Next PROVE PickInv'
  OBVIOUS
<1> USE DEF choice, user, effects, PickInv, Early
<1>1. CASE GetPod BY <1>1 DEF GetPod
<1>2. CASE GetDeployment BY <1>2 DEF GetDeployment
<1>3. CASE List BY <1>3 DEF List, BestOf
<1>4. CASE PickNext
  <2>1. i \in 1..Len(list) /\ list \in Seq(Item) /\ best \in Nat
    BY <1>4 DEF TypeOK, PickNext
  <2>2. BestOf(list, best, i - 1)
    BY <1>4 DEF PickNext
  <2>3. BestOf(list', best', i)
    BY <1>4, <2>1, <2>2, PickTurn DEF PickNext
  <2> QED BY <1>4, <2>1, <2>3 DEF PickNext
<1>5. CASE PickDone
  <2>1. list \in Seq(Item) /\ i = Len(list) + 1
    BY <1>5 DEF PickDone, TypeOK
  <2>2. BestOf(list, best, Len(list))
    BY <1>5, <2>1 DEF PickDone
  <2> QED BY <1>5, <2>2 DEF PickDone
<1>6. CASE CheckTerminal BY <1>6 DEF CheckTerminal
<1>7. CASE Derive BY <1>7 DEF Derive
<1>8. CASE Probe BY <1>8 DEF Probe
<1>9. CASE ReadUID BY <1>9 DEF ReadUID
<1>10. CASE Inject BY <1>10 DEF Inject
<1>11. CASE Cluster BY <1>11 DEF Cluster
<1> QED
  BY <1>1, <1>2, <1>3, <1>4, <1>5, <1>6, <1>7, <1>8, <1>9, <1>10, <1>11 DEF Next, Client

\* Pods come to life under names that are free, and do not come back.
LEMMA LivesStep == TInv /\ Next => LivesInv'
<1> SUFFICES ASSUME TypeOK, PickInv, LivesInv, Next PROVE LivesInv'
  BY DEF TInv
<1> USE DEF choice, user, effects, LivesInv
<1>1. CASE Client
  <2>1. lives' = lives /\ Alive' = Alive
    BY <1>1 DEF Client, GetPod, GetDeployment, List, PickNext, PickDone, CheckTerminal,
                Derive, Probe, ReadUID, Inject, Alive
  <2>2. pc' = "pick" => \A j \in 1..Len(list') : lives[list'[j].pod] # "unborn"
    <3>1. CASE List
      <4>1. Selected[request.name] \cap Alive \in SUBSET Pods
        BY DEF Alive
      <4> QED BY <3>1, <4>1, ListingType DEF List, Alive
    <3>2. CASE ~List
      BY <1>1, <3>2 DEF Client, GetPod, GetDeployment, PickNext, PickDone, CheckTerminal,
                        Derive, Probe, ReadUID, Inject
    <3> QED BY <3>1, <3>2
  <2>3. pod' # "none" => lives[pod'] # "unborn"
    <3>1. CASE GetPod
      BY <3>1 DEF GetPod, Named, Alive
    <3>2. CASE PickDone
      <4>1. best # 0 => best \in 1..Len(list)
        BY DEF TypeOK
      <4> QED BY <3>2, <4>1 DEF PickDone
    <3>3. CASE ~GetPod /\ ~PickDone
      BY <1>1, <3>3 DEF Client, GetDeployment, List, PickNext, CheckTerminal,
                        Derive, Probe, ReadUID, Inject
    <3> QED BY <3>1, <3>2, <3>3
  <2> QED BY <2>1, <2>2, <2>3
<1>2. CASE Cluster
  <2>1. PICK p \in Pods : Delete(p) \/ Create(p)
    BY <1>2 DEF Cluster
  <2>2. UNCHANGED <<pc, list, pod>>
    BY <1>2 DEF Cluster
  <2>3. lives \in [Pods -> {"unborn", "alive", "gone"}]
    BY DEF TypeOK
  <2>4. \A q \in Pods : lives[q] # "unborn" => lives'[q] # "unborn"
    BY <2>1, <2>3 DEF Delete, Create
  <2>5. \A q, x \in Alive' : Manifest[q].name = Manifest[x].name => q = x
    <3>1. CASE Delete(p)
      <4>1. Alive' \subseteq Alive
        BY <2>3, <3>1 DEF Delete, Alive
      <4> QED BY <4>1
    <3>2. CASE Create(p)
      <4>1. Alive' \subseteq Alive \cup {p}
        BY <2>3, <3>2 DEF Create, Alive
      <4>2. \A q \in Alive : Manifest[q].name # Manifest[p].name
        BY <3>2 DEF Create, Named
      <4> QED BY <4>1, <4>2
    <3> QED BY <2>1, <3>1, <3>2
  <2>6. \A j \in 1..Len(list) : list[j].pod \in Pods
    <3>1. \A j \in 1..Len(list) : list[j] \in Item
      BY DEF TypeOK
    <3> QED BY <3>1 DEF Item
  <2>7. pod # "none" => pod \in Pods
    BY DEF TypeOK
  <2> QED BY <2>2, <2>4, <2>5, <2>6, <2>7
<1> QED BY <1>1, <1>2 DEF Next

\* The pod that receives a container is the one picked, unless that is gone.
LEMMA ReceivesPicked ==
  ASSUME TypeOK, LivesInv, pod \in Pods, NEW p \in Pods, Receives(p)
  PROVE  p = pod \/ (lives[pod] = "gone" /\ Manifest[p].name = Manifest[pod].name)
<1>1. p \in Alive /\ Manifest[p].name = Manifest[pod].name
  BY DEF Receives, Named
<1>2. CASE pod \in Alive
  BY <1>1, <1>2 DEF LivesInv
<1>3. CASE pod \notin Alive
  <2>1. lives[pod] \in {"unborn", "alive", "gone"} /\ lives[pod] # "alive" /\ lives[pod] # "unborn"
    BY <1>3, PodsAssumption DEF LivesInv, Alive, TypeOK
  <2> QED BY <1>1, <2>1
<1> QED BY <1>2, <1>3

\* What kind of argument led where.
LEMMA KindStep == TInv /\ Next => KindInv'
<1> SUFFICES ASSUME TypeOK, PickInv, KindInv, LivesInv, Next PROVE KindInv'
  BY DEF TInv
<1> USE DEF choice, user, effects, KindInv, Undecided, Resolved, Early
<1>1. CASE GetPod BY <1>1 DEF GetPod, Named, Alive
<1>2. CASE GetDeployment BY <1>2 DEF GetDeployment
<1>3. CASE List
  <2>1. Selected[request.name] \cap Alive \in SUBSET Pods
    BY DEF Alive
  <2>2. pc' = "pick" => \A j \in 1..Len(list') : list'[j].pod \in Selected[request.name]
    BY <1>3, <2>1, ListingType DEF List
  <2> QED BY <1>3, <2>2 DEF List
<1>4. CASE PickNext BY <1>4 DEF PickNext
<1>5. CASE PickDone
  <2>1. best # 0 => best \in 1..Len(list) /\ list[best] \in Item
    BY DEF TypeOK
  <2> QED BY <1>5, <2>1 DEF PickDone, Item
<1>6. CASE CheckTerminal BY <1>6 DEF CheckTerminal
<1>7. CASE Derive BY <1>7 DEF Derive
<1>8. CASE Probe
  <2>1. pc = "probe" /\ pod \in Pods
    BY <1>8 DEF Probe
  <2>2. CASE \E p \in Pods : Receives(p) /\ injected' = injected \cup {p}
    <3>1. PICK p \in Pods : Receives(p) /\ injected' = injected \cup {p}
      BY <2>2
    <3>2. p = pod \/ (lives[pod] = "gone" /\ Manifest[p].name = Manifest[pod].name)
      BY <2>1, <3>1, ReceivesPicked
    <3> QED BY <1>8, <2>1, <3>1, <3>2 DEF Probe
  <2>3. CASE UNCHANGED injected
    BY <1>8, <2>1, <2>3 DEF Probe
  <2> QED BY <1>8, <2>2, <2>3 DEF Probe
<1>9. CASE ReadUID BY <1>9 DEF ReadUID
<1>10. CASE Inject
  <2>1. pc = "inject" /\ pod \in Pods
    BY <1>10 DEF Inject
  <2>2. CASE \E p \in Pods : Receives(p) /\ injected' = injected \cup {p}
    <3>1. PICK p \in Pods : Receives(p) /\ injected' = injected \cup {p}
      BY <2>2
    <3>2. p = pod \/ (lives[pod] = "gone" /\ Manifest[p].name = Manifest[pod].name)
      BY <2>1, <3>1, ReceivesPicked
    <3> QED BY <1>10, <2>1, <3>1, <3>2 DEF Inject
  <2>3. CASE UNCHANGED injected
    BY <1>10, <2>1, <2>3 DEF Inject
  <2> QED BY <1>10, <2>2, <2>3 DEF Inject
<1>11. CASE Cluster
  <2>1. PICK p \in Pods : Delete(p) \/ Create(p)
    BY <1>11 DEF Cluster
  <2>2. pod \in Pods /\ lives[pod] = "gone" => lives'[pod] = "gone"
    BY <2>1 DEF Delete, Create, TypeOK
  <2> QED BY <1>11, <2>2 DEF Cluster
<1> QED
  BY <1>1, <1>2, <1>3, <1>4, <1>5, <1>6, <1>7, <1>8, <1>9, <1>10, <1>11 DEF Next, Client

\* Where the UID comes from.
LEMMA UserStep == TInv /\ Next => UserInv'
<1> SUFFICES ASSUME TypeOK, KindInv, UserInv, Next PROVE UserInv'
  BY DEF TInv
<1> USE DEF choice, user, effects, UserInv, Learnt
<1>1. CASE GetPod BY <1>1 DEF GetPod
<1>2. CASE GetDeployment BY <1>2 DEF GetDeployment
<1>3. CASE List BY <1>3 DEF List
<1>4. CASE PickNext BY <1>4 DEF PickNext
<1>5. CASE PickDone BY <1>5 DEF PickDone
<1>6. CASE CheckTerminal BY <1>6 DEF CheckTerminal
<1>7. CASE Derive BY <1>7 DEF Derive, Or
<1>8. CASE Probe BY <1>8 DEF Probe
<1>9. CASE ReadUID BY <1>9 DEF ReadUID, parseStatusUID
<1>10. CASE Inject BY <1>10 DEF Inject, Receives
<1>11. CASE Cluster BY <1>11 DEF Cluster
<1> QED
  BY <1>1, <1>2, <1>3, <1>4, <1>5, <1>6, <1>7, <1>8, <1>9, <1>10, <1>11 DEF Next, Client

\* debug without a terminal gets no further than the check.
LEMMA DebugStep == TInv /\ Next => DebugInv'
<1> SUFFICES ASSUME DebugInv, Next PROVE DebugInv'
  BY DEF TInv
<1> USE DEF choice, user, effects, DebugInv, Early
<1>1. CASE GetPod BY <1>1 DEF GetPod
<1>2. CASE GetDeployment BY <1>2 DEF GetDeployment
<1>3. CASE List BY <1>3 DEF List
<1>4. CASE PickNext BY <1>4 DEF PickNext
<1>5. CASE PickDone BY <1>5 DEF PickDone
<1>6. CASE CheckTerminal BY <1>6 DEF CheckTerminal
<1>7. CASE Derive BY <1>7 DEF Derive
<1>8. CASE Probe BY <1>8 DEF Probe
<1>9. CASE ReadUID BY <1>9 DEF ReadUID
<1>10. CASE Inject BY <1>10 DEF Inject
<1>11. CASE Cluster BY <1>11 DEF Cluster
<1> QED
  BY <1>1, <1>2, <1>3, <1>4, <1>5, <1>6, <1>7, <1>8, <1>9, <1>10, <1>11 DEF Next, Client

\* A step that changes nothing.
LEMMA TInvStutter == TInv /\ UNCHANGED vars => TInv'
<1> SUFFICES ASSUME TInv, UNCHANGED vars PROVE TInv'
  OBVIOUS
<1> USE DEF vars, choice, user, effects
<1>1. TypeOK' BY DEF TInv, TypeOK
<1>2. PickInv' BY DEF TInv, PickInv
<1>3. KindInv' BY DEF TInv, KindInv
<1>4. UserInv' /\ DebugInv' BY DEF TInv, UserInv, Learnt, DebugInv
<1>5. LivesInv' BY DEF TInv, LivesInv, Alive
<1> QED BY <1>1, <1>2, <1>3, <1>4, <1>5 DEF TInv

LEMMA TInvAlways == Spec => []TInv
<1>1. TInv /\ [Next]_vars => TInv'
  BY TypeStep, PickStep, KindStep, LivesStep, UserStep, DebugStep, TInvStutter DEF TInv
<1> QED BY TInvInit, <1>1, PTL DEF Spec

-----------------------------------------------------------------------------
\* Type correctness (capture.go:47-184): the loop of pickPod stays within the
\* list, and the target is a pod.
THEOREM TypeCorrect == Spec => []TypeOK
<1>1. TInv => TypeOK BY DEF TInv
<1> QED BY TInvAlways, <1>1, PTL

\* pickPod (capture.go:92-104) takes the best of the list, whatever its length
\* and order.
THEOREM PicksBest == Spec => []PickedBest
<1>1. TInv => PickedBest
  <2> SUFFICES ASSUME TypeOK, PickInv, list # <<>>, pod # "none" PROVE PickedBest
    BY DEF TInv, PickedBest
  <2>1. BestOf(list, best, Len(list)) /\ pod = list[best].pod
    BY DEF PickInv
  <2>2. Len(list) # 0
    BY DEF TypeOK
  <2> QED BY <2>1, <2>2 DEF BestOf, PickedBest
<1> QED BY TInvAlways, <1>1, PTL

\* resolvePod (capture.go:49-88) respects the kind that the user typed: for a
\* deployment the pod picked is one it selects, and nothing is injected but into
\* that pod or, once it is gone, into one created under its name.
THEOREM KeepsKind == Spec => []KindKept
<1>1. TInv => KindKept
  <2> SUFFICES ASSUME TypeOK, KindInv, NEW p \in injected
               PROVE  /\ Kind(request) = "pod" => Manifest[p].name = request.name
                      /\ Kind(request) = "deployment" => pod \in Selected[request.name]
                      /\ p = pod \/ (lives[pod] = "gone" /\ Manifest[p].name = Manifest[pod].name)
    BY DEF TInv, KindKept
  <2>1. p = pod \/ (lives[pod] = "gone" /\ Manifest[p].name = Manifest[pod].name)
    BY DEF KindInv
  <2> QED BY <2>1 DEF KindInv
<1> QED BY TInvAlways, <1>1, PTL

\* The toolbox runs as the process it looks at, with its effective UID, be the
\* UID derived (ephemeral.go:63-88) or probed (ephemeral.go:99-144): under the
\* premises of UserMatches, of which one is that PID 1 was not started setuid.
THEOREM MatchesUser == Spec => []UserMatches
<1>1. TInv => UserMatches
  <2> SUFFICES ASSUME UserInv, toolbox.pod # "none", toolbox.pod = from,
                      request.override = Unset, Obeys(from, container),
                      RealUID(from, container) = EffectiveUID(from, container)
               PROVE  toolbox.uid = EffectiveUID(from, container)
    BY DEF TInv, UserMatches
  <2>1. Learnt /\ toolbox.uid = uid /\ Has(from, container)
    BY DEF UserInv
  <2>2. CASE uid # Unset /\ uid = deriveUID(from, container)
    BY <2>1, <2>2 DEF deriveUID, Or, Obeys
  <2> QED BY <2>1, <2>2 DEF Learnt, RealUID
<1> QED BY TInvAlways, <1>1, PTL

\* debug (debug.go:16-38) leaves nothing in the pod's spec without a terminal.
THEOREM DebugIsClean == Spec => []DebugLeavesNothing
<1>1. TInv => DebugLeavesNothing
  BY DEF TInv, DebugInv, DebugLeavesNothing
<1> QED BY TInvAlways, <1>1, PTL

=============================================================================
