---------------------------- MODULE InjectProofs ----------------------------
(***************************************************************************)
(* The safety of Inject for any number of xray processes, any of them      *)
(* probing or barred, and any number of attempts.  IInv adds what a client *)
(* knows at each point: a copy with a current resourceVersion is the spec  *)
(* itself, and its container is in the spec exactly from its Update on.    *)
(***************************************************************************)
EXTENDS Inject, TLAPS

Jobs == {"probe", "toolbox"}
Before == {"review", "get", "update"}
After == {"open", "watch", "logs", "exec"}

FreshInv == \A c \in Clients : fresh[c] => copy[c] = spec

TriesInv == \A c \in Clients : pc[c] \in Before => tries[c] < Attempts

ListedInv ==
  \A c \in Clients :
    /\ pc[c] \in Before => ~Listed(Mine(c))
    /\ pc[c] \in After => Listed(Mine(c))
    /\ pc[c] = "review" => \A j \in Jobs : ~Listed(<<c, j>>)
    /\ job[c] = "probe" => ~Listed(<<c, "toolbox">>)
    /\ review[c] = "denied" => pc[c] = "refused" /\ \A j \in Jobs : ~Listed(<<c, j>>)

\* An event in the inbox of a watch tells of its own container.
Told(c) == \A n \in 1..Len(inbox[c]) :
  inbox[c][n] = "running" => status[Mine(c)] \in {"running", "terminated"}

StartedInv ==
  \A c \in Clients :
    /\ pc[c] = "watch" => Told(c)
    /\ pc[c] = "logs" => job[c] = "probe"
    /\ pc[c] = "exec" =>
         job[c] = "toolbox" /\ status[Mine(c)] \in {"running", "terminated"}
    /\ c \in Probing /\ job[c] = "toolbox" /\ ~closed[c] => exit[c] = "zero"

IInv == TypeOK /\ FreshInv /\ TriesInv /\ InjectedOnce /\ ListedInv /\ StartedInv

-----------------------------------------------------------------------------
LEMMA IInvInit == Init => IInv
<1> SUFFICES ASSUME Init PROVE IInv
  OBVIOUS
<1>1. 0 \in 0..Attempts /\ 0 < Attempts
  BY AttemptsAssumption
<1>2. spec = <<>> /\ Len(spec) = 0 /\ spec \in Seq(Containers)
  BY DEF Init
<1>3. /\ copy \in [Clients -> Seq(Containers)]
      /\ inbox \in [Clients -> Seq(States)]
      /\ exit \in [Clients -> {"none", "zero", "nonzero"}]
      /\ closed \in [Clients -> BOOLEAN]
  BY DEF Init
<1>4. TypeOK
  BY <1>1, <1>2, <1>3 DEF Init, TypeOK, States, Final
<1>5. FreshInv /\ TriesInv /\ InjectedOnce
  BY <1>1, <1>2 DEF Init, FreshInv, TriesInv, InjectedOnce
<1>6. \A k : ~Listed(k)
  BY <1>2 DEF Listed
<1>7. ListedInv /\ StartedInv
  BY <1>6 DEF Init, ListedInv, StartedInv, Told, After
<1> QED BY <1>4, <1>5, <1>7 DEF IInv

\* An Update that goes through appends to the spec as it is.
LEMMA UpdateAppends ==
  ASSUME IInv, NEW c \in Clients, Update(c)
  PROVE  /\ spec' = Append(spec, Mine(c)) /\ spec' \in Seq(Containers)
         /\ Len(spec') = Len(spec) + 1 /\ spec'[Len(spec) + 1] = Mine(c)
         /\ \A p \in 1..Len(spec) : spec'[p] = spec[p]
         /\ \A k : Listed(k)' <=> Listed(k) \/ k = Mine(c)
<1>1. spec \in Seq(Containers) /\ Mine(c) \in Containers
  BY DEF IInv, TypeOK, Mine, Containers
<1>2. spec' = Append(spec, Mine(c))
  BY DEF Update, IInv, FreshInv
<1>3. /\ spec' \in Seq(Containers)
      /\ Len(spec') = Len(spec) + 1 /\ spec'[Len(spec) + 1] = Mine(c)
      /\ \A p \in 1..Len(spec) : spec'[p] = spec[p]
  BY <1>1, <1>2
<1>4. \A k : Listed(k)' <=> Listed(k) \/ k = Mine(c)
  BY <1>1, <1>3 DEF Listed
<1> QED BY <1>2, <1>3, <1>4

LEMMA UpdateKeeps == ASSUME IInv, NEW c \in Clients, Update(c) PROVE IInv'
<1>0. /\ spec' \in Seq(Containers)
      /\ Len(spec') = Len(spec) + 1 /\ spec'[Len(spec) + 1] = Mine(c)
      /\ \A p \in 1..Len(spec) : spec'[p] = spec[p]
      /\ \A k : Listed(k)' <=> Listed(k) \/ k = Mine(c)
  BY UpdateAppends
<1>1. TypeOK'
  <2>1. pc' \in [Clients -> {"review", "get", "update", "open", "watch", "logs"} \cup Final]
    BY DEF IInv, TypeOK, Update, Goto, Final
  <2>2. fresh' \in [Clients -> BOOLEAN]
    BY DEF Update, Bump
  <2> QED BY <1>0, <2>1, <2>2 DEF IInv, TypeOK, Update
<1>2. FreshInv' /\ TriesInv'
  BY DEF IInv, TypeOK, Update, Bump, Goto, FreshInv, TriesInv, Before
<1>3. ~Listed(Mine(c))
  BY DEF IInv, ListedInv, Update, Before
<1>4. InjectedOnce'
  <2> SUFFICES ASSUME NEW p \in 1..(Len(spec) + 1), NEW q \in 1..(Len(spec) + 1),
                      spec'[p] = spec'[q]
               PROVE  p = q
    BY <1>0 DEF InjectedOnce
  <2>1. Len(spec) \in Nat
    BY DEF IInv, TypeOK
  <2>2. \A r \in 1..Len(spec) : spec[r] # Mine(c)
    BY <1>3 DEF Listed
  <2> QED BY <1>0, <2>1, <2>2 DEF IInv, InjectedOnce
<1>5. ListedInv'
  <2> SUFFICES ASSUME NEW d \in Clients
               PROVE  /\ pc'[d] \in Before => ~Listed(Mine(d))'
                      /\ pc'[d] \in After => Listed(Mine(d))'
                      /\ pc'[d] = "review" => \A j \in Jobs : ~Listed(<<d, j>>)'
                      /\ job'[d] = "probe" => ~Listed(<<d, "toolbox">>)'
                      /\ review'[d] = "denied" =>
                           pc'[d] = "refused" /\ \A j \in Jobs : ~Listed(<<d, j>>)'
    BY DEF ListedInv
  <2>1. job' = job /\ review' = review /\ Mine(d)' = Mine(d)
    BY DEF Update, Mine
  <2>2. CASE d = c
    BY <1>0, <2>1, <2>2 DEF IInv, TypeOK, ListedInv, Update, Goto, Before, After, Mine, Jobs
  <2>3. CASE d # c
    <3>1. pc'[d] = pc[d] /\ \A j : Listed(<<d, j>>)' <=> Listed(<<d, j>>)
      BY <1>0, <2>3 DEF IInv, TypeOK, Update, Goto, Mine
    <3> QED BY <2>1, <3>1 DEF IInv, ListedInv, Mine
  <2> QED BY <2>2, <2>3
<1>6. StartedInv'
  <2>1. \A d \in Clients : pc'[d] \in {"watch", "logs", "exec"} => pc'[d] = pc[d]
    BY DEF IInv, TypeOK, Update, Goto
  <2>2. UNCHANGED <<inbox, status, job, exit, closed>>
    BY DEF Update
  <2>3. \A d \in Clients : Mine(d)' = Mine(d)
    BY <2>2 DEF Mine
  <2>4. \A d \in Clients : Told(d)' <=> Told(d)
    BY <2>2, <2>3 DEF Told
  <2> QED BY <2>1, <2>2, <2>3, <2>4 DEF IInv, StartedInv
<1> QED BY <1>1, <1>2, <1>4, <1>5, <1>6 DEF IInv

\* The other steps leave the spec alone.
LEMMA SpecKept ==
  ASSUME IInv, UNCHANGED spec, TypeOK', FreshInv', TriesInv', StartedInv',
         \A c \in Clients :
           /\ pc'[c] \in Before => ~Listed(Mine(c)')
           /\ pc'[c] \in After => Listed(Mine(c)')
           /\ pc'[c] = "review" => pc[c] = "review"
           /\ job'[c] = "probe" => job[c] = "probe"
           /\ review'[c] = "denied" =>
                pc'[c] = "refused" /\ (review[c] = "denied" \/ pc[c] = "review")
  PROVE  IInv'
<1>1. \A k : Listed(k)' <=> Listed(k)
  BY DEF Listed
<1>2. InjectedOnce'
  BY DEF IInv, InjectedOnce
<1>3. ListedInv'
  BY <1>1 DEF IInv, ListedInv, Mine
<1> QED BY <1>2, <1>3 DEF IInv

PCs == {"review", "get", "update", "open", "watch", "logs", "refused", "failed", "exec"}

\* A client's control moves alone.
LEMMA Moves ==
  ASSUME TypeOK, NEW c \in Clients, NEW to \in PCs, Goto(c, to)
  PROVE  /\ pc' \in [Clients -> {"review", "get", "update", "open", "watch", "logs"} \cup Final]
         /\ pc'[c] = to /\ \A d \in Clients \ {c} : pc'[d] = pc[d]
<1>1. PCs = {"review", "get", "update", "open", "watch", "logs"} \cup Final
  BY DEF PCs, Final
<1> QED BY <1>1 DEF TypeOK, Goto

\* Nothing that StartedInv speaks of changes but for a client that gives up.
LEMMA QuietKeeps ==
  ASSUME StartedInv, UNCHANGED <<status, exit, inbox, job, closed>>,
         \A d \in Clients : pc'[d] \in {"watch", "logs", "exec"} => pc'[d] = pc[d]
  PROVE  StartedInv'
<1>1. \A d \in Clients : Mine(d)' = Mine(d)
  BY DEF Mine
<1>2. \A d \in Clients : Told(d)' <=> Told(d)
  BY <1>1 DEF Told
<1> QED BY <1>1, <1>2 DEF StartedInv

\* A step that moves only the client's control, and its tries.
LEMMA ControlKeeps ==
  ASSUME IInv, NEW c \in Clients, NEW to \in PCs, Goto(c, to),
         UNCHANGED <<spec, status, exit, job, inbox, closed>>,
         copy' \in [Clients -> Seq(Containers)], fresh' \in [Clients -> BOOLEAN],
         tries' \in [Clients -> 0..Attempts],
         review' \in [Clients -> {"none", "error", "allowed", "denied"}],
         FreshInv', TriesInv',
         to \in Before => pc[c] \in Before, to \in After => pc[c] \in After,
         to \notin {"review", "watch", "logs", "exec"},
         \A d \in Clients : review'[d] = "denied" =>
           \/ review[d] = "denied" /\ d # c
           \/ pc[d] = "review" /\ d = c /\ to = "refused"
  PROVE  IInv'
<1>1. /\ pc' \in [Clients -> {"review", "get", "update", "open", "watch", "logs"} \cup Final]
      /\ pc'[c] = to /\ \A d \in Clients \ {c} : pc'[d] = pc[d]
  BY Moves DEF IInv
<1>2. TypeOK'
  BY <1>1 DEF IInv, TypeOK
<1>3. StartedInv'
  BY <1>1, QuietKeeps DEF IInv
<1>4. \A d \in Clients : Mine(d)' = Mine(d)
  BY DEF Mine
<1>5. ASSUME NEW d \in Clients
      PROVE  /\ pc'[d] \in Before => ~Listed(Mine(d)')
             /\ pc'[d] \in After => Listed(Mine(d)')
             /\ pc'[d] = "review" => pc[d] = "review"
             /\ job'[d] = "probe" => job[d] = "probe"
             /\ review'[d] = "denied" =>
                  pc'[d] = "refused" /\ (review[d] = "denied" \/ pc[d] = "review")
  BY <1>1, <1>4 DEF IInv, ListedInv
<1> QED BY <1>2, <1>3, <1>5, SpecKept

LEMMA ReviewKeeps == ASSUME IInv, NEW c \in Clients, Review(c) PROVE IInv'
<1>1. PICK answer \in {"none", "error", "allowed", "denied"} :
        /\ review' = [review EXCEPT ![c] = answer]
        /\ Goto(c, IF answer = "denied" THEN "refused" ELSE "get")
  BY DEF Review
<1> DEFINE to == IF answer = "denied" THEN "refused" ELSE "get"
<1>2. /\ pc[c] = "review" /\ to \in PCs /\ Goto(c, to)
      /\ UNCHANGED <<spec, status, exit, job, inbox, closed, copy, fresh, tries>>
  BY <1>1 DEF Review, PCs, podVars
<1>3. /\ pc'[c] = to /\ \A d \in Clients \ {c} : pc'[d] = pc[d]
  BY <1>2, Moves DEF IInv
<1>4. FreshInv' /\ TriesInv'
  BY <1>2, <1>3 DEF IInv, FreshInv, TriesInv, Before
<1>5. /\ review' \in [Clients -> {"none", "error", "allowed", "denied"}]
      /\ review'[c] = answer /\ \A d \in Clients \ {c} : review'[d] = review[d]
  BY <1>1 DEF IInv, TypeOK
<1>6. TypeOK
  BY DEF IInv
<1> QED BY <1>2, <1>4, <1>5, <1>6, ControlKeeps DEF TypeOK, Before, After

LEMMA GetKeeps == ASSUME IInv, NEW c \in Clients, Get(c) PROVE IInv'
<1>1. PICK to \in {"update", "failed"} :
        /\ Goto(c, to)
        /\ \/ /\ copy' = [copy EXCEPT ![c] = spec] /\ fresh' = [fresh EXCEPT ![c] = TRUE]
           \/ UNCHANGED <<copy, fresh>>
  BY DEF Get
<1>2. /\ pc[c] = "get" /\ to \in PCs
      /\ UNCHANGED <<spec, status, exit, job, inbox, closed, review, tries>>
  BY <1>1 DEF Get, PCs, podVars
<1>3. /\ pc'[c] = to /\ \A d \in Clients \ {c} : pc'[d] = pc[d]
  BY <1>1, <1>2, Moves DEF IInv
<1>4. TypeOK /\ FreshInv /\ TriesInv
  BY DEF IInv
<1>5. copy' \in [Clients -> Seq(Containers)] /\ fresh' \in [Clients -> BOOLEAN]
  BY <1>1, <1>4 DEF TypeOK
<1>6. TriesInv'
  BY <1>2, <1>3, <1>4 DEF TriesInv, Before
<1>8. FreshInv'
  <2>1. CASE UNCHANGED <<copy, fresh>>
    BY <1>2, <1>4, <2>1 DEF FreshInv
  <2>2. CASE copy' = [copy EXCEPT ![c] = spec] /\ fresh' = [fresh EXCEPT ![c] = TRUE]
    <3>1. copy'[c] = spec /\ \A d \in Clients \ {c} : copy'[d] = copy[d] /\ fresh'[d] = fresh[d]
      BY <1>4, <2>2 DEF TypeOK
    <3> QED BY <1>2, <1>4, <3>1 DEF FreshInv
  <2> QED BY <1>1, <2>1, <2>2
<1>7. \A d \in Clients : review[d] = "denied" => d # c
  BY <1>2 DEF IInv, ListedInv
<1> QED BY <1>1, <1>2, <1>4, <1>5, <1>6, <1>7, <1>8, ControlKeeps DEF TypeOK, Before, After

LEMMA UpdateFailsKeeps == ASSUME IInv, NEW c \in Clients, UpdateFails(c) PROVE IInv'
<1>1. PICK to \in {"get", "failed"} :
        /\ Goto(c, to)
        /\ \/ to = "failed" /\ UNCHANGED tries
           \/ /\ tries' = [tries EXCEPT ![c] = @ + 1]
              /\ to = IF tries'[c] < Attempts THEN "get" ELSE "failed"
  BY DEF UpdateFails
<1>2. /\ pc[c] = "update" /\ to \in PCs
      /\ UNCHANGED <<spec, status, exit, job, inbox, closed, review, copy, fresh>>
  BY <1>1 DEF UpdateFails, PCs, podVars
<1>3. /\ pc'[c] = to /\ \A d \in Clients \ {c} : pc'[d] = pc[d]
  BY <1>1, <1>2, Moves DEF IInv
<1>4. TypeOK /\ FreshInv /\ TriesInv
  BY DEF IInv
<1>5. tries[c] \in Nat /\ tries[c] < Attempts /\ Attempts \in Nat
  BY <1>2, <1>4, AttemptsAssumption DEF TypeOK, TriesInv, Before
<1>6. tries' \in [Clients -> 0..Attempts]
  <2>1. tries \in [Clients -> 0..Attempts] /\ tries[c] + 1 \in 0..Attempts
    BY <1>4, <1>5 DEF TypeOK
  <2> QED BY <1>1, <2>1
<1>7. FreshInv' /\ TriesInv'
  BY <1>1, <1>2, <1>3, <1>4 DEF TypeOK, FreshInv, TriesInv, Before
<1>8. \A d \in Clients : review[d] = "denied" => d # c
  BY <1>2 DEF IInv, ListedInv
<1> QED BY <1>1, <1>2, <1>4, <1>6, <1>7, <1>8, ControlKeeps DEF TypeOK, Before, After

\* Steps that end in failure without touching anything else.
LEMMA FailureKeeps ==
  ASSUME IInv, NEW c \in Clients, pc[c] \notin {"review", "refused"}, Goto(c, "failed"),
         UNCHANGED <<spec, status, exit, job, inbox, closed, review, copy, fresh, tries>>
  PROVE  IInv'
<1>1. "failed" \in PCs
  BY DEF PCs
<1>2. /\ pc'[c] = "failed" /\ \A d \in Clients \ {c} : pc'[d] = pc[d]
  BY <1>1, Moves DEF IInv
<1>3. TypeOK /\ FreshInv /\ TriesInv
  BY DEF IInv
<1>4. FreshInv' /\ TriesInv'
  BY <1>2, <1>3 DEF FreshInv, TriesInv, Before
<1>5. \A d \in Clients : review[d] = "denied" => d # c
  BY DEF IInv, ListedInv
<1> QED BY <1>1, <1>3, <1>4, <1>5, ControlKeeps DEF TypeOK, Before, After

\* The first event of a watch is the container's status.
LEMMA OpenWatchKeeps == ASSUME IInv, NEW c \in Clients, OpenWatch(c) PROVE IInv'
<1>1. CASE Goto(c, "failed") /\ UNCHANGED inbox
  BY <1>1, FailureKeeps DEF OpenWatch, podVars
<1>2. CASE Goto(c, "watch") /\ inbox' = [inbox EXCEPT ![c] = <<status[Mine(c)]>>]
  <2>1. /\ pc[c] = "open" /\ "watch" \in PCs
        /\ UNCHANGED <<spec, status, exit, job, review, copy, fresh, tries, closed>>
    BY <1>2 DEF OpenWatch, PCs, podVars
  <2>2. TypeOK /\ FreshInv /\ TriesInv /\ StartedInv
    BY DEF IInv
  <2>3. /\ pc' \in [Clients -> {"review", "get", "update", "open", "watch", "logs"} \cup Final]
        /\ pc'[c] = "watch" /\ \A d \in Clients \ {c} : pc'[d] = pc[d]
    BY <1>2, <2>1, <2>2, Moves
  <2>4. status[Mine(c)] \in States
    BY <2>2 DEF TypeOK, Mine, Containers
  <2>5. /\ inbox' \in [Clients -> Seq(States)] /\ inbox'[c] = <<status[Mine(c)]>>
        /\ \A d \in Clients \ {c} : inbox'[d] = inbox[d]
    BY <1>2, <2>2, <2>4 DEF TypeOK
  <2>6. TypeOK'
    BY <2>1, <2>2, <2>3, <2>5 DEF TypeOK
  <2>7. FreshInv' /\ TriesInv'
    BY <2>1, <2>2, <2>3 DEF FreshInv, TriesInv, Before
  <2>8. \A d \in Clients : Mine(d)' = Mine(d)
    BY <2>1 DEF Mine
  <2>9. \A d \in Clients \ {c} : Told(d)' <=> Told(d)
    BY <2>1, <2>5, <2>8 DEF Told
  <2>10. Told(c)'
    BY <2>1, <2>5, <2>8 DEF Told
  <2>11. StartedInv'
    BY <2>1, <2>2, <2>3, <2>8, <2>9, <2>10 DEF StartedInv
  <2>12. \A d \in Clients : review[d] = "denied" => d # c
    BY <2>1 DEF IInv, ListedInv
  <2>13. ASSUME NEW d \in Clients
         PROVE  /\ pc'[d] \in Before => ~Listed(Mine(d)')
                /\ pc'[d] \in After => Listed(Mine(d)')
                /\ pc'[d] = "review" => pc[d] = "review"
                /\ job'[d] = "probe" => job[d] = "probe"
                /\ review'[d] = "denied" =>
                     pc'[d] = "refused" /\ (review[d] = "denied" \/ pc[d] = "review")
    BY <2>1, <2>3, <2>8, <2>12 DEF IInv, ListedInv, Before, After
  <2> QED BY <2>1, <2>6, <2>7, <2>11, <2>13, SpecKept
<1> QED BY <1>1, <1>2 DEF OpenWatch

\* The watch delivers an event.
LEMMA ObserveKeeps == ASSUME IInv, NEW c \in Clients, Observe(c) PROVE IInv'
<1>1. TypeOK /\ FreshInv /\ TriesInv /\ StartedInv
  BY DEF IInv
<1>2. /\ pc[c] = "watch" /\ inbox[c] \in Seq(States) /\ inbox[c] # <<>>
      /\ inbox' = [inbox EXCEPT ![c] = Tail(@)]
      /\ UNCHANGED <<spec, status, exit, job, review, copy, fresh, tries, closed>>
  BY <1>1 DEF Observe, TypeOK, podVars
<1>3. PICK to \in {"logs", "exec", "failed", "watch"} :
        /\ Goto(c, to)
        /\ to = "exec" => job[c] = "toolbox" /\ Head(inbox[c]) = "running"
        /\ to = "logs" => job[c] = "probe"
  BY <1>1 DEF Observe, TypeOK
<1>4. /\ pc' \in [Clients -> {"review", "get", "update", "open", "watch", "logs"} \cup Final]
      /\ pc'[c] = to /\ \A d \in Clients \ {c} : pc'[d] = pc[d]
  BY <1>1, <1>3, Moves DEF PCs
<1>5. /\ Tail(inbox[c]) \in Seq(States) /\ Head(inbox[c]) = inbox[c][1]
      /\ 1 \in 1..Len(inbox[c]) /\ Len(Tail(inbox[c])) = Len(inbox[c]) - 1
      /\ \A n \in 1..Len(Tail(inbox[c])) :
           n + 1 \in 1..Len(inbox[c]) /\ Tail(inbox[c])[n] = inbox[c][n + 1]
  BY <1>2
<1>6. /\ inbox' \in [Clients -> Seq(States)] /\ inbox'[c] = Tail(inbox[c])
      /\ \A d \in Clients \ {c} : inbox'[d] = inbox[d]
  BY <1>1, <1>2, <1>5 DEF TypeOK
<1>7. TypeOK'
  BY <1>1, <1>2, <1>4, <1>6 DEF TypeOK
<1>8. FreshInv' /\ TriesInv'
  BY <1>1, <1>2, <1>3, <1>4 DEF FreshInv, TriesInv, Before
<1>9. \A d \in Clients : Mine(d)' = Mine(d)
  BY <1>2 DEF Mine
<1>10. \A d \in Clients \ {c} : Told(d)' <=> Told(d)
  BY <1>2, <1>6, <1>9 DEF Told
<1>11. Told(c)
  BY <1>1, <1>2 DEF StartedInv
<1>12. Told(c)'
  BY <1>2, <1>5, <1>6, <1>9, <1>11 DEF Told
<1>13. to = "exec" => status[Mine(c)] \in {"running", "terminated"}
  BY <1>3, <1>5, <1>11 DEF Told
<1>14. StartedInv'
  BY <1>1, <1>2, <1>3, <1>4, <1>9, <1>10, <1>12, <1>13 DEF StartedInv
<1>15. \A d \in Clients : review[d] = "denied" => d # c
  BY <1>2 DEF IInv, ListedInv
<1>16. ASSUME NEW d \in Clients
       PROVE  /\ pc'[d] \in Before => ~Listed(Mine(d)')
              /\ pc'[d] \in After => Listed(Mine(d)')
              /\ pc'[d] = "review" => pc[d] = "review"
              /\ job'[d] = "probe" => job[d] = "probe"
              /\ review'[d] = "denied" =>
                   pc'[d] = "refused" /\ (review[d] = "denied" \/ pc[d] = "review")
  BY <1>2, <1>3, <1>4, <1>9, <1>15 DEF IInv, ListedInv, Before, After
<1> QED BY <1>2, <1>7, <1>8, <1>14, <1>16, SpecKept

\* The UID is read: on to the toolbox.
LEMMA ToToolboxKeeps ==
  ASSUME IInv, NEW c \in Clients, pc[c] = "logs", Goto(c, "get"),
         job' = [job EXCEPT ![c] = "toolbox"], tries' = [tries EXCEPT ![c] = 0],
         UNCHANGED <<podVars, copy, fresh, review, inbox>>,
         \/ exit[c] = "zero" /\ UNCHANGED closed
         \/ closed' = [closed EXCEPT ![c] = TRUE]
  PROVE  IInv'
<1>1. /\ pc[c] = "logs" /\ "get" \in PCs
      /\ UNCHANGED <<spec, status, exit, review, copy, fresh, inbox>>
  BY DEF PCs, podVars
<1>2. TypeOK /\ FreshInv /\ TriesInv /\ StartedInv
  BY DEF IInv
<1>3. /\ pc' \in [Clients -> {"review", "get", "update", "open", "watch", "logs"} \cup Final]
      /\ pc'[c] = "get" /\ \A d \in Clients \ {c} : pc'[d] = pc[d]
  BY <1>1, <1>2, Moves
<1>4. /\ job' \in [Clients -> {"probe", "toolbox"}] /\ job'[c] = "toolbox"
      /\ \A d \in Clients \ {c} : job'[d] = job[d]
  BY <1>2 DEF TypeOK
<1>5. /\ 0 < Attempts /\ 0 \in 0..Attempts
  BY AttemptsAssumption
<1>6. /\ tries' \in [Clients -> 0..Attempts] /\ tries'[c] = 0
      /\ \A d \in Clients \ {c} : tries'[d] = tries[d]
  BY <1>2, <1>5 DEF TypeOK
<1>6a. /\ closed' \in [Clients -> BOOLEAN]
       /\ \A d \in Clients \ {c} : closed'[d] = closed[d]
       /\ ~closed'[c] => exit[c] = "zero"
  BY <1>2 DEF TypeOK
<1>7. TypeOK'
  BY <1>1, <1>2, <1>3, <1>4, <1>6, <1>6a DEF TypeOK
<1>8. FreshInv' /\ TriesInv'
  BY <1>1, <1>2, <1>3, <1>5, <1>6 DEF FreshInv, TriesInv
<1>9. \A d \in Clients \ {c} : Mine(d)' = Mine(d)
  BY <1>4 DEF Mine
<1>10. \A d \in Clients \ {c} : Told(d)' <=> Told(d)
  BY <1>1, <1>9 DEF Told
<1>11. Mine(c)' = <<c, "toolbox">>
  BY <1>4 DEF Mine
<1>12. job[c] = "probe" /\ ~Listed(<<c, "toolbox">>)
  BY <1>1, <1>2 DEF IInv, StartedInv, ListedInv
<1>13. StartedInv'
  BY <1>1, <1>2, <1>3, <1>4, <1>9, <1>10, <1>11, <1>12, <1>6a DEF StartedInv
<1>14. \A d \in Clients : review[d] = "denied" => d # c
  BY <1>1 DEF IInv, ListedInv
<1>15. ASSUME NEW d \in Clients
       PROVE  /\ pc'[d] \in Before => ~Listed(Mine(d)')
              /\ pc'[d] \in After => Listed(Mine(d)')
              /\ pc'[d] = "review" => pc[d] = "review"
              /\ job'[d] = "probe" => job[d] = "probe"
              /\ review'[d] = "denied" =>
                   pc'[d] = "refused" /\ (review[d] = "denied" \/ pc[d] = "review")
  <2>1. CASE d = c
    BY <1>1, <1>3, <1>4, <1>11, <1>12, <1>14, <2>1 DEF After
  <2>2. CASE d # c
    BY <1>1, <1>3, <1>4, <1>9, <2>2 DEF IInv, ListedInv
  <2> QED BY <2>1, <2>2
<1> QED BY <1>1, <1>7, <1>8, <1>13, <1>15, SpecKept

LEMMA ReadUIDKeeps == ASSUME IInv, NEW c \in Clients, ReadUID(c) PROVE IInv'
<1>1. CASE Goto(c, "failed") /\ UNCHANGED <<job, tries>>
  BY <1>1, FailureKeeps DEF ReadUID, podVars
<1>2. CASE ~(Goto(c, "failed") /\ UNCHANGED <<job, tries>>)
  BY <1>2, ToToolboxKeeps DEF ReadUID
<1> QED BY <1>1, <1>2

LEMMA LogCutKeeps == ASSUME IInv, NEW c \in Clients, LogCut(c) PROVE IInv'
<1>1. CASE Goto(c, "failed") /\ UNCHANGED <<job, tries, closed>>
  BY <1>1, FailureKeeps DEF LogCut, podVars
<1>2. CASE ~(Goto(c, "failed") /\ UNCHANGED <<job, tries, closed>>)
  BY <1>2, ToToolboxKeeps DEF LogCut
<1> QED BY <1>1, <1>2

\* Only a probe that has not ended ends.
LEMMA ExitsKeeps == ASSUME IInv, NEW c \in Clients, Exits(c) PROVE IInv'
<1>1. TypeOK /\ FreshInv /\ TriesInv /\ StartedInv
  BY DEF IInv
<1>2. PICK e \in {"zero", "nonzero"} : exit' = [exit EXCEPT ![c] = e]
  BY DEF Exits
<1>3. /\ exit[c] = "none"
      /\ UNCHANGED <<spec, status, copy, fresh, tries, pc, job, review, inbox, closed>>
  BY DEF Exits
<1>4. /\ exit' \in [Clients -> {"none", "zero", "nonzero"}]
      /\ \A d \in Clients : exit[d] = "zero" => exit'[d] = "zero"
  BY <1>1, <1>2, <1>3 DEF TypeOK
<1>5. TypeOK'
  BY <1>1, <1>3, <1>4 DEF TypeOK
<1>6. FreshInv' /\ TriesInv'
  BY <1>1, <1>3 DEF FreshInv, TriesInv
<1>7. \A d \in Clients : Mine(d)' = Mine(d)
  BY <1>3 DEF Mine
<1>8. \A d \in Clients : Told(d)' <=> Told(d)
  BY <1>3, <1>7 DEF Told
<1>9. Probing \subseteq Clients
  BY ClientsAssumption
<1>10. StartedInv'
  BY <1>1, <1>3, <1>4, <1>7, <1>8, <1>9 DEF StartedInv
<1>11. ASSUME NEW d \in Clients
       PROVE  /\ pc'[d] \in Before => ~Listed(Mine(d)')
              /\ pc'[d] \in After => Listed(Mine(d)')
              /\ review'[d] = "denied" => pc'[d] = "refused"
  BY <1>3, <1>7 DEF IInv, ListedInv
<1> QED BY <1>3, <1>5, <1>6, <1>10, <1>11, SpecKept

\* The kubelet moves one container on and tells those who watch it.
LEMMA KubeletKeeps == ASSUME IInv, NEW k \in Containers, Kubelet(k) PROVE IInv'
<1>1. TypeOK /\ FreshInv /\ TriesInv /\ StartedInv
  BY DEF IInv
<1>2. PICK s \in Follows[status[k]] :
        /\ status' = [status EXCEPT ![k] = s]
        /\ inbox' = [c \in Clients |-> IF c \in Watching /\ Mine(c) = k
                                       THEN Append(inbox[c], s) ELSE inbox[c]]
  BY DEF Kubelet
<1>3. UNCHANGED <<spec, exit, copy, tries, pc, job, review, closed>> /\ fresh' = [c \in Clients |-> FALSE]
  BY DEF Kubelet, Bump
<1>4. status[k] \in States
  BY <1>1 DEF TypeOK
<1>5. /\ s \in States /\ status[k] # "terminated"
      /\ status[k] = "running" => s = "terminated"
  BY <1>2, <1>4 DEF Follows, States
<1>6. /\ status' \in [Containers -> States] /\ status'[k] = s
      /\ \A j \in Containers \ {k} : status'[j] = status[j]
  BY <1>1, <1>2, <1>5 DEF TypeOK
<1>7. \A j \in Containers :
        /\ status[j] \in {"running", "terminated"} => status'[j] \in {"running", "terminated"}
        /\ status[j] = "terminated" => status'[j] = "terminated"
  BY <1>5, <1>6
<1>8. inbox' \in [Clients -> Seq(States)]
  BY <1>1, <1>2, <1>5 DEF TypeOK
<1>9. TypeOK'
  BY <1>1, <1>3, <1>6, <1>8 DEF TypeOK
<1>10. FreshInv' /\ TriesInv'
  BY <1>1, <1>3 DEF FreshInv, TriesInv
<1>11. \A c \in Clients : Mine(c)' = Mine(c) /\ Mine(c) \in Containers
  BY <1>1, <1>3 DEF Mine, TypeOK, Containers
<1>12. ASSUME NEW c \in Clients, pc[c] = "watch" PROVE Told(c)'
  <2>1. Told(c) /\ inbox[c] \in Seq(States)
    BY <1>1, <1>12 DEF StartedInv, TypeOK
  <2>2. CASE Mine(c) = k
    <3>1. inbox'[c] = Append(inbox[c], s)
      BY <1>2, <1>12, <2>2 DEF Watching
    <3>2. /\ Len(inbox'[c]) = Len(inbox[c]) + 1 /\ inbox'[c][Len(inbox[c]) + 1] = s
          /\ Len(inbox[c]) \in Nat
          /\ \A n \in 1..Len(inbox[c]) : inbox'[c][n] = inbox[c][n]
      BY <2>1, <3>1
    <3> QED BY <1>6, <1>7, <1>11, <2>1, <2>2, <3>2 DEF Told
  <2>3. CASE Mine(c) # k
    <3>1. inbox'[c] = inbox[c]
      BY <1>2, <2>3
    <3> QED BY <1>7, <1>11, <2>1, <3>1 DEF Told
  <2> QED BY <2>2, <2>3
<1>14. StartedInv'
  BY <1>1, <1>3, <1>7, <1>11, <1>12 DEF StartedInv
<1>15. ASSUME NEW d \in Clients
       PROVE  /\ pc'[d] \in Before => ~Listed(Mine(d)')
              /\ pc'[d] \in After => Listed(Mine(d)')
              /\ review'[d] = "denied" => pc'[d] = "refused"
  BY <1>3, <1>11 DEF IInv, ListedInv
<1> QED BY <1>3, <1>9, <1>10, <1>14, <1>15, SpecKept

LEMMA StutterKeeps == IInv /\ UNCHANGED vars => IInv'
<1> SUFFICES ASSUME IInv, UNCHANGED vars PROVE IInv'
  OBVIOUS
<1> USE DEF vars
<1>1. TypeOK' BY DEF IInv, TypeOK
<1>2. FreshInv' /\ TriesInv' BY DEF IInv, FreshInv, TriesInv
<1>3. StartedInv' BY QuietKeeps DEF IInv
<1>4. \A d \in Clients : Mine(d)' = Mine(d) BY DEF Mine
<1>5. ASSUME NEW d \in Clients
      PROVE  /\ pc'[d] \in Before => ~Listed(Mine(d)')
             /\ pc'[d] \in After => Listed(Mine(d)')
             /\ review'[d] = "denied" => pc'[d] = "refused"
  BY <1>4 DEF IInv, ListedInv
<1> QED BY <1>1, <1>2, <1>3, <1>5, SpecKept

LEMMA IInvStep == IInv /\ [Next]_vars => IInv'
<1> SUFFICES ASSUME IInv, [Next]_vars PROVE IInv'
  OBVIOUS
<1>1. ASSUME NEW c \in Clients, Client(c) PROVE IInv'
  <2>1. CASE Review(c) BY <2>1, ReviewKeeps
  <2>2. CASE Get(c) BY <2>2, GetKeeps
  <2>3. CASE Update(c) BY <2>3, UpdateKeeps
  <2>4. CASE UpdateFails(c) BY <2>4, UpdateFailsKeeps
  <2>5. CASE OpenWatch(c) BY <2>5, OpenWatchKeeps
  <2>6. CASE Observe(c) BY <2>6, ObserveKeeps
  <2>7. CASE WatchEnds(c) BY <2>7, FailureKeeps DEF WatchEnds, podVars
  <2>8. CASE ReadUID(c) BY <2>8, ReadUIDKeeps
  <2>9. CASE LogCut(c) BY <2>9, LogCutKeeps
  <2> QED BY <1>1, <2>1, <2>2, <2>3, <2>4, <2>5, <2>6, <2>7, <2>8, <2>9 DEF Client
<1>2. ASSUME NEW k \in Containers, Kubelet(k) PROVE IInv'
  BY <1>2, KubeletKeeps
<1>3. CASE Settled \/ UNCHANGED vars
  BY <1>3, StutterKeeps DEF Settled
<1>4. ASSUME NEW c \in Clients, Exits(c) PROVE IInv'
  BY <1>4, ExitsKeeps
<1> QED BY <1>1, <1>2, <1>3, <1>4 DEF Next

LEMMA IInvAlways == Spec => []IInv
  BY IInvInit, IInvStep, PTL DEF Spec

-----------------------------------------------------------------------------
\* Type correctness: no injection is tried more often than DefaultRetry allows
\* (ephemeral.go:184).
THEOREM TypeCorrect == Spec => []TypeOK
<1>1. IInv => TypeOK BY DEF IInv
<1> QED BY IInvAlways, <1>1, PTL

\* Get + Update under RetryOnConflict never drops or moves a container of
\* another's (ephemeral.go:176-193), for any number of clients.
THEOREM AppendsOnly == Spec => AppendOnly
<1>1. ASSUME IInv, [Next]_vars
      PROVE  Len(spec) <= Len(spec') /\ \A p \in 1..Len(spec) : spec'[p] = spec[p]
  <2>1. Len(spec) \in Nat
    BY <1>1 DEF IInv, TypeOK
  <2>2. CASE \E c \in Clients : Update(c)
    BY <1>1, <2>1, <2>2, UpdateAppends
  <2>3. CASE ~\E c \in Clients : Update(c)
    <3>1. spec' = spec
      BY <1>1, <2>3 DEF Next, Client, Review, Get, UpdateFails, OpenWatch, Observe,
                        WatchEnds, ReadUID, LogCut, Exits, Kubelet, Settled,
                        podVars, vars
    <3> QED BY <2>1, <3>1
  <2> QED BY <2>2, <2>3
<1>2. IInv /\ [Next]_vars =>
        [Len(spec) <= Len(spec') /\ \A p \in 1..Len(spec) : spec'[p] = spec[p]]_vars
  BY <1>1
<1> QED BY IInvAlways, <1>2, PTL DEF Spec, AppendOnly

\* No retry and no lost answer injects a container twice (ephemeral.go:184-192).
THEOREM InjectsOnce == Spec => []InjectedOnce
<1>1. IInv => InjectedOnce BY DEF IInv
<1> QED BY IInvAlways, <1>1, PTL

\* A denied review comes before the first injection (capture.go:152-161).
THEOREM DeniedIsClean == Spec => []DeniedLeavesNothing
<1>1. IInv => DeniedLeavesNothing
  BY DEF IInv, ListedInv, DeniedLeavesNothing, Jobs
<1> QED BY IInvAlways, <1>1, PTL

\* The exec finds its toolbox started, and the probe, where one was needed, over
\* and well, unless its log was closed early (capture.go:132-183).
THEOREM ExecsIntoStarted == Spec => []ExecIntoStarted
<1>1. IInv => ExecIntoStarted
  BY DEF IInv, ListedInv, StartedInv, ExecIntoStarted, Mine, After
<1> QED BY IInvAlways, <1>1, PTL

=============================================================================
