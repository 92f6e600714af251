--------------------------- MODULE CaptureProofs ---------------------------
(***************************************************************************)
(* What captureBundle guarantees for every member, limit and option: its   *)
(* steps are steps of Store, so Store's theorems carry over, its verdict   *)
(* is "ok" only for a complete capture, and a script that failed is what   *)
(* the user is told of.                                                    *)
(***************************************************************************)
EXTENDS Capture, StoreProofs

\* Put's result reaches the verdict only after Put returned.
MainInv ==
  /\ mpc = "start" => disk = {} /\ tk = 0
  /\ mpc \in {"join", "drain"} => pc = "ret" /\ cerr \in {err, "redact"}
  /\ mpc = "join" => cerr = err
  /\ mpc = "done" => \/ verdict = "mkdir" /\ disk = {}
                     \/ /\ pc = "ret" /\ cerr \in {err, "redact"}
                        /\ verdict = Verdict
  /\ mpc # "done" => verdict = "none"

\* Bundle reads ahead of Put, and a Bundle that failed leaves Put short.
BundleInv ==
  /\ redact => got <= tk
  /\ bpc = "read" => tk < N
  /\ bpc # "off" => redact
  /\ bpc = "off" => mpc = "start" \/ verdict = "mkdir" \/ ~redact
  /\ berr # "none" => bpc = "closed" /\ got < N /\ redact
  /\ mpc \in {"drain", "done"} /\ berr # "none" => cerr # "none"
  /\ cerr = "redact" => berr # "none"

\* The exec goroutine reports nil for exit 0, or for a connection that closed.
ExecInv ==
  /\ mpc = "start" \/ verdict = "mkdir" => xpc = "off" /\ bpc = "off"
  /\ mpc = "done" => verdict = "mkdir" \/ xpc = "closed"
  /\ mpc \in {"drain", "done"} => bpc \in {"off", "closed"}
  /\ xerr = "nil" => remote = "zero" \/ conn = "lost"

\* Once launched, the exec goroutine runs until it closes its pipe; a Bundle
\* that only has to flush has read all there is; Put is not killed.
WaitInv ==
  /\ xpc = "off" => mpc = "start" \/ verdict = "mkdir"
  /\ bpc = "flush" => tk = N
  /\ mpc = "join" => redact
  /\ pc # "dead"

CInv == Inv /\ CaptureTypeOK /\ MainInv /\ BundleInv /\ ExecInv /\ WaitInv

-----------------------------------------------------------------------------

\* Each step of captureBundle is a step of Put or leaves Put alone.
LEMMA NextIsStoreNext == [CaptureNext]_captureVars => [StoreNext]_storeVars
<1>1. Put => StoreStep BY DEF Put, PutReads, PutCut, PutWorks, StoreStep
<1>2. CaptureNext => Put \/ UNCHANGED storeVars
  BY DEF CaptureNext, Environment, Exec, ExecReturn, ExecClose, Bundle,
         BundleRead, BundleEnd, Main, Launch, PutReturn, Join, Drain, Finish,
         Over, captureVars
<1>3. UNCHANGED captureVars => UNCHANGED storeVars BY DEF captureVars
<1> QED BY <1>1, <1>2, <1>3 DEF StoreNext

\* Put does not touch the options.
LEMMA StoreKeepsConfig == [StoreNext]_storeVars => UNCHANGED Config
BY DEF StoreNext, StoreStep, MakeDir, Scan, OpenTemp, Fill, FillError, FillEnd,
       Cut, Sync, Close, Rename, Undo, Crash, PowerLoss, Returned, GiveUp,
       storeVars, Config

\* A capture starts with Put not begun and no goroutine running.
LEMMA CInvInit == CaptureInit => CInv
<1> SUFFICES ASSUME CaptureInit PROVE CInv OBVIOUS
<1>1. Inv /\ N \in Nat \ {0}
  BY InvInit, MemberFacts DEF CaptureInit, Inv
<1>2. CaptureTypeOK
  <2>1. TypeOK BY <1>1 DEF Inv
  <2>2. redact \in BOOLEAN /\ want \in Nat /\ ctx \in BOOLEAN
    BY RedactsAssumption, WantsAssumption DEF CaptureInit
  <2>3. sent \in 0..N /\ tk \in 0..sent BY <1>1 DEF CaptureInit
  <2> QED BY <2>1, <2>2, <2>3 DEF CaptureInit, CaptureTypeOK
<1>3. MainInv /\ BundleInv /\ ExecInv /\ WaitInv
  BY <1>1 DEF CaptureInit, StoreInit, MainInv, BundleInv, ExecInv, WaitInv
<1> QED BY <1>1, <1>2, <1>3 DEF CInv

\* The numbers every step below needs.
LEMMA Numbers ==
  ASSUME CInv
  PROVE  N \in Nat /\ N > 0 /\ got \in 0..N /\ sent \in 0..N /\ tk \in 0..sent
BY MemberFacts DEF CInv, Inv, CaptureTypeOK, TypeOK, N

\* The script, the connection and the user.
LEMMA EnvironmentKeeps == CInv /\ Inv' /\ Environment => CInv'
<1> SUFFICES ASSUME CInv, Inv', Environment PROVE CInv' OBVIOUS
<1> USE DEF Environment, Produce, RemoteExit, ConnLost, Interrupt
<1>1. N' = N /\ UNCHANGED <<pc, err, disk, got, count, Config>>
  BY DEF storeVars, Config, N
<1>2. sent' \in 0..N /\ tk \in 0..sent'
  <2>1. CASE Produce BY <2>1, Numbers
  <2>2. CASE RemoteExit \/ Interrupt BY <2>2, Numbers
  <2>3. CASE ConnLost BY <2>3, Numbers
  <2> QED BY <2>1, <2>2, <2>3
<1>3. CaptureTypeOK'
  <2>1. remote' \in {"run", "zero", "nonzero"} /\ conn' \in {"up", "lost"}
    BY DEF CInv, CaptureTypeOK
  <2>2. ctx' \in BOOLEAN BY DEF CInv, CaptureTypeOK
  <2> QED
    BY <1>1, <1>2, <2>1, <2>2
    DEF CInv, Inv, CaptureTypeOK, execVars, bundleVars, mainVars
<1>4. MainInv' BY <1>1 DEF CInv, MainInv, Verdict, execVars, mainVars
<1>5. BundleInv' BY <1>1 DEF CInv, BundleInv, bundleVars, mainVars
<1>6. ExecInv' BY DEF CInv, ExecInv, MainInv, execVars, bundleVars, mainVars
<1>7. WaitInv' BY <1>1 DEF CInv, WaitInv, execVars, bundleVars, mainVars
<1> QED BY <1>3, <1>4, <1>5, <1>6, <1>7 DEF CInv

\* The exec goroutine.
LEMMA ExecKeeps == CInv /\ Inv' /\ Exec => CInv'
<1> SUFFICES ASSUME CInv, Inv', Exec PROVE CInv' OBVIOUS
<1> USE DEF Exec, ExecReturn, ExecClose
<1>1. /\ N' = N
      /\ UNCHANGED <<storeVars, redact, want, linkVars, tk, bundleVars, mainVars>>
  BY DEF storeVars, N
<1>2. UNCHANGED <<pc, err, disk, got, count, Config>>
  BY <1>1 DEF storeVars, Config
<1>3. CaptureTypeOK'
  BY <1>1 DEF CInv, Inv, CaptureTypeOK, linkVars, bundleVars, mainVars
<1>4. MainInv'
  <2>1. mpc # "done" \/ verdict = "mkdir" \/ UNCHANGED xerr
    BY DEF CInv, ExecInv
  <2> QED BY <1>1, <1>2, <2>1 DEF CInv, MainInv, Verdict, mainVars
<1>5. BundleInv' BY <1>1, <1>2 DEF CInv, BundleInv, bundleVars, mainVars
<1>6. ExecInv'
  BY <1>1 DEF CInv, ExecInv, linkVars, bundleVars, mainVars
<1>7. WaitInv' BY <1>1, <1>2 DEF CInv, WaitInv, bundleVars, mainVars
<1> QED BY <1>1, <1>3, <1>4, <1>5, <1>6, <1>7 DEF CInv

\* redact.Bundle's goroutine.
LEMMA BundleKeeps == CInv /\ Inv' /\ Bundle => CInv'
<1> SUFFICES ASSUME CInv, Inv', Bundle PROVE CInv' OBVIOUS
<1> USE DEF Bundle, BundleRead, BundleEnd, Offered
<1>1. /\ N' = N
      /\ UNCHANGED <<storeVars, redact, want, linkVars, execVars, mainVars>>
  BY DEF storeVars, N
<1>2. UNCHANGED <<pc, err, disk, got, count, Config>>
  BY <1>1 DEF storeVars, Config
<1>3. /\ tk' \in 0..sent /\ sent \in 0..N /\ N \in Nat /\ got \in 0..N /\ tk \in 0..sent
      /\ got <= tk => got <= tk'
      /\ BundleRead => tk' = tk + 1
  BY Numbers
<1>4. CaptureTypeOK'
  <2>1. sent' \in 0..N' /\ tk' \in 0..sent' BY <1>1, <1>3 DEF linkVars
  <2> QED BY <1>1, <2>1
    DEF CInv, Inv, CaptureTypeOK, linkVars, execVars, mainVars
<1>5. redact /\ bpc \in {"read", "flush"} /\ mpc \in {"put", "join"}
  BY DEF CInv, ExecInv, BundleInv, CaptureTypeOK
<1>6. MainInv' BY <1>1, <1>2, <1>5 DEF CInv, MainInv, mainVars
<1>7. BundleInv'
  <2>1. CASE BundleRead
    BY <1>1, <1>2, <1>3, <1>5, <2>1 DEF CInv, BundleInv, mainVars
  <2>2. CASE BundleEnd
    <3>1. bpc = "read" => got < N BY <1>3, <1>5 DEF CInv, BundleInv
    <3> QED BY <1>1, <1>2, <1>3, <1>5, <2>2, <3>1
        DEF CInv, BundleInv, mainVars
  <2> QED BY <2>1, <2>2
<1>8. ExecInv'
  BY <1>1, <1>5 DEF CInv, ExecInv, MainInv, linkVars, execVars, mainVars
<1>9. WaitInv' BY <1>1, <1>2 DEF CInv, WaitInv, execVars, mainVars
<1> QED BY <1>4, <1>6, <1>7, <1>8, <1>9 DEF CInv

\* Put, reading from either pipe.
LEMMA PutKeeps == CInv /\ Inv' /\ Put => CInv'
<1> SUFFICES ASSUME CInv, Inv', Put PROVE CInv' OBVIOUS
<1> USE DEF Put
<1>1. /\ StoreStep /\ mpc = "put" /\ UNCHANGED Config
      /\ UNCHANGED <<redact, want, linkVars, execVars, bundleVars, mainVars>>
  BY StoreKeepsConfig
  DEF PutReads, PutCut, PutWorks, StoreStep, StoreNext
<1>2. N' = N BY <1>1 DEF Config, N
<1>3. /\ tk' \in 0..sent /\ sent \in 0..N /\ N \in Nat /\ got \in 0..N /\ tk \in 0..sent
      /\ redact /\ got <= tk => tk' = tk /\ got' <= tk
      /\ berr = "none" \/ got' = got
  <2>1. CASE PutReads
    <3>1. got' = got + 1 BY <2>1 DEF PutReads, Scan, Fill, FillError
    <3>2. redact => got < tk /\ tk' = tk /\ bpc # "closed"
      BY <2>1 DEF PutReads, Readable
    <3>3. ~redact => tk' = tk + 1 /\ tk < sent
      BY <2>1 DEF PutReads, Readable, Offered
    <3>4. berr # "none" => bpc = "closed" /\ redact BY DEF CInv, BundleInv
    <3> QED BY <3>1, <3>2, <3>3, <3>4, Numbers
  <2>2. CASE PutCut \/ PutWorks
    BY <2>2, Numbers
    DEF PutCut, PutWorks, Cut, MakeDir, OpenTemp, FillEnd, Sync, Close, Rename, Undo
  <2> QED BY <2>1, <2>2
<1>4. CaptureTypeOK'
  <2>1. sent' \in 0..N' /\ tk' \in 0..sent' BY <1>1, <1>2, <1>3 DEF linkVars
  <2> QED BY <1>1, <2>1
    DEF CInv, Inv, CaptureTypeOK, linkVars, execVars, bundleVars, mainVars
<1>5. MainInv' BY <1>1 DEF CInv, MainInv, mainVars
<1>6. BundleInv'
  <2>1. bpc = "read" => tk' < N BY <1>3 DEF CInv, BundleInv
  <2> QED BY <1>1, <1>2, <1>3, <2>1
      DEF CInv, BundleInv, mainVars, bundleVars
<1>7. ExecInv'
  BY <1>1 DEF CInv, ExecInv, MainInv, linkVars, execVars, bundleVars, mainVars
<1>8. WaitInv'
  <2>1. bpc = "flush" => redact /\ tk' = tk
    <3>1. bpc = "flush" => redact BY DEF CInv, BundleInv
    <3> QED BY <1>3, <3>1 DEF PutReads, PutCut, PutWorks
  <2>2. pc' # "dead"
    BY <1>1 DEF StoreStep, MakeDir, Scan, OpenTemp, Fill, FillError, FillEnd, Cut,
                Sync, Close, Rename, Undo, GiveUp, CInv, WaitInv
  <2> QED BY <1>1, <1>2, <2>1, <2>2 DEF CInv, WaitInv, execVars, bundleVars, mainVars
<1> QED BY <1>4, <1>5, <1>6, <1>7, <1>8 DEF CInv

\* captureBundle around its Put.
LEMMA MainKeeps ==
  CInv /\ Inv' /\ (Launch \/ PutReturn \/ Join \/ Drain \/ Finish) => CInv'
<1> SUFFICES ASSUME CInv, Inv', Launch \/ PutReturn \/ Join \/ Drain \/ Finish
             PROVE  CInv'
  OBVIOUS
<1> USE DEF Launch, PutReturn, Join, Drain, Finish, Offered
<1>1. N' = N /\ UNCHANGED <<storeVars, redact, want, linkVars>>
  BY DEF storeVars, N
<1>2. UNCHANGED <<pc, err, disk, got, count, Config>>
  BY <1>1 DEF storeVars, Config
<1>3. /\ tk' \in 0..sent /\ sent \in 0..N /\ N \in Nat /\ N > 0 /\ got \in 0..N
      /\ tk \in 0..sent /\ (got <= tk => got <= tk')
  BY Numbers
<1>4. CaptureTypeOK'
  <2>1. sent' \in 0..N' /\ tk' \in 0..sent' BY <1>1, <1>3 DEF linkVars
  <2>2. err \in {"none", "io", "cut", "toolarge"} BY DEF CInv, Inv, TypeOK
  <2> QED BY <1>1, <2>1, <2>2
    DEF CInv, Inv, CaptureTypeOK, linkVars, execVars, bundleVars, mainVars, Verdict
<1>5. MainInv'
  BY <1>1, <1>2 DEF CInv, MainInv, Verdict, execVars, mainVars, BundleInv
<1>6. pc = "ret" /\ err = "none" => got = N
  BY DEF CInv, Inv, OkMeansAll
<1>7. BundleInv'
  <2> USE <1>1, <1>2, <1>3 DEF CInv, BundleInv
  <2>1. CASE Launch
    <3>1. tk = 0 /\ berr = "none" /\ cerr # "redact" /\ tk' = tk /\ berr' = berr
      BY <2>1 DEF MainInv, ExecInv
    <3>2. CASE mpc' = "put" BY <2>1, <3>1, <3>2
    <3>3. CASE mpc' = "done" BY <2>1, <3>1, <3>3 DEF ExecInv
    <3> QED BY <2>1, <3>2, <3>3
  <2>2. CASE PutReturn
    <3>1. err # "redact" BY DEF Inv, TypeOK
    <3>2. /\ mpc = "put" /\ cerr' = err /\ tk' = tk /\ verdict' = verdict
          /\ mpc' = (IF redact THEN "join" ELSE "drain")
          /\ bpc' = bpc /\ berr' = berr /\ got' = got /\ redact' = redact
      BY <2>2 DEF bundleVars
    <3> QED BY <3>1, <3>2
  <2>3. CASE Join BY <1>6, <2>3 DEF MainInv, bundleVars
  <2>4. CASE Drain \/ Finish BY <2>4 DEF ExecInv, bundleVars, mainVars
  <2> QED BY <2>1, <2>2, <2>3, <2>4
<1>8. ExecInv'
  <2> USE <1>1 DEF CInv, ExecInv, linkVars
  <2>1. CASE Launch BY <2>1 DEF MainInv
  <2>2. CASE PutReturn BY <2>2 DEF execVars, bundleVars, BundleInv
  <2>3. CASE Join BY <2>3 DEF execVars, bundleVars
  <2>4. CASE Drain \/ Finish
    BY <2>4 DEF execVars, bundleVars, mainVars, Verdict
  <2> QED BY <2>1, <2>2, <2>3, <2>4
<1>9. WaitInv'
  <2>1. bpc' = "flush" => bpc = "flush" /\ mpc \notin {"drain", "done"}
    <3>1. mpc \in {"drain", "done"} => bpc # "flush" BY DEF CInv, ExecInv
    <3> QED BY <3>1 DEF bundleVars
  <2>2. bpc' = "flush" => tk' = N BY <2>1 DEF CInv, WaitInv
  <2>3. pc' # "dead" BY <1>2 DEF CInv, WaitInv
  <2>4. xpc' = "off" => mpc' = "start" \/ verdict' = "mkdir"
    BY DEF CInv, WaitInv, MainInv, ExecInv, execVars
  <2>5. mpc' = "join" => redact' BY <1>1 DEF CInv, WaitInv, mainVars
  <2> QED BY <1>1, <2>2, <2>3, <2>4, <2>5 DEF WaitInv
<1> QED BY <1>4, <1>5, <1>7, <1>8, <1>9 DEF CInv

\* captureBundle is built on Put as Store describes it: what was proved of Store
\* may be used of a capture.
LEMMA CaptureIsStore == CaptureSpec => StoreSpec
<1>1. CaptureInit => StoreInit BY DEF CaptureInit
<1> QED BY <1>1, NextIsStoreNext, PTL DEF CaptureSpec, StoreSpec

\* So the directory of a capture sees what AtomicPut allows and no more, under
\* every interleaving of the goroutines, the remote, the network and the user.
THEOREM CaptureKeepsPromise == CaptureSpec => KeepsPromise
BY CaptureIsStore, StoreKeepsPromise

\* Every step of a capture keeps the invariant.
LEMMA CInvNext == CInv /\ [CaptureNext]_captureVars => CInv'
<1> SUFFICES ASSUME CInv, [CaptureNext]_captureVars PROVE CInv' OBVIOUS
<1>1. Inv' BY NextIsStoreNext, InvNext DEF CInv
<1>2. CASE CaptureNext /\ ~Over
  BY <1>1, <1>2, EnvironmentKeeps, ExecKeeps, BundleKeeps, PutKeeps, MainKeeps
  DEF CaptureNext, Main
<1>3. CASE UNCHANGED captureVars
  <2> USE <1>3 DEF captureVars, linkVars, execVars, bundleVars, mainVars
  <2>1. N' = N /\ UNCHANGED <<pc, err, disk, got, count>>
    BY DEF storeVars, N
  <2>2. CaptureTypeOK' BY <1>1, <2>1 DEF CInv, Inv, CaptureTypeOK
  <2>3. MainInv' /\ BundleInv' /\ ExecInv' /\ WaitInv'
    BY <2>1 DEF CInv, MainInv, BundleInv, ExecInv, WaitInv, Verdict
  <2> QED BY <1>1, <2>2, <2>3 DEF CInv
<1> QED BY <1>2, <1>3 DEF Over

\* The inductive invariant of a capture.
THEOREM CInvHolds == CaptureSpec => []CInv
BY CInvInit, CInvNext, PTL DEF CaptureSpec

\* Type correctness of a capture, Put included.
THEOREM CaptureTypesHold == CaptureSpec => []CaptureTypeOK
<1>1. CInv => CaptureTypeOK BY DEF CInv
<1> QED BY <1>1, CInvHolds, PTL

\* captureBundle reports success only for a complete capture, whichever of the
\* three goroutines stops first and for whatever reason (dump.go:192-205).
THEOREM SuccessIsEarned == CaptureSpec => []OkMeansComplete
<1>1. CInv => OkMeansComplete
  <2> SUFFICES ASSUME CInv, verdict = "ok" PROVE OkMeansComplete
    BY DEF OkMeansComplete
  <2>1. /\ pc = "ret" /\ err = "none" /\ cerr = "none" /\ xerr = "nil"
        /\ count = want /\ mpc = "done"
    BY DEF CInv, MainInv, Verdict
  <2>2. berr = "none" BY <2>1 DEF CInv, BundleInv
  <2>3. remote = "zero" \/ conn = "lost" BY <2>1 DEF CInv, ExecInv
  <2>4. NeverPartial BY DEF CInv, Inv, DiskInv, NeverPartial
  <2> QED BY <2>1, <2>2, <2>3, <2>4 DEF OkMeansComplete, CInv, Inv, OkMeansAll
<1> QED BY <1>1, CInvHolds, PTL

-----------------------------------------------------------------------------
(***************************************************************************)
(* Why the exit status is not lost: whatever makes Put fail because the    *)
(* stream was cut comes after the exec goroutine has its result.           *)
(***************************************************************************)

\* Put, or Bundle under it, gave up for a reason of its own.
OwnFailure == err \notin {"none", "cut"} \/ berr = "parse"

BlameInv ==
  /\ xpc \in {"returned", "closed"} => xerr # "none"
  /\ xpc = "off" => remote = "run"
  /\ xerr = "net" => conn = "lost"
  /\ xerr = "ctx" => ctx \/ (mpc \in {"drain", "done"} /\ OwnFailure)
  /\ berr = "cut" => xpc = "closed"
  /\ berr = "closed" => mpc \notin {"start", "put"}
  /\ bpc = "closed" /\ berr = "none" => got = N
  /\ err = "cut" => xpc = "closed" \/ berr = "parse"

\* Only a member that has not come to its end can be cut.
LEMMA CutIsShort ==
  ASSUME Inv, Cut
  PROVE  got < N /\ got' = got /\ err' = "cut"
<1>1. got' = got /\ err' = "cut" BY DEF Cut, GiveUp
<1>2. N \in Nat /\ got \in 0..N BY MemberFacts DEF Inv, TypeOK, N
<1>3. CASE pc = "scan" BY <1>1, <1>3 DEF Inv, PosInv
<1>4. CASE pc = "fill" /\ tmp.len < tmp.need
  <2>1. InFile /\ pc = "fill" BY <1>4 DEF Inv, PosInv
  <2>2. CASE ~extract BY <1>1, <1>4, <2>1, <2>2 DEF InFile
  <2>3. CASE extract
    <3>1. /\ tmp.name \in Headers(N) /\ tmp.need = member[tmp.name].size
          /\ got = tmp.name + tmp.len
      BY <2>1, <2>3 DEF InFile
    <3>2. /\ tmp.name \in 1..N /\ tmp.need \in Nat /\ tmp.name + tmp.need < N
      BY <3>1, HeadersBody, MemberFacts DEF Inv
    <3>3. tmp.len <= tmp.need /\ got \in Nat BY <1>2, <1>4, <2>1 DEF InFile
    <3>4. tmp.len \in Nat
      <4>1. tmp \in File \cup {NoFile} BY DEF Inv, TypeOK
      <4>2. tmp # NoFile BY <2>1 DEF Inv, TypeOK
      <4> QED BY <4>1, <4>2 DEF File
    <3> QED BY <1>1, <1>2, <3>1, <3>2, <3>3, <3>4
  <2> QED BY <2>2, <2>3
<1> QED BY <1>1, <1>3, <1>4 DEF Cut

LEMMA BlameInit == CaptureInit => BlameInv
<1> SUFFICES ASSUME CaptureInit PROVE BlameInv OBVIOUS
<1> QED BY DEF CaptureInit, StoreInit, BlameInv

LEMMA BlameNext == CInv /\ BlameInv /\ [CaptureNext]_captureVars => BlameInv'
<1> SUFFICES ASSUME CInv, BlameInv, [CaptureNext]_captureVars PROVE BlameInv' OBVIOUS
<1>0. N \in Nat /\ got \in 0..N /\ sent \in 0..N /\ tk \in 0..sent BY Numbers
<1>1. CASE Environment
  <2>1. UNCHANGED <<err, got, N, xpc, xerr, bpc, berr, mpc>>
    BY <1>1 DEF Environment, storeVars, N, Config, execVars, bundleVars, mainVars
  <2>2. /\ conn = "lost" => conn' = "lost"
        /\ ctx => ctx'
        /\ xpc = "off" => remote' = remote
    BY <1>1 DEF Environment, Produce, RemoteExit, ConnLost, Interrupt
  <2> QED BY <2>1, <2>2 DEF BlameInv, OwnFailure
<1>2. CASE Exec
  <2>1. UNCHANGED <<err, got, N, remote, conn, ctx, bpc, berr, mpc, cerr>>
    BY <1>2 DEF Exec, ExecReturn, ExecClose, storeVars, N, Config, linkVars,
                bundleVars, mainVars
  <2>2. CASE ExecClose BY <2>1, <2>2 DEF ExecClose, BlameInv, OwnFailure
  <2>3. CASE ExecReturn
    <3>1. mpc = "drain" /\ cerr # "none" => OwnFailure
      <4> SUFFICES ASSUME mpc = "drain", cerr # "none" PROVE OwnFailure
        OBVIOUS
      <4>1. pc = "ret" /\ cerr \in {err, "redact"} BY DEF CInv, MainInv
      <4>2. CASE err = "none"
        <5>1. berr # "none" BY <4>1, <4>2 DEF CInv, BundleInv
        <5>2. got = N BY <4>1, <4>2 DEF CInv, Inv, OkMeansAll
        <5> QED BY <1>0, <5>1, <5>2 DEF CInv, BundleInv
      <4>3. CASE err = "cut" BY <2>3, <4>3 DEF BlameInv, ExecReturn, OwnFailure
      <4> QED BY <4>2, <4>3 DEF OwnFailure
    <3> QED BY <2>1, <2>3, <3>1 DEF ExecReturn, ExecCancelled, BlameInv, OwnFailure
  <2> QED BY <1>2, <2>2, <2>3 DEF Exec
<1>3. CASE Bundle
  <2>1. UNCHANGED <<err, got, N, remote, conn, ctx, xpc, xerr, mpc>>
    BY <1>3 DEF Bundle, BundleRead, BundleEnd, storeVars, N, Config, linkVars,
                execVars, mainVars
  <2>2. CASE BundleRead BY <2>1, <2>2 DEF BundleRead, BlameInv, OwnFailure
  <2>3. CASE BundleEnd
    <3>1. bpc \in {"read", "flush"} /\ berr = "none" /\ mpc \notin {"drain", "done"}
      BY <2>3 DEF BundleEnd, CInv, BundleInv, ExecInv
    <3> QED BY <2>1, <2>3, <3>1 DEF BundleEnd, ReaderGone, BlameInv, OwnFailure
  <2> QED BY <1>3, <2>2, <2>3 DEF Bundle
<1>4. CASE Put
  <2>1. /\ mpc = "put" /\ UNCHANGED <<remote, conn, ctx, xpc, xerr, bpc, berr, mpc>>
    BY <1>4 DEF Put, linkVars, execVars, bundleVars, mainVars
  <2>2. N' = N
    BY <1>4, StoreKeepsConfig
    DEF Put, PutReads, PutCut, PutWorks, StoreStep, StoreNext, Config, N
  <2>3. CASE PutReads
    <3>1. bpc # "closed" BY <2>3 DEF PutReads, Readable, CInv, BundleInv
    <3>2. err' # "cut" \/ err' = err
      BY <2>3 DEF PutReads, Scan, Fill, FillError, GiveUp
    <3> QED BY <2>1, <2>2, <3>1, <3>2 DEF BlameInv, OwnFailure
  <2>4. CASE PutCut
    <3>1. got < N /\ got' = got /\ err' = "cut"
      BY <2>4, CutIsShort DEF PutCut, CInv
    <3>2. IF redact THEN bpc = "closed" ELSE xpc = "closed" BY <2>4 DEF PutCut
    <3>3. berr \in {"none", "cut", "parse", "closed"} BY DEF CInv, CaptureTypeOK
    <3>4. bpc = "closed" => berr # "none" BY <1>0, <3>1 DEF BlameInv
    <3>5. berr # "closed" BY <2>1 DEF BlameInv
    <3>6. xpc = "closed" \/ berr = "parse"
      BY <3>2, <3>3, <3>4, <3>5 DEF BlameInv
    <3> QED BY <2>1, <2>2, <3>1, <3>6 DEF BlameInv, OwnFailure
  <2>5. CASE PutWorks
    <3>1. got' = got /\ (err' # "cut" \/ err' = err)
      BY <2>5 DEF PutWorks, MakeDir, OpenTemp, FillEnd, Sync, Close, Rename, Undo, GiveUp
    <3> QED BY <2>1, <2>2, <3>1 DEF BlameInv, OwnFailure
  <2> QED BY <1>4, <2>3, <2>4, <2>5 DEF Put
<1>5. CASE Launch \/ PutReturn \/ Join \/ Drain \/ Finish
  <2>1. UNCHANGED <<err, got, N, remote, conn, ctx, xerr, berr>>
    BY <1>5 DEF Launch, PutReturn, Join, Drain, Finish, storeVars, N, Config, linkVars,
                execVars, bundleVars
  <2>2. /\ mpc \in {"drain", "done"} => mpc' \in {"drain", "done"}
        /\ mpc \notin {"start", "put"} => mpc' \notin {"start", "put"}
    BY <1>5 DEF Launch, PutReturn, Join, Drain, Finish, mainVars
  <2>3. CASE Launch
    <3>1. xpc = "off" /\ bpc = "off" BY <2>3 DEF Launch, CInv, ExecInv
    <3> QED BY <2>1, <2>2, <2>3, <3>1 DEF Launch, BlameInv, OwnFailure
  <2>4. CASE ~Launch
    <3>1. UNCHANGED <<xpc, bpc>>
      BY <1>5, <2>4 DEF PutReturn, Join, Drain, Finish, execVars, bundleVars
    <3> QED BY <2>1, <2>2, <3>1 DEF BlameInv, OwnFailure
  <2> QED BY <2>3, <2>4
<1>6. CASE UNCHANGED captureVars
  BY <1>6 DEF captureVars, storeVars, Config, N, linkVars, execVars, bundleVars, mainVars,
              BlameInv, OwnFailure
<1> QED BY <1>1, <1>2, <1>3, <1>4, <1>5, <1>6 DEF CaptureNext, Main, Over

\* A script that failed is reported with its exit status, not as the cut stream
\* it caused, for every member, limit and option and in every interleaving
\* (dump.go:185-196): unless the connection was lost, the user interrupted, or
\* Put or Bundle gave up for a reason of its own.
THEOREM FailedScriptIsBlamed == CaptureSpec => []ScriptIsBlamed
<1>1. CInv /\ BlameInv => ScriptIsBlamed
  <2> SUFFICES ASSUME CInv, BlameInv, mpc = "done", remote = "nonzero", conn = "up", ~ctx,
                      err \in {"none", "cut"}, berr # "parse"
               PROVE  verdict = "exited"
    BY DEF ScriptIsBlamed
  <2>1. verdict # "mkdir" BY DEF CInv, ExecInv, BlameInv
  <2>2. verdict = Verdict /\ xpc = "closed" BY <2>1 DEF CInv, MainInv, ExecInv
  <2>3. xerr \in {"nil", "exit", "net", "ctx"} BY <2>2 DEF CInv, CaptureTypeOK, BlameInv
  <2>4. xerr = "exit" BY <2>3 DEF CInv, ExecInv, BlameInv, OwnFailure
  <2> QED BY <2>2, <2>4 DEF Verdict
<1>2. CaptureSpec => []BlameInv
  BY BlameInit, BlameNext, CInvHolds, PTL DEF CaptureSpec
<1> QED BY <1>1, <1>2, CInvHolds, PTL

\* What a failed capture leaves under the bundle's name is whole, and the
\* error names it (dump.go:196, 200, 202).
THEOREM LeftoversAreReported == CaptureSpec => []LeftoverIsReported
<1>1. CInv => LeftoverIsReported
  <2> SUFFICES ASSUME CInv, mpc = "done", verdict # "ok", ~extract, disk # {}
               PROVE  NeverPartial /\ verdict \in {"exited", "broken", "count"}
    BY DEF LeftoverIsReported
  <2>1. /\ pc = "ret" /\ verdict = Verdict /\ cerr \in {err, "redact"}
    BY DEF CInv, MainInv
  <2>2. err = "none" BY <2>1 DEF CInv, Inv, FailedBundleIsGone
  <2>3. got = N BY <2>1, <2>2 DEF CInv, Inv, OkMeansAll
  <2>4. cerr = "none"
    <3>1. N \in Nat /\ (berr # "none" => got < N) BY Numbers DEF CInv, BundleInv
    <3>2. berr = "none" BY <2>3, <3>1
    <3>3. cerr # "redact" BY <3>2 DEF CInv, BundleInv
    <3> QED BY <2>1, <2>2, <3>3
  <2>5. NeverPartial BY DEF CInv, Inv, DiskInv, NeverPartial
  <2> QED BY <2>1, <2>4, <2>5 DEF Verdict
<1> QED BY <1>1, CInvHolds, PTL

\* A capture that is over has no goroutine left, nor a temp file.
THEOREM NothingRunsOn == CaptureSpec => []NoGoroutineLeft
<1>1. CInv => NoGoroutineLeft
  BY DEF CInv, ExecInv, MainInv, NoGoroutineLeft
<1> QED BY <1>1, CInvHolds, PTL

\* No circle of waiting: as long as captureBundle has not returned, one of its
\* goroutines can go on, or all are waiting for a remote that is silent.
THEOREM NobodyElseWaits == CaptureSpec => []OnlyRemoteWaits
<1>1. CInv => OnlyRemoteWaits
  <2> SUFFICES ASSUME CInv, mpc # "done", ~ExecMoves, ~BundleMoves, ~MainMoves
               PROVE  RemoteSilent
    BY DEF OnlyRemoteWaits
  <2>1. /\ mpc \in {"put", "join", "drain"} /\ verdict = "none" /\ pc # "dead"
        /\ xpc \in {"off", "stream", "returned", "closed"}
        /\ bpc \in {"off", "read", "flush", "closed"}
        /\ remote \in {"run", "zero", "nonzero"} /\ conn \in {"up", "lost"}
    BY DEF CInv, CaptureTypeOK, MainInv, WaitInv, MainMoves
  <2>2. xpc \in {"stream", "closed"} BY <2>1 DEF CInv, WaitInv, ExecMoves
  <2>3. /\ redact => bpc # "off"
        /\ mpc = "drain" => bpc \in {"off", "closed"}
        /\ mpc = "join" => redact
    BY <2>1 DEF CInv, BundleInv, ExecInv, WaitInv
  <2>4. ASSUME xpc = "stream", ~Offered PROVE RemoteSilent
    <3>1. tk = sent BY <2>4, Numbers DEF Offered
    <3> QED BY <2>1, <2>4, <3>1 DEF ExecMoves, RemoteSilent
  <2>5. ~(xpc = "closed" /\ bpc = "read") BY DEF BundleMoves
  <2>6. xpc = "stream" /\ Offered => bpc # "read" BY DEF BundleMoves
  <2>7. CASE mpc = "drain" BY <2>2, <2>4, <2>7 DEF MainMoves
  <2>8. CASE mpc = "join"
    <3>1. bpc \in {"read", "flush"} BY <2>1, <2>3, <2>8 DEF MainMoves
    <3>2. bpc = "read" BY <2>8, <3>1 DEF BundleMoves, ReaderGone
    <3> QED BY <2>2, <2>4, <2>5, <2>6, <3>2
  <2>9. CASE mpc = "put"
    <3>1. ~PutIsServed BY <2>1, <2>9 DEF MainMoves
    <3>2. CASE ~redact
      <4>1. xpc # "closed" /\ ~Offered BY <3>1, <3>2 DEF PutIsServed, Readable
      <4> QED BY <2>2, <2>4, <4>1
    <3>3. CASE redact
      <4>1. bpc \in {"read", "flush"} BY <2>1, <2>3, <3>1, <3>3 DEF PutIsServed
      <4>2. CASE bpc = "read" BY <2>2, <2>4, <2>5, <2>6, <4>2
      <4>3. CASE bpc = "flush"
        <5>1. tk = N BY <4>3 DEF CInv, WaitInv
        <5>2. got < tk => Readable BY <3>3, <4>3 DEF Readable
        <5>3. got = N BY <3>1, <5>1, <5>2, Numbers DEF PutIsServed
        <5> QED BY <4>3, <5>3 DEF BundleMoves
      <4> QED BY <4>1, <4>2, <4>3
    <3> QED BY <3>2, <3>3
  <2> QED BY <2>1, <2>7, <2>8, <2>9
<1> QED BY <1>1, CInvHolds, PTL

-----------------------------------------------------------------------------
(***************************************************************************)
(* A capture takes finitely many steps.  With the theorem above: it ends,  *)
(* as long as its goroutines are run, unless its remote is silent.         *)
(***************************************************************************)
RemoteLeft == (IF ctx THEN 0 ELSE 1) + (IF remote = "run" THEN 1 ELSE 0)
                + (IF conn = "up" THEN N - sent + 1 ELSE 0)

ExecLeft == CASE xpc = "off" -> 3 [] xpc = "stream" -> 2 [] xpc = "returned" -> 1
              [] OTHER -> 0

BundleLeft == CASE bpc = "off" -> 3 [] bpc = "read" -> 2 [] bpc = "flush" -> 1
                [] OTHER -> 0

MainLeft == CASE mpc = "start" -> 4 [] mpc = "put" -> 3 [] mpc = "join" -> 2
              [] mpc = "drain" -> 1 [] OTHER -> 0

CaptureLeft == PutLeft + (N - tk) + RemoteLeft + ExecLeft + BundleLeft + MainLeft

\* Its parts are numbers.
Numerical ==
  /\ N \in Nat /\ PutLeft \in 0..(8 * N + 7) /\ tk \in 0..N
  /\ RemoteLeft \in 0..(N + 3)
  /\ ExecLeft \in 0..3 /\ BundleLeft \in 0..3 /\ MainLeft \in 0..4

LEMMA CaptureLeftBound == CInv => Numerical
<1> SUFFICES ASSUME CInv PROVE Numerical OBVIOUS
<1>1. N \in Nat /\ sent \in 0..N /\ tk \in 0..sent /\ tk \in 0..N BY Numbers
<1>2. PutLeft \in 0..(8 * N + 7) BY PutLeftBound DEF CInv
<1>3. RemoteLeft \in 0..(N + 3)
  <2>1. CASE conn = "up" BY <1>1, <2>1 DEF RemoteLeft
  <2>2. CASE conn # "up" BY <1>1, <2>2 DEF RemoteLeft
  <2> QED BY <2>1, <2>2
<1>4. ExecLeft \in 0..3 /\ BundleLeft \in 0..3 /\ MainLeft \in 0..4
  BY DEF ExecLeft, BundleLeft, MainLeft
<1> QED BY <1>1, <1>2, <1>3, <1>4 DEF Numerical

\* No part grows, and one of them shrinks.
LEMMA CaptureLess ==
  ASSUME CInv, CInv', N' = N,
         PutLeft' = PutLeft \/ PutLeft' < PutLeft, tk' = tk \/ tk < tk',
         RemoteLeft' = RemoteLeft \/ RemoteLeft' < RemoteLeft,
         ExecLeft' = ExecLeft \/ ExecLeft' < ExecLeft,
         BundleLeft' = BundleLeft \/ BundleLeft' < BundleLeft,
         MainLeft' = MainLeft \/ MainLeft' < MainLeft,
         \/ PutLeft' < PutLeft \/ tk < tk' \/ RemoteLeft' < RemoteLeft
         \/ ExecLeft' < ExecLeft \/ BundleLeft' < BundleLeft \/ MainLeft' < MainLeft
  PROVE  CaptureLeft' < CaptureLeft
<1> DEFINE t == N - tk
           u == N - tk'
<1>1. Numerical BY CaptureLeftBound
<1>2. Numerical' BY CaptureLeftBound, PTL
<1>3. t \in Nat /\ u \in Nat /\ u <= t /\ (tk < tk' => u < t)
  <2>1. N \in Nat /\ tk \in 0..N /\ tk' \in 0..N BY <1>1, <1>2 DEF Numerical
  <2>2. \A n \in Nat : \A a, b \in 0..n :
          a <= b => n - a \in Nat /\ n - b \in Nat /\ n - b <= n - a /\ (a < b => n - b < n - a)
    OBVIOUS
  <2>3. tk <= tk' BY <2>1
  <2> QED BY <2>1, <2>2, <2>3
<1>4. /\ PutLeft \in Nat /\ RemoteLeft \in Nat /\ ExecLeft \in Nat /\ BundleLeft \in Nat
      /\ MainLeft \in Nat
  BY <1>1 DEF Numerical
<1>5. /\ PutLeft' \in Nat /\ RemoteLeft' \in Nat /\ ExecLeft' \in Nat /\ BundleLeft' \in Nat
      /\ MainLeft' \in Nat
  BY <1>2 DEF Numerical
<1>6. /\ CaptureLeft = PutLeft + t + RemoteLeft + ExecLeft + BundleLeft + MainLeft
      /\ CaptureLeft' = PutLeft' + u + RemoteLeft' + ExecLeft' + BundleLeft' + MainLeft'
  BY DEF CaptureLeft
<1> HIDE DEF t, u
<1>7. /\ PutLeft' = PutLeft \/ PutLeft' < PutLeft
      /\ RemoteLeft' = RemoteLeft \/ RemoteLeft' < RemoteLeft
      /\ ExecLeft' = ExecLeft \/ ExecLeft' < ExecLeft
      /\ BundleLeft' = BundleLeft \/ BundleLeft' < BundleLeft
      /\ MainLeft' = MainLeft \/ MainLeft' < MainLeft
      /\ \/ PutLeft' < PutLeft \/ u < t \/ RemoteLeft' < RemoteLeft
         \/ ExecLeft' < ExecLeft \/ BundleLeft' < BundleLeft \/ MainLeft' < MainLeft
  BY <1>3
<1> DEFINE a == PutLeft b == RemoteLeft c == ExecLeft d == BundleLeft e == MainLeft
           v == PutLeft' w == RemoteLeft' x == ExecLeft' y == BundleLeft' z == MainLeft'
<1>8. /\ a \in Nat /\ b \in Nat /\ c \in Nat /\ d \in Nat /\ e \in Nat /\ t \in Nat
      /\ v \in Nat /\ w \in Nat /\ x \in Nat /\ y \in Nat /\ z \in Nat /\ u \in Nat
      /\ v = a \/ v < a
      /\ w = b \/ w < b
      /\ x = c \/ x < c
      /\ y = d \/ y < d
      /\ z = e \/ z < e
      /\ u <= t
      /\ v < a \/ u < t \/ w < b \/ x < c \/ y < d \/ z < e
      /\ CaptureLeft = a + t + b + c + d + e /\ CaptureLeft' = v + u + w + x + y + z
  BY <1>3, <1>4, <1>5, <1>6, <1>7
<1> HIDE DEF a, b, c, d, e, v, w, x, y, z
<1>9. v + u + w + x + y + z < a + t + b + c + d + e BY <1>8
<1> QED BY <1>8, <1>9

\* What a step leaves alone.
LEMMA LeftKept ==
  /\ UNCHANGED storeVars => N' = N /\ PutLeft' = PutLeft
  /\ N' = N /\ UNCHANGED linkVars => RemoteLeft' = RemoteLeft
  /\ UNCHANGED xpc => ExecLeft' = ExecLeft
  /\ UNCHANGED bpc => BundleLeft' = BundleLeft
  /\ UNCHANGED mpc => MainLeft' = MainLeft
BY DEF storeVars, N, PutLeft, Phase, linkVars, RemoteLeft, ExecLeft, BundleLeft, MainLeft

\* Every step of a capture, of whichever goroutine, of the script, the connection
\* or the user, brings its end nearer.
LEMMA CaptureStepLess ==
  ASSUME CInv, CInv', CaptureNext, ~Over
  PROVE  CaptureLeft' < CaptureLeft
<1>1. N \in Nat /\ got \in 0..N /\ sent \in 0..N /\ tk \in 0..sent BY Numbers
<1>2. tk \in Nat /\ tk < tk + 1 BY <1>1
<1>3. CASE Environment
  <2>1. /\ UNCHANGED <<storeVars, tk, execVars, bundleVars, mainVars>>
        /\ N' = N /\ PutLeft' = PutLeft /\ ExecLeft' = ExecLeft
        /\ BundleLeft' = BundleLeft /\ MainLeft' = MainLeft
    BY <1>3, LeftKept DEF Environment, execVars, bundleVars, mainVars
  <2>2. CASE Produce
    <3>1. N - (sent + 1) + 1 < N - sent + 1 BY <1>1
    <3>2. RemoteLeft' < RemoteLeft
      BY <1>1, <2>1, <2>2, <3>1 DEF Produce, RemoteLeft
    <3> QED BY <2>1, <3>2, CaptureLess
  <2>3. CASE RemoteExit
    <3>1. remote = "run" /\ remote' # "run" /\ UNCHANGED <<sent, conn, ctx>>
      BY <2>3 DEF RemoteExit
    <3>2. RemoteLeft' < RemoteLeft BY <1>1, <2>1, <3>1 DEF RemoteLeft
    <3> QED BY <2>1, <3>2, CaptureLess
  <2>4. CASE ConnLost
    <3>1. conn = "up" /\ conn' = "lost" /\ UNCHANGED <<remote, ctx>>
      BY <2>4 DEF ConnLost
    <3>2. RemoteLeft' < RemoteLeft BY <1>1, <2>1, <3>1 DEF RemoteLeft
    <3> QED BY <2>1, <3>2, CaptureLess
  <2>5. CASE Interrupt
    <3>1. ~ctx /\ ctx' /\ UNCHANGED <<sent, remote, conn>> BY <2>5 DEF Interrupt
    <3>2. RemoteLeft' < RemoteLeft BY <1>1, <2>1, <3>1 DEF RemoteLeft
    <3> QED BY <2>1, <3>2, CaptureLess
  <2> QED BY <1>3, <2>2, <2>3, <2>4, <2>5 DEF Environment
<1>4. CASE Exec
  <2>1. /\ UNCHANGED <<storeVars, tk, linkVars, bundleVars, mainVars>>
        /\ N' = N /\ PutLeft' = PutLeft /\ RemoteLeft' = RemoteLeft
        /\ BundleLeft' = BundleLeft /\ MainLeft' = MainLeft
    BY <1>4, LeftKept DEF Exec, ExecReturn, ExecClose, bundleVars, mainVars
  <2>2. ExecLeft' < ExecLeft BY <1>4 DEF Exec, ExecReturn, ExecClose, ExecLeft
  <2> QED BY <2>1, <2>2, CaptureLess
<1>5. CASE Bundle
  <2>1. /\ UNCHANGED <<storeVars, linkVars, execVars, mainVars>>
        /\ N' = N /\ PutLeft' = PutLeft /\ RemoteLeft' = RemoteLeft
        /\ ExecLeft' = ExecLeft /\ MainLeft' = MainLeft
    BY <1>5, LeftKept DEF Bundle, BundleRead, BundleEnd, execVars, mainVars
  <2>2. CASE BundleRead
    <3>1. tk' = tk + 1 BY <2>2 DEF BundleRead
    <3>2. BundleLeft' = BundleLeft \/ BundleLeft' < BundleLeft
      BY <2>2 DEF BundleRead, BundleLeft
    <3> QED BY <1>2, <2>1, <3>1, <3>2, CaptureLess
  <2>3. CASE BundleEnd
    <3>1. BundleLeft' < BundleLeft BY <2>3 DEF BundleEnd, BundleLeft
    <3>2. tk' = tk BY <2>3 DEF BundleEnd
    <3> QED BY <2>1, <3>1, <3>2, CaptureLess
  <2> QED BY <1>5, <2>2, <2>3 DEF Bundle
<1>6. CASE Put
  <2>1. /\ StoreStep /\ UNCHANGED <<linkVars, execVars, bundleVars, mainVars>>
    BY <1>6 DEF Put, PutReads, PutCut, PutWorks, StoreStep
  <2>2. UNCHANGED Config BY <2>1, StoreKeepsConfig DEF StoreNext
  <2>3. N' = N BY <2>2 DEF N, Config
  <2>4. /\ RemoteLeft' = RemoteLeft /\ ExecLeft' = ExecLeft
        /\ BundleLeft' = BundleLeft /\ MainLeft' = MainLeft
    BY <2>1, <2>3, LeftKept DEF execVars, bundleVars, mainVars
  <2>5. tk' = tk \/ tk < tk'
    BY <1>2, <1>6 DEF Put, PutReads, PutCut, PutWorks
  <2>6. pc \notin {"ret", "dead"}
    BY <2>1 DEF StoreStep, MakeDir, Scan, OpenTemp, Fill, FillError, FillEnd, Cut, Sync,
                Close, Rename, Undo
  <2>7. PutLeft' < PutLeft BY <2>1, <2>6, StepLess DEF CInv
  <2> QED BY <2>3, <2>4, <2>5, <2>7, CaptureLess
<1>7. CASE Launch
  <2>1. /\ UNCHANGED <<storeVars, linkVars, tk>> /\ mpc = "start"
        /\ N' = N /\ PutLeft' = PutLeft /\ RemoteLeft' = RemoteLeft
    BY <1>7, LeftKept DEF Launch
  <2>2. xpc = "off" /\ bpc = "off" BY <2>1 DEF CInv, ExecInv
  <2>3. MainLeft' < MainLeft BY <1>7 DEF Launch, MainLeft
  <2>4. ExecLeft' = ExecLeft \/ ExecLeft' < ExecLeft BY <1>7, <2>2 DEF Launch, ExecLeft
  <2>5. BundleLeft' = BundleLeft \/ BundleLeft' < BundleLeft
    BY <1>7, <2>2 DEF Launch, BundleLeft
  <2> QED BY <2>1, <2>3, <2>4, <2>5, CaptureLess
<1>8. CASE PutReturn \/ Join \/ Finish
  <2>1. /\ UNCHANGED <<storeVars, linkVars, tk, execVars, bundleVars>>
        /\ N' = N /\ PutLeft' = PutLeft /\ RemoteLeft' = RemoteLeft
        /\ ExecLeft' = ExecLeft /\ BundleLeft' = BundleLeft
    BY <1>8, LeftKept DEF PutReturn, Join, Finish, execVars, bundleVars
  <2>2. MainLeft' < MainLeft BY <1>8 DEF PutReturn, Join, Finish, MainLeft
  <2> QED BY <2>1, <2>2, CaptureLess
<1>9. CASE Drain
  <2>1. /\ UNCHANGED <<storeVars, linkVars, execVars, bundleVars, mainVars>> /\ tk' = tk + 1
        /\ N' = N /\ PutLeft' = PutLeft /\ RemoteLeft' = RemoteLeft
        /\ ExecLeft' = ExecLeft /\ BundleLeft' = BundleLeft /\ MainLeft' = MainLeft
    BY <1>9, LeftKept DEF Drain, execVars, bundleVars, mainVars
  <2> QED BY <1>2, <2>1, CaptureLess
<1> QED BY <1>3, <1>4, <1>5, <1>6, <1>7, <1>8, <1>9 DEF CaptureNext, Main

\* A capture takes at most ten steps for each token of its member and twenty
\* more, whoever takes them and in whichever order.  It can stop before its end
\* only where NobodyElseWaits allows it, so for every member a capture whose
\* goroutines are run ends once its script, its connection or its user did
\* (dump.go:151-205).
THEOREM CaptureRunsOut ==
  CaptureSpec => /\ [](CaptureLeft \in 0..(10 * N + 20))
                 /\ [][CaptureLeft' < CaptureLeft]_captureVars
<1>1. CInv => CaptureLeft \in 0..(10 * N + 20)
  <2> SUFFICES ASSUME CInv PROVE CaptureLeft \in 0..(10 * N + 20) OBVIOUS
  <2> QED BY CaptureLeftBound DEF Numerical, CaptureLeft
<1>2. CInv /\ CInv' /\ [CaptureNext]_captureVars => [CaptureLeft' < CaptureLeft]_captureVars
  BY CaptureStepLess DEF Over
<1> QED BY <1>1, <1>2, CInvHolds, PTL DEF CaptureSpec
=============================================================================
