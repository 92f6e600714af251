---------------------------- MODULE StoreProofs ----------------------------
(***************************************************************************)
(* What Store guarantees for every set of members and every --max-size.    *)
(***************************************************************************)
EXTENDS Store, FiniteSetTheorems, TLAPS

\* The files in place are complete and safe on disk.
DiskInv == \A f \in disk : f.len = f.need /\ f.synced

\* A temp file is open from CreateTemp to the rename or the undo.
TmpInv ==
  /\ pc \in {"mkdir", "scan", "open", "ret"} => tmp = NoFile
  /\ pc \in {"fill", "sync", "close", "rename", "undo"} => tmp # NoFile

\* Where in the member each phase of writeFile stands.
InFile ==
  /\ IF extract
     THEN /\ tmp.name \in Headers(N) /\ tmp.need = member[tmp.name].size
          /\ got = tmp.name + tmp.len
     ELSE tmp.name = 0 /\ tmp.need = N /\ got = tmp.len
  /\ tmp.len <= tmp.need

PosInv ==
  /\ pc = "mkdir" => extract /\ got = 0
  /\ pc = "scan" => extract /\ got < N
  /\ pc = "open" => IF extract THEN got \in Headers(N) ELSE got = 0
  /\ pc \in {"fill", "sync", "close", "rename"} => InFile
  /\ pc \in {"sync", "close", "rename"} => tmp.len = tmp.need
  /\ pc \in {"close", "rename"} => tmp.synced

Names == {f.name : f \in disk}

\* The headers dealt with before the file in hand.
Dealt == IF pc = "open" THEN Headers(got - 1)
         ELSE IF pc \in {"mkdir", "scan"} THEN Headers(got)
         ELSE Headers(tmp.name - 1)

\* The files in place and the count, as long as nothing failed.
NamesInv ==
  /\ pc \notin {"undo", "ret", "dead"} =>
       /\ err = "none"
       /\ Names = IF extract THEN Dealt ELSE {}
       /\ count = Cardinality(IF extract THEN Dealt ELSE Headers(got))
  /\ pc = "undo" => err # "none" /\ (~extract => disk = {})

Inv == TypeOK /\ DiskInv /\ TmpInv /\ PosInv /\ NamesInv
              /\ OkMeansAll /\ FailedBundleIsGone

-----------------------------------------------------------------------------

\* The headers are finitely many, so their count is a number.
LEMMA HeadersFinite ==
  ASSUME NEW n \in Nat
  PROVE  IsFiniteSet(Headers(n)) /\ Cardinality(Headers(n)) \in Nat
<1>1. IsFiniteSet(1..n) BY FS_Interval
<1>2. Headers(n) \subseteq 1..n BY DEF Headers
<1> QED BY <1>1, <1>2, FS_Subset, FS_CardinalityType

\* Reading one token adds its position if it is a file header.
LEMMA HeadersStep ==
  ASSUME NEW n \in Nat
  PROVE  /\ member[n + 1].kind = "file" =>
              /\ Headers(n + 1) = Headers(n) \cup {n + 1}
              /\ Cardinality(Headers(n + 1)) = Cardinality(Headers(n)) + 1
         /\ member[n + 1].kind # "file" => Headers(n + 1) = Headers(n)
<1>1. member[n + 1].kind = "file" => Headers(n + 1) = Headers(n) \cup {n + 1}
  BY DEF Headers
<1>2. n + 1 \notin Headers(n) BY DEF Headers
<1>3. Cardinality(Headers(n) \cup {n + 1}) = Cardinality(Headers(n)) + 1
  BY <1>2, HeadersFinite, FS_AddElement
<1>4. member[n + 1].kind # "file" => Headers(n + 1) = Headers(n)
  BY DEF Headers
<1> QED BY <1>1, <1>3, <1>4

\* No header hides in the body of a file.
LEMMA HeadersBody ==
  ASSUME WellFormed(member), NEW h \in Headers(N)
  PROVE  /\ h \in 1..N /\ member[h].size \in Nat
         /\ h + member[h].size < N
         /\ Headers(h + member[h].size) = Headers(h)
<1>1. /\ h \in 1..N /\ member[h].kind = "file"
      /\ member \in Seq(Token) /\ N \in Nat
  BY DEF Headers, WellFormed, N
<1>2. member[h] \in Token /\ member[h].size \in Nat
  <2>1. member[h] \in Token BY <1>1 DEF N
  <2> QED BY <2>1 DEF Token
<1>3. /\ h + member[h].size < N
      /\ \A k \in 1..member[h].size : member[h + k].kind = "body"
  BY <1>1 DEF WellFormed, N
<1>4. ASSUME NEW j \in Headers(h + member[h].size)
      PROVE  j \in Headers(h)
  <2>1. j \in 1..(h + member[h].size) /\ member[j].kind = "file"
    BY DEF Headers
  <2>2. CASE j <= h BY <1>1, <1>2, <2>1, <2>2 DEF Headers
  <2>3. CASE j > h
    <3>1. j - h \in 1..member[h].size /\ h + (j - h) = j
      BY <1>1, <1>2, <2>1, <2>3
    <3> QED BY <1>3, <2>1, <3>1
  <2> QED BY <1>1, <1>2, <2>1, <2>2, <2>3
<1>5. Headers(h) \subseteq Headers(h + member[h].size)
  BY <1>1, <1>2 DEF Headers
<1> QED BY <1>1, <1>2, <1>3, <1>4, <1>5

\* What MembersAssumption says of the member in hand.
LEMMA MemberFacts ==
  ASSUME TypeOK
  PROVE  /\ WellFormed(member) /\ member \in Seq(Token)
         /\ N \in Nat \ {0}
         /\ \A j \in 1..N :
              member[j] \in Token /\ (member[j].kind = "crc" <=> j = N)
<1>1. WellFormed(member) BY MembersAssumption DEF TypeOK
<1>2. member \in Seq(Token) /\ member # <<>> BY <1>1 DEF WellFormed
<1>3. N \in Nat \ {0} BY <1>2 DEF N
<1>4. \A j \in 1..N : member[j] \in Token BY <1>2 DEF N
<1>5. \A j \in 1..N : member[j].kind = "crc" <=> j = N
  BY <1>1 DEF WellFormed, N
<1> QED BY <1>1, <1>2, <1>3, <1>4, <1>5

\* A Put starts with nothing read and nothing on disk.
LEMMA InvInit == StoreInit => Inv
<1> SUFFICES ASSUME StoreInit PROVE Inv OBVIOUS
<1>1. TypeOK
  BY MembersAssumption, MaxSizesAssumption
  DEF StoreInit, TypeOK, WellFormed, N
<1>2. Headers(0) = {} BY DEF Headers
<1>3. Cardinality(Headers(0)) = 0 BY <1>2, FS_EmptySet
<1>4. N \in Nat \ {0} BY <1>1, MemberFacts DEF N
<1> QED BY <1>1, <1>2, <1>3, <1>4
  DEF StoreInit, Inv, DiskInv, TmpInv, PosInv, NamesInv, Names, Dealt,
      OkMeansAll, FailedBundleIsGone

\* A step that keeps the member keeps its headers.
LEMMA HeadersSame ==
  ASSUME member' = member
  PROVE  /\ N' = N
         /\ \A n \in Nat : Headers(n)' = Headers(n)
BY DEF Headers, N

\* A step to the end of Put that failed.
LEMMA InvGiveUp ==
  ASSUME Inv, NEW why \in {"io", "cut", "toolarge"}, GiveUp("ret", why),
         tmp = NoFile, ~extract => disk = {}, got' \in 0..N
  PROVE  Inv'
<1> USE HeadersSame DEF GiveUp, Config
<1>1. TypeOK' BY DEF Inv, TypeOK, N
<1>2. DiskInv' /\ TmpInv' /\ PosInv' /\ NamesInv'
  BY DEF Inv, DiskInv, TmpInv, PosInv, NamesInv
<1>3. OkMeansAll' /\ FailedBundleIsGone'
  BY DEF OkMeansAll, FailedBundleIsGone
<1> QED BY <1>1, <1>2, <1>3 DEF Inv

\* A step that hands a failure to the deferred undo.
LEMMA InvGiveUpUndo ==
  ASSUME Inv, NEW why \in {"io", "cut", "toolarge"}, GiveUp("undo", why),
         pc \in {"fill", "sync", "close", "rename"}, got' \in 0..N
  PROVE  Inv'
<1> USE HeadersSame DEF GiveUp, Config
<1>1. TypeOK' BY DEF Inv, TypeOK, N
<1>2. DiskInv' /\ TmpInv' /\ PosInv'
  BY DEF Inv, DiskInv, TmpInv, PosInv
<1>3. ~extract => disk = {}
  BY DEF Inv, NamesInv, Names
<1>4. NamesInv' BY <1>3 DEF NamesInv
<1>5. OkMeansAll' /\ FailedBundleIsGone'
  BY DEF OkMeansAll, FailedBundleIsGone
<1> QED BY <1>1, <1>2, <1>4, <1>5 DEF Inv

\* dirStore.Put creates its directory.
LEMMA InvMakeDir == Inv /\ MakeDir => Inv'
<1> SUFFICES ASSUME Inv, MakeDir PROVE Inv' OBVIOUS
<1>1. CASE GiveUp("ret", "io") /\ UNCHANGED got
  BY <1>1, InvGiveUp DEF MakeDir, Inv, TmpInv, NamesInv, Names, TypeOK, N
<1>2. CASE /\ pc' = "scan"
           /\ UNCHANGED <<Config, budget, got, tmp, disk, count, err>>
  <2> USE <1>2, HeadersSame DEF MakeDir, Config
  <2>1. N \in Nat \ {0} BY MemberFacts DEF Inv, N
  <2>2. TypeOK' /\ DiskInv' /\ TmpInv'
    BY DEF Inv, TypeOK, DiskInv, TmpInv
  <2>3. PosInv' BY <2>1 DEF Inv, PosInv
  <2>4. got \in Nat /\ Headers(got)' = Headers(got)
    BY DEF Inv, TypeOK
  <2>5. NamesInv' BY <2>4 DEF Inv, NamesInv, Names, Dealt, PosInv
  <2>6. OkMeansAll' /\ FailedBundleIsGone'
    BY DEF OkMeansAll, FailedBundleIsGone
  <2> QED BY <2>2, <2>3, <2>5, <2>6 DEF Inv
<1> QED BY <1>1, <1>2 DEF MakeDir

\* The tar header of the next file opens it; the checked CRC ends the Put.
LEMMA InvScan == Inv /\ Scan => Inv'
<1> SUFFICES ASSUME Inv, Scan PROVE Inv' OBVIOUS
<1> USE HeadersSame DEF Scan, Config
<1>1. /\ extract /\ got \in Nat /\ got < N /\ N \in Nat /\ got + 1 \in 1..N
      /\ got' = got + 1 /\ err = "none" /\ tmp = NoFile
  BY MemberFacts DEF Inv, PosInv, TypeOK, N, NamesInv, TmpInv
<1>2. member[got + 1].kind = "crc" <=> got + 1 = N
  BY <1>1, MemberFacts DEF Inv, N
<1>3. TypeOK' /\ DiskInv' /\ TmpInv'
  BY <1>1 DEF Inv, TypeOK, DiskInv, TmpInv, N
<1>4. /\ Headers(got)' = Headers(got + 1) /\ Headers(got - 1)' = Headers(got)
      /\ Headers(N)' = Headers(N)
  BY <1>1
<1>5. PosInv'
  <2>1. pc' = "scan" => got + 1 < N BY <1>1, <1>2
  <2>2. pc' = "open" => got + 1 \in Headers(N) BY <1>1 DEF Headers
  <2> QED BY <1>1, <1>4, <2>1, <2>2 DEF PosInv
<1>6. Names = Headers(got) /\ count = Cardinality(Headers(got))
  BY <1>1 DEF Inv, NamesInv, Dealt
<1>7. Names' = Names BY DEF Names
<1>8. member[got + 1].kind # "file" => Headers(got + 1) = Headers(got)
  BY <1>1, HeadersStep
<1>9. NamesInv'
  <2>1. CASE pc' = "open"
    BY <1>1, <1>4, <1>6, <1>7, <2>1 DEF NamesInv, Dealt
  <2>2. CASE pc' = "scan"
    BY <1>1, <1>4, <1>6, <1>7, <1>8, <2>2 DEF NamesInv, Dealt
  <2>3. CASE pc' = "ret" BY <2>3 DEF NamesInv
  <2> QED BY <2>1, <2>2, <2>3
<1>10. OkMeansAll'
  <2> SUFFICES ASSUME pc' = "ret"
               PROVE  /\ got' = N /\ Names' = Headers(N)
                      /\ count' = Cardinality(Headers(N))
    BY <1>1, <1>4 DEF OkMeansAll, Wanted, Names, N
  <2>1. member[got + 1].kind = "crc" BY <1>1
  <2> QED BY <1>1, <1>2, <1>6, <1>7, <1>8, <2>1
<1>11. FailedBundleIsGone' BY <1>1 DEF FailedBundleIsGone
<1> QED BY <1>3, <1>5, <1>9, <1>10, <1>11 DEF Inv

\* writeFile opens its temp file, for the bundle or for the header just read.
LEMMA InvOpenTemp == Inv /\ OpenTemp => Inv'
<1> SUFFICES ASSUME Inv, OpenTemp PROVE Inv' OBVIOUS
<1>1. /\ pc = "open" /\ tmp = NoFile /\ err = "none" /\ got \in 0..N /\ N \in Nat
      /\ Names = (IF extract THEN Headers(got - 1) ELSE {})
      /\ count = Cardinality(IF extract THEN Headers(got - 1) ELSE Headers(got))
      /\ ~extract => got = 0 /\ disk = {}
      /\ extract => got \in Headers(N) /\ got \in Nat \ {0} /\ member[got].size \in Nat
  <2>1. WellFormed(member) /\ N \in Nat BY MemberFacts DEF Inv, N
  <2>2. /\ pc = "open" /\ tmp = NoFile /\ err = "none" /\ got \in 0..N
        /\ IF extract THEN got \in Headers(N) ELSE got = 0
    BY DEF OpenTemp, Inv, TypeOK, TmpInv, PosInv, NamesInv, N
  <2>3. /\ Names = (IF extract THEN Headers(got - 1) ELSE {})
        /\ count = Cardinality(IF extract THEN Headers(got - 1) ELSE Headers(got))
    BY <2>2 DEF Inv, NamesInv, Dealt
  <2>4. ~extract => disk = {} BY <2>3 DEF Names
  <2>5. extract => got \in Nat \ {0} /\ member[got].size \in Nat
    BY <2>1, <2>2, HeadersBody DEF N
  <2> QED BY <2>1, <2>2, <2>3, <2>4, <2>5
<1>2. CASE GiveUp("ret", "io") /\ UNCHANGED got
  BY <1>1, <1>2, InvGiveUp
<1>3. CASE ~(GiveUp("ret", "io") /\ UNCHANGED got)
  <2> USE HeadersSame DEF Config
  <2>1. /\ tmp' = [name   |-> IF extract THEN got ELSE 0, len |-> 0,
                   need   |-> IF extract THEN member[got].size ELSE N,
                   synced |-> FALSE]
        /\ (pc' = "fill" /\ UNCHANGED err) \/ (pc' = "undo" /\ err' = "io")
        /\ UNCHANGED <<Config, budget, got, disk, count>>
    BY <1>3 DEF OpenTemp
  <2>2. tmp' \in File /\ tmp' # NoFile
    <3>1. (IF extract THEN got ELSE 0) \in Nat BY <1>1
    <3>2. (IF extract THEN member[got].size ELSE N) \in Nat
      BY <1>1 DEF N
    <3>3. tmp' \in File BY <2>1, <3>1, <3>2 DEF File
    <3> QED BY <3>3, NoFileAssumption
  <2>3. TypeOK' /\ DiskInv' /\ TmpInv'
    BY <2>1, <2>2 DEF Inv, TypeOK, DiskInv, TmpInv
  <2>4. PosInv' BY <1>1, <2>1 DEF PosInv, InFile, N
  <2>5. NamesInv'
    <3>1. CASE extract
      <4>1. Headers(tmp.name - 1)' = Headers(got - 1)
        BY <1>1, <2>1, <3>1
      <4> QED BY <1>1, <2>1, <3>1, <4>1 DEF NamesInv, Names, Dealt
    <3>2. CASE ~extract
      <4>1. Headers(got)' = Headers(got) BY <1>1, <2>1
      <4> QED BY <1>1, <2>1, <3>2, <4>1 DEF NamesInv, Names, Dealt
    <3> QED BY <3>1, <3>2
  <2>6. OkMeansAll' /\ FailedBundleIsGone'
    BY <2>1 DEF OkMeansAll, FailedBundleIsGone
  <2> QED BY <2>3, <2>4, <2>5, <2>6 DEF Inv
<1> QED BY <1>2, <1>3

\* What holds while a chunk is being written.
LEMMA FillFacts ==
  ASSUME Inv, pc \in {"fill", "sync", "close", "rename"}
  PROVE  /\ got \in Nat /\ N \in Nat /\ got <= N /\ InFile /\ err = "none"
         /\ tmp \in File /\ tmp.name \in Nat /\ tmp.len \in Nat
         /\ tmp.need \in Nat /\ tmp.len <= tmp.need
         /\ tmp.len < tmp.need => got + 1 \in 0..N
         /\ extract => /\ tmp.name \in Headers(N) /\ tmp.name \in 1..N
                       /\ tmp.name + tmp.need < N
         /\ ~extract => tmp.name = 0 /\ disk = {}
<1>1. /\ got \in Nat /\ N \in Nat /\ got <= N /\ tmp \in File /\ InFile
      /\ err = "none"
  BY MemberFacts, NoFileAssumption DEF Inv, TypeOK, PosInv, NamesInv, N
<1>2. /\ tmp.name \in Nat /\ tmp.len \in Nat /\ tmp.need \in Nat
      /\ tmp.len <= tmp.need
  BY <1>1 DEF File, InFile
<1>3. extract => /\ tmp.name \in Headers(N) /\ tmp.name \in 1..N
                 /\ tmp.name + tmp.need < N
  BY <1>1, HeadersBody, MemberFacts DEF InFile, N, Inv
<1>4. ~extract => tmp.name = 0 /\ disk = {}
  BY <1>1 DEF InFile, Inv, NamesInv, Names
<1>5. tmp.len < tmp.need => got + 1 \in 0..N
  BY <1>1, <1>2, <1>3 DEF InFile
<1> QED BY <1>1, <1>2, <1>3, <1>4, <1>5

\* A chunk goes through the limiter to the temp file.
LEMMA InvFill == Inv /\ Fill => Inv'
<1> SUFFICES ASSUME Inv, Fill PROVE Inv' OBVIOUS
<1> USE HeadersSame DEF Fill, Config
<1>1. /\ got \in Nat /\ N \in Nat /\ InFile /\ err = "none"
      /\ tmp \in File /\ tmp.name \in Nat /\ tmp.len \in Nat /\ tmp.need \in Nat
      /\ got + 1 \in 0..N
      /\ extract => tmp.name \in Headers(N) /\ tmp.name \in 1..N
      /\ ~extract => tmp.name = 0
  BY FillFacts
<1>2. /\ tmp' \in File /\ tmp' # NoFile /\ tmp'.name = tmp.name
      /\ tmp'.need = tmp.need /\ tmp'.len = tmp.len + 1
      /\ tmp'.synced = tmp.synced
  BY <1>1, NoFileAssumption DEF File
<1>3. TypeOK'
  <2>1. budget' \in Nat
    BY MaxSizesAssumption DEF OverBudget, Charge, Inv, TypeOK
  <2>2. count' \in Nat BY DEF Inv, TypeOK
  <2> QED BY <1>1, <1>2, <2>1, <2>2 DEF Inv, TypeOK, N
<1>4. DiskInv' /\ TmpInv' BY <1>2 DEF Inv, DiskInv, TmpInv
<1>5. PosInv'
  <2>1. Headers(N)' = Headers(N) BY <1>1
  <2>2. tmp.len + 1 <= tmp.need BY <1>1
  <2>3. InFile'
    <3>1. CASE extract BY <1>1, <1>2, <2>1, <2>2, <3>1 DEF InFile
    <3>2. CASE ~extract BY <1>1, <1>2, <2>2, <3>2 DEF InFile
    <3> QED BY <3>1, <3>2
  <2> QED BY <2>3 DEF PosInv
<1>6. NamesInv'
  <2>1. CASE extract
    <3>1. Headers(tmp.name - 1)' = Headers(tmp.name - 1)
      BY <1>1, <1>2, <2>1
    <3> QED BY <1>1, <2>1, <3>1 DEF Inv, NamesInv, Names, Dealt
  <2>2. CASE ~extract
    <3>1. Headers(got)' = Headers(got + 1) BY <1>1
    <3>2. count = Cardinality(Headers(got)) /\ Names = {}
      BY <2>2 DEF Inv, NamesInv
    <3>3. count' = Cardinality(Headers(got + 1))
      BY <1>1, <2>2, <3>2, HeadersStep
    <3> QED BY <1>1, <2>2, <3>1, <3>2, <3>3 DEF NamesInv, Names
  <2> QED BY <2>1, <2>2
<1>7. OkMeansAll' /\ FailedBundleIsGone'
  BY DEF OkMeansAll, FailedBundleIsGone
<1> QED BY <1>3, <1>4, <1>5, <1>6, <1>7 DEF Inv

\* A chunk that the limiter or the disk refuses.
LEMMA InvFillError == Inv /\ FillError => Inv'
<1> SUFFICES ASSUME Inv, FillError PROVE Inv' OBVIOUS
<1>1. got' \in 0..N BY FillFacts DEF FillError
<1> QED BY <1>1, InvGiveUpUndo DEF FillError

\* The reader ends before the member does.
LEMMA InvCut == Inv /\ Cut => Inv'
<1> SUFFICES ASSUME Inv, Cut PROVE Inv' OBVIOUS
<1>1. got' \in 0..N /\ got' = got BY DEF Cut, Inv, TypeOK, N
<1>2. CASE pc = "fill" /\ GiveUp("undo", "cut")
  BY <1>1, <1>2, InvGiveUpUndo
<1>3. CASE pc = "scan" /\ GiveUp("ret", "cut")
  BY <1>1, <1>3, InvGiveUp DEF Inv, PosInv, TmpInv
<1> QED BY <1>2, <1>3 DEF Cut

\* The steps from the last chunk to the rename keep the file and its place.
LEMMA InvFinishing ==
  ASSUME Inv, pc \in {"fill", "sync", "close"}, tmp.len = tmp.need,
         pc' \in {"sync", "close", "rename"},
         tmp' \in File, tmp'.name = tmp.name, tmp'.len = tmp.len,
         tmp'.need = tmp.need, pc' \in {"close", "rename"} => tmp'.synced,
         UNCHANGED <<Config, budget, got, disk, count, err>>
  PROVE  Inv'
<1> USE HeadersSame DEF Config
<1>1. /\ got \in Nat /\ N \in Nat /\ InFile /\ err = "none" /\ tmp.name \in Nat
      /\ tmp.len \in Nat /\ tmp.need \in Nat
      /\ extract => tmp.name \in Headers(N) /\ tmp.name \in 1..N
  BY FillFacts
<1>2. tmp' # NoFile BY NoFileAssumption
<1>3. TypeOK' BY <1>2 DEF Inv, TypeOK
<1>4. DiskInv' /\ TmpInv' BY <1>2 DEF Inv, DiskInv, TmpInv
<1>5. InFile'
  <2>1. CASE extract BY <1>1, <2>1 DEF InFile
  <2>2. CASE ~extract BY <1>1, <2>2 DEF InFile
  <2> QED BY <2>1, <2>2
<1>6. PosInv' BY <1>5 DEF PosInv
<1>7. NamesInv'
  <2>1. Headers(got)' = Headers(got) BY <1>1
  <2>2. CASE extract
    <3>1. Headers(tmp.name - 1)' = Headers(tmp.name - 1) BY <1>1, <2>2
    <3> QED BY <1>1, <2>2, <3>1 DEF Inv, NamesInv, Names, Dealt
  <2>3. CASE ~extract
    BY <1>1, <2>1, <2>3 DEF Inv, NamesInv, Names
  <2> QED BY <2>2, <2>3
<1>8. OkMeansAll' /\ FailedBundleIsGone'
  BY DEF OkMeansAll, FailedBundleIsGone
<1> QED BY <1>3, <1>4, <1>6, <1>7, <1>8 DEF Inv

\* The last chunk of the file is written.
LEMMA InvFillEnd == Inv /\ FillEnd => Inv'
BY FillFacts, InvFinishing DEF FillEnd, Config

\* fsync of the temp file.
LEMMA InvSync == Inv /\ Sync => Inv'
<1> SUFFICES ASSUME Inv, Sync PROVE Inv' OBVIOUS
<1>1. got \in 0..N /\ tmp \in File /\ tmp.len = tmp.need
  BY FillFacts DEF Sync, Inv, TypeOK, PosInv, N
<1>2. CASE GiveUp("undo", "io") /\ UNCHANGED got
  BY <1>1, <1>2, InvGiveUpUndo DEF Sync
<1>3. CASE /\ tmp' = [tmp EXCEPT !.synced = TRUE] /\ pc' = "close"
           /\ UNCHANGED <<Config, budget, got, disk, count, err>>
  <2>1. /\ tmp' \in File /\ tmp'.name = tmp.name /\ tmp'.len = tmp.len
        /\ tmp'.need = tmp.need /\ tmp'.synced
    BY <1>1, <1>3 DEF File
  <2> QED BY <1>1, <1>3, <2>1, InvFinishing DEF Sync
<1> QED BY <1>2, <1>3 DEF Sync

\* close of the temp file.
LEMMA InvClose == Inv /\ Close => Inv'
<1> SUFFICES ASSUME Inv, Close PROVE Inv' OBVIOUS
<1>1. /\ got \in 0..N /\ tmp \in File /\ tmp.len = tmp.need /\ tmp.synced
  BY FillFacts DEF Close, Inv, TypeOK, PosInv, N
<1>2. CASE GiveUp("undo", "io") /\ UNCHANGED got
  BY <1>1, <1>2, InvGiveUpUndo DEF Close
<1>3. CASE /\ pc' = "rename"
           /\ UNCHANGED <<Config, budget, got, tmp, disk, count, err>>
  BY <1>1, <1>3, InvFinishing DEF Close
<1> QED BY <1>2, <1>3 DEF Close

\* The file appears whole; for a bundle this ends the Put, for --extract the
\* loop goes on behind the file's body.
LEMMA InvRename == Inv /\ Rename => Inv'
<1> SUFFICES ASSUME Inv, Rename PROVE Inv' OBVIOUS
<1>1. /\ pc = "rename" /\ tmp.len = tmp.need /\ tmp.synced
      /\ got \in 0..N /\ got \in Nat /\ N \in Nat \ {0} /\ InFile
      /\ err = "none" /\ tmp \in File /\ tmp # NoFile
      /\ extract => tmp.name \in Headers(N) /\ tmp.name \in 1..N
      /\ ~extract => tmp.name = 0 /\ disk = {}
  BY FillFacts, MemberFacts DEF Rename, Inv, TypeOK, PosInv, TmpInv, N
<1>2. CASE GiveUp("undo", "io") /\ UNCHANGED got
  BY <1>1, <1>2, InvGiveUpUndo
<1>3. CASE /\ disk' = {f \in disk : f.name # tmp.name} \cup {tmp}
           /\ tmp' = NoFile
           /\ count' = (IF extract THEN count + 1 ELSE count)
           /\ pc' = (IF extract THEN "scan" ELSE "ret")
           /\ UNCHANGED <<Config, budget, got, err>>
  <2> USE <1>3, HeadersSame DEF Config
  <2>1. TypeOK' BY <1>1 DEF Inv, TypeOK
  <2>2. DiskInv' /\ TmpInv' BY <1>1 DEF Inv, DiskInv, TmpInv
  <2>3. CASE extract
    <3>1. /\ tmp.name \in Headers(N) /\ WellFormed(member)
          /\ got = tmp.name + member[tmp.name].size
      BY <1>1, <2>3, MemberFacts DEF InFile, Inv, N
    <3>2. got < N /\ Headers(got) = Headers(tmp.name)
      BY <3>1, HeadersBody DEF N
    <3>3. PosInv' BY <2>3, <3>2 DEF PosInv
    <3>4. Names = Headers(tmp.name - 1) /\ count = Cardinality(Names)
      BY <1>1, <2>3 DEF Inv, NamesInv, Dealt
    <3>5. Names' = Names \cup {tmp.name} BY DEF Names
    <3>6. /\ Headers(tmp.name) = Headers(tmp.name - 1) \cup {tmp.name}
          /\ Cardinality(Headers(tmp.name))
               = Cardinality(Headers(tmp.name - 1)) + 1
      <4>1. tmp.name - 1 \in Nat /\ (tmp.name - 1) + 1 = tmp.name
        BY <1>1, <2>3
      <4>2. member[tmp.name].kind = "file" BY <1>1, <2>3 DEF Headers
      <4> QED BY <4>1, <4>2, HeadersStep
    <3>7. Headers(got)' = Headers(got) BY <1>1
    <3>8. NamesInv'
      BY <1>1, <2>3, <3>2, <3>4, <3>5, <3>6, <3>7 DEF NamesInv, Dealt
    <3>9. OkMeansAll' /\ FailedBundleIsGone'
      BY <2>3 DEF OkMeansAll, FailedBundleIsGone
    <3> QED BY <2>1, <2>2, <3>3, <3>8, <3>9 DEF Inv
  <2>4. CASE ~extract
    <3>1. PosInv' /\ NamesInv' BY <2>4 DEF PosInv, NamesInv
    <3>2. got = N /\ count = Cardinality(Headers(got))
      BY <1>1, <2>4 DEF InFile, Inv, NamesInv
    <3>3. Names' = {0} BY <1>1, <2>4 DEF Names
    <3>4. Headers(N)' = Headers(N) BY <1>1
    <3>5. OkMeansAll'
      BY <2>4, <3>2, <3>3, <3>4 DEF OkMeansAll, Wanted, Names, N
    <3>6. FailedBundleIsGone' BY <1>1 DEF FailedBundleIsGone
    <3> QED BY <2>1, <2>2, <3>1, <3>5, <3>6 DEF Inv
  <2> QED BY <2>3, <2>4
<1> QED BY <1>2, <1>3 DEF Rename

\* The deferred removal of the temp file.
LEMMA InvUndo == Inv /\ Undo => Inv'
<1> SUFFICES ASSUME Inv, Undo PROVE Inv' OBVIOUS
<1> USE HeadersSame DEF Undo, Config
<1>1. TypeOK' BY DEF Inv, TypeOK
<1>2. DiskInv' /\ TmpInv' /\ PosInv' /\ NamesInv'
  BY DEF Inv, DiskInv, TmpInv, PosInv, NamesInv
<1>3. OkMeansAll' /\ FailedBundleIsGone'
  BY DEF Inv, NamesInv, OkMeansAll, FailedBundleIsGone
<1> QED BY <1>1, <1>2, <1>3 DEF Inv

\* A process or a machine that dies: only the files in place matter now.
LEMMA InvDies ==
  ASSUME Inv, pc' = "dead", disk' \in SUBSET disk,
         UNCHANGED <<Config, budget, got, tmp, count, err>>
  PROVE  Inv'
<1>1. TypeOK' BY DEF Inv, TypeOK, Config, N
<1>2. DiskInv' BY DEF Inv, DiskInv
<1>3. TmpInv' /\ PosInv' /\ NamesInv' /\ OkMeansAll' /\ FailedBundleIsGone'
  BY DEF TmpInv, PosInv, NamesInv, OkMeansAll, FailedBundleIsGone
<1> QED BY <1>1, <1>2, <1>3 DEF Inv

\* Whatever the machine loses, it loses whole files: all of disk is synced.
LEMMA LossIsWhole ==
  ASSUME Inv, PowerLoss
  PROVE  disk' \in SUBSET disk
BY DEF PowerLoss, Inv, DiskInv

\* Every step of Put, and every death of its process, keeps the invariant.
LEMMA InvNext == Inv /\ [StoreNext]_storeVars => Inv'
<1> SUFFICES ASSUME Inv, [StoreNext]_storeVars PROVE Inv' OBVIOUS
<1>1. CASE StoreStep
  BY <1>1, InvMakeDir, InvScan, InvOpenTemp, InvFill, InvFillError, InvFillEnd,
     InvCut, InvSync, InvClose, InvRename, InvUndo DEF StoreStep
<1>2. CASE Crash BY <1>2, InvDies DEF Crash
<1>3. CASE PowerLoss BY <1>3, LossIsWhole, InvDies DEF PowerLoss
<1>4. CASE UNCHANGED storeVars
  <2> USE <1>4, HeadersSame DEF storeVars
  <2>1. TypeOK' /\ DiskInv' /\ TmpInv' BY DEF Inv, TypeOK, DiskInv, TmpInv
  <2>2. PosInv'
    <3>1. N \in Nat /\ Headers(N)' = Headers(N) BY MemberFacts DEF Inv, N
    <3> QED BY <3>1 DEF Inv, PosInv, InFile
  <2>3. NamesInv' BY DEF Inv, NamesInv, Names, Dealt, Headers
  <2>4. OkMeansAll' /\ FailedBundleIsGone'
    BY DEF Inv, OkMeansAll, FailedBundleIsGone, Wanted, Headers
  <2> QED BY <2>1, <2>2, <2>3, <2>4 DEF Inv
<1> QED BY <1>1, <1>2, <1>3, <1>4 DEF StoreNext, Returned

-----------------------------------------------------------------------------
\* The limiter's budget is what --max-size leaves besides the blocks on disk.

SizeInv ==
  /\ IsFiniteSet(Blocks)
  /\ maxSize # 0 => Cardinality(Blocks) + TmpBlocks + budget <= maxSize

\* A file has as many blocks as it is long.
LEMMA FileBlocks ==
  ASSUME NEW f, NEW n \in Nat
  PROVE  IsFiniteSet({f} \X (1..n)) /\ Cardinality({f} \X (1..n)) = n
<1>1. IsFiniteSet({f}) /\ Cardinality({f}) = 1
  <2>1. {f} = {} \cup {f} OBVIOUS
  <2> QED BY <2>1, FS_EmptySet, FS_AddElement
<1>2. IsFiniteSet(1..n) /\ Cardinality(1..n) = n BY FS_Interval
<1>3. /\ IsFiniteSet({f} \X (1..n))
      /\ Cardinality({f} \X (1..n)) = Cardinality({f}) * Cardinality(1..n)
  BY <1>1, <1>2, FS_Product
<1> QED BY <1>1, <1>2, <1>3

\* What counts towards the size.
LEMMA BlocksCounted ==
  ASSUME IsFiniteSet(Blocks)
  PROVE  Cardinality(Blocks) \in Nat
BY FS_CardinalityType

\* A step that adds no block and spends no budget it does not use.
LEMMA SizeKept ==
  ASSUME Inv, Inv', SizeInv, UNCHANGED maxSize, Blocks' \subseteq Blocks, budget' = budget,
         TmpBlocks' <= TmpBlocks
  PROVE  SizeInv'
<1>1. IsFiniteSet(Blocks') /\ Cardinality(Blocks') <= Cardinality(Blocks)
  BY FS_Subset DEF SizeInv
<1>2. Cardinality(Blocks) \in Nat /\ Cardinality(Blocks') \in Nat
  BY <1>1, FS_CardinalityType DEF SizeInv
<1>3. /\ TmpBlocks \in Nat /\ TmpBlocks' \in Nat /\ budget \in Nat
      /\ maxSize \in Nat /\ maxSize' = maxSize
  BY MaxSizesAssumption DEF TmpBlocks, Inv, TypeOK, File
<1>4. IsFiniteSet(Blocks)' BY <1>1
<1>5. Cardinality(Blocks)' = Cardinality(Blocks') OBVIOUS
<1> QED BY <1>1, <1>2, <1>3, <1>4, <1>5 DEF SizeInv

LEMMA SameBlocks ==
  ASSUME disk' = disk
  PROVE  Blocks' = Blocks
BY DEF Blocks

LEMMA SameTmpBlocks ==
  ASSUME TypeOK, tmp' = tmp \/ tmp' = NoFile
  PROVE  TmpBlocks' <= TmpBlocks
BY DEF TmpBlocks, TypeOK, File

LEMMA SizeGiveUp ==
  ASSUME Inv, Inv', SizeInv, NEW at, NEW why, GiveUp(at, why)
  PROVE  SizeInv'
BY SizeKept, SameBlocks, SameTmpBlocks DEF GiveUp, Config, Inv

\* A chunk takes from the budget what it adds to the temp file.
LEMMA SizeFill == Inv /\ Inv' /\ SizeInv /\ Fill => SizeInv'
<1> SUFFICES ASSUME Inv, Inv', SizeInv, Fill PROVE SizeInv' OBVIOUS
<1>1. Blocks' = Blocks /\ maxSize' = maxSize BY SameBlocks DEF Fill, Config
<1>2. tmp \in File /\ tmp # NoFile /\ tmp.len \in Nat
  BY NoFileAssumption, FillFacts DEF Fill
<1>3. tmp' \in File /\ tmp'.len = tmp.len + 1 /\ tmp' # NoFile
  BY <1>2, NoFileAssumption DEF Fill, File
<1>4. TmpBlocks = tmp.len /\ TmpBlocks' = tmp.len + 1 BY <1>2, <1>3 DEF TmpBlocks
<1>5. maxSize # 0 => budget # 0 /\ budget' = budget - 1
  BY DEF Fill, OverBudget, Charge
<1>6. budget \in Nat /\ maxSize \in Nat /\ Cardinality(Blocks) \in Nat
  BY MaxSizesAssumption, FS_CardinalityType DEF SizeInv, Inv, TypeOK
<1>7. maxSize # 0 => Cardinality(Blocks) + TmpBlocks' + budget' <= maxSize
  BY <1>2, <1>4, <1>5, <1>6 DEF SizeInv
<1>8. IsFiniteSet(Blocks)' /\ Cardinality(Blocks)' = Cardinality(Blocks)
  BY <1>1 DEF SizeInv
<1> QED BY <1>1, <1>7, <1>8 DEF SizeInv

\* The rename turns the temp file's blocks into the file's.
LEMMA SizeRename == Inv /\ Inv' /\ SizeInv /\ Rename => SizeInv'
<1> SUFFICES ASSUME Inv, Inv', SizeInv, Rename PROVE SizeInv' OBVIOUS
<1>1. CASE GiveUp("undo", "io") BY <1>1, SizeGiveUp
<1>2. CASE /\ disk' = {f \in disk : f.name # tmp.name} \cup {tmp}
           /\ tmp' = NoFile /\ UNCHANGED <<Config, budget>>
  <2> DEFINE T == {tmp} \X (1..tmp.len)
  <2>1. tmp \in File /\ tmp # NoFile /\ tmp.len \in Nat
    BY NoFileAssumption, FillFacts DEF Rename
  <2>2. Blocks' \subseteq Blocks \cup T BY <1>2 DEF Blocks
  <2>3. IsFiniteSet(T) /\ Cardinality(T) = tmp.len BY <2>1, FileBlocks
  <2> HIDE DEF T
  <2>4. /\ IsFiniteSet(Blocks) /\ IsFiniteSet(Blocks \cup T) /\ IsFiniteSet(Blocks \cap T)
        /\ Cardinality(Blocks \cup T)
             = Cardinality(Blocks) + Cardinality(T) - Cardinality(Blocks \cap T)
    BY <2>3, FS_Union, FS_Subset DEF SizeInv
  <2>5. IsFiniteSet(Blocks') /\ Cardinality(Blocks') <= Cardinality(Blocks \cup T)
    BY <2>2, <2>4, FS_Subset
  <2>6. /\ Cardinality(Blocks) \in Nat /\ Cardinality(Blocks \cap T) \in Nat
        /\ Cardinality(Blocks') \in Nat /\ Cardinality(Blocks \cup T) \in Nat
    BY <2>4, <2>5, FS_CardinalityType
  <2>7. Cardinality(Blocks') <= Cardinality(Blocks) + tmp.len
    BY <2>1, <2>3, <2>4, <2>5, <2>6
  <2>8. TmpBlocks = tmp.len /\ TmpBlocks' = 0 BY <1>2, <2>1 DEF TmpBlocks
  <2>9. budget' = budget /\ budget \in Nat /\ maxSize' = maxSize /\ maxSize \in Nat
    BY <1>2, MaxSizesAssumption DEF Config, Inv, TypeOK
  <2>10. maxSize # 0 => Cardinality(Blocks') + TmpBlocks' + budget' <= maxSize
    BY <2>1, <2>6, <2>7, <2>8, <2>9 DEF SizeInv
  <2>11. IsFiniteSet(Blocks)' /\ Cardinality(Blocks)' = Cardinality(Blocks')
    BY <2>5
  <2> QED BY <2>9, <2>10, <2>11 DEF SizeInv
<1> QED BY <1>1, <1>2 DEF Rename

\* No step of Put, and no death of its process, goes over --max-size.
LEMMA SizeNext == Inv /\ Inv' /\ SizeInv /\ [StoreNext]_storeVars => SizeInv'
<1> SUFFICES ASSUME Inv, Inv', SizeInv, [StoreNext]_storeVars PROVE SizeInv' OBVIOUS
<1>1. CASE MakeDir \/ Scan \/ FillEnd \/ Undo
  <2>1. maxSize' = maxSize /\ disk' = disk /\ budget' = budget /\ (tmp' = tmp \/ tmp' = NoFile)
    BY <1>1 DEF MakeDir, Scan, FillEnd, Undo, GiveUp, Config
  <2> QED BY <2>1, SizeKept, SameBlocks, SameTmpBlocks DEF Inv
<1>2. CASE OpenTemp
  <2>1. CASE GiveUp("ret", "io") BY <2>1, SizeGiveUp
  <2>2. CASE ~GiveUp("ret", "io")
    <3>1. maxSize' = maxSize /\ disk' = disk /\ budget' = budget /\ tmp'.len = 0
      BY <1>2, <2>2 DEF OpenTemp, Config
    <3>2. TmpBlocks' = 0 /\ TmpBlocks \in Nat
      BY <3>1 DEF TmpBlocks, Inv, TypeOK, File
    <3> QED BY <3>1, <3>2, SizeKept, SameBlocks
  <2> QED BY <2>1, <2>2
<1>3. CASE FillError \/ Cut
  BY <1>3, SizeGiveUp DEF FillError, Cut
<1>4. CASE Sync
  <2>1. CASE GiveUp("undo", "io") BY <2>1, SizeGiveUp
  <2>2. CASE tmp' = [tmp EXCEPT !.synced = TRUE] /\ UNCHANGED <<Config, budget, disk>>
    <3>1. tmp \in File /\ tmp # NoFile BY <1>4, NoFileAssumption, FillFacts DEF Sync
    <3>2. tmp'.len = tmp.len /\ tmp' # NoFile /\ tmp.len \in Nat
      BY <2>2, <3>1, NoFileAssumption DEF File
    <3>3. TmpBlocks' <= TmpBlocks BY <3>1, <3>2 DEF TmpBlocks
    <3>4. maxSize' = maxSize /\ budget' = budget /\ disk' = disk BY <2>2 DEF Config
    <3> QED BY <3>3, <3>4, SizeKept, SameBlocks
  <2> QED BY <1>4, <2>1, <2>2 DEF Sync
<1>5. CASE Close
  <2>1. CASE GiveUp("undo", "io") BY <2>1, SizeGiveUp
  <2>2. CASE UNCHANGED <<Config, budget, tmp, disk>>
    BY <2>2, SizeKept, SameBlocks, SameTmpBlocks DEF Inv, Config
  <2> QED BY <1>5, <2>1, <2>2 DEF Close
<1>6. CASE Fill BY <1>6, SizeFill
<1>7. CASE Rename BY <1>7, SizeRename
<1>8. CASE Crash \/ PowerLoss
  <2>1. disk' \in SUBSET disk BY <1>8, LossIsWhole DEF Crash
  <2>2. Blocks' \subseteq Blocks BY <2>1 DEF Blocks
  <2>3. maxSize' = maxSize /\ budget' = budget /\ tmp' = tmp
    BY <1>8 DEF Crash, PowerLoss, Config
  <2> QED BY <2>2, <2>3, SizeKept, SameTmpBlocks DEF Inv
<1>9. CASE UNCHANGED storeVars
  BY <1>9, SizeKept, SameBlocks, SameTmpBlocks DEF Inv, storeVars
<1> QED BY <1>1, <1>2, <1>3, <1>4, <1>5, <1>6, <1>7, <1>8, <1>9
        DEF StoreNext, StoreStep, Returned

-----------------------------------------------------------------------------
\* The refinement of AtomicPut: what is visible of disk.

Visible == {<<f.name, f.len = f.need>> : f \in disk}

\* Only the result and the directory matter to the abstract state.
LEMMA Frame ==
  ASSUME UNCHANGED Config
  PROVE  /\ Wanted' = Wanted
         /\ (~extract)' = ~extract
         /\ UNCHANGED disk => Visible' = Visible
BY DEF Config, Wanted, Headers, Visible, N

\* All that is visible is whole, before and after a step.
LEMMA VisibleIsWhole ==
  /\ Inv => Visible = {<<n, TRUE>> : n \in Names}
  /\ Inv' => Visible' = {<<n, TRUE>> : n \in Names'}
<1>1. ASSUME Inv PROVE Visible = {<<n, TRUE>> : n \in Names}
  <2>1. \A f \in disk : (f.len = f.need) = TRUE BY <1>1 DEF Inv, DiskInv
  <2>2. Visible = {<<f.name, TRUE>> : f \in disk} BY <2>1 DEF Visible
  <2> QED BY <2>2 DEF Names
<1>2. ASSUME Inv' PROVE Visible' = {<<n, TRUE>> : n \in Names'}
  <2>1. \A f \in disk' : (f.len = f.need) = TRUE BY <1>2 DEF Inv, DiskInv
  <2>2. Visible' = {<<f.name, TRUE>> : f \in disk'} BY <2>1 DEF Visible
  <2> QED BY <2>2 DEF Names
<1> QED BY <1>1, <1>2

\* The step of a Put that goes on.
LEMMA BusyStutters ==
  ASSUME pc \notin {"ret", "dead"}, pc' \notin {"ret", "dead"},
         UNCHANGED <<Config, disk>>
  PROVE  UNCHANGED Promise!vars
BY Frame DEF Promise!vars, Result, Visible

\* The step that returns an error.
LEMMA FailureFails ==
  ASSUME Inv, pc \notin {"ret", "dead"}, pc' = "ret", err' # "none",
         UNCHANGED <<Config, disk>>, ~extract => disk = {}
  PROVE  Promise!Fail
BY Frame DEF Promise!Fail, Result, Visible

\* The death of the process or the machine.
LEMMA DeathHalts ==
  ASSUME pc # "dead", pc' = "dead", UNCHANGED Config, disk' \in SUBSET disk
  PROVE  Promise!Halt
<1>1. Visible' \in SUBSET Visible BY DEF Visible
<1> QED BY <1>1, Frame DEF Promise!Halt, Result, Visible

\* --extract is done when the CRC checks.
LEMMA ScanRefines == Inv /\ Inv' /\ Scan => [Promise!Next]_Promise!vars
<1> SUFFICES ASSUME Inv, Inv', Scan PROVE [Promise!Next]_Promise!vars OBVIOUS
<1>1. CASE pc' # "ret"
  BY <1>1, BusyStutters DEF Scan
<1>2. CASE pc' = "ret"
  <2>1. err' = "none" /\ err = "none" /\ Names' = Wanted' /\ Names' = Names
    BY <1>2 DEF Scan, Inv, NamesInv, OkMeansAll, Names
  <2>2. UNCHANGED Visible /\ Wanted' = Wanted BY Frame DEF Scan
  <2>3. Visible = Promise!Whole(Wanted)
    BY <2>1, <2>2, VisibleIsWhole DEF Promise!Whole
  <2> QED
    BY <1>2, <2>1, <2>2, <2>3, Frame
    DEF Scan, Promise!Next, Promise!Commit, Result, Visible
<1> QED BY <1>1, <1>2

\* The rename publishes the file.
LEMMA RenameRefines == Inv /\ Inv' /\ Rename => [Promise!Next]_Promise!vars
<1> SUFFICES ASSUME Inv, Inv', Rename PROVE [Promise!Next]_Promise!vars OBVIOUS
<1>1. CASE GiveUp("undo", "io")
  BY <1>1, BusyStutters DEF Rename, GiveUp
<1>2. CASE ~GiveUp("undo", "io")
  <2>1. /\ pc = "rename"
        /\ disk' = {f \in disk : f.name # tmp.name} \cup {tmp}
        /\ pc' = (IF extract THEN "scan" ELSE "ret")
        /\ UNCHANGED Config /\ err' = err
    BY <1>2 DEF Rename
  <2>2. /\ err = "none" /\ tmp.name \in Wanted /\ tmp.name \notin Names
    <3>1. CASE extract
      <4>1. tmp.name \in Headers(N) /\ tmp.name \in 1..N
        BY <2>1, <3>1, FillFacts
      <4>2. Names = Headers(tmp.name - 1) /\ err = "none"
        BY <2>1, <3>1 DEF Inv, NamesInv, Dealt
      <4> QED BY <3>1, <4>1, <4>2 DEF Wanted, Headers, N
    <3>2. CASE ~extract
      BY <2>1, <3>2, FillFacts DEF Wanted, Names
    <3> QED BY <3>1, <3>2
  <2>3. Names' = Names \cup {tmp.name} BY <2>1 DEF Names
  <2>4. /\ Visible' = Visible \cup {<<tmp.name, TRUE>>}
        /\ <<tmp.name, TRUE>> \notin Visible
    <3>1. /\ Visible = {<<n, TRUE>> : n \in Names}
          /\ Visible' = {<<n, TRUE>> : n \in Names'}
      BY VisibleIsWhole
    <3> QED BY <2>2, <2>3, <3>1
  <2>5. Promise!Publish
    BY <2>1, <2>2, <2>4, Frame DEF Promise!Publish, Result, Visible
  <2> QED BY <2>5 DEF Promise!Next
<1> QED BY <1>1, <1>2

\* Every step of Put is one of the abstract Put, or a stutter.
LEMMA StepRefines ==
  Inv /\ Inv' /\ [StoreNext]_storeVars => [Promise!Next]_Promise!vars
<1> SUFFICES ASSUME Inv, Inv', [StoreNext]_storeVars
             PROVE  [Promise!Next]_Promise!vars
  OBVIOUS
<1>1. ASSUME NEW why \in {"io", "cut", "toolarge"}, GiveUp("ret", why),
             pc \in {"mkdir", "scan", "open"}
      PROVE  Promise!Fail
  BY <1>1, FailureFails DEF GiveUp, Inv, PosInv, NamesInv, Names
<1>2. ASSUME NEW why, GiveUp("undo", why), pc \notin {"ret", "dead"}
      PROVE  UNCHANGED Promise!vars
  BY <1>2, BusyStutters DEF GiveUp
<1>3. CASE MakeDir
  BY <1>1, <1>3, BusyStutters DEF MakeDir, Promise!Next
<1>4. CASE OpenTemp
  BY <1>1, <1>4, BusyStutters DEF OpenTemp, Promise!Next
<1>5. CASE Fill \/ FillEnd BY <1>5, BusyStutters DEF Fill, FillEnd
<1>6. CASE FillError BY <1>2, <1>6 DEF FillError
<1>7. CASE Cut BY <1>1, <1>2, <1>7 DEF Cut, Promise!Next
<1>8. CASE Sync BY <1>2, <1>8, BusyStutters DEF Sync
<1>9. CASE Close BY <1>2, <1>9, BusyStutters DEF Close
<1>10. CASE Undo
  BY <1>10, FailureFails DEF Undo, Inv, NamesInv, Promise!Next
<1>11. CASE Crash BY <1>11, DeathHalts DEF Crash, Promise!Next
<1>12. CASE PowerLoss
  BY <1>12, LossIsWhole, DeathHalts DEF PowerLoss, Promise!Next
<1>13. CASE UNCHANGED storeVars
  BY <1>13, Frame DEF storeVars, Config, Promise!vars, Result, Visible
<1> QED
  BY <1>3, <1>4, <1>5, <1>6, <1>7, <1>8, <1>9, <1>10, <1>11, <1>12, <1>13,
     ScanRefines, RenameRefines DEF StoreNext, StoreStep, Returned

-----------------------------------------------------------------------------

\* The inductive invariant holds throughout.
THEOREM InvHolds == StoreSpec => []Inv
BY InvInit, InvNext, PTL DEF StoreSpec

\* writeFile's phases and the variables keep their types (archive.go:113-139).
THEOREM TypesHold == StoreSpec => []TypeOK
<1>1. Inv => TypeOK BY DEF Inv
<1> QED BY <1>1, InvHolds, PTL

\* No partial file at a real path, ever: every failure of archive.go's calls,
\* a killed process and a power loss included (archive.go:108-112).
THEOREM NoPartialFile == StoreSpec => []NeverPartial
<1>1. Inv => NeverPartial BY DEF Inv, DiskInv, NeverPartial
<1> QED BY <1>1, InvHolds, PTL

\* A Put that reports success persisted the whole member (archive.go:16-34).
THEOREM SuccessIsComplete == StoreSpec => []OkMeansAll
<1>1. Inv => OkMeansAll BY DEF Inv
<1> QED BY <1>1, InvHolds, PTL

\* A Put that failed leaves no file under the bundle's name (archive.go:20).
THEOREM FailureIsClean == StoreSpec => []FailedBundleIsGone
<1>1. Inv => FailedBundleIsGone BY DEF Inv
<1> QED BY <1>1, InvHolds, PTL

\* However a Put returns, its temp file is gone (archive.go:119-124).
THEOREM NoTempLeft == StoreSpec => []NoLitter
<1>1. Inv => NoLitter BY DEF Inv, TmpInv, NoLitter
<1> QED BY <1>1, InvHolds, PTL

\* A capture never puts more than --max-size on the local disk, whatever fails
\* and however many files it extracts (archive.go:29-33, 141-172).
THEOREM NeverOverSize == StoreSpec => []SizeCap
<1>1. StoreInit => SizeInv
  <2> SUFFICES ASSUME StoreInit PROVE SizeInv OBVIOUS
  <2>1. Blocks = {} /\ TmpBlocks = 0 /\ budget = maxSize /\ maxSize \in Nat
    BY MaxSizesAssumption DEF StoreInit, Blocks, TmpBlocks
  <2> QED BY <2>1, FS_EmptySet DEF SizeInv
<1>2. Inv /\ SizeInv => SizeCap
  <2> SUFFICES ASSUME Inv, SizeInv, maxSize # 0
               PROVE  Cardinality(Blocks) + TmpBlocks <= maxSize
    BY DEF SizeCap
  <2>1. Cardinality(Blocks) \in Nat BY BlocksCounted DEF SizeInv
  <2>2. TmpBlocks \in Nat /\ budget \in Nat /\ maxSize \in Nat
    BY MaxSizesAssumption DEF TmpBlocks, Inv, TypeOK, File
  <2> QED BY <2>1, <2>2 DEF SizeInv
<1> QED BY <1>1, <1>2, SizeNext, InvHolds, PTL DEF StoreSpec

\* Store implements AtomicPut: a Store keeps the promise its comments make.
THEOREM StoreKeepsPromise == StoreSpec => KeepsPromise
<1>1. StoreInit => Promise!Init
  BY DEF StoreInit, Promise!Init, Result
<1>2. Inv /\ Inv' /\ [StoreNext]_storeVars => [Promise!Next]_Promise!vars
  BY StepRefines
<1> QED BY <1>1, <1>2, InvHolds, PTL DEF StoreSpec, KeepsPromise, Promise!Spec

-----------------------------------------------------------------------------
\* A Put comes to an end: what is left of one file, and of the member.
Phase ==
  CASE pc = "open" -> 7 [] pc = "fill" -> 6 [] pc = "sync" -> 5 [] pc = "close" -> 4
    [] pc \in {"rename", "mkdir"} -> 3 [] pc = "scan" -> 2 [] pc = "undo" -> 1
    [] OTHER -> 0

PutLeft == IF pc \in {"ret", "dead"} THEN 0 ELSE 8 * (N - got) + Phase

\* It is a number, at most eight steps for each token, and seven.
LEMMA PutLeftBound ==
  ASSUME Inv
  PROVE  /\ Phase \in 0..7 /\ N \in Nat /\ got \in 0..N
         /\ PutLeft \in 0..(8 * N + 7)
<1>1. Phase \in 0..7 BY DEF Phase
<1>2. N \in Nat /\ got \in 0..N BY MemberFacts DEF Inv, TypeOK
<1> QED BY <1>1, <1>2 DEF PutLeft

\* A step that goes on within the file, or reads a token, or stops.
LEMMA PutLess ==
  ASSUME Inv, Inv', pc \notin {"ret", "dead"}, N' = N,
         \/ pc' \in {"ret", "dead"} /\ Phase > 0
         \/ got' = got /\ Phase' < Phase
         \/ got' = got + 1 /\ Phase' < Phase + 8
  PROVE  PutLeft' < PutLeft
<1>1. Phase \in 0..7 /\ Phase' \in 0..7 BY DEF Phase
<1>2. N \in Nat /\ got \in 0..N /\ got' \in Nat
  <2>1. TypeOK /\ TypeOK' BY DEF Inv
  <2>2. N \in Nat BY <2>1, MemberFacts
  <2> QED BY <2>1, <2>2 DEF TypeOK
<1>3. PutLeft = 8 * (N - got) + Phase BY DEF PutLeft
<1>4. CASE pc' \in {"ret", "dead"} /\ Phase > 0
  <2>1. PutLeft' = 0 BY <1>4 DEF PutLeft
  <2> QED BY <1>1, <1>2, <1>3, <1>4, <2>1
<1>5. CASE pc' \in {"ret", "dead"} /\ Phase = 0
  BY <1>5 DEF Phase, Inv, TypeOK
<1>6. CASE pc' \notin {"ret", "dead"}
  <2>1. PutLeft' = 8 * (N - got') + Phase' BY <1>6 DEF PutLeft
  <2>2. \/ got' = got /\ Phase' < Phase
        \/ got' = got + 1 /\ Phase' < Phase + 8
    BY <1>6
  <2> DEFINE p == Phase
             q == Phase'
             g == got'
  <2>3. /\ p \in 0..7 /\ q \in 0..7 /\ g \in Nat
        /\ PutLeft = 8 * (N - got) + p /\ PutLeft' = 8 * (N - g) + q
        /\ (g = got /\ q < p) \/ (g = got + 1 /\ q < p + 8)
    BY <1>1, <1>2, <1>3, <2>1, <2>2
  <2> HIDE DEF p, q, g
  <2>4. 8 * (N - g) + q < 8 * (N - got) + p BY <1>2, <2>3
  <2> QED BY <2>3, <2>4
<1> QED BY <1>1, <1>4, <1>5, <1>6

\* Each step of a Put brings its end nearer, failures and the end of the process
\* included.
LEMMA StepLess ==
  ASSUME Inv, Inv', pc \notin {"ret", "dead"}, StoreStep \/ Crash \/ PowerLoss
  PROVE  PutLeft' < PutLeft
<1>1. N' = N
  BY DEF N, Config, StoreStep, MakeDir, Scan, OpenTemp, Fill, FillError, FillEnd, Cut, Sync,
         Close, Rename, Undo, GiveUp, Crash, PowerLoss
<1>2. Phase > 0 BY DEF Phase, Inv, TypeOK
<1>3. ASSUME pc' \in {"ret", "dead"} PROVE PutLeft' < PutLeft BY <1>1, <1>2, <1>3, PutLess
<1>4. ASSUME got' = got, Phase' < Phase PROVE PutLeft' < PutLeft BY <1>1, <1>4, PutLess
<1>5. ASSUME got' = got + 1, Phase' < Phase + 8 PROVE PutLeft' < PutLeft
  BY <1>1, <1>5, PutLess
<1>6. CASE MakeDir BY <1>3, <1>4, <1>6 DEF MakeDir, GiveUp, Phase
<1>7. CASE Scan BY <1>3, <1>5, <1>7 DEF Scan, Phase
<1>8. CASE OpenTemp BY <1>3, <1>4, <1>8 DEF OpenTemp, GiveUp, Phase
<1>9. CASE Fill BY <1>5, <1>9 DEF Fill, Phase
<1>10. CASE FillError BY <1>5, <1>10 DEF FillError, GiveUp, Phase
<1>11. CASE FillEnd BY <1>4, <1>11 DEF FillEnd, Phase
<1>12. CASE Cut BY <1>3, <1>4, <1>12 DEF Cut, GiveUp, Phase
<1>13. CASE Sync BY <1>4, <1>13 DEF Sync, GiveUp, Phase
<1>14. CASE Close BY <1>4, <1>14 DEF Close, GiveUp, Phase
<1>15. CASE Rename BY <1>3, <1>4, <1>15 DEF Rename, GiveUp, Phase
<1>16. CASE Undo \/ Crash \/ PowerLoss BY <1>3, <1>16 DEF Undo, Crash, PowerLoss
<1> QED BY <1>6, <1>7, <1>8, <1>9, <1>10, <1>11, <1>12, <1>13, <1>14, <1>15, <1>16
    DEF StoreStep

\* A Put ends as soon as its reader does: it takes at most eight steps for each
\* token and seven more, whatever fails on the way (archive.go:16-106).
THEOREM PutRunsOut ==
  StoreSpec => /\ [](PutLeft \in 0..(8 * N + 7))
               /\ [][pc \notin {"ret", "dead"} => PutLeft' < PutLeft]_storeVars
<1>1. Inv => PutLeft \in 0..(8 * N + 7) BY PutLeftBound
<1>2. Inv /\ Inv' /\ [StoreNext]_storeVars =>
        [pc \notin {"ret", "dead"} => PutLeft' < PutLeft]_storeVars
  BY StepLess DEF StoreNext, Returned
<1> QED BY <1>1, <1>2, InvHolds, PTL DEF StoreSpec
=============================================================================
