------------------------------- MODULE Store -------------------------------
(***************************************************************************)
(* The local half of a capture: archiveStore.Put / dirStore.Put            *)
(* (internal/xray/dump.go) on top of archive.Write, archive.Extract and    *)
(* writeFile (internal/archive/archive.go).  One gzipped-tar member is     *)
(* consumed from a reader and persisted either as one bundle (extract =    *)
(* FALSE) or as one file per regular tar entry (extract = TRUE), always    *)
(* through a temp file that is filled, fsync'd, closed and renamed.        *)
(*                                                                         *)
(* A member is a sequence of tokens: "dir" and "file" tar headers (a       *)
(* "file" header announces size body chunks), "body" chunks, the "eot"     *)
(* end-of-archive blocks and the "crc" gzip footer.  One token is one      *)
(* block on disk.                                                          *)
(***************************************************************************)
EXTENDS Naturals, Sequences, FiniteSets

CONSTANTS Members,  \* the members a toolbox may send
          MaxSizes, \* the values of --max-size, in blocks; 0 is unlimited
          NoFile    \* no temp file is open

Token == [kind : {"dir", "file", "body", "eot", "crc"}, size : Nat]

WellFormed(m) ==
  /\ m \in Seq(Token)
  /\ m # <<>>
  /\ \A j \in 1..Len(m) : m[j].kind = "crc" <=> j = Len(m)
  /\ \A j \in 1..Len(m) : m[j].kind = "file" =>
       /\ j + m[j].size < Len(m)
       /\ \A k \in 1..m[j].size : m[j + k].kind = "body"

ASSUME MembersAssumption == \A m \in Members : WellFormed(m)
ASSUME MaxSizesAssumption == MaxSizes \subseteq Nat

\* A file is named by the position of its tar header, the bundle by 0.
File == [name : Nat, len : Nat, need : Nat, synced : BOOLEAN]

ASSUME NoFileAssumption == NoFile \notin File

VARIABLES extract, \* --extract: dirStore rather than archiveStore
          member,  \* what the reader carries
          maxSize, \* --max-size
          budget,  \* limiter.remaining
          got,     \* tokens of member read so far
          tmp,     \* writeFile's temp file, or NoFile
          disk,    \* the files under their real names
          count,   \* artifacts, what Put returns
          pc, err

storeVars ==
  <<extract, member, maxSize, budget, got, tmp, disk, count, pc, err>>

N == Len(member)

\* The positions of the regular-file headers among the first n tokens.
Headers(n) == {j \in 1..n : member[j].kind = "file"}

\* The names a complete Put leaves behind.
Wanted == IF extract THEN Headers(N) ELSE {0}

StoreInit ==
  /\ extract \in BOOLEAN /\ member \in Members /\ maxSize \in MaxSizes
  /\ budget = maxSize /\ got = 0 /\ tmp = NoFile /\ disk = {} /\ count = 0
  /\ pc = IF extract THEN "mkdir" ELSE "open"
  /\ err = "none"

Config == <<extract, member, maxSize>>

\* The rest of the state an early return leaves alone.
GiveUp(at, why) ==
  /\ pc' = at /\ err' = why
  /\ UNCHANGED <<Config, budget, tmp, disk, count>>

MakeDir ==
  /\ pc = "mkdir"
  /\ \/ /\ pc' = "scan"
        /\ UNCHANGED <<Config, budget, got, tmp, disk, count, err>>
     \/ GiveUp("ret", "io") /\ UNCHANGED got

\* MUTANT: Extract returns at the end of the archive, without the drain.
ScanSkipsDrain ==
  /\ pc = "scan"
  /\ got' = got + 1
  /\ pc' = CASE member[got'].kind = "file" -> "open"
             [] member[got'].kind = "eot"  -> "ret"
             [] OTHER                      -> "scan"
  /\ UNCHANGED <<Config, budget, tmp, disk, count, err>>

\* extractTar's loop between two files, and Extract's drain to the CRC.
Scan ==
  /\ pc = "scan"
  /\ got' = got + 1
  /\ pc' = CASE member[got'].kind = "file" -> "open"
             [] member[got'].kind = "crc"  -> "ret"
             [] OTHER                      -> "scan"
  /\ UNCHANGED <<Config, budget, tmp, disk, count, err>>

\* CreateTemp; a Chmod that fails leaves the temp file to the deferred undo.
OpenTemp ==
  /\ pc = "open"
  /\ \/ GiveUp("ret", "io") /\ UNCHANGED got
     \/ /\ tmp' = [name   |-> IF extract THEN got ELSE 0, len |-> 0,
                   need   |-> IF extract THEN member[got].size ELSE N,
                   synced |-> FALSE]
        /\ \/ pc' = "fill" /\ UNCHANGED err
           \/ pc' = "undo" /\ err' = "io"
        /\ UNCHANGED <<Config, budget, got, disk, count>>

\* MUTANT: capWriter never refuses.
NeverOverBudget == FALSE

\* capWriter.Write refuses the next chunk.
OverBudget == maxSize # 0 /\ budget = 0

\* MUTANT: extracted files are not charged to the limiter.
ChargeBundle == IF maxSize = 0 \/ extract THEN budget ELSE budget - 1

\* What capWriter.Write leaves of the budget.
Charge == IF maxSize = 0 THEN budget ELSE budget - 1

\* One chunk through capWriter to the temp file.  countTarEntries counts the
\* headers it sees go by.
Fill ==
  /\ pc = "fill" /\ tmp.len < tmp.need
  /\ ~OverBudget
  /\ got' = got + 1
  /\ tmp' = [tmp EXCEPT !.len = @ + 1]
  /\ budget' = Charge
  /\ count' = IF ~extract /\ member[got'].kind = "file" THEN count + 1 ELSE count
  /\ UNCHANGED <<Config, disk, pc, err>>

\* The chunk was read and then refused, by the limiter or by the disk.
FillError ==
  /\ pc = "fill" /\ tmp.len < tmp.need
  /\ got' = got + 1
  /\ GiveUp("undo", IF OverBudget THEN "toolarge" ELSE "io")

\* io.Copy has met the end of the entry, or the drain the checked CRC.
FillEnd ==
  /\ pc = "fill" /\ tmp.len = tmp.need
  /\ pc' = "sync"
  /\ UNCHANGED <<Config, budget, got, tmp, disk, count, err>>

\* MUTANT: writeFile ignores the error of its write callback.
CutIgnored ==
  /\ pc = "fill" /\ tmp.len < tmp.need
  /\ pc' = "sync"
  /\ UNCHANGED <<Config, budget, got, tmp, disk, count, err>>

\* MUTANT: extractTar takes an early end for the end of the archive.
CutIsEnd ==
  /\ \/ pc = "fill" /\ tmp.len < tmp.need /\ GiveUp("undo", "cut")
     \/ pc = "scan" /\ GiveUp("ret", "none")
  /\ UNCHANGED got

\* The reader ends or turns to garbage before the member does: an error from
\* gzip or tar wherever a token is being waited for.
Cut ==
  /\ \/ pc = "fill" /\ tmp.len < tmp.need /\ GiveUp("undo", "cut")
     \/ pc = "scan" /\ GiveUp("ret", "cut")
  /\ UNCHANGED got

Sync ==
  /\ pc = "sync"
  /\ \/ /\ tmp' = [tmp EXCEPT !.synced = TRUE] /\ pc' = "close"
        /\ UNCHANGED <<Config, budget, got, disk, count, err>>
     \/ GiveUp("undo", "io") /\ UNCHANGED got

Close ==
  /\ pc = "close"
  /\ \/ /\ pc' = "rename"
        /\ UNCHANGED <<Config, budget, got, tmp, disk, count, err>>
     \/ GiveUp("undo", "io") /\ UNCHANGED got

\* MUTANT: a step after the rename fails, and the file stays.
RenameThenFail ==
  /\ pc = "rename"
  /\ disk' = disk \cup {tmp} /\ tmp' = NoFile
  /\ pc' = "ret" /\ err' = "io"
  /\ UNCHANGED <<Config, budget, got, count>>

Rename ==
  /\ pc = "rename"
  /\ \/ /\ disk' = {f \in disk : f.name # tmp.name} \cup {tmp}
        /\ tmp' = NoFile
        /\ count' = IF extract THEN count + 1 ELSE count
        /\ pc' = IF extract THEN "scan" ELSE "ret"
        /\ UNCHANGED <<Config, budget, got, err>>
     \/ GiveUp("undo", "io") /\ UNCHANGED got

\* MUTANT: the deferred function closes the file and leaves it.
UndoForgets ==
  /\ pc = "undo" /\ pc' = "ret"
  /\ UNCHANGED <<Config, budget, got, tmp, disk, count, err>>

\* writeFile's deferred close and remove.
Undo ==
  /\ pc = "undo"
  /\ tmp' = NoFile /\ pc' = "ret"
  /\ UNCHANGED <<Config, budget, got, disk, count, err>>

\* The process is killed: what is on disk stays as it is.
Crash ==
  /\ pc \notin {"ret", "dead"}
  /\ pc' = "dead"
  /\ UNCHANGED <<Config, budget, got, tmp, disk, count, err>>

\* The machine goes down, perhaps after Put returned: the directory may not
\* hold the rename yet, and data that was not fsync'd is gone.
PowerLoss ==
  /\ pc # "dead" /\ pc' = "dead"
  /\ \E kept \in SUBSET disk :
       disk' = {f \in kept : f.synced}
                 \cup {[f EXCEPT !.len = 0] : f \in {g \in kept : ~g.synced}}
  /\ UNCHANGED <<Config, budget, got, tmp, count, err>>

StoreStep ==
  \/ MakeDir \/ Scan \/ OpenTemp \/ Fill \/ FillError \/ FillEnd \/ Cut
  \/ Sync \/ Close \/ Rename \/ Undo

Returned == pc \in {"ret", "dead"} /\ UNCHANGED storeVars

StoreNext == StoreStep \/ Crash \/ PowerLoss \/ Returned

StoreSpec == StoreInit /\ [][StoreNext]_storeVars

-----------------------------------------------------------------------------

\* Types, and which files exist at which point of writeFile.
TypeOK ==
  /\ extract \in BOOLEAN /\ member \in Members /\ maxSize \in MaxSizes
  /\ budget \in Nat /\ got \in 0..N
  /\ tmp \in File \cup {NoFile}
  /\ disk \in SUBSET File
  /\ count \in Nat
  /\ pc \in {"mkdir", "scan", "open", "fill", "sync", "close", "rename",
             "undo", "ret", "dead"}
  /\ err \in {"none", "io", "cut", "toolarge"}
  /\ pc \in {"fill", "sync", "close", "rename"} => tmp # NoFile

\* No partial file ever appears at a real path (archive.go:108-112), whatever
\* fails and whenever the process or the machine dies.
NeverPartial == \A f \in disk : f.len = f.need

\* A Put that reports success has read the member to its checked CRC, has
\* every file in place and counted each of them once (archive.go:16-34).
OkMeansAll ==
  pc = "ret" /\ err = "none" =>
    /\ got = N
    /\ {f.name : f \in disk} = Wanted
    /\ count = Cardinality(Headers(N))

\* A bundle that failed leaves no file at path (archive.go:20).
FailedBundleIsGone == pc = "ret" /\ err # "none" /\ ~extract => disk = {}

\* However it returns, writeFile leaves no temp file (archive.go:119-124).
NoLitter == pc = "ret" => tmp = NoFile

\* The blocks of the files in place, and those of the open temp file.
Blocks == UNION {{f} \X (1..f.len) : f \in disk}
TmpBlocks == IF tmp = NoFile THEN 0 ELSE tmp.len

\* --max-size bounds all that one Put has on disk, over all its files, the
\* open temp file included (archive.go:29-33, 141-172).
SizeCap == maxSize # 0 => Cardinality(Blocks) + TmpBlocks <= maxSize

Result == IF pc = "dead" THEN "dead"
          ELSE IF pc # "ret" THEN "busy"
          ELSE IF err = "none" THEN "ok" ELSE "failed"

Promise == INSTANCE AtomicPut WITH
  goal <- Wanted, bundle <- ~extract, result <- Result,
  visible <- {<<f.name, f.len = f.need>> : f \in disk}

\* Put keeps the promise of a Store: files appear whole, a bundle appears
\* exactly when Put succeeds, success means everything wanted is there.
KeepsPromise == Promise!Spec
=============================================================================
