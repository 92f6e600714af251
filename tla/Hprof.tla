------------------------------- MODULE Hprof -------------------------------
(***************************************************************************)
(* redact.HPROF (internal/redact/hprof.go): a binary heap dump is copied   *)
(* byte for byte, the contents of every primitive array replaced by zeros. *)
(* The parser never looks back: it keeps its position, the bytes left in   *)
(* the current heap dump record and the numbers it has just read.          *)
(*                                                                         *)
(* A dump is a sequence of bytes; the NUL-terminated magic that opens it   *)
(* stands as one byte, Magic.                                              *)
(***************************************************************************)
EXTENDS HprofFormat

Byte == 0..255
Magic == 74

CONSTANT Inputs \* what HPROF may be given to read

ASSUME InputsAssumption == Inputs \subseteq Seq(Byte)

VARIABLES in,
          pos,   \* bytes read from r
          out,   \* bytes written to h.w
          id,    \* h.id, the size of an identifier
          left,  \* h.left
          pc,
          sub,   \* the sub-record or table being read
          n,     \* the last u2 or u4 read, or the entries still to come
          size   \* the last typeSize

vars == <<in, pos, out, id, left, pc, sub, n, size>>

Init ==
  /\ in \in Inputs
  /\ pos = 0 /\ out = <<>> /\ id = 0 /\ left = 0
  /\ pc = "magic" /\ sub = "none" /\ n = 0 /\ size = 0

Remaining == Len(in) - pos
Upcoming(k) == SubSeq(in, pos + 1, pos + k)
U1(p) == in[p + 1]
U2(p) == 256 * U1(p) + U1(p + 1)
U4(p) == 256 * 256 * U2(p) + U2(p + 2)

-----------------------------------------------------------------------------
\* header, and under it take, copy and zero, which stay within the record.

Emit(k, bytes) == pos' = pos + k /\ out' = out \o bytes

Fail == pc' = "failed" /\ UNCHANGED <<pos, out, left>>

\* MUTANT: the record's length is not claimed.
MoveUnclaimed(k, bytes, short, to) ==
  /\ left' = left - k
  /\ \/ k <= Remaining /\ Emit(k, bytes) /\ pc' = to
     \/ k > Remaining /\ Emit(Remaining, short) /\ pc' = "failed"

\* k bytes of the record: claimed, read, and written as given.  If the input
\* ends before, what is written of it is given too.
Move(k, bytes, short, to) ==
  \/ k > left /\ Fail
  \/ /\ k <= left /\ k <= Remaining
     /\ Emit(k, bytes) /\ left' = left - k /\ pc' = to
  \/ /\ k <= left /\ k > Remaining
     /\ Emit(Remaining, short) /\ left' = left - k /\ pc' = "failed"

Take(k, to) == Move(k, Upcoming(k), <<>>, to)
Copy(k, to) == Move(k, Upcoming(k), Upcoming(Remaining), to)

\* Zeros are written in chunks; the one that the input ends in is not.
Chunk == 32 * 1024

Zero(k, to) == Move(k, [j \in 1..k |-> 0],
                    [j \in 1..(Chunk * (Remaining \div Chunk)) |-> 0], to)

-----------------------------------------------------------------------------

HasMagic == in # <<>> /\ U1(0) = Magic

ReadMagic ==
  /\ pc = "magic"
  /\ \/ HasMagic /\ Emit(1, Upcoming(1)) /\ pc' = "sizes"
     \/ ~HasMagic /\ pc' = "failed" /\ UNCHANGED <<pos, out>>
  /\ UNCHANGED <<in, id, left, sub, n, size>>

\* u4 identifier size, u8 timestamp.
ReadSizes ==
  /\ pc = "sizes"
  /\ \/ Remaining < 12 /\ Fail /\ UNCHANGED id
     \/ /\ Remaining >= 12
        /\ Emit(12, Upcoming(12)) /\ id' = U4(pos)
        /\ pc' = IF id' \in {4, 8} THEN "record" ELSE "failed"
        /\ UNCHANGED left
  /\ UNCHANGED <<in, sub, n, size>>

HeapTags == {12, 28}

\* u1 tag, u4 time, u4 length; only an input that ends before it is complete.
Record ==
  /\ pc = "record"
  /\ \/ Remaining = 0 /\ pc' = "ok" /\ UNCHANGED <<pos, out, left>>
     \/ Remaining \in 1..8 /\ Fail
     \/ /\ Remaining >= 9
        /\ Emit(9, Upcoming(9)) /\ left' = U4(pos + 5)
        /\ pc' = IF U1(pos) \in HeapTags THEN "heap" ELSE "skip"
  /\ UNCHANGED <<in, id, sub, n, size>>

\* Every other record is copied, whatever its tag.
Skip ==
  /\ pc = "skip" /\ Copy(left, "record")
  /\ UNCHANGED <<in, id, sub, n, size>>

\* MUTANT: a JNI local root is taken for a native stack root.
RootSizeShort(t) ==
  CASE t \in {255, 5, 7}  -> id
    [] t = 1              -> 2 * id
    [] t \in {2, 4, 6}    -> id + 4
    [] t \in {3, 8}       -> id + 8

RootSize(t) ==
  CASE t \in {255, 5, 7}  -> id
    [] t = 1              -> 2 * id
    [] t \in {4, 6}       -> id + 4
    [] t \in {2, 3, 8}    -> id + 8

Roots == {255, 1, 2, 3, 4, 5, 6, 7, 8}

Bodies == {32, 33, 34, 35}

Kind(t) == CASE t = 32 -> "constants" [] t = 33 -> "instance"
             [] t = 34 -> "objects"   [] t = 35 -> "primitives"

HeapDump ==
  /\ pc = "heap"
  /\ \/ left = 0 /\ pc' = "record" /\ UNCHANGED <<pos, out, left, sub, n>>
     \/ left > 0 /\ Remaining = 0 /\ Take(1, "failed") /\ UNCHANGED <<sub, n>>
     \/ /\ left > 0 /\ Remaining > 0
        /\ LET t == U1(pos) IN
             /\ Take(1, IF t \in Roots THEN "root" ELSE IF t \in Bodies THEN "lead"
                        ELSE "failed")
             /\ sub' = IF t \in Bodies THEN Kind(t) ELSE "none"
             /\ n' = IF t \in Roots THEN RootSize(t) ELSE 0
  /\ UNCHANGED <<in, id, size>>

Root ==
  /\ pc = "root" /\ Copy(n, "heap")
  /\ UNCHANGED <<in, id, sub, n, size>>

\* What comes before the first number of the sub-record.
Lead ==
  /\ pc = "lead"
  /\ Copy(CASE sub = "instance"  -> 2 * id + 4
            [] sub = "constants" -> 7 * id + 8
            [] OTHER             -> id + 4,
          IF sub = "constants" THEN "table" ELSE "count")
  /\ UNCHANGED <<in, id, sub, n, size>>

\* u4 n, or u2 n before each table of a class.
Count ==
  /\ pc = "count" /\ Take(4, IF sub = "primitives" THEN "type" ELSE "rest")
  /\ n' = IF pc' = "failed" THEN n ELSE U4(pos)
  /\ UNCHANGED <<in, id, sub, size>>

Table ==
  /\ pc = "table" /\ Take(2, IF sub = "fields" THEN "rest" ELSE "entry")
  /\ n' = IF pc' = "failed" THEN n ELSE U2(pos)
  /\ UNCHANGED <<in, id, sub, size>>

\* n bytes of an instance, class id and n elements of an object array, or the
\* name and type of n fields.
Rest ==
  /\ pc = "rest"
  /\ Copy(CASE sub = "instance" -> n
            [] sub = "objects"  -> id + n * id
            [] sub = "fields"   -> n * (id + 1), "heap")
  /\ UNCHANGED <<in, id, sub, n, size>>

\* The head of a constant (u2 index) or of a static (id name).
Entry ==
  /\ pc = "entry"
  /\ \/ /\ n = 0 /\ pc' = "table"
        /\ sub' = IF sub = "constants" THEN "statics" ELSE "fields"
        /\ UNCHANGED <<pos, out, left>>
     \/ n > 0 /\ Copy(IF sub = "constants" THEN 2 ELSE id, "type") /\ UNCHANGED sub
  /\ UNCHANGED <<in, id, n, size>>

Types == {2} \cup 4..11

TypeSize(t) == CASE t = 2 -> id [] t \in {4, 8} -> 1 [] t \in {5, 9} -> 2
                 [] t \in {6, 10} -> 4 [] t \in {7, 11} -> 8

\* typeSize, for an entry of a table or for a primitive array.
ElementType ==
  /\ pc = "type"
  /\ Take(1, IF Remaining > 0 /\ U1(pos) \in Types THEN "value" ELSE "failed")
  /\ size' = IF pc' = "failed" THEN size ELSE TypeSize(U1(pos))
  /\ UNCHANGED <<in, id, sub, n>>

\* MUTANT: the values of arrays of two-byte elements are copied.
ValueKeepsChars ==
  /\ pc = "value"
  /\ \/ sub = "primitives" /\ size # 2 /\ Zero(n * size, "heap") /\ UNCHANGED n
     \/ sub = "primitives" /\ size = 2 /\ Copy(n * size, "heap") /\ UNCHANGED n
     \/ sub # "primitives" /\ Copy(size, "entry") /\ n' = n - 1
  /\ UNCHANGED <<in, id, sub, size>>

Value ==
  /\ pc = "value"
  /\ \/ sub = "primitives" /\ Zero(n * size, "heap") /\ UNCHANGED n
     \/ sub # "primitives" /\ Copy(size, "entry") /\ n' = n - 1
  /\ UNCHANGED <<in, id, sub, size>>

Over == pc \in {"ok", "failed"} /\ UNCHANGED vars

Next ==
  \/ ReadMagic \/ ReadSizes \/ Record \/ Skip \/ HeapDump \/ Root \/ Lead
  \/ Count \/ Table \/ Rest \/ Entry \/ ElementType \/ Value \/ Over

Spec == Init /\ [][Next]_vars

-----------------------------------------------------------------------------

\* Types; left never goes below zero, so no sub-record outgrows its record.
TypeOK ==
  /\ in \in Seq(Byte) /\ pos \in 0..Len(in) /\ out \in Seq(Byte)
  /\ id \in Nat /\ left \in Nat /\ n \in Nat /\ size \in Nat
  /\ pc \in {"magic", "sizes", "record", "skip", "heap", "root", "lead", "count",
             "table", "rest", "entry", "type", "value", "ok", "failed"}
  /\ sub \in {"none", "instance", "objects", "primitives",
              "constants", "statics", "fields"}

\* What was written is the input so far, the values of its primitive arrays
\* zeroed and nothing else changed, accepted or not; and a dump that was
\* accepted was written to its end (hprof.go:15-19).
OnlyValuesZeroed ==
  LET values == Values(in) IN
  /\ pc = "ok" => Len(out) = Len(in)
  /\ \A p \in 1..Len(out) : out[p] = IF p \in values THEN 0 ELSE in[p]

\* The input is accepted if it is made of whole records, every segment of whole
\* sub-records of the known kinds, and given up if not (hprof.go:41-138).  A
\* record that is no heap dump counts as whole whatever its tag, as in the code:
\* the stricter "anything it can't parse is an error rather than passed through"
\* (hprof.go:19) is not what this says, and of such records it does not hold.
AcceptsReadable ==
  /\ pc = "ok" => Readable(in)
  /\ pc = "failed" => ~Readable(in)
=============================================================================
