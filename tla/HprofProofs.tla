---------------------------- MODULE HprofProofs ----------------------------
(***************************************************************************)
(* What holds of redact.HPROF for every input: the parser never leaves its *)
(* record or its input, and what it accepts comes out as long as it went   *)
(* in, every byte of it unchanged or zero; it accepts exactly the dumps    *)
(* that HprofFormat's grammar reads to their end, and zeroes exactly the   *)
(* bytes that the grammar calls values.                                    *)
(***************************************************************************)
EXTENDS Hprof, SequenceTheorems, WellFoundedInduction, TLAPS

\* What was written follows the input: byte by byte, and as far as it was read.
Follows ==
  /\ Len(out) <= pos
  /\ \A p \in 1..Len(out) : out[p] \in {in[p], 0}
  /\ pc # "failed" => Len(out) = pos
  /\ pc = "ok" => pos = Len(in)

\* Which sub-record is being read where.
Place ==
  /\ pc = "magic" => pos = 0
  /\ pc = "lead" => sub \in {"instance", "objects", "primitives", "constants"}
  /\ pc = "count" => sub \in {"instance", "objects", "primitives"}
  /\ pc = "table" => sub \in {"constants", "statics", "fields"}
  /\ pc = "entry" => sub \in {"constants", "statics"}
  /\ pc = "rest" => sub \in {"instance", "objects", "fields"}
  /\ pc \in {"type", "value"} =>
       \/ sub = "primitives"
       \/ sub \in {"constants", "statics"} /\ n > 0

Inv == TypeOK /\ Follows /\ Place

-----------------------------------------------------------------------------

\* What lies ahead in the input are bytes.
LEMMA BytesAhead ==
  ASSUME Inv
  PROVE  /\ pos \in Nat /\ Remaining \in Nat /\ Len(in) = pos + Remaining
         /\ \A j \in 1..Remaining : in[pos + j] \in 0..255
<1>1. in \in Seq(Byte) /\ Len(in) \in Nat /\ pos \in 0..Len(in)
  BY DEF Inv, TypeOK
<1>2. pos \in Nat /\ Remaining \in Nat /\ Len(in) = pos + Remaining
  BY <1>1 DEF Remaining
<1>3. ASSUME NEW j \in 1..Remaining
      PROVE  in[pos + j] \in 0..255
  <2>1. pos + j \in 1..Len(in) BY <1>1, <1>2, <1>3
  <2>2. in[pos + j] \in Byte BY <1>1, <2>1, ElementOfSeq
  <2> QED BY <2>2 DEF Byte
<1> QED BY <1>2, <1>3

\* What follows in the input, taken from it, is bytes of it.
LEMMA UpcomingIsInput ==
  ASSUME Inv, NEW k \in Nat, k <= Remaining
  PROVE  /\ Upcoming(k) \in Seq(Byte) /\ Len(Upcoming(k)) = k
         /\ \A p \in 1..k : Upcoming(k)[p] = in[pos + p]
<1>1. pos \in Nat /\ Remaining \in Nat /\ Len(in) = pos + Remaining
  BY BytesAhead
<1>2. in \in Seq(Byte) BY DEF Inv, TypeOK
<1>3. \A j \in (pos + 1)..(pos + k) : in[j] \in Byte
  BY <1>1, <1>2, ElementOfSeq
<1>4. pos + 1 \in Int /\ pos + k \in Int BY <1>1
<1> DEFINE f == pos + 1
           l == pos + k
           u == SubSeq(in, f, l)
<1>6. u = Upcoming(k) /\ l - f + 1 = k /\ (f <= l <=> k > 0)
  BY <1>1 DEF Upcoming
<1>9. ASSUME NEW p \in 1..k PROVE f + p - 1 = pos + p BY <1>1
<1> HIDE DEF f, l
<1>5. /\ u \in Seq(Byte)
      /\ Len(u) = IF f <= l THEN l - f + 1 ELSE 0
      /\ \A i \in 1..(l - f + 1) : u[i] = in[f + i - 1]
  BY <1>3, <1>4, SubSeqProperties DEF f, l
<1> HIDE DEF u
<1>7. u \in Seq(Byte) /\ Len(u) = k BY <1>5, <1>6
<1>8. ASSUME NEW p \in 1..k
      PROVE  u[p] = in[pos + p]
  <2>1. f + p - 1 = pos + p BY <1>9
  <2>2. u[p] = in[f + p - 1] BY <1>5, <1>6
  <2> QED BY <2>1, <2>2
<1> QED BY <1>6, <1>7, <1>8

\* The numbers in the input are natural numbers.
LEMMA NumbersAreNat ==
  ASSUME Inv
  PROVE  /\ Remaining \in Nat
         /\ 1 <= Remaining => U1(pos) \in Byte
         /\ 2 <= Remaining => U2(pos) \in Nat
         /\ 4 <= Remaining => U4(pos) \in Nat
         /\ 9 <= Remaining => U4(pos + 5) \in Nat
<1>1. /\ pos \in Nat /\ Remaining \in Nat
      /\ \A j \in 1..Remaining : in[pos + j] \in 0..255
  BY BytesAhead
<1> HIDE DEF Inv
<1>2. ASSUME NEW q \in Nat, q + 1 <= Remaining
      PROVE  U1(pos + q) \in 0..255
  <2>1. q + 1 \in 1..Remaining /\ pos + q + 1 = pos + (q + 1) BY <1>1, <1>2
  <2>2. U1(pos + q) = in[pos + (q + 1)] BY <2>1 DEF U1
  <2> QED BY <1>1, <2>1, <2>2
<1>3. ASSUME NEW q \in Nat, q + 2 <= Remaining
      PROVE  U2(pos + q) \in Nat
  <2>1. U1(pos + q) \in 0..255 BY <1>1, <1>2, <1>3
  <2>2. (q + 1) + 1 <= Remaining /\ q + 1 \in Nat /\ pos + (q + 1) = pos + q + 1
    BY <1>1, <1>3
  <2>3. U1(pos + q + 1) \in 0..255 BY <1>2, <2>2
  <2>4. \A x, y \in 0..255 : 256 * x + y \in Nat OBVIOUS
  <2>5. U2(pos + q) = 256 * U1(pos + q) + U1(pos + q + 1) BY DEF U2
  <2>6. 256 * U1(pos + q) + U1(pos + q + 1) \in Nat BY <2>1, <2>3, <2>4, ZenonT(30)
  <2> QED BY <2>5, <2>6
<1>4. ASSUME NEW q \in Nat, q + 4 <= Remaining
      PROVE  U4(pos + q) \in Nat
  <2>1. U2(pos + q) \in Nat BY <1>1, <1>3, <1>4
  <2>2. (q + 2) + 2 <= Remaining /\ q + 2 \in Nat /\ pos + (q + 2) = pos + q + 2
    BY <1>1, <1>4
  <2>3. U2(pos + q + 2) \in Nat BY <1>3, <2>2
  <2> QED BY <2>1, <2>3 DEF U4
<1>5. pos + 0 = pos /\ 0 + 1 = 1 /\ 0 + 2 = 2 /\ 0 + 4 = 4 /\ 0 \in Nat
  BY <1>1
<1>6. 9 <= Remaining => 5 + 4 <= Remaining BY <1>1
<1>7. 1 <= Remaining => U1(pos) \in Byte BY <1>2, <1>5 DEF Byte
<1>8. 2 <= Remaining => U2(pos) \in Nat BY <1>3, <1>5
<1>9. 4 <= Remaining => U4(pos) \in Nat BY <1>4, <1>5
<1>10. 9 <= Remaining => U4(pos + 5) \in Nat BY <1>4, <1>6
<1> QED BY <1>1, <1>7, <1>8, <1>9, <1>10

\* Reading k bytes and writing as many, each as it was or 0, keeps the output
\* in step with the input.
LEMMA EmitFollows ==
  ASSUME Inv, pc # "failed", UNCHANGED in,
         NEW k \in Nat, k <= Remaining,
         NEW bytes \in Seq(Byte), Len(bytes) <= k,
         \A p \in 1..Len(bytes) : bytes[p] \in {in[pos + p], 0},
         pc' # "failed" => Len(bytes) = k,
         pc' = "ok" => pos + k = Len(in),
         Emit(k, bytes)
  PROVE  Follows' /\ pos' \in 0..Len(in) /\ out' \in Seq(Byte)
<1>1. /\ pos \in Nat /\ Remaining \in Nat /\ Len(in) = pos + Remaining
      /\ out \in Seq(Byte) /\ Len(out) = pos /\ in' = in
  BY BytesAhead DEF Inv, TypeOK, Follows
<1>2. pos' = pos + k /\ out' = out \o bytes BY DEF Emit
<1> DEFINE o == out \o bytes
<1>3. /\ o \in Seq(Byte) /\ Len(o) = Len(out) + Len(bytes)
      /\ \A i \in 1..(Len(out) + Len(bytes)) :
           o[i] = IF i <= Len(out) THEN out[i] ELSE bytes[i - Len(out)]
  BY <1>1, ConcatProperties, Zenon
<1>6. out' = o BY <1>2
<1> HIDE DEF o
<1>4. Len(bytes) \in Nat OBVIOUS
<1>5. ASSUME NEW p \in 1..Len(out')
      PROVE  out'[p] \in {in[p], 0}
  <2>0. p \in 1..(Len(out) + Len(bytes)) /\ Len(out) = pos
    BY <1>1, <1>3, <1>6
  <2>1. CASE p <= pos
    <3>1. p \in 1..Len(out) /\ out'[p] = out[p]
      BY <2>0, <2>1, <1>1, <1>3, <1>4, <1>6
    <3> QED BY <3>1 DEF Inv, Follows
  <2>2. CASE p > pos
    <3>1. p - pos \in 1..Len(bytes) /\ pos + (p - pos) = p
      BY <2>0, <2>2, <1>1, <1>4
    <3>2. bytes[p - pos] \in {in[pos + (p - pos)], 0} BY <3>1
    <3>3. out'[p] = bytes[p - pos] BY <2>0, <2>2, <1>1, <1>3, <1>4, <1>6
    <3> QED BY <3>1, <3>2, <3>3
  <2> QED BY <2>0, <1>1, <1>4, <2>1, <2>2
<1>7. Len(out') = pos + Len(bytes) /\ out' \in Seq(Byte) BY <1>1, <1>3, <1>6
<1>8. Len(out') <= pos' /\ pos' \in 0..Len(in) BY <1>1, <1>2, <1>4, <1>7
<1>9. (pc' # "failed" => Len(out') = pos') /\ (pc' = "ok" => pos' = Len(in'))
  BY <1>1, <1>2, <1>7
<1>10. \A p \in 1..Len(out') : out'[p] \in {in'[p], 0} BY <1>1, <1>5
<1> QED BY <1>7, <1>8, <1>9, <1>10 DEF Follows

\* header keeps the output in step.
LEMMA HeaderFollows ==
  ASSUME Inv, pc # "failed", UNCHANGED in, NEW k \in Nat, k <= Remaining,
         Emit(k, Upcoming(k)), pc' # "ok"
  PROVE  Follows' /\ pos' \in 0..Len(in) /\ out' \in Seq(Byte)
<1> DEFINE u == Upcoming(k)
<1>1. /\ u \in Seq(Byte) /\ Len(u) = k
      /\ \A p \in 1..Len(u) : u[p] \in {in[pos + p], 0}
  BY UpcomingIsInput
<1>2. Emit(k, u) OBVIOUS
<1> HIDE DEF u
<1> QED BY <1>1, <1>2, EmitFollows

-----------------------------------------------------------------------------

\* take, copy and zero keep the output in step, whatever their length.
LEMMA MoveFollows ==
  ASSUME Inv, pc # "failed", UNCHANGED in,
         NEW k \in Nat, NEW to, to # "ok",
         NEW bytes, NEW short \in Seq(Byte),
         k <= Remaining => /\ bytes \in Seq(Byte) /\ Len(bytes) = k
                           /\ \A p \in 1..k : bytes[p] \in {in[pos + p], 0},
         Len(short) <= Remaining,
         \A p \in 1..Len(short) : short[p] \in {in[pos + p], 0},
         Move(k, bytes, short, to)
  PROVE  /\ Follows' /\ pos' \in 0..Len(in) /\ out' \in Seq(Byte) /\ left' \in Nat
         /\ pc' \in {to, "failed"}
         /\ pc' # "failed" => k <= Remaining
<1>0. Remaining \in Nat BY NumbersAreNat
<1>1. CASE k > left /\ Fail
  BY <1>1, <1>0 DEF Fail, Inv, TypeOK, Follows
<1>2. CASE /\ k <= left /\ k <= Remaining
           /\ Emit(k, bytes) /\ left' = left - k /\ pc' = to
  <2>1. Follows' /\ pos' \in 0..Len(in) /\ out' \in Seq(Byte)
    BY <1>2, EmitFollows
  <2> QED BY <1>2, <2>1 DEF Inv, TypeOK
<1>3. CASE /\ k <= left /\ k > Remaining
           /\ Emit(Remaining, short) /\ left' = left - k /\ pc' = "failed"
  <2>1. Follows' /\ pos' \in 0..Len(in) /\ out' \in Seq(Byte)
    BY <1>3, <1>0, EmitFollows
  <2> QED BY <1>3, <2>1 DEF Inv, TypeOK
<1> QED BY <1>1, <1>2, <1>3 DEF Move

\* The same of each of the three.
LEMMA TakeFollows ==
  ASSUME Inv, pc # "failed", UNCHANGED in, NEW k \in Nat, NEW to, to # "ok",
         Take(k, to)
  PROVE  /\ Follows' /\ pos' \in 0..Len(in) /\ out' \in Seq(Byte) /\ left' \in Nat
         /\ pc' \in {to, "failed"}
         /\ pc' # "failed" => k <= Remaining
<1>1. <<>> \in Seq(Byte) /\ Len(<<>>) = 0 OBVIOUS
<1> QED BY <1>1, MoveFollows, UpcomingIsInput, NumbersAreNat DEF Take

\* Copying k bytes, or all there are, keeps the output in step with the input.
LEMMA CopyFollows ==
  ASSUME Inv, pc # "failed", UNCHANGED in, NEW k \in Nat, NEW to, to # "ok",
         Copy(k, to)
  PROVE  /\ Follows' /\ pos' \in 0..Len(in) /\ out' \in Seq(Byte) /\ left' \in Nat
         /\ pc' \in {to, "failed"}
         /\ pc' # "failed" => k <= Remaining
<1>1. Remaining \in Nat BY NumbersAreNat
<1>2. /\ Upcoming(Remaining) \in Seq(Byte) /\ Len(Upcoming(Remaining)) = Remaining
      /\ \A p \in 1..Remaining : Upcoming(Remaining)[p] = in[pos + p]
  BY <1>1, UpcomingIsInput
<1> DEFINE u == Upcoming(k)
           v == Upcoming(Remaining)
<1>3. k <= Remaining => /\ u \in Seq(Byte) /\ Len(u) = k
                        /\ \A p \in 1..k : u[p] \in {in[pos + p], 0}
  BY UpcomingIsInput
<1>4. /\ v \in Seq(Byte) /\ Len(v) <= Remaining
      /\ \A p \in 1..Len(v) : v[p] \in {in[pos + p], 0}
  BY <1>1, <1>2
<1>5. Move(k, u, v, to) BY DEF Copy
<1> HIDE DEF u, v
<1> QED BY <1>3, <1>4, <1>5, MoveFollows

\* Writing k zeros for k bytes read keeps the output in step with the input,
\* and so does the last whole chunk of an input that ends within them.
LEMMA ZeroFollows ==
  ASSUME Inv, pc # "failed", UNCHANGED in, NEW k \in Nat, NEW to, to # "ok",
         Zero(k, to)
  PROVE  /\ Follows' /\ pos' \in 0..Len(in) /\ out' \in Seq(Byte) /\ left' \in Nat
         /\ pc' \in {to, "failed"}
         /\ pc' # "failed" => k <= Remaining
<1> DEFINE zeros == [j \in 1..k |-> 0]
<1>1. zeros \in Seq(Byte) /\ Len(zeros) = k /\ \A p \in 1..k : zeros[p] = 0
  BY DEF Byte
<1>4. Remaining \in Nat BY NumbersAreNat
<1> DEFINE m == Chunk * (Remaining \div Chunk)
           cut == [j \in 1..m |-> 0]
<1>2. m \in Nat /\ m <= Remaining BY <1>4 DEF Chunk
<1>3. Move(k, zeros, cut, to) BY DEF Zero
<1> HIDE DEF zeros, m
<1>7. cut \in Seq(Byte) /\ Len(cut) = m /\ \A p \in 1..m : cut[p] = 0
  BY <1>2 DEF Byte
<1> HIDE DEF cut
<1>5. k <= Remaining => /\ zeros \in Seq(Byte) /\ Len(zeros) = k
                        /\ \A p \in 1..k : zeros[p] \in {in[pos + p], 0}
  BY <1>1
<1>6. /\ Len(cut) <= Remaining
      /\ \A p \in 1..Len(cut) : cut[p] \in {in[pos + p], 0}
  BY <1>2, <1>7
<1> QED BY <1>3, <1>5, <1>6, <1>7, MoveFollows

-----------------------------------------------------------------------------

\* The invariant holds of a parser that has read nothing.
LEMMA InitInv == Init => Inv
<1> SUFFICES ASSUME Init PROVE Inv OBVIOUS
<1>1. in \in Seq(Byte) BY InputsAssumption DEF Init
<1>2. <<>> \in Seq(Byte) /\ Len(<<>>) = 0 OBVIOUS
<1>3. TypeOK BY <1>1, <1>2 DEF Init, TypeOK
<1> QED BY <1>2, <1>3 DEF Init, Inv, Follows, Place

\* The sizes the tables of the format give are natural numbers.
LEMMA SizesAreNat ==
  ASSUME Inv
  PROVE  /\ \A t \in Roots : RootSize(t) \in Nat
         /\ \A t \in Types : TypeSize(t) \in Nat
BY DEF Inv, TypeOK, Roots, RootSize, Types, TypeSize

\* Every step keeps the invariant.
LEMMA NextInv ==
  ASSUME Inv, [Next]_vars
  PROVE  Inv'
<1>1. CASE ReadMagic
  <2>1. CASE HasMagic /\ Emit(1, Upcoming(1)) /\ pc' = "sizes"
    <3>1. in \in Seq(Byte) /\ pos = 0 /\ in # <<>>
      BY <1>1, <2>1 DEF HasMagic, ReadMagic, Inv, TypeOK, Place
    <3>2. Len(in) \in Nat /\ Len(in) # 0 BY <3>1, EmptySeq
    <3>3. 1 <= Remaining BY <3>1, <3>2 DEF Remaining
    <3> QED BY <1>1, <2>1, <3>3, HeaderFollows
            DEF ReadMagic, Inv, TypeOK, Place
  <2>2. CASE ~HasMagic /\ pc' = "failed" /\ UNCHANGED <<pos, out>>
    BY <1>1, <2>2 DEF ReadMagic, Inv, TypeOK, Follows, Place
  <2> QED BY <1>1, <2>1, <2>2 DEF ReadMagic
<1>2. CASE ReadSizes
  <2>1. CASE Remaining < 12 /\ Fail /\ UNCHANGED id
    <3>1. UNCHANGED <<in, pos, out, left, id, sub, n, size>> /\ pc' = "failed"
      BY <1>2, <2>1 DEF ReadSizes, Fail
    <3> QED BY <1>2, <3>1 DEF ReadSizes, Inv, TypeOK, Follows, Place
  <2>2. CASE /\ Remaining >= 12
             /\ Emit(12, Upcoming(12)) /\ id' = U4(pos)
             /\ pc' = IF id' \in {4, 8} THEN "record" ELSE "failed"
             /\ UNCHANGED left
    <3>1. 4 <= Remaining /\ 12 <= Remaining BY <2>2, NumbersAreNat
    <3>2. id' \in Nat BY <2>2, <3>1, NumbersAreNat
    <3>3. pc' \in {"record", "failed"} BY <2>2
    <3>4. UNCHANGED <<in, sub, n, size>> /\ pc = "sizes" BY <1>2 DEF ReadSizes
    <3>5. Follows' /\ pos' \in 0..Len(in) /\ out' \in Seq(Byte)
      BY <2>2, <3>1, <3>3, <3>4, HeaderFollows
    <3> QED BY <2>2, <3>2, <3>3, <3>4, <3>5 DEF Inv, TypeOK, Place
  <2> QED BY <1>2, <2>1, <2>2 DEF ReadSizes
<1>3. CASE Record
  <2>1. CASE Remaining = 0
    BY <1>3, <2>1 DEF Record, Remaining, Fail, Inv, TypeOK, Follows, Place
  <2>2. CASE Remaining \in 1..8
    BY <1>3, <2>2 DEF Record, Fail, Inv, TypeOK, Follows, Place
  <2>3. CASE Remaining >= 9
    <3>1. U4(pos + 5) \in Nat BY <2>3, NumbersAreNat
    <3>2. pc' \in {"heap", "skip"}
      BY <1>3, <2>3, NumbersAreNat DEF Record
    <3> QED BY <1>3, <2>3, <3>1, <3>2, HeaderFollows
            DEF Record, Inv, TypeOK, Place
  <2> QED BY <2>1, <2>2, <2>3, NumbersAreNat
<1>4. CASE Skip
  BY <1>4, CopyFollows DEF Skip, Inv, TypeOK, Place
<1>5. CASE HeapDump
  <2>1. CASE left = 0 /\ pc' = "record" /\ UNCHANGED <<pos, out, left, sub, n>>
    BY <1>5, <2>1 DEF HeapDump, Inv, TypeOK, Follows, Place
  <2>2. CASE left > 0 /\ Remaining = 0 /\ Take(1, "failed") /\ UNCHANGED <<sub, n>>
    BY <1>5, <2>2, TakeFollows DEF HeapDump, Inv, TypeOK, Place
  <2>3. CASE left > 0 /\ Remaining > 0
    <3> DEFINE t == U1(pos)
               to == IF t \in Roots THEN "root" ELSE IF t \in Bodies THEN "lead"
                     ELSE "failed"
    <3>1. /\ Take(1, to)
          /\ sub' = IF t \in Bodies THEN Kind(t) ELSE "none"
          /\ n' = IF t \in Roots THEN RootSize(t) ELSE 0
      BY <1>5, <2>3 DEF HeapDump
    <3>2. n' \in Nat BY <3>1, SizesAreNat
    <3>3. t \in Bodies =>
            Kind(t) \in {"instance", "objects", "primitives", "constants"}
      BY DEF Bodies, Kind
    <3>4. Roots \cap Bodies = {} BY DEF Roots, Bodies
    <3>5. to \in {"root", "lead", "failed"} /\ (to = "lead" => t \in Bodies)
      OBVIOUS
    <3>6. UNCHANGED <<in, id, size>> BY <1>5 DEF HeapDump
    <3> HIDE DEF t, to
    <3>7. /\ Follows' /\ pos' \in 0..Len(in) /\ out' \in Seq(Byte) /\ left' \in Nat
          /\ pc' \in {to, "failed"}
      BY <1>5, <3>1, <3>5, <3>6, TakeFollows DEF HeapDump
    <3> QED BY <3>1, <3>2, <3>3, <3>5, <3>6, <3>7 DEF Inv, TypeOK, Place
  <2> QED BY <1>5, <2>1, <2>2, <2>3 DEF HeapDump
<1>6. CASE Root
  BY <1>6, CopyFollows DEF Root, Inv, TypeOK, Place
<1>7. CASE Lead
  <2> DEFINE k == CASE sub = "instance"  -> 2 * id + 4
                    [] sub = "constants" -> 7 * id + 8
                    [] OTHER             -> id + 4
             to == IF sub = "constants" THEN "table" ELSE "count"
  <2>1. k \in Nat BY SMTT(30) DEF Inv, TypeOK
  <2>2. Copy(k, to) BY <1>7 DEF Lead
  <2>3. to \in {"table", "count"} /\ (to = "table" <=> sub = "constants") OBVIOUS
  <2> HIDE DEF k, to
  <2> QED BY <1>7, <2>1, <2>2, <2>3, CopyFollows DEF Lead, Inv, TypeOK, Place
<1>8. CASE Count
  <2> DEFINE to == IF sub = "primitives" THEN "type" ELSE "rest"
  <2>1. Take(4, to) BY <1>8 DEF Count
  <2>2. to \in {"type", "rest"} /\ (to = "type" <=> sub = "primitives") OBVIOUS
  <2> HIDE DEF to
  <2>3. /\ Follows' /\ pos' \in 0..Len(in) /\ out' \in Seq(Byte) /\ left' \in Nat
        /\ pc' \in {to, "failed"} /\ (pc' # "failed" => 4 <= Remaining)
    BY <1>8, <2>1, <2>2, TakeFollows DEF Count
  <2>4. n' \in Nat BY <1>8, <2>3, NumbersAreNat DEF Count, Inv, TypeOK
  <2> QED BY <1>8, <2>2, <2>3, <2>4 DEF Count, Inv, TypeOK, Place
<1>9. CASE Table
  <2> DEFINE to == IF sub = "fields" THEN "rest" ELSE "entry"
  <2>1. Take(2, to) BY <1>9 DEF Table
  <2>2. to \in {"rest", "entry"} /\ (to = "rest" <=> sub = "fields") OBVIOUS
  <2> HIDE DEF to
  <2>3. /\ Follows' /\ pos' \in 0..Len(in) /\ out' \in Seq(Byte) /\ left' \in Nat
        /\ pc' \in {to, "failed"} /\ (pc' # "failed" => 2 <= Remaining)
    BY <1>9, <2>1, <2>2, TakeFollows DEF Table
  <2>4. n' \in Nat BY <1>9, <2>3, NumbersAreNat DEF Table, Inv, TypeOK
  <2> QED BY <1>9, <2>2, <2>3, <2>4 DEF Table, Inv, TypeOK, Place
<1>10. CASE Rest
  <2> DEFINE k == CASE sub = "instance" -> n
                    [] sub = "objects"  -> id + n * id
                    [] sub = "fields"   -> n * (id + 1)
  <2>1. n * id \in Nat /\ n * (id + 1) \in Nat BY DEF Inv, TypeOK
  <2>2. k \in Nat BY <1>10, <2>1 DEF Rest, Inv, TypeOK, Place
  <2>3. Copy(k, "heap") BY <1>10 DEF Rest
  <2> HIDE DEF k
  <2> QED BY <1>10, <2>2, <2>3, CopyFollows, SMTT(30) DEF Rest, Inv, TypeOK, Place
<1>11. CASE Entry
  <2>1. CASE n = 0
    BY <1>11, <2>1 DEF Entry, Inv, TypeOK, Follows, Place
  <2>2. CASE n > 0
    <3> DEFINE k == IF sub = "constants" THEN 2 ELSE id
    <3>1. k \in Nat BY DEF Inv, TypeOK
    <3>2. Copy(k, "type") /\ UNCHANGED sub BY <1>11, <2>2 DEF Entry
    <3> HIDE DEF k
    <3> QED BY <1>11, <2>2, <3>1, <3>2, CopyFollows DEF Entry, Inv, TypeOK, Place
  <2> QED BY <2>1, <2>2 DEF Inv, TypeOK
<1>12. CASE ElementType
  <2> DEFINE to == IF Remaining > 0 /\ U1(pos) \in Types THEN "value" ELSE "failed"
  <2>1. Take(1, to) BY <1>12 DEF ElementType
  <2>2. to \in {"value", "failed"} /\ (to = "value" => U1(pos) \in Types) OBVIOUS
  <2> HIDE DEF to
  <2>3. /\ Follows' /\ pos' \in 0..Len(in) /\ out' \in Seq(Byte) /\ left' \in Nat
        /\ pc' \in {to, "failed"}
    BY <1>12, <2>1, <2>2, TakeFollows DEF ElementType
  <2>4. size' \in Nat
    BY <1>12, <2>2, <2>3, SizesAreNat DEF ElementType, Inv, TypeOK
  <2> QED BY <1>12, <2>2, <2>3, <2>4 DEF ElementType, Inv, TypeOK, Place
<1>13. CASE Value
  <2>1. CASE sub = "primitives" /\ Zero(n * size, "heap") /\ UNCHANGED n
    <3>1. n * size \in Nat BY DEF Inv, TypeOK
    <3> QED BY <1>13, <2>1, <3>1, ZeroFollows DEF Value, Inv, TypeOK, Place
  <2>2. CASE sub # "primitives" /\ Copy(size, "entry") /\ n' = n - 1
    <3>1. sub \in {"constants", "statics"} /\ n - 1 \in Nat
      BY <1>13, <2>2 DEF Value, Inv, TypeOK, Place
    <3> QED BY <1>13, <2>2, <3>1, CopyFollows DEF Value, Inv, TypeOK, Place
  <2> QED BY <1>13, <2>1, <2>2 DEF Value
<1>14. CASE Over \/ UNCHANGED vars
  BY <1>14 DEF Over, vars, Inv, TypeOK, Follows, Place
<1> QED BY <1>1, <1>2, <1>3, <1>4, <1>5, <1>6, <1>7, <1>8, <1>9, <1>10, <1>11,
           <1>12, <1>13, <1>14 DEF Next

\* The invariant holds at all times.
THEOREM InvHolds == Spec => []Inv
BY InitInv, NextInv, PTL DEF Spec

\* The parser stays within its input and its record, whatever it is given.
THEOREM TypesHold == Spec => []TypeOK
<1>1. Inv => TypeOK BY DEF Inv
<1> QED BY <1>1, InvHolds, PTL

-----------------------------------------------------------------------------

\* The numbers of a dump are natural numbers.
LEMMA DumpNumbers ==
  ASSUME NEW d \in Seq(Byte), NEW p \in Nat
  PROVE  /\ p + 1 <= Len(d) => B1(d, p) \in 0..255
         /\ p + 2 <= Len(d) => B2(d, p) \in Nat
         /\ p + 4 <= Len(d) => B4(d, p) \in Nat
<1>1. ASSUME NEW q \in Nat, q + 1 <= Len(d) PROVE B1(d, q) \in 0..255
  <2>1. q + 1 \in 1..Len(d) BY <1>1
  <2>2. d[q + 1] \in Byte BY <2>1, ElementOfSeq
  <2> QED BY <2>2 DEF B1, Byte
<1>2. ASSUME NEW q \in Nat, q + 2 <= Len(d) PROVE B2(d, q) \in Nat
  <2>1. q + 1 \in Nat /\ q + 1 <= Len(d) /\ (q + 1) + 1 <= Len(d) BY <1>2
  <2>2. B1(d, q) \in 0..255 /\ B1(d, q + 1) \in 0..255 BY <1>1, <2>1
  <2>3. \A x, y \in 0..255 : 256 * x + y \in Nat OBVIOUS
  <2> QED BY <2>2, <2>3 DEF B2
<1>3. ASSUME p + 4 <= Len(d) PROVE B4(d, p) \in Nat
  <2>1. p + 2 \in Nat /\ p + 2 <= Len(d) /\ (p + 2) + 2 <= Len(d) BY <1>3
  <2>2. B2(d, p) \in Nat /\ B2(d, p + 2) \in Nat BY <1>2, <2>1
  <2> QED BY <2>2 DEF B4
<1> QED BY <1>1, <1>2, <1>3

-----------------------------------------------------------------------------
\* What comes after each kind of place, case by case.

\* After a top-level record.
LEMMA AfterRecordOnly ==
  ASSUME NEW d, NEW c \in Cursors, c.what = "record", NEW x
  PROVE  Leads(d, c, x) <=> x \in AfterRecord(d, c)
BY DEF Leads, After, When, AfterSub, AfterEntry, AfterTable

\* After a sub-record of a heap dump segment.
LEMMA AfterSubOnly ==
  ASSUME NEW d, NEW c \in Cursors, c.what = "sub", NEW x
  PROVE  Leads(d, c, x) <=> x \in AfterSub(d, c)
BY DEF Leads, After, When, AfterRecord, AfterEntry, AfterTable

\* After an entry of a class's constants or statics.
LEMMA AfterEntryOnly ==
  ASSUME NEW d, NEW c \in Cursors, c.what \in {"constants", "statics"}, c.n > 0,
         NEW x
  PROVE  Leads(d, c, x) <=> x \in AfterEntry(d, c)
BY DEF Leads, After, When, AfterRecord, AfterSub, AfterTable, Cursors

\* After the last entry of a table.
LEMMA AfterTableOnly ==
  ASSUME NEW d, NEW c \in Cursors, c.what \in {"constants", "statics"}, c.n = 0,
         NEW x
  PROVE  Leads(d, c, x) <=> x \in AfterTable(d, c)
BY DEF Leads, After, When, AfterRecord, AfterSub, AfterEntry, Cursors

\* The end of a segment.
LEMMA AfterSegment ==
  ASSUME NEW d, NEW c \in Cursors, c.what = "sub", c.at = c.end, NEW x
  PROVE  Leads(d, c, x) <=> c.at <= Len(d) /\ x = RecordAt(c.at)
<1>1. ~Has(d, c, 1) BY DEF Has, Cursors
<1> QED BY <1>1, AfterSubOnly DEF AfterSub, When

\* A class.
LEMMA AfterClass ==
  ASSUME NEW d, NEW c \in Cursors, c.what = "sub", Has(d, c, 1),
         B1(d, c.at) = 32, NEW x
  PROVE  Leads(d, c, x) <=>
           /\ Has(d, c, 7 * Width(d) + 11)
           /\ x = Cursor("constants", c.at + 7 * Width(d) + 11, c.end,
                         B2(d, c.at + 7 * Width(d) + 9))
<1>1. c.at # c.end BY DEF Has, Cursors
<1> QED BY <1>1, AfterSubOnly DEF AfterSub, When, RootTags

\* Every other sub-record.
LEMMA AfterSimple ==
  ASSUME NEW d, NEW c \in Cursors, c.what = "sub", Has(d, c, 1),
         B1(d, c.at) \in RootTags \cup {33, 34, 35}, NEW x, NEW k,
         k = Known(Width(d), B1(d, c.at)) + Body(d, c.at, Width(d), B1(d, c.at))
  PROVE  Leads(d, c, x) <=>
           /\ Told(d, c, Width(d), B1(d, c.at)) /\ Has(d, c, k)
           /\ x = Cursor("sub", c.at + k, c.end, 0)
<1>1. c.at # c.end BY DEF Has, Cursors
<1> QED BY <1>1, AfterSubOnly DEF AfterSub, When, RootTags

\* A tag that no sub-record has leads nowhere.
LEMMA AfterUnknown ==
  ASSUME NEW d, NEW c \in Cursors, c.what = "sub", c.at < c.end,
         c.at + 1 <= Len(d) => B1(d, c.at) \notin RootTags \cup {32, 33, 34, 35},
         NEW x
  PROVE  ~Leads(d, c, x)
<1>1. c.at # c.end BY DEF Cursors
<1> QED BY <1>1, AfterSubOnly DEF AfterSub, When, Has

\* Only one place comes after another.
LEMMA LeadsOnce ==
  ASSUME NEW d, NEW c \in Cursors, NEW x, NEW y, Leads(d, c, x), Leads(d, c, y)
  PROVE  x = y
<1>1. CASE c.what = "record"
  <2>1. x \in AfterRecord(d, c) BY <1>1, AfterRecordOnly
  <2>2. y \in AfterRecord(d, c) BY <1>1, AfterRecordOnly
  <2> QED BY <2>1, <2>2 DEF AfterRecord, When
<1>2. CASE c.what = "sub"
  <2>1. CASE c.at = c.end
    <3>1. x = RecordAt(c.at) BY <1>2, <2>1, AfterSegment
    <3>2. y = RecordAt(c.at) BY <1>2, <2>1, AfterSegment
    <3> QED BY <3>1, <3>2
  <2>2. CASE c.at # c.end
    <3>1. x \in AfterSub(d, c) /\ y \in AfterSub(d, c) BY <1>2, AfterSubOnly
    <3>2. Has(d, c, 1) BY <2>2, <3>1 DEF AfterSub, When
    <3>3. CASE B1(d, c.at) = 32 BY <1>2, <3>2, <3>3, AfterClass
    <3>4. CASE B1(d, c.at) # 32
      <4>1. B1(d, c.at) \in RootTags \cup {33, 34, 35}
        BY <2>2, <3>1, <3>4 DEF AfterSub, When
      <4> QED BY <1>2, <3>2, <4>1, AfterSimple
    <3> QED BY <3>3, <3>4
  <2> QED BY <2>1, <2>2
<1>3. CASE c.what \in {"constants", "statics"} /\ c.n > 0
  <2>1. x \in AfterEntry(d, c) BY <1>3, AfterEntryOnly
  <2>2. y \in AfterEntry(d, c) BY <1>3, AfterEntryOnly
  <2> QED BY <2>1, <2>2 DEF AfterEntry, When
<1>4. CASE c.what \in {"constants", "statics"} /\ c.n = 0
  <2>1. x \in AfterTable(d, c) BY <1>4, AfterTableOnly
  <2>2. y \in AfterTable(d, c) BY <1>4, AfterTableOnly
  <2> QED BY <1>4, <2>1, <2>2 DEF AfterTable, When
<1> QED BY <1>1, <1>2, <1>3, <1>4 DEF Cursors

\* The lengths a sub-record tells are natural numbers.
LEMMA LengthsAreNat ==
  ASSUME NEW d \in Seq(Byte), Width(d) \in {4, 8}
  PROVE  /\ \A t \in Basic : SizeOf(Width(d), t) \in 1..8
         /\ \A t \in RootTags \cup {33, 34, 35} :
              Known(Width(d), t) \in 1..25 /\ Known(Width(d), t) # 1
         /\ \A c \in Cursors :
              /\ Told(d, c, Width(d), B1(d, c.at))
              /\ B1(d, c.at) \in RootTags \cup {33, 34, 35}
              => Body(d, c.at, Width(d), B1(d, c.at)) \in Nat
<1> DEFINE w == Width(d)
<1>0. w \in {4, 8} OBVIOUS
<1> HIDE DEF w
<1>1. \A t \in Basic : SizeOf(w, t) \in 1..8
  BY <1>0 DEF Basic, SizeOf
<1>2. \A t \in RootTags \cup {33, 34, 35} : Known(w, t) \in 1..25 /\ Known(w, t) # 1
  <2> SUFFICES ASSUME NEW t \in RootTags \cup {33, 34, 35}
               PROVE  Known(w, t) \in 1..25 /\ Known(w, t) # 1
    OBVIOUS
  <2>1. \/ t \in {255, 5, 7} /\ Known(w, t) = 1 + w
        \/ t = 1 /\ Known(w, t) = 1 + 2 * w
        \/ t \in {4, 6} /\ Known(w, t) = w + 5
        \/ t \in {2, 3, 8} /\ Known(w, t) = w + 9
        \/ t = 33 /\ Known(w, t) = 2 * w + 9
        \/ t = 34 /\ Known(w, t) = w + 9
        \/ t = 35 /\ Known(w, t) = w + 10
    BY <1>0 DEF RootTags, Known
  <2>2. Known(w, t) \in {1 + w, 1 + 2 * w, w + 5, w + 9, 2 * w + 9, w + 10} BY <2>1
  <2>3. CASE w = 4 BY <2>2, <2>3
  <2>4. CASE w = 8 BY <2>2, <2>4
  <2> QED BY <1>0, <2>3, <2>4
<1>3. ASSUME NEW c \in Cursors, Told(d, c, w, B1(d, c.at)),
             B1(d, c.at) \in RootTags \cup {33, 34, 35}
      PROVE  Body(d, c.at, w, B1(d, c.at)) \in Nat
  <2> DEFINE q == c.at
             t == B1(d, q)
  <2>1. q \in Nat /\ Has(d, c, Known(w, t)) BY <1>3 DEF Cursors, Told
  <2>2. CASE t = 33
    <3>1. q + 2 * w + 5 \in Nat /\ (q + 2 * w + 5) + 4 <= Len(d)
      <4>1. Known(w, 33) = 2 * w + 9 BY <1>0 DEF Known
      <4>2. q + (2 * w + 9) <= Len(d) BY <2>1, <2>2, <4>1 DEF Has
      <4> QED BY <1>0, <2>1, <4>2
    <3>2. B4(d, q + 2 * w + 5) \in Nat BY <3>1, DumpNumbers
    <3> QED BY <2>2, <3>2 DEF Body
  <2>3. CASE t \in {34, 35}
    <3>1. q + w + 5 \in Nat /\ (q + w + 5) + 4 <= Len(d)
      <4>1. Known(w, 34) = w + 9 /\ Known(w, 35) = w + 10 BY <1>0 DEF Known
      <4>2. Known(w, t) \in {w + 9, w + 10} BY <2>3, <4>1
      <4> HIDE DEF t
      <4> QED BY <1>0, <2>1, <4>2, SMTT(30) DEF Has
    <3>2. B4(d, q + w + 5) \in Nat BY <3>1, DumpNumbers
    <3>3. CASE t = 34
      <4>1. \A b \in Nat : w + b * w \in Nat BY <1>0
      <4> QED BY <3>2, <3>3, <4>1 DEF Body
    <3>4. CASE t = 35
      <4>1. SizeOf(w, B1(d, q + w + 9)) \in 1..8 BY <1>1, <1>3, <3>4 DEF Told
      <4>2. \A b \in Nat, s \in 1..8 : b * s \in Nat OBVIOUS
      <4> QED BY <3>2, <3>4, <4>1, <4>2 DEF Body
    <3> QED BY <2>3, <3>3, <3>4
  <2>4. CASE t \in RootTags
    <3>1. t # 33 /\ t # 34 /\ t # 35 BY <2>4 DEF RootTags
    <3> QED BY <3>1 DEF Body
  <2> QED BY <1>3, <2>2, <2>3, <2>4
<1> QED BY <1>1, <1>2, <1>3 DEF w

\* What comes after a place lies behind it, in the dump and in its segment.
LEMMA LeadsOn ==
  ASSUME NEW d \in Seq(Byte), Width(d) \in {4, 8},
         NEW c \in Cursors, NEW x, Leads(d, c, x)
  PROVE  /\ x \in Cursors /\ c.at <= x.at /\ x.at <= Len(d)
         /\ c.what # "record" => x.at <= c.end
         /\ c.at < x.at \/ (c.what = "sub" /\ x.what = "record")
<1>0. /\ c.at \in Nat /\ c.end \in Nat /\ c.n \in Nat
      /\ c.what \in {"record", "sub", "constants", "statics"}
  BY DEF Cursors
<1>1. CASE c.what = "record"
  <2>1. x \in AfterRecord(d, c) BY <1>1, AfterRecordOnly
  <2>2. c.at + 5 \in Nat /\ (c.at + 5) + 4 <= Len(d) BY <1>0, <2>1 DEF AfterRecord, When
  <2>3. B4(d, c.at + 5) \in Nat BY <2>2, DumpNumbers
  <2> QED BY <1>0, <1>1, <2>1, <2>3, SMTT(30) DEF AfterRecord, When, RecordAt, Cursor, Cursors
<1>2. CASE c.what = "sub"
  <2>1. CASE c.at = c.end
    BY <1>0, <1>2, <2>1, AfterSegment DEF RecordAt, Cursor, Cursors
  <2>2. CASE c.at # c.end
    <3>1. x \in AfterSub(d, c) BY <1>2, AfterSubOnly
    <3>2. Has(d, c, 1) BY <2>2, <3>1 DEF AfterSub, When
    <3>3. CASE B1(d, c.at) = 32
      <4> DEFINE q == c.at + 7 * Width(d) + 9
      <4>1. /\ Has(d, c, 7 * Width(d) + 11)
            /\ x = Cursor("constants", q + 2, c.end, B2(d, q))
        BY <1>0, <1>2, <3>2, <3>3, AfterClass
      <4>2. q \in Nat /\ q + 2 <= Len(d) /\ q + 2 <= c.end /\ c.at < q + 2
        <5>1. c.at + (7 * Width(d) + 11) <= c.end /\ c.at + (7 * Width(d) + 11) <= Len(d)
          BY <4>1 DEF Has
        <5>2. c.at \in Nat BY <1>0
        <5> QED BY <5>1, <5>2, SMTT(30)
      <4>3. B2(d, q) \in Nat BY <4>2, DumpNumbers
      <4> HIDE DEF q
      <4> QED BY <1>0, <1>2, <4>1, <4>2, <4>3 DEF Cursor, Cursors
    <3>4. CASE B1(d, c.at) # 32
      <4> DEFINE k == Known(Width(d), B1(d, c.at)) + Body(d, c.at, Width(d), B1(d, c.at))
      <4>1. B1(d, c.at) \in RootTags \cup {33, 34, 35}
        BY <2>2, <3>1, <3>4 DEF AfterSub, When
      <4>2. /\ Told(d, c, Width(d), B1(d, c.at)) /\ Has(d, c, k)
            /\ x = Cursor("sub", c.at + k, c.end, 0)
        BY <1>2, <3>2, <4>1, AfterSimple
      <4>3. Body(d, c.at, Width(d), B1(d, c.at)) \in Nat BY <4>1, <4>2, LengthsAreNat
      <4>4. Known(Width(d), B1(d, c.at)) \in 1..25 BY <4>1, LengthsAreNat
      <4>5. k \in Nat \ {0}
        <5>1. \A m \in 1..25, b \in Nat : m + b \in Nat \ {0} OBVIOUS
        <5> QED BY <4>3, <4>4, <5>1
      <4> HIDE DEF k
      <4> QED BY <1>0, <4>2, <4>5 DEF Has, Cursor, Cursors
    <3> QED BY <3>3, <3>4
  <2> QED BY <2>1, <2>2
<1>3. CASE c.what \in {"constants", "statics"} /\ c.n > 0
  <2> DEFINE h == IF c.what = "constants" THEN 2 ELSE Width(d)
             s == SizeOf(Width(d), B1(d, c.at + h))
  <2>1. /\ B1(d, c.at + h) \in Basic /\ Has(d, c, h + 1 + s)
        /\ x = Cursor(c.what, c.at + (h + 1 + s), c.end, c.n - 1)
    BY <1>3, AfterEntryOnly DEF AfterEntry, When
  <2>2. h \in Nat /\ s \in 1..8 BY <2>1, LengthsAreNat
  <2> HIDE DEF h, s
  <2> QED BY <1>0, <1>3, <2>1, <2>2 DEF Has, Cursor, Cursors
<1>4. CASE c.what \in {"constants", "statics"} /\ c.n = 0
  <2> DEFINE b == B2(d, c.at)
  <2>1. x \in AfterTable(d, c) BY <1>4, AfterTableOnly
  <2>2. Has(d, c, 2) BY <2>1 DEF AfterTable, When
  <2>3. b \in Nat BY <1>0, <2>2, DumpNumbers DEF Has
  <2>4. b * (Width(d) + 1) \in Nat
    <3>1. \A m \in Nat, w \in {4, 8} : m * (w + 1) \in Nat OBVIOUS
    <3> QED BY <2>3, <3>1
  <2>5. CASE c.what = "constants"
    BY <1>0, <1>4, <2>1, <2>2, <2>3, <2>5 DEF AfterTable, When, Has, Cursor, Cursors
  <2>6. CASE c.what = "statics"
    <3> DEFINE k == 2 + b * (Width(d) + 1)
    <3>1. Has(d, c, k) /\ x = Cursor("sub", c.at + k, c.end, 0)
      BY <2>1, <2>6 DEF AfterTable, When
    <3>2. k \in Nat \ {0} BY <2>4
    <3> HIDE DEF k
    <3> QED BY <1>0, <2>6, <3>1, <3>2 DEF Has, Cursor, Cursors
  <2> QED BY <1>4, <2>5, <2>6
<1> QED BY <1>0, <1>1, <1>2, <1>3, <1>4

\* The values of an array lie behind its start, and what comes after the array
\* behind them.
LEMMA ValuesWithin ==
  ASSUME NEW d \in Seq(Byte), Width(d) \in {4, 8},
         NEW c \in Cursors, NEW p \in ValuesAt(d, c)
  PROVE  /\ p \in Nat /\ c.at + Width(d) + 10 < p
         /\ \A x : Leads(d, c, x) => p <= x.at
<1> DEFINE w == Width(d)
           b == Body(d, c.at, w, 35)
<1>1. /\ c.what = "sub" /\ Has(d, c, 1) /\ B1(d, c.at) = 35 /\ Told(d, c, w, 35)
      /\ p \in (c.at + Known(w, 35) + 1)..(c.at + Known(w, 35) + 1 + b - 1)
  BY DEF ValuesAt
<1>2. b \in Nat BY <1>1, LengthsAreNat
<1>3. Known(w, 35) = w + 10 BY DEF Known
<1>4. c.at \in Nat BY DEF Cursors
<1>5. ASSUME NEW x, Leads(d, c, x) PROVE p <= x.at
  <2>1. x = Cursor("sub", c.at + (Known(w, 35) + b), c.end, 0)
    BY <1>1, <1>5, AfterSimple
  <2>2. x.at = c.at + ((w + 10) + b) BY <1>3, <2>1 DEF Cursor
  <2> HIDE DEF b
  <2>3. p \in (c.at + (w + 10) + 1)..(c.at + (w + 10) + 1 + b - 1) BY <1>1, <1>3
  <2> QED BY <1>2, <1>4, <2>2, <2>3, SMTT(30)
<1> HIDE DEF b
<1>6. p \in (c.at + (w + 10) + 1)..(c.at + (w + 10) + 1 + b - 1) BY <1>1, <1>3
<1>7. p \in Nat /\ c.at + w + 10 < p BY <1>2, <1>4, <1>6
<1> QED BY <1>5, <1>7

-----------------------------------------------------------------------------
\* The places of a dump are the least set that has its first record and what
\* comes after each of its members.

\* A set of natural numbers has a least one.
LEMMA LeastNat ==
  ASSUME NEW T \in SUBSET Nat, T # {}
  PROVE  \E m \in T : \A k \in T : m <= k
<1> DEFINE R == {ss \in Nat \X Nat : ss[1] < ss[2]}
<1>1. IsWellFoundedOn(R, Nat) BY NatLessThanWellFounded, Zenon DEF OpToRel
<1>2. \A x, y \in Nat : <<x, y>> \in R <=> x < y OBVIOUS
<1> HIDE DEF R
<1>3. PICK m \in T : \A y \in T : ~(<<y, m>> \in R) BY <1>1, WFMin
<1>4. \A y \in T : ~(y < m) BY <1>2, <1>3
<1> QED BY <1>4

\* How far it is, at most, from a place to the end of the dump.
Ahead(d, c) ==
  IF c.at <= Len(d) THEN 2 * (Len(d) - c.at) + IF c.what = "sub" THEN 1 ELSE 0
  ELSE 0

\* It is less far from what comes after a place.
LEMMA LessAhead ==
  ASSUME NEW d \in Seq(Byte), Width(d) \in {4, 8}, NEW c \in Cursors
  PROVE  /\ Ahead(d, c) \in Nat
         /\ \A x : Leads(d, c, x) => Ahead(d, x) < Ahead(d, c)
<1>1. c.at \in Nat /\ Len(d) \in Nat BY DEF Cursors
<1>2. Ahead(d, c) \in Nat BY <1>1 DEF Ahead
<1>3. ASSUME NEW x, Leads(d, c, x) PROVE Ahead(d, x) < Ahead(d, c)
  <2>1. /\ x \in Cursors /\ c.at <= x.at /\ x.at <= Len(d)
        /\ c.at < x.at \/ (c.what = "sub" /\ x.what = "record")
    BY <1>3, LeadsOn
  <2>2. x.at \in Nat BY <2>1 DEF Cursors
  <2> QED BY <1>1, <2>1, <2>2 DEF Ahead
<1> QED BY <1>2, <1>3

\* A set that has a place whenever it has what comes after it has all places.
LEMMA FromBehind ==
  ASSUME NEW d \in Seq(Byte), Width(d) \in {4, 8}, NEW G,
         \A c \in Cursors : (\A x : Leads(d, c, x) => x \in G) => c \in G
  PROVE  Cursors \subseteq G
<1> SUFFICES ASSUME NEW b \in Cursors, b \notin G PROVE FALSE OBVIOUS
<1> DEFINE T == {Ahead(d, c) : c \in Cursors \ G}
<1>1. T \in SUBSET Nat BY LessAhead
<1>2. T # {} OBVIOUS
<1>3. PICK m \in T : \A k \in T : m <= k BY <1>1, <1>2, LeastNat
<1>4. PICK c \in Cursors \ G : m = Ahead(d, c) BY <1>3
<1>5. PICK x : Leads(d, c, x) /\ x \notin G BY <1>4
<1>6. x \in Cursors /\ Ahead(d, x) < Ahead(d, c) BY <1>4, <1>5, LeadsOn, LessAhead
<1>7. Ahead(d, x) \in T /\ Ahead(d, x) \in Nat /\ m \in Nat
  BY <1>1, <1>3, <1>5, <1>6
<1> HIDE DEF T
<1>8. m <= Ahead(d, x) BY <1>3, <1>7
<1> QED BY <1>4, <1>6, <1>7, <1>8

\* The sets that have what comes after each of their members.
Onwards(d) == {G \in SUBSET Cursors : \A c \in G, x \in Cursors : Leads(d, c, x) => x \in G}

\* The places from one on are that place and those from what comes after it.
LEMMA PlacesFromStep ==
  ASSUME NEW d \in Seq(Byte), Width(d) \in {4, 8}, NEW c \in Cursors
  PROVE  PlacesFrom(d)[c] = {c} \cup UNION {PlacesFrom(d)[x] : x \in After(d, c)}
<1> DEFINE Step(f, a) == {a} \cup UNION {f[x] : x \in After(d, a)}
           Least(a) == {x \in Cursors : \A G \in Onwards(d) : a \in G => x \in G}
           F == [a \in Cursors |-> Least(a)]
           f == CHOOSE f : f = [a \in Cursors |-> Step(f, a)]
<1>1. \A a \in Cursors : After(d, a) \subseteq Cursors BY LeadsOn DEF Leads
<1>2. ASSUME NEW a \in Cursors PROVE Least(a) = Step(F, a)
  <2>1. \A x \in After(d, a) : F[x] = Least(x) BY <1>1
  <2> HIDE DEF F
  <2>2. Step(F, a) \in Onwards(d)
    <3>1. Step(F, a) \in SUBSET Cursors BY <1>1, <2>1
    <3>2. ASSUME NEW y \in Step(F, a), NEW x \in Cursors, Leads(d, y, x)
          PROVE  x \in Step(F, a)
      <4>1. CASE y = a
        <5>1. x \in After(d, a) BY <3>2, <4>1 DEF Leads
        <5>2. x \in F[x] BY <2>1, <5>1, <3>2
        <5> QED BY <5>1, <5>2
      <4>2. CASE y # a
        <5>1. PICK z \in After(d, a) : y \in F[z] BY <4>2
        <5>2. x \in F[z] BY <2>1, <3>2, <5>1 DEF Onwards
        <5> QED BY <5>1, <5>2
      <4> QED BY <4>1, <4>2
    <3> QED BY <3>1, <3>2 DEF Onwards
  <2>3. a \in Step(F, a) OBVIOUS
  <2>4. Least(a) \subseteq Step(F, a) BY <2>2, <2>3
  <2>5. ASSUME NEW y \in Step(F, a) PROVE y \in Least(a)
    <3>1. CASE y = a BY <3>1
    <3>2. CASE y # a
      <4>1. PICK z \in After(d, a) : y \in F[z] BY <3>2, <2>5
      <4>2. z \in Cursors /\ Leads(d, a, z) BY <1>1, <4>1 DEF Leads
      <4>3. y \in Cursors /\ \A G \in Onwards(d) : z \in G => y \in G BY <2>1, <4>1
      <4>4. \A G \in Onwards(d) : a \in G => z \in G BY <4>2 DEF Onwards
      <4> QED BY <4>3, <4>4
    <3> QED BY <3>1, <3>2
  <2> QED BY <2>4, <2>5
<1>3. F = [a \in Cursors |-> Step(F, a)] BY <1>2
<1>4. f = [a \in Cursors |-> Step(f, a)] BY <1>3
<1>5. PlacesFrom(d) = f BY DEF PlacesFrom
<1> HIDE DEF f
<1>6. f[c] = Step(f, c) BY <1>4
<1> QED BY <1>5, <1>6

\* No place is missing from a set that has the first record and what comes after
\* each of its members.
LEMMA PlacesLeast ==
  ASSUME NEW d \in Seq(Byte), NEW G \in Onwards(d), Opens(d) => RecordAt(13) \in G
  PROVE  Places(d) \subseteq G
<1>1. CASE ~Opens(d) BY <1>1 DEF Places
<1>2. CASE Opens(d)
  <2>1. Width(d) \in {4, 8} /\ G \subseteq Cursors BY <1>2 DEF Opens, Onwards
  <2> DEFINE H == {c \in Cursors : c \in G => PlacesFrom(d)[c] \subseteq G}
  <2>2. ASSUME NEW c \in Cursors, \A x : Leads(d, c, x) => x \in H PROVE c \in H
    <3>1. ASSUME c \in G PROVE PlacesFrom(d)[c] \subseteq G
      <4>1. ASSUME NEW x \in After(d, c) PROVE PlacesFrom(d)[x] \subseteq G
        <5>1. Leads(d, c, x) /\ x \in Cursors BY <2>1, <4>1, LeadsOn DEF Leads
        <5>2. x \in G BY <3>1, <5>1 DEF Onwards
        <5> QED BY <2>2, <5>1, <5>2
      <4>2. PlacesFrom(d)[c] = {c} \cup UNION {PlacesFrom(d)[x] : x \in After(d, c)}
        BY <2>1, PlacesFromStep
      <4> QED BY <3>1, <4>1, <4>2
    <3> QED BY <3>1
  <2> HIDE DEF H
  <2>3. Cursors \subseteq H BY <2>1, <2>2, FromBehind
  <2>4. RecordAt(13) \in H /\ RecordAt(13) \in G BY <1>2, <2>1, <2>3
  <2> QED BY <1>2, <2>4 DEF H, Places
<1> QED BY <1>1, <1>2

\* The places are such a set themselves.
LEMMA PlacesClosed ==
  ASSUME NEW d \in Seq(Byte)
  PROVE  Places(d) \in Onwards(d) /\ (Opens(d) => RecordAt(13) \in Places(d))
<1>1. CASE ~Opens(d) BY <1>1 DEF Places, Onwards
<1>2. CASE Opens(d)
  <2>1. Width(d) \in {4, 8} BY <1>2 DEF Opens
  <2> DEFINE H == {c \in Cursors : PlacesFrom(d)[c] \in Onwards(d)}
  <2>2. ASSUME NEW c \in Cursors, \A x : Leads(d, c, x) => x \in H PROVE c \in H
    <3> DEFINE S == PlacesFrom(d)[c]
    <3>1. S = {c} \cup UNION {PlacesFrom(d)[x] : x \in After(d, c)}
      BY <2>1, PlacesFromStep
    <3>2. \A x \in After(d, c) : PlacesFrom(d)[x] \in Onwards(d) BY <2>2 DEF Leads
    <3>3. \A x \in After(d, c) : x \in PlacesFrom(d)[x]
      <4>1. \A x \in After(d, c) : x \in Cursors BY <2>1, LeadsOn DEF Leads
      <4> QED BY <2>1, <4>1, PlacesFromStep
    <3> HIDE DEF S
    <3>4. S \in SUBSET Cursors BY <3>1, <3>2 DEF Onwards
    <3>5. ASSUME NEW y \in S, NEW x \in Cursors, Leads(d, y, x) PROVE x \in S
      <4>1. CASE y = c
        <5>1. x \in After(d, c) BY <3>5, <4>1 DEF Leads
        <5> QED BY <3>1, <3>3, <5>1
      <4>2. CASE y # c
        <5>1. PICK z \in After(d, c) : y \in PlacesFrom(d)[z] BY <3>1, <4>2
        <5>2. x \in PlacesFrom(d)[z] BY <3>2, <3>5, <5>1 DEF Onwards
        <5> QED BY <3>1, <5>1, <5>2
      <4> QED BY <4>1, <4>2
    <3>6. S \in Onwards(d) BY <3>4, <3>5 DEF Onwards
    <3> QED BY <3>6 DEF S
  <2> HIDE DEF H
  <2>3. Cursors \subseteq H BY <2>1, <2>2, FromBehind
  <2>4. RecordAt(13) \in Cursors BY DEF RecordAt, Cursor, Cursors
  <2>5. RecordAt(13) \in PlacesFrom(d)[RecordAt(13)] BY <2>1, <2>4, PlacesFromStep
  <2>6. PlacesFrom(d)[RecordAt(13)] \in Onwards(d) BY <2>3, <2>4 DEF H
  <2> QED BY <1>2, <2>5, <2>6 DEF Places
<1> QED BY <1>1, <1>2

-----------------------------------------------------------------------------

\* The parser is at the place c of the dump d, and P are those it has passed.
Trail(d, P, c) ==
  /\ Opens(d) /\ P \in SUBSET Cursors /\ c \in Cursors \cap Places(d)
  /\ RecordAt(13) \in P \cup {c}
  /\ \A y \in P : \E x \in P \cup {c} : Leads(d, y, x)
  /\ \A y \in P : \A p \in ValuesAt(d, y) : p <= c.at

\* The trail begins at the first record.
LEMMA TrailStarts ==
  ASSUME NEW d \in Seq(Byte), Opens(d)
  PROVE  Trail(d, {}, RecordAt(13))
<1>1. RecordAt(13) \in Cursors BY DEF RecordAt, Cursor, Cursors
<1> QED BY <1>1, PlacesClosed DEF Trail

\* One place on, the place left behind joins the trail.
LEMMA TrailGoesOn ==
  ASSUME NEW d \in Seq(Byte), NEW P, NEW c, Trail(d, P, c), NEW x, Leads(d, c, x)
  PROVE  Trail(d, P \cup {c}, x)
<1>1. c \in Cursors /\ Width(d) \in {4, 8} BY DEF Trail, Opens
<1>2. x \in Cursors /\ c.at <= x.at BY <1>1, LeadsOn
<1>3. x \in Places(d) BY <1>2, PlacesClosed DEF Trail, Onwards
<1>4. ASSUME NEW y \in P \cup {c} PROVE \E z \in (P \cup {c}) \cup {x} : Leads(d, y, z)
  <2>1. CASE y \in P BY <2>1 DEF Trail
  <2>2. CASE y = c BY <2>2
  <2> QED BY <2>1, <2>2
<1>5. ASSUME NEW y \in P \cup {c}, NEW p \in ValuesAt(d, y) PROVE p <= x.at
  <2>1. CASE y \in P
    <3>1. y \in Cursors /\ p <= c.at BY <2>1, <1>5 DEF Trail
    <3>2. p \in Nat BY <1>1, <1>5, <3>1, ValuesWithin
    <3> QED BY <1>1, <1>2, <3>1, <3>2 DEF Cursors
  <2>2. CASE y = c BY <1>1, <1>5, <2>2, ValuesWithin
  <2> QED BY <2>1, <2>2
<1> QED BY <1>1, <1>2, <1>3, <1>4, <1>5 DEF Trail

\* Of the bytes between a place and the next, only its own values are values.
LEMMA ValuesHere ==
  ASSUME NEW d \in Seq(Byte), NEW P, NEW c, Trail(d, P, c),
         NEW p \in Nat, c.at < p, \A x : Leads(d, c, x) => p <= x.at
  PROVE  p \in Values(d) <=> p \in ValuesAt(d, c)
<1>1. c \in Cursors /\ Width(d) \in {4, 8} /\ c.at \in Nat
  BY DEF Trail, Opens, Cursors
<1>2. p \in ValuesAt(d, c) => p \in Values(d) BY DEF Values, Trail
<1>3. ASSUME p \in Values(d) PROVE p \in ValuesAt(d, c)
  <2> DEFINE G == P \cup {c} \cup {x \in Cursors : p <= x.at}
  <2>1. G \in SUBSET Cursors BY <1>1 DEF Trail
  <2>2. ASSUME NEW y \in G, NEW x \in Cursors, Leads(d, y, x) PROVE x \in G
    <3>1. CASE y \in P
      <4>1. PICK z \in P \cup {c} : Leads(d, y, z) BY <3>1 DEF Trail
      <4>2. z = x BY <2>1, <2>2, <4>1, LeadsOnce
      <4> QED BY <4>1, <4>2
    <3>2. CASE y = c BY <2>2, <3>2
    <3>3. CASE y \in Cursors /\ p <= y.at
      <4>1. y.at <= x.at BY <1>1, <2>2, <3>3, LeadsOn
      <4>2. y.at \in Nat /\ x.at \in Nat BY <2>2, <3>3 DEF Cursors
      <4> QED BY <3>3, <4>1, <4>2
    <3> QED BY <3>1, <3>2, <3>3
  <2>3. G \in Onwards(d) /\ RecordAt(13) \in P \cup {c} BY <2>1, <2>2 DEF Onwards, Trail
  <2>4. Places(d) \subseteq G BY <2>3, PlacesLeast
  <2>5. PICK y \in Places(d) : p \in ValuesAt(d, y) BY <1>3 DEF Values
  <2>6. y \in Cursors /\ y.at \in Nat BY <2>1, <2>4 DEF Cursors
  <2>7. y.at + Width(d) + 10 < p BY <1>1, <2>5, <2>6, ValuesWithin
  <2>8. ~(p <= y.at) BY <1>1, <2>6, <2>7
  <2>9. y \notin P
    <3>1. ASSUME y \in P PROVE FALSE
      <4>1. p <= c.at BY <2>5, <3>1 DEF Trail
      <4> QED BY <1>1, <4>1
    <3> QED BY <3>1
  <2>10. y = c BY <2>4, <2>8, <2>9
  <2> QED BY <2>5, <2>10
<1> QED BY <1>2, <1>3

\* A dump that stops making sense at a place is not readable.
LEMMA NotReadable ==
  ASSUME NEW d \in Seq(Byte), NEW P, NEW c, Trail(d, P, c),
         c # RecordAt(Len(d)), \A x : ~Leads(d, c, x)
  PROVE  ~Readable(d)
<1> DEFINE G == P \cup {c}
           z == RecordAt(Len(d))
<1>1. c \in Cursors /\ G \in SUBSET Cursors BY DEF Trail
<1>2. ASSUME NEW y \in G, NEW x \in Cursors, Leads(d, y, x) PROVE x \in G
  <2>1. y \in P BY <1>2
  <2>2. PICK v \in P \cup {c} : Leads(d, y, v) BY <2>1 DEF Trail
  <2>3. v = x BY <1>1, <1>2, <2>2, LeadsOnce
  <2> QED BY <2>2, <2>3
<1>3. G \in Onwards(d) /\ RecordAt(13) \in G BY <1>1, <1>2 DEF Onwards, Trail
<1>4. Places(d) \subseteq G BY <1>3, PlacesLeast
<1>5. z \notin P
  <2>1. ASSUME z \in P PROVE FALSE
    <3>1. PICK v : Leads(d, z, v) BY <2>1 DEF Trail
    <3>2. z \in Cursors /\ z.what = "record" /\ z.at = Len(d)
      BY <1>1, <2>1 DEF RecordAt, Cursor
    <3>3. v \in AfterRecord(d, z) BY <3>1, <3>2, AfterRecordOnly
    <3>4. Len(d) + 9 <= Len(d) BY <3>2, <3>3 DEF AfterRecord, When
    <3> QED BY <3>4
  <2> QED BY <2>1
<1> QED BY <1>4, <1>5 DEF Readable

-----------------------------------------------------------------------------

\* What was written is the input, the values of its arrays zeroed.
Exact == \A p \in 1..Len(out) : out[p] = IF p \in Values(in) THEN 0 ELSE in[p]

\* Writing bytes that are exact keeps the output exact.
LEMMA EmitExact ==
  ASSUME Inv, pc # "failed", Exact, UNCHANGED in, NEW k \in Nat,
         NEW bytes \in Seq(Byte),
         \A p \in 1..Len(bytes) :
           bytes[p] = IF pos + p \in Values(in) THEN 0 ELSE in[pos + p],
         Emit(k, bytes)
  PROVE  Exact'
<1>1. /\ pos \in Nat /\ out \in Seq(Byte) /\ Len(out) = pos /\ in' = in
  BY BytesAhead DEF Inv, TypeOK, Follows
<1> DEFINE o == out \o bytes
<1>2. /\ Len(o) = Len(out) + Len(bytes)
      /\ \A i \in 1..(Len(out) + Len(bytes)) :
           o[i] = IF i <= Len(out) THEN out[i] ELSE bytes[i - Len(out)]
  BY <1>1, ConcatProperties, Zenon
<1>3. out' = o BY DEF Emit
<1> HIDE DEF o
<1>4. Len(bytes) \in Nat OBVIOUS
<1>5. ASSUME NEW p \in 1..Len(o)
      PROVE  o[p] = IF p \in Values(in) THEN 0 ELSE in[p]
  <2>1. CASE p <= pos
    <3>1. p \in 1..Len(out) /\ o[p] = out[p] BY <1>1, <1>2, <1>4, <1>5, <2>1
    <3> QED BY <3>1 DEF Exact
  <2>2. CASE p > pos
    <3>1. p - pos \in 1..Len(bytes) /\ pos + (p - pos) = p
      BY <1>1, <1>2, <1>4, <1>5, <2>2
    <3>2. bytes[p - pos] = IF p \in Values(in) THEN 0 ELSE in[p] BY <3>1
    <3>3. o[p] = bytes[p - pos] BY <1>1, <1>2, <1>4, <1>5, <2>2
    <3> QED BY <3>2, <3>3
  <2> QED BY <1>1, <1>2, <1>4, <1>5, <2>1, <2>2
<1> QED BY <1>1, <1>3, <1>5 DEF Exact

\* The outcomes of take, copy and zero: k bytes were read, or the dump is not
\* readable.
MovedOn(k, to) ==
  pc' = to /\ k <= left /\ k <= Remaining /\ pos' = pos + k /\ left' = left - k
Rejected == pc' = "failed" /\ ~Readable(in)

\* take, copy and zero at a place whose next one lies behind what they read.
LEMMA MoveExact ==
  ASSUME Inv, pc # "failed", Exact, UNCHANGED in,
         NEW P, NEW c, Trail(in, P, c), c # RecordAt(Len(in)), c.at <= pos,
         NEW k \in Nat, NEW to, NEW bytes, NEW short \in Seq(Byte),
         \A x : Leads(in, c, x) => pos + k <= x.at,
         k <= left \/ (c.what # "record" /\ c.end = pos + left),
         k <= Remaining =>
           /\ bytes \in Seq(Byte) /\ Len(bytes) = k
           /\ \A p \in 1..k :
                bytes[p] = IF pos + p \in ValuesAt(in, c) THEN 0 ELSE in[pos + p],
         k > Remaining =>
           /\ Len(short) <= Remaining
           /\ \A p \in 1..Len(short) :
                short[p] = IF pos + p \in ValuesAt(in, c) THEN 0 ELSE in[pos + p],
         Move(k, bytes, short, to)
  PROVE  Exact' /\ (Rejected \/ MovedOn(k, to))
<1>1. /\ in \in Seq(Byte) /\ pos \in Nat /\ Remaining \in Nat
      /\ Len(in) = pos + Remaining /\ left \in Nat
  BY BytesAhead DEF Inv, TypeOK
<1>2. c \in Cursors /\ c.at \in Nat /\ c.end \in Nat /\ Width(in) \in {4, 8}
  BY DEF Trail, Opens, Cursors
<1>3. ASSUME NEW p \in 1..k
      PROVE  pos + p \in Values(in) <=> pos + p \in ValuesAt(in, c)
  <2>1. pos + p \in Nat /\ c.at < pos + p BY <1>1, <1>2
  <2>2. ASSUME NEW x, Leads(in, c, x) PROVE pos + p <= x.at
    <3>1. x.at \in Nat BY <1>1, <1>2, <2>2, LeadsOn DEF Cursors
    <3>2. pos + k <= x.at BY <2>2
    <3> QED BY <1>1, <3>1, <3>2
  <2> QED BY <1>1, <2>1, <2>2, ValuesHere
<1>4. ASSUME k > left \/ k > Remaining
      PROVE  ~Readable(in)
  <2>1. ASSUME NEW x, Leads(in, c, x) PROVE FALSE
    <3>1. x.at \in Nat /\ x.at <= Len(in) /\ (c.what # "record" => x.at <= c.end)
      <4>1. x \in Cursors /\ x.at <= Len(in) /\ (c.what # "record" => x.at <= c.end)
        BY <1>1, <1>2, <2>1, LeadsOn
      <4> QED BY <4>1 DEF Cursors
    <3>2. pos + k <= x.at BY <2>1
    <3>3. CASE k > Remaining BY <1>1, <3>1, <3>2, <3>3
    <3>4. CASE k > left BY <1>1, <1>2, <3>1, <3>2, <3>4
    <3> QED BY <1>4, <3>3, <3>4
  <2> QED BY <1>1, <2>1, NotReadable
<1>5. CASE k > left /\ Fail
  BY <1>4, <1>5 DEF Fail, Exact, Rejected
<1>6. CASE /\ k <= left /\ k <= Remaining
           /\ Emit(k, bytes) /\ left' = left - k /\ pc' = to
  <2>1. bytes \in Seq(Byte) /\ Len(bytes) = k BY <1>6
  <2>2. \A p \in 1..Len(bytes) :
          bytes[p] = IF pos + p \in Values(in) THEN 0 ELSE in[pos + p]
    BY <1>3, <1>6
  <2>3. Exact' BY <1>6, <2>1, <2>2, EmitExact
  <2> QED BY <1>6, <2>3 DEF Emit, MovedOn
<1>7. CASE /\ k <= left /\ k > Remaining
           /\ Emit(Remaining, short) /\ left' = left - k /\ pc' = "failed"
  <2>1. Len(short) <= Remaining /\ Len(short) \in Nat BY <1>7
  <2>2. \A p \in 1..Len(short) : p \in 1..k BY <1>1, <1>7, <2>1
  <2>3. \A p \in 1..Len(short) :
          short[p] = IF pos + p \in Values(in) THEN 0 ELSE in[pos + p]
    BY <1>3, <1>7, <2>2
  <2>4. Exact' BY <1>1, <1>7, <2>3, EmitExact
  <2> QED BY <1>4, <1>7, <2>4 DEF Rejected
<1> QED BY <1>5, <1>6, <1>7 DEF Move

\* The same of each of the three, at a place whose values lie behind what take
\* and copy read and are what zero reads.
At(P, c, k) ==
  /\ Trail(in, P, c) /\ c # RecordAt(Len(in)) /\ c.at <= pos
  /\ \A x : Leads(in, c, x) => pos + k <= x.at
  /\ k <= left \/ (c.what # "record" /\ c.end = pos + left)

\* Reading k bytes that hold no value keeps the output exact.
LEMMA TakeExact ==
  ASSUME Inv, pc # "failed", Exact, UNCHANGED in, NEW P, NEW c, NEW k \in Nat,
         At(P, c, k), \A p \in ValuesAt(in, c) : pos + k < p,
         NEW to, Take(k, to)
  PROVE  Exact' /\ (Rejected \/ MovedOn(k, to))
<1> DEFINE u == Upcoming(k)
           e == <<>>
<1>1. Remaining \in Nat /\ pos \in Nat BY BytesAhead
<1>2. k <= Remaining => /\ u \in Seq(Byte) /\ Len(u) = k
                        /\ \A p \in 1..k : u[p] = in[pos + p]
  BY UpcomingIsInput
<1>3. \A p \in 1..k : pos + p \notin ValuesAt(in, c) BY <1>1
<1>4. e \in Seq(Byte) /\ Len(e) = 0 OBVIOUS
<1>5. Move(k, u, e, to) BY DEF Take
<1>6. /\ Len(e) <= Remaining
      /\ \A p \in 1..Len(e) :
           e[p] = IF pos + p \in ValuesAt(in, c) THEN 0 ELSE in[pos + p]
  BY <1>1, <1>4
<1> HIDE DEF u, e
<1> QED BY <1>2, <1>3, <1>4, <1>5, <1>6, MoveExact DEF At

\* So does copying them.
LEMMA CopyExact ==
  ASSUME Inv, pc # "failed", Exact, UNCHANGED in, NEW P, NEW c, NEW k \in Nat,
         At(P, c, k), \A p \in ValuesAt(in, c) : pos + k < p,
         NEW to, Copy(k, to)
  PROVE  Exact' /\ (Rejected \/ MovedOn(k, to))
<1> DEFINE u == Upcoming(k)
           v == Upcoming(Remaining)
<1>1. Remaining \in Nat /\ pos \in Nat BY BytesAhead
<1>2. k <= Remaining => /\ u \in Seq(Byte) /\ Len(u) = k
                        /\ \A p \in 1..k : u[p] = in[pos + p]
  BY UpcomingIsInput
<1>3. \A p \in 1..k : pos + p \notin ValuesAt(in, c) BY <1>1
<1>4. /\ v \in Seq(Byte) /\ Len(v) = Remaining
      /\ \A p \in 1..Remaining : v[p] = in[pos + p]
  BY <1>1, UpcomingIsInput
<1>5. k > Remaining => \A p \in 1..Remaining : p \in 1..k BY <1>1
<1>6. k > Remaining =>
        /\ Len(v) <= Remaining
        /\ \A p \in 1..Len(v) :
             v[p] = IF pos + p \in ValuesAt(in, c) THEN 0 ELSE in[pos + p]
  BY <1>1, <1>3, <1>4, <1>5
<1>7. Move(k, u, v, to) BY DEF Copy
<1> HIDE DEF u, v
<1> QED BY <1>2, <1>3, <1>4, <1>6, <1>7, MoveExact DEF At

\* Zeroing k bytes that are all of values keeps the output exact.
LEMMA ZeroExact ==
  ASSUME Inv, pc # "failed", Exact, UNCHANGED in, NEW P, NEW c, NEW k \in Nat,
         At(P, c, k), \A p \in 1..k : pos + p \in ValuesAt(in, c),
         NEW to, Zero(k, to)
  PROVE  Exact' /\ (Rejected \/ MovedOn(k, to))
<1> DEFINE m == Chunk * (Remaining \div Chunk)
           zeros == [j \in 1..k |-> 0]
           cut == [j \in 1..m |-> 0]
<1>1. Remaining \in Nat BY NumbersAreNat
<1>2. m \in Nat /\ m <= Remaining BY <1>1 DEF Chunk
<1>3. Move(k, zeros, cut, to) BY DEF Zero
<1> HIDE DEF m
<1>4. zeros \in Seq(Byte) /\ Len(zeros) = k /\ \A p \in 1..k : zeros[p] = 0
  BY DEF Byte
<1>5. cut \in Seq(Byte) /\ Len(cut) = m /\ \A p \in 1..m : cut[p] = 0
  BY <1>2 DEF Byte
<1> HIDE DEF zeros, cut
<1>6. k > Remaining => \A p \in 1..m : p \in 1..k BY <1>1, <1>2
<1>7. k > Remaining =>
        /\ Len(cut) <= Remaining
        /\ \A p \in 1..Len(cut) :
             cut[p] = IF pos + p \in ValuesAt(in, c) THEN 0 ELSE in[pos + p]
  BY <1>2, <1>5, <1>6
<1> QED BY <1>3, <1>4, <1>5, <1>7, MoveExact DEF At

-----------------------------------------------------------------------------
\* Where the parser is when it reads what starts at c.

InRecords(c) ==
  /\ pc \in {"record", "ok"} => c = RecordAt(pos)
  /\ pc = "skip" => /\ c.what = "record" /\ pos = c.at + 9
                    /\ left = B4(in, c.at + 5) /\ B1(in, c.at) \notin {12, 28}
  /\ pc = "heap" => c = Cursor("sub", pos, pos + left, 0)

CountAt(w, t) == IF t = 33 THEN 2 * w + 5 ELSE w + 5

InSub(c) ==
  LET w == Width(in)
      t == B1(in, c.at)
      b == B1(in, c.at + w + 9) IN
  \/ pc = "root" \/ pc = "lead" \/ pc = "count"
  \/ pc \in {"rest", "type", "value"} /\ sub \in {"instance", "objects", "primitives"}
  =>
  /\ c.what = "sub" /\ c.end = pos + left /\ Has(in, c, 1)
  /\ pc = "root" => t \in RootTags /\ pos = c.at + 1 /\ n = Known(w, t) - 1
  /\ pc # "root" => t \in {32, 33, 34, 35} /\ sub = Kind(t)
  /\ pc = "lead" => pos = c.at + 1
  /\ pc = "count" => pos = c.at + CountAt(w, t)
  /\ pc \in {"rest", "type"} => pos = c.at + CountAt(w, t) + 4
  /\ pc \in {"rest", "type", "value"} => n = B4(in, c.at + CountAt(w, t))
  /\ pc = "value" => pos = c.at + w + 10 /\ b \in Basic /\ size = SizeOf(w, b)

Name(w) == IF sub = "constants" THEN 2 ELSE w

InClass(c) ==
  LET w == Width(in)
      b == B1(in, c.at + Name(w)) IN
  /\ pc = "table" /\ sub = "constants" =>
       /\ c.what = "sub" /\ c.end = pos + left /\ Has(in, c, 1)
       /\ B1(in, c.at) = 32 /\ pos = c.at + 7 * w + 9
  /\ pc = "table" /\ sub = "statics" => c = Cursor("constants", pos, pos + left, 0)
  /\ pc = "table" /\ sub = "fields" => c = Cursor("statics", pos, pos + left, 0)
  /\ pc = "rest" /\ sub = "fields" =>
       /\ c.what = "statics" /\ c.n = 0 /\ c.end = pos + left
       /\ pos = c.at + 2 /\ n = B2(in, c.at)
  /\ pc = "entry" => c = Cursor(sub, pos, pos + left, n)
  /\ pc \in {"type", "value"} /\ sub \in {"constants", "statics"} =>
       /\ c.what = sub /\ c.n = n /\ c.end = pos + left
       /\ pc = "type" => pos = c.at + Name(w)
       /\ pc = "value" => /\ pos = c.at + Name(w) + 1
                          /\ b \in Basic /\ size = SizeOf(w, b)

Reading(c) == InRecords(c) /\ InSub(c) /\ InClass(c)

Parses(P, c) == Trail(in, P, c) /\ id = Width(in) /\ Reading(c)

\* A step gets somewhere, or finds that the dump is not readable; either way
\* what it writes is exact.
Onward ==
  Exact' /\ (Rejected \/ (pc' # "failed" /\ \E P, c : Parses(P, c)'))

\* Where the parser stands, in numbers.
LEMMA Here ==
  ASSUME Inv, NEW P, NEW c, Parses(P, c)
  PROVE  /\ in \in Seq(Byte) /\ pos \in Nat /\ Remaining \in Nat
         /\ Len(in) = pos + Remaining
         /\ left \in Nat /\ n \in Nat /\ size \in Nat
         /\ id = Width(in) /\ id \in {4, 8}
         /\ c \in Cursors /\ c.at \in Nat /\ c.end \in Nat /\ c.n \in Nat
BY BytesAhead DEF Inv, TypeOK, Parses, Trail, Opens, Cursors

\* What was read is there.
LEMMA WasThere ==
  ASSUME Inv, NEW P, NEW c, Parses(P, c), c.end = pos + left,
         NEW k \in Nat, k <= left, k <= Remaining, NEW m, c.at + m = pos + k
  PROVE  Has(in, c, m)
<1>1. pos \in Nat /\ left \in Nat /\ Remaining \in Nat /\ Len(in) = pos + Remaining
  BY Here
<1>2. pos + k <= pos + left /\ pos + k <= Len(in) BY <1>1
<1> QED BY <1>2 DEF Has

\* A step within a place.
LEMMA Stay ==
  ASSUME NEW P, NEW c, Parses(P, c), UNCHANGED <<in, id>>, Exact', Reading(c)',
         pc' # "failed"
  PROVE  Onward
<1>1. Trail(in, P, c) /\ id = Width(in) BY DEF Parses
<1>2. Trail(in', P, c) /\ id' = Width(in') BY <1>1
<1>3. Parses(P, c)' BY <1>2 DEF Parses
<1> QED BY <1>3 DEF Onward

\* A step to the next place.
LEMMA GoOn ==
  ASSUME Inv, NEW P, NEW c, Parses(P, c), UNCHANGED <<in, id>>, Exact',
         NEW x, Leads(in, c, x), Reading(x)', pc' # "failed"
  PROVE  Onward
<1>1. in \in Seq(Byte) BY Here
<1>2. Trail(in, P, c) /\ id = Width(in) BY DEF Parses
<1>3. Trail(in, P \cup {c}, x) BY <1>1, <1>2, TrailGoesOn
<1>4. Trail(in', P \cup {c}, x) /\ id' = Width(in') BY <1>2, <1>3
<1>5. Parses(P \cup {c}, x)' BY <1>4 DEF Parses
<1> QED BY <1>5 DEF Onward

\* Giving up at a place that leads nowhere.
LEMMA Stop ==
  ASSUME Inv, NEW P, NEW c, Parses(P, c), Exact', pc' = "failed",
         c # RecordAt(Len(in)), \A x : ~Leads(in, c, x)
  PROVE  Onward
<1>1. in \in Seq(Byte) BY Here
<1> QED BY <1>1, NotReadable DEF Onward, Rejected, Parses

\* The parser's tables are the format's.
LEMMA SameTables ==
  ASSUME id \in {4, 8}
  PROVE  /\ Roots = RootTags /\ Bodies = {32, 33, 34, 35} /\ Types = Basic
         /\ HeapTags = {12, 28}
         /\ \A t \in Roots : RootSize(t) = Known(id, t) - 1
         /\ \A t \in Types : TypeSize(t) = SizeOf(id, t)
         /\ \A p : U1(p) = B1(in, p) /\ U2(p) = B2(in, p) /\ U4(p) = B4(in, p)
<1>1. /\ Roots = RootTags /\ Bodies = {32, 33, 34, 35} /\ HeapTags = {12, 28}
  BY DEF Roots, RootTags, Bodies, HeapTags
<1>2. Types = Basic BY DEF Types, Basic
<1>3. ASSUME NEW t \in Roots PROVE RootSize(t) = Known(id, t) - 1
  <2>1. CASE t \in {255, 5, 7} BY <2>1 DEF RootSize, Known
  <2>2. CASE t = 1 BY <2>2 DEF RootSize, Known
  <2>3. CASE t \in {4, 6} BY <2>3 DEF RootSize, Known
  <2>4. CASE t \in {2, 3, 8} BY <2>4 DEF RootSize, Known
  <2> QED BY <2>1, <2>2, <2>3, <2>4 DEF Roots
<1>4. ASSUME NEW t \in Types PROVE TypeSize(t) = SizeOf(id, t)
  BY <1>2 DEF Basic, TypeSize, SizeOf
<1>5. \A p : U1(p) = B1(in, p) /\ U2(p) = B2(in, p) /\ U4(p) = B4(in, p)
  BY DEF U1, U2, U4, B1, B2, B4
<1> QED BY <1>1, <1>2, <1>3, <1>4, <1>5

\* Nothing but an array has values.
LEMMA NoValues ==
  ASSUME NEW d, NEW c, c.what # "sub" \/ B1(d, c.at) # 35
  PROVE  ValuesAt(d, c) = {}
BY DEF ValuesAt

\* The lengths of the sub-records that carry a count.
LEMMA KnownLengths ==
  ASSUME NEW w \in {4, 8}
  PROVE  /\ Known(w, 33) = 2 * w + 9 /\ CountAt(w, 33) = 2 * w + 5
         /\ Known(w, 34) = w + 9 /\ CountAt(w, 34) = w + 5
         /\ Known(w, 35) = w + 10 /\ CountAt(w, 35) = w + 5
BY DEF Known, CountAt

\* How far a sub-record reaches at least.
LEMMA SubReaches ==
  ASSUME NEW d \in Seq(Byte), Width(d) \in {4, 8},
         NEW c \in Cursors, c.what = "sub", Has(d, c, 1), NEW x, Leads(d, c, x)
  PROVE  /\ B1(d, c.at) \in RootTags \cup {32, 33, 34, 35}
         /\ B1(d, c.at) = 32 => c.at + 7 * Width(d) + 11 <= x.at
         /\ B1(d, c.at) # 32 => c.at + Known(Width(d), B1(d, c.at)) <= x.at
         /\ c.at + 1 <= x.at
<1> DEFINE w == Width(d)
           t == B1(d, c.at)
           k == Known(w, t)
           b == Body(d, c.at, w, t)
<1>1. c.at \in Nat /\ c.at < c.end BY DEF Cursors, Has
<1>2. t \in RootTags \cup {32, 33, 34, 35} BY <1>1, AfterUnknown
<1>3. CASE t = 32
  <2>1. x.at = c.at + 7 * w + 11 BY <1>3, AfterClass DEF Cursor
  <2> QED BY <1>1, <1>2, <1>3, <2>1
<1>4. CASE t # 32
  <2>1. Told(d, c, w, t) /\ x.at = c.at + (k + b) BY <1>2, <1>4, AfterSimple DEF Cursor
  <2>2. t \in RootTags \cup {33, 34, 35} BY <1>2, <1>4
  <2>3. b \in Nat BY <2>1, <2>2, LengthsAreNat
  <2>4. k \in 1..25 BY <2>2, LengthsAreNat
  <2> HIDE DEF b, k
  <2>5. c.at + k <= x.at /\ c.at + 1 <= x.at BY <1>1, <2>1, <2>3, <2>4
  <2> QED BY <1>2, <1>4, <2>5 DEF k
<1> QED BY <1>3, <1>4

-----------------------------------------------------------------------------

\* A top-level record's header.
LEMMA RecordOnward ==
  ASSUME Inv, Exact, NEW P, NEW c, Parses(P, c), Record
  PROVE  Onward
<1>1. /\ in \in Seq(Byte) /\ pos \in Nat /\ Remaining \in Nat
      /\ Len(in) = pos + Remaining /\ c \in Cursors /\ c.at \in Nat /\ id \in {4, 8}
      /\ Width(in) = id
  BY Here
<1>2. /\ pc = "record" /\ UNCHANGED <<in, id, sub, n, size>> BY DEF Record
<1>3. /\ c = RecordAt(pos) /\ c.what = "record" /\ c.at = pos
  BY <1>2 DEF Parses, Reading, InRecords, RecordAt, Cursor
<1>4. \A x : Leads(in, c, x) <=> x \in AfterRecord(in, c) BY <1>1, <1>3, AfterRecordOnly
<1>5. CASE Remaining = 0 /\ pc' = "ok" /\ UNCHANGED <<pos, out, left>>
  <2>1. Exact' BY <1>2, <1>5 DEF Exact
  <2>2. Reading(c)' BY <1>2, <1>3, <1>5 DEF Reading, InRecords, InSub, InClass
  <2> QED BY <1>2, <1>5, <2>1, <2>2, Stay
<1>6. CASE Remaining \in 1..8 /\ Fail
  <2>1. Exact' /\ pc' = "failed" BY <1>2, <1>6 DEF Exact, Fail
  <2>2. \A x : ~Leads(in, c, x) BY <1>1, <1>3, <1>4, <1>6 DEF AfterRecord, When
  <2>3. c # RecordAt(Len(in)) BY <1>1, <1>3, <1>6 DEF RecordAt, Cursor
  <2> QED BY <2>1, <2>2, <2>3, Stop
<1>7. CASE /\ Remaining >= 9
           /\ Emit(9, Upcoming(9)) /\ left' = U4(pos + 5)
           /\ pc' = IF U1(pos) \in HeapTags THEN "heap" ELSE "skip"
  <2> DEFINE u == Upcoming(9)
             e == pos + 9 + left'
  <2>1. left' = B4(in, pos + 5) /\ U1(pos) = B1(in, pos) /\ HeapTags = {12, 28}
    BY <1>1, <1>7, SameTables
  <2>2. left' \in Nat BY <1>7, NumbersAreNat
  <2>3. u \in Seq(Byte) /\ Len(u) = 9 /\ \A p \in 1..9 : u[p] = in[pos + p]
    BY <1>1, <1>7, UpcomingIsInput
  <2>4. ASSUME NEW p \in 1..9 PROVE pos + p \notin Values(in)
    <3>1. ValuesAt(in, c) = {} BY <1>3, NoValues
    <3>2. pos + p \in Nat /\ c.at < pos + p BY <1>1, <1>3
    <3>3. ASSUME NEW x, Leads(in, c, x) PROVE pos + p <= x.at
      <4>1. x.at = pos + 9 \/ x.at = e
        BY <1>3, <1>4, <2>1, <3>3 DEF AfterRecord, When, RecordAt, Cursor
      <4> QED BY <1>1, <2>2, <4>1
    <3>4. Trail(in, P, c) BY DEF Parses
    <3> QED BY <1>1, <3>1, <3>2, <3>3, <3>4, ValuesHere
  <2>5. pos' = pos + 9 /\ Emit(9, u) BY <1>7 DEF Emit
  <2> HIDE DEF u
  <2>6. Exact' BY <1>2, <2>3, <2>4, <2>5, EmitExact
  <2>7. CASE U1(pos) \in HeapTags
    <3>0. PICK x : x = Cursor("sub", pos + 9, e, 0) OBVIOUS
    <3>1. Leads(in, c, x) BY <1>1, <1>3, <1>4, <1>7, <2>1, <2>7, <3>0 DEF AfterRecord, When
    <3>2. x = Cursor("sub", pos', pos' + left', 0) BY <2>5, <3>0
    <3>3. pc' = "heap" BY <1>7, <2>7
    <3>4. Reading(x)' BY <3>2, <3>3 DEF Reading, InRecords, InSub, InClass
    <3> QED BY <1>2, <2>6, <3>1, <3>3, <3>4, GoOn
  <2>8. CASE U1(pos) \notin HeapTags
    <3>1. pc' = "skip" BY <1>7, <2>8
    <3>2. Reading(c)'
      BY <1>2, <1>3, <2>1, <2>5, <2>8, <3>1 DEF Reading, InRecords, InSub, InClass
    <3> QED BY <1>2, <2>6, <3>1, <3>2, Stay
  <2> QED BY <2>7, <2>8
<1> QED BY <1>5, <1>6, <1>7 DEF Record

\* A record that is no heap dump.
LEMMA SkipOnward ==
  ASSUME Inv, Exact, NEW P, NEW c, Parses(P, c), Skip
  PROVE  Onward
<1>1. /\ in \in Seq(Byte) /\ pos \in Nat /\ Remaining \in Nat /\ left \in Nat
      /\ Len(in) = pos + Remaining /\ c \in Cursors /\ c.at \in Nat
  BY Here
<1>2. pc = "skip" /\ Copy(left, "record") /\ UNCHANGED <<in, id, sub, n, size>>
  BY DEF Skip
<1>3. /\ c.what = "record" /\ pos = c.at + 9 /\ left = B4(in, c.at + 5)
      /\ B1(in, c.at) \notin {12, 28}
  BY <1>2 DEF Parses, Reading, InRecords
<1>4. ASSUME NEW x
      PROVE  Leads(in, c, x) <=> pos + left <= Len(in) /\ x = RecordAt(pos + left)
  <2>1. c.at + 9 + B4(in, c.at + 5) = pos + left BY <1>3
  <2>2. c.at + 9 <= Len(in) BY <1>1, <1>3
  <2> QED BY <1>1, <1>3, <2>1, <2>2, AfterRecordOnly DEF AfterRecord, When
<1>5. At(P, c, left)
  <2>1. c # RecordAt(Len(in)) BY <1>1, <1>3 DEF RecordAt, Cursor
  <2>2. \A x : Leads(in, c, x) => pos + left <= x.at
    BY <1>1, <1>4 DEF RecordAt, Cursor
  <2>3. c.at <= pos /\ left <= left
    <3>1. c.at \in Nat /\ left \in Nat BY <1>1
    <3> QED BY <1>3, <3>1
  <2> QED BY <2>1, <2>2, <2>3 DEF At, Parses
<1>6. ValuesAt(in, c) = {} BY <1>3, NoValues
<1>7. Exact' /\ (Rejected \/ MovedOn(left, "record"))
  BY <1>1, <1>2, <1>5, <1>6, CopyExact
<1>8. CASE MovedOn(left, "record")
  <2>0. PICK x : x = RecordAt(pos + left) OBVIOUS
  <2>1. pc' = "record" /\ pos' = pos + left /\ left <= Remaining BY <1>8 DEF MovedOn
  <2>2. Leads(in, c, x) BY <1>1, <1>4, <2>0, <2>1
  <2>3. x = RecordAt(pos') BY <2>0, <2>1
  <2>4. Reading(x)' BY <2>1, <2>3 DEF Reading, InRecords, InSub, InClass
  <2> QED BY <1>2, <1>7, <2>1, <2>2, <2>4, GoOn
<1> QED BY <1>7, <1>8 DEF Onward

\* A sub-record's tag, or the end of the segment.
LEMMA HeapDumpOnward ==
  ASSUME Inv, Exact, NEW P, NEW c, Parses(P, c), HeapDump
  PROVE  Onward
<1>1. /\ in \in Seq(Byte) /\ pos \in Nat /\ Remaining \in Nat /\ left \in Nat
      /\ Len(in) = pos + Remaining /\ c \in Cursors /\ c.at \in Nat /\ id \in {4, 8}
      /\ Width(in) = id
  BY Here
<1>2. pc = "heap" /\ UNCHANGED <<in, id, size>> BY DEF HeapDump
<1>3. /\ c = Cursor("sub", pos, pos + left, 0) /\ c.what = "sub" /\ c.at = pos
      /\ c.end = pos + left
  BY <1>2 DEF Parses, Reading, InRecords, Cursor
<1>4. c # RecordAt(Len(in)) BY <1>3 DEF RecordAt, Cursor
<1>5. CASE left = 0 /\ pc' = "record" /\ UNCHANGED <<pos, out, left, sub, n>>
  <2>0. PICK x : x = RecordAt(pos) OBVIOUS
  <2>1. c.at = c.end BY <1>1, <1>3, <1>5
  <2>2. Leads(in, c, x) BY <1>1, <1>3, <2>0, <2>1, AfterSegment
  <2>3. x = RecordAt(pos') BY <1>5, <2>0
  <2>4. Reading(x)' BY <1>5, <2>3 DEF Reading, InRecords, InSub, InClass
  <2>5. Exact' BY <1>2, <1>5 DEF Exact
  <2> QED BY <1>2, <1>5, <2>2, <2>4, <2>5, GoOn
<1>6. CASE left > 0 /\ Remaining = 0 /\ Take(1, "failed") /\ UNCHANGED <<sub, n>>
  <2>1. c.at < c.end /\ ~(c.at + 1 <= Len(in)) BY <1>1, <1>3, <1>6
  <2>2. \A x : ~Leads(in, c, x) BY <1>1, <1>3, <2>1, AfterUnknown
  <2>3. ~Has(in, c, 1) BY <2>1 DEF Has
  <2>4. ValuesAt(in, c) = {} BY <2>3 DEF ValuesAt
  <2>5. At(P, c, 1) BY <1>1, <1>3, <1>4, <1>6, <2>2 DEF At, Parses
  <2>6. Exact' /\ (Rejected \/ MovedOn(1, "failed"))
    BY <1>2, <1>6, <2>4, <2>5, TakeExact
  <2>7. pc' = "failed" BY <2>6 DEF Rejected, MovedOn
  <2> QED BY <1>4, <2>2, <2>6, <2>7, Stop
<1>7. CASE left > 0 /\ Remaining > 0
  <2> DEFINE t == U1(pos)
             to == IF t \in Roots THEN "root" ELSE IF t \in Bodies THEN "lead"
                   ELSE "failed"
  <2>1. /\ Take(1, to)
        /\ sub' = IF t \in Bodies THEN Kind(t) ELSE "none"
        /\ n' = IF t \in Roots THEN RootSize(t) ELSE 0
    BY <1>7 DEF HeapDump
  <2>2. t = B1(in, c.at) /\ Roots = RootTags /\ Bodies = {32, 33, 34, 35}
    BY <1>1, <1>3, SameTables
  <2>3. t \in Roots => RootSize(t) = Known(id, t) - 1 BY <1>1, SameTables
  <2> HIDE DEF t
  <2>4. Has(in, c, 1) BY <1>1, <1>3, <1>7 DEF Has
  <2>5. \A x : Leads(in, c, x) => pos + 1 <= x.at BY <1>1, <1>3, <2>4, SubReaches
  <2>6. At(P, c, 1) BY <1>1, <1>3, <1>4, <1>7, <2>5 DEF At, Parses
  <2>7. ASSUME NEW p \in ValuesAt(in, c) PROVE pos + 1 < p
    <3>1. p \in Nat /\ c.at + Width(in) + 10 < p BY <1>1, ValuesWithin
    <3> QED BY <1>1, <1>3, <3>1
  <2>8. Exact' /\ (Rejected \/ MovedOn(1, to)) BY <1>2, <2>1, <2>6, <2>7, TakeExact
  <2>9. CASE MovedOn(1, to)
    <3>1. pc' = to /\ pos' = pos + 1 /\ left' = left - 1 BY <2>9 DEF MovedOn
    <3>2. c.end = pos' + left' /\ pos' = c.at + 1 BY <1>1, <1>3, <3>1
    <3>3. CASE t \in Roots
      <4>1. pc' = "root" /\ n' = Known(id, t) - 1 BY <2>1, <2>3, <3>1, <3>3
      <4>2. Reading(c)'
        BY <1>1, <1>2, <1>3, <2>2, <2>4, <3>2, <3>3, <4>1
        DEF Reading, InRecords, InSub, InClass, Has
      <4> QED BY <1>2, <2>8, <4>1, <4>2, Stay
    <3>4. CASE t \in Bodies /\ t \notin Roots
      <4>1. pc' = "lead" /\ sub' = Kind(t) BY <2>1, <3>1, <3>4
      <4>2. Reading(c)'
        BY <1>1, <1>2, <1>3, <2>2, <2>4, <3>2, <3>4, <4>1
        DEF Reading, InRecords, InSub, InClass, Has
      <4> QED BY <1>2, <2>8, <4>1, <4>2, Stay
    <3>5. CASE t \notin Roots /\ t \notin Bodies
      <4>1. pc' = "failed" BY <3>1, <3>5
      <4>2. c.at < c.end BY <1>1, <1>3, <1>7
      <4>3. B1(in, c.at) \notin RootTags \cup {32, 33, 34, 35} BY <2>2, <3>5
      <4>4. \A x : ~Leads(in, c, x) BY <1>1, <1>3, <4>2, <4>3, AfterUnknown
      <4> QED BY <1>4, <2>8, <4>1, <4>4, Stop
    <3> QED BY <3>3, <3>4, <3>5
  <2> QED BY <2>8, <2>9 DEF Onward
<1> QED BY <1>5, <1>6, <1>7 DEF HeapDump

\* A root, copied as it is.
LEMMA RootOnward ==
  ASSUME Inv, Exact, NEW P, NEW c, Parses(P, c), Root
  PROVE  Onward
<1>1. /\ in \in Seq(Byte) /\ pos \in Nat /\ Remaining \in Nat /\ left \in Nat
      /\ Len(in) = pos + Remaining /\ c \in Cursors /\ c.at \in Nat /\ c.end \in Nat
      /\ id \in {4, 8} /\ Width(in) = id /\ n \in Nat
  BY Here
<1>2. pc = "root" /\ Copy(n, "heap") /\ UNCHANGED <<in, id, sub, n, size>>
  BY DEF Root
<1> DEFINE t == B1(in, c.at)
           k == Known(id, t)
<1>3. /\ c.what = "sub" /\ c.end = pos + left /\ Has(in, c, 1)
      /\ t \in RootTags /\ pos = c.at + 1 /\ n = k - 1
  BY <1>1, <1>2 DEF Parses, Reading, InSub
<1>0. c.at \in Nat /\ pos \in Nat /\ left \in Nat /\ n \in Nat BY <1>1
<1>4. k \in Nat /\ pos + n = c.at + k /\ t \notin {32, 33, 34, 35}
  <2>1. k \in 1..25 BY <1>1, <1>3, LengthsAreNat
  <2>2. t \notin {32, 33, 34, 35} BY <1>3 DEF RootTags
  <2> HIDE DEF k, t
  <2>3. k \in Nat BY <2>1
  <2>4. n = k - 1 /\ pos = c.at + 1 BY <1>3
  <2>5. pos + n = c.at + k BY <1>0, <2>3, <2>4
  <2> QED BY <2>2, <2>3, <2>5
<1>5. Body(in, c.at, id, t) = 0 BY <1>4 DEF Body
<1>6. \A x : Leads(in, c, x) <=> Has(in, c, k) /\ x = Cursor("sub", c.at + k, c.end, 0)
  <2>1. k = k + Body(in, c.at, id, t) BY <1>4, <1>5
  <2>4. t \in RootTags \cup {33, 34, 35} BY <1>3
  <2>2. ASSUME NEW x
        PROVE  Leads(in, c, x) <=> /\ Told(in, c, id, t) /\ Has(in, c, k)
                                  /\ x = Cursor("sub", c.at + k, c.end, 0)
    BY <1>1, <1>3, <2>1, <2>4, AfterSimple, SMTT(30)
  <2>3. Told(in, c, id, t) <=> Has(in, c, k) BY <1>4 DEF Told
  <2> QED BY <2>2, <2>3
<1>7. ValuesAt(in, c) = {} BY <1>4, NoValues
<1> HIDE DEF k, t
<1>8. At(P, c, n)
  <2>1. \A x : Leads(in, c, x) => pos + n <= x.at BY <1>1, <1>4, <1>6 DEF Cursor
  <2>2. c # RecordAt(Len(in)) BY <1>3 DEF RecordAt, Cursor
  <2>3. c.at <= pos /\ c.what # "record" /\ c.end = pos + left BY <1>0, <1>3
  <2> QED BY <2>1, <2>2, <2>3 DEF At, Parses
<1>9. Exact' /\ (Rejected \/ MovedOn(n, "heap")) BY <1>1, <1>2, <1>7, <1>8, CopyExact
<1>10. CASE MovedOn(n, "heap")
  <2>0. PICK x : x = Cursor("sub", c.at + k, c.end, 0) OBVIOUS
  <2>1. /\ pc' = "heap" /\ pos' = pos + n /\ left' = left - n /\ n <= Remaining
        /\ n <= left
    BY <1>10 DEF MovedOn
  <2>2. Has(in, c, k) BY <1>1, <1>3, <1>4, <2>1, WasThere
  <2>6. pos' + left' = pos + left BY <1>0, <2>1
  <2>7. c.at + k = pos' /\ c.end = pos' + left' BY <1>3, <1>4, <2>1, <2>6
  <2>3. x = Cursor("sub", pos', pos' + left', 0) BY <2>0, <2>7
  <2>4. Leads(in, c, x) BY <1>6, <2>0, <2>2
  <2>5. Reading(x)' BY <2>1, <2>3 DEF Reading, InRecords, InSub, InClass
  <2> QED BY <1>2, <1>9, <2>1, <2>4, <2>5, GoOn
<1> QED BY <1>9, <1>10 DEF Onward

\* What comes before a sub-record's count.
LEMMA LeadOnward ==
  ASSUME Inv, Exact, NEW P, NEW c, Parses(P, c), Lead
  PROVE  Onward
<1>1. /\ in \in Seq(Byte) /\ pos \in Nat /\ Remaining \in Nat /\ left \in Nat
      /\ Len(in) = pos + Remaining /\ c \in Cursors /\ c.at \in Nat /\ c.end \in Nat
      /\ id \in {4, 8} /\ Width(in) = id
  BY Here
<1> DEFINE t == B1(in, c.at)
           k == CASE sub = "instance"  -> 2 * id + 4
                  [] sub = "constants" -> 7 * id + 8
                  [] OTHER             -> id + 4
           to == IF sub = "constants" THEN "table" ELSE "count"
<1>2. pc = "lead" /\ Copy(k, to) /\ UNCHANGED <<in, id, sub, n, size>> BY DEF Lead
<1>3. /\ c.what = "sub" /\ c.end = pos + left /\ Has(in, c, 1)
      /\ t \in {32, 33, 34, 35} /\ sub = Kind(t) /\ pos = c.at + 1
  BY <1>1, <1>2 DEF Parses, Reading, InSub
<1>4. \/ t = 32 /\ sub = "constants" /\ k = 7 * id + 8 /\ to = "table"
      \/ t = 33 /\ sub = "instance" /\ k = 2 * id + 4 /\ to = "count"
      \/ t \in {34, 35} /\ sub \in {"objects", "primitives"} /\ k = id + 4
         /\ to = "count"
  BY <1>3 DEF Kind
<1>0. c.at \in Nat /\ pos \in Nat /\ left \in Nat /\ id \in {4, 8} BY <1>1
<1>11. pos = c.at + 1 /\ c.end = pos + left BY <1>3
<1> HIDE DEF t, k, to
<1>5. k \in Nat /\ k + 1 <= 7 * id + 11 BY <1>1, <1>4
<1>6. /\ t = 33 => Known(id, t) = 2 * id + 9
      /\ t = 34 => Known(id, t) = id + 9
      /\ t = 35 => Known(id, t) = id + 10
  BY <1>1, KnownLengths
<1>7. At(P, c, k)
  <2>1. ASSUME NEW x, Leads(in, c, x) PROVE pos + k <= x.at
    <3>1. /\ t = 32 => c.at + 7 * id + 11 <= x.at
          /\ t # 32 => c.at + Known(id, t) <= x.at
      BY <1>1, <1>3, <2>1, SubReaches DEF t
    <3>2. x.at \in Nat
      <4>1. x \in Cursors BY <1>1, <2>1, LeadsOn
      <4> QED BY <4>1 DEF Cursors
    <3>3. pos + k = c.at + 1 + k BY <1>11
    <3>4. CASE t = 32
      <4>1. k = 7 * id + 8 BY <1>4, <3>4
      <4>2. c.at + 7 * id + 11 <= x.at BY <3>1, <3>4
      <4> QED BY <1>0, <3>2, <3>3, <4>1, <4>2
    <3>5. CASE t = 33
      <4>1. k = 2 * id + 4 BY <1>4, <3>5
      <4>2. c.at + (2 * id + 9) <= x.at BY <1>6, <3>1, <3>5
      <4> QED BY <1>0, <3>2, <3>3, <4>1, <4>2
    <3>6. CASE t \in {34, 35}
      <4>1. k = id + 4 BY <1>4, <3>6
      <4>2. c.at + (id + 9) <= x.at \/ c.at + (id + 10) <= x.at
        BY <1>6, <3>1, <3>6
      <4> QED BY <1>0, <3>2, <3>3, <4>1, <4>2
    <3> QED BY <1>3, <3>4, <3>5, <3>6 DEF t
  <2>2. c # RecordAt(Len(in)) BY <1>3 DEF RecordAt, Cursor
  <2>3. c.at <= pos BY <1>0, <1>11
  <2> QED BY <1>3, <2>1, <2>2, <2>3 DEF At, Parses
<1>8. ASSUME NEW p \in ValuesAt(in, c) PROVE pos + k < p
  <2>1. t = 35 BY <1>8, NoValues DEF t
  <2>2. p \in Nat /\ c.at + id + 10 < p BY <1>1, ValuesWithin
  <2>3. k = id + 4 BY <1>4, <2>1
  <2> QED BY <1>0, <1>11, <2>2, <2>3
<1>9. Exact' /\ (Rejected \/ MovedOn(k, to))
  BY <1>1, <1>2, <1>5, <1>7, <1>8, CopyExact
<1>10. CASE MovedOn(k, to)
  <2>1. pc' = to /\ pos' = pos + k /\ left' = left - k BY <1>10 DEF MovedOn
  <2>2. c.end = pos' + left' BY <1>0, <1>5, <1>11, <2>1
  <2>3. pos' = c.at + 1 + k BY <1>11, <2>1
  <2>4. to = "count" => pos' = c.at + CountAt(id, t)
    <3>1. to = "count" => CountAt(id, t) = k + 1 BY <1>0, <1>4 DEF CountAt
    <3> QED BY <1>0, <1>5, <2>3, <3>1
  <2>5. to = "table" => pos' = c.at + 7 * id + 9
    <3>1. to = "table" => k = 7 * id + 8 BY <1>4
    <3> QED BY <1>0, <2>3, <3>1
  <2>6. Reading(c)'
    <3>1. t' = t /\ Width(in)' = id /\ sub' = sub BY <1>1, <1>2 DEF t
    <3>2. CASE to = "count"
      BY <1>2, <1>3, <2>1, <2>2, <2>4, <3>1, <3>2
      DEF Reading, InRecords, InSub, InClass, t, Has
    <3>3. CASE to = "table"
      <4>1. t = 32 /\ sub = "constants" BY <1>4, <3>3
      <4> QED BY <1>2, <1>3, <2>1, <2>2, <2>5, <3>1, <3>3, <4>1
              DEF Reading, InRecords, InSub, InClass, t, Has
    <3> QED BY <1>4, <3>2, <3>3
  <2>7. pc' # "failed" BY <1>4, <2>1
  <2> QED BY <1>2, <1>9, <2>6, <2>7, Stay
<1> QED BY <1>9, <1>10 DEF Onward

\* A sub-record's count.
LEMMA CountOnward ==
  ASSUME Inv, Exact, NEW P, NEW c, Parses(P, c), Count
  PROVE  Onward
<1>1. /\ in \in Seq(Byte) /\ pos \in Nat /\ Remaining \in Nat /\ left \in Nat
      /\ Len(in) = pos + Remaining /\ c \in Cursors /\ c.at \in Nat /\ c.end \in Nat
      /\ id \in {4, 8} /\ Width(in) = id
  BY Here
<1> DEFINE t == B1(in, c.at)
           m == CountAt(id, t)
           to == IF sub = "primitives" THEN "type" ELSE "rest"
<1>2. /\ pc = "count" /\ Take(4, to) /\ UNCHANGED <<in, id, sub, size>>
      /\ n' = IF pc' = "failed" THEN n ELSE U4(pos)
  BY DEF Count
<1>3. /\ c.what = "sub" /\ c.end = pos + left /\ Has(in, c, 1)
      /\ t \in {32, 33, 34, 35} /\ sub = Kind(t)
  BY <1>1, <1>2 DEF Parses, Reading, InSub
<1>13. pos = c.at + m BY <1>1, <1>2 DEF Parses, Reading, InSub
<1>4. sub \in {"instance", "objects", "primitives"} BY <1>2 DEF Inv, Place
<1>5. /\ t \in {33, 34, 35} /\ (t = 35 <=> sub = "primitives") BY <1>3, <1>4 DEF Kind
<1>6. m \in Nat /\ m + 4 <= Known(id, t) /\ (t = 35 => m + 4 < id + 10)
      /\ Known(id, t) \in Nat
  <2>4. id \in {4, 8} BY <1>1
  <2>1. CASE t = 33 BY <2>1, <2>4, KnownLengths
  <2>2. CASE t = 34 BY <2>2, <2>4, KnownLengths
  <2>3. CASE t = 35
    <3>1. Known(id, t) = id + 10 /\ m = id + 5 BY <2>3, <2>4, KnownLengths
    <3> QED BY <2>4, <3>1
  <2> QED BY <1>5, <2>1, <2>2, <2>3
<1>7. to \in {"type", "rest"} OBVIOUS
<1>8. U4(pos) = B4(in, c.at + m) BY <1>1, <1>13, SameTables
<1> HIDE DEF m, to, t
<1>9. At(P, c, 4)
  <2>1. ASSUME NEW x, Leads(in, c, x) PROVE pos + 4 <= x.at
    <3>1. c.at + Known(id, t) <= x.at
      BY <1>1, <1>3, <1>5, <2>1, SubReaches DEF t
    <3>2. x.at \in Nat
      <4>1. x \in Cursors BY <1>1, <2>1, LeadsOn
      <4> QED BY <4>1 DEF Cursors
    <3>3. pos + 4 <= c.at + Known(id, t) /\ pos + 4 \in Nat
      <4>1. c.at \in Nat BY <1>1
      <4>2. m \in Nat /\ m + 4 <= Known(id, t) /\ Known(id, t) \in Nat BY <1>6
      <4> QED BY <1>13, <4>1, <4>2
    <3>4. c.at + Known(id, t) \in Nat BY <1>1, <1>6
    <3> QED BY <3>1, <3>2, <3>3, <3>4
  <2>2. c # RecordAt(Len(in)) BY <1>3 DEF RecordAt, Cursor
  <2>3. c.at <= pos BY <1>1, <1>6, <1>13
  <2> QED BY <1>3, <2>1, <2>2, <2>3 DEF At, Parses
<1>10. ASSUME NEW p \in ValuesAt(in, c) PROVE pos + 4 < p
  <2>1. t = 35 BY <1>10, NoValues DEF t
  <2>2. p \in Nat /\ c.at + id + 10 < p BY <1>1, ValuesWithin
  <2>3. m + 4 < id + 10 BY <1>6, <2>1
  <2>5. m \in Nat /\ c.at \in Nat /\ id \in Nat BY <1>1, <1>6
  <2>4. pos + 4 < c.at + id + 10 BY <1>13, <2>3, <2>5
  <2> QED BY <1>1, <2>2, <2>4
<1>11. Exact' /\ (Rejected \/ MovedOn(4, to)) BY <1>2, <1>9, <1>10, TakeExact
<1>12. CASE MovedOn(4, to)
  <2>1. pc' = to /\ pos' = pos + 4 /\ left' = left - 4 BY <1>12 DEF MovedOn
  <2>2. c.end = pos' + left' BY <1>1, <1>3, <2>1
  <2>3. pos' = c.at + m + 4 BY <1>13, <2>1
  <2>4. pc' # "failed" /\ n' = B4(in, c.at + m) BY <1>2, <1>7, <1>8, <2>1
  <2>5. t' = t /\ Width(in)' = id /\ sub' = sub BY <1>1, <1>2 DEF t
  <2>6. Reading(c)'
    <3>1. pc' \in {"type", "rest"} BY <1>7, <2>1
    <3>2. InRecords(c)' BY <3>1 DEF InRecords
    <3>3. InClass(c)' BY <1>2, <1>4, <3>1 DEF InClass
    <3>4. Has(in, c, 1)' BY <1>2, <1>3 DEF Has
    <3>6. in' = in /\ pc' # "root" /\ pc' # "lead" /\ pc' # "count" /\ pc' # "value"
      BY <1>2, <3>1
    <3>5. InSub(c)'
      BY <1>3, <3>6, <2>2, <2>3, <2>4, <2>5, <3>1, <3>4 DEF InSub, t, m
    <3> QED BY <3>2, <3>3, <3>5 DEF Reading
  <2> QED BY <1>2, <1>11, <2>4, <2>6, Stay
<1> QED BY <1>11, <1>12 DEF Onward

\* Where a sub-record, or an entry of a class, may start, the parser is there.
LEMMA AtStart ==
  ASSUME NEW x
  PROVE  /\ pc' = "heap" /\ x = Cursor("sub", pos', pos' + left', 0) => Reading(x)'
         /\ pc' = "entry" /\ x = Cursor(sub', pos', pos' + left', n') => Reading(x)'
BY DEF Reading, InRecords, InSub, InClass

\* The bytes up to here belong to what starts at c.
LEMMA IsThere ==
  ASSUME Inv, NEW P, NEW c, Parses(P, c), c.end = pos + left,
         NEW m, c.at + m = pos
  PROVE  Has(in, c, m)
<1>1. pos \in Nat /\ left \in Nat /\ Remaining \in Nat /\ Len(in) = pos + Remaining
  BY Here
<1>2. pos <= pos + left /\ pos <= Len(in) BY <1>1
<1> QED BY <1>2 DEF Has

\* Copying the rest of something brings the parser to the sub-record after it.
LEMMA RestCopied ==
  ASSUME Inv, Exact, NEW P, NEW c, Parses(P, c), c.what # "record",
         c.end = pos + left, c.at <= pos, pc # "failed",
         UNCHANGED <<in, id>>, NEW k \in Nat, Copy(k, "heap"),
         ValuesAt(in, c) = {},
         NEW m, c.at + m = pos + k,
         \A x : Leads(in, c, x) <=> Has(in, c, m) /\ x = Cursor("sub", c.at + m, c.end, 0)
  PROVE  Onward
<1>1. /\ pos \in Nat /\ Remaining \in Nat /\ left \in Nat /\ Len(in) = pos + Remaining
  BY Here
<1>2. At(P, c, k)
  <2>1. \A x : Leads(in, c, x) => pos + k <= x.at BY <1>1 DEF Cursor
  <2>2. c # RecordAt(Len(in)) BY DEF RecordAt, Cursor
  <2> QED BY <2>1, <2>2 DEF At, Parses
<1>3. Exact' /\ (Rejected \/ MovedOn(k, "heap")) BY <1>2, CopyExact
<1>4. CASE MovedOn(k, "heap")
  <2>1. /\ pc' = "heap" /\ pos' = pos + k /\ left' = left - k /\ k <= left
        /\ k <= Remaining
    BY <1>4 DEF MovedOn
  <2>2. PICK x : x = Cursor("sub", c.at + m, c.end, 0) OBVIOUS
  <2>3. Has(in, c, m) BY <2>1, WasThere
  <2>4. Leads(in, c, x) BY <2>2, <2>3
  <2>5. c.at + m = pos' /\ c.end = pos' + left' BY <1>1, <2>1
  <2>6. Reading(x)' BY <2>1, <2>2, <2>5, AtStart
  <2> QED BY <1>3, <2>1, <2>4, <2>6, GoOn
<1> QED BY <1>3, <1>4 DEF Onward

\* What comes after the count of an instance, an object array or the fields.
LEMMA RestOnward ==
  ASSUME Inv, Exact, NEW P, NEW c, Parses(P, c), Rest
  PROVE  Onward
<1>1. /\ in \in Seq(Byte) /\ pos \in Nat /\ Remaining \in Nat /\ left \in Nat
      /\ Len(in) = pos + Remaining /\ c \in Cursors /\ c.at \in Nat /\ c.end \in Nat
      /\ id \in {4, 8} /\ Width(in) = id /\ n \in Nat
  BY Here
<1> DEFINE t == B1(in, c.at)
           k == CASE sub = "instance" -> n
                  [] sub = "objects"  -> id + n * id
                  [] sub = "fields"   -> n * (id + 1)
<1>2. pc = "rest" /\ Copy(k, "heap") /\ UNCHANGED <<in, id, sub, n, size>> BY DEF Rest
<1>3. sub \in {"instance", "objects", "fields"} BY <1>2 DEF Inv, Place
<1>4. n * id \in Nat /\ n * (id + 1) \in Nat /\ id + n * id \in Nat
  <2>1. \A a \in Nat, w \in {4, 8} : a * w \in Nat /\ a * (w + 1) \in Nat
                                     /\ w + a * w \in Nat
    OBVIOUS
  <2> QED BY <1>1, <2>1
<1>5. CASE sub \in {"instance", "objects"}
  <2>1. /\ c.what = "sub" /\ c.end = pos + left /\ Has(in, c, 1)
        /\ t \in {32, 33, 34, 35} /\ sub = Kind(t)
    BY <1>1, <1>2, <1>5 DEF Parses, Reading, InSub
  <2>2. pos = c.at + CountAt(id, t) + 4 /\ n = B4(in, c.at + CountAt(id, t))
    BY <1>1, <1>2, <1>5 DEF Parses, Reading, InSub
  <2>3. \/ t = 33 /\ k = n
        \/ t = 34 /\ k = id + n * id
    BY <1>5, <2>1 DEF Kind
  <2> HIDE DEF t, k
  <2>4. pos = c.at + Known(id, t) /\ Known(id, t) \in Nat
    <3>1. CASE t = 33
      <4>1. Known(id, t) = 2 * id + 9 /\ CountAt(id, t) = 2 * id + 5
        BY <1>1, <3>1, KnownLengths
      <4> QED BY <1>1, <2>2, <4>1
    <3>2. CASE t = 34
      <4>1. Known(id, t) = id + 9 /\ CountAt(id, t) = id + 5
        BY <1>1, <3>2, KnownLengths
      <4> QED BY <1>1, <2>2, <4>1, SMTT(30)
    <3> QED BY <2>3, <3>1, <3>2
  <2>5. Body(in, c.at, id, t) = k
    <3>1. CASE t = 33
      <4>1. CountAt(id, t) = 2 * id + 5 BY <1>1, <3>1, KnownLengths
      <4>2. c.at + 2 * id + 5 = c.at + CountAt(id, t) BY <1>1, <4>1
      <4>3. Body(in, c.at, id, t) = B4(in, c.at + CountAt(id, t))
        BY <3>1, <4>2 DEF Body
      <4>4. k = n BY <2>3, <3>1
      <4> QED BY <2>2, <4>3, <4>4
    <3>2. CASE t = 34
      <4>1. CountAt(id, t) = id + 5 BY <1>1, <3>2, KnownLengths
      <4>2. c.at + id + 5 = c.at + CountAt(id, t) BY <1>1, <4>1
      <4>3. Body(in, c.at, id, t) = id + B4(in, c.at + CountAt(id, t)) * id
        BY <3>2, <4>2 DEF Body
      <4>4. k = id + n * id BY <2>3, <3>2
      <4> QED BY <2>2, <4>3, <4>4
    <3> QED BY <2>3, <3>1, <3>2
  <2>6. k \in Nat BY <1>1, <1>4, <2>3
  <2>7. ValuesAt(in, c) = {} BY <2>3, NoValues DEF t
  <2>8. t \in RootTags \cup {33, 34, 35} /\ t # 35 BY <2>3
  <2> DEFINE m == Known(id, t) + k
  <2>14. c.at \in Nat BY <1>1
  <2>9. c.at + m = pos + k /\ m \in Nat BY <2>4, <2>6, <2>14
  <2>10. Told(in, c, id, t)
    <3>1. Has(in, c, Known(id, t)) BY <2>1, <2>4, IsThere
    <3> QED BY <2>8, <3>1 DEF Told
  <2>11. m = Known(id, t) + Body(in, c.at, id, t) BY <2>5
  <2> HIDE DEF m
  <2>12. ASSUME NEW x
         PROVE  Leads(in, c, x) <=> Has(in, c, m) /\ x = Cursor("sub", c.at + m, c.end, 0)
    BY <1>1, <2>1, <2>8, <2>10, <2>11, AfterSimple DEF t
  <2>13. c.at <= pos BY <1>1, <2>4
  <2> QED BY <1>2, <2>1, <2>6, <2>7, <2>9, <2>12, <2>13, RestCopied
<1>6. CASE sub = "fields"
  <2>1. /\ c.what = "statics" /\ c.n = 0 /\ c.end = pos + left /\ pos = c.at + 2
        /\ n = B2(in, c.at)
    BY <1>2, <1>6 DEF Parses, Reading, InClass
  <2>2. k = n * (id + 1) /\ k \in Nat BY <1>4, <1>6
  <2>3. Has(in, c, 2) BY <2>1, IsThere
  <2> HIDE DEF k
  <2> DEFINE m == 2 + k
  <2>4. ASSUME NEW x
        PROVE  Leads(in, c, x) <=> Has(in, c, m) /\ x = Cursor("sub", c.at + m, c.end, 0)
    <3>1. m = 2 + B2(in, c.at) * (Width(in) + 1) BY <1>1, <2>1, <2>2
    <3> HIDE DEF m
    <3>2. Leads(in, c, x) <=> x \in AfterTable(in, c) BY <1>1, <2>1, AfterTableOnly
    <3> QED BY <2>1, <2>3, <3>1, <3>2 DEF AfterTable, When
  <2>7. k \in Nat /\ pos = c.at + 2 BY <2>1, <2>2
  <2>8. c.at \in Nat BY <1>1
  <2>5. c.at + m = pos + k /\ c.at <= pos BY <2>7, <2>8
  <2>6. ValuesAt(in, c) = {} BY <2>1, NoValues
  <2> HIDE DEF m
  <2> QED BY <1>2, <2>1, <2>2, <2>4, <2>5, <2>6, RestCopied
<1> QED BY <1>3, <1>5, <1>6

\* A table.
LEMMA TableOnward ==
  ASSUME Inv, Exact, NEW P, NEW c, Parses(P, c), Table
  PROVE  Onward
<1>1. /\ in \in Seq(Byte) /\ pos \in Nat /\ Remaining \in Nat /\ left \in Nat
      /\ Len(in) = pos + Remaining /\ c \in Cursors /\ c.at \in Nat /\ c.end \in Nat
      /\ id \in {4, 8} /\ Width(in) = id
  BY Here
<1> DEFINE to == IF sub = "fields" THEN "rest" ELSE "entry"
<1>2. /\ pc = "table" /\ Take(2, to) /\ UNCHANGED <<in, id, sub, size>>
      /\ n' = IF pc' = "failed" THEN n ELSE U2(pos)
  BY DEF Table
<1>3. sub \in {"constants", "statics", "fields"} BY <1>2 DEF Inv, Place
<1>4. U2(pos) = B2(in, pos) BY <1>1, SameTables
<1>5. to \in {"rest", "entry"} /\ (to = "rest" <=> sub = "fields") OBVIOUS
<1> HIDE DEF to
<1>6. ASSUME MovedOn(2, to)
      PROVE  /\ pc' = to /\ pc' # "failed" /\ pos' = pos + 2 /\ left' = left - 2
             /\ n' = B2(in, pos) /\ pos' + left' = pos + left
             /\ 2 <= left /\ 2 <= Remaining
  <2>1. pc' = to /\ pos' = pos + 2 /\ left' = left - 2 /\ 2 <= left /\ 2 <= Remaining
    BY <1>6 DEF MovedOn
  <2>2. pos' + left' = pos + left BY <1>1, <2>1
  <2> QED BY <1>2, <1>4, <1>5, <2>1, <2>2
<1>7. CASE sub = "constants"
  <2> DEFINE m == 7 * id + 9
  <2>1. /\ c.what = "sub" /\ c.end = pos + left /\ Has(in, c, 1)
        /\ B1(in, c.at) = 32
    BY <1>1, <1>2, <1>7 DEF Parses, Reading, InClass
  <2>2. pos = c.at + m
    <3>1. InClass(c) BY DEF Parses, Reading
    <3>2. pos = c.at + 7 * Width(in) + 9 BY <1>2, <1>7, <3>1, ZenonT(30) DEF InClass
    <3>3. c.at \in Nat /\ id \in Nat /\ id = Width(in) BY <1>1
    <3> QED BY <3>2, <3>3
  <2>3. m \in Nat /\ m + 2 = 7 * id + 11 /\ c.at + 7 * id + 9 = c.at + m BY <1>1
  <2>4. c.at + 7 * id + 11 = c.at + (m + 2) BY <1>1
  <2> HIDE DEF m
  <2>5. pos + 2 = c.at + (m + 2) /\ c.at <= pos
    <3>1. c.at \in Nat BY <1>1
    <3> QED BY <2>2, <2>3, <3>1
  <2>6. ASSUME NEW x
        PROVE  Leads(in, c, x) <=> /\ Has(in, c, m + 2)
                                  /\ x = Cursor("constants", pos + 2, c.end, B2(in, pos))
    <3>1. Leads(in, c, x) <=>
            /\ Has(in, c, 7 * id + 11)
            /\ x = Cursor("constants", c.at + 7 * id + 11, c.end,
                          B2(in, c.at + 7 * id + 9))
      BY <1>1, <2>1, AfterClass
    <3>2. c.at + 7 * id + 11 = pos + 2 /\ c.at + 7 * id + 9 = pos
      BY <2>2, <2>3, <2>4, <2>5
    <3> QED BY <2>3, <3>1, <3>2
  <2>7. At(P, c, 2)
    <3>1. \A x : Leads(in, c, x) => pos + 2 <= x.at BY <1>1, <2>6 DEF Cursor
    <3>2. c # RecordAt(Len(in)) BY <2>1 DEF RecordAt, Cursor
    <3> QED BY <2>1, <2>5, <3>1, <3>2 DEF At, Parses
  <2>8. ValuesAt(in, c) = {} BY <2>1, NoValues
  <2>9. Exact' /\ (Rejected \/ MovedOn(2, to)) BY <1>2, <2>7, <2>8, TakeExact
  <2>10. CASE MovedOn(2, to)
    <3>1. PICK x : x = Cursor("constants", pos + 2, c.end, B2(in, pos)) OBVIOUS
    <3>2. Has(in, c, m + 2) BY <1>6, <2>1, <2>5, <2>10, WasThere
    <3>3. Leads(in, c, x) BY <2>6, <3>1, <3>2
    <3>4. pc' = "entry" /\ sub' = "constants" BY <1>2, <1>5, <1>6, <1>7, <2>10
    <3>5. x = Cursor(sub', pos', pos' + left', n')
      BY <1>6, <2>1, <2>10, <3>1, <3>4
    <3>6. Reading(x)' BY <3>4, <3>5, AtStart
    <3> QED BY <1>2, <2>9, <3>3, <3>4, <3>6, GoOn
  <2> QED BY <2>9, <2>10 DEF Onward
<1>8. CASE sub \in {"statics", "fields"}
  <2>1. c = Cursor(IF sub = "statics" THEN "constants" ELSE "statics",
                   pos, pos + left, 0)
    BY <1>2, <1>8 DEF Parses, Reading, InClass
  <2>2. /\ c.what = IF sub = "statics" THEN "constants" ELSE "statics"
        /\ c.at = pos /\ c.end = pos + left /\ c.n = 0
    BY <2>1 DEF Cursor
  <2>3. c.what \in {"constants", "statics"} BY <2>2
  <2>4. \A x : Leads(in, c, x) <=> x \in AfterTable(in, c)
    BY <1>1, <2>2, <2>3, AfterTableOnly
  <2>5. ASSUME NEW x, Leads(in, c, x) PROVE pos + 2 <= x.at
    <3>1. x \in AfterTable(in, c) /\ Has(in, c, 2) BY <2>4, <2>5 DEF AfterTable, When
    <3>2. pos + 2 <= Len(in) BY <2>2, <3>1 DEF Has
    <3>3. B2(in, pos) \in Nat BY <1>1, <3>2, DumpNumbers
    <3>4. B2(in, pos) * (id + 1) \in Nat
      <4>1. \A a \in Nat, w \in {4, 8} : a * (w + 1) \in Nat OBVIOUS
      <4> QED BY <1>1, <3>3, <4>1
    <3>5. x.at = pos + 2 \/ x.at = pos + (2 + B2(in, pos) * (id + 1))
      BY <1>1, <2>2, <3>1 DEF AfterTable, When, Cursor
    <3>6. \A b \in Nat : pos + 2 <= pos + (2 + b) /\ pos + 2 <= pos + 2 BY <1>1
    <3> QED BY <3>4, <3>5, <3>6
  <2>6. At(P, c, 2)
    <3>1. c # RecordAt(Len(in)) BY <2>3 DEF RecordAt, Cursor
    <3>2. c.at <= pos BY <1>1, <2>2
    <3> QED BY <2>2, <2>3, <2>5, <3>1, <3>2 DEF At, Parses
  <2>7. ValuesAt(in, c) = {} BY <2>3, NoValues
  <2>8. Exact' /\ (Rejected \/ MovedOn(2, to)) BY <1>2, <2>6, <2>7, TakeExact
  <2>9. CASE MovedOn(2, to) /\ sub = "statics"
    <3>1. PICK x : x = Cursor("statics", pos + 2, c.end, B2(in, pos)) OBVIOUS
    <3>2. c.at + 2 = pos + 2 BY <2>2
    <3>3. Has(in, c, 2) BY <1>6, <2>2, <2>9, <3>2, WasThere
    <3>4. Leads(in, c, x) BY <2>2, <2>4, <2>9, <3>1, <3>3 DEF AfterTable, When
    <3>5. pc' = "entry" /\ sub' = "statics" BY <1>2, <1>5, <1>6, <2>9
    <3>6. x = Cursor(sub', pos', pos' + left', n')
      BY <1>6, <2>2, <2>9, <3>1, <3>5
    <3>7. Reading(x)' BY <3>5, <3>6, AtStart
    <3> QED BY <1>2, <2>8, <3>4, <3>5, <3>7, GoOn
  <2>10. CASE MovedOn(2, to) /\ sub = "fields"
    <3>1. pc' = "rest" /\ sub' = "fields" /\ in' = in BY <1>2, <1>5, <1>6, <2>10
    <3>2. /\ c.what = "statics" /\ c.n = 0 /\ c.end = pos' + left' /\ pos' = c.at + 2
          /\ n' = B2(in, c.at)
      BY <1>6, <2>2, <2>10
    <3>3. Reading(c)' BY <3>1, <3>2 DEF Reading, InRecords, InSub, InClass
    <3> QED BY <1>2, <2>8, <3>1, <3>3, Stay
  <2> QED BY <1>8, <2>8, <2>9, <2>10 DEF Onward
<1> QED BY <1>3, <1>7, <1>8

\* An entry of a table, or the end of it.
LEMMA EntryOnward ==
  ASSUME Inv, Exact, NEW P, NEW c, Parses(P, c), Entry
  PROVE  Onward
<1>1. /\ in \in Seq(Byte) /\ pos \in Nat /\ Remaining \in Nat /\ left \in Nat
      /\ Len(in) = pos + Remaining /\ c \in Cursors /\ c.at \in Nat /\ c.end \in Nat
      /\ id \in {4, 8} /\ Width(in) = id /\ n \in Nat
  BY Here
<1>2. pc = "entry" /\ UNCHANGED <<in, id, n, size>> BY DEF Entry
<1>3. sub \in {"constants", "statics"} BY <1>2 DEF Inv, Place
<1>4. /\ c = Cursor(sub, pos, pos + left, n)
      /\ c.what = sub /\ c.at = pos /\ c.end = pos + left /\ c.n = n
  BY <1>2 DEF Parses, Reading, InClass, Cursor
<1>5. CASE n = 0
  <2>1. /\ pc' = "table" /\ UNCHANGED <<pos, out, left>>
        /\ sub' = IF sub = "constants" THEN "statics" ELSE "fields"
    BY <1>5 DEF Entry
  <2>2. Exact' BY <1>2, <2>1 DEF Exact
  <2>3. c = Cursor(sub, pos', pos' + left', 0) BY <1>4, <1>5, <2>1
  <2>4. \/ sub' = "statics" /\ c = Cursor("constants", pos', pos' + left', 0)
        \/ sub' = "fields" /\ c = Cursor("statics", pos', pos' + left', 0)
    BY <1>3, <2>1, <2>3
  <2>5. Reading(c)' BY <2>1, <2>4 DEF Reading, InRecords, InSub, InClass
  <2> QED BY <1>2, <2>1, <2>2, <2>5, Stay
<1>6. CASE n > 0
  <2> DEFINE h == IF sub = "constants" THEN 2 ELSE id
  <2>1. Copy(h, "type") /\ UNCHANGED sub BY <1>6 DEF Entry
  <2>2. h \in Nat /\ h = Name(id) BY <1>1 DEF Name
  <2>3. ASSUME NEW x, Leads(in, c, x) PROVE pos + h <= x.at
    <3> DEFINE s == SizeOf(id, B1(in, c.at + h))
    <3>1. x \in AfterEntry(in, c) BY <1>1, <1>3, <1>4, <1>6, <2>3, AfterEntryOnly
    <3>2. B1(in, c.at + h) \in Basic /\ x.at = c.at + (h + 1 + s)
      BY <1>1, <1>4, <3>1 DEF AfterEntry, When, Cursor
    <3>3. s \in 1..8 BY <1>1, <3>2, LengthsAreNat
    <3> HIDE DEF h, s
    <3>4. pos \in Nat /\ c.at = pos BY <1>1, <1>4
    <3> QED BY <2>2, <3>2, <3>3, <3>4
  <2> HIDE DEF h
  <2>4. At(P, c, h)
    <3>1. c # RecordAt(Len(in)) BY <1>3, <1>4 DEF RecordAt, Cursor
    <3>2. c.at <= pos BY <1>1, <1>4
    <3> QED BY <1>3, <1>4, <2>3, <3>1, <3>2 DEF At, Parses
  <2>5. ValuesAt(in, c) = {} BY <1>3, <1>4, NoValues
  <2>6. Exact' /\ (Rejected \/ MovedOn(h, "type"))
    BY <1>2, <2>1, <2>2, <2>4, <2>5, CopyExact
  <2>7. CASE MovedOn(h, "type")
    <3>1. pc' = "type" /\ pos' = pos + h /\ left' = left - h BY <2>7 DEF MovedOn
    <3>2. pos' + left' = pos + left BY <1>1, <2>2, <3>1
    <3>3. /\ c.what = sub' /\ c.n = n' /\ c.end = pos' + left'
          /\ pos' = c.at + Name(Width(in))' /\ sub' \in {"constants", "statics"}
      BY <1>1, <1>2, <1>3, <1>4, <2>1, <2>2, <3>1, <3>2 DEF Name
    <3>4. Reading(c)' BY <3>1, <3>3 DEF Reading, InRecords, InSub, InClass
    <3> QED BY <1>2, <2>6, <3>1, <3>4, Stay
  <2> QED BY <2>6, <2>7 DEF Onward
<1> QED BY <1>1, <1>5, <1>6

\* The type of a primitive array's elements or of a static.
LEMMA ElementTypeOnward ==
  ASSUME Inv, Exact, NEW P, NEW c, Parses(P, c), ElementType
  PROVE  Onward
<1>1. /\ in \in Seq(Byte) /\ pos \in Nat /\ Remaining \in Nat /\ left \in Nat
      /\ Len(in) = pos + Remaining /\ c \in Cursors /\ c.at \in Nat /\ c.end \in Nat
      /\ id \in {4, 8} /\ Width(in) = id /\ n \in Nat
  BY Here
<1> DEFINE to == IF Remaining > 0 /\ U1(pos) \in Types THEN "value" ELSE "failed"
<1>2. /\ pc = "type" /\ Take(1, to) /\ UNCHANGED <<in, id, sub, n>>
      /\ size' = IF pc' = "failed" THEN size ELSE TypeSize(U1(pos))
  BY DEF ElementType
<1>3. /\ U1(pos) = B1(in, pos) /\ Types = Basic
      /\ \A t \in Types : TypeSize(t) = SizeOf(id, t)
  BY <1>1, SameTables
<1>4. \/ to = "value" /\ B1(in, pos) \in Basic
      \/ to = "failed" /\ (Remaining = 0 \/ B1(in, pos) \notin Basic)
  BY <1>1, <1>3
<1> HIDE DEF to
<1>5. ASSUME MovedOn(1, to)
      PROVE  /\ pc' = to /\ pos' = pos + 1 /\ pos' + left' = pos + left
             /\ to = "value" => size' = SizeOf(id, B1(in, pos))
             /\ to = "failed" => B1(in, pos) \notin Basic
  <2>1. pc' = to /\ pos' = pos + 1 /\ left' = left - 1 /\ 1 <= Remaining
    BY <1>5 DEF MovedOn
  <2>2. pos' + left' = pos + left BY <1>1, <2>1
  <2>3. to = "value" => size' = SizeOf(id, B1(in, pos)) BY <1>2, <1>3, <1>4, <2>1
  <2>4. Remaining # 0 BY <1>1, <2>1
  <2> QED BY <1>4, <2>1, <2>2, <2>3, <2>4
<1>6. \/ sub = "primitives"
      \/ sub \in {"constants", "statics"} /\ n > 0
  BY <1>2 DEF Inv, Place
<1>7. CASE sub = "primitives"
  <2> DEFINE t == B1(in, c.at)
  <2>1. /\ c.what = "sub" /\ c.end = pos + left /\ Has(in, c, 1)
        /\ t \in {32, 33, 34, 35} /\ sub = Kind(t)
    BY <1>1, <1>2, <1>7 DEF Parses, Reading, InSub
  <2>2. pos = c.at + CountAt(id, t) + 4 /\ n = B4(in, c.at + CountAt(id, t))
    BY <1>1, <1>2, <1>7 DEF Parses, Reading, InSub
  <2>3. t = 35 BY <1>7, <2>1 DEF Kind
  <2>4. CountAt(id, t) = id + 5 /\ Known(id, t) = id + 10
    BY <1>1, <2>3, KnownLengths
  <2> HIDE DEF t
  <2>5. /\ pos = c.at + id + 9 /\ pos + 1 = c.at + (id + 10)
        /\ pos + 1 = c.at + id + 10 /\ c.at <= pos
    <3>1. pos = c.at + (id + 5) + 4 BY <2>2, <2>4
    <3>2. c.at \in Nat /\ id \in Nat BY <1>1
    <3> QED BY <3>1, <3>2
  <2>6. ASSUME NEW x, Leads(in, c, x)
        PROVE  B1(in, pos) \in Basic /\ pos + 1 <= x.at
    <3>1. t \in RootTags \cup {33, 34, 35} BY <2>3
    <3>2. Told(in, c, id, t) BY <1>1, <2>1, <2>6, <3>1, AfterSimple DEF t
    <3>3. B1(in, pos) \in Basic BY <2>3, <2>5, <3>2 DEF Told
    <3>4. c.at + Known(id, t) <= x.at BY <1>1, <2>1, <2>3, <2>6, SubReaches DEF t
    <3> QED BY <2>4, <2>5, <3>3, <3>4
  <2>7. c # RecordAt(Len(in)) BY <2>1 DEF RecordAt, Cursor
  <2>8. At(P, c, 1)
    <3> QED BY <2>1, <2>5, <2>6, <2>7 DEF At, Parses
  <2>9. ASSUME NEW p \in ValuesAt(in, c) PROVE pos + 1 < p
    BY <1>1, <2>5, ValuesWithin
  <2>10. Exact' /\ (Rejected \/ MovedOn(1, to)) BY <1>2, <2>8, <2>9, TakeExact
  <2>11. CASE MovedOn(1, to) /\ to = "value"
    <3>1. pc' = "value" /\ pos' = c.at + id + 10 /\ c.end = pos' + left'
      BY <1>5, <2>1, <2>5, <2>11
    <3>2. /\ B1(in, c.at + id + 9) \in Basic
          /\ size' = SizeOf(id, B1(in, c.at + id + 9))
      BY <1>4, <1>5, <2>5, <2>11
    <3>3. in' = in /\ sub' = "primitives" /\ n' = n /\ Width(in)' = id /\ t' = t
      BY <1>1, <1>2, <1>7 DEF t
    <3>4. n' = B4(in, c.at + CountAt(id, t)) BY <2>2, <3>3
    <3>5. InSub(c)'
      <4>1. Has(in, c, 1)' BY <2>1, <3>3 DEF Has
      <4>2. sub' = Kind(t) BY <1>7, <2>1, <3>3
      <4> QED BY <2>1, <3>1, <3>2, <3>3, <3>4, <4>1, <4>2 DEF InSub, t
    <3>6. Reading(c)' BY <3>1, <3>3, <3>5 DEF Reading, InRecords, InClass
    <3> QED BY <1>2, <2>10, <3>1, <3>6, Stay
  <2>12. CASE MovedOn(1, to) /\ to = "failed"
    BY <1>5, <2>6, <2>7, <2>10, <2>12, Stop
  <2> QED BY <1>4, <2>10, <2>11, <2>12 DEF Onward
<1>8. CASE sub \in {"constants", "statics"} /\ n > 0
  <2> DEFINE h == Name(id)
  <2>1. /\ c.what = sub /\ c.n = n /\ c.end = pos + left /\ pos = c.at + h
    BY <1>1, <1>2, <1>8 DEF Parses, Reading, InClass
  <2>2. h \in Nat /\ h = IF c.what = "constants" THEN 2 ELSE id
    BY <1>1, <2>1 DEF Name
  <2>3. ASSUME NEW x, Leads(in, c, x)
        PROVE  B1(in, pos) \in Basic /\ pos + 1 <= x.at
    <3> DEFINE s == SizeOf(id, B1(in, c.at + h))
    <3>1. x \in AfterEntry(in, c) BY <1>1, <1>8, <2>1, <2>3, AfterEntryOnly
    <3>2. B1(in, c.at + h) \in Basic /\ x.at = c.at + (h + 1 + s)
      BY <1>1, <2>2, <3>1 DEF AfterEntry, When, Cursor
    <3>3. s \in 1..8 BY <1>1, <3>2, LengthsAreNat
    <3> HIDE DEF h, s
    <3>4. c.at \in Nat BY <1>1
    <3>5. pos + 1 <= x.at BY <2>1, <2>2, <3>2, <3>3, <3>4
    <3> QED BY <2>1, <3>2, <3>5
  <2>4. c # RecordAt(Len(in)) BY <1>8, <2>1 DEF RecordAt, Cursor
  <2> HIDE DEF h
  <2>5. At(P, c, 1)
    <3>1. c.at <= pos
      <4>1. c.at \in Nat /\ pos = c.at + h BY <1>1, <2>1
      <4> QED BY <2>2, <4>1
    <3> QED BY <1>8, <2>1, <2>3, <2>4, <3>1 DEF At, Parses
  <2>6. ValuesAt(in, c) = {} BY <1>8, <2>1, NoValues
  <2>7. Exact' /\ (Rejected \/ MovedOn(1, to)) BY <1>2, <2>5, <2>6, TakeExact
  <2>8. CASE MovedOn(1, to) /\ to = "value"
    <3>1. pc' = "value" /\ pos' = c.at + h + 1 /\ c.end = pos' + left'
      BY <1>5, <2>1, <2>8
    <3>2. /\ B1(in, c.at + h) \in Basic /\ size' = SizeOf(id, B1(in, c.at + h))
      BY <1>4, <1>5, <2>1, <2>8
    <3>3. /\ in' = in /\ sub' = sub /\ n' = n /\ Width(in)' = id
          /\ Name(Width(in))' = h
      BY <1>1, <1>2 DEF h, Name
    <3>4. Reading(c)'
      BY <1>8, <2>1, <3>1, <3>2, <3>3 DEF Reading, InRecords, InSub, InClass
    <3> QED BY <1>2, <2>7, <3>1, <3>4, Stay
  <2>9. CASE MovedOn(1, to) /\ to = "failed"
    BY <1>5, <2>3, <2>4, <2>7, <2>9, Stop
  <2> QED BY <1>4, <2>7, <2>8, <2>9 DEF Onward
<1> QED BY <1>6, <1>7, <1>8

\* The values themselves: zeroed, unless they are references.
LEMMA ValueOnward ==
  ASSUME Inv, Exact, NEW P, NEW c, Parses(P, c), Value
  PROVE  Onward
<1>1. /\ in \in Seq(Byte) /\ pos \in Nat /\ Remaining \in Nat /\ left \in Nat
      /\ Len(in) = pos + Remaining /\ c \in Cursors /\ c.at \in Nat /\ c.end \in Nat
      /\ id \in {4, 8} /\ Width(in) = id /\ n \in Nat /\ size \in Nat
  BY Here
<1>2. pc = "value" /\ UNCHANGED <<in, id, sub, size>> BY DEF Value
<1>3. CASE sub = "primitives" /\ Zero(n * size, "heap") /\ UNCHANGED n
  <2> DEFINE t == B1(in, c.at)
             b == B1(in, c.at + id + 9)
             k == n * size
             m == Known(id, t) + Body(in, c.at, id, t)
  <2>1. /\ c.what = "sub" /\ c.end = pos + left /\ Has(in, c, 1)
        /\ t \in {32, 33, 34, 35} /\ sub = Kind(t)
    BY <1>1, <1>2, <1>3 DEF Parses, Reading, InSub
  <2>2. /\ pos = c.at + id + 10 /\ n = B4(in, c.at + CountAt(id, t))
        /\ b \in Basic /\ size = SizeOf(id, b)
    BY <1>1, <1>2, <1>3 DEF Parses, Reading, InSub
  <2>3. t = 35 BY <1>3, <2>1 DEF Kind
  <2>4. CountAt(id, t) = id + 5 /\ Known(id, t) = id + 10
    BY <1>1, <2>3, KnownLengths
  <2>5. k \in Nat
    <3>1. \A x, y \in Nat : x * y \in Nat OBVIOUS
    <3> QED BY <1>1, <3>1
  <2>6. Body(in, c.at, id, t) = k
    <3>1. c.at + id + 5 = c.at + CountAt(id, t) BY <1>1, <2>4
    <3>2. Body(in, c.at, id, t) = B4(in, c.at + CountAt(id, t)) * SizeOf(id, b)
      BY <2>3, <3>1 DEF Body
    <3> QED BY <2>2, <3>2
  <2>7. pos = c.at + Known(id, t) /\ c.at <= pos /\ Known(id, t) \in Nat
    <3>1. c.at \in Nat /\ id \in Nat BY <1>1
    <3>2. pos = c.at + (id + 10) /\ id + 10 \in Nat BY <2>2, <3>1
    <3> QED BY <2>4, <3>1, <3>2
  <2>8. Told(in, c, id, t)
    <3>1. Has(in, c, Known(id, t)) BY <2>1, <2>7, IsThere
    <3> QED BY <2>2, <3>1 DEF Told
  <2>9. Zero(k, "heap") BY <1>3
  <2> HIDE DEF k, t
  <2>10. c.at + m = pos + k
    <3>1. c.at \in Nat BY <1>1
    <3> QED BY <2>5, <2>6, <2>7, <3>1
  <2> HIDE DEF m
  <2>11. ASSUME NEW x
         PROVE  Leads(in, c, x) <=> Has(in, c, m) /\ x = Cursor("sub", c.at + m, c.end, 0)
    <3>1. t \in RootTags \cup {33, 34, 35} BY <2>3
    <3> QED BY <1>1, <2>1, <2>8, <3>1, AfterSimple DEF t, m
  <2>12. At(P, c, k)
    <3>1. \A x : Leads(in, c, x) => pos + k <= x.at
      <4>1. \A x : Leads(in, c, x) => x.at = pos + k BY <2>10, <2>11 DEF Cursor
      <4> QED BY <1>1, <2>5, <4>1
    <3>2. c # RecordAt(Len(in)) BY <2>1 DEF RecordAt, Cursor
    <3> QED BY <2>1, <2>7, <3>1, <3>2 DEF At, Parses
  <2>13. ASSUME NEW p \in 1..k PROVE pos + p \in ValuesAt(in, c)
    <3>1. ValuesAt(in, c) =
            (c.at + Known(id, t) + 1)..(c.at + Known(id, t) + 1 + Body(in, c.at, id, t) - 1)
      BY <1>1, <2>1, <2>3, <2>8 DEF ValuesAt, t
    <3>2. ValuesAt(in, c) = (pos + 1)..(pos + 1 + k - 1) BY <2>6, <2>7, <3>1
    <3>3. pos + p \in (pos + 1)..(pos + 1 + k - 1)
      <4>1. pos \in Nat BY <1>1
      <4> QED BY <2>5, <4>1
    <3> QED BY <3>2, <3>3
  <2>14. Exact' /\ (Rejected \/ MovedOn(k, "heap"))
    BY <1>2, <2>5, <2>9, <2>12, <2>13, ZeroExact
  <2>15. CASE MovedOn(k, "heap")
    <3>1. /\ pc' = "heap" /\ pos' = pos + k /\ left' = left - k /\ k <= left
          /\ k <= Remaining
      BY <2>15 DEF MovedOn
    <3>2. PICK x : x = Cursor("sub", c.at + m, c.end, 0) OBVIOUS
    <3>3. Has(in, c, m) BY <2>1, <2>5, <2>10, <3>1, WasThere
    <3>4. Leads(in, c, x) BY <2>11, <3>2, <3>3
    <3>5. c.at + m = pos' BY <2>10, <3>1
    <3>6. c.end = pos' + left'
      <4>1. pos \in Nat /\ left \in Nat /\ c.end = pos + left BY <1>1, <2>1
      <4> QED BY <2>5, <3>1, <4>1
    <3>7. Reading(x)' BY <3>1, <3>2, <3>5, <3>6, AtStart
    <3> QED BY <1>2, <2>14, <3>1, <3>4, <3>7, GoOn
  <2> QED BY <2>14, <2>15 DEF Onward
<1>4. CASE sub # "primitives" /\ Copy(size, "entry") /\ n' = n - 1
  <2> DEFINE h == Name(id)
             b == B1(in, c.at + h)
             m == h + 1 + size
  <2>1. sub \in {"constants", "statics"} /\ n > 0 BY <1>2, <1>4 DEF Inv, Place
  <2>2. /\ c.what = sub /\ c.n = n /\ c.end = pos + left /\ pos = c.at + h + 1
        /\ b \in Basic /\ size = SizeOf(id, b)
    BY <1>1, <1>2, <2>1 DEF Parses, Reading, InClass
  <2>3. h \in Nat /\ h = IF c.what = "constants" THEN 2 ELSE id
    <3>1. id \in {4, 8} /\ c.what = sub BY <1>1, <2>2
    <3> QED BY <3>1 DEF Name
  <2>4. Has(in, c, h + 1)
    <3> HIDE DEF h
    <3>1. c.at + (h + 1) = pos
      <4>1. c.at \in Nat /\ pos = c.at + h + 1 BY <1>1, <2>2
      <4> QED BY <2>3, <4>1
    <3> QED BY <2>2, <3>1, IsThere
  <2>5. ASSUME NEW x
        PROVE  Leads(in, c, x) <=> /\ Has(in, c, m)
                                  /\ x = Cursor(sub, c.at + m, c.end, n - 1)
    <3>1. Leads(in, c, x) <=> x \in AfterEntry(in, c)
      BY <1>1, <2>1, <2>2, AfterEntryOnly
    <3> QED BY <1>1, <2>1, <2>2, <2>3, <2>4, <3>1 DEF AfterEntry, When
  <2> HIDE DEF h, b
  <2>6. c.at + m = pos + size /\ c.at <= pos
    <3>1. c.at \in Nat /\ size \in Nat BY <1>1
    <3>2. pos = c.at + h + 1 BY <2>2
    <3> QED BY <2>3, <3>1, <3>2
  <2> HIDE DEF m
  <2>7. At(P, c, size)
    <3>1. \A x : Leads(in, c, x) => pos + size <= x.at
      <4>1. \A x : Leads(in, c, x) => x.at = pos + size BY <2>5, <2>6 DEF Cursor
      <4> QED BY <1>1, <4>1
    <3>2. c # RecordAt(Len(in)) BY <2>1, <2>2 DEF RecordAt, Cursor
    <3> QED BY <2>1, <2>2, <2>6, <3>1, <3>2 DEF At, Parses
  <2>8. ValuesAt(in, c) = {} BY <2>1, <2>2, NoValues
  <2>9. Exact' /\ (Rejected \/ MovedOn(size, "entry"))
    BY <1>1, <1>2, <1>4, <2>7, <2>8, CopyExact
  <2>10. CASE MovedOn(size, "entry")
    <3>1. /\ pc' = "entry" /\ pos' = pos + size /\ left' = left - size /\ size <= left
          /\ size <= Remaining
      BY <2>10 DEF MovedOn
    <3>2. PICK x : x = Cursor(sub, c.at + m, c.end, n - 1) OBVIOUS
    <3>3. Has(in, c, m) BY <1>1, <2>2, <2>6, <3>1, WasThere
    <3>4. Leads(in, c, x) BY <2>5, <3>2, <3>3
    <3>5. c.at + m = pos' /\ sub' = sub /\ n' = n - 1 BY <1>2, <1>4, <2>6, <3>1
    <3>6. c.end = pos' + left'
      <4>1. pos \in Nat /\ left \in Nat /\ size \in Nat /\ c.end = pos + left
        BY <1>1, <2>2
      <4> QED BY <3>1, <4>1
    <3>7. x = Cursor(sub', pos', pos' + left', n') BY <3>2, <3>5, <3>6
    <3>8. Reading(x)' BY <3>1, <3>7, AtStart
    <3> QED BY <1>2, <2>9, <3>1, <3>4, <3>8, GoOn
  <2> QED BY <2>9, <2>10 DEF Onward
<1> QED BY <1>3, <1>4 DEF Value

-----------------------------------------------------------------------------

\* A dump that does not open like one has no places, and no dump has a value
\* before its first record.
LEMMA OpeningOnly ==
  ASSUME NEW d \in Seq(Byte)
  PROVE  /\ ~Opens(d) => ~Readable(d)
         /\ \A p \in Values(d) : p \in Nat /\ 13 < p
<1>1. ~Opens(d) => Places(d) = {} BY DEF Places
<1>2. ASSUME NEW p \in Values(d) PROVE p \in Nat /\ 13 < p
  <2>1. PICK y \in Places(d) : p \in ValuesAt(d, y) BY <1>2 DEF Values
  <2>2. Opens(d) BY <1>1, <2>1
  <2>3. Width(d) \in {4, 8} BY <2>2 DEF Opens
  <2> DEFINE G == {x \in Cursors : 13 <= x.at}
  <2>4. RecordAt(13) \in G BY DEF RecordAt, Cursor, Cursors
  <2>5. ASSUME NEW c \in G, NEW x \in Cursors, Leads(d, c, x) PROVE x \in G
    <3>1. c.at <= x.at BY <2>3, <2>5, LeadsOn
    <3>2. c.at \in Nat /\ x.at \in Nat /\ 13 <= c.at BY DEF Cursors
    <3> QED BY <3>1, <3>2
  <2>6. G \in SUBSET Cursors OBVIOUS
  <2>7. G \in Onwards(d) BY <2>5, <2>6 DEF Onwards
  <2>8. y \in Cursors /\ 13 <= y.at BY <2>1, <2>4, <2>7, PlacesLeast
  <2>9. p \in Nat /\ y.at + Width(d) + 10 < p BY <2>1, <2>3, <2>8, ValuesWithin
  <2>10. y.at \in Nat BY <2>8 DEF Cursors
  <2> QED BY <2>3, <2>8, <2>9, <2>10
<1> QED BY <1>1, <1>2 DEF Readable

\* Copying the opening of a dump keeps the output exact.
LEMMA OpeningExact ==
  ASSUME Inv, pc # "failed", Exact, UNCHANGED in, NEW k \in Nat, k <= Remaining,
         pos + k <= 13, Emit(k, Upcoming(k))
  PROVE  Exact'
<1>1. in \in Seq(Byte) /\ pos \in Nat BY BytesAhead DEF Inv, TypeOK
<1> DEFINE u == Upcoming(k)
<1>2. u \in Seq(Byte) /\ Len(u) = k /\ \A p \in 1..k : u[p] = in[pos + p]
  BY UpcomingIsInput
<1>3. ASSUME NEW p \in 1..k PROVE pos + p \notin Values(in)
  <2>1. ASSUME pos + p \in Values(in) PROVE FALSE
    <3>1. 13 < pos + p BY <1>1, <2>1, OpeningOnly
    <3>2. pos + p <= pos + k BY <1>1
    <3> QED BY <1>1, <3>1, <3>2
  <2> QED BY <2>1
<1>4. Emit(k, u) OBVIOUS
<1> HIDE DEF u
<1> QED BY <1>2, <1>3, <1>4, EmitExact

\* What the parser knows: it is at a place of the dump, having passed all those
\* before, or the dump is not readable; and the output is exact.
Sense ==
  /\ Exact
  /\ pc = "sizes" => pos = 1 /\ HasMagic
  /\ pc = "failed" => ~Readable(in)
  /\ pc \notin {"magic", "sizes", "failed"} => \E P, c : Parses(P, c)

\* At the start nothing is written.
LEMMA InitSense ==
  ASSUME Init
  PROVE  Sense
<1>1. Len(out) = 0 /\ pc = "magic" BY DEF Init
<1> QED BY <1>1 DEF Sense, Exact

\* The first line.
LEMMA ReadMagicSense ==
  ASSUME Inv, Sense, ReadMagic
  PROVE  Sense'
<1>1. in \in Seq(Byte) /\ pos = 0 /\ pc = "magic" /\ UNCHANGED in
  BY DEF ReadMagic, Inv, TypeOK, Place
<1>2. CASE HasMagic /\ Emit(1, Upcoming(1)) /\ pc' = "sizes"
  <2>1. 1 <= Remaining
    <3>1. Len(in) \in Nat /\ Len(in) # 0 BY <1>1, <1>2, EmptySeq DEF HasMagic
    <3> QED BY <1>1, <3>1 DEF Remaining
  <2>2. Exact' BY <1>1, <1>2, <2>1, OpeningExact DEF Sense
  <2>3. pos' = 1 /\ HasMagic' BY <1>1, <1>2 DEF Emit, HasMagic, U1
  <2> QED BY <1>2, <2>2, <2>3 DEF Sense
<1>3. CASE ~HasMagic /\ pc' = "failed" /\ UNCHANGED <<pos, out>>
  <2>1. Exact' BY <1>1, <1>3 DEF Sense, Exact
  <2>2. ~Opens(in)
    <3>1. Opens(in) => HasMagic
      BY <1>1, EmptySeq DEF Opens, HasMagic, U1, B1, Magic
    <3> QED BY <1>3, <3>1
  <2>3. ~Readable(in') BY <1>1, <2>2, OpeningOnly
  <2> QED BY <1>3, <2>1, <2>3 DEF Sense
<1> QED BY <1>2, <1>3 DEF ReadMagic

\* The width of the ids and the date.
LEMMA ReadSizesSense ==
  ASSUME Inv, Sense, ReadSizes
  PROVE  Sense'
<1>1. /\ in \in Seq(Byte) /\ pc = "sizes" /\ pos = 1 /\ HasMagic
      /\ UNCHANGED <<in, sub, n, size>>
  BY DEF ReadSizes, Inv, TypeOK, Sense
<1>2. Remaining \in Nat /\ Len(in) = 1 + Remaining BY <1>1, BytesAhead
<1>3. U4(pos) = Width(in) BY <1>1 DEF U4, U2, U1, Width, B4, B2, B1
<1>4. B1(in, 0) = 74 BY <1>1 DEF HasMagic, U1, B1, Magic
<1>5. CASE Remaining < 12 /\ Fail /\ UNCHANGED id
  <2>1. ~Opens(in) BY <1>2, <1>5 DEF Opens
  <2>2. ~Readable(in') BY <1>1, <2>1, OpeningOnly
  <2>3. Exact' /\ pc' = "failed" BY <1>1, <1>5 DEF Sense, Exact, Fail
  <2> QED BY <2>2, <2>3 DEF Sense
<1>6. CASE /\ Remaining >= 12
           /\ Emit(12, Upcoming(12)) /\ id' = U4(pos)
           /\ pc' = IF id' \in {4, 8} THEN "record" ELSE "failed"
           /\ UNCHANGED left
  <2>1. Exact'
    <3>1. 12 <= Remaining /\ pos + 12 <= 13 BY <1>1, <1>2, <1>6
    <3> QED BY <1>1, <1>6, <3>1, OpeningExact DEF Sense
  <2>2. pos' = 13 BY <1>1, <1>6 DEF Emit
  <2>3. CASE id' \in {4, 8}
    <3>1. Len(in) >= 13 BY <1>2, <1>6
    <3>2. Opens(in) BY <1>3, <1>4, <1>6, <2>3, <3>1 DEF Opens
    <3>3. Trail(in, {}, RecordAt(13)) BY <1>1, <3>2, TrailStarts
    <3>4. PICK x : x = RecordAt(13) OBVIOUS
    <3>5. Trail(in', {}, x) BY <1>1, <3>3, <3>4
    <3>6. pc' = "record" BY <1>6, <2>3
    <3>7. Reading(x)' BY <2>2, <3>4, <3>6 DEF Reading, InRecords, InSub, InClass
    <3>8. id' = Width(in') BY <1>1, <1>3, <1>6
    <3>9. Parses({}, x)' BY <3>5, <3>7, <3>8 DEF Parses
    <3> QED BY <2>1, <3>6, <3>9 DEF Sense
  <2>4. CASE id' \notin {4, 8}
    <3>1. ~Opens(in) BY <1>3, <1>6, <2>4 DEF Opens
    <3>2. ~Readable(in') BY <1>1, <3>1, OpeningOnly
    <3>3. pc' = "failed" BY <1>6, <2>4
    <3> QED BY <2>1, <3>2, <3>3 DEF Sense
  <2> QED BY <2>3, <2>4
<1> QED BY <1>5, <1>6 DEF ReadSizes

\* No step but ReadMagic leads to the sizes.
LEMMA SizesOnce ==
  ASSUME Next, ~ReadMagic, pc # "sizes"
  PROVE  pc' # "sizes"
<1>1. CASE Record BY <1>1 DEF Record, Fail
<1>2. CASE Skip BY <1>2 DEF Skip, Copy, Move, Fail
<1>3. CASE HeapDump BY <1>3 DEF HeapDump, Take, Move, Fail
<1>4. CASE Root BY <1>4 DEF Root, Copy, Move, Fail
<1>5. CASE Lead BY <1>5 DEF Lead, Copy, Move, Fail
<1>6. CASE Count BY <1>6 DEF Count, Take, Move, Fail
<1>7. CASE Table BY <1>7 DEF Table, Take, Move, Fail
<1>8. CASE Rest BY <1>8 DEF Rest, Copy, Move, Fail
<1>9. CASE Entry BY <1>9 DEF Entry, Copy, Move, Fail
<1>10. CASE ElementType BY <1>10 DEF ElementType, Take, Move, Fail
<1>11. CASE Value BY <1>11 DEF Value, Copy, Zero, Move, Fail
<1>12. CASE ReadSizes BY <1>12 DEF ReadSizes
<1>13. CASE Over BY <1>13 DEF Over, vars
<1> QED BY <1>1, <1>2, <1>3, <1>4, <1>5, <1>6, <1>7, <1>8, <1>9, <1>10, <1>11,
           <1>12, <1>13 DEF Next

\* Every step of the parser goes along the trail.
LEMMA NextSense ==
  ASSUME Inv, Sense, [Next]_vars
  PROVE  Sense'
<1>1. CASE ReadMagic BY <1>1, ReadMagicSense
<1>2. CASE ReadSizes BY <1>2, ReadSizesSense
<1>3. CASE /\ ~ReadMagic /\ Next
           /\ \/ Record \/ Skip \/ HeapDump \/ Root \/ Lead \/ Count \/ Table
              \/ Rest \/ Entry \/ ElementType \/ Value
  <2>1. /\ pc \notin {"magic", "sizes", "failed"} /\ UNCHANGED in
    BY <1>3 DEF Record, Skip, HeapDump, Root, Lead, Count, Table, Rest, Entry,
                ElementType, Value
  <2>2. PICK P, c : Parses(P, c) BY <2>1 DEF Sense
  <2>3. Onward
    BY <1>3, <2>2, RecordOnward, SkipOnward, HeapDumpOnward, RootOnward, LeadOnward,
       CountOnward, TableOnward, RestOnward, EntryOnward, ElementTypeOnward,
       ValueOnward DEF Sense
  <2>4. pc' # "sizes" BY <1>3, <2>1, SizesOnce
  <2>5. Rejected => ~Readable(in') BY <2>1 DEF Rejected
  <2> QED BY <2>3, <2>4, <2>5 DEF Sense, Onward, Rejected
<1>4. CASE Over \/ UNCHANGED vars
  <2>1. UNCHANGED <<in, pos, out, id, left, pc, sub, n, size>>
    BY <1>4 DEF Over, vars
  <2> QED BY <2>1 DEF Sense, Exact, HasMagic, U1, Parses, Reading, InRecords, InSub,
                      InClass, Has, Name
<1> QED BY <1>1, <1>2, <1>3, <1>4 DEF Next

\* The invariant holds at all times.
LEMMA SenseHolds == Spec => []Sense
<1>1. Init => Sense BY InitSense
<1>2. Inv /\ Sense /\ [Next]_vars => Sense' BY NextSense
<1> QED BY <1>1, <1>2, InvHolds, PTL DEF Spec

\* Whatever it is given, HPROF accepts exactly what is made of whole records,
\* every segment of it of whole sub-records of the known kinds
\* (hprof.go:41-138).  Records that are no heap dump may have any tag.
THEOREM AcceptsTheFormat == Spec => []AcceptsReadable
<1>1. Inv /\ Sense => AcceptsReadable
  <2> SUFFICES ASSUME Inv, Sense PROVE AcceptsReadable OBVIOUS
  <2>1. ASSUME pc = "ok" PROVE Readable(in)
    <3>1. PICK P, c : Parses(P, c) BY <2>1 DEF Sense
    <3>2. c = RecordAt(pos) /\ c \in Places(in)
      BY <2>1, <3>1 DEF Parses, Reading, InRecords, Trail
    <3>3. pos = Len(in) BY <2>1 DEF Inv, Follows
    <3> QED BY <3>2, <3>3 DEF Readable
  <2> QED BY <2>1 DEF Sense, AcceptsReadable
<1> QED BY <1>1, InvHolds, SenseHolds, PTL

\* Whatever it is given and however it ends, what HPROF has written is the
\* input with the values of its primitive arrays zeroed and nothing else
\* changed, to its end if it was accepted (hprof.go:15-19).
THEOREM ZeroesValuesOnly == Spec => []OnlyValuesZeroed
<1>1. Inv /\ Sense => OnlyValuesZeroed
  BY DEF Inv, Follows, Sense, Exact, OnlyValuesZeroed
<1> QED BY <1>1, InvHolds, SenseHolds, PTL

-----------------------------------------------------------------------------
\* The parser comes to an end.

Weight == CASE pc \in {"root", "rest", "value"} -> 3
          [] pc \in {"skip", "heap", "lead", "entry"} -> 2
          [] OTHER -> 1

\* A bound of the steps that are left, four at most for each byte ahead.
StepsLeft == IF pc \in {"ok", "failed"} THEN 0 ELSE 4 * Remaining + Weight

\* take, copy and zero fail or get as far as they say.
LEMMA MoveAdvances ==
  ASSUME Inv, UNCHANGED in, NEW k \in Nat, NEW to, NEW bytes, NEW short,
         Move(k, bytes, short, to)
  PROVE  \/ pc' = "failed"
         \/ pc' = to /\ k <= Remaining /\ Remaining' = Remaining - k
<1>1. Len(in) \in Nat /\ pos \in Nat /\ pos + Remaining = Len(in) BY BytesAhead
<1>2. pos' = pos + k => Remaining' = Remaining - k BY <1>1 DEF Remaining
<1> QED BY <1>2 DEF Move, Emit, Fail

\* A step that reads k bytes and goes on at a place that weighs little enough,
\* or stops, has less left to do.
LEMMA Less ==
  ASSUME Inv, pc \notin {"ok", "failed"}, NEW k \in Nat,
         \/ pc' \in {"ok", "failed"}
         \/ k <= Remaining /\ Remaining' = Remaining - k /\ Weight' < 4 * k + Weight
  PROVE  StepsLeft' < StepsLeft
<1>1. Remaining \in Nat BY NumbersAreNat
<1>2. Weight \in 1..3 BY DEF Weight
<1>3. Weight' \in 1..3 BY DEF Weight
<1>4. StepsLeft = 4 * Remaining + Weight /\ StepsLeft > 0 BY <1>1, <1>2 DEF StepsLeft
<1>5. CASE pc' \in {"ok", "failed"} BY <1>4, <1>5 DEF StepsLeft
<1>6. CASE /\ pc' \notin {"ok", "failed"}
           /\ k <= Remaining /\ Remaining' = Remaining - k /\ Weight' < 4 * k + Weight
  <2>1. StepsLeft' = 4 * (Remaining - k) + Weight' BY <1>6 DEF StepsLeft
  <2>2. \A a, b, v, w \in Nat : b <= a /\ v < 4 * b + w => 4 * (a - b) + v < 4 * a + w
    OBVIOUS
  <2>3. Weight \in Nat /\ Weight' \in Nat BY <1>2, <1>3
  <2>4. 4 * (Remaining - k) + Weight' < 4 * Remaining + Weight
    BY <1>1, <1>6, <2>2, <2>3
  <2> QED BY <1>4, <2>1, <2>4
<1> QED BY <1>5, <1>6

\* Every step of the parser leaves less to do, also one that reads nothing: an
\* empty record, an array of no elements, a table of no entries.
LEMMA NextLess ==
  ASSUME Inv, Next, ~Over
  PROVE  StepsLeft' < StepsLeft
<1>1. Remaining \in Nat BY NumbersAreNat
<1>2. /\ Weight = 3 <=> pc \in {"root", "rest", "value"}
      /\ Weight = 2 <=> pc \in {"skip", "heap", "lead", "entry"}
      /\ Weight = 1 <=> pc \notin {"root", "rest", "value", "skip", "heap", "lead", "entry"}
      /\ Weight' \in 1..3
      /\ pc' \in {"skip", "heap", "lead", "entry"} => Weight' = 2
      /\ pc' \notin {"root", "rest", "value", "skip", "heap", "lead", "entry"} => Weight' = 1
  BY DEF Weight
<1>3. ASSUME NEW k \in Nat, pos' = pos + k, UNCHANGED in
      PROVE  Remaining' = Remaining - k
  <2>1. Len(in) \in Nat /\ pos \in Nat BY BytesAhead
  <2> QED BY <1>3, <2>1 DEF Remaining
<1> HIDE DEF Weight
<1>4. CASE ReadMagic
  <2>1. CASE HasMagic /\ Emit(1, Upcoming(1)) /\ pc' = "sizes"
    <3>1. in \in Seq(Byte) /\ pos = 0 /\ in # <<>>
      BY <1>4, <2>1 DEF HasMagic, ReadMagic, Inv, TypeOK, Place
    <3>2. Len(in) \in Nat /\ Len(in) # 0 BY <3>1, EmptySeq
    <3>3. 1 <= Remaining BY <3>1, <3>2 DEF Remaining
    <3>4. Remaining' = Remaining - 1 BY <1>3, <1>4, <2>1 DEF ReadMagic, Emit
    <3> QED BY <1>2, <1>4, <2>1, <3>3, <3>4, Less DEF ReadMagic
  <2>2. CASE pc' = "failed" BY <1>4, <2>2, Less DEF ReadMagic
  <2> QED BY <1>4, <2>1, <2>2 DEF ReadMagic
<1>5. CASE ReadSizes
  <2>1. CASE Remaining >= 12 /\ Emit(12, Upcoming(12)) /\ pc' = "record"
    <3>1. Remaining' = Remaining - 12 BY <1>3, <1>5, <2>1 DEF ReadSizes, Emit
    <3> QED BY <1>1, <1>2, <1>5, <2>1, <3>1, Less DEF ReadSizes
  <2>2. CASE pc' = "failed" BY <1>5, <2>2, Less DEF ReadSizes
  <2> QED BY <1>5, <2>1, <2>2 DEF ReadSizes, Fail
<1>6. CASE Record
  <2>1. CASE Remaining >= 9 /\ Emit(9, Upcoming(9)) /\ pc' \in {"heap", "skip"}
    <3>1. Remaining' = Remaining - 9 BY <1>3, <1>6, <2>1 DEF Record, Emit
    <3> QED BY <1>1, <1>2, <1>6, <2>1, <3>1, Less DEF Record
  <2>2. CASE pc' \in {"ok", "failed"} BY <1>6, <2>2, Less DEF Record
  <2> QED BY <1>6, <2>1, <2>2 DEF Record, Fail
<1>7. ASSUME NEW k \in Nat, NEW to, UNCHANGED in, pc \notin {"ok", "failed"},
             Take(k, to) \/ Copy(k, to) \/ Zero(k, to),
             pc' = to => Weight' < 4 * k + Weight
      PROVE  StepsLeft' < StepsLeft
  <2>1. PICK bytes, short : Move(k, bytes, short, to) BY <1>7 DEF Take, Copy, Zero
  <2>2. \/ pc' = "failed"
        \/ pc' = to /\ k <= Remaining /\ Remaining' = Remaining - k
    BY <1>7, <2>1, MoveAdvances
  <2> QED BY <1>7, <2>2, Less
<1>8. CASE Skip
  <2>1. left \in Nat BY DEF Inv, TypeOK
  <2> QED BY <1>2, <1>7, <1>8, <2>1 DEF Skip
<1>9. CASE HeapDump
  <2>1. CASE left = 0 /\ pc' = "record" /\ UNCHANGED <<pos, out, left>>
    <3>1. Remaining' = Remaining - 0 BY <1>1, <1>9, <2>1 DEF HeapDump, Remaining
    <3> QED BY <1>1, <1>2, <1>9, <2>1, <3>1, Less DEF HeapDump
  <2>2. CASE left # 0
    <3>1. PICK to : Take(1, to) BY <1>9, <2>2 DEF HeapDump
    <3> QED BY <1>2, <1>7, <1>9, <3>1 DEF HeapDump
  <2> QED BY <1>9, <2>1, <2>2 DEF HeapDump
<1>10. CASE Root
  <2>1. n \in Nat BY DEF Inv, TypeOK
  <2> QED BY <1>2, <1>7, <1>10, <2>1 DEF Root
<1>11. CASE Lead
  <2> DEFINE k == CASE sub = "instance"  -> 2 * id + 4
                    [] sub = "constants" -> 7 * id + 8
                    [] OTHER             -> id + 4
             to == IF sub = "constants" THEN "table" ELSE "count"
  <2>1. k \in Nat
    <3>1. id \in Nat BY DEF Inv, TypeOK
    <3> QED BY <3>1
  <2>2. Copy(k, to) /\ UNCHANGED in /\ pc = "lead" BY <1>11 DEF Lead
  <2>3. pc' = to => Weight' = 1 BY <1>2
  <2> HIDE DEF k, to
  <2>4. Weight = 2 BY <1>2, <2>2
  <2> QED BY <1>7, <2>1, <2>2, <2>3, <2>4
<1>12. CASE Count
  <2>1. PICK to : Take(4, to) BY <1>12 DEF Count
  <2> QED BY <1>2, <1>7, <1>12, <2>1 DEF Count
<1>13. CASE Table
  <2>1. PICK to : Take(2, to) BY <1>13 DEF Table
  <2> QED BY <1>2, <1>7, <1>13, <2>1 DEF Table
<1>14. CASE Rest
  <2> DEFINE k == CASE sub = "instance" -> n
                    [] sub = "objects"  -> id + n * id
                    [] sub = "fields"   -> n * (id + 1)
  <2>1. k \in Nat
    <3>1. /\ id \in Nat /\ n \in Nat
          /\ sub \in {"instance", "objects", "fields"}
      BY <1>14 DEF Rest, Inv, TypeOK, Place
    <3>2. \A a, b \in Nat : b + a * b \in Nat /\ a * (b + 1) \in Nat OBVIOUS
    <3> QED BY <3>1, <3>2
  <2>2. Copy(k, "heap") /\ UNCHANGED in /\ pc = "rest" BY <1>14 DEF Rest
  <2> HIDE DEF k
  <2>3. Weight = 3 /\ (pc' = "heap" => Weight' = 2) BY <1>2, <2>2
  <2> QED BY <1>7, <2>1, <2>2, <2>3
<1>15. CASE Entry
  <2>1. CASE n = 0 /\ pc' = "table" /\ UNCHANGED <<pos, out, left>>
    <3>1. Remaining' = Remaining - 0 BY <1>1, <1>15, <2>1 DEF Entry, Remaining
    <3> QED BY <1>1, <1>2, <1>15, <2>1, <3>1, Less DEF Entry
  <2>2. CASE n > 0
    <3>1. PICK k \in Nat : Copy(k, "type")
      <4>1. id \in Nat /\ n # 0 BY <2>2 DEF Inv, TypeOK
      <4> QED BY <1>15, <4>1 DEF Entry
    <3>2. Weight = 2 /\ pc = "entry" /\ UNCHANGED in BY <1>2, <1>15 DEF Entry
    <3>3. pc' = "type" => Weight' = 1 BY <1>2
    <3> QED BY <1>7, <3>1, <3>2, <3>3
  <2> QED BY <1>15, <2>1, <2>2 DEF Entry
<1>16. CASE ElementType
  <2>1. PICK to : Take(1, to) BY <1>16 DEF ElementType
  <2> QED BY <1>2, <1>7, <1>16, <2>1 DEF ElementType
<1>17. CASE Value
  <2>1. PICK k \in Nat, to \in {"heap", "entry"} : Zero(k, to) \/ Copy(k, to)
    <3>1. n \in Nat /\ size \in Nat BY DEF Inv, TypeOK
    <3>2. \A a, b \in Nat : a * b \in Nat OBVIOUS
    <3> QED BY <1>17, <3>1, <3>2 DEF Value
  <2>2. Weight = 3 /\ pc = "value" /\ UNCHANGED in BY <1>2, <1>17 DEF Value
  <2>3. pc' = to => Weight' = 2 BY <1>2, <2>1
  <2> QED BY <1>7, <2>1, <2>2, <2>3
<1> QED BY <1>4, <1>5, <1>6, <1>8, <1>9, <1>10, <1>11, <1>12, <1>13, <1>14, <1>15,
           <1>16, <1>17 DEF Next

\* HPROF ends on every input: each of its steps brings a natural number down,
\* which is at most three more than four times the length of the input.
THEOREM ParserEnds ==
  Spec => /\ [](StepsLeft \in 0..(4 * Len(in) + 3))
          /\ [][StepsLeft' < StepsLeft]_vars
<1>1. Inv => StepsLeft \in 0..(4 * Len(in) + 3)
  <2> SUFFICES ASSUME Inv PROVE StepsLeft \in 0..(4 * Len(in) + 3) OBVIOUS
  <2>1. pos \in Nat /\ Remaining \in Nat /\ Len(in) = pos + Remaining BY BytesAhead
  <2>2. Weight \in 1..3 BY DEF Weight
  <2> QED BY <2>1, <2>2 DEF StepsLeft
<1>2. Inv /\ [Next]_vars => [StepsLeft' < StepsLeft]_vars
  BY NextLess DEF Over
<1> QED BY <1>1, <1>2, InvHolds, PTL DEF Spec
=============================================================================
