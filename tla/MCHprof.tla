------------------------------ MODULE MCHprof ------------------------------
(***************************************************************************)
(* Hprof on dumps written record by record, each with the positions of the *)
(* values its primitive arrays hold, on every prefix of them, and on       *)
(* damaged ones.  No byte a dump is built from is 0 unless it is part of a *)
(* number, so that a zeroed byte shows.                                    *)
(* One dump has a record of a kind that does not exist: it is passed on.   *)
(* HprofFormat's grammar is evaluated on the same dumps: FormatAgrees.     *)
(***************************************************************************)
EXTENDS Hprof, FiniteSetsExt, SequencesExt

\* A piece of a dump: its bytes, and which of them are values of arrays.
Plain(bytes) == [bytes |-> bytes, values |-> {}]
Hidden(bytes) == [bytes |-> bytes, values |-> 1..Len(bytes)]
Fill(k) == [j \in 1..k |-> 9]

Join(x, y) ==
  [bytes |-> x.bytes \o y.bytes,
   values |-> x.values \cup {Len(x.bytes) + p : p \in y.values}]
Pieces(ps) == FoldLeft(Join, Plain(<<>>), ps)

N2(k) == <<0, k>>
N4(k) == <<0, 0, 0, k>>

\* The sub-records, for identifiers of w bytes.
RootOf(tag, k) == Plain(<<tag>> \o Fill(k))
Instance(w, k) == Plain(<<33>> \o Fill(2 * w + 4) \o N4(k) \o Fill(k))
Objects(w, k) == Plain(<<34>> \o Fill(w + 4) \o N4(k) \o Fill(w + k * w))
Array(w, k, type, bytes) ==
  Join(Plain(<<35>> \o Fill(w + 4) \o N4(k) \o <<type>>), Hidden(Fill(bytes)))
Class(w, constants, statics, fields) ==
  Plain(<<32>> \o Fill(7 * w + 8) \o N2(Len(constants))
          \o FlattenSeq([j \in DOMAIN constants |->
                <<9, 9, constants[j][1]>> \o Fill(constants[j][2])])
          \o N2(Len(statics))
          \o FlattenSeq([j \in DOMAIN statics |->
                Fill(w) \o <<statics[j][1]>> \o Fill(statics[j][2])])
          \o N2(fields) \o Fill(fields * (w + 1)))

SubRecords(w) ==
  {RootOf(255, w), RootOf(1, 2 * w), RootOf(2, w + 8), RootOf(3, w + 8),
   RootOf(4, w + 4), RootOf(5, w), RootOf(6, w + 4), RootOf(7, w),
   RootOf(8, w + 8), Instance(w, 0), Instance(w, 3), Objects(w, 0),
   Objects(w, 2), Array(w, 0, 8, 0), Array(w, 3, 8, 3), Array(w, 2, 5, 4),
   Array(w, 2, 6, 8), Array(w, 1, 11, 8), Class(w, <<>>, <<>>, 0),
   Class(w, << <<10, 4>>, <<4, 1>> >>, << <<2, w>> >>, 2)}

Opening(w) == Plain(<<Magic>> \o N4(w) \o Fill(8))
Rec(tag, body) == Join(Plain(<<tag>> \o Fill(4) \o N4(Len(body.bytes))), body)
\* The same, with a length that is one too small.
RecShort(tag, body) ==
  Join(Plain(<<tag>> \o Fill(4) \o N4(Len(body.bytes) - 1)), body)

\* A string, a segment with two sub-records of which the second is an array,
\* and the end of the dump.
Dumps ==
  {<<Opening(w), Rec(1, Plain(Fill(3))), Rec(28, Join(s, Array(w, 2, 9, 4))),
     Rec(44, Plain(<<>>))>> : s \in SubRecords(4), w \in {4}}
  \cup
  {<<Opening(w), Rec(12, Join(Array(w, 1, 7, 8), s)), Rec(44, Plain(<<>>))>> :
     s \in SubRecords(8), w \in {8}}
  \cup
  {<<Opening(4), Rec(99, Plain(Fill(2))), Rec(28, Array(4, 1, 9, 2))>>}

\* An identifier size, a sub-record and a basic type that do not exist, and
\* records whose length cuts their last sub-record.
Damaged ==
  {<<Opening(5), Rec(28, RootOf(5, 5))>>,
   <<Opening(4), Rec(28, RootOf(9, 4))>>,
   <<Opening(4), Rec(28, Array(4, 1, 3, 1))>>,
   <<Opening(4), Rec(28, Class(4, << <<12, 4>> >>, <<>>, 0))>>}
  \cup {<<Opening(4), RecShort(28, s), Rec(44, Plain(<<>>))>> : s \in SubRecords(4)}

\* A dump as HPROF sees it, and where its records end.
Laid(d) == [bytes  |-> Pieces(d).bytes, values |-> Pieces(d).values,
            ends   |-> {Len(Pieces(SubSeq(d, 1, k)).bytes) : k \in 1..Len(d)}]

Whole == {Laid(d) : d \in Dumps}
Broken == {Pieces(d).bytes : d \in Damaged}

\* HprofFormat finds the records and the values where they were laid, takes no
\* part of a dump for a whole one, and none of the damaged ones either.
ASSUME FormatAgrees ==
  /\ \A d \in Whole :
       /\ Values(d.bytes) = d.values
       /\ \A b \in Prefixes(d.bytes) : Readable(b) <=> Len(b) \in d.ends
  /\ \A b \in Broken : ~Readable(b)

DumpInputs == UNION {Prefixes(d.bytes) : d \in Whole} \cup Broken
=============================================================================
