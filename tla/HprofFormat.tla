---------------------------- MODULE HprofFormat ----------------------------
(***************************************************************************)
(* A heap dump as its format describes it, apart from any parser: what     *)
(* follows what in it, and which of its bytes are values of primitive      *)
(* arrays.  internal/redact/hprof.go gives the layout of each sub-record   *)
(* beside the code that copies it.  A record that is no heap dump is whole *)
(* if its length says so, whatever its tag.                                *)
(*                                                                         *)
(* A cursor marks a place where something starts: a record, a sub-record   *)
(* of a segment that ends at end, or, in the constants or the statics of a *)
(* class, an entry of which n are still to come.                           *)
(***************************************************************************)
EXTENDS Naturals, Sequences

Cursors == [what : {"record", "sub", "constants", "statics"},
            at : Nat, end : Nat, n : Nat]
Cursor(what, at, end, n) == [what |-> what, at |-> at, end |-> end, n |-> n]
RecordAt(p) == Cursor("record", p, 0, 0)

\* The numbers of a dump d, big-endian, and its size of an identifier.
B1(d, p) == d[p + 1]
B2(d, p) == 256 * B1(d, p) + B1(d, p + 1)
B4(d, p) == 256 * 256 * B2(d, p) + B2(d, p + 2)
Width(d) == B4(d, 1)

Opens(d) == Len(d) >= 13 /\ B1(d, 0) = 74 /\ Width(d) \in {4, 8}

Basic == {2, 4, 5, 6, 7, 8, 9, 10, 11}
SizeOf(w, t) == CASE t = 2 -> w            [] t \in {4, 8} -> 1
                  [] t \in {5, 9} -> 2     [] t \in {6, 10} -> 4
                  [] t \in {7, 11} -> 8

\* The sub-records that are no classes: the bytes that tell their length, and
\* how many follow.
RootTags == {255, 1, 2, 3, 4, 5, 6, 7, 8}
Known(w, t) == CASE t \in {255, 5, 7} -> 1 + w      [] t = 1 -> 1 + 2 * w
                [] t \in {4, 6} -> 1 + w + 4       [] t \in {2, 3, 8} -> 1 + w + 8
                [] t = 33 -> 1 + 2 * w + 4 + 4     [] t = 34 -> 1 + w + 4 + 4
                [] t = 35 -> 1 + w + 4 + 4 + 1
Body(d, q, w, t) ==
  CASE t = 33 -> B4(d, q + 2 * w + 5)
    [] t = 34 -> w + B4(d, q + w + 5) * w
    [] t = 35 -> B4(d, q + w + 5) * SizeOf(w, B1(d, q + w + 9))
    [] OTHER  -> 0

\* The first k bytes of what starts at c are in its segment and in the dump.
Has(d, c, k) == c.at + k <= c.end /\ c.at + k <= Len(d)

Told(d, c, w, t) ==
  Has(d, c, Known(w, t)) /\ (t = 35 => B1(d, c.at + w + 9) \in Basic)

-----------------------------------------------------------------------------
\* What comes after what, if all of it is there: one place or none.

When(P, x) == IF P THEN {x} ELSE {}

AfterRecord(d, c) ==
  LET t == B1(d, c.at)
      e == c.at + 9 + B4(d, c.at + 5)
      here == c.what = "record" /\ c.at + 9 <= Len(d) IN
  When(here /\ t \in {12, 28}, Cursor("sub", c.at + 9, e, 0))
  \cup When(here /\ t \notin {12, 28} /\ e <= Len(d), RecordAt(e))

AfterSub(d, c) ==
  LET w == Width(d)
      t == B1(d, c.at)
      k == Known(w, t) + Body(d, c.at, w, t)
      here == c.what = "sub" /\ Has(d, c, 1) IN
  When(c.what = "sub" /\ c.at = c.end /\ c.at <= Len(d), RecordAt(c.at))
  \cup When(/\ here /\ t \in RootTags \cup {33, 34, 35}
            /\ Told(d, c, w, t) /\ Has(d, c, k),
            Cursor("sub", c.at + k, c.end, 0))
  \cup When(here /\ t = 32 /\ Has(d, c, 7 * w + 11),
            Cursor("constants", c.at + 7 * w + 11, c.end,
                   B2(d, c.at + 7 * w + 9)))

AfterEntry(d, c) ==
  LET w == Width(d)
      h == IF c.what = "constants" THEN 2 ELSE w
      k == h + 1 + SizeOf(w, B1(d, c.at + h)) IN
  When(/\ c.what \in {"constants", "statics"} /\ c.n > 0
       /\ Has(d, c, h + 1) /\ B1(d, c.at + h) \in Basic /\ Has(d, c, k),
       Cursor(c.what, c.at + k, c.end, c.n - 1))

AfterTable(d, c) ==
  LET k == 2 + B2(d, c.at) * (Width(d) + 1)
      here == c.n = 0 /\ Has(d, c, 2) IN
  When(here /\ c.what = "constants",
       Cursor("statics", c.at + 2, c.end, B2(d, c.at)))
  \cup When(here /\ c.what = "statics" /\ Has(d, c, k),
            Cursor("sub", c.at + k, c.end, 0))

After(d, c) ==
  AfterRecord(d, c) \cup AfterSub(d, c) \cup AfterEntry(d, c) \cup AfterTable(d, c)
Leads(d, c, x) == x \in After(d, c)

-----------------------------------------------------------------------------

\* The places from c on, and those of a dump: from its first record on, if
\* there is one.
PlacesFrom(d) ==
  LET f[c \in Cursors] == {c} \cup UNION {f[x] : x \in After(d, c)} IN f

Places(d) == IF Opens(d) THEN PlacesFrom(d)[RecordAt(13)] ELSE {}

\* A dump is made of whole records, all of which can be read.
Readable(d) == RecordAt(Len(d)) \in Places(d)

\* The values of the primitive array that starts at c.
ValuesAt(d, c) ==
  LET w == Width(d)
      first == c.at + Known(w, 35) + 1 IN
  IF c.what = "sub" /\ Has(d, c, 1) /\ B1(d, c.at) = 35 /\ Told(d, c, w, 35)
  THEN first..(first + Body(d, c.at, w, 35) - 1)
  ELSE {}

Values(d) == UNION {ValuesAt(d, c) : c \in Places(d)}
=============================================================================
