------------------------- MODULE RedactWriterProofs -------------------------
(***************************************************************************)
(* Theorems about RedactWriter, for every text, however it is cut into     *)
(* chunks.                                                                 *)
(***************************************************************************)
EXTENDS RedactWriter, FiniteSetTheorems, TLAPS

\* The lines of what has arrived.
Lines == Stretches(Newlines, read)

\* The lines that have been emitted.
Past == {s \in Lines : s[2] < start}

\* start follows a newline, until Flush takes the rest.
Frontier == start = 1 \/ start - 1 \in Newlines \/ (start = read + 1 /\ copier = "ended")

Quiet == outcome # "cut" /\ ~broken

\* What has been shown and counted is exactly what the lines emitted call for.
Exact ==
  Quiet => IF redact THEN /\ Frontier
                          /\ shown = (1..start - 1) \ HiddenIn(Past)
                          /\ N = Cardinality({s \in Past : Secret(s[1], s[2])})
                     ELSE shown = 1..start - 1

\* Which states of captureOn, the exec and the copier go together.
Phases ==
  /\ main = "exec" <=> outcome = "none"
  /\ outcome \notin {"none", "cut"} => copier = "ended"
  /\ main = "exec" /\ copier = "ended" => broken
  /\ main = "flush" => redact

\* What is left in buf, once the copier is not at work and after Flush.
Rest ==
  Quiet =>
    /\ outcome \in {"zero", "nonzero"} => read = Len(text)
    /\ copier # "loop" => IF redact THEN Newlines \cap (start..read) = {}
                                    ELSE start = read + 1
    /\ main \in {"report", "ok"} => start = read + 1

Inv == TypeOK /\ Phases /\ Rest /\ Exact

-----------------------------------------------------------------------------
\* The lines emitted, when the text has been taken up to the position before a.

LEMMA NewlinesAreNumbers == ASSUME TypeOK PROVE Newlines \subseteq Nat \ {0}
BY DEF TypeOK, Newlines

LEMMA LinesFinite == ASSUME TypeOK PROVE IsFiniteSet(Lines)
<1>1. IsFiniteSet((1..read) \X (1..read))
  <2>1. read \in Nat
    BY DEF TypeOK
  <2>2. IsFiniteSet(1..read)
    BY <2>1, FS_Interval
  <2> QED BY <2>2, FS_Product
<1> QED BY <1>1, FS_Subset DEF Lines, Stretches

\* A line that starts before the frontier ends before it.
LEMMA BeforeFrontier ==
  ASSUME TypeOK, Frontier, NEW s \in Lines, s[1] < start PROVE s \in Past
<1>1. /\ s[1] \in 1..read /\ s[2] \in 1..read
      /\ \A p \in s[1]..s[2] : p \notin Newlines
  BY DEF Lines, Stretches
<1>2. CASE s[2] < start
  BY <1>2 DEF Past
<1>3. CASE s[2] >= start
  <2>1. start - 1 \in s[1]..s[2] /\ start # 1 /\ start # read + 1
    BY <1>1, <1>3 DEF TypeOK
  <2> QED BY <1>1, <2>1 DEF Frontier
<1>4. s[2] \in Nat /\ start \in Nat
  BY <1>1 DEF TypeOK
<1> QED BY <1>2, <1>3, <1>4

\* What is shown of a line, and is to be masked, was shown by Flush when the
\* stream had ended inside the line and before what makes it a secret.
LEMMA ExactMeansMasked ==
  ASSUME Inv, redact, Quiet, NEW s \in AllLines, NEW q \in s[1]..s[2],
         q \in shown, q \notin Visible(s[1], s[2])
  PROVE  Torn(s)
<1>1. TypeOK /\ Phases /\ Rest /\ Frontier /\ shown = (1..start - 1) \ HiddenIn(Past)
  BY DEF Inv, Exact
<1>2. /\ s[1] \in Nat \ {0} /\ s[2] \in Nat /\ s = <<s[1], s[2]>>
      /\ \A p \in s[1]..s[2] : p \notin Newlines
      /\ s[1] = 1 \/ s[1] - 1 \in Newlines
      /\ s[2] = Len(text) \/ s[2] + 1 \in Newlines
      /\ s[2] <= Len(text)
  BY <1>1 DEF AllLines, Stretches, TypeOK
<1>3. /\ read \in Nat /\ Len(text) \in Nat /\ read <= Len(text)
      /\ start \in Nat \ {0} /\ start <= read + 1
  BY <1>1 DEF TypeOK
<1>4. q \in Nat /\ s[1] <= q /\ q <= s[2] /\ q < start /\ q <= read
  BY <1>1, <1>2, <1>3
<1>5. \A t \in Past : q \in t[1]..t[2] => q \in Visible(t[1], t[2])
  BY <1>1 DEF HiddenIn
<1>6. CASE s[2] <= read
  <2>1. s[1] \in 1..read /\ s[2] \in 1..read /\ s[1] <= s[2]
    BY <1>2, <1>3, <1>4, <1>6
  <2>2. s[2] = read \/ s[2] + 1 \in Newlines
    BY <1>2, <1>3, <1>6
  <2>3. s \in Lines
    BY <1>2, <2>1, <2>2 DEF Lines, Stretches
  <2>4. s[1] < start
    BY <1>2, <1>3, <1>4
  <2>5. s \in Past
    BY <1>1, <2>3, <2>4, BeforeFrontier
  <2> QED BY <1>5, <2>5
<1>7. CASE read < s[2]
  <2> DEFINE t == <<s[1], read>>
  <2>1. s[1] \in 1..read /\ read \in 1..read /\ s[1] <= read /\ s[1] < start
    BY <1>2, <1>3, <1>4
  <2>2. \A p \in s[1]..read : p \notin Newlines
    BY <1>2, <1>3, <1>7
  <2>3. t \in Lines /\ t[1] = s[1] /\ t[2] = read
    BY <1>2, <2>1, <2>2 DEF Lines, Stretches
  <2>4. t \in Past
    BY <1>1, <2>1, <2>3, BeforeFrontier
  <2>5. start = read + 1
    BY <1>3, <2>3, <2>4 DEF Past
  <2>6. start # 1 /\ start - 1 \notin Newlines
    BY <1>3, <2>1, <2>2, <2>5
  <2>7. copier = "ended"
    BY <1>1, <2>6 DEF Frontier
  <2>8. outcome \in {"lost", "closed"}
    BY <1>1, <1>2, <1>3, <1>7, <2>7 DEF Phases, Rest, Quiet, TypeOK
  <2>9. ~Secret(s[1], read)
    <3> SUFFICES ASSUME Secret(s[1], read) PROVE FALSE
      OBVIOUS
    <3>1. q \in Visible(s[1], read)
      BY <1>2, <1>3, <1>4, <1>5, <2>3, <2>4
    <3>2. PICK e \in Cuts(s[1], read) : q <= e
      BY <3>1 DEF Visible
    <3>3. e \in Cuts(s[1], s[2])
      BY <1>2, <1>3, <1>7 DEF Cuts
    <3> QED BY <3>2, <3>3 DEF Visible
  <2> QED BY <1>7, <2>1, <2>8, <2>9 DEF Torn
<1> QED BY <1>2, <1>3, <1>6, <1>7

-----------------------------------------------------------------------------
\* How the set of lines emitted changes.

\* The line from start to b is emitted, and what ends it.
LEMMA PastGrows ==
  ASSUME TypeOK, Frontier, UNCHANGED <<text, read>>,
         NEW b \in Nat, start <= b + 1, b <= read,
         \A q \in start..b : q \notin Newlines,
         \/ start' = b + 2 /\ b + 1 \in Newlines
         \/ start' = b + 1 /\ b = read
  PROVE  Past' = Past \cup (IF start <= b THEN {<<start, b>>} ELSE {})
<1>1. Lines' = Lines /\ Newlines' = Newlines
  BY DEF Lines, Stretches, Newlines
<1>2. start \in Nat \ {0} /\ read \in Nat /\ start <= read + 1
  BY DEF TypeOK
<1>3. start <= b => <<start, b>> \in Lines
  <2> SUFFICES ASSUME start <= b PROVE <<start, b>> \in Lines
    OBVIOUS
  <2>1. start \in 1..read /\ b \in 1..read
    BY <1>2
  <2>2. start = 1 \/ start - 1 \in Newlines
    BY <1>2 DEF Frontier
  <2>3. b = read \/ b + 1 \in Newlines
    OBVIOUS
  <2> QED BY <2>1, <2>2, <2>3 DEF Lines, Stretches
<1>4. ASSUME NEW s \in Lines, s[2] < start', s[2] >= start PROVE s = <<start, b>> /\ start <= b
  <2>1. /\ s \in (1..read) \X (1..read) /\ s[1] <= s[2]
        /\ \A p \in s[1]..s[2] : p \notin Newlines
        /\ s[1] = 1 \/ s[1] - 1 \in Newlines
        /\ s[2] = read \/ s[2] + 1 \in Newlines
    BY DEF Lines, Stretches
  <2>2. s[1] \in Nat /\ s[2] \in Nat /\ s = <<s[1], s[2]>>
    BY <2>1
  <2>3. s[2] <= b
    BY <1>2, <1>4, <2>1, <2>2
  <2>4. s[2] = b
    <3>1. s[2] + 1 \in start..b => s[2] + 1 \notin Newlines
      OBVIOUS
    <3> QED BY <1>2, <1>4, <2>1, <2>2, <2>3, <3>1
  <2>5. s[1] >= start
    <3>1. s[1] < start => s \in Past
      BY BeforeFrontier
    <3> QED BY <1>2, <1>4, <2>2, <3>1 DEF Past
  <2>6. s[1] = start
    <3>1. s[1] - 1 \in start..b => s[1] - 1 \notin Newlines
      OBVIOUS
    <3> QED BY <1>2, <2>1, <2>2, <2>3, <2>5, <3>1
  <2> QED BY <2>2, <2>3, <2>4, <2>6, <1>4
<1>5. \A s \in Lines : s[2] \in Nat
  BY <1>2 DEF Lines, Stretches
<1>6. start' \in Nat /\ start' > b /\ start' >= start
  BY <1>2
<1>7. \A s \in Past : s \in Lines /\ s[2] < start'
  BY <1>2, <1>5, <1>6 DEF Past
<1>8. Past' = {s \in Lines : s[2] < start'}
  BY <1>1 DEF Past
<1>9. \A s \in Lines : s[2] < start' => s \in Past \/ (s = <<start, b>> /\ start <= b)
  BY <1>2, <1>4, <1>5 DEF Past
<1>10. start <= b => <<start, b>>[2] < start'
  BY <1>6
<1> QED BY <1>3, <1>7, <1>8, <1>9, <1>10

\* More of the text arrives while the lines are still being taken.
LEMMA PastStays ==
  ASSUME TypeOK, Frontier, copier # "ended", UNCHANGED <<text, start>>,
         read' \in Nat, read < read'
  PROVE  Past' = Past
<1>1. start \in Nat \ {0} /\ read \in Nat /\ start <= read + 1
  BY DEF TypeOK
<1>2. Newlines' = Newlines /\ (start = 1 \/ start - 1 \in Newlines)
  BY DEF Newlines, Frontier
<1>3. Past \subseteq Past'
  <2> SUFFICES ASSUME NEW s \in Past PROVE s \in Past'
    OBVIOUS
  <2>1. /\ s \in (1..read) \X (1..read) /\ s[1] <= s[2]
        /\ \A p \in s[1]..s[2] : p \notin Newlines
        /\ s[1] = 1 \/ s[1] - 1 \in Newlines
        /\ s[2] = read \/ s[2] + 1 \in Newlines
        /\ s[2] < start
    BY DEF Past, Lines, Stretches
  <2>2. s \in (1..read') \X (1..read')
    BY <1>1, <2>1
  <2>3. s[2] + 1 \in Newlines
    <3>1. s[2] \in s[1]..s[2]
      BY <1>1, <2>1
    <3> QED BY <1>1, <1>2, <2>1, <3>1
  <2> QED BY <1>2, <2>1, <2>2, <2>3 DEF Past, Lines, Stretches
<1>4. Past' \subseteq Past
  <2> SUFFICES ASSUME NEW s \in Past' PROVE s \in Past
    OBVIOUS
  <2>1. /\ s \in (1..read') \X (1..read') /\ s[1] <= s[2]
        /\ \A p \in s[1]..s[2] : p \notin Newlines
        /\ s[1] = 1 \/ s[1] - 1 \in Newlines
        /\ s[2] = read' \/ s[2] + 1 \in Newlines
        /\ s[2] < start
    BY <1>2 DEF Past, Lines, Stretches
  <2>2. s \in (1..read) \X (1..read)
    BY <1>1, <2>1
  <2>3. s[2] = read \/ s[2] + 1 \in Newlines
    BY <1>1, <2>1
  <2> QED BY <2>1, <2>2, <2>3 DEF Past, Lines, Stretches
<1> QED BY <1>3, <1>4

-----------------------------------------------------------------------------
\* What emitting one line adds to what is shown and counted.

LEMMA VisibleWithin == ASSUME NEW a, NEW b PROVE Visible(a, b) \subseteq a..b
BY DEF Visible

LEMMA EmitKeepsExact ==
  ASSUME TypeOK, redact, Frontier, UNCHANGED <<text, read, redact>>,
         NEW b \in Nat, start <= b + 1, b <= read,
         \A q \in start..b : q \notin Newlines,
         NEW ending,
         \/ start' = b + 2 /\ b + 1 \in Newlines /\ ending = {b + 1}
         \/ start' = b + 1 /\ b = read /\ ending = {},
         shown = (1..start - 1) \ HiddenIn(Past),
         N = Cardinality({s \in Past : Secret(s[1], s[2])}),
         Show(start, b, ending, TRUE)
  PROVE  /\ shown' = (1..start' - 1) \ HiddenIn(Past')
         /\ N' = Cardinality({s \in Past' : Secret(s[1], s[2])'})
<1> DEFINE new == IF start <= b THEN {<<start, b>>} ELSE {}
<1>1. Past' = Past \cup new
  BY PastGrows
<1>2. start \in Nat \ {0} /\ read \in Nat /\ start <= read + 1
  BY DEF TypeOK
<1>3. \A x, y : Visible(x, y)' = Visible(x, y) /\ Secret(x, y)' = Secret(x, y)
  BY DEF Visible, Secret, Cuts
<1>4. \A s \in Past : s[1] \in Nat \ {0} /\ s[2] \in Nat /\ s[2] < start
  BY <1>2 DEF Past, Lines, Stretches
<1>5. HiddenIn(Past)  = UNION {(s[1]..s[2]) \ Visible(s[1], s[2]) : s \in Past}
  BY DEF HiddenIn
<1>6. HiddenIn(Past') = UNION {(s[1]..s[2]) \ Visible(s[1], s[2]) : s \in Past'}
  BY DEF HiddenIn
<1>7. shown' = shown \cup Visible(start, b) \cup ending
  BY DEF Show, Emit
<1>8. Visible(start, b) \subseteq start..b
  BY VisibleWithin
<1>9. HiddenIn(Past') = HiddenIn(Past) \cup ((start..b) \ Visible(start, b))
  <2>1. CASE start <= b
    <3>1. Past' = Past \cup {<<start, b>>}
      BY <1>1, <2>1
    <3>2. \A q : q \in HiddenIn(Past) <=> \E s \in Past : q \in (s[1]..s[2]) \ Visible(s[1], s[2])
      BY <1>5
    <3>3. \A q : q \in HiddenIn(Past') <=> \E s \in Past' : q \in (s[1]..s[2]) \ Visible(s[1], s[2])
      BY <1>6
    <3>4. <<start, b>>[1] = start /\ <<start, b>>[2] = b
      OBVIOUS
    <3>5. \A q : q \in HiddenIn(Past') <=>
                   q \in HiddenIn(Past) \/ q \in (start..b) \ Visible(start, b)
      BY <3>1, <3>2, <3>3, <3>4
    <3> QED BY <3>5
  <2>2. CASE ~(start <= b)
    <3>1. start..b = {}
      BY <1>2, <2>2
    <3> QED BY <1>1, <1>5, <1>6, <2>2, <3>1
  <2> QED BY <2>1, <2>2
<1>10. HiddenIn(Past) \subseteq 1..start - 1
  BY <1>2, <1>4, <1>5
<1>11. 1..start' - 1 = (1..start - 1) \cup (start..b) \cup ending
  BY <1>2
<1>12. ending \cap (start..b) = {} /\ ending \cap (1..start - 1) = {}
  BY <1>2
<1>13. (1..start - 1) \cap (start..b) = {}
  BY <1>2
<1>14. shown' = (1..start' - 1) \ HiddenIn(Past')
  BY <1>7, <1>8, <1>9, <1>10, <1>11, <1>12, <1>13
<1> DEFINE Masks(P) == {s \in P : Secret(s[1], s[2])}
<1>15. IsFiniteSet(Masks(Past)) /\ <<start, b>> \notin Past
  <2>1. IsFiniteSet(Past)
    BY LinesFinite, FS_Subset DEF Past
  <2>2. <<start, b>> \in Past => start <= b /\ b < start
    BY <1>2 DEF Past, Lines, Stretches
  <2> QED BY <1>2, <2>1, <2>2, FS_Subset
<1>16. N' = Cardinality(Masks(Past'))
  <2>1. CASE Secret(start, b)
    <3>1. start <= b
      BY <1>2, <2>1 DEF Secret, Cuts
    <3>2. Masks(Past') = Masks(Past) \cup {<<start, b>>}
      BY <1>1, <2>1, <3>1
    <3>3. <<start, b>> \notin Masks(Past)
      BY <1>15
    <3> HIDE DEF Masks
    <3>4. Cardinality(Masks(Past')) = Cardinality(Masks(Past)) + 1
      BY <1>15, <3>2, <3>3, FS_AddElement
    <3>5. N = Cardinality(Masks(Past))
      BY DEF Masks
    <3>6. N' = N + 1
      BY <2>1 DEF Show
    <3> QED BY <3>4, <3>5, <3>6
  <2>2. CASE ~Secret(start, b)
    <3>1. Masks(Past') = Masks(Past)
      BY <1>1, <2>2
    <3>2. N' = N
      BY <2>2 DEF Show
    <3> QED BY <3>1, <3>2
  <2> QED BY <2>1, <2>2
<1>17. Masks(Past') = {s \in Past' : Secret(s[1], s[2])'}
  BY <1>3
<1> QED BY <1>14, <1>16, <1>17

-----------------------------------------------------------------------------
\* The invariant holds at first and after every step.

LEMMA Initially == Init => Inv
<1> SUFFICES ASSUME Init PROVE Inv
  OBVIOUS
<1>1. text \in Seq(Chars) /\ {redact, fault, cancel, broken} \subseteq BOOLEAN
  BY TextsAssumption, FlagsAssumption DEF Init
<1>2. read = 0 /\ start = 1 /\ shown = {} /\ N = 0 /\ Len(text) \in Nat
  BY <1>1 DEF Init
<1>3. TypeOK
  BY <1>1, <1>2 DEF Init, TypeOK
<1>4. Phases /\ Rest
  BY <1>2 DEF Init, Phases, Rest
<1>5. Past = {}
  BY <1>2 DEF Past, Lines, Stretches
<1>6. Exact
  <2>1. {s \in Past : Secret(s[1], s[2])} = {} /\ HiddenIn(Past) = {}
    BY <1>5 DEF HiddenIn
  <2>2. 1..start - 1 = {}
    BY <1>2
  <2> QED BY <1>2, <2>1, <2>2, FS_EmptySet DEF Exact, Frontier
<1> QED BY <1>3, <1>4, <1>6 DEF Inv

\* What is emitted stays within what has arrived.
LEMMA EmitTyped ==
  ASSUME TypeOK, NEW visible, visible \subseteq 1..read, NEW ok \in BOOLEAN, Emit(visible, ok)
  PROVE  shown' \subseteq 1..read /\ broken' \in BOOLEAN
BY DEF TypeOK, Emit

LEMMA ShowTyped ==
  ASSUME TypeOK, NEW b \in Nat, start <= b + 1, b <= read, NEW ending, ending \subseteq 1..read,
         NEW ok \in BOOLEAN, Show(start, b, ending, ok)
  PROVE  shown' \subseteq 1..read /\ broken' \in BOOLEAN /\ N' \in Nat
<1>1. Visible(start, b) \subseteq start..b
  BY VisibleWithin
<1>2. start..b \subseteq 1..read
  BY DEF TypeOK
<1>3. Visible(start, b) \cup ending \subseteq 1..read
  BY <1>1, <1>2
<1>4. shown' \subseteq 1..read /\ broken' \in BOOLEAN
  BY <1>3, EmitTyped DEF Show
<1>5. N' \in Nat
  BY DEF TypeOK, Show
<1> QED BY <1>4, <1>5

Typed ==
  /\ read \in 0..Len(text) /\ start \in 1..read + 1 /\ shown \subseteq 1..read
  /\ N \in Nat /\ broken \in BOOLEAN
  /\ copier \in {"idle", "loop", "ended"}
  /\ outcome \in {"none", "zero", "nonzero", "lost", "closed", "cut"}
  /\ main \in {"exec", "flush", "report"} \cup Final

LEMMA TypesKept == ASSUME TypeOK, UNCHANGED Config, Typed' PROVE TypeOK'
<1>1. UNCHANGED <<text, redact, fault, cancel>>
  BY DEF Config
<1>2. {redact, fault, cancel} \subseteq BOOLEAN /\ text \in Seq(Chars)
  BY DEF TypeOK
<1>3. {redact, fault, cancel, broken}' \subseteq BOOLEAN
  BY <1>1, <1>2 DEF Typed
<1> QED BY <1>1, <1>2, <1>3 DEF Typed, TypeOK

LEMMA ArriveKeeps == ASSUME Inv, Arrive PROVE Inv'
<1>1. TypeOK /\ Phases /\ Rest /\ Exact
  BY DEF Inv
<1>2. PICK to \in read + 1..Len(text) : read' = to
  BY DEF Arrive
<1>3. /\ read \in Nat /\ Len(text) \in Nat
      /\ read' \in Nat /\ read < read' /\ read' \in 0..Len(text)
  BY <1>1, <1>2 DEF TypeOK
<1>4. /\ copier = "idle" /\ copier' = "loop"
      /\ UNCHANGED <<text, redact, fault, cancel, start, shown, N, broken, outcome, main>>
  BY DEF Arrive, Config
<1>5. TypeOK'
  <2>1. shown \subseteq 1..read'
    BY <1>1, <1>3 DEF TypeOK
  <2>2. start \in 1..read' + 1
    <3>1. start \in 1..read + 1
      BY <1>1 DEF TypeOK
    <3>2. \A x, y \in Nat : x < y => 1..x + 1 \subseteq 1..y + 1
      OBVIOUS
    <3>3. 1..read + 1 \subseteq 1..read' + 1
      BY <1>3, <3>2
    <3> QED BY <3>1, <3>3
  <2>3. broken \in BOOLEAN
    BY <1>1 DEF TypeOK
  <2>4. Typed'
    BY <1>1, <1>3, <1>4, <2>1, <2>2, <2>3 DEF Typed, TypeOK
  <2> QED BY <1>1, <1>4, <2>4, TypesKept DEF Config
<1>6. Phases' /\ Rest'
  <2>1. outcome \in {"none", "cut"} /\ (Quiet => main = "exec")
    BY <1>1, <1>4 DEF Phases, Quiet
  <2>2. Phases'
    BY <1>1, <1>4, <2>1 DEF Phases
  <2>3. Quiet' => outcome = "none" /\ main = "exec"
    BY <1>4, <2>1 DEF Quiet
  <2> QED BY <1>4, <2>2, <2>3 DEF Rest
<1>7. Exact'
  <2>1. CASE redact /\ Quiet
    <3>1. Frontier /\ Frontier'
      BY <1>1, <1>4, <2>1 DEF Exact, Frontier, Newlines
    <3>2. Past' = Past
      BY <1>1, <1>3, <1>4, <3>1, PastStays
    <3>3. \A x, y : Visible(x, y)' = Visible(x, y) /\ Secret(x, y)' = Secret(x, y)
      BY <1>4 DEF Visible, Secret, Cuts
    <3>4. HiddenIn(Past)' = HiddenIn(Past)
      BY <3>2, <3>3 DEF HiddenIn
    <3> QED BY <1>1, <1>4, <2>1, <3>1, <3>2, <3>3, <3>4 DEF Exact, Quiet
  <2>2. CASE ~redact \/ ~Quiet
    BY <1>1, <1>4, <2>2 DEF Exact, Quiet
  <2> QED BY <2>1, <2>2
<1> QED BY <1>5, <1>6, <1>7 DEF Inv

\* Steps after which no line has been taken that was not before.
LEMMA SameLines ==
  ASSUME TypeOK, UNCHANGED <<text, redact, read, start, shown, N>>, Exact, Frontier => Frontier',
         Quiet' => Quiet
  PROVE  Exact'
<1>1. Past' = Past
  BY DEF Past, Lines, Stretches, Newlines
<1>2. \A x, y : Visible(x, y)' = Visible(x, y) /\ Secret(x, y)' = Secret(x, y)
  BY DEF Visible, Secret, Cuts
<1>3. HiddenIn(Past)' = HiddenIn(Past)
  BY <1>1, <1>2 DEF HiddenIn
<1> QED BY <1>1, <1>2, <1>3 DEF Exact

LEMMA LineKeeps == ASSUME Inv, Line PROVE Inv'
<1>1. TypeOK /\ Phases /\ Rest /\ Exact
  BY DEF Inv
<1>2. PICK p \in Newlines \cap (start..read), ok \in BOOLEAN :
        /\ \A q \in start..p - 1 : q \notin Newlines
        /\ start' = p + 1
        /\ Show(start, p - 1, {p}, ok)
        /\ copier' = IF ok THEN "loop" ELSE "ended"
  BY DEF Line
<1>3. /\ copier = "loop" /\ redact /\ main \notin Final
      /\ UNCHANGED <<text, redact, fault, cancel, read, outcome, main>>
  BY DEF Line, Config
<1>4. /\ start \in Nat \ {0} /\ read \in Nat /\ p \in Nat \ {0} /\ p - 1 \in Nat
      /\ start <= (p - 1) + 1 /\ p - 1 <= read /\ p <= read
  BY <1>1, <1>2 DEF TypeOK
<1>5. shown' \subseteq 1..read /\ broken' \in BOOLEAN /\ N' \in Nat
  BY <1>1, <1>2, <1>4, ShowTyped
<1>6. TypeOK'
  <2>1. start' \in 1..read + 1 /\ copier' \in {"idle", "loop", "ended"}
    BY <1>2, <1>4
  <2>2. Typed'
    BY <1>1, <1>3, <1>5, <2>1 DEF Typed, TypeOK
  <2> QED BY <1>1, <1>3, <2>2, TypesKept DEF Config
<1>7. outcome \in {"none", "cut"} /\ (Quiet => outcome = "none" /\ main = "exec")
  BY <1>1, <1>3 DEF Phases, Quiet
<1>8. broken' = (broken \/ ~ok)
  BY <1>2 DEF Show, Emit
<1>9. Phases'
  BY <1>1, <1>2, <1>3, <1>7, <1>8 DEF Phases
<1>10. Quiet' => ok = TRUE /\ Quiet /\ outcome = "none" /\ main = "exec" /\ copier' = "loop"
  BY <1>2, <1>3, <1>7, <1>8 DEF Quiet
<1>11. Rest'
  BY <1>3, <1>10 DEF Rest
<1>12. Exact'
  <2> SUFFICES ASSUME Quiet' PROVE Exact'
    BY DEF Exact
  <2>1. ok = TRUE /\ Quiet
    BY <1>10
  <2>2. /\ Frontier /\ shown = (1..start - 1) \ HiddenIn(Past)
        /\ N = Cardinality({s \in Past : Secret(s[1], s[2])})
    BY <1>1, <1>3, <2>1 DEF Exact
  <2>3. start' = (p - 1) + 2 /\ (p - 1) + 1 \in Newlines /\ {p} = {(p - 1) + 1}
    BY <1>2, <1>4
  <2>4. /\ shown' = (1..start' - 1) \ HiddenIn(Past')
        /\ N' = Cardinality({s \in Past' : Secret(s[1], s[2])'})
    BY <1>1, <1>2, <1>3, <1>4, <2>1, <2>2, <2>3, EmitKeepsExact
  <2>5. Frontier'
    BY <1>2, <1>3, <1>4 DEF Frontier, Newlines
  <2>6. \A x, y : Visible(x, y)' = Visible(x, y)
    BY <1>3 DEF Visible, Secret, Cuts
  <2>7. HiddenIn(Past)' = HiddenIn(Past')
    BY <2>6 DEF HiddenIn
  <2> QED BY <1>3, <2>4, <2>5, <2>7 DEF Exact
<1> QED BY <1>6, <1>9, <1>11, <1>12 DEF Inv

LEMMA PartialKeeps == ASSUME Inv, Partial PROVE Inv'
<1>1. TypeOK /\ Phases /\ Rest /\ Exact
  BY DEF Inv
<1>2. /\ copier = "loop" /\ redact /\ Newlines \cap (start..read) = {} /\ copier' = "idle"
      /\ UNCHANGED <<text, redact, fault, cancel, read, start, shown, N, broken, outcome, main>>
  BY DEF Partial, Config
<1>3. TypeOK'
  <2>1. broken \in BOOLEAN
    BY <1>1 DEF TypeOK
  <2>2. Typed'
    BY <1>1, <1>2, <2>1 DEF Typed, TypeOK
  <2> QED BY <1>1, <1>2, <2>2, TypesKept DEF Config
<1>4. outcome \in {"none", "cut"} /\ (Quiet => outcome = "none" /\ main = "exec")
  BY <1>1, <1>2 DEF Phases, Quiet
<1>5. Phases'
  BY <1>1, <1>2, <1>4 DEF Phases
<1>6. Rest'
  BY <1>2, <1>4 DEF Rest, Quiet, Newlines
<1>7. Exact'
  BY <1>1, <1>2, SameLines DEF Frontier, Newlines, Quiet
<1> QED BY <1>3, <1>5, <1>6, <1>7 DEF Inv

LEMMA RawKeeps == ASSUME Inv, Raw PROVE Inv'
<1>1. TypeOK /\ Phases /\ Rest /\ Exact
  BY DEF Inv
<1>2. PICK ok \in BOOLEAN : /\ Emit(start..read, ok)
                            /\ copier' = IF ok THEN "idle" ELSE "ended"
  BY DEF Raw
<1>3. /\ copier = "loop" /\ ~redact /\ start' = read + 1
      /\ UNCHANGED <<text, redact, fault, cancel, read, N, outcome, main>>
  BY DEF Raw, Config
<1>4. start \in Nat \ {0} /\ read \in Nat /\ start <= read + 1
  BY <1>1 DEF TypeOK
<1>5. shown' \subseteq 1..read /\ broken' \in BOOLEAN
  BY <1>1, <1>2, <1>4, EmitTyped
<1>6. TypeOK'
  <2>1. start' \in 1..read + 1 /\ copier' \in {"idle", "loop", "ended"}
    BY <1>2, <1>3, <1>4
  <2>2. Typed'
    BY <1>1, <1>3, <1>5, <2>1 DEF Typed, TypeOK
  <2> QED BY <1>1, <1>3, <2>2, TypesKept DEF Config
<1>7. outcome \in {"none", "cut"} /\ (Quiet => outcome = "none" /\ main = "exec")
  BY <1>1, <1>3 DEF Phases, Quiet
<1>8. broken' = (broken \/ ~ok)
  BY <1>2 DEF Emit
<1>9. Phases'
  BY <1>1, <1>2, <1>3, <1>7, <1>8 DEF Phases
<1>10. Quiet' => ok = TRUE /\ Quiet /\ outcome = "none" /\ main = "exec"
  BY <1>2, <1>3, <1>7, <1>8 DEF Quiet
<1>11. Rest'
  BY <1>3, <1>10 DEF Rest
<1>12. Exact'
  <2>1. Quiet' => shown = 1..start - 1 /\ shown' = shown \cup (start..read)
    BY <1>1, <1>2, <1>3, <1>10 DEF Exact, Emit
  <2>2. (1..start - 1) \cup (start..read) = 1..start' - 1
    BY <1>3, <1>4
  <2> QED BY <1>3, <2>1, <2>2 DEF Exact
<1> QED BY <1>6, <1>9, <1>11, <1>12 DEF Inv

LEMMA ExecReturnsKeeps == ASSUME Inv, ExecReturns PROVE Inv'
<1>1. TypeOK /\ Phases /\ Rest /\ Exact
  BY DEF Inv
<1>2. /\ main = "exec" /\ main' = IF redact THEN "flush" ELSE "report"
      /\ \/ /\ copier # "loop" /\ copier' = "ended" /\ outcome' \in {"zero", "nonzero", "lost", "closed"}
            /\ outcome' \in {"zero", "nonzero"} => (copier = "idle" => read = Len(text))
         \/ outcome' = "cut" /\ copier' = copier
      /\ UNCHANGED <<text, redact, fault, cancel, read, start, shown, N, broken>>
  BY DEF ExecReturns, Config
<1>3. TypeOK'
  <2>1. broken \in BOOLEAN
    BY <1>1 DEF TypeOK
  <2>2. Typed'
    BY <1>1, <1>2, <2>1 DEF Typed, TypeOK
  <2> QED BY <1>1, <1>2, <2>2, TypesKept DEF Config
<1>4. outcome = "none" /\ copier \in {"idle", "loop", "ended"}
  BY <1>1, <1>2 DEF Phases, TypeOK
<1>5. Phases'
  BY <1>1, <1>2, <1>4 DEF Phases
<1>6. Quiet' => /\ Quiet /\ copier = "idle" /\ copier' = "ended"
                /\ outcome' \in {"zero", "nonzero"} => read = Len(text)
  BY <1>1, <1>2, <1>4 DEF Quiet, Phases
<1>7. Quiet' => IF redact THEN Newlines \cap (start..read) = {} ELSE start = read + 1
  BY <1>1, <1>6 DEF Rest
<1>8. Newlines' = Newlines
  BY <1>2 DEF Newlines
<1>9. Rest'
  BY <1>2, <1>6, <1>7, <1>8 DEF Rest
<1>10. Quiet' /\ Frontier => Frontier'
  BY <1>2, <1>6, <1>8 DEF Frontier
<1>11. Exact'
  <2> SUFFICES ASSUME Quiet' PROVE Exact'
    BY DEF Exact
  <2> QED BY <1>1, <1>2, <1>6, <1>10, SameLines
<1> QED BY <1>3, <1>5, <1>9, <1>11 DEF Inv

LEMMA FlushKeeps == ASSUME Inv, Flush PROVE Inv'
<1>1. TypeOK /\ Phases /\ Rest /\ Exact
  BY DEF Inv
<1>2. /\ main = "flush" /\ redact /\ outcome # "none"
      /\ UNCHANGED <<text, redact, fault, cancel, read, copier, outcome>>
  BY <1>1 DEF Flush, Config, Phases
<1>3. start \in Nat \ {0} /\ read \in Nat /\ start <= read + 1
  BY <1>1 DEF TypeOK
<1>4. Quiet => copier = "ended" /\ Newlines \cap (start..read) = {}
  BY <1>1, <1>2 DEF Quiet, Phases, Rest
<1>5. CASE start > read /\ main' = "report" /\ UNCHANGED <<start, shown, N, broken>>
  <2>1. TypeOK'
    <3>1. broken \in BOOLEAN
      BY <1>1 DEF TypeOK
    <3>2. Typed'
      BY <1>1, <1>2, <1>5, <3>1 DEF Typed, TypeOK
    <3> QED BY <1>1, <1>2, <3>2, TypesKept DEF Config
  <2>2. Phases'
    BY <1>1, <1>2, <1>5 DEF Phases
  <2>3. start = read + 1
    BY <1>3, <1>5
  <2>4. Rest'
    BY <1>1, <1>2, <1>5, <2>3 DEF Rest, Quiet, Newlines
  <2>5. Exact'
    BY <1>1, <1>2, <1>5, SameLines DEF Frontier, Newlines, Quiet
  <2> QED BY <2>1, <2>2, <2>4, <2>5 DEF Inv
<1>6. ASSUME start <= read, start' = read + 1, NEW ok \in BOOLEAN, Show(start, read, {}, ok),
             main' = IF ok THEN "report" ELSE "error"
      PROVE  Inv'
  <2>1. start <= read + 1 /\ read <= read
    BY <1>3
  <2>2. shown' \subseteq 1..read /\ broken' \in BOOLEAN /\ N' \in Nat
    BY <1>1, <1>3, <1>6, <2>1, ShowTyped
  <2>3. TypeOK'
    <3>1. start' \in 1..read + 1 /\ main' \in {"exec", "flush", "report"} \cup Final
      BY <1>3, <1>6 DEF Final
    <3>2. Typed'
      BY <1>1, <1>2, <2>2, <3>1 DEF Typed, TypeOK
    <3> QED BY <1>1, <1>2, <3>2, TypesKept DEF Config
  <2>4. Phases'
    BY <1>1, <1>2, <1>6 DEF Phases
  <2>5. broken' = (broken \/ ~ok)
    BY <1>6 DEF Show, Emit
  <2>6. Quiet' => Quiet /\ ok = TRUE
    BY <1>2, <1>6, <2>5 DEF Quiet
  <2>7. start' > read'
    BY <1>2, <1>3, <1>6
  <2>8. Newlines' \cap (start'..read') = {}
    <3>1. start'..read' = {}
      BY <1>2, <1>3, <1>6
    <3> QED BY <3>1
  <2>9. Rest'
    BY <1>1, <1>2, <1>6, <2>6, <2>8 DEF Rest
  <2>10. Exact'
    <3> SUFFICES ASSUME Quiet' PROVE Exact'
      BY DEF Exact
    <3>1. /\ Frontier /\ shown = (1..start - 1) \ HiddenIn(Past)
          /\ N = Cardinality({s \in Past : Secret(s[1], s[2])})
      BY <1>1, <1>2, <2>6 DEF Exact
    <3>2. \A q \in start..read : q \notin Newlines
      BY <1>4, <2>6
    <3>3. /\ shown' = (1..start' - 1) \ HiddenIn(Past')
          /\ N' = Cardinality({s \in Past' : Secret(s[1], s[2])'})
      BY <1>1, <1>2, <1>3, <1>6, <2>1, <2>6, <3>1, <3>2, EmitKeepsExact
    <3>4. Frontier'
      BY <1>2, <1>4, <1>6, <2>6 DEF Frontier
    <3>5. \A x, y : Visible(x, y)' = Visible(x, y)
      BY <1>2 DEF Visible, Secret, Cuts
    <3>6. HiddenIn(Past)' = HiddenIn(Past')
      BY <3>5 DEF HiddenIn
    <3> QED BY <1>2, <3>3, <3>4, <3>6 DEF Exact
  <2> QED BY <2>3, <2>4, <2>9, <2>10 DEF Inv
<1> QED BY <1>5, <1>6 DEF Flush

LEMMA QuietStepKeeps ==
  ASSUME Inv,
         \/ /\ main = "report" /\ main' = IF outcome \in {"zero", "closed"} THEN "ok" ELSE "error"
            /\ UNCHANGED <<Config, read, start, shown, N, broken, copier, outcome>>
         \/ UNCHANGED vars
  PROVE  Inv'
<1>1. TypeOK /\ Phases /\ Rest /\ Exact
  BY DEF Inv
<1>2. /\ main' = main \/ (main = "report" /\ main' \in Final)
      /\ UNCHANGED <<text, redact, fault, cancel, read, start, shown, N, broken, copier, outcome>>
  BY DEF Config, vars, Final
<1>3. TypeOK'
  <2>1. broken \in BOOLEAN
    BY <1>1 DEF TypeOK
  <2>2. Typed'
    BY <1>1, <1>2, <2>1 DEF Typed, TypeOK
  <2> QED BY <1>1, <1>2, <2>2, TypesKept DEF Config
<1>4. Phases'
  BY <1>1, <1>2 DEF Phases, Final
<1>5. Rest'
  BY <1>1, <1>2 DEF Rest, Quiet, Newlines, Final
<1>6. Exact'
  BY <1>1, <1>2, SameLines DEF Frontier, Newlines, Quiet
<1> QED BY <1>3, <1>4, <1>5, <1>6 DEF Inv

LEMMA Always == Spec => []Inv
<1>1. Inv /\ [Next]_vars => Inv'
  BY ArriveKeeps, LineKeeps, PartialKeeps, RawKeeps, ExecReturnsKeeps, FlushKeeps, QuietStepKeeps
     DEF Next, Exit, Over
<1> QED BY Initially, <1>1, PTL DEF Spec

-----------------------------------------------------------------------------

\* Type correctness, of which the buffered part (start) lies within what has
\* arrived, for every text.
THEOREM TypeCorrect == Spec => []TypeOK
<1>1. Inv => TypeOK
  BY DEF Inv
<1> QED BY Always, <1>1, PTL

\* Of a line that is a secret as a whole no part of the value is shown, however
\* the text is cut into chunks (redact.go:55-79).  The premises are those of
\* MaskedUnlessCut: no interrupt, no failed write, and the stream did not end
\* inside the line before what makes it a secret.
THEOREM MasksSecrets == Spec => []MaskedUnlessCut
<1>1. Inv => MaskedUnlessCut
  <2> SUFFICES ASSUME Inv, redact, Quiet, NEW s \in AllLines, ~Torn(s),
                      NEW q \in shown, q \in HiddenIn({s})
               PROVE  FALSE
    BY DEF MaskedUnlessCut, Quiet
  <2>1. q \in s[1]..s[2] /\ q \notin Visible(s[1], s[2])
    BY DEF HiddenIn
  <2> QED BY <2>1, ExactMeansMasked
<1> QED BY Always, <1>1, PTL

\* Success shows the whole output but for the masked values, and counts those
\* (redact.go:45-88, capture.go:213-232).
THEOREM ShowsTheRest == Spec => []NothingLost
<1>1. Inv => NothingLost
  <2> SUFFICES ASSUME Inv, main = "ok", outcome = "zero", ~broken
               PROVE  /\ shown = (1..Len(text)) \ IF redact THEN HiddenIn(AllLines) ELSE {}
                      /\ redact => N = Cardinality({s \in AllLines : Secret(s[1], s[2])})
    BY Zenon DEF NothingLost
  <2>1. Quiet /\ start = read + 1 /\ read = Len(text) /\ read \in Nat /\ Exact
    BY DEF Inv, Quiet, Rest, TypeOK
  <2>2. Past = AllLines
    BY <2>1 DEF Past, Lines, AllLines, Stretches
  <2>3. start - 1 = Len(text)
    BY <2>1
  <2> QED BY <2>1, <2>2, <2>3 DEF Exact
<1> QED BY Always, <1>1, PTL
=============================================================================
