---------------------------- MODULE RedactWriter ----------------------------
(***************************************************************************)
(* redact.Writer (internal/redact/redact.go) between the exec stream of    *)
(* env and info and the user's terminal, as captureOn                      *)
(* (internal/xray/capture.go) drives it: the stream's copier calls Write   *)
(* with chunks of any size, and once the exec has returned captureOn calls *)
(* Flush and chooses the error to report.  With --no-redact the chunks go  *)
(* to the terminal as they are.                                            *)
(*                                                                         *)
(* The text is a sequence of characters: "c" (of no meaning), "K" (a name  *)
(* that keyRe matches), "v" and "w" (the beginning and the end of what one *)
(* of valueRes matches, like postgres://user:pa and ss@ of a URL; neither  *)
(* matches alone), "=", "nul" (the end of a variable, which tr turns into  *)
(* a newline) and "nl" (a newline within a value).  What is buffered or    *)
(* shown are positions of the text.                                        *)
(***************************************************************************)
EXTENDS Naturals, Sequences, FiniteSets

CONSTANTS Texts,   \* what the command may print
          Redacts, \* with and without --no-redact
          Faults,  \* whether writes to the terminal may fail
          Cancels  \* whether the user may interrupt the exec

Chars == {"c", "K", "v", "w", "=", "nul", "nl"}

ASSUME TextsAssumption == Texts \subseteq Seq(Chars)
ASSUME FlagsAssumption == Redacts \cup Faults \cup Cancels \subseteq BOOLEAN

VARIABLES text, redact, fault, cancel,
          read,    \* characters that have arrived
          start,   \* the first of them that is still in buf
          shown,   \* the positions written to the terminal
          N,       \* values masked
          broken,  \* a write has failed; a later one may succeed
          copier,  \* the goroutine that calls Write
          outcome, \* how the exec ended
          main     \* captureOn

Config == <<text, redact, fault, cancel>>

vars == <<Config, read, start, shown, N, broken, copier, outcome, main>>

Final == {"ok", "error"}

Init ==
  /\ text \in Texts /\ redact \in Redacts /\ fault \in Faults /\ cancel \in Cancels
  /\ read = 0 /\ start = 1 /\ shown = {} /\ N = 0 /\ broken = FALSE
  /\ copier = "idle" /\ outcome = "none" /\ main = "exec"

-----------------------------------------------------------------------------
\* Line, of the text from a to b.

Newlines == {p \in 1..Len(text) : text[p] \in {"nul", "nl"}}

\* The first "=", where strings.Cut splits.
Cuts(a, b) ==
  {e \in a..b : text[e] = "=" /\ \A p \in a..e - 1 : text[p] # "="}

\* How much of the line may be seen: all of it, or its name.
Secret(a, b) ==
  \E e \in Cuts(a, b) :
    \/ \E p \in a..e - 1 : text[p] = "K"
    \/ \E p \in e + 1..b - 1 : text[p] = "v" /\ text[p + 1] = "w"

Visible(a, b) ==
  IF Secret(a, b) THEN {p \in a..b : \E e \in Cuts(a, b) : p <= e} ELSE a..b

-----------------------------------------------------------------------------

\* One write to the terminal; one that fails shows nothing.
Emit(visible, ok) ==
  /\ ok \/ fault
  /\ shown' = IF ok THEN shown \cup visible ELSE shown
  /\ broken' = (broken \/ ~ok)

\* emit, of the line from a to b and what ends it: counted, then written.
Show(a, b, ending, ok) ==
  /\ N' = IF Secret(a, b) THEN N + 1 ELSE N
  /\ Emit(Visible(a, b) \cup ending, ok)

\* Write's rw.buf.Write(p).
Arrive ==
  /\ copier = "idle" /\ main \notin Final
  /\ \E to \in read + 1..Len(text) : read' = to
  /\ copier' = "loop"
  /\ UNCHANGED <<Config, start, shown, N, broken, outcome, main>>

\* MUTANT: the byte after the newline is skipped as well.
LineTwice ==
  /\ copier = "loop" /\ redact /\ main \notin Final
  /\ \E p \in Newlines \cap (start..read), ok \in BOOLEAN :
       /\ \A q \in start..p - 1 : q \notin Newlines
       /\ start' = p + 2
       /\ Show(start, p - 1, {p}, ok)
       /\ copier' = IF ok THEN "loop" ELSE "ended"
  /\ UNCHANGED <<Config, read, outcome, main>>

\* Write's loop: the next whole line is taken from buf and emitted.  An error
\* ends the copier, and nobody is told of it.
Line ==
  /\ copier = "loop" /\ redact /\ main \notin Final
  /\ \E p \in Newlines \cap (start..read), ok \in BOOLEAN :
       /\ \A q \in start..p - 1 : q \notin Newlines
       /\ start' = p + 1
       /\ Show(start, p - 1, {p}, ok)
       /\ copier' = IF ok THEN "loop" ELSE "ended"
  /\ UNCHANGED <<Config, read, outcome, main>>

\* MUTANT: what is left of the chunk is emitted as it is.
PartialShown ==
  /\ copier = "loop" /\ redact /\ main \notin Final
  /\ Newlines \cap (start..read) = {}
  /\ copier' = "idle" /\ start' = read + 1 /\ Show(start, read, {}, TRUE)
  /\ UNCHANGED <<Config, read, outcome, main>>

\* No whole line is left; the rest stays in buf.
Partial ==
  /\ copier = "loop" /\ redact /\ main \notin Final
  /\ Newlines \cap (start..read) = {}
  /\ copier' = "idle"
  /\ UNCHANGED <<Config, read, start, shown, N, broken, outcome, main>>

\* --no-redact: the chunk goes to the terminal.
Raw ==
  /\ copier = "loop" /\ ~redact /\ main \notin Final
  /\ \E ok \in BOOLEAN : /\ Emit(start..read, ok)
                         /\ copier' = IF ok THEN "idle" ELSE "ended"
  /\ start' = read + 1
  /\ UNCHANGED <<Config, read, N, outcome, main>>

\* The exec is over and its copier, unless ctx was cancelled: the command ended
\* and all of its output was delivered or, the copier having ended early,
\* drained; the connection broke, or was closed in good order.
ExecReturns ==
  /\ main = "exec" /\ main' = IF redact THEN "flush" ELSE "report"
  /\ \/ /\ copier # "loop" /\ copier' = "ended"
        /\ \/ (copier = "idle" => read = Len(text)) /\ outcome' \in {"zero", "nonzero"}
           \/ outcome' \in {"lost", "closed"}
     \/ cancel /\ outcome' = "cut" /\ UNCHANGED copier
  /\ UNCHANGED <<Config, read, start, shown, N, broken>>

\* MUTANT: no Flush.
FlushNothing ==
  /\ main = "flush" /\ main' = "report"
  /\ UNCHANGED <<Config, read, start, shown, N, broken, copier, outcome>>

\* All that is buffered is emitted as one line; its error hides the exec's.
Flush ==
  /\ main = "flush"
  /\ \/ start > read /\ main' = "report" /\ UNCHANGED <<start, shown, N, broken>>
     \/ /\ start <= read /\ start' = read + 1
        /\ \E ok \in BOOLEAN : /\ Show(start, read, {}, ok)
                               /\ main' = IF ok THEN "report" ELSE "error"
  /\ UNCHANGED <<Config, read, copier, outcome>>

\* captureOn and main return, and with them the process.
Exit ==
  /\ main = "report" /\ main' = IF outcome \in {"zero", "closed"} THEN "ok" ELSE "error"
  /\ UNCHANGED <<Config, read, start, shown, N, broken, copier, outcome>>

Over == main \in Final /\ UNCHANGED vars

Next == Arrive \/ Line \/ Partial \/ Raw \/ ExecReturns \/ Flush \/ Exit \/ Over

Spec == Init /\ [][Next]_vars

-----------------------------------------------------------------------------

TypeOK ==
  /\ text \in Seq(Chars) /\ {redact, fault, cancel, broken} \subseteq BOOLEAN
  /\ read \in 0..Len(text) /\ start \in 1..read + 1
  /\ shown \subseteq 1..read /\ N \in Nat
  /\ copier \in {"idle", "loop", "ended"}
  /\ outcome \in {"none", "zero", "nonzero", "lost", "closed", "cut"}
  /\ main \in {"exec", "flush", "report"} \cup Final

\* The stretches of the text up to end between two separators.
Stretches(separators, end) ==
  {ab \in (1..end) \X (1..end) :
     /\ ab[1] <= ab[2] /\ \A p \in ab[1]..ab[2] : p \notin separators
     /\ ab[1] = 1 \/ ab[1] - 1 \in separators
     /\ ab[2] = end \/ ab[2] + 1 \in separators}

\* The lines of all that the command prints, whether it has arrived or not.
AllLines == Stretches(Newlines, Len(text))

HiddenIn(stretches) ==
  UNION {(s[1]..s[2]) \ Visible(s[1], s[2]) : s \in stretches}

\* A line of which the stream ended before anything that makes it a secret.
Torn(s) ==
  /\ outcome \in {"lost", "closed"}
  /\ s[1] <= read /\ read < s[2] /\ ~Secret(s[1], read)

\* "Writer redacts KEY=VALUE lines as they stream through to w" (redact.go:45):
\* of a line that is a secret as a whole, no part of the value is ever shown,
\* however the text is cut into chunks (redact.go:55-79, capture.go:213-222).
\* The premises are what the code does not do: when the user interrupts the
\* exec or a write fails, Flush takes the lines still in buf for one; and when
\* the connection ends inside a line, Flush judges it by what has arrived.
MaskedUnlessCut ==
  redact /\ outcome # "cut" /\ ~broken =>
    \A s \in AllLines : Torn(s) \/ shown \cap HiddenIn({s}) = {}

\* Success after a command that ended by itself means that all of its output
\* was shown but for the masked values, and those were counted
\* (redact.go:45-88, capture.go:213-232), unless a write failed: an error of
\* Write is lost in the copier.
NothingLost ==
  main = "ok" /\ outcome = "zero" /\ ~broken =>
    /\ shown = (1..Len(text)) \ IF redact THEN HiddenIn(AllLines) ELSE {}
    /\ redact => N = Cardinality({s \in AllLines : Secret(s[1], s[2])})

\* "Secret-looking env values are masked before they reach your terminal"
\* (README.md:44-46): of a whole variable, which ends with a NUL, no character
\* of a value to be masked is shown, the newlines in it aside.
VariablesMasked ==
  LET variables == Stretches({p \in Newlines : text[p] = "nul"}, Len(text)) IN
  shown \cap {p \in HiddenIn(variables) : text[p] # "nl"} = {}
=============================================================================
