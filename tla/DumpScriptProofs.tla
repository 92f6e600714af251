-------------------------- MODULE DumpScriptProofs --------------------------
(***************************************************************************)
(* What DumpScript promises of a capture that succeeds, for any number of  *)
(* captures and any command lines.                                         *)
(***************************************************************************)
EXTENDS DumpScript, SequenceTheorems, TLAPS

Ops == {"open", "write", "dump", "record", "poll", "copy", "scrub", "remove", "close"}
Command == [op : Ops, step : Steps \cup {""}]
Known == Lines \cup {NoLine}

\* The commands that put an artifact where it is to be delivered.
Delivers(l, cmd) ==
  cmd.op \in IF Streamed(l) THEN {"write", "copy", "scrub"} ELSE {"write", "dump", "record"}

\* What the command i of a script t of l says about those around it: what the
\* JVM dumps is copied and removed at once, and nothing else is.
Placed(l, T, t, i) ==
  /\ t[i].op \notin {"open", "close"} => t[i].step \in T
  /\ t[i].op = "write" => t[i].step # "jfr"
  /\ t[i].op = "record" => t[i].step = "jfr"
  /\ t[i].op = "dump" =>
       /\ t[i].step \in {"vthreads", "heap"}
       /\ Streamed(l) => /\ i + 2 <= Len(t)
                         /\ t[i + 1] = Cmd("copy", t[i].step)
                         /\ t[i + 2] = Cmd("remove", t[i].step)
  /\ t[i].op = "scrub" => Streamed(l) /\ t[i].step = "jfr"
  /\ t[i].op = "copy" =>
       /\ Streamed(l)
       /\ t[i].step # "jfr" => i > 1 /\ t[i - 1] = Cmd("dump", t[i].step)
  /\ t[i].op \in {"copy", "scrub"} =>
       i + 1 <= Len(t) /\ t[i + 1] = Cmd("remove", t[i].step)
  /\ t[i].op = "remove" =>
       /\ Streamed(l)
       /\ t[i].step # "jfr" => i > 1 /\ t[i - 1] = Cmd("copy", t[i].step)

RecordsOnce(t) ==
  \A i, j \in 1..Len(t) : t[i].op = "record" /\ t[j].op = "record" => i = j

\* A stretch of l's script that takes the steps T and delivers each.
Stretch(l, T, t) ==
  /\ t \in Seq(Command) /\ T \subseteq Steps
  /\ \A i \in 1..Len(t) : Placed(l, T, t, i)
  /\ \A s \in T : \E i \in 1..Len(t) : t[i].step = s /\ Delivers(l, t[i])
  /\ RecordsOnce(t)

\* Two stretches one after the other.
LEMMA StretchConcat ==
  ASSUME NEW l, NEW S, NEW T, NEW s, NEW t, Stretch(l, S, s), Stretch(l, T, t),
         "jfr" \notin S \cap T
  PROVE  Stretch(l, S \cup T, s \o t)
<1> DEFINE u == s \o t
<1>1. /\ u \in Seq(Command) /\ Len(u) = Len(s) + Len(t) /\ Len(s) \in Nat /\ Len(t) \in Nat
      /\ \A i \in 1..Len(s) : u[i] = s[i]
      /\ \A i \in 1..Len(t) : u[Len(s) + i] = t[i]
  BY DEF Stretch
<1> HIDE DEF u
<1>2. ASSUME NEW i \in 1..Len(s) PROVE Placed(l, S \cup T, u, i)
  <2>1. u[i] = s[i] /\ Placed(l, S, s, i)
    BY <1>1 DEF Stretch
  <2>2. /\ i + 2 <= Len(s) => u[i + 2] = s[i + 2]
        /\ i + 1 <= Len(s) => u[i + 1] = s[i + 1]
    BY <1>1
  <2>3. i > 1 => u[i - 1] = s[i - 1]
    BY <1>1
  <2> QED BY <1>1, <2>1, <2>2, <2>3 DEF Placed
<1>3. ASSUME NEW j \in 1..Len(t) PROVE Placed(l, S \cup T, u, Len(s) + j)
  <2>1. u[Len(s) + j] = t[j] /\ Placed(l, T, t, j)
    BY <1>1 DEF Stretch
  <2>2. /\ j + 2 <= Len(t) => u[Len(s) + j + 2] = t[j + 2]
        /\ j + 1 <= Len(t) => u[Len(s) + j + 1] = t[j + 1]
    BY <1>1
  <2>3. j > 1 => u[Len(s) + j - 1] = t[j - 1]
    BY <1>1, SMTT(30)
  <2> QED BY <1>1, <2>1, <2>2, <2>3 DEF Placed
<1>4. ASSUME NEW i \in 1..Len(u) PROVE Placed(l, S \cup T, u, i)
  <2>1. CASE i <= Len(s)
    <3>1. i \in 1..Len(s)
      BY <1>1, <2>1
    <3> QED BY <1>2, <3>1
  <2>2. CASE i > Len(s)
    <3>1. i - Len(s) \in 1..Len(t) /\ i = Len(s) + (i - Len(s))
      BY <1>1, <2>2
    <3> QED BY <1>3, <3>1
  <2> QED BY <1>1, <2>1, <2>2
<1>5. ASSUME NEW r \in S \cup T
      PROVE  \E i \in 1..Len(u) : u[i].step = r /\ Delivers(l, u[i])
  <2>1. CASE r \in S
    <3>1. PICK i \in 1..Len(s) : s[i].step = r /\ Delivers(l, s[i])
      BY <2>1 DEF Stretch
    <3> QED BY <1>1, <3>1
  <2>2. CASE r \in T
    <3>1. PICK i \in 1..Len(t) : t[i].step = r /\ Delivers(l, t[i])
      BY <2>2 DEF Stretch
    <3>2. Len(s) + i \in 1..Len(u) /\ u[Len(s) + i] = t[i]
      BY <1>1
    <3> QED BY <3>1, <3>2
  <2> QED BY <2>1, <2>2
<1>6. S \cup T \subseteq Steps
  BY DEF Stretch
<1>8. RecordsOnce(u)
  <2>1. ASSUME NEW i \in 1..Len(u), u[i].op = "record"
        PROVE  /\ i <= Len(s) => i \in 1..Len(s) /\ s[i].op = "record" /\ "jfr" \in S
               /\ i > Len(s) =>
                    i - Len(s) \in 1..Len(t) /\ t[i - Len(s)].op = "record" /\ "jfr" \in T
    <3>1. CASE i <= Len(s)
      <4>1. i \in 1..Len(s) /\ s[i].op = "record"
        BY <1>1, <2>1, <3>1
      <4>2. Placed(l, S, s, i)
        BY <4>1 DEF Stretch
      <4> QED BY <1>1, <3>1, <4>1, <4>2 DEF Placed
    <3>2. CASE i > Len(s)
      <4>1. PICK j \in 1..Len(t) : i = Len(s) + j /\ t[j].op = "record"
        <5>1. i - Len(s) \in 1..Len(t) /\ i = Len(s) + (i - Len(s))
          BY <1>1, <3>2
        <5> QED BY <1>1, <2>1, <5>1
      <4>2. Placed(l, T, t, j)
        BY DEF Stretch
      <4>3. i - Len(s) = j
        BY <1>1, <4>1
      <4> QED BY <1>1, <3>2, <4>1, <4>2, <4>3 DEF Placed
    <3> QED BY <1>1, <3>1, <3>2
  <2>2. ASSUME NEW i \in 1..Len(u), NEW j \in 1..Len(u), u[i].op = "record", u[j].op = "record"
        PROVE  i = j
    <3>1. CASE i <= Len(s) /\ j <= Len(s)
      BY <2>1, <2>2, <3>1 DEF Stretch, RecordsOnce
    <3>2. CASE i > Len(s) /\ j > Len(s)
      <4>1. i - Len(s) = j - Len(s)
        BY <2>1, <2>2, <3>2 DEF Stretch, RecordsOnce
      <4> QED BY <1>1, <4>1
    <3>3. ~(i <= Len(s) /\ j > Len(s)) /\ ~(i > Len(s) /\ j <= Len(s))
      BY <2>1, <2>2
    <3> QED BY <1>1, <3>1, <3>2, <3>3
  <2> QED BY <2>2 DEF RecordsOnce
<1>7. Stretch(l, S \cup T, u)
  BY <1>1, <1>4, <1>5, <1>6, <1>8 DEF Stretch
<1> QED BY <1>7 DEF u

\* Commands, and scripts of one of them.
LEMMA CmdIsCommand ==
  ASSUME NEW o \in Ops, NEW s \in Steps \cup {""}
  PROVE  Cmd(o, s) \in Command /\ Cmd(o, s).op = o /\ Cmd(o, s).step = s
BY DEF Command, Cmd

LEMMA OneCommand ==
  ASSUME NEW cmd \in Command
  PROVE  <<cmd>> \in Seq(Command) /\ Len(<<cmd>>) = 1 /\ <<cmd>>[1] = cmd
OBVIOUS

\* What opens and closes a script adds two commands.
LEMMA AroundLen ==
  ASSUME NEW a \in Command, NEW b \in Command, NEW t \in Seq(Command)
  PROVE  Len(<<a>> \o t \o <<b>>) = 1 + Len(t) + 1 /\ Len(t) \in Nat
OBVIOUS

\* A step that was not asked for adds nothing.
LEMMA NothingStretch ==
  ASSUME NEW l
  PROVE  Stretch(l, {}, <<>>)
<1>1. <<>> \in Seq(Command) /\ Len(<<>>) = 0
  OBVIOUS
<1> QED BY <1>1 DEF Stretch, RecordsOnce

\* Each step's part of the script.
LEMMA PartStretch ==
  ASSUME NEW l, NEW s \in StepsOf(l.tool), l.tool \in {"jvm", "go"}
  PROVE  Stretch(l, {s} \cap Asked(l), Part(l, s))
<1>1. CASE s \notin Asked(l)
  <2>1. Part(l, s) = <<>> /\ {s} \cap Asked(l) = {}
    BY <1>1 DEF Part
  <2> QED BY <2>1, NothingStretch
<1>2. CASE s \in Asked(l)
  <2>0. /\ Part(l, s) = StepScript(l, s) /\ {s} \cap Asked(l) = {s}
        /\ s \in Steps /\ {s} \subseteq Steps
    BY <1>2 DEF Part, Steps, StepsOf
  <2>a. \A o \in Ops : Cmd(o, s) \in Command /\ Cmd(o, s).op = o /\ Cmd(o, s).step = s
    BY <2>0, CmdIsCommand
  <2>c. /\ \A o \in {"write", "dump", "record", "poll", "copy", "scrub", "remove"} : o \in Ops
        /\ s \in {s}
    BY DEF Ops
  <2>1. CASE l.tool = "go" \/ s \in {"thread", "histogram"}
    <3>0. s # "jfr" /\ StepScript(l, s) = <<Cmd("write", s)>>
      BY <2>1 DEF StepScript, StepsOf
    <3> DEFINE t == <<Cmd("write", s)>>
    <3>1. t \in Seq(Command) /\ Len(t) = 1 /\ t[1] = Cmd("write", s)
      BY <2>a, <2>c
    <3> HIDE DEF t
    <3>2. /\ t \in Seq(Command) /\ 1..Len(t) = {1}
          /\ t[1].op = "write" /\ t[1].step = s
      BY <3>1, <2>a, <2>c
    <3>3. Placed(l, {s}, t, 1)
      BY <3>0, <3>2, <2>c DEF Placed
    <3>4. Delivers(l, t[1])
      BY <3>2 DEF Delivers
    <3>5. Stretch(l, {s}, t)
      BY <2>0, <3>2, <3>3, <3>4 DEF Stretch, RecordsOnce
    <3> QED BY <2>0, <3>0, <3>5 DEF t
  <2>2. CASE l.tool = "jvm" /\ s \in {"vthreads", "heap"} /\ Streamed(l)
    <3> DEFINE t == <<Cmd("dump", s)>> \o <<Cmd("copy", s), Cmd("remove", s)>>
    <3>0. StepScript(l, s) = t
      BY <2>2 DEF StepScript, Fetch
    <3>1. /\ t \in Seq(Command) /\ Len(t) = 3
          /\ t[1] = Cmd("dump", s) /\ t[2] = Cmd("copy", s) /\ t[3] = Cmd("remove", s)
      BY <2>a, <2>c
    <3> HIDE DEF t
    <3>2. /\ 1..Len(t) = 1..3
          /\ t[1].op = "dump" /\ t[1].step = s /\ t[2].op = "copy" /\ t[2].step = s
          /\ t[3].op = "remove" /\ t[3].step = s
      BY <3>1, <2>a, <2>c
    <3>3. Placed(l, {s}, t, 1) /\ Placed(l, {s}, t, 2) /\ Placed(l, {s}, t, 3)
      BY <2>2, <3>1, <3>2 DEF Placed
    <3>4. Delivers(l, t[2]) /\ 2 \in 1..Len(t)
      BY <2>2, <3>2 DEF Delivers
    <3>5. \A i \in 1..3 : i = 1 \/ i = 2 \/ i = 3
      OBVIOUS
    <3>6. \A i \in 1..Len(t) : Placed(l, {s}, t, i)
      BY <3>2, <3>3, <3>5
    <3>7. Stretch(l, {s}, t)
      BY <2>0, <3>1, <3>2, <3>6, <3>4, <3>5 DEF Stretch, RecordsOnce
    <3> QED BY <2>0, <3>0, <3>7 DEF t
  <2>3. CASE l.tool = "jvm" /\ s \in {"vthreads", "heap"} /\ ~Streamed(l)
    <3> DEFINE t == <<Cmd("dump", s)>>
    <3>0. StepScript(l, s) = <<Cmd("dump", s)>> \o <<>>
      BY <2>3 DEF StepScript, Fetch
    <3>1. t \in Seq(Command) /\ Len(t) = 1 /\ t[1] = Cmd("dump", s) /\ t \o <<>> = t
      BY <2>a, <2>c
    <3>2. StepScript(l, s) = t
      BY <3>0, <3>1
    <3> HIDE DEF t
    <3>3. /\ t \in Seq(Command) /\ 1..Len(t) = {1}
          /\ t[1].op = "dump" /\ t[1].step = s
      BY <3>1, <2>a, <2>c
    <3>4. Placed(l, {s}, t, 1) /\ Delivers(l, t[1])
      BY <2>3, <3>3 DEF Placed, Delivers
    <3>5. Stretch(l, {s}, t)
      BY <2>0, <3>3, <3>4 DEF Stretch, RecordsOnce
    <3> QED BY <2>0, <3>2, <3>5
  <2>4. CASE l.tool = "jvm" /\ s = "jfr" /\ Streamed(l)
    <3>1. PICK op \in {"scrub", "copy"} :
            StepScript(l, s) = <<Cmd("record", s), Cmd("poll", s)>>
                                 \o <<Cmd(op, s), Cmd("remove", s)>>
      BY <2>4 DEF StepScript, Fetch
    <3> DEFINE t == <<Cmd("record", s), Cmd("poll", s)>> \o <<Cmd(op, s), Cmd("remove", s)>>
    <3>2. /\ t \in Seq(Command) /\ Len(t) = 4
          /\ t[1] = Cmd("record", s) /\ t[2] = Cmd("poll", s)
          /\ t[3] = Cmd(op, s) /\ t[4] = Cmd("remove", s)
      BY <2>a, <2>c
    <3>3. StepScript(l, s) = t
      BY <3>1
    <3> HIDE DEF t
    <3>4. /\ t[1].op = "record" /\ t[1].step = s /\ t[2].op = "poll" /\ t[2].step = s
          /\ t[3].op = op /\ t[3].step = s /\ t[4].op = "remove" /\ t[4].step = s
      BY <3>2, <2>a, <2>c
    <3>5. Placed(l, {s}, t, 1) /\ Placed(l, {s}, t, 2) /\ Placed(l, {s}, t, 3) /\ Placed(l, {s}, t, 4)
      BY <2>4, <3>2, <3>4 DEF Placed
    <3>6. Delivers(l, t[3]) /\ 3 \in 1..Len(t)
      BY <2>4, <3>2, <3>4 DEF Delivers
    <3>7. \A i \in 1..4 : i = 1 \/ i = 2 \/ i = 3 \/ i = 4
      OBVIOUS
    <3>8. \A i \in 1..Len(t) : Placed(l, {s}, t, i)
      BY <3>2, <3>5, <3>7
    <3>a. RecordsOnce(t)
      BY <3>2, <3>4, <3>7 DEF RecordsOnce
    <3>9. Stretch(l, {s}, t)
      BY <2>0, <3>2, <3>4, <3>6, <3>8, <3>a DEF Stretch
    <3> QED BY <2>0, <3>3, <3>9
  <2>5. CASE l.tool = "jvm" /\ s = "jfr" /\ ~Streamed(l)
    <3> DEFINE t == <<Cmd("record", s), Cmd("poll", s)>>
    <3>0. StepScript(l, s) = <<Cmd("record", s), Cmd("poll", s)>> \o <<>>
      BY <2>5 DEF StepScript, Fetch, Redacting
    <3>1. /\ t \in Seq(Command) /\ Len(t) = 2 /\ t \o <<>> = t
          /\ t[1] = Cmd("record", s) /\ t[2] = Cmd("poll", s)
      BY <2>a, <2>c
    <3>2. StepScript(l, s) = t
      BY <3>0, <3>1
    <3> HIDE DEF t
    <3>3. /\ 1..Len(t) = {1, 2}
          /\ t[1].op = "record" /\ t[1].step = s /\ t[2].op = "poll" /\ t[2].step = s
      BY <3>1, <2>a, <2>c
    <3>4. Placed(l, {s}, t, 1) /\ Placed(l, {s}, t, 2) /\ Delivers(l, t[1])
      BY <2>5, <3>3 DEF Placed, Delivers
    <3>5. Stretch(l, {s}, t)
      BY <2>0, <3>1, <3>3, <3>4 DEF Stretch, RecordsOnce
    <3> QED BY <2>0, <3>2, <3>5
  <2> QED BY <2>1, <2>2, <2>3, <2>4, <2>5 DEF StepsOf
<1> QED BY <1>1, <1>2

\* Every script is a stretch of the steps asked for.
LEMMA ScriptStretch ==
  ASSUME NEW l \in Known
  PROVE  Stretch(l, Asked(l), Scripts[l]) /\ Len(Scripts[l]) >= 2
<1>1. l.tool \in {"jvm", "go"} /\ Changed(l) \subseteq StepsOf(l.tool)
  <2>1. CASE l \in Lines
    BY <2>1, LinesAssumption
  <2>2. CASE l = NoLine
    <3>1. l.flags = <<>> /\ l.tool = "jvm"
      BY <2>2 DEF NoLine
    <3>2. DOMAIN <<>> = {}
      OBVIOUS
    <3> QED BY <3>1, <3>2 DEF Changed
  <2> QED BY <2>1, <2>2 DEF Known
<1>2. Asked(l) \subseteq StepsOf(l.tool)
  BY <1>1 DEF Asked, Default, StepsOf
<1>3. \A s \in StepsOf(l.tool) : Stretch(l, {s} \cap Asked(l), Part(l, s))
  BY <1>1, PartStretch
<1>4. ASSUME NEW o \in {"open", "close"} PROVE Stretch(l, {}, <<Cmd(o, "")>>)
  <2> DEFINE t == <<Cmd(o, "")>>
  <2>0. o \in Ops /\ "" \in Steps \cup {""}
    BY DEF Ops
  <2>1. Cmd(o, "") \in Command /\ Cmd(o, "").op = o
    BY <2>0, CmdIsCommand
  <2>2. t \in Seq(Command) /\ Len(t) = 1 /\ t[1] = Cmd(o, "")
    BY <2>1, OneCommand
  <2> HIDE DEF t
  <2>3. 1..Len(t) = {1} /\ t[1].op = o
    <3>1. t[1].op = o
      BY <2>1, <2>2
    <3>2. Len(t) = 1
      BY <2>2
    <3>3. 1..Len(t) = {1}
      BY <3>2
    <3> QED BY <3>1, <3>3
  <2>4. Placed(l, {}, t, 1)
    BY <2>3 DEF Placed
  <2>5. Stretch(l, {}, t)
    BY <2>2, <2>3, <2>4 DEF Stretch, RecordsOnce
  <2> QED BY <2>5 DEF t
<1> DEFINE A(s) == {s} \cap Asked(l)
           body == IF l.tool = "jvm" THEN JvmScript(l) ELSE GoScript(l)
<1>5. Stretch(l, Asked(l), body)
  <2>1. CASE l.tool = "jvm"
    <3>1. /\ Stretch(l, A("thread"), Part(l, "thread"))
          /\ Stretch(l, A("histogram"), Part(l, "histogram"))
          /\ Stretch(l, A("vthreads"), Part(l, "vthreads"))
          /\ Stretch(l, A("heap"), Part(l, "heap")) /\ Stretch(l, A("jfr"), Part(l, "jfr"))
      BY <1>3, <2>1 DEF StepsOf
    <3>2. Asked(l) = (((A("thread") \cup A("histogram")) \cup A("vthreads")) \cup A("heap"))
                       \cup A("jfr")
      BY <1>2, <2>1 DEF StepsOf
    <3>4. \A s \in {"thread", "histogram", "vthreads", "heap"} : "jfr" \notin A(s)
      OBVIOUS
    <3> HIDE DEF A
    <3>3. Stretch(l, (((A("thread") \cup A("histogram")) \cup A("vthreads")) \cup A("heap"))
                       \cup A("jfr"), JvmScript(l))
      <4>1. Stretch(l, A("thread") \cup A("histogram"), Part(l, "thread") \o Part(l, "histogram"))
        BY <3>1, <3>4, StretchConcat
      <4>2. Stretch(l, (A("thread") \cup A("histogram")) \cup A("vthreads"),
                       Part(l, "thread") \o Part(l, "histogram") \o Part(l, "vthreads"))
        BY <3>1, <3>4, <4>1, StretchConcat
      <4>3. Stretch(l, ((A("thread") \cup A("histogram")) \cup A("vthreads")) \cup A("heap"),
                       Part(l, "thread") \o Part(l, "histogram") \o Part(l, "vthreads")
                         \o Part(l, "heap"))
        BY <3>1, <3>4, <4>2, StretchConcat
      <4> QED BY <3>1, <3>4, <4>3, StretchConcat DEF JvmScript
    <3> QED BY <2>1, <3>2, <3>3
  <2>2. CASE l.tool = "go"
    <3>1. /\ Stretch(l, A("goroutine"), Part(l, "goroutine"))
          /\ Stretch(l, A("heap"), Part(l, "heap"))
          /\ Stretch(l, A("profile"), Part(l, "profile"))
      BY <1>3, <2>2 DEF StepsOf
    <3>2. Asked(l) = (A("goroutine") \cup A("heap")) \cup A("profile")
      BY <1>2, <2>2 DEF StepsOf
    <3>5. \A s \in {"goroutine", "heap", "profile"} : "jfr" \notin A(s)
      OBVIOUS
    <3> HIDE DEF A
    <3>3. Stretch(l, A("goroutine") \cup A("heap"), Part(l, "goroutine") \o Part(l, "heap"))
      BY <3>1, <3>5, StretchConcat
    <3>4. Stretch(l, (A("goroutine") \cup A("heap")) \cup A("profile"), GoScript(l))
      BY <3>1, <3>3, <3>5, StretchConcat DEF GoScript
    <3> QED BY <2>2, <3>2, <3>4
  <2> QED BY <1>1, <2>1, <2>2
<1> HIDE DEF body
<1>6. Stretch(l, {} \cup Asked(l), <<Cmd("open", "")>> \o body)
  BY <1>4, <1>5, StretchConcat
<1>7. Stretch(l, ({} \cup Asked(l)) \cup {}, <<Cmd("open", "")>> \o body \o <<Cmd("close", "")>>)
  BY <1>4, <1>6, StretchConcat
<1>8. Scripts[l] = <<Cmd("open", "")>> \o body \o <<Cmd("close", "")>>
  BY DEF Scripts, Script, Known, body
<1>9. Len(Scripts[l]) >= 2
  <2>1. body \in Seq(Command) /\ Cmd("open", "") \in Command /\ Cmd("close", "") \in Command
    BY <1>5, CmdIsCommand DEF Stretch, Ops
  <2>2. <<Cmd("open", "")>> \in Seq(Command) /\ <<Cmd("close", "")>> \in Seq(Command)
    BY <2>1, OneCommand
  <2> HIDE DEF body
  <2>3. Len(Scripts[l]) = 1 + Len(body) + 1 /\ Len(body) \in Nat
    <3>1. Len(<<Cmd("open", "")>> \o body \o <<Cmd("close", "")>>) = 1 + Len(body) + 1
          /\ Len(body) \in Nat
      BY <2>1, AroundLen
    <3> QED BY <1>8, <3>1
  <2> QED BY <2>3
<1>10. ({} \cup Asked(l)) \cup {} = Asked(l)
  OBVIOUS
<1> QED BY <1>7, <1>8, <1>9, <1>10

-----------------------------------------------------------------------------
(***************************************************************************)
(* The inductive invariant.  A streamed capture holds a file of the JVM's  *)
(* in the pod's name from the moment the dump begins until it removes it:  *)
(* the JVM writes over no file, so nobody else dumps to that name, and     *)
(* only the holder removes it.  As long as no tool hushes up a failure.    *)
(***************************************************************************)
JvmSteps == {"vthreads", "heap"}

\* What the capture's state says of itself.
CtrlInv(c) ==
  /\ exit[c] = "idle" =>
       /\ line[c] = NoLine /\ name[c] = "pod" /\ pc[c] = 1
       /\ \A s \in Steps : work[c][s] = NoFile /\ jvm[c][s] = "idle"
  /\ exit[c] = "run" => pc[c] <= Len(Scripts[line[c]])
  /\ exit[c] = "zero" => pc[c] = Len(Scripts[line[c]]) + 1
  /\ exit[c] # "refused" => (name[c] = "pod" <=> Streamed(line[c]))
  /\ exit[c] = "refused" => name[c] = "pod"

\* The JVM dumps only while the script waits for it, unless that was cut off.
JvmInv(c) ==
  \A s \in Steps :
    /\ jvm[c][s] = "recording" => s = "jfr"
    /\ jvm[c][s] # "idle" => s \in JvmSteps \cup {"jfr"}
    /\ jvm[c][s] # "idle" /\ s # "jfr" /\ exit[c] \in {"idle", "run", "zero"} =>
         At(c, "dump") /\ Step(c) = s

Dumping(c, s) == At(c, "dump") /\ Step(c) = s /\ jvm[c][s] = "writing"
Fetching(c, s) == (At(c, "copy") \/ At(c, "remove")) /\ Step(c) = s

\* The holder's file is its own, and whole once the dump is over.
LockInv(c) ==
  Streamed(line[c]) =>
    \A s \in Steps \ {"jfr"} :
      /\ Dumping(c, s) => files["pod"][s].by = c
      /\ Fetching(c, s) => files["pod"][s] = [by |-> c, whole |-> TRUE]

\* Without holding a file, a capture on its way to success has none there.
CleanInv(c) ==
  Streamed(line[c]) /\ exit[c] \in {"idle", "run", "zero"} =>
    \A s \in Steps \ {"jfr"} :
      files["pod"][s].by = c => Dumping(c, s) \/ Fetching(c, s)

\* The commands before pc have delivered s.
Done(c, s) ==
  \E i \in 1..Len(Scripts[line[c]]) :
    /\ i < pc[c]
    /\ Scripts[line[c]][i].step = s /\ Delivers(line[c], Scripts[line[c]][i])

WorkInv(c) ==
  Streamed(line[c]) /\ exit[c] \in {"run", "zero"} =>
    \A s \in Steps :
      /\ work[c][s] # NoFile <=> Done(c, s)
      /\ s # "jfr" /\ Done(c, s) => work[c][s] = [by |-> c, whole |-> TRUE]

DirInv(c) ==
  ~Streamed(line[c]) /\ OwnName(c) /\ exit[c] \in {"run", "zero"} =>
    \A s \in Steps \ {"jfr"} :
      /\ Done(c, s) => files[name[c]][s] = [by |-> c, whole |-> TRUE]
      /\ Dumping(c, s) => files[name[c]][s].by = c

Own(c) ==
  /\ CtrlInv(c) /\ JvmInv(c)
  /\ ~hushed => LockInv(c) /\ CleanInv(c) /\ WorkInv(c) /\ DirInv(c)

IInv == TypeOK /\ \A c \in Captures : Own(c)

\* The script of a capture under way.
LEMMA KnownScript ==
  ASSUME TypeOK, NEW c \in Captures
  PROVE  /\ line[c] \in Known /\ Scripts[line[c]] \in Seq(Command)
         /\ Len(Scripts[line[c]]) \in Nat /\ Len(Scripts[line[c]]) >= 2
         /\ \A i \in 1..Len(Scripts[line[c]]) :
              /\ Scripts[line[c]][i].op \in Ops /\ Scripts[line[c]][i].step \in Steps \cup {""}
              /\ Placed(line[c], Asked(line[c]), Scripts[line[c]], i)
         /\ Asked(line[c]) \subseteq Steps
<1>1. line[c] \in Known
  BY DEF TypeOK, Known
<1>2. Stretch(line[c], Asked(line[c]), Scripts[line[c]]) /\ Len(Scripts[line[c]]) >= 2
  BY <1>1, ScriptStretch
<1>3. Scripts[line[c]] \in Seq(Command)
  BY <1>2 DEF Stretch
<1>4. \A i \in 1..Len(Scripts[line[c]]) : Scripts[line[c]][i] \in Command
  BY <1>3
<1>5. \A i \in 1..Len(Scripts[line[c]]) :
        Scripts[line[c]][i].op \in Ops /\ Scripts[line[c]][i].step \in Steps \cup {""}
  BY <1>4 DEF Command
<1>6. \A i \in 1..Len(Scripts[line[c]]) : Placed(line[c], Asked(line[c]), Scripts[line[c]], i)
  BY <1>2 DEF Stretch
<1>7. Asked(line[c]) \subseteq Steps /\ Len(Scripts[line[c]]) \in Nat
  BY <1>2, <1>3 DEF Stretch
<1> QED BY <1>1, <1>2, <1>3, <1>5, <1>6, <1>7

\* The command it is at.
LEMMA CurrentCommand ==
  ASSUME TypeOK, NEW c \in Captures, CtrlInv(c), exit[c] = "run"
  PROVE  /\ pc[c] \in 1..Len(Scripts[line[c]])
         /\ Now(c).op \in Ops /\ Step(c) \in Steps \cup {""}
         /\ Placed(line[c], Asked(line[c]), Scripts[line[c]], pc[c])
         /\ Now(c).op \notin {"open", "close"} => Step(c) \in Steps
<1>1. pc[c] \in 1..Len(Scripts[line[c]])
  <2>1. Len(Scripts[line[c]]) \in Nat
    BY KnownScript
  <2>2. pc[c] \in Nat \ {0} /\ pc[c] <= Len(Scripts[line[c]])
    BY DEF TypeOK, CtrlInv
  <2> QED BY <2>1, <2>2
<1>2. /\ Now(c).op \in Ops /\ Step(c) \in Steps \cup {""}
      /\ Placed(line[c], Asked(line[c]), Scripts[line[c]], pc[c])
  BY <1>1, KnownScript DEF Now, Step
<1>3. Now(c).op \notin {"open", "close"} => Step(c) \in Steps
  BY <1>2, KnownScript DEF Now, Step, Placed
<1> QED BY <1>1, <1>2, <1>3

\* Going on stays within the script.
LEMMA AdvanceType ==
  ASSUME TypeOK, NEW c \in Captures, CtrlInv(c), exit[c] = "run", Advance(c)
  PROVE  /\ exit' \in [Captures -> {"idle", "refused", "run", "zero", "nonzero", "killed"}]
         /\ pc' \in [Captures -> Nat \ {0}]
         /\ \A d \in Captures : pc'[d] <= Len(Scripts[line[d]]) + 1
<1>1. pc[c] \in Nat /\ Len(Scripts[line[c]]) \in Nat /\ pc[c] <= Len(Scripts[line[c]])
  BY KnownScript DEF TypeOK, CtrlInv
<1>2. exit' \in [Captures -> {"idle", "refused", "run", "zero", "nonzero", "killed"}]
  BY DEF TypeOK, Advance
<1>3. pc' \in [Captures -> Nat \ {0}]
  BY <1>1 DEF TypeOK, Advance
<1>4. \A d \in Captures : pc'[d] <= Len(Scripts[line[d]]) + 1
  BY <1>1 DEF TypeOK, Advance
<1> QED BY <1>2, <1>3, <1>4

\* One file replaced by another.
LEMMA FileUpdate ==
  ASSUME files \in [Names -> [Steps -> File \cup {NoFile}]], NEW n, NEW s,
         NEW f \in File \cup {NoFile}
  PROVE  [files EXCEPT ![n][s] = f] \in [Names -> [Steps -> File \cup {NoFile}]]
OBVIOUS

LEMMA WorkUpdate ==
  ASSUME work \in [Captures -> [Steps -> File \cup {NoFile}]], NEW c, NEW s,
         NEW f \in File \cup {NoFile}
  PROVE  [work EXCEPT ![c][s] = f] \in [Captures -> [Steps -> File \cup {NoFile}]]
OBVIOUS

\* Every step keeps the types, as long as no script runs past its end.
LEMMA TypeStep ==
  ASSUME TypeOK, \A c \in Captures : CtrlInv(c), [Next]_vars
  PROVE  TypeOK'
<1>0. /\ "vthreads" \in Steps /\ "heap" \in Steps /\ "jfr" \in Steps
      /\ \A c \in Captures : [by |-> c, whole |-> TRUE] \in File /\ [by |-> c, whole |-> FALSE] \in File
  BY DEF Steps, StepsOf, File
<1>1. ASSUME NEW c \in Captures, Begin(c) PROVE TypeOK'
  <2>1. PICK l \in Lines, n \in Names :
          /\ line' = [line EXCEPT ![c] = l] /\ name' = [name EXCEPT ![c] = n]
          /\ exit' = [exit EXCEPT ![c] = IF Refused(l) THEN "refused" ELSE "run"]
          /\ UNCHANGED <<pc, polls, work, files, jvm, hushed>>
    BY <1>1 DEF Begin
  <2>2. Len(Scripts[l]) >= 2 /\ pc[c] = 1 /\ Len(Scripts[l]) \in Nat
    BY <1>1, ScriptStretch DEF Begin, CtrlInv, Known, Stretch
  <2>3. \A d \in Captures : pc'[d] <= Len(Scripts[line'[d]]) + 1
    BY <2>1, <2>2 DEF TypeOK
  <2> QED BY <2>1, <2>3 DEF TypeOK
<1>2. ASSUME NEW c \in Captures, Run(c) PROVE TypeOK'
  <2>1. exit[c] = "run"
    BY <1>2 DEF Run, OpenOrClose, WriteOut, Dump, Record, Poll, CopyOut, RemoveFile, At
  <2>2. CtrlInv(c)
    OBVIOUS
  <2>3. \/ Advance(c) \/ Fail(c)
        \/ UNCHANGED <<pc, exit>>
    BY <1>2 DEF Run, OpenOrClose, WriteOut, Dump, Record, Poll, CopyOut, RemoveFile, FailSomehow, Fail
  <2>4. /\ exit' \in [Captures -> {"idle", "refused", "run", "zero", "nonzero", "killed"}]
        /\ pc' \in [Captures -> Nat \ {0}]
        /\ \A d \in Captures : pc'[d] <= Len(Scripts[line[d]]) + 1
    <3>1. CASE Advance(c)
      BY <2>1, <2>2, <3>1, AdvanceType
    <3>2. CASE Fail(c) \/ UNCHANGED <<pc, exit>>
      BY <3>2 DEF TypeOK, Fail
    <3> QED BY <2>3, <3>1, <3>2
  <2>5. /\ UNCHANGED <<line, name>>
        /\ polls' \in [Captures -> 0..PollLimit] /\ hushed' \in BOOLEAN
    <3>1. CASE Poll(c)
      BY <3>1, PollLimitAssumption DEF Poll, TypeOK
    <3>2. CASE ~Poll(c)
      BY <1>2, <3>2 DEF Run, OpenOrClose, WriteOut, Dump, Record, CopyOut, RemoveFile, FailSomehow, TypeOK
    <3> QED BY <3>1, <3>2
  <2>6. jvm' \in [Captures -> [Steps -> {"idle", "recording", "writing"}]]
    <3> DEFINE J == {"idle", "recording", "writing"}
    <3>1. \/ UNCHANGED jvm
          \/ jvm' = [jvm EXCEPT ![c][Step(c)] = "writing"]
          \/ jvm' = [jvm EXCEPT ![c]["jfr"] = "recording"]
      BY <1>2 DEF Run, OpenOrClose, WriteOut, Dump, Record, Poll, CopyOut, RemoveFile
    <3>2. jvm \in [Captures -> [Steps -> J]] /\ "writing" \in J /\ "recording" \in J
      BY DEF TypeOK
    <3> HIDE DEF J
    <3>3. jvm' \in [Captures -> [Steps -> J]]
      BY <3>1, <3>2
    <3> QED BY <3>3 DEF J
  <2>7. ASSUME NEW f \in File \cup {NoFile}, Into(c, f)
        PROVE  /\ work' \in [Captures -> [Steps -> File \cup {NoFile}]]
               /\ files' \in [Names -> [Steps -> File \cup {NoFile}]]
    <3>1. work \in [Captures -> [Steps -> File \cup {NoFile}]]
          /\ files \in [Names -> [Steps -> File \cup {NoFile}]]
      BY DEF TypeOK
    <3>2. [files EXCEPT ![name[c]][Step(c)] = f] \in [Names -> [Steps -> File \cup {NoFile}]]
      BY <3>1, FileUpdate
    <3>3. [work EXCEPT ![c][Step(c)] = f] \in [Captures -> [Steps -> File \cup {NoFile}]]
      BY <3>1, WorkUpdate
    <3> QED BY <2>7, <3>1, <3>2, <3>3 DEF Into
  <2>8. /\ work' \in [Captures -> [Steps -> File \cup {NoFile}]]
        /\ files' \in [Names -> [Steps -> File \cup {NoFile}]]
    <3>1. CASE OpenOrClose(c) \/ Record(c) \/ Poll(c)
      BY <3>1 DEF OpenOrClose, Record, Poll, TypeOK
    <3>2. CASE WriteOut(c)
      <4>1. PICK whole \in BOOLEAN : Into(c, [by |-> c, whole |-> whole])
        BY <3>2 DEF WriteOut
      <4>2. [by |-> c, whole |-> whole] \in File
        BY DEF File
      <4> QED BY <2>7, <4>1, <4>2
    <3>3. CASE Dump(c)
      <4>1. \/ files' = [files EXCEPT ![name[c]][Step(c)] = [by |-> c, whole |-> FALSE]]
            \/ UNCHANGED files
        BY <3>3 DEF Dump
      <4>2. UNCHANGED work /\ [by |-> c, whole |-> FALSE] \in File
        BY <1>0, <3>3 DEF Dump
      <4>3. files \in [Names -> [Steps -> File \cup {NoFile}]]
        BY DEF TypeOK
      <4>4. files' \in [Names -> [Steps -> File \cup {NoFile}]]
        <5>1. [files EXCEPT ![name[c]][Step(c)] = [by |-> c, whole |-> FALSE]]
                \in [Names -> [Steps -> File \cup {NoFile}]]
          BY <4>2, <4>3, FileUpdate
        <5> QED BY <4>1, <4>3, <5>1
      <4> QED BY <4>2, <4>4 DEF TypeOK
    <3>4. CASE CopyOut(c)
      <4>1. CASE UNCHANGED <<work, files>>
        BY <4>1 DEF TypeOK
      <4>2. CASE Into(c, Seen(c))
        <5>1. Step(c) \in Steps
          BY <2>1, <2>2, <3>4, CurrentCommand DEF CopyOut, At
        <5>2. Seen(c) \in File \cup {NoFile}
          BY <5>1 DEF Seen, TypeOK
        <5> QED BY <2>7, <4>2, <5>2
      <4> QED BY <3>4, <4>1, <4>2 DEF CopyOut
    <3>5. CASE RemoveFile(c)
      <4>1. \/ files' = [files EXCEPT ![name[c]][Step(c)] = NoFile]
            \/ UNCHANGED files
        BY <3>5 DEF RemoveFile
      <4>2. UNCHANGED work
        BY <3>5 DEF RemoveFile
      <4>3. files \in [Names -> [Steps -> File \cup {NoFile}]] /\ NoFile \in File \cup {NoFile}
        BY DEF TypeOK
      <4>4. files' \in [Names -> [Steps -> File \cup {NoFile}]]
        <5>1. [files EXCEPT ![name[c]][Step(c)] = NoFile] \in [Names -> [Steps -> File \cup {NoFile}]]
          BY <4>3, FileUpdate
        <5> QED BY <4>1, <4>3, <5>1
      <4> QED BY <4>2, <4>4 DEF TypeOK
    <3> QED BY <1>2, <3>1, <3>2, <3>3, <3>4, <3>5 DEF Run
  <2> QED BY <2>4, <2>5, <2>6, <2>8 DEF TypeOK
<1>3. ASSUME NEW c \in Captures, Killed(c) PROVE TypeOK'
  BY <1>3 DEF Killed, TypeOK
<1>4. ASSUME NEW c \in Captures, JvmOpens(c) PROVE TypeOK'
  BY <1>0, <1>4 DEF JvmOpens, TypeOK
<1>5. ASSUME NEW c \in Captures, NEW s \in Steps, JvmCloses(c, s) PROVE TypeOK'
  <2>1. (At(c, "dump") /\ Advance(c)) \/ Fail(c) \/ UNCHANGED <<pc, exit>>
    <3>1. CASE At(c, "dump") /\ Step(c) = s
      BY <1>5, <3>1 DEF JvmCloses, FailSomehow
    <3>2. CASE ~(At(c, "dump") /\ Step(c) = s)
      BY <1>5, <3>2 DEF JvmCloses
    <3> QED BY <3>1, <3>2
  <2>2. /\ exit' \in [Captures -> {"idle", "refused", "run", "zero", "nonzero", "killed"}]
        /\ pc' \in [Captures -> Nat \ {0}]
        /\ \A d \in Captures : pc'[d] <= Len(Scripts[line[d]]) + 1
    <3>1. CASE At(c, "dump") /\ Advance(c)
      BY <3>1, AdvanceType DEF At
    <3>2. CASE Fail(c) \/ UNCHANGED <<pc, exit>>
      BY <3>2 DEF TypeOK, Fail
    <3> QED BY <2>1, <3>1, <3>2
  <2>3. UNCHANGED <<line, name, polls, work>> /\ hushed' \in BOOLEAN
    BY <1>5 DEF JvmCloses, FailSomehow, TypeOK
  <2>4. jvm' \in [Captures -> [Steps -> {"idle", "recording", "writing"}]]
    BY <1>5 DEF JvmCloses, TypeOK
  <2>5. files' \in [Names -> [Steps -> File \cup {NoFile}]]
    <3>1. CASE UNCHANGED files
      BY <3>1 DEF TypeOK
    <3>2. CASE files' = [files EXCEPT ![name[c]][s] =
                           IF @.by # c THEN @ ELSE [@ EXCEPT !.whole = TRUE]]
      <4>1. name[c] \in Names /\ files[name[c]][s] \in File \cup {NoFile}
        BY DEF TypeOK
      <4> DEFINE f == files[name[c]][s]
                 g == IF f.by # c THEN f ELSE [f EXCEPT !.whole = TRUE]
      <4>2. g \in File \cup {NoFile}
        BY <4>1, CapturesAssumption DEF File, NoFile
      <4>3. files' = [files EXCEPT ![name[c]][s] = g]
        BY <3>2, <4>1 DEF TypeOK
      <4> HIDE DEF f, g
      <4> QED BY <4>2, <4>3 DEF TypeOK
    <3> QED BY <1>5, <3>1, <3>2 DEF JvmCloses
  <2> QED BY <2>2, <2>3, <2>4, <2>5 DEF TypeOK
<1>6. CASE UNCHANGED vars
  BY <1>6 DEF TypeOK, vars
<1> QED BY <1>1, <1>2, <1>3, <1>4, <1>5, <1>6 DEF Next

-----------------------------------------------------------------------------
\* What a step of c may do to the others: it leaves their own state alone, and
\* of the files of the pod's name it touches its own and makes its own.
Gentle(c) ==
  /\ \A n \in Names \ {name[c]} : files'[n] = files[n]
  /\ name[c] = "pod" => \A s \in Steps \ {"jfr"} :
       \/ files'["pod"][s] = files["pod"][s]
       \/ files["pod"][s].by \in {c, "nobody"} /\ files'["pod"][s].by \in {c, "nobody"}

Frame(c) ==
  /\ \A d \in Captures \ {c} :
       /\ line'[d] = line[d] /\ name'[d] = name[d] /\ pc'[d] = pc[d] /\ exit'[d] = exit[d]
       /\ work'[d] = work[d] /\ jvm'[d] = jvm[d]
  /\ name'[c] = name[c] \/ name[c] = "pod"
  /\ ~hushed' => ~hushed /\ Gentle(c)

\* What the script is at depends on the capture's own state.
LEMMA SamePlace ==
  ASSUME NEW d, line'[d] = line[d], pc'[d] = pc[d], exit'[d] = exit[d]
  PROVE  /\ \A op : At(d, op)' <=> At(d, op)
         /\ Step(d)' = Step(d) /\ Now(d)' = Now(d)
         /\ \A s : Fetching(d, s)' <=> Fetching(d, s)
         /\ \A s : Done(d, s)' <=> Done(d, s)
         /\ Streamed(line[d])' <=> Streamed(line[d])
<1>1. Now(d)' = Now(d)
  BY DEF Now
<1>2. Step(d)' = Step(d) /\ \A op : At(d, op)' <=> At(d, op)
  BY <1>1 DEF Step, At
<1>3. \A s : Fetching(d, s)' <=> Fetching(d, s)
  BY <1>2 DEF Fetching
<1>4. \A s : Done(d, s)' <=> Done(d, s)
  BY DEF Done
<1> QED BY <1>1, <1>2, <1>3, <1>4 DEF Streamed

\* A step of one capture leaves what holds of another as it is.
LEMMA OthersKeep ==
  ASSUME IInv, TypeOK', NEW c \in Captures, Frame(c), NEW d \in Captures \ {c}
  PROVE  Own(d)'
<1>1. /\ line'[d] = line[d] /\ name'[d] = name[d] /\ pc'[d] = pc[d] /\ exit'[d] = exit[d]
      /\ work'[d] = work[d] /\ jvm'[d] = jvm[d] /\ Own(d) /\ d # c /\ d # "nobody"
  BY CapturesAssumption DEF Frame, IInv
<1>2. /\ \A op : At(d, op)' <=> At(d, op)
      /\ Step(d)' = Step(d)
      /\ \A s : Fetching(d, s)' <=> Fetching(d, s)
      /\ \A s : Done(d, s)' <=> Done(d, s)
      /\ Streamed(line[d])' <=> Streamed(line[d])
  BY <1>1, SamePlace
<1>3. \A s : Dumping(d, s)' <=> Dumping(d, s)
  BY <1>1, <1>2 DEF Dumping
<1>4. CtrlInv(d)'
  BY <1>1, <1>2 DEF Own, CtrlInv
<1>5. JvmInv(d)'
  BY <1>1, <1>2 DEF Own, JvmInv
<1>6. ASSUME ~hushed' PROVE LockInv(d)' /\ CleanInv(d)' /\ WorkInv(d)' /\ DirInv(d)'
  <2>1. ~hushed /\ Gentle(c) /\ LockInv(d) /\ CleanInv(d) /\ WorkInv(d) /\ DirInv(d)
    BY <1>1, <1>6 DEF Frame, Own
  <2>2. \A s \in Steps \ {"jfr"} : files'["pod"][s] # files["pod"][s] =>
          files["pod"][s].by # d /\ files'["pod"][s].by # d
    BY <1>1, <2>1 DEF Gentle, Names
  <2>3. LockInv(d)'
    <3>1. ASSUME Streamed(line[d]), NEW s \in Steps \ {"jfr"}, Dumping(d, s)
          PROVE  files'["pod"][s].by = d
      BY <2>1, <2>2, <3>1 DEF LockInv
    <3>2. ASSUME Streamed(line[d]), NEW s \in Steps \ {"jfr"}, Fetching(d, s)
          PROVE  files'["pod"][s] = [by |-> d, whole |-> TRUE]
      <4>1. files["pod"][s] = [by |-> d, whole |-> TRUE]
        BY <2>1, <3>2 DEF LockInv
      <4> QED BY <2>2, <4>1
    <3> QED BY <1>2, <1>3, <3>1, <3>2 DEF LockInv
  <2>4. CleanInv(d)'
    BY <1>1, <1>2, <1>3, <2>1, <2>2 DEF CleanInv
  <2>5. WorkInv(d)'
    BY <1>1, <1>2, <2>1 DEF WorkInv
  <2>6. DirInv(d)'
    <3> SUFFICES ASSUME ~Streamed(line[d]), OwnName(d)', exit[d] \in {"run", "zero"},
                        NEW s \in Steps \ {"jfr"}
                 PROVE  /\ Done(d, s) => files'[name[d]][s] = [by |-> d, whole |-> TRUE]
                        /\ Dumping(d, s) => files'[name[d]][s].by = d
      BY <1>1, <1>2, <1>3 DEF DirInv
    <3>1. name[d] # "pod"
      BY <1>1 DEF Own, CtrlInv
    <3>2. name[c] # name[d]
      BY <1>1, <3>1 DEF OwnName, Frame
    <3>3. OwnName(d)
      <4>1. ASSUME NEW e \in Captures \ {d} PROVE name[e] # name[d]
        <5>1. CASE e = c
          BY <3>2, <5>1
        <5>2. CASE e # c
          BY <1>1, <1>2, <5>2 DEF OwnName, Frame
        <5> QED BY <5>1, <5>2
      <4> QED BY <4>1 DEF OwnName
    <3>4. files'[name[d]] = files[name[d]]
      BY <2>1, <3>2 DEF Gentle, IInv, TypeOK
    <3> QED BY <2>1, <3>3, <3>4 DEF DirInv
  <2> QED BY <2>3, <2>4, <2>5, <2>6
<1> QED BY <1>4, <1>5, <1>6 DEF Own

\* Where a script is after a command: what the JVM dumped is fetched at once.
LEMMA Advanced ==
  ASSUME TypeOK, NEW c \in Captures, CtrlInv(c), exit[c] = "run", Advance(c),
         line'[c] = line[c]
  PROVE  /\ exit'[c] \in {"run", "zero"} /\ pc'[c] = pc[c] + 1
         /\ exit'[c] = "run" => pc'[c] <= Len(Scripts[line[c]])
         /\ exit'[c] = "zero" => pc'[c] = Len(Scripts[line[c]]) + 1
         /\ \A s \in Steps \ {"jfr"} : Fetching(c, s)' <=>
              Streamed(line[c]) /\ (At(c, "dump") \/ At(c, "copy")) /\ Step(c) = s
         /\ \A s : Done(c, s)' <=> Done(c, s) \/ (Step(c) = s /\ Delivers(line[c], Now(c)))
<1> DEFINE t == Scripts[line[c]]
           i == pc[c]
<1>1. /\ i \in 1..Len(t) /\ Len(t) \in Nat /\ pc'[c] = i + 1
      /\ exit'[c] = IF i = Len(t) THEN "zero" ELSE "run"
      /\ Now(c) = t[i] /\ Step(c) = t[i].step /\ \A op : At(c, op) <=> t[i].op = op
  BY CurrentCommand, KnownScript DEF Advance, TypeOK, Now, Step, At
<1>2. \A j \in 1..Len(t) : Placed(line[c], Asked(line[c]), t, j)
  BY KnownScript
<1>3. /\ Step(c)' = t[i + 1].step
      /\ \A op : At(c, op)' <=> i < Len(t) /\ t[i + 1].op = op
  BY <1>1 DEF Now, Step, At
<1>4. ASSUME NEW s \in Steps \ {"jfr"}
      PROVE  Fetching(c, s)' <=>
              Streamed(line[c]) /\ (At(c, "dump") \/ At(c, "copy")) /\ Step(c) = s
  <2>1. ASSUME Fetching(c, s)'
        PROVE  Streamed(line[c]) /\ (At(c, "dump") \/ At(c, "copy")) /\ Step(c) = s
    <3>1. i < Len(t) /\ t[i + 1].op \in {"copy", "remove"} /\ t[i + 1].step = s
      BY <1>3, <2>1 DEF Fetching
    <3>2. Placed(line[c], Asked(line[c]), t, i + 1) /\ (i + 1) - 1 = i
      BY <1>1, <1>2, <3>1
    <3>3. Streamed(line[c]) /\ (t[i] = Cmd("dump", s) \/ t[i] = Cmd("copy", s))
      BY <3>1, <3>2 DEF Placed
    <3> QED BY <1>1, <3>3 DEF Cmd
  <2>2. ASSUME Streamed(line[c]), At(c, "dump"), Step(c) = s
        PROVE  Fetching(c, s)'
    <3>1. i + 2 <= Len(t) /\ t[i + 1] = Cmd("copy", s)
      BY <1>1, <1>2, <2>2 DEF Placed
    <3> QED BY <1>1, <1>3, <3>1 DEF Fetching, Cmd
  <2>3. ASSUME Streamed(line[c]), At(c, "copy"), Step(c) = s
        PROVE  Fetching(c, s)'
    <3>1. i > 1 /\ t[i - 1] = Cmd("dump", s)
      BY <1>1, <1>2, <2>3 DEF Placed
    <3>2. i - 1 \in 1..Len(t) /\ (i - 1) + 2 = i + 1 /\ (i + 1 <= Len(t) <=> i < Len(t))
      BY <1>1, <3>1
    <3>3. i < Len(t) /\ t[i + 1] = Cmd("remove", s)
      <4>1. Placed(line[c], Asked(line[c]), t, i - 1) /\ t[i - 1].op = "dump" /\ t[i - 1].step = s
        BY <1>2, <3>1, <3>2 DEF Cmd
      <4>2. (i - 1) + 2 <= Len(t) /\ t[(i - 1) + 2] = Cmd("remove", s)
        BY <2>3, <4>1 DEF Placed
      <4> QED BY <3>2, <4>2
    <3> QED BY <1>1, <1>3, <3>3 DEF Fetching, Cmd
  <2> QED BY <2>1, <2>2, <2>3
<1>5. ASSUME NEW s
      PROVE  Done(c, s)' <=> Done(c, s) \/ (Step(c) = s /\ Delivers(line[c], Now(c)))
  <2>1. \A j \in 1..Len(t) : j < i + 1 <=> j < i \/ j = i
    BY <1>1
  <2> QED BY <1>1, <2>1 DEF Done
<1> QED BY <1>1, <1>4, <1>5

\* A capture that is cut off has nothing to keep any more.
LEMMA Ended ==
  ASSUME NEW c \in Captures, Own(c), line'[c] = line[c], name'[c] = name[c],
         exit[c] = "run", exit'[c] \in {"nonzero", "killed"},
         \A s \in Steps : jvm'[c][s] \in {jvm[c][s], "idle"}
  PROVE  Own(c)'
<1>1. CtrlInv(c)'
  BY DEF Own, CtrlInv, Streamed
<1>2. JvmInv(c)'
  BY DEF Own, JvmInv
<1>3. \A op : ~At(c, op)'
  BY DEF At
<1> QED BY <1>1, <1>2, <1>3 DEF Own, LockInv, CleanInv, WorkInv, DirInv, Dumping, Fetching

\* What a command must leave behind when the script goes on.
Fetched(c, s) == (At(c, "dump") \/ At(c, "copy")) /\ Step(c) = s
DoneNow(c, s) == Done(c, s) \/ (Step(c) = s /\ Delivers(line[c], Now(c)))

Moved(c) ==
  /\ Streamed(line[c]) =>
       /\ \A s \in Steps \ {"jfr"} :
            /\ Fetched(c, s) => files'["pod"][s] = [by |-> c, whole |-> TRUE]
            /\ files'["pod"][s].by = c => Fetched(c, s)
       /\ \A s \in Steps :
            /\ work'[c][s] # NoFile <=> DoneNow(c, s)
            /\ s # "jfr" /\ DoneNow(c, s) => work'[c][s] = [by |-> c, whole |-> TRUE]
  /\ ~Streamed(line[c]) /\ OwnName(c) =>
       \A s \in Steps \ {"jfr"} :
         DoneNow(c, s) => files'[name[c]][s] = [by |-> c, whole |-> TRUE]

\* A command that ends well, for the capture that runs it.
LEMMA WentOn ==
  ASSUME TypeOK, NEW c \in Captures, Own(c), exit[c] = "run", Advance(c),
         line' = line, name' = name,
         \A s \in Steps \ {"jfr"} : jvm'[c][s] = "idle",
         ~hushed' => Moved(c)
  PROVE  Own(c)'
<1>1. CtrlInv(c) /\ line'[c] = line[c] /\ name'[c] = name[c]
  BY DEF Own
<1>2. /\ exit'[c] \in {"run", "zero"} /\ pc'[c] = pc[c] + 1
      /\ exit'[c] = "run" => pc'[c] <= Len(Scripts[line[c]])
      /\ exit'[c] = "zero" => pc'[c] = Len(Scripts[line[c]]) + 1
      /\ \A s \in Steps \ {"jfr"} : Fetching(c, s)' <=> Streamed(line[c]) /\ Fetched(c, s)
      /\ \A s : Done(c, s)' <=> DoneNow(c, s)
  BY <1>1, Advanced DEF Fetched, DoneNow
<1>3. Streamed(line[c])' <=> Streamed(line[c])
  BY <1>1 DEF Streamed
<1>4. CtrlInv(c)'
  BY <1>1, <1>2, <1>3 DEF CtrlInv
<1>5. JvmInv(c)'
  BY DEF JvmInv
<1>6. \A s \in Steps \ {"jfr"} : ~Dumping(c, s)'
  BY DEF Dumping
<1>7. ASSUME ~hushed' PROVE LockInv(c)' /\ CleanInv(c)' /\ WorkInv(c)' /\ DirInv(c)'
  <2>1. Moved(c)
    BY <1>7
  <2>2. LockInv(c)'
    BY <1>2, <1>3, <1>6, <2>1 DEF LockInv, Moved
  <2>3. CleanInv(c)'
    BY <1>2, <1>3, <1>6, <2>1 DEF CleanInv, Moved
  <2>4. WorkInv(c)'
    BY <1>2, <1>3, <2>1 DEF WorkInv, Moved
  <2>5. OwnName(c)' <=> OwnName(c)
    BY DEF OwnName, Streamed
  <2>6. DirInv(c)'
    BY <1>1, <1>2, <1>3, <1>6, <2>1, <2>5 DEF DirInv, Moved
  <2> QED BY <2>2, <2>3, <2>4, <2>6
<1> QED BY <1>4, <1>5, <1>7 DEF Own

\* Outside a dump the JVM does nothing for a script but record.
LEMMA JvmIdle ==
  ASSUME NEW c \in Captures, Own(c), exit[c] = "run", NEW s \in Steps \ {"jfr"},
         ~(At(c, "dump") /\ Step(c) = s)
  PROVE  jvm[c][s] = "idle"
BY DEF Own, JvmInv

\* A command that neither dumps, fetches nor removes finds no file of its own there.
LEMMA Elsewhere ==
  ASSUME NEW c \in Captures, Own(c), ~hushed, exit[c] = "run", Streamed(line[c]),
         Now(c).op \notin {"dump", "copy", "remove"}
  PROVE  \A s \in Steps \ {"jfr"} : files["pod"][s].by # c
BY DEF Own, CleanInv, Dumping, Fetching, At

\* Only a streamed capture uses names in /tmp that another may share.
LEMMA PodName ==
  ASSUME NEW c \in Captures, Own(c), exit[c] # "refused"
  PROVE  name[c] = "pod" <=> Streamed(line[c])
BY DEF Own, CtrlInv

\* Each command in turn: the scripts' ends, the tools that are redirected, the
\* recording, the wait for it.
LEMMA OpenOrCloseStep ==
  ASSUME IInv, NEW c \in Captures, OpenOrClose(c)
  PROVE  Frame(c) /\ Own(c)'
<1>1. /\ TypeOK /\ Own(c) /\ CtrlInv(c) /\ exit[c] = "run" /\ Now(c).op \in {"open", "close"}
      /\ UNCHANGED <<line, name, polls, work, files, jvm, hushed>>
  BY DEF IInv, Own, OpenOrClose, At
<1>2. Frame(c)
  BY <1>1 DEF OpenOrClose, Advance, Fail, Frame, Gentle, TypeOK
<1>3. CASE Fail(c)
  <2>1. exit'[c] = "nonzero"
    BY <1>1, <1>3 DEF Fail, TypeOK
  <2> QED BY <1>1, <1>2, <2>1, Ended
<1>4. CASE Advance(c)
  <2>1. \A s \in Steps \ {"jfr"} : jvm'[c][s] = "idle"
    BY <1>1, JvmIdle DEF At
  <2>2. \A s : ~Fetched(c, s) /\ (DoneNow(c, s) <=> Done(c, s))
    BY <1>1 DEF Fetched, DoneNow, Delivers, At
  <2>3. ASSUME ~hushed PROVE Moved(c)
    BY <1>1, <2>2, <2>3, Elsewhere DEF Moved, Own, WorkInv, DirInv
  <2> QED BY <1>1, <1>2, <1>4, <2>1, <2>3, WentOn
<1> QED BY <1>3, <1>4 DEF OpenOrClose

LEMMA WriteOutStep ==
  ASSUME IInv, NEW c \in Captures, WriteOut(c)
  PROVE  Frame(c) /\ Own(c)'
<1>1. PICK whole \in BOOLEAN : /\ Into(c, [by |-> c, whole |-> whole])
                               /\ IF whole THEN Advance(c) ELSE Fail(c)
  BY DEF WriteOut
<1>2. /\ TypeOK /\ Own(c) /\ CtrlInv(c) /\ exit[c] = "run" /\ Now(c).op = "write"
      /\ UNCHANGED <<line, name, polls, jvm, hushed>> /\ c # "nobody"
  BY CapturesAssumption DEF IInv, Own, WriteOut, At
<1>3. Step(c) \in Steps /\ Step(c) # "jfr"
  BY <1>2, CurrentCommand DEF Placed, Step, Now
<1>4. name[c] = "pod" <=> Streamed(line[c])
  BY <1>2, PodName
<1> DEFINE f == [by |-> c, whole |-> whole]
<1>5. CASE Streamed(line[c])
  <2>1. files' = files /\ work' = [work EXCEPT ![c][Step(c)] = f]
    BY <1>1, <1>5 DEF Into
  <2>2. Frame(c)
    BY <1>1, <1>2, <2>1 DEF Advance, Fail, Frame, Gentle, TypeOK
  <2>3. CASE ~whole
    <3>1. exit'[c] = "nonzero"
      BY <1>1, <1>2, <2>3 DEF Fail, TypeOK
    <3> QED BY <1>2, <2>2, <3>1, Ended
  <2>4. CASE whole
    <3>1. \A s \in Steps \ {"jfr"} : jvm'[c][s] = "idle"
      BY <1>2, JvmIdle DEF At
    <3>2. \A s : ~Fetched(c, s) /\ (DoneNow(c, s) <=> Done(c, s) \/ Step(c) = s)
      BY <1>2, <1>5 DEF Fetched, DoneNow, Delivers, At
    <3>3. /\ \A s \in Steps : s # Step(c) => work'[c][s] = work[c][s]
          /\ work'[c][Step(c)] = [by |-> c, whole |-> TRUE]
          /\ [by |-> c, whole |-> TRUE] # NoFile
      BY <1>2, <1>3, <2>1, <2>4 DEF TypeOK, NoFile
    <3>4. ASSUME ~hushed PROVE Moved(c)
      <4>1. \A s \in Steps \ {"jfr"} : files'["pod"][s].by # c
        BY <1>2, <1>5, <2>1, <3>4, Elsewhere
      <4>2. ASSUME NEW s \in Steps
            PROVE  /\ work'[c][s] # NoFile <=> DoneNow(c, s)
                   /\ s # "jfr" /\ DoneNow(c, s) => work'[c][s] = [by |-> c, whole |-> TRUE]
        <5>1. CASE s = Step(c)
          BY <3>2, <3>3, <5>1
        <5>2. CASE s # Step(c)
          BY <1>2, <1>5, <3>2, <3>3, <3>4, <5>2 DEF Own, WorkInv
        <5> QED BY <5>1, <5>2
      <4> QED BY <1>5, <3>2, <4>1, <4>2 DEF Moved
    <3> QED BY <1>1, <1>2, <2>2, <2>4, <3>1, <3>4, WentOn
  <2> QED BY <2>3, <2>4
<1>6. CASE ~Streamed(line[c])
  <2>1. work' = work /\ files' = [files EXCEPT ![name[c]][Step(c)] = f]
    BY <1>1, <1>6 DEF Into
  <2>2. Frame(c)
    BY <1>1, <1>2, <1>4, <1>6, <2>1 DEF Advance, Fail, Frame, Gentle, TypeOK
  <2>3. CASE ~whole
    <3>1. exit'[c] = "nonzero"
      BY <1>1, <1>2, <2>3 DEF Fail, TypeOK
    <3> QED BY <1>2, <2>2, <3>1, Ended
  <2>4. CASE whole
    <3>1. \A s \in Steps \ {"jfr"} : jvm'[c][s] = "idle"
      BY <1>2, JvmIdle DEF At
    <3>2. \A s : DoneNow(c, s) <=> Done(c, s) \/ Step(c) = s
      BY <1>2, <1>6 DEF DoneNow, Delivers
    <3>3. /\ \A s \in Steps : s # Step(c) => files'[name[c]][s] = files[name[c]][s]
          /\ files'[name[c]][Step(c)] = [by |-> c, whole |-> TRUE]
      BY <1>2, <1>3, <2>1, <2>4 DEF TypeOK
    <3>4. ASSUME ~hushed PROVE Moved(c)
      BY <1>2, <1>6, <3>2, <3>3, <3>4 DEF Moved, Own, DirInv
    <3> QED BY <1>1, <1>2, <2>2, <2>4, <3>1, <3>4, WentOn
  <2> QED BY <2>3, <2>4
<1> QED BY <1>5, <1>6

LEMMA RecordStep ==
  ASSUME IInv, NEW c \in Captures, Record(c)
  PROVE  Frame(c) /\ Own(c)'
<1>1. /\ TypeOK /\ Own(c) /\ CtrlInv(c) /\ exit[c] = "run" /\ Now(c).op = "record"
      /\ UNCHANGED <<line, name, polls, work, files>>
  BY DEF IInv, Own, Record, At
<1>2. Step(c) = "jfr"
  BY <1>1, CurrentCommand DEF Placed, Step, Now
<1>3. \A s \in Steps \ {"jfr"} : jvm'[c][s] = "idle"
  <2>1. \A s \in Steps \ {"jfr"} : jvm[c][s] = "idle"
    BY <1>1, JvmIdle DEF At
  <2> QED BY <1>1, <2>1 DEF Record, TypeOK
<1>4. Frame(c)
  BY <1>1 DEF Record, FailSomehow, Advance, Fail, Frame, Gentle, TypeOK
<1>5. CASE Fail(c)
  <2>1. exit'[c] = "nonzero" /\ \A s \in Steps : jvm'[c][s] \in {jvm[c][s], "idle"}
    <3>1. ~Advance(c)
      BY <1>1, <1>5 DEF Advance, Fail, TypeOK
    <3> QED BY <1>1, <1>5, <3>1 DEF Record, FailSomehow, Fail, TypeOK
  <2> QED BY <1>1, <1>4, <2>1, Ended
<1>6. CASE Advance(c)
  <2>1. \A s : ~Fetched(c, s)
    BY <1>1 DEF Fetched, At
  <2>2. \A s \in Steps : Streamed(line[c]) \/ s # "jfr" => (DoneNow(c, s) <=> Done(c, s))
    BY <1>1, <1>2 DEF DoneNow, Delivers
  <2>3. ASSUME ~hushed PROVE Moved(c)
    BY <1>1, <2>1, <2>2, <2>3, Elsewhere DEF Moved, Own, WorkInv, DirInv
  <2>4. ~hushed' => ~hushed
    BY DEF Record, FailSomehow
  <2> QED BY <1>1, <1>3, <1>4, <1>6, <2>3, <2>4, WentOn
<1> QED BY <1>5, <1>6 DEF Record, FailSomehow

\* A step that leaves the script where it is, and only its recording, if anything.
LEMMA StayedOn ==
  ASSUME TypeOK, NEW c \in Captures, Own(c), line' = line, name' = name, pc' = pc,
         exit' = exit, work' = work, hushed' = hushed,
         exit[c] # "idle" \/ jvm'[c] = jvm[c],
         \A s \in Steps \ {"jfr"} : jvm'[c][s] = jvm[c][s],
         \A n \in Names, s \in Steps \ {"jfr"} : files'[n][s] = files[n][s]
  PROVE  Own(c)'
<1>1. /\ \A op : At(c, op)' <=> At(c, op)
      /\ Step(c)' = Step(c)
      /\ \A s : Fetching(c, s)' <=> Fetching(c, s)
      /\ \A s : Done(c, s)' <=> Done(c, s)
      /\ Streamed(line[c])' <=> Streamed(line[c])
  BY SamePlace
<1>2. \A s \in Steps \ {"jfr"} : Dumping(c, s)' <=> Dumping(c, s)
  BY <1>1 DEF Dumping
<1>3. CtrlInv(c)'
  BY <1>1 DEF Own, CtrlInv
<1>4. JvmInv(c)'
  BY <1>1 DEF Own, JvmInv
<1>5. ASSUME ~hushed PROVE LockInv(c)' /\ CleanInv(c)' /\ WorkInv(c)' /\ DirInv(c)'
  <2>1. LockInv(c) /\ CleanInv(c) /\ WorkInv(c) /\ DirInv(c)
    BY <1>5 DEF Own
  <2>2. \A s \in Steps \ {"jfr"} : files'["pod"][s] = files["pod"][s]
                                   /\ files'[name[c]][s] = files[name[c]][s]
    BY DEF Names, TypeOK
  <2>3. OwnName(c)' <=> OwnName(c)
    BY DEF OwnName, Streamed
  <2>4. LockInv(c)'
    BY <1>1, <1>2, <2>1, <2>2 DEF LockInv
  <2>5. CleanInv(c)'
    BY <1>1, <1>2, <2>1, <2>2 DEF CleanInv
  <2>6. WorkInv(c)'
    BY <1>1, <2>1 DEF WorkInv
  <2>7. DirInv(c)'
    BY <1>1, <1>2, <2>1, <2>2, <2>3 DEF DirInv
  <2> QED BY <2>4, <2>5, <2>6, <2>7
<1> QED BY <1>3, <1>4, <1>5 DEF Own

LEMMA PollStep ==
  ASSUME IInv, NEW c \in Captures, Poll(c)
  PROVE  Frame(c) /\ Own(c)'
<1>1. /\ TypeOK /\ Own(c) /\ CtrlInv(c) /\ exit[c] = "run" /\ Now(c).op = "poll"
      /\ UNCHANGED <<line, name, work, files, jvm, hushed>>
  BY DEF IInv, Own, Poll, At
<1>2. Frame(c)
  BY <1>1 DEF Poll, Advance, Frame, Gentle, TypeOK
<1>3. CASE UNCHANGED <<pc, exit>>
  BY <1>1, <1>2, <1>3, StayedOn
<1>4. CASE Advance(c)
  <2>1. \A s \in Steps \ {"jfr"} : jvm'[c][s] = "idle"
    BY <1>1, JvmIdle DEF At
  <2>2. \A s : ~Fetched(c, s) /\ (DoneNow(c, s) <=> Done(c, s))
    BY <1>1 DEF Fetched, DoneNow, Delivers, At
  <2>3. ASSUME ~hushed PROVE Moved(c)
    BY <1>1, <2>2, <2>3, Elsewhere DEF Moved, Own, WorkInv, DirInv
  <2> QED BY <1>1, <1>2, <1>4, <2>1, <2>3, WentOn
<1> QED BY <1>3, <1>4 DEF Poll

\* A dump starts only where there is no file: nobody else's is disturbed.
LEMMA DumpStep ==
  ASSUME IInv, NEW c \in Captures, Dump(c)
  PROVE  Frame(c) /\ Own(c)'
<1>1. /\ TypeOK /\ Own(c) /\ CtrlInv(c) /\ exit[c] = "run" /\ Now(c).op = "dump"
      /\ UNCHANGED <<line, name, polls, work>> /\ c # "nobody" /\ jvm[c][Step(c)] = "idle"
  BY CapturesAssumption DEF IInv, Own, Dump, At
<1>2. Step(c) \in Steps \ {"jfr"} /\ Step(c) \in JvmSteps
  BY <1>1, CurrentCommand DEF Placed, Step, Now, JvmSteps
<1>3. \A s \in Steps \ {"jfr"} : jvm[c][s] = "idle"
  BY <1>1, JvmIdle
<1>4. CASE FailSomehow(c) /\ UNCHANGED <<files, jvm>>
  <2>1. Frame(c)
    BY <1>1, <1>4 DEF FailSomehow, Advance, Fail, Frame, Gentle, TypeOK
  <2>2. CASE Fail(c)
    <3>1. exit'[c] = "nonzero"
      BY <1>1, <2>2 DEF Fail, TypeOK
    <3> QED BY <1>1, <1>4, <2>1, <3>1, Ended
  <2>3. CASE Advance(c) /\ hushed' = TRUE
    BY <1>1, <1>3, <1>4, <2>1, <2>3, WentOn
  <2> QED BY <1>4, <2>2, <2>3 DEF FailSomehow
<1>5. CASE /\ Seen(c) = NoFile
           /\ files' = [files EXCEPT ![name[c]][Step(c)] = [by |-> c, whole |-> FALSE]]
           /\ jvm' = [jvm EXCEPT ![c][Step(c)] = "writing"]
           /\ UNCHANGED <<pc, exit, hushed>>
  <2>1. /\ name[c] \in Names /\ files[name[c]][Step(c)].by = "nobody"
        /\ files'[name[c]][Step(c)].by = c
        /\ \A s \in Steps : s # Step(c) => files'[name[c]][s] = files[name[c]][s]
        /\ \A n \in Names : n # name[c] => files'[n] = files[n]
    BY <1>1, <1>2, <1>5 DEF TypeOK, Seen, NoFile
  <2>2. \A d \in Captures \ {c} : jvm'[d] = jvm[d]
    BY <1>5 DEF TypeOK
  <2>3. Frame(c)
    BY <1>1, <1>5, <2>1, <2>2 DEF Frame, Gentle
  <2>4. /\ \A op : At(c, op)' <=> At(c, op)
        /\ Step(c)' = Step(c)
        /\ \A s : Fetching(c, s)' <=> Fetching(c, s)
        /\ \A s : Done(c, s)' <=> Done(c, s)
        /\ Streamed(line[c])' <=> Streamed(line[c])
    BY <1>1, <1>5, SamePlace
  <2>5. /\ \A s : ~Fetching(c, s)
        /\ \A s \in Steps : Dumping(c, s)' <=> s = Step(c)
        /\ \A s \in Steps : ~Dumping(c, s)
    BY <1>1, <1>2, <1>3, <1>5, <2>4 DEF Fetching, Dumping, At, TypeOK
  <2>6. CtrlInv(c)'
    BY <1>1, <1>5, <2>4 DEF CtrlInv
  <2>7. JvmInv(c)'
    <3>1. At(c, "dump")
      BY <1>1 DEF At
    <3>2. /\ jvm'[c][Step(c)] = "writing"
          /\ \A s \in Steps : s # Step(c) => jvm'[c][s] = jvm[c][s]
      BY <1>1, <1>2, <1>5 DEF TypeOK
    <3> QED BY <1>1, <1>2, <1>5, <2>4, <3>1, <3>2 DEF JvmInv, Own
  <2>8. ASSUME ~hushed PROVE LockInv(c)' /\ CleanInv(c)' /\ WorkInv(c)' /\ DirInv(c)'
    <3>1. LockInv(c) /\ CleanInv(c) /\ WorkInv(c) /\ DirInv(c)
      BY <1>1, <2>8 DEF Own
    <3>2. Streamed(line[c]) => name[c] = "pod"
      BY <1>1, PodName
    <3>3. LockInv(c)'
      BY <2>1, <2>4, <2>5, <3>2 DEF LockInv
    <3>4. CleanInv(c)'
      BY <1>1, <1>5, <2>1, <2>4, <2>5, <3>1, <3>2 DEF CleanInv
    <3>5. WorkInv(c)'
      BY <1>1, <1>5, <2>4, <3>1 DEF WorkInv
    <3>6. DirInv(c)'
      <4>1. OwnName(c)' <=> OwnName(c)
        BY <1>1 DEF OwnName, Streamed
      <4> SUFFICES ASSUME ~Streamed(line[c]), OwnName(c), NEW s \in Steps \ {"jfr"}
                   PROVE  /\ Done(c, s) => files'[name[c]][s] = [by |-> c, whole |-> TRUE]
                          /\ Dumping(c, s)' => files'[name[c]][s].by = c
        BY <1>1, <1>5, <2>4, <4>1 DEF DirInv
      <4>2. Done(c, s) => files[name[c]][s] = [by |-> c, whole |-> TRUE]
        BY <1>1, <3>1 DEF DirInv
      <4>3. Done(c, s) => s # Step(c)
        BY <1>1, <2>1, <4>2
      <4> QED BY <2>1, <2>5, <4>2, <4>3
    <3> QED BY <3>3, <3>4, <3>5, <3>6
  <2> QED BY <1>5, <2>3, <2>6, <2>7, <2>8 DEF Own
<1> QED BY <1>4, <1>5 DEF Dump

\* What is copied out is the capture's own dump, whole.
LEMMA CopyOutStep ==
  ASSUME IInv, NEW c \in Captures, CopyOut(c)
  PROVE  Frame(c) /\ Own(c)'
<1>1. /\ TypeOK /\ Own(c) /\ CtrlInv(c) /\ exit[c] = "run" /\ Now(c).op \in {"copy", "scrub"}
      /\ UNCHANGED <<line, name, polls, jvm, hushed>> /\ c # "nobody"
  BY CapturesAssumption DEF IInv, Own, CopyOut, At
<1>2. /\ Step(c) \in Steps /\ Streamed(line[c])
      /\ Now(c).op = "scrub" => Step(c) = "jfr"
  BY <1>1, CurrentCommand DEF Placed, Step, Now
<1>3. name[c] = "pod" /\ files' = files
  BY <1>1, <1>2, PodName DEF CopyOut, Into
<1>4. Frame(c)
  BY <1>1, <1>2, <1>3 DEF CopyOut, Into, Advance, Fail, Frame, Gentle, TypeOK
<1>5. CASE Fail(c)
  <2>1. exit'[c] = "nonzero"
    BY <1>1, <1>5 DEF Fail, TypeOK
  <2> QED BY <1>1, <1>4, <2>1, Ended
<1>6. CASE Seen(c) # NoFile /\ Into(c, Seen(c)) /\ Advance(c)
  <2>1. \A s \in Steps \ {"jfr"} : jvm'[c][s] = "idle"
    BY <1>1, JvmIdle DEF At
  <2>2. /\ \A s \in Steps : s # Step(c) => work'[c][s] = work[c][s]
        /\ work'[c][Step(c)] = files["pod"][Step(c)] /\ files["pod"][Step(c)] # NoFile
    BY <1>1, <1>2, <1>3, <1>6 DEF Into, Seen, TypeOK
  <2>3. \A s : DoneNow(c, s) <=> Done(c, s) \/ Step(c) = s
    BY <1>1, <1>2 DEF DoneNow, Delivers
  <2>4. \A s \in Steps \ {"jfr"} :
          /\ Fetched(c, s) <=> Step(c) = s
          /\ Fetching(c, s) <=> Step(c) = s
          /\ ~Dumping(c, s)
    BY <1>1, <1>2 DEF Fetched, Fetching, Dumping, At
  <2>5. ASSUME ~hushed PROVE Moved(c)
    <3>1. LockInv(c) /\ CleanInv(c) /\ WorkInv(c)
      BY <1>1, <2>5 DEF Own
    <3>2. Step(c) # "jfr" => files["pod"][Step(c)] = [by |-> c, whole |-> TRUE]
      BY <1>2, <2>4, <3>1 DEF LockInv
    <3>3. \A s \in Steps \ {"jfr"} : files["pod"][s].by = c => Step(c) = s
      BY <1>1, <1>2, <2>4, <3>1 DEF CleanInv
    <3>4. ASSUME NEW s \in Steps
          PROVE  /\ work'[c][s] # NoFile <=> DoneNow(c, s)
                 /\ s # "jfr" /\ DoneNow(c, s) => work'[c][s] = [by |-> c, whole |-> TRUE]
      <4>1. CASE s = Step(c)
        BY <2>2, <2>3, <3>2, <4>1
      <4>2. CASE s # Step(c)
        BY <1>1, <1>2, <2>2, <2>3, <3>1, <4>2 DEF WorkInv
      <4> QED BY <4>1, <4>2
    <3> QED BY <1>2, <1>3, <2>4, <3>2, <3>3, <3>4 DEF Moved
  <2> QED BY <1>1, <1>4, <1>6, <2>1, <2>5, WentOn
<1> QED BY <1>5, <1>6 DEF CopyOut

\* A script removes its own dump and no other.
LEMMA RemoveFileStep ==
  ASSUME IInv, NEW c \in Captures, RemoveFile(c)
  PROVE  Frame(c) /\ Own(c)'
<1>1. /\ TypeOK /\ Own(c) /\ CtrlInv(c) /\ exit[c] = "run" /\ Now(c).op = "remove"
      /\ UNCHANGED <<line, name, polls, work, jvm, hushed>> /\ c # "nobody"
  BY CapturesAssumption DEF IInv, Own, RemoveFile, At
<1>2. Step(c) \in Steps /\ Streamed(line[c])
  BY <1>1, CurrentCommand DEF Placed, Step, Now
<1>3. name[c] = "pod"
  BY <1>1, <1>2, PodName
<1>4. \A s \in Steps \ {"jfr"} : Fetching(c, s) <=> Step(c) = s
  BY <1>1 DEF Fetching, At
<1>5. ASSUME ~hushed PROVE Step(c) # "jfr" => files["pod"][Step(c)].by = c
  <2>1. Step(c) # "jfr" => files["pod"][Step(c)] = [by |-> c, whole |-> TRUE]
    BY <1>1, <1>2, <1>4, <1>5 DEF Own, LockInv
  <2> QED BY <2>1
<1>6. \/ files' = files
      \/ /\ Advance(c) /\ files'["pod"][Step(c)] = NoFile
         /\ \A s \in Steps : s # Step(c) => files'["pod"][s] = files["pod"][s]
         /\ \A n \in Names : n # name[c] => files'[n] = files[n]
  BY <1>1, <1>2, <1>3 DEF RemoveFile, TypeOK
<1>7. Frame(c)
  <2>1. ASSUME ~hushed PROVE Gentle(c)
    BY <1>3, <1>5, <1>6, <2>1 DEF Gentle, NoFile
  <2> QED BY <1>1, <2>1 DEF RemoveFile, Advance, Fail, Frame, TypeOK
<1>8. CASE Fail(c) /\ UNCHANGED files
  <2>1. exit'[c] = "nonzero"
    BY <1>1, <1>8 DEF Fail, TypeOK
  <2> QED BY <1>1, <1>7, <2>1, Ended
<1>9. CASE Advance(c) /\ files' = [files EXCEPT ![name[c]][Step(c)] = NoFile]
  <2>1. \A s \in Steps \ {"jfr"} : jvm'[c][s] = "idle"
    BY <1>1, JvmIdle DEF At
  <2>2. \A s : ~Fetched(c, s) /\ (DoneNow(c, s) <=> Done(c, s))
    BY <1>1 DEF Fetched, DoneNow, Delivers, At
  <2>3. \A s \in Steps \ {"jfr"} : ~Dumping(c, s)
    BY <1>1 DEF Dumping, At
  <2>4. /\ files'["pod"][Step(c)].by = "nobody"
        /\ \A s \in Steps : s # Step(c) => files'["pod"][s] = files["pod"][s]
    BY <1>1, <1>2, <1>3, <1>9 DEF TypeOK, NoFile, Names
  <2>5. ASSUME ~hushed PROVE Moved(c)
    <3>1. \A s \in Steps \ {"jfr"} : files'["pod"][s].by # c
      BY <1>1, <1>2, <1>4, <2>3, <2>4, <2>5 DEF Own, CleanInv
    <3> QED BY <1>1, <1>2, <2>2, <2>5, <3>1 DEF Moved, Own, WorkInv
  <2> QED BY <1>1, <1>7, <1>9, <2>1, <2>5, WentOn
<1> QED BY <1>8, <1>9 DEF RemoveFile

\* The command line is read.
LEMMA BeginStep ==
  ASSUME IInv, TypeOK', NEW c \in Captures, Begin(c)
  PROVE  Frame(c) /\ Own(c)'
<1>1. PICK l \in Lines, n \in Names :
        /\ n = "pod" <=> Streamed(l) \/ Refused(l)
        /\ line' = [line EXCEPT ![c] = l] /\ name' = [name EXCEPT ![c] = n]
        /\ exit' = [exit EXCEPT ![c] = IF Refused(l) THEN "refused" ELSE "run"]
  BY DEF Begin
<1>2. /\ TypeOK /\ Own(c) /\ exit[c] = "idle" /\ c # "nobody"
      /\ UNCHANGED <<pc, polls, work, files, jvm, hushed>>
  BY CapturesAssumption DEF IInv, Begin
<1>3. /\ line'[c] = l /\ name'[c] = n /\ exit'[c] = IF Refused(l) THEN "refused" ELSE "run"
      /\ pc'[c] = 1 /\ name[c] = "pod" /\ line[c] = NoLine
      /\ \A s \in Steps : work'[c][s] = NoFile /\ jvm'[c][s] = "idle"
  BY <1>1, <1>2 DEF TypeOK, Own, CtrlInv
<1>4. Frame(c)
  BY <1>1, <1>2, <1>3 DEF Frame, Gentle, TypeOK
<1>5. Scripts'[l] = Scripts[l] /\ Len(Scripts[l]) >= 2 /\ Len(Scripts[l]) \in Nat
      /\ \A j \in 1..Len(Scripts[l]) : Placed(l, Asked(l), Scripts[l], j)
  BY ScriptStretch DEF Known, Stretch
<1>6. Streamed(line[c])' <=> Streamed(l)
  BY <1>3 DEF Streamed
<1>7. CtrlInv(c)'
  BY <1>1, <1>3, <1>5, <1>6 DEF CtrlInv
<1>8. JvmInv(c)'
  BY <1>3 DEF JvmInv
<1>9. /\ \A s \in Steps : ~Dumping(c, s)'
      /\ \A s \in Steps : ~Done(c, s)'
      /\ \A s \in Steps \ {"jfr"} : ~Fetching(c, s)'
  <2>1. \A s \in Steps : ~Dumping(c, s)'
    BY <1>3 DEF Dumping
  <2>2. \A s \in Steps : ~Done(c, s)'
    BY <1>3, <1>5 DEF Done
  <2>3. ASSUME NEW s \in Steps \ {"jfr"}, Fetching(c, s)' PROVE FALSE
    <3>1. Scripts[l][1].op \in {"copy", "remove"} /\ Scripts[l][1].step = s
      BY <1>3, <2>3 DEF Fetching, At, Step, Now
    <3>2. Placed(l, Asked(l), Scripts[l], 1)
      BY <1>5
    <3> QED BY <3>1, <3>2 DEF Placed
  <2> QED BY <2>1, <2>2, <2>3
<1>10. ASSUME ~hushed PROVE LockInv(c)' /\ CleanInv(c)' /\ WorkInv(c)' /\ DirInv(c)'
  <2>1. \A s \in Steps \ {"jfr"} : files["pod"][s].by # c
    <3>1. CleanInv(c) /\ Streamed(line[c])
      BY <1>2, <1>3, <1>10, PodName DEF Own
    <3> QED BY <1>2, <3>1 DEF CleanInv, Dumping, Fetching, At
  <2>2. LockInv(c)'
    BY <1>9 DEF LockInv
  <2>3. CleanInv(c)'
    BY <1>2, <2>1 DEF CleanInv
  <2>4. WorkInv(c)'
    BY <1>3, <1>9 DEF WorkInv
  <2>5. DirInv(c)'
    BY <1>9 DEF DirInv
  <2> QED BY <2>2, <2>3, <2>4, <2>5
<1> QED BY <1>2, <1>4, <1>7, <1>8, <1>10 DEF Own

\* The script is killed.
LEMMA KilledStep ==
  ASSUME IInv, NEW c \in Captures, Killed(c)
  PROVE  Frame(c) /\ Own(c)'
<1>1. /\ TypeOK /\ Own(c) /\ exit[c] = "run" /\ exit'[c] = "killed"
      /\ UNCHANGED <<line, name, pc, polls, work, files, jvm, hushed>>
  BY DEF IInv, Killed, TypeOK
<1>2. Frame(c)
  BY <1>1 DEF Killed, Frame, Gentle, TypeOK
<1> QED BY <1>1, <1>2, Ended

\* The JVM opens a recording's file.
LEMMA JvmOpensStep ==
  ASSUME IInv, NEW c \in Captures, JvmOpens(c)
  PROVE  Frame(c) /\ Own(c)'
<1>1. /\ TypeOK /\ Own(c) /\ jvm[c]["jfr"] = "recording" /\ "jfr" \in Steps
      /\ UNCHANGED <<line, name, pc, exit, polls, work, hushed>>
  BY DEF IInv, JvmOpens, Steps, StepsOf
<1>2. /\ \A n \in Names, s \in Steps : s # "jfr" => files'[n][s] = files[n][s]
      /\ \A n \in Names : n # name[c] => files'[n] = files[n]
  BY <1>1 DEF JvmOpens, TypeOK
<1>3. /\ \A s \in Steps : s # "jfr" => jvm'[c][s] = jvm[c][s]
      /\ \A d \in Captures : d # c => jvm'[d] = jvm[d]
  BY <1>1 DEF JvmOpens, TypeOK
<1>4. Frame(c)
  BY <1>1, <1>2, <1>3 DEF Frame, Gentle, Names
<1>5. exit[c] # "idle"
  BY <1>1 DEF Own, CtrlInv
<1> QED BY <1>1, <1>2, <1>3, <1>4, <1>5, StayedOn

\* When the dump is finished the script's file is whole.
LEMMA JvmClosesStep ==
  ASSUME IInv, NEW c \in Captures, NEW s \in Steps, JvmCloses(c, s)
  PROVE  Frame(c) /\ Own(c)'
<1>1. /\ TypeOK /\ Own(c) /\ CtrlInv(c) /\ jvm[c][s] = "writing" /\ c # "nobody"
      /\ UNCHANGED <<line, name, polls, work>> /\ exit[c] # "idle"
  BY CapturesAssumption DEF IInv, Own, CtrlInv, JvmCloses
<1>2. /\ jvm'[c][s] = "idle"
      /\ \A r \in Steps : r # s => jvm'[c][r] = jvm[c][r]
      /\ \A d \in Captures : d # c => jvm'[d] = jvm[d]
  BY <1>1 DEF JvmCloses, TypeOK
<1>3. /\ \A n \in Names : n # name[c] => files'[n] = files[n]
      /\ \A r \in Steps : r # s => files'[name[c]][r] = files[name[c]][r]
      /\ files[name[c]][s].by # c => files'[name[c]][s] = files[name[c]][s]
      /\ files[name[c]][s].by = c => files'[name[c]][s].by = c
      /\ name[c] \in Names
  <2>1. name[c] \in Names /\ files[name[c]][s] \in File \cup {NoFile}
    BY <1>1 DEF TypeOK
  <2>2. CASE UNCHANGED files
    BY <2>1, <2>2
  <2>3. CASE files' = [files EXCEPT ![name[c]][s] =
                         IF @.by # c THEN @ ELSE [@ EXCEPT !.whole = TRUE]]
    <3> DEFINE f == files[name[c]][s]
    <3>1. /\ \A n \in Names : n # name[c] => files'[n] = files[n]
          /\ \A r \in Steps : r # s => files'[name[c]][r] = files[name[c]][r]
          /\ files'[name[c]][s] = IF f.by # c THEN f ELSE [f EXCEPT !.whole = TRUE]
      BY <1>1, <2>1, <2>3 DEF TypeOK
    <3>2. f.by = c => [f EXCEPT !.whole = TRUE].by = c
      BY <1>1, <2>1 DEF File, NoFile
    <3> QED BY <2>1, <3>1, <3>2
  <2> QED BY <2>2, <2>3 DEF JvmCloses
<1>4. \/ (At(c, "dump") /\ Step(c) = s) /\ (Advance(c) \/ Fail(c))
      \/ ~(At(c, "dump") /\ Step(c) = s) /\ UNCHANGED <<pc, exit>>
  BY DEF JvmCloses, FailSomehow
<1>5. Frame(c)
  <2>1. \A d \in Captures \ {c} : pc'[d] = pc[d] /\ exit'[d] = exit[d]
    BY <1>1, <1>4 DEF Advance, Fail, TypeOK
  <2>2. Gentle(c)
    BY <1>1, <1>3 DEF Gentle, Names
  <2>3. ~hushed' => ~hushed
    BY DEF JvmCloses, FailSomehow
  <2> QED BY <1>1, <1>2, <2>1, <2>2, <2>3 DEF Frame
<1>6. CASE At(c, "dump") /\ Step(c) = s
  <2>1. exit[c] = "run" /\ Now(c).op = "dump" /\ s # "jfr"
    <3>1. exit[c] = "run" /\ Now(c).op = "dump"
      BY <1>6 DEF At
    <3> QED BY <1>1, <1>6, <3>1, CurrentCommand DEF Placed, Step, Now
  <2>2. CASE Fail(c)
    <3>1. exit'[c] = "nonzero"
      BY <1>1, <2>2 DEF Fail, TypeOK
    <3> QED BY <1>1, <1>2, <1>5, <2>1, <3>1, Ended
  <2>3. CASE Advance(c)
    <3>1. \A r \in Steps \ {"jfr"} : jvm'[c][r] = "idle"
      BY <1>1, <1>2, <1>6, <2>1, JvmIdle
    <3>2. ASSUME ~hushed' PROVE Moved(c)
      <4>1. /\ ~hushed
            /\ files' = [files EXCEPT ![name[c]][s] =
                           IF @.by # c THEN @ ELSE [@ EXCEPT !.whole = TRUE]]
        <5>1. ~Fail(c)
          BY <1>1, <2>1, <2>3 DEF Fail, Advance, TypeOK
        <5> QED BY <1>6, <3>2, <5>1 DEF JvmCloses, FailSomehow
      <4>2. LockInv(c) /\ CleanInv(c) /\ WorkInv(c) /\ DirInv(c) /\ Dumping(c, s)
        BY <1>1, <1>6, <4>1 DEF Own, Dumping
      <4>3. files[name[c]][s].by = c => files'[name[c]][s] = [by |-> c, whole |-> TRUE]
        <5> DEFINE f == files[name[c]][s]
        <5>1. f \in File \cup {NoFile} /\ name[c] \in Names
          BY <1>1 DEF TypeOK
        <5>2. files'[name[c]][s] = IF f.by # c THEN f ELSE [f EXCEPT !.whole = TRUE]
          BY <1>1, <4>1, <5>1 DEF TypeOK
        <5> QED BY <1>1, <5>1, <5>2 DEF File, NoFile
      <4>4. \A r \in Steps \ {"jfr"} : Fetched(c, r) <=> r = s
        BY <1>6, <2>1 DEF Fetched
      <4>5. CASE Streamed(line[c])
        <5>1. name[c] = "pod" /\ files'["pod"][s] = [by |-> c, whole |-> TRUE]
          BY <1>1, <2>1, <4>2, <4>3, <4>5, PodName DEF LockInv
        <5>2. \A r \in Steps \ {"jfr"} : r # s => files'["pod"][r].by # c
          BY <1>3, <1>6, <2>1, <4>2, <4>5, <5>1 DEF CleanInv, Dumping, Fetching, At
        <5>3. \A r : DoneNow(c, r) <=> Done(c, r)
          BY <2>1, <4>5 DEF DoneNow, Delivers
        <5> QED BY <1>1, <2>1, <4>2, <4>4, <4>5, <5>1, <5>2, <5>3 DEF Moved, WorkInv
      <4>6. CASE ~Streamed(line[c])
        <5>1. \A r : DoneNow(c, r) <=> Done(c, r) \/ r = s
          BY <1>6, <2>1, <4>6 DEF DoneNow, Delivers
        <5> QED BY <1>3, <2>1, <4>2, <4>3, <4>6, <5>1 DEF Moved, DirInv
      <4> QED BY <4>5, <4>6
    <3> QED BY <1>1, <1>5, <2>1, <2>3, <3>1, <3>2, WentOn
  <2> QED BY <1>4, <1>6, <2>2, <2>3
<1>7. CASE ~(At(c, "dump") /\ Step(c) = s)
  <2>1. UNCHANGED <<pc, exit, hushed>>
    BY <1>7 DEF JvmCloses
  <2>2. CASE s = "jfr"
    BY <1>1, <1>2, <1>3, <1>5, <2>1, <2>2, StayedOn
  <2>3. CASE s # "jfr"
    <3>1. exit[c] \notin {"idle", "run", "zero"}
      BY <1>1, <1>7, <2>3 DEF Own, JvmInv
    <3>2. CtrlInv(c)'
      BY <1>1, <2>1, <3>1 DEF CtrlInv, Streamed
    <3>3. JvmInv(c)'
      BY <1>1, <1>2, <2>1, <3>1 DEF Own, JvmInv
    <3>4. \A op : ~At(c, op)'
      BY <2>1, <3>1 DEF At
    <3>5. LockInv(c)' /\ CleanInv(c)' /\ WorkInv(c)' /\ DirInv(c)'
      BY <2>1, <3>1, <3>4 DEF LockInv, CleanInv, WorkInv, DirInv, Dumping, Fetching
    <3> QED BY <1>5, <3>2, <3>3, <3>5 DEF Own
  <2> QED BY <2>2, <2>3
<1> QED BY <1>6, <1>7

\* At the start no capture has a script or a file.
THEOREM InitOwn ==
  ASSUME Init
  PROVE  IInv
<1>1. /\ \A c \in Captures : /\ line[c] = NoLine /\ name[c] = "pod" /\ exit[c] = "idle" /\ pc[c] = 1
                             /\ \A s \in Steps : work[c][s] = NoFile /\ jvm[c][s] = "idle"
      /\ \A s \in Steps : files["pod"][s] = NoFile
  BY DEF Init, Names
<1>2. TypeOK
  <2>1. /\ line \in [Captures -> Lines \cup {NoLine}] /\ name \in [Captures -> Names]
        /\ exit \in [Captures -> {"idle", "refused", "run", "zero", "nonzero", "killed"}]
        /\ pc \in [Captures -> Nat \ {0}] /\ hushed \in BOOLEAN
    <3>1. NoLine \in Lines \cup {NoLine} /\ "pod" \in Names /\ 1 \in Nat \ {0}
      BY DEF Names
    <3>2. line \in [Captures -> Lines \cup {NoLine}] /\ name \in [Captures -> Names]
      BY <3>1 DEF Init
    <3>3. pc \in [Captures -> Nat \ {0}]
      BY <3>1 DEF Init
    <3> QED BY <3>2, <3>3 DEF Init
  <2>4. /\ work \in [Captures -> [Steps -> File \cup {NoFile}]]
        /\ files \in [Names -> [Steps -> File \cup {NoFile}]]
        /\ jvm \in [Captures -> [Steps -> {"idle", "recording", "writing"}]]
    BY DEF Init
  <2>2. polls \in [Captures -> 0..PollLimit]
    BY PollLimitAssumption DEF Init
  <2>3. \A c \in Captures : pc[c] <= Len(Scripts[line[c]]) + 1
    <3>1. NoLine \in Known /\ Len(Scripts[NoLine]) >= 2 /\ Len(Scripts[NoLine]) \in Nat
      BY ScriptStretch DEF Known, Stretch
    <3> QED BY <1>1, <3>1
  <2> QED BY <2>1, <2>2, <2>3, <2>4 DEF TypeOK
<1>3. ASSUME NEW c \in Captures PROVE Own(c)
  <2>1. c # "nobody" /\ \A s \in Steps : files["pod"][s].by # c
    BY <1>1, CapturesAssumption DEF NoFile
  <2>2. Streamed(line[c])
    <3>1. NoLine.dumpDir = ""
      BY ZenonT(30) DEF NoLine
    <3> QED BY <1>1, <3>1 DEF Streamed
  <2>3. CtrlInv(c) /\ JvmInv(c)
    BY <1>1, <2>2 DEF CtrlInv, JvmInv
  <2>4. LockInv(c) /\ CleanInv(c) /\ WorkInv(c) /\ DirInv(c)
    BY <1>1, <1>3, <2>1 DEF LockInv, CleanInv, WorkInv, DirInv, Dumping, Fetching, At
  <2> QED BY <2>3, <2>4 DEF Own
<1> QED BY <1>2, <1>3 DEF IInv

\* Every step of the scripts and of the JVM keeps the invariant.
THEOREM NextOwn ==
  ASSUME IInv, [Next]_vars
  PROVE  IInv'
<1>1. TypeOK'
  BY TypeStep DEF IInv, Own
<1>2. ASSUME NEW c \in Captures, Frame(c) /\ Own(c)' PROVE IInv'
  BY <1>1, <1>2, OthersKeep DEF IInv
<1>3. ASSUME NEW c \in Captures, Begin(c) PROVE IInv'
  BY <1>1, <1>2, <1>3, BeginStep
<1>4. ASSUME NEW c \in Captures, Run(c) PROVE IInv'
  BY <1>2, <1>4, OpenOrCloseStep, WriteOutStep, DumpStep, RecordStep, PollStep, CopyOutStep,
     RemoveFileStep DEF Run
<1>5. ASSUME NEW c \in Captures, Killed(c) PROVE IInv'
  BY <1>2, <1>5, KilledStep
<1>6. ASSUME NEW c \in Captures, JvmOpens(c) PROVE IInv'
  BY <1>2, <1>6, JvmOpensStep
<1>7. ASSUME NEW c \in Captures, NEW s \in Steps, JvmCloses(c, s) PROVE IInv'
  BY <1>2, <1>7, JvmClosesStep
<1>8. CASE UNCHANGED vars
  <2>1. UNCHANGED <<line, name, pc, exit, polls, work, files, jvm, hushed>>
    BY <1>8 DEF vars
  <2>2. ASSUME NEW c \in Captures PROVE Own(c)'
    BY <2>1, StayedOn DEF IInv
  <2> QED BY <1>1, <2>2 DEF IInv
<1> QED BY <1>3, <1>4, <1>5, <1>6, <1>7, <1>8 DEF Next

-----------------------------------------------------------------------------
\* So it holds throughout, for any captures and any command lines.
THEOREM SpecInv == Spec => []IInv
BY InitOwn, NextOwn, PTL DEF Spec

\* The variables keep their types: no script runs past its end, and the wait
\* for a recording is bounded.
THEOREM ScriptTypeOK == Spec => []TypeOK
<1>1. IInv => TypeOK
  BY DEF IInv
<1> QED BY <1>1, SpecInv, PTL

\* A script that is over has delivered every step it was asked for, and no other.
LEMMA OverIsDone ==
  ASSUME IInv, NEW c \in Captures, exit[c] = "zero", NEW s \in Steps
  PROVE  /\ s \in Asked(line[c]) => Done(c, s)
         /\ Done(c, s) => s \in Asked(line[c])
<1> DEFINE l == line[c]
           t == Scripts[line[c]]
<1>1. TypeOK /\ CtrlInv(c) /\ l \in Known
  BY DEF IInv, Own, TypeOK, Known
<1>2. pc[c] = Len(t) + 1 /\ Len(t) \in Nat
  BY <1>1, KnownScript DEF CtrlInv
<1>3. Stretch(l, Asked(l), t)
  BY <1>1, ScriptStretch
<1>4. s \in Asked(l) => Done(c, s)
  BY <1>2, <1>3 DEF Stretch, Done
<1>5. Done(c, s) => s \in Asked(l)
  BY <1>3 DEF Stretch, Done, Placed, Delivers
<1> QED BY <1>4, <1>5

\* A capture that succeeds has delivered what was asked of it, its own and whole.
THEOREM ScriptOkMeansOwn == Spec => []OkMeansOwn
<1>1. ASSUME IInv PROVE OkMeansOwn
  <2> SUFFICES ASSUME NEW c \in Captures, Succeeded(c), ~hushed, OwnName(c)
               PROVE  LET wanted == Asked(line[c]) IN
                        /\ Streamed(line[c]) => {s \in Steps : work[c][s] # NoFile} = wanted
                        /\ \A s \in wanted \ {"jfr"} :
                             Delivered(c)[s] = [by |-> c, whole |-> TRUE]
    BY DEF OkMeansOwn, Asked, Default
  <2>1. TypeOK /\ exit[c] = "zero" /\ WorkInv(c) /\ DirInv(c) /\ Asked(line[c]) \subseteq Steps
    BY <1>1, KnownScript DEF IInv, Own, Succeeded
  <2>2. \A s \in Steps : Done(c, s) <=> s \in Asked(line[c])
    BY <1>1, <2>1, OverIsDone
  <2>3. CASE Streamed(line[c])
    <3>1. \A s \in Steps : work[c][s] # NoFile <=> s \in Asked(line[c])
      BY <2>1, <2>2, <2>3 DEF WorkInv
    <3>2. \A s \in Asked(line[c]) \ {"jfr"} : work[c][s] = [by |-> c, whole |-> TRUE]
      BY <2>1, <2>2, <2>3 DEF WorkInv
    <3>3. {s \in Steps : work[c][s] # NoFile} = Asked(line[c])
      BY <2>1, <3>1
    <3> QED BY <2>3, <3>2, <3>3 DEF Delivered
  <2>4. CASE ~Streamed(line[c])
    BY <2>1, <2>2, <2>4 DEF DirInv, Delivered
  <2> QED BY <2>3, <2>4
<1> QED BY <1>1, SpecInv, PTL

-----------------------------------------------------------------------------
(***************************************************************************)
(* A recording is started once, and its file is the capture's own only     *)
(* from the moment the JVM opens it.  Once the capture has taken it, the   *)
(* next command removes it, and the JVM opens it no second time.           *)
(***************************************************************************)
Recorded(c) ==
  \E i \in 1..Len(Scripts[line[c]]) : i < pc[c] /\ Scripts[line[c]][i].op = "record"

RecInv(c) ==
  Streamed(line[c]) /\ exit[c] \in {"idle", "run", "zero"} =>
    /\ ~Recorded(c) \/ jvm[c]["jfr"] = "recording" =>
         files["pod"]["jfr"].by # c /\ work[c]["jfr"].by # c
    /\ ~Recorded(c) => jvm[c]["jfr"] = "idle"
    /\ work[c]["jfr"].by = c /\ files["pod"]["jfr"].by = c => At(c, "remove") /\ Step(c) = "jfr"

Rec == \A c \in Captures : ~hushed => RecInv(c)

\* A command that ends well moves on to the next, and a recording has then
\* been started if it had been or the command was that.
LEMMA RecordedNext ==
  ASSUME TypeOK, NEW c \in Captures, CtrlInv(c), exit[c] = "run", Advance(c), line'[c] = line[c]
  PROVE  /\ exit'[c] \in {"run", "zero"}
         /\ Recorded(c)' <=> Recorded(c) \/ Now(c).op = "record"
         /\ Now(c).op = "record" => ~Recorded(c)
         /\ Now(c).op \in {"copy", "scrub"} /\ Step(c) = "jfr" =>
              At(c, "remove")' /\ Step(c)' = "jfr"
<1> DEFINE t == Scripts[line[c]]
           i == pc[c]
<1>1. /\ i \in 1..Len(t) /\ Len(t) \in Nat /\ pc'[c] = i + 1
      /\ exit'[c] = IF i = Len(t) THEN "zero" ELSE "run"
      /\ Now(c) = t[i] /\ Step(c) = t[i].step
  BY CurrentCommand, KnownScript DEF Advance, TypeOK, Now, Step
<1>2. Placed(line[c], Asked(line[c]), t, i) /\ RecordsOnce(t)
  BY <1>1, KnownScript, ScriptStretch DEF Stretch
<1>3. Recorded(c)' <=> Recorded(c) \/ Now(c).op = "record"
  <2>1. \A j \in 1..Len(t) : j < i + 1 <=> j < i \/ j = i
    BY <1>1
  <2> QED BY <1>1, <2>1 DEF Recorded
<1>4. Now(c).op = "record" => ~Recorded(c)
  <2>1. \A j \in 1..Len(t) : j < i => j # i
    BY <1>1
  <2> QED BY <1>1, <1>2, <2>1 DEF Recorded, RecordsOnce
<1>5. Now(c).op \in {"copy", "scrub"} /\ Step(c) = "jfr" => At(c, "remove")' /\ Step(c)' = "jfr"
  <2> SUFFICES ASSUME Now(c).op \in {"copy", "scrub"}, Step(c) = "jfr"
               PROVE  At(c, "remove")' /\ Step(c)' = "jfr"
    OBVIOUS
  <2>1. i + 1 <= Len(t) /\ t[i + 1] = Cmd("remove", "jfr")
    BY <1>1, <1>2 DEF Placed
  <2>2. exit'[c] = "run"
    BY <1>1, <2>1
  <2> QED BY <1>1, <2>1, <2>2 DEF At, Step, Now, Cmd
<1> QED BY <1>1, <1>3, <1>4, <1>5

\* What leaves a capture's own state as it is, and makes no file its own.
LEMMA RecStays ==
  ASSUME NEW c \in Captures, RecInv(c), line'[c] = line[c], pc'[c] = pc[c], exit'[c] = exit[c],
         work'[c] = work[c],
         \/ jvm'[c]["jfr"] = jvm[c]["jfr"]
         \/ jvm[c]["jfr"] = "writing" /\ jvm'[c]["jfr"] = "idle",
         files'["pod"]["jfr"].by = c => files["pod"]["jfr"].by = c
  PROVE  RecInv(c)'
<1>1. /\ At(c, "remove")' <=> At(c, "remove")
      /\ Step(c)' = Step(c) /\ Recorded(c)' <=> Recorded(c)
      /\ Streamed(line[c])' <=> Streamed(line[c])
  BY SamePlace DEF Recorded
<1> QED BY <1>1 DEF RecInv

\* A command of the capture's own that ends well.
LEMMA RecWentOn ==
  ASSUME TypeOK, NEW c \in Captures, CtrlInv(c), RecInv(c), exit[c] = "run", Advance(c),
         line'[c] = line[c], work'[c]["jfr"] = work[c]["jfr"],
         jvm'[c]["jfr"] = jvm[c]["jfr"],
         Now(c).op # "record",
         files'["pod"]["jfr"].by = c =>
           files["pod"]["jfr"].by = c /\ ~(At(c, "remove") /\ Step(c) = "jfr")
  PROVE  RecInv(c)'
<1>1. Recorded(c)' <=> Recorded(c)
  BY RecordedNext
<1>2. Streamed(line[c])' <=> Streamed(line[c])
  BY DEF Streamed
<1> QED BY <1>1, <1>2 DEF RecInv

\* A capture that is cut off is out of the question.
LEMMA RecEnded ==
  ASSUME NEW c, exit'[c] \in {"refused", "nonzero", "killed"}
  PROVE  RecInv(c)'
BY DEF RecInv

\* What a step of one capture does to the recording of another: at most it
\* replaces the file.
LEMMA RecOthers ==
  ASSUME IInv, Rec, ~hushed', NEW c \in Captures, Frame(c), NEW d \in Captures \ {c},
         files'["pod"]["jfr"].by = d => files["pod"]["jfr"].by = d
  PROVE  RecInv(d)'
<1>1. ~hushed /\ RecInv(d)
  BY DEF Frame, Rec
<1>2. /\ line'[d] = line[d] /\ pc'[d] = pc[d] /\ exit'[d] = exit[d]
      /\ work'[d] = work[d] /\ jvm'[d] = jvm[d]
  BY DEF Frame
<1> QED BY <1>1, <1>2, RecStays

\* Every command keeps it.
LEMMA RecRun ==
  ASSUME IInv, Rec, NEW c \in Captures, Run(c), ~hushed'
  PROVE  /\ RecInv(c)'
         /\ \A d \in Captures \ {c} : files'["pod"]["jfr"].by = d => files["pod"]["jfr"].by = d
<1>1. /\ TypeOK /\ CtrlInv(c) /\ c # "nobody" /\ exit[c] = "run" /\ "jfr" \in Steps /\ "pod" \in Names
      /\ UNCHANGED <<line, name>> /\ ~hushed /\ RecInv(c)
      /\ name[c] = "pod" <=> Streamed(line[c])
  <2>1. exit[c] = "run" /\ UNCHANGED <<line, name>> /\ ~hushed
    BY DEF Run, OpenOrClose, WriteOut, Dump, Record, Poll, CopyOut, RemoveFile, FailSomehow, At
  <2> QED BY <2>1, CapturesAssumption DEF IInv, Own, CtrlInv, Rec, Steps, StepsOf, Names
<1>2. /\ files \in [Names -> [Steps -> File \cup {NoFile}]]
      /\ work \in [Captures -> [Steps -> File \cup {NoFile}]]
      /\ jvm \in [Captures -> [Steps -> {"idle", "recording", "writing"}]]
      /\ exit \in [Captures -> {"idle", "refused", "run", "zero", "nonzero", "killed"}]
  BY <1>1 DEF TypeOK
<1>3. ASSUME Fail(c) PROVE RecInv(c)'
  <2>1. exit'[c] = "nonzero"
    BY <1>2, <1>3 DEF Fail
  <2> QED BY <2>1, RecEnded
<1>4. CASE OpenOrClose(c) \/ Poll(c)
  <2>1. UNCHANGED <<work, files, jvm>> /\ Now(c).op \in {"open", "close", "poll"}
    BY <1>4 DEF OpenOrClose, Poll, At
  <2>2. Advance(c) \/ Fail(c) \/ UNCHANGED <<pc, exit>>
    BY <1>4 DEF OpenOrClose, Poll
  <2>3. CASE Advance(c)
    BY <1>1, <2>1, <2>3, RecWentOn DEF At
  <2>4. CASE UNCHANGED <<pc, exit>>
    BY <1>1, <2>1, <2>4, RecStays
  <2> QED BY <1>3, <2>1, <2>2, <2>3, <2>4
<1>5. CASE WriteOut(c)
  <2>1. PICK whole \in BOOLEAN : /\ Into(c, [by |-> c, whole |-> whole])
                                 /\ IF whole THEN Advance(c) ELSE Fail(c)
    BY <1>5 DEF WriteOut
  <2>2. /\ exit[c] = "run" /\ Now(c).op = "write" /\ UNCHANGED jvm
    BY <1>5 DEF WriteOut, At
  <2>3. Step(c) # "jfr" /\ Step(c) \in Steps
    BY <1>1, <2>2, CurrentCommand DEF Placed, Step, Now
  <2>4. files'["pod"]["jfr"] = files["pod"]["jfr"] /\ work'[c]["jfr"] = work[c]["jfr"]
    BY <1>1, <1>2, <2>1, <2>3 DEF Into
  <2>5. CASE Advance(c)
    BY <1>1, <2>2, <2>4, <2>5, RecWentOn DEF At
  <2> QED BY <1>3, <2>1, <2>4, <2>5
<1>6. CASE Dump(c)
  <2>1. exit[c] = "run" /\ Now(c).op = "dump" /\ UNCHANGED work
    BY <1>6 DEF Dump, At
  <2>2. Step(c) # "jfr" /\ Step(c) \in Steps
    BY <1>1, <2>1, CurrentCommand DEF Placed, Step, Now
  <2>3. files'["pod"]["jfr"] = files["pod"]["jfr"] /\ jvm'[c]["jfr"] = jvm[c]["jfr"]
    BY <1>1, <1>2, <1>6, <2>2 DEF Dump
  <2>4. Fail(c) \/ UNCHANGED <<pc, exit>>
    BY <1>6 DEF Dump, FailSomehow
  <2> QED BY <1>1, <1>3, <2>1, <2>3, <2>4, RecStays
<1>7. CASE Record(c)
  <2>1. exit[c] = "run" /\ Now(c).op = "record" /\ UNCHANGED <<work, files>>
    BY <1>7 DEF Record, At
  <2>2. Fail(c) \/ Advance(c)
    BY <1>7 DEF Record, FailSomehow
  <2>3. CASE Advance(c)
    <3>1. Recorded(c)' /\ ~Recorded(c)
      BY <1>1, <2>1, <2>3, RecordedNext
    <3>2. Streamed(line[c])' <=> Streamed(line[c])
      BY <1>1 DEF Streamed
    <3> QED BY <1>1, <2>1, <3>1, <3>2 DEF RecInv
  <2> QED BY <1>3, <2>1, <2>2, <2>3
<1>8. CASE CopyOut(c)
  <2>1. exit[c] = "run" /\ Now(c).op \in {"copy", "scrub"} /\ UNCHANGED jvm
    BY <1>8 DEF CopyOut, At
  <2>2. Streamed(line[c]) /\ Step(c) \in Steps
    BY <1>1, <2>1, CurrentCommand DEF Placed, Step, Now
  <2>3. files' = files /\ name[c] = "pod"
    BY <1>1, <1>8, <2>2 DEF CopyOut, Into
  <2>4. CASE Advance(c) /\ Into(c, Seen(c))
    <3>1. CASE Step(c) # "jfr"
      <4>1. work'[c]["jfr"] = work[c]["jfr"]
        BY <1>1, <1>2, <2>2, <2>4, <3>1 DEF Into
      <4> QED BY <1>1, <2>1, <2>3, <2>4, <3>1, <4>1, RecWentOn
    <3>2. CASE Step(c) = "jfr"
      <4>1. work'[c]["jfr"] = files["pod"]["jfr"]
        BY <1>1, <1>2, <2>2, <2>3, <2>4, <3>2 DEF Into, Seen
      <4>2. /\ Recorded(c)' <=> Recorded(c)
            /\ At(c, "remove")' /\ Step(c)' = "jfr"
        BY <1>1, <2>1, <2>4, <3>2, RecordedNext
      <4> QED BY <1>1, <2>1, <2>2, <2>3, <4>1, <4>2 DEF RecInv
    <3> QED BY <3>1, <3>2
  <2> QED BY <1>3, <1>8, <2>3, <2>4 DEF CopyOut
<1>9. CASE RemoveFile(c)
  <2>1. exit[c] = "run" /\ At(c, "remove") /\ Now(c).op = "remove" /\ UNCHANGED <<work, jvm>>
    BY <1>9 DEF RemoveFile, At
  <2>2. Streamed(line[c]) /\ Step(c) \in Steps
    BY <1>1, <2>1, CurrentCommand DEF Placed, Step, Now
  <2>3. CASE Advance(c) /\ files' = [files EXCEPT ![name[c]][Step(c)] = NoFile]
    <3>1. files'["pod"]["jfr"] =
            IF Step(c) = "jfr" THEN NoFile ELSE files["pod"]["jfr"]
      BY <1>1, <1>2, <2>2, <2>3
    <3>2. NoFile.by = "nobody"
      BY DEF NoFile
    <3>3. RecInv(c)'
      BY <1>1, <2>1, <2>3, <3>1, <3>2, RecWentOn
    <3> QED BY <3>1, <3>2, <3>3, CapturesAssumption
  <2> QED BY <1>3, <1>9, <2>3 DEF RemoveFile
<1> QED BY <1>4, <1>5, <1>6, <1>7, <1>8, <1>9 DEF Run

LEMMA RecInit == Init => Rec
<1> SUFFICES ASSUME Init, NEW c \in Captures PROVE RecInv(c) BY DEF Rec
<1>1. "jfr" \in Steps /\ "pod" \in Names /\ c # "nobody" /\ NoFile.by = "nobody"
  BY CapturesAssumption DEF Steps, StepsOf, Names, NoFile
<1>2. jvm[c]["jfr"] = "idle" /\ work[c]["jfr"] = NoFile /\ files["pod"]["jfr"] = NoFile
  BY <1>1 DEF Init
<1> QED BY <1>1, <1>2 DEF RecInv

\* So does every step.
LEMMA RecNext == IInv /\ Rec /\ [Next]_vars => Rec'
<1> SUFFICES ASSUME IInv, Rec, [Next]_vars, ~hushed', NEW d \in Captures PROVE RecInv(d)'
  BY DEF Rec
<1>0. /\ TypeOK /\ "jfr" \in Steps /\ "pod" \in Names /\ TypeOK'
      /\ \A c \in Captures : c # "nobody" /\ CtrlInv(c) /\ JvmInv(c)
  BY NextOwn, CapturesAssumption DEF IInv, Own, Steps, StepsOf, Names
<1>1. /\ files \in [Names -> [Steps -> File \cup {NoFile}]]
      /\ work \in [Captures -> [Steps -> File \cup {NoFile}]]
      /\ jvm \in [Captures -> [Steps -> {"idle", "recording", "writing"}]]
      /\ exit \in [Captures -> {"idle", "refused", "run", "zero", "nonzero", "killed"}]
  BY <1>0 DEF TypeOK
<1>2. ASSUME NEW c \in Captures, Begin(c) PROVE RecInv(d)'
  <2>1. Frame(c) /\ UNCHANGED <<pc, work, files, jvm, hushed>>
    BY <1>0, <1>2, BeginStep DEF Begin
  <2>2. CASE d = c
    <3>1. exit[c] = "idle" /\ pc[c] = 1 /\ line[c] = NoLine /\ name[c] = "pod"
      BY <1>0, <1>2 DEF Begin, CtrlInv
    <3>2. Streamed(line[c]) /\ pc'[c] = 1
      BY <1>0, <2>1, <3>1 DEF CtrlInv
    <3>3. ~Recorded(c) /\ ~Recorded(c)'
      <4>1. line[c] \in Known /\ line'[c] \in Known
        BY <1>0 DEF TypeOK, Known
      <4>2. \A l \in Known : Len(Scripts[l]) \in Nat
        BY ScriptStretch DEF Stretch
      <4>3. \A i \in 1..Len(Scripts[line[c]]) : ~(i < 1)
        BY <4>1, <4>2
      <4>4. \A i \in 1..Len(Scripts[line'[c]]) : ~(i < 1)
        BY <4>1, <4>2
      <4> QED BY <3>1, <3>2, <4>3, <4>4 DEF Recorded
    <3>4. ~hushed /\ RecInv(c)
      BY <2>1 DEF Rec
    <3> QED BY <2>1, <2>2, <3>1, <3>2, <3>3, <3>4 DEF RecInv, At
  <2> QED BY <2>1, <2>2, RecOthers
<1>3. ASSUME NEW c \in Captures, Run(c) PROVE RecInv(d)'
  <2>1. Frame(c)
    BY <1>3, OpenOrCloseStep, WriteOutStep, DumpStep, RecordStep, PollStep, CopyOutStep,
       RemoveFileStep DEF Run
  <2>2. CASE d = c
    BY <1>3, <2>2, RecRun
  <2>3. CASE d # c
    BY <1>3, <2>1, <2>3, RecRun, RecOthers
  <2> QED BY <2>2, <2>3
<1>4. ASSUME NEW c \in Captures, Killed(c) PROVE RecInv(d)'
  <2>1. Frame(c) /\ files' = files /\ exit'[c] = "killed"
    BY <1>1, <1>4, KilledStep DEF Killed
  <2> QED BY <2>1, RecEnded, RecOthers
<1>5. ASSUME NEW c \in Captures, JvmOpens(c) PROVE RecInv(d)'
  <2>1. Frame(c)
    BY <1>5, JvmOpensStep
  <2>2. /\ jvm[c]["jfr"] = "recording" /\ UNCHANGED <<line, name, pc, exit, work, hushed>>
        /\ jvm'[c]["jfr"] = "writing"
        /\ files'["pod"]["jfr"] = files["pod"]["jfr"] \/ files'["pod"]["jfr"].by = c
    BY <1>0, <1>1, <1>5 DEF JvmOpens
  <2>3. CASE d = c
    <3>1. RecInv(c) /\ (Recorded(c)' <=> Recorded(c)) /\ (Streamed(line[c])' <=> Streamed(line[c]))
      BY <2>2 DEF Rec, Recorded, Streamed
    <3> QED BY <2>2, <2>3, <3>1 DEF RecInv
  <2>4. CASE d # c
    BY <2>1, <2>2, <2>4, RecOthers
  <2> QED BY <2>3, <2>4
<1>6. ASSUME NEW c \in Captures, NEW s \in Steps, JvmCloses(c, s) PROVE RecInv(d)'
  <2>1. Frame(c)
    BY <1>6, JvmClosesStep
  <2>2. files'["pod"]["jfr"].by = files["pod"]["jfr"].by
    <3>1. CASE UNCHANGED files
      BY <3>1
    <3>2. CASE files' = [files EXCEPT ![name[c]][s] =
                           IF @.by # c THEN @ ELSE [@ EXCEPT !.whole = TRUE]]
      <4> DEFINE f == files[name[c]][s]
                 g == IF f.by # c THEN f ELSE [f EXCEPT !.whole = TRUE]
      <4>1. name[c] \in Names /\ f \in File \cup {NoFile}
        BY <1>0, <1>1 DEF TypeOK
      <4>2. g.by = f.by
        BY <4>1 DEF File, NoFile
      <4>3. files' = [files EXCEPT ![name[c]][s] = g]
        BY <1>1, <3>2, <4>1
      <4> HIDE DEF g
      <4> QED BY <1>0, <1>1, <4>1, <4>2, <4>3
    <3> QED BY <1>6, <3>1, <3>2 DEF JvmCloses
  <2>3. /\ jvm[c][s] = "writing" /\ jvm' = [jvm EXCEPT ![c][s] = "idle"]
        /\ UNCHANGED <<line, name, work>>
    BY <1>6 DEF JvmCloses
  <2>4. CASE d = c
    <3>1. RecInv(c) /\ ~hushed
      BY <2>1 DEF Rec, Frame
    <3>2. \/ jvm'[c]["jfr"] = jvm[c]["jfr"]
          \/ jvm[c]["jfr"] = "writing" /\ jvm'[c]["jfr"] = "idle"
      BY <1>0, <1>1, <2>3
    <3>3. CASE UNCHANGED <<pc, exit>>
      BY <2>2, <2>3, <2>4, <3>1, <3>2, <3>3, RecStays
    <3>4. CASE At(c, "dump") /\ Step(c) = s
      <4>1. exit[c] = "run" /\ Now(c).op = "dump" /\ s # "jfr"
        <5>1. exit[c] = "run" /\ Now(c).op = "dump"
          BY <3>4 DEF At
        <5> QED BY <1>0, <3>4, <5>1, CurrentCommand DEF Placed, Step, Now
      <4>2. jvm'[c]["jfr"] = jvm[c]["jfr"]
        BY <1>0, <1>1, <2>3, <4>1
      <4>3. Advance(c) \/ Fail(c)
        BY <1>6, <3>4 DEF JvmCloses, FailSomehow
      <4>4. CASE Advance(c)
        BY <1>0, <2>2, <2>3, <2>4, <3>1, <4>1, <4>2, <4>4, RecWentOn DEF At
      <4>5. CASE Fail(c)
        <5>1. exit'[c] = "nonzero"
          BY <1>1, <4>5 DEF Fail
        <5> QED BY <2>4, <5>1, RecEnded
      <4> QED BY <4>3, <4>4, <4>5
    <3> QED BY <1>6, <3>3, <3>4 DEF JvmCloses
  <2>5. CASE d # c
    BY <2>1, <2>2, <2>5, RecOthers
  <2> QED BY <2>4, <2>5
<1>7. CASE UNCHANGED vars
  BY <1>7, RecStays DEF Rec, vars
<1> QED BY <1>2, <1>3, <1>4, <1>5, <1>6, <1>7 DEF Next

\* A capture that succeeds has removed its own dumps from /tmp, and the
\* recording it delivered if that was its own, as long as every tool has told
\* of its failures.
THEOREM ScriptOkCleansUp == Spec => []OkCleansUp
<1>1. ASSUME IInv, Rec PROVE OkCleansUp
  <2> SUFFICES ASSUME NEW c \in Captures, Succeeded(c), Streamed(line[c]), ~hushed,
                      NEW s \in Steps, files["pod"][s].by = c
               PROVE  s = "jfr" /\ work[c]["jfr"].by # c
    BY DEF OkCleansUp
  <2>1. exit[c] = "zero" /\ CleanInv(c) /\ RecInv(c)
    BY <1>1 DEF IInv, Own, Succeeded, Rec
  <2>2. s = "jfr"
    BY <2>1 DEF CleanInv, Dumping, Fetching, At
  <2> QED BY <2>1, <2>2 DEF RecInv, At
<1>2. Spec => []Rec
  BY RecInit, RecNext, SpecInv, PTL DEF Spec
<1> QED BY <1>1, <1>2, SpecInv, PTL

-----------------------------------------------------------------------------
(***************************************************************************)
(* A script runs out of commands.  Each is worth two turns and as many as  *)
(* the wait for a recording may take; what a command uses up of them, and  *)
(* the JVM while the script waits for its dump, nobody ever gives back.    *)
(***************************************************************************)
Waiting(c) == IF Dumping(c, Step(c)) THEN 1 ELSE 0

\* Of a script of len commands at its p-th, after i turns of waiting for a
\* recording and w for a dump.
Turns(len, p, i, w) == (len + 1 - p) * (PollLimit + 2) - i - w

TurnsLeft(c) ==
  IF exit[c] = "run" THEN Turns(Len(Scripts[line[c]]), pc[c], polls[c], Waiting(c)) ELSE 0

\* Every script has an end, and no step puts it off: those of other captures
\* and a JVM that still records leave it where it is, the script's own commands
\* and the end of a dump that it waits for bring it nearer.
EndComesNearer(c) ==
  exit[c] = "run" =>
    /\ UNCHANGED TurnsLeft(c) \/ TurnsLeft(c)' < TurnsLeft(c)
    /\ Run(c) \/ (Waiting(c) = 1 /\ JvmCloses(c, Step(c))) => TurnsLeft(c)' < TurnsLeft(c)

\* A command under way has turns left.
LEMMA TurnsArePositive ==
  ASSUME NEW len \in Nat, NEW p \in 1..len, NEW i \in 0..PollLimit, NEW w \in {0, 1}
  PROVE  Turns(len, p, i, w) \in Nat \ {0}
<1>1. PICK k \in Nat : k = PollLimit + 2 BY PollLimitAssumption
<1>2. PICK r \in Nat : r = len - p OBVIOUS
<1>3. PICK x \in Nat : x = r * k OBVIOUS
<1>4. len + 1 - p = r + 1 BY <1>2
<1>5. (r + 1) * k = x + k BY <1>3
<1>6. Turns(len, p, i, w) = x + k - i - w BY <1>1, <1>4, <1>5 DEF Turns
<1> QED BY <1>1, <1>6, PollLimitAssumption

\* The next command has fewer, and so has one more turn at the same.
LEMMA TurnsRunOut ==
  ASSUME NEW len \in Nat, NEW p \in 1..len, NEW i \in 0..PollLimit, NEW w \in {0, 1},
         NEW q \in Nat, NEW j \in 0..PollLimit, NEW v \in {0, 1},
         \/ q = p + 1 /\ j = i
         \/ q = p /\ j = i + 1 /\ v = w
         \/ q = p /\ j = i /\ v = w + 1
  PROVE  Turns(len, q, j, v) < Turns(len, p, i, w)
<1>1. PICK k \in Nat : k = PollLimit + 2 BY PollLimitAssumption
<1>2. PICK r \in Nat : r = len - p OBVIOUS
<1>3. PICK x \in Nat : x = r * k OBVIOUS
<1>4. len + 1 - p = r + 1 BY <1>2
<1>5. (r + 1) * k = x + k BY <1>3
<1>6. Turns(len, p, i, w) = x + k - i - w BY <1>1, <1>4, <1>5 DEF Turns
<1>7. CASE q = p + 1 /\ j = i
  <2>1. len + 1 - q = r BY <1>2, <1>7
  <2>2. Turns(len, q, j, v) = x - i - v BY <1>1, <1>3, <1>7, <2>1 DEF Turns
  <2> QED BY <1>1, <1>6, <2>2, PollLimitAssumption
<1>8. CASE q = p
  <2>1. Turns(len, q, j, v) = x + k - j - v BY <1>1, <1>4, <1>5, <1>8 DEF Turns
  <2>2. j + v = i + w + 1 BY <1>2, <1>8
  <2> QED BY <1>1, <1>6, <2>1, <2>2
<1> QED BY <1>7, <1>8

\* A script that ends, or gets to its next command, or takes one more turn at
\* the one it is at.
LEMMA TurnTaken ==
  ASSUME TypeOK, TypeOK', NEW c \in Captures, CtrlInv(c), exit[c] = "run",
         line'[c] = line[c],
         \/ exit'[c] # "run"
         \/ pc'[c] = pc[c] + 1 /\ polls'[c] = polls[c]
         \/ pc'[c] = pc[c] /\ polls'[c] = polls[c] + 1 /\ Waiting(c)' = Waiting(c)
         \/ pc'[c] = pc[c] /\ polls'[c] = polls[c] /\ Waiting(c)' = Waiting(c) + 1
  PROVE  TurnsLeft(c)' < TurnsLeft(c)
<1>1. /\ pc[c] \in 1..Len(Scripts[line[c]]) /\ Len(Scripts[line[c]]) \in Nat
      /\ polls[c] \in 0..PollLimit /\ polls'[c] \in 0..PollLimit /\ pc'[c] \in Nat
      /\ Waiting(c) \in {0, 1} /\ Waiting(c)' \in {0, 1}
  BY CurrentCommand, KnownScript DEF TypeOK, Waiting
<1> DEFINE now == Turns(Len(Scripts[line[c]]), pc[c], polls[c], Waiting(c))
           then == Turns(Len(Scripts[line[c]]), pc'[c], polls'[c], Waiting(c)')
<1>2. TurnsLeft(c) = now /\ now \in Nat \ {0} BY <1>1, TurnsArePositive DEF TurnsLeft
<1>3. TurnsLeft(c)' = IF exit'[c] = "run" THEN then ELSE 0 BY DEF TurnsLeft
<1>4. CASE exit'[c] = "run"
  <2>1. then < now BY <1>1, <1>4, TurnsRunOut
  <2> QED BY <1>2, <1>3, <1>4, <2>1
<1>5. CASE exit'[c] # "run" 
  <2> HIDE DEF now
  <2> QED BY <1>2, <1>3, <1>5
<1> QED BY <1>4, <1>5

\* Going on, failing and hushing up a failure are turns.
LEMMA MovesOn ==
  ASSUME TypeOK, NEW c \in Captures, Advance(c) \/ Fail(c) \/ FailSomehow(c)
  PROVE  exit'[c] # "run" \/ pc'[c] = pc[c] + 1
<1>1. Advance(c) \/ Fail(c) BY DEF FailSomehow
<1>2. ASSUME Advance(c) PROVE pc'[c] = pc[c] + 1 BY <1>2 DEF Advance, TypeOK
<1>3. ASSUME Fail(c) PROVE exit'[c] # "run" BY <1>3 DEF Fail, TypeOK
<1> QED BY <1>1, <1>2, <1>3

\* Whether the script waits for a dump depends on the capture's own state.
LEMMA WaitingKept ==
  ASSUME NEW c, UNCHANGED <<line[c], pc[c], exit[c]>>,
         At(c, "dump") => jvm'[c][Step(c)] = jvm[c][Step(c)]
  PROVE  Waiting(c)' = Waiting(c)
<1>1. (\A op : At(c, op)' <=> At(c, op)) /\ Step(c)' = Step(c) BY SamePlace
<1> QED BY <1>1 DEF Waiting, Dumping

\* Each command of the script takes a turn.
LEMMA RunTakesTurn ==
  ASSUME IInv, TypeOK', NEW c \in Captures, Run(c)
  PROVE  TurnsLeft(c)' < TurnsLeft(c)
<1>1. TypeOK /\ CtrlInv(c) BY DEF IInv, Own
<1>2. exit[c] = "run" /\ UNCHANGED line
  BY DEF Run, OpenOrClose, WriteOut, Dump, Record, Poll, CopyOut, RemoveFile, At
<1>3. ASSUME Advance(c) \/ Fail(c) \/ FailSomehow(c), polls' = polls
      PROVE  TurnsLeft(c)' < TurnsLeft(c)
  BY <1>1, <1>2, <1>3, MovesOn, TurnTaken
<1>4. CASE OpenOrClose(c) BY <1>3, <1>4 DEF OpenOrClose
<1>5. CASE WriteOut(c) BY <1>3, <1>5 DEF WriteOut
<1>6. CASE Record(c) BY <1>3, <1>6 DEF Record
<1>7. CASE CopyOut(c) BY <1>3, <1>7 DEF CopyOut
<1>8. CASE RemoveFile(c) BY <1>3, <1>8 DEF RemoveFile
<1>9. CASE Dump(c)
  <2>1. CASE FailSomehow(c) BY <1>3, <1>9, <2>1 DEF Dump
  <2>2. CASE UNCHANGED <<pc, exit>> /\ jvm' = [jvm EXCEPT ![c][Step(c)] = "writing"]
    <3>1. At(c, "dump") /\ jvm[c][Step(c)] = "idle" /\ polls' = polls BY <1>9 DEF Dump
    <3>2. Step(c) \in Steps
      BY <1>1, <1>2, <3>1, CurrentCommand DEF At
    <3>3. jvm'[c][Step(c)] = "writing" BY <1>1, <2>2, <3>2 DEF TypeOK
    <3>4. At(c, "dump")' /\ Step(c)' = Step(c) BY <1>2, <2>2, <3>1, SamePlace
    <3>5. Waiting(c) = 0 /\ Waiting(c)' = 1 BY <3>1, <3>3, <3>4 DEF Waiting, Dumping
    <3> QED BY <1>1, <1>2, <2>2, <3>1, <3>5, TurnTaken
  <2> QED BY <1>9, <2>1, <2>2 DEF Dump
<1>10. CASE Poll(c)
  <2>1. CASE Advance(c) /\ UNCHANGED polls BY <1>3, <2>1
  <2>2. CASE polls' = [polls EXCEPT ![c] = @ + 1] /\ UNCHANGED <<pc, exit>>
    <3>1. polls'[c] = polls[c] + 1 BY <1>1, <2>2 DEF TypeOK
    <3>2. Waiting(c)' = Waiting(c) BY <1>2, <1>10, <2>2, WaitingKept DEF Poll
    <3> QED BY <1>1, <1>2, <2>2, <3>1, <3>2, TurnTaken
  <2> QED BY <1>10, <2>1, <2>2 DEF Poll
<1> QED BY <1>4, <1>5, <1>6, <1>7, <1>8, <1>9, <1>10 DEF Run

\* The end of a dump that the script waits for is one, too.
LEMMA DumpTakesTurn ==
  ASSUME IInv, TypeOK', NEW c \in Captures, Waiting(c) = 1, JvmCloses(c, Step(c))
  PROVE  TurnsLeft(c)' < TurnsLeft(c)
<1>1. TypeOK /\ CtrlInv(c) BY DEF IInv, Own
<1>2. At(c, "dump") /\ exit[c] = "run" BY DEF Waiting, Dumping, At
<1>3. (Advance(c) \/ FailSomehow(c)) /\ UNCHANGED <<line, polls>> BY <1>2 DEF JvmCloses
<1> QED BY <1>1, <1>2, <1>3, MovesOn, TurnTaken

\* Nothing gives a turn back.
LEMMA NobodyPutsOff ==
  ASSUME IInv, TypeOK', [Next]_vars, NEW c \in Captures, exit[c] = "run"
  PROVE  UNCHANGED TurnsLeft(c) \/ TurnsLeft(c)' < TurnsLeft(c)
<1>1. TypeOK /\ CtrlInv(c) BY DEF IInv, Own
<1>2. ASSUME UNCHANGED <<line[c], pc[c], exit[c], polls[c]>>,
             At(c, "dump") => jvm'[c][Step(c)] = jvm[c][Step(c)]
      PROVE  UNCHANGED TurnsLeft(c)
  <2>1. Waiting(c)' = Waiting(c) BY <1>2, WaitingKept
  <2> QED BY <1>2, <2>1 DEF TurnsLeft
<1>3. ASSUME NEW d \in Captures \ {c}, Frame(d), polls'[c] = polls[c]
      PROVE  UNCHANGED TurnsLeft(c)
  BY <1>2, <1>3 DEF Frame
<1>4. ASSUME NEW d \in Captures, Begin(d) PROVE UNCHANGED TurnsLeft(c)
  <2>1. d # c /\ UNCHANGED polls BY <1>4 DEF Begin
  <2> QED BY <1>3, <1>4, <2>1, BeginStep
<1>5. ASSUME NEW d \in Captures, d # c, Run(d) PROVE UNCHANGED TurnsLeft(c)
  <2>1. Frame(d)
    BY <1>5, OpenOrCloseStep, WriteOutStep, DumpStep, RecordStep, PollStep, CopyOutStep,
       RemoveFileStep DEF Run
  <2>2. polls'[c] = polls[c]
    <3>1. CASE Poll(d) BY <1>1, <1>5, <3>1 DEF Poll, TypeOK
    <3> QED BY <1>5, <3>1
             DEF Run, OpenOrClose, WriteOut, Dump, Record, CopyOut, RemoveFile
  <2> QED BY <1>3, <1>5, <2>1, <2>2
<1>6. ASSUME NEW d \in Captures, Killed(d)
      PROVE  UNCHANGED TurnsLeft(c) \/ TurnsLeft(c)' < TurnsLeft(c)
  <2>1. UNCHANGED <<line, polls>> BY <1>6 DEF Killed
  <2>2. CASE d = c
    <3>1. exit'[c] # "run" BY <1>1, <1>6, <2>2 DEF Killed, TypeOK
    <3> QED BY <1>1, <2>1, <3>1, TurnTaken
  <2> QED BY <1>3, <1>6, <2>1, <2>2, KilledStep
<1>7. ASSUME NEW d \in Captures, JvmOpens(d) PROVE UNCHANGED TurnsLeft(c)
  <2>1. UNCHANGED <<line, pc, exit, polls>> BY <1>7 DEF JvmOpens
  <2>2. CASE d = c
    <3>1. At(c, "dump") => Step(c) # "jfr" /\ Step(c) \in Steps
      BY <1>1, CurrentCommand DEF At, Now, Step, Placed
    <3>2. At(c, "dump") => jvm'[c][Step(c)] = jvm[c][Step(c)]
      BY <1>1, <1>7, <2>2, <3>1 DEF JvmOpens, TypeOK
    <3> QED BY <1>2, <2>1, <3>2
  <2> QED BY <1>3, <1>7, <2>1, <2>2, JvmOpensStep
<1>8. ASSUME NEW d \in Captures, NEW s \in Steps, JvmCloses(d, s)
      PROVE  UNCHANGED TurnsLeft(c) \/ TurnsLeft(c)' < TurnsLeft(c)
  <2>1. UNCHANGED <<line, polls>> BY <1>8 DEF JvmCloses
  <2>2. CASE d = c /\ At(c, "dump") /\ Step(c) = s
    <3>1. Waiting(c) = 1 BY <1>8, <2>2 DEF JvmCloses, Waiting, Dumping
    <3> QED BY <1>8, <2>2, <3>1, DumpTakesTurn
  <2>3. CASE d = c /\ ~(At(c, "dump") /\ Step(c) = s)
    <3>1. UNCHANGED <<pc, exit>> BY <1>8, <2>3 DEF JvmCloses
    <3>2. At(c, "dump") => jvm'[c][Step(c)] = jvm[c][Step(c)]
      BY <1>1, <1>8, <2>3 DEF JvmCloses, TypeOK
    <3> QED BY <1>2, <2>1, <3>1, <3>2
  <2>4. CASE d # c
    BY <1>3, <1>8, <2>1, <2>4, JvmClosesStep
  <2> QED BY <2>2, <2>3, <2>4
<1>9. CASE UNCHANGED vars BY <1>2, <1>9 DEF vars
<1> QED BY <1>4, <1>5, <1>6, <1>7, <1>8, <1>9, RunTakesTurn DEF Next

\* Every script ends, also the one that waits for a recording that the JVM never
\* writes: a natural number stands for what is left of it, which nothing raises,
\* whatever the other captures and the JVM do, and which every command it runs
\* and the end of a dump that it waits for lower (dump.go:281-301).
THEOREM ScriptsRunOut ==
  Spec => /\ [](\A c \in Captures : TurnsLeft(c) \in Nat)
          /\ [][\A c \in Captures : EndComesNearer(c)]_vars
<1>1. ASSUME IInv, NEW c \in Captures PROVE TurnsLeft(c) \in Nat
  <2>1. TypeOK /\ CtrlInv(c) BY <1>1 DEF IInv, Own
  <2> QED BY <2>1, CurrentCommand, KnownScript, TurnsArePositive DEF TurnsLeft, Waiting, TypeOK
<1>2. ASSUME IInv, IInv', [Next]_vars, NEW c \in Captures PROVE EndComesNearer(c)
  <2>1. TypeOK' BY <1>2 DEF IInv
  <2> QED BY <1>2, <2>1, NobodyPutsOff, RunTakesTurn, DumpTakesTurn DEF EndComesNearer
<1>3. IInv => \A c \in Captures : TurnsLeft(c) \in Nat BY <1>1
<1>4. IInv /\ IInv' /\ [Next]_vars => [\A c \in Captures : EndComesNearer(c)]_vars BY <1>2
<1> QED BY <1>3, <1>4, SpecInv, PTL DEF Spec
=============================================================================
