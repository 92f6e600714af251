---------------------------- MODULE MCDumpScript ----------------------------
(***************************************************************************)
(* Two captures beside one JVM, with the command lines that differ in what *)
(* the script does.                                                        *)
(***************************************************************************)
EXTENDS DumpScript, TLC

Line(tool, flags, dumpDir) == [NoLine EXCEPT !.tool = tool, !.flags = flags, !.dumpDir = dumpDir]

MCLines ==
  {Line("jvm", "thread" :> "false" @@ "heap" :> "true", ""),
   Line("jvm", "heap" :> "true" @@ "vthreads" :> "true", ""),
   [Line("jvm", "jfr" :> "60s", "") EXCEPT !.noRedact = TRUE],
   Line("jvm", "jfr" :> "500ms", ""),
   Line("jvm", "jfr" :> "negative", ""),
   Line("jvm", "heap" :> "true" @@ "jfr" :> "60s", "absolute"),
   Line("jvm", "heap" :> "false", ""),
   [Line("jvm", <<>>, "absolute") EXCEPT !.local = {"extract"}],
   [Line("go", "profile" :> "true", "") EXCEPT !.maxSize = "negative"],
   Line("go", <<>>, "")}
=============================================================================
