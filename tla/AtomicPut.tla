----------------------------- MODULE AtomicPut -----------------------------
(***************************************************************************)
(* What a Store promises (Store.Put, internal/xray/dump.go, and the        *)
(* comments of archive.Write, Extract and writeFile): files appear at      *)
(* their real names only as a whole, a bundle appears exactly when Put     *)
(* succeeds, and success means that everything wanted is there.            *)
(***************************************************************************)
VARIABLES goal,    \* the names to persist
          bundle,  \* they are one file, published with the result
          visible, \* pairs of a name and "the file is complete"
          result   \* "busy", "ok", "failed" or "dead"

vars == <<goal, bundle, visible, result>>

Whole(names) == {<<n, TRUE>> : n \in names}

Init == visible = {} /\ result = "busy" /\ bundle \in BOOLEAN

Publish ==
  /\ result = "busy"
  /\ \E n \in goal : <<n, TRUE>> \notin visible
                       /\ visible' = visible \cup {<<n, TRUE>>}
  /\ result' = IF bundle THEN "ok" ELSE "busy"
  /\ UNCHANGED <<goal, bundle>>

Commit ==
  /\ result = "busy" /\ visible = Whole(goal)
  /\ result' = "ok"
  /\ UNCHANGED <<goal, bundle, visible>>

Fail ==
  /\ result = "busy"
  /\ bundle => visible = {}
  /\ result' = "failed"
  /\ UNCHANGED <<goal, bundle, visible>>

\* The process or the machine dies; directory entries may be lost.
Halt ==
  /\ result # "dead"
  /\ result' = "dead" /\ visible' \in SUBSET visible
  /\ UNCHANGED <<goal, bundle>>

Next == Publish \/ Commit \/ Fail \/ Halt

Spec == Init /\ [][Next]_vars
=============================================================================
