--------------------------- MODULE ToolboxProofs ---------------------------
(***************************************************************************)
(* The toolbox's safety for every start timeout and under any signals.     *)
(***************************************************************************)
EXTENDS Toolbox, TLAPS

\* The counter passes the timeout only on the way to exit 1.
CountInv == ipc \in {"done?", "started?", "count", "sleep"} => i <= StartTimeout

\* Who is alive beside whom: the wrapper outlives its command, the command its
\* keepalive.
AliveInv ==
  /\ wpc \in {"absent", "touch", "trapEXIT", "trapTERM", "fork"} =>
       cpc = "absent"
  /\ cpc \in {"absent", "spawn"} => hb = "absent"
  /\ cpc = "gone" => hb \in {"absent", "gone"}
  /\ wpc \in {"exit", "leave"} => cpc \in {"absent", "gone"}
  /\ done => wpc \in {"leave", "gone"} /\ cpc \in {"absent", "gone"}

Inv == TypeOK /\ CountInv /\ AliveInv

\* The toolbox starts with an empty /tmp and only the idle loop.
LEMMA InvInit == Init => Inv
<1> SUFFICES ASSUME Init PROVE Inv OBVIOUS
<1>1. i \in 0..StartTimeout + 1 /\ i <= StartTimeout
  BY StartTimeoutAssumption DEF Init
<1>2. TypeOK BY <1>1 DEF Init, TypeOK
<1>3. CountInv /\ AliveInv BY <1>1 DEF Init, CountInv, AliveInv
<1> QED BY <1>2, <1>3 DEF Inv

\* The end of the loop takes everything with it.
LEMMA TeardownKeeps ==
  ASSUME Inv, Teardown, ipc' \in Exits
  PROVE  Inv'
<1>1. TypeOK' BY DEF Inv, TypeOK, Teardown
<1>2. AliveInv' BY DEF Inv, TypeOK, AliveInv, Teardown
<1>3. CountInv' BY DEF CountInv, Exits
<1> QED BY <1>1, <1>2, <1>3 DEF Inv

\* The loop counts no further than one past its timeout.
LEMMA IdleKeeps == Inv /\ Idle => Inv'
<1> SUFFICES ASSUME Inv, Idle PROVE Inv' OBVIOUS
<1>1. ASSUME NEW to \in {"started?", "count", "limit", "sleep", "done?"},
             LoopGoes(to), i <= StartTimeout
      PROVE  Inv'
  <2>1. TypeOK' BY <1>1 DEF Inv, TypeOK, LoopGoes, wrapVars, commandVars
  <2>2. AliveInv' BY <1>1 DEF Inv, AliveInv, LoopGoes, wrapVars, commandVars
  <2>3. CountInv' BY <1>1 DEF CountInv, LoopGoes
  <2> QED BY <2>1, <2>2, <2>3 DEF Inv
<1>2. CASE TestDone
  BY <1>1, <1>2, TeardownKeeps DEF TestDone, Exits, Inv, CountInv
<1>3. CASE TestStarted BY <1>1, <1>3 DEF TestStarted, Inv, CountInv
<1>4. CASE Count
  <2>1. i' \in 0..StartTimeout + 1
    BY <1>4, StartTimeoutAssumption DEF Count, Inv, TypeOK, CountInv
  <2>2. TypeOK' BY <1>4, <2>1 DEF Count, Inv, TypeOK, wrapVars, commandVars
  <2>3. AliveInv' BY <1>4 DEF Count, Inv, AliveInv, wrapVars, commandVars
  <2>4. CountInv' BY <1>4 DEF Count, CountInv
  <2> QED BY <2>2, <2>3, <2>4 DEF Inv
<1>5. CASE TestLimit
  BY <1>1, <1>5, TeardownKeeps DEF TestLimit, Exits
<1>6. CASE Sleep BY <1>1, <1>6 DEF Sleep, Inv, CountInv
<1> QED BY <1>2, <1>3, <1>4, <1>5, <1>6 DEF Idle

\* The wrapper, from the client's exec to its EXIT trap, signals included.
LEMMA WrapperKeeps == Inv /\ (Exec \/ Wrapper \/ Term \/ Kill) => Inv'
<1> SUFFICES ASSUME Inv, Exec \/ Wrapper \/ Term \/ Kill PROVE Inv' OBVIOUS
<1> USE DEF Exec, Wrapper, MarkStarted, SetTrap, Fork, Reap, MarkDone, Leave,
            Term, Kill, Inv
<1>1. UNCHANGED <<ipc, i>> BY DEF idleVars
<1>2. TypeOK'
  <2> USE <1>1 DEF TypeOK, commandVars
  <2>1. CASE Exec \/ SetTrap \/ Reap \/ MarkDone BY <2>1
  <2>2. CASE MarkStarted BY <2>2
  <2>3. CASE Fork BY <2>3
  <2>4. CASE Leave BY <2>4
  <2>5. CASE Term
    <3>1. pending' \in BOOLEAN /\ wpc' \in {"fork", "wait", "gone"}
      BY <2>5, Zenon
    <3>2. status' \in {status, "lost"} BY <2>5
    <3>3. UNCHANGED <<started, done, cpc, code, hb>> BY <2>5
    <3> QED BY <3>1, <3>2, <3>3
  <2>6. CASE Kill BY <2>6
  <2> QED BY <2>1, <2>2, <2>3, <2>4, <2>5, <2>6
<1>3. CountInv' BY <1>1 DEF CountInv
<1>4. AliveInv' BY DEF AliveInv, TypeOK, commandVars
<1> QED BY <1>2, <1>3, <1>4

\* The command runs only while its wrapper waits or is dead.
LEMMA CommandKeeps == Inv /\ Command => Inv'
<1> SUFFICES ASSUME Inv, Command PROVE Inv' OBVIOUS
<1> USE DEF Command, SpawnKeepalive, DumpEnds, StopKeepalive, KeepaliveEnds,
            WaitKeepalive, CommandGoes, Inv
<1>1. UNCHANGED <<started, done, ipc, i, wpc, pending, status>>
  BY DEF idleVars, wrapVars
<1>2. TypeOK' BY <1>1 DEF TypeOK
<1>3. CountInv' BY <1>1 DEF CountInv
<1>4. AliveInv' BY <1>1 DEF AliveInv, TypeOK
<1> QED BY <1>2, <1>3, <1>4

\* Every step keeps the invariant.
LEMMA InvNext == Inv /\ [Next]_vars => Inv'
<1> SUFFICES ASSUME Inv, [Next]_vars PROVE Inv' OBVIOUS
<1>1. CASE UNCHANGED vars
  BY <1>1 DEF vars, Inv, TypeOK, CountInv, AliveInv
<1> QED BY <1>1, IdleKeeps, WrapperKeeps, CommandKeeps DEF Next, Stopped

\* The inductive invariant holds throughout.
THEOREM InvHolds == Spec => []Inv
BY InvInit, InvNext, PTL DEF Spec

\* The idle loop's and the shells' variables keep their types.
THEOREM TypesHold == Spec => []TypeOK
<1>1. Inv => TypeOK BY DEF Inv
<1> QED BY <1>1, InvHolds, PTL

\* xray-done appears only when the command and its keepalive are over, so the
\* loop cuts no command short with exit 0, whatever signals hit the wrapper.
THEOREM NothingCutShort == Spec => []NeverCutShort
<1>1. Inv => NeverCutShort BY DEF Inv, TypeOK, AliveInv, NeverCutShort
<1> QED BY <1>1, InvHolds, PTL

\* The command's shell reaps its keepalive before it is gone.
THEOREM NoZombieLeft == Spec => []KeepaliveReaped
<1>1. Inv => KeepaliveReaped BY DEF Inv, AliveInv, KeepaliveReaped
<1> QED BY <1>1, InvHolds, PTL

\* A start that the loop can still see in time is never timed out.
THEOREM StartIsSeen == Spec => StaysAlive
<1>1. Inv /\ [Next]_vars => (InTime => InTime')
  <2> SUFFICES ASSUME Inv, [Next]_vars, InTime PROVE InTime' OBVIOUS
  <2>1. CASE Idle
    <3> USE DEF InTime, LoopGoes, Teardown
    <3>1. CASE TestDone BY <3>1 DEF TestDone
    <3>2. CASE TestStarted BY <3>2 DEF TestStarted
    <3>3. CASE Count BY <3>3 DEF Count
    <3>4. CASE TestLimit
      <4>1. i \in Nat /\ ~(i > StartTimeout)
        BY StartTimeoutAssumption DEF Inv, TypeOK
      <4> QED BY <3>4, <4>1 DEF TestLimit
    <3>5. CASE Sleep BY <3>5 DEF Sleep
    <3> QED BY <2>1, <3>1, <3>2, <3>3, <3>4, <3>5 DEF Idle
  <2>2. CASE ~Idle
    <3>1. UNCHANGED <<ipc, i>> /\ (started => started')
      BY <2>2 DEF Next, Exec, Wrapper, MarkStarted, SetTrap, Fork, Reap,
         MarkDone, Leave, Term, Kill, Command, SpawnKeepalive, DumpEnds,
         StopKeepalive, KeepaliveEnds, WaitKeepalive, CommandGoes, Stopped,
         vars, idleVars
    <3> QED BY <3>1 DEF InTime
  <2> QED BY <2>1, <2>2
<1> QED BY <1>1, InvHolds, PTL DEF Spec, StaysAlive
=============================================================================
