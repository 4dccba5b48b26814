------------------------- MODULE ClientSessionProofs ------------------------
(***************************************************************************)
(* One tunnel at a time, and a state file that is cleared, proved for      *)
(* every number of connect processes.                                      *)
(***************************************************************************)
EXTENDS ClientSession, FiniteSetTheorems, TLAPS

\* Past StopRunningTunnel: the process dials, has its tunnel or tears it down.
Past(p) == Alive(p) /\ pc[p] \notin Choosing

AllTun == \A p \in Procs : mode[p] = "tun"

\* One process at most is past StopRunningTunnel, one at most is in it, and the tunnel it
\* has found is that of the process past it.
OneAfterAnother ==
    /\ \A p, q \in Procs : Past(p) /\ Past(q) => p = q
    /\ \A p, q \in Procs : pc[p] \in Choosing /\ pc[q] \in Choosing => p = q
    /\ \A p, q \in Procs : pc[p] \in {"found", "waiting"} /\ Past(q) => victim[p] = q

\* The inductive invariant of SoleTunnel; a process that has not started has no mode yet.
SoleInv ==
    /\ \A p \in Procs : pc[p] = "idle" => mode[p] = "tun"
    /\ ~overlapped /\ AllTun => OneAfterAnother

\* The inductive invariant of StateFileCleared: the process tunnel.json describes has
\* deferred ClearMeta and not finished it.
OwnerInv ==
    ~killed /\ meta # NoProc =>
      meta \in wrote /\ pc[meta] \in {"starting", "up", "ending", "clearing"}

-----------------------------------------------------------------------------
\* CurrentTunnel never names the process that asks, nor one that has exited.
LEMMA FoundIsOther ==
  ASSUME NEW p \in Procs \union {NoProc}, NEW q \in CurrentTunnel(p), q # NoProc
  PROVE  q \in Procs \ {p} /\ Alive(q)
  BY DEF CurrentTunnel

\* Type correctness; a process never finds itself as the tunnel to stop.
THEOREM TypeCorrect == Spec => []TypeOK
<1>1. Init => TypeOK
  <2> SUFFICES ASSUME Init PROVE TypeOK
    OBVIOUS
  <2>1. {overlapped, killed} \subseteq BOOLEAN
    BY Zenon DEF Init
  <2>2. QED
    BY <2>1, NoProcAssumption DEF Init, TypeOK, PCs
<1>2. TypeOK /\ [Next]_vars => TypeOK'
  <2> SUFFICES ASSUME TypeOK, [Next]_vars PROVE TypeOK'
    OBVIOUS
  <2> USE NoProcAssumption DEF Goto, PCs
  <2>1. ASSUME NEW p \in Procs, NEW m \in {"tun", "proxy"}, NEW again \in BOOLEAN,
               Start(p, m, again)
        PROVE TypeOK'
    <3>1. {overlapped', killed'} \subseteq BOOLEAN
      BY <2>1, Zenon DEF Start, TypeOK
    <3>2. QED
      BY <2>1, <3>1 DEF Start, TypeOK
  <2>2. ASSUME NEW p \in Procs, FindTunnel(p) PROVE TypeOK'
    <3> PICK q \in CurrentTunnel(p) \ {NoProc} : victim' = [victim EXCEPT ![p] = q]
      BY <2>2 DEF FindTunnel
    <3>1. q \in Procs \ {p}
      BY FoundIsOther
    <3>2. QED
      BY <2>2, <3>1 DEF FindTunnel, TypeOK
  <2>3. ASSUME NEW p \in Procs,
               \/ FindNothing(p) \/ SignalFails(p) \/ VictimExited(p) \/ VictimLingers(p)
               \/ DialFails(p) \/ Retry(p) \/ TunnelUp(p) \/ Unrecorded(p) \/ Notify(p)
        PROVE TypeOK'
    BY <2>3 DEF FindNothing, SignalFails, VictimExited, VictimLingers, DialFails, Retry,
                TunnelUp, Unrecorded, Notify, TypeOK
  <2>4. ASSUME NEW p \in Procs, SignalVictim(p) PROVE TypeOK'
    BY <2>4 DEF SignalVictim, TypeOK
  <2>5. ASSUME NEW p \in Procs, Record(p) PROVE TypeOK'
    BY <2>5 DEF Record, TypeOK
  <2>6. ASSUME NEW p \in Procs, DropSeen(p) \/ ClearRead(p) \/ ClearRemove(p) \/ End(p)
        PROVE TypeOK'
    BY <2>6 DEF DropSeen, AfterSelect, ClearRead, ClearRemove, End, TypeOK
  <2>7. ASSUME NEW p \in Procs, SignalSeen(p) PROVE TypeOK'
    BY <2>7 DEF SignalSeen, AfterSelect, TypeOK
  <2>8. ASSUME NEW p \in Procs, SignalKills(p) PROVE TypeOK'
    BY <2>8 DEF SignalKills, TypeOK
  <2>9. ASSUME NEW p \in Procs, Drop(p) \/ Interrupt(p) PROVE TypeOK'
    BY <2>9 DEF Drop, Interrupt, TypeOK
  <2>10. CASE Disconnect
    <3>1. signalled' \subseteq Procs
      BY <2>10, FoundIsOther DEF Disconnect, TypeOK
    <3>2. QED
      BY <2>10, <3>1 DEF Disconnect, TypeOK
  <2>11. CASE ForceClear
    BY <2>11 DEF ForceClear, TypeOK
  <2>12. CASE UNCHANGED vars
    BY <2>12 DEF vars, TypeOK
  <2>13. QED
    BY <2>1, <2>2, <2>3, <2>4, <2>5, <2>6, <2>7, <2>8, <2>9, <2>10, <2>11, <2>12
       DEF Next, StopStep, ConnectStep, EndStep
<1>3. QED
  BY <1>1, <1>2, PTL DEF Spec

-----------------------------------------------------------------------------
(* The state file.                                                         *)

\* The process that tunnel.json describes gets to its ClearMeta or is killed.
LEMMA OwnerStep == TypeOK /\ OwnerInv /\ [Next]_vars => OwnerInv'
<1> SUFFICES ASSUME TypeOK, OwnerInv, [Next]_vars PROVE OwnerInv'
  OBVIOUS
<1> USE DEF Goto, OwnerInv, TypeOK
<1>1. ASSUME NEW p \in Procs, NEW m \in {"tun", "proxy"}, NEW again \in BOOLEAN,
             Start(p, m, again)
      PROVE OwnerInv'
  BY <1>1 DEF Start
<1>2. ASSUME NEW p \in Procs, StopStep(p) PROVE OwnerInv'
  BY <1>2 DEF StopStep, FindNothing, FindTunnel, SignalVictim, SignalFails, VictimExited,
              VictimLingers
<1>3. ASSUME NEW p \in Procs, ConnectStep(p) PROVE OwnerInv'
  BY <1>3 DEF ConnectStep, DialFails, Retry, TunnelUp, Record, Unrecorded, Notify
<1>4. ASSUME NEW p \in Procs, DropSeen(p) \/ SignalSeen(p) PROVE OwnerInv'
  BY <1>4 DEF DropSeen, SignalSeen, AfterSelect
<1>5. ASSUME NEW p \in Procs, ClearRead(p) PROVE OwnerInv'
  BY <1>5 DEF ClearRead
<1>6. ASSUME NEW p \in Procs, ClearRemove(p) \/ End(p) PROVE OwnerInv'
  BY <1>6 DEF ClearRemove, End
<1>7. ASSUME NEW p \in Procs, SignalKills(p) PROVE OwnerInv'
  BY <1>7 DEF SignalKills
<1>8. CASE \/ \E p \in Procs : Drop(p) \/ Interrupt(p)
           \/ Disconnect \/ ForceClear \/ UNCHANGED vars
  BY <1>8 DEF Drop, Interrupt, Disconnect, ForceClear, vars
<1>9. QED
  BY <1>1, <1>2, <1>3, <1>4, <1>5, <1>6, <1>7, <1>8 DEF Next, EndStep

\* "after a switch, the new tunnel owns the file": when every process has ended and none
\* was killed, tunnel.json is gone.
THEOREM StateFileClearedAlways == Spec => []StateFileCleared
<1>1. Init => OwnerInv
  BY DEF Init, OwnerInv
<1>2. TypeOK /\ OwnerInv => StateFileCleared
  BY DEF TypeOK, OwnerInv, StateFileCleared, Alive
<1>3. QED
  BY <1>1, <1>2, OwnerStep, TypeCorrect, PTL DEF Spec

-----------------------------------------------------------------------------
(* One tunnel at a time.                                                   *)

\* A step in which no process starts and none leaves StopRunningTunnel for the rest keeps
\* the processes one after another; processes may exit.
LEMMA NobodyPasses ==
  ASSUME TypeOK, SoleInv, UNCHANGED <<mode, overlapped, victim>>, NEW p \in Procs,
         \A q \in Procs \ {p} : pc'[q] = pc[q],
         pc'[p] = "idle" => pc[p] = "idle",
         Past(p)' => Past(p),
         pc'[p] \in Choosing => pc[p] \in Choosing,
         pc'[p] \in {"found", "waiting"} => pc[p] \in {"found", "waiting"}
  PROVE  SoleInv'
<1>1. AllTun' <=> AllTun
  BY DEF AllTun
<1>2. \A q \in Procs : Past(q)' => Past(q)
  BY DEF Past, Alive
<1>3. OneAfterAnother => OneAfterAnother'
  BY <1>2 DEF OneAfterAnother
<1>4. QED
  BY <1>1, <1>3 DEF SoleInv

\* A process that leaves StopRunningTunnel when nobody else is past it.
LEMMA AlonePasses ==
  ASSUME TypeOK, SoleInv, UNCHANGED <<mode, overlapped, victim>>, NEW p \in Procs,
         pc[p] \in Choosing, pc' = [pc EXCEPT ![p] = "dialing"],
         ~overlapped /\ AllTun => \A q \in Procs \ {p} : ~Past(q)
  PROVE  SoleInv'
<1>1. AllTun' <=> AllTun
  BY DEF AllTun
<1>2. ASSUME ~overlapped, AllTun PROVE OneAfterAnother'
  <2>1. \A q \in Procs \ {p} : pc'[q] = pc[q] /\ ~Past(q)'
    BY <1>2 DEF Past, Alive, TypeOK
  <2>2. pc'[p] = "dialing" /\ \A q \in Procs \ {p} : pc[q] \notin Choosing
    BY <1>2 DEF SoleInv, OneAfterAnother, TypeOK
  <2>3. QED
    BY <2>1, <2>2 DEF OneAfterAnother, Choosing
<1>3. QED
  BY <1>1, <1>2 DEF SoleInv, TypeOK

\* Every action keeps the processes one after another.
LEMMA SoleStep == TypeOK /\ SoleInv /\ [Next]_vars => SoleInv'
<1> SUFFICES ASSUME TypeOK, SoleInv, [Next]_vars PROVE SoleInv'
  OBVIOUS
<1> USE DEF Goto
<1>1. ASSUME NEW p \in Procs, NEW m \in {"tun", "proxy"}, NEW again \in BOOLEAN,
             Start(p, m, again)
      PROVE SoleInv'
  <2>1. /\ pc[p] = "idle" /\ mode[p] = "tun"
        /\ pc' = [pc EXCEPT ![p] = IF m = "tun" THEN "finding" ELSE "dialing"]
        /\ mode' = [mode EXCEPT ![p] = m] /\ victim' = victim
    BY <1>1 DEF Start, SoleInv
  <2>2. ASSUME ~overlapped', AllTun' PROVE OneAfterAnother'
    <3>1. ~overlapped /\ \A q \in Procs : pc[q] \notin Choosing
      BY <1>1, <2>2 DEF Start
    <3>2. m = "tun" /\ AllTun
      BY <2>1, <2>2 DEF AllTun, TypeOK
    <3>3. pc'[p] = "finding" /\ \A q \in Procs \ {p} : pc'[q] = pc[q]
      BY <2>1, <3>2 DEF TypeOK
    <3>4. \A q \in Procs : Past(q)' => Past(q) /\ q # p
      BY <3>3 DEF Past, Alive, Choosing
    <3>5. QED
      BY <3>1, <3>2, <3>3, <3>4 DEF SoleInv, OneAfterAnother, Choosing
  <2>3. QED
    BY <2>1, <2>2 DEF SoleInv, TypeOK
<1>2. ASSUME NEW p \in Procs, FindNothing(p) PROVE SoleInv'
  <2>1. PICK q \in CurrentTunnel(p) : q # NoProc => mode[q] = "proxy"
    BY <1>2 DEF FindNothing
  <2>2. AllTun => \A r \in Procs \ {p} : ~Alive(r)
    BY <2>1, FoundIsOther, NoProcAssumption DEF AllTun, CurrentTunnel
  <2>3. QED
    BY <1>2, <2>2, AlonePasses DEF FindNothing, Choosing, Past
<1>3. ASSUME NEW p \in Procs, FindTunnel(p) PROVE SoleInv'
  <2> PICK v \in CurrentTunnel(p) \ {NoProc} : victim' = [victim EXCEPT ![p] = v]
    BY <1>3 DEF FindTunnel
  <2>1. pc[p] = "finding" /\ pc' = [pc EXCEPT ![p] = "found"]
        /\ mode' = mode /\ overlapped' = overlapped
    BY <1>3 DEF FindTunnel
  <2>2. v \in Procs \ {p} /\ Alive(v)
    BY FoundIsOther
  <2>3. AllTun' <=> AllTun
    BY <2>1 DEF AllTun
  <2>4. ASSUME ~overlapped, AllTun PROVE OneAfterAnother'
    <3>1. OneAfterAnother
      BY <2>4 DEF SoleInv
    <3>2. \A q \in Procs \ {p} : pc[q] \notin Choosing
      BY <2>1, <3>1 DEF OneAfterAnother, Choosing
    <3>3. \A q \in Procs : Past(q)' <=> Past(q)
      BY <2>1 DEF Past, Alive, Choosing, TypeOK
    <3>4. \A q \in Procs : Past(q) => q = v
      BY <2>2, <3>1, <3>2 DEF OneAfterAnother, Past
    <3>5. victim'[p] = v /\ \A q \in Procs \ {p} : pc'[q] = pc[q]
      BY <2>1 DEF TypeOK
    <3>6. QED
      BY <3>1, <3>2, <3>3, <3>4, <3>5 DEF OneAfterAnother, Choosing
  <2>5. QED
    BY <2>1, <2>3, <2>4 DEF SoleInv, TypeOK
<1>4. ASSUME NEW p \in Procs, VictimExited(p) PROVE SoleInv'
  <2>1. ~overlapped /\ AllTun => \A q \in Procs \ {p} : ~Past(q)
    BY <1>4 DEF VictimExited, SoleInv, OneAfterAnother, Past
  <2>2. QED
    BY <1>4, <2>1, AlonePasses DEF VictimExited, Choosing
<1>5. ASSUME NEW p \in Procs,
             SignalVictim(p) \/ SignalFails(p) \/ VictimLingers(p)
      PROVE SoleInv'
  BY <1>5, NobodyPasses
     DEF SignalVictim, SignalFails, VictimLingers, Past, Alive, Choosing, TypeOK
<1>6. ASSUME NEW p \in Procs, ConnectStep(p) PROVE SoleInv'
  BY <1>6, NobodyPasses
     DEF ConnectStep, DialFails, Retry, TunnelUp, Record, Unrecorded, Notify, Past, Alive,
         Choosing, TypeOK
<1>7. ASSUME NEW p \in Procs, EndStep(p) \/ SignalKills(p) PROVE SoleInv'
  BY <1>7, NobodyPasses
     DEF EndStep, DropSeen, SignalSeen, AfterSelect, ClearRead, ClearRemove, End,
         SignalKills, Past, Alive, Choosing, TypeOK
<1>8. CASE \/ \E p \in Procs : Drop(p) \/ Interrupt(p)
           \/ Disconnect \/ ForceClear \/ UNCHANGED vars
  <2>1. UNCHANGED <<pc, mode, overlapped, victim>>
    BY <1>8 DEF Drop, Interrupt, Disconnect, ForceClear, vars
  <2>2. QED
    BY <2>1 DEF SoleInv, AllTun, OneAfterAnother, Past, Alive
<1>9. QED
  BY <1>1, <1>2, <1>3, <1>4, <1>5, <1>6, <1>7, <1>8 DEF Next, StopStep

\* "One TUN tunnel at a time: connecting elsewhere switches over": as long as no connect
\* is started while another is choosing whom to stop and no proxy runs, two processes never
\* have their devices and routes at the same time.
THEOREM SoleTunnelAlways == Spec => []SoleTunnel
<1>1. Init => SoleInv
  BY DEF Init, SoleInv, OneAfterAnother, Past, Alive, Choosing
<1>2. SoleInv => SoleTunnel
  <2> SUFFICES ASSUME SoleInv, ~overlapped, AllTun
               PROVE  Cardinality({p \in Procs : HasTun(p)}) <= 1
    BY DEF SoleTunnel, AllTun
  <2>1. \A p \in Procs : HasTun(p) => Past(p)
    BY DEF HasTun, Past, Alive, Choosing
  <2>2. \A p, q \in {r \in Procs : HasTun(r)} : p = q
    BY <2>1 DEF SoleInv, OneAfterAnother
  <2>3. CASE {p \in Procs : HasTun(p)} = {}
    BY <2>3, FS_EmptySet
  <2>4. CASE {p \in Procs : HasTun(p)} # {}
    <3> PICK p \in Procs : HasTun(p)
      BY <2>4
    <3>1. {r \in Procs : HasTun(r)} = {p}
      BY <2>2
    <3>2. Cardinality({p}) = 1
      BY FS_Singleton
    <3>3. QED
      BY <3>1, <3>2
  <2>5. QED
    BY <2>3, <2>4
<1>3. QED
  BY <1>1, <1>2, SoleStep, TypeCorrect, PTL DEF Spec
=============================================================================
