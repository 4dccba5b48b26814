------------------------- MODULE TunnelServerProofs -------------------------
(***************************************************************************)
(* Proofs about the tunnel server for every number of connections, pool    *)
(* size and channel capacity.                                              *)
(***************************************************************************)
EXTENDS TunnelServer, FiniteSetTheorems, TLAPS

\* Type correctness: every variable keeps its range, whatever the goroutines do.
THEOREM TypeCorrect == Spec => []TypeOK
<1>1. Init => TypeOK
  <2> SUFFICES ASSUME Init PROVE TypeOK
    OBVIOUS
  <2>1. 0 \in 0..SendCap
    BY CapAssumption
  <2>2. chanClosed \in [Conns -> BOOLEAN] /\ dead \in [Conns -> BOOLEAN]
        /\ done \in BOOLEAN /\ crashed \in BOOLEAN
    BY Zenon DEF Init
  <2>3. QED
    BY <2>1, <2>2 DEF Init, TypeOK, HandlerPCs
<1>2. TypeOK /\ [Next]_vars => TypeOK'
  <2> SUFFICES ASSUME TypeOK, [Next]_vars PROVE TypeOK'
    OBVIOUS
  <2> USE PoolAssumption, CapAssumption
  <2> USE DEF TypeOK, connVars, clientVars, serverVars, Goto, HandlerPCs
  <2>1. ASSUME NEW c \in Conns, Accept(c) PROVE TypeOK'
    BY <2>1 DEF Accept
  <2>2. ASSUME NEW c \in Conns, Begin(c) PROVE TypeOK'
    BY <2>2 DEF Begin
  <2>3. ASSUME NEW c \in Conns, Refuse(c) \/ Admit(c) \/ ProxyEnds(c) PROVE TypeOK'
    BY <2>3 DEF Refuse, Admit, ProxyEnds
  <2>4. ASSUME NEW c \in Conns, Assign(c) PROVE TypeOK'
    BY <2>4 DEF Assign
  <2>5. ASSUME NEW c \in Conns, AssignFails(c) PROVE TypeOK'
    BY <2>5 DEF AssignFails
  <2>6. ASSUME NEW c \in Conns, IncConnected(c) \/ DecConnected(c) PROVE TypeOK'
    BY <2>6 DEF IncConnected, DecConnected
  <2>7. ASSUME NEW c \in Conns, Greet(c) \/ GreetFails(c) \/ LoopEnds(c) PROVE TypeOK'
    BY <2>7 DEF Greet, GreetFails, LoopEnds
  <2>8. ASSUME NEW c \in Conns, Deliver(c) \/ DeliverFails(c) PROVE TypeOK'
    <3>1. queued' \in [Conns -> 0..SendCap]
      BY <2>8 DEF Deliver, DeliverFails
    <3>2. QED
      BY <2>8, <3>1 DEF Deliver, DeliverFails
  <2>9. ASSUME NEW c \in Conns, Remove(c) PROVE TypeOK'
    BY <2>9 DEF Remove
  <2>10. ASSUME NEW c \in Conns, Finish(c) PROVE TypeOK'
    BY <2>10 DEF Finish
  <2>11. ASSUME NEW c \in Conns, ForwarderStep(c) PROVE TypeOK'
    BY <2>11 DEF ForwarderStep, FrameLoopEnds, MarkDead, CloseChan
  <2>12. ASSUME NEW c \in Conns, PeerStep(c) \/ Kick(c) PROVE TypeOK'
    BY <2>12 DEF PeerStep, PeerResets, PeerVanishes, Kick
  <2>13. ASSUME NEW i \in Octets, Lookup(i) PROVE TypeOK'
    BY <2>13 DEF Lookup
  <2>14. CASE CheckDead
    <3>1. router' \in {"reading", "sending"} /\ target' \in {target, NoConn}
      BY <2>14 DEF CheckDead
    <3>2. QED
      BY <2>14, <3>1 DEF CheckDead
  <2>21. CASE SendPanics
    BY <2>21 DEF SendPanics
  <2>15. CASE SendPacket
    <3>1. queued' \in [Conns -> 0..SendCap]
      <4>1. \A c \in Conns :
              (IF queued[c] < SendCap THEN queued[c] + 1 ELSE queued[c]) \in 0..SendCap
        OBVIOUS
      <4>2. QED
        BY <2>15, <4>1 DEF SendPacket
    <3>2. QED
      BY <2>15, <3>1 DEF SendPacket
  <2>16. CASE ReaperTick \/ ReaperStops
    BY <2>16 DEF ReaperTick, ReaperStops
  <2>17. ASSUME NEW c \in Conns, Reap(c) PROVE TypeOK'
    BY <2>17 DEF Reap
  <2>18. CASE MainStep
    BY <2>18 DEF MainStep, Shutdown, AcceptEnds, StartReturns
  <2>19. CASE UNCHANGED vars
    BY <2>19 DEF vars
  <2>20. QED
    BY <2>1, <2>2, <2>3, <2>4, <2>5, <2>6, <2>7, <2>8, <2>9, <2>10, <2>11, <2>12,
       <2>13, <2>14, <2>15, <2>16, <2>17, <2>18, <2>19, <2>21
       DEF Next, HandlerStep, RouterStep, ReaperStep
<1>3. QED
  BY <1>1, <1>2, PTL DEF Spec

-----------------------------------------------------------------------------
(* Ownership of addresses.                                                 *)

\* A step that leaves the registry, the addresses and the set of registered
\* handlers alone keeps ownership.
LEMMA OwnershipStutter ==
  ASSUME AddressOwnership, UNCHANGED <<clients, ip>>,
         \A c \in Conns : handler'[c] \in Registered <=> handler[c] \in Registered
  PROVE  AddressOwnership'
  BY DEF AddressOwnership

\* The registry and the handlers agree after every step.
LEMMA OwnershipStep == TypeOK /\ AddressOwnership /\ [Next]_vars => AddressOwnership'
<1> SUFFICES ASSUME TypeOK, AddressOwnership, [Next]_vars PROVE AddressOwnership'
  OBVIOUS
<1> USE DEF connVars, clientVars, serverVars, Goto
<1>1. ASSUME NEW c \in Conns, Assign(c) PROVE AddressOwnership'
  <2> PICK i \in Octets : /\ LowestFree(i)
                          /\ clients' = [clients EXCEPT ![i] = c]
                          /\ ip' = [ip EXCEPT ![c] = i]
    BY <1>1 DEF Assign
  <2>1. handler[c] = "assigning" /\ handler' = [handler EXCEPT ![c] = "counting"]
    BY <1>1 DEF Assign
  <2>2. \A j \in Octets : clients[j] # c
    BY <2>1 DEF AddressOwnership, Registered
  <2>3. \A d \in Conns : d # c => (clients[i] # d)
    BY NoConnAssumption DEF LowestFree, Free
  <2>4. QED
    BY <2>1, <2>2, <2>3, NoConnAssumption DEF AddressOwnership, Registered, TypeOK
<1>2. ASSUME NEW c \in Conns, Remove(c) PROVE AddressOwnership'
  <2>1. /\ handler[c] = "removing" /\ handler' = [handler EXCEPT ![c] = "closing"]
        /\ clients' = [clients EXCEPT ![ip[c]] = NoConn] /\ ip' = ip
    BY <1>2 DEF Remove
  <2>2. \A i \in Octets : clients[i] = c <=> ip[c] = i
    BY <2>1 DEF AddressOwnership, Registered
  <2>3. QED
    BY <2>1, <2>2, NoConnAssumption DEF AddressOwnership, Registered, TypeOK
<1>3. ASSUME NEW c \in Conns, Accept(c) \/ Begin(c) \/ Refuse(c) \/ Admit(c) \/ ProxyEnds(c)
                              \/ AssignFails(c) \/ Finish(c)
      PROVE  AddressOwnership'
  <2>1. UNCHANGED <<clients, ip>>
    BY <1>3 DEF Accept, Begin, Refuse, Admit, ProxyEnds, AssignFails, Finish
  <2>2. \A d \in Conns : handler'[d] \in Registered <=> handler[d] \in Registered
    BY <1>3 DEF Accept, Begin, Refuse, Admit, ProxyEnds, AssignFails, Finish, TypeOK,
                Registered
  <2>3. QED
    BY <2>1, <2>2, OwnershipStutter
<1>4. ASSUME NEW c \in Conns, IncConnected(c) \/ Greet(c) \/ GreetFails(c) \/ DeliverFails(c)
                              \/ LoopEnds(c) \/ DecConnected(c)
      PROVE  AddressOwnership'
  <2>1. UNCHANGED <<clients, ip>>
    BY <1>4 DEF IncConnected, Greet, GreetFails, DeliverFails, LoopEnds, DecConnected
  <2>2. \A d \in Conns : handler'[d] \in Registered <=> handler[d] \in Registered
    BY <1>4 DEF IncConnected, Greet, GreetFails, DeliverFails, LoopEnds, DecConnected,
                TypeOK, Registered
  <2>3. QED
    BY <2>1, <2>2, OwnershipStutter
<1>5. ASSUME NEW c \in Conns, Deliver(c) \/ ForwarderStep(c) \/ PeerStep(c) \/ Kick(c)
      PROVE  AddressOwnership'
  BY <1>5, OwnershipStutter DEF Deliver, ForwarderStep, FrameLoopEnds, MarkDead, CloseChan,
     PeerStep, PeerResets, PeerVanishes, Kick
<1>6. CASE RouterStep \/ ReaperStep \/ MainStep
  BY <1>6, OwnershipStutter DEF RouterStep, Lookup, CheckDead, SendPacket, SendPanics,
     ReaperStep, ReaperTick, Reap, ReaperStops, MainStep, Shutdown, AcceptEnds, StartReturns
<1>7. CASE UNCHANGED vars
  BY <1>7, OwnershipStutter DEF vars
<1>8. QED
  BY <1>1, <1>2, <1>3, <1>4, <1>5, <1>6, <1>7 DEF Next, HandlerStep

\* An address belongs to one connection, exactly while its handler is between
\* Assign and the deferred Remove.
THEOREM AddressesOwned == Spec => []AddressOwnership
<1>1. Init => AddressOwnership
  BY NoConnAssumption DEF Init, AddressOwnership, Registered
<1>2. QED
  BY <1>1, OwnershipStep, TypeCorrect, PTL DEF Spec

-----------------------------------------------------------------------------
(* The gauge and the WaitGroup.                                            *)

\* A handler that moves into a set of program points adds one to the number of
\* handlers there, one that moves out takes one away, any other changes nothing.
LEMMA CountMoves ==
  ASSUME NEW P, NEW c \in Conns, NEW to,
         handler \in [Conns -> HandlerPCs],
         handler' = [handler EXCEPT ![c] = to]
  PROVE  /\ Cardinality(At(P)) \in Nat
         /\ handler[c] \notin P /\ to \in P =>
              Cardinality(At(P)') = Cardinality(At(P)) + 1
         /\ handler[c] \in P /\ to \notin P =>
              Cardinality(At(P)') = Cardinality(At(P)) - 1
         /\ (handler[c] \in P <=> to \in P) => At(P)' = At(P)
<1>1. IsFiniteSet(At(P)) /\ Cardinality(At(P)) \in Nat
  <2>1. At(P) \subseteq Conns
    BY DEF At
  <2>2. QED
    BY <2>1, ConnsFinite, FS_Subset, FS_CardinalityType
<1>2. handler[c] \notin P /\ to \in P => Cardinality(At(P)') = Cardinality(At(P)) + 1
  <2> SUFFICES ASSUME handler[c] \notin P, to \in P
               PROVE  Cardinality(At(P)') = Cardinality(At(P)) + 1
    OBVIOUS
  <2>1. c \notin At(P) /\ At(P)' = At(P) \union {c}
    BY DEF At
  <2>2. QED
    BY <2>1, <1>1, FS_AddElement
<1>3. handler[c] \in P /\ to \notin P => Cardinality(At(P)') = Cardinality(At(P)) - 1
  <2> SUFFICES ASSUME handler[c] \in P, to \notin P
               PROVE  Cardinality(At(P)') = Cardinality(At(P)) - 1
    OBVIOUS
  <2>1. c \in At(P) /\ At(P)' = At(P) \ {c}
    BY DEF At
  <2>2. QED
    BY <2>1, <1>1, FS_RemoveElement
<1>4. (handler[c] \in P <=> to \in P) => At(P)' = At(P)
  BY DEF At
<1>5. QED
  BY <1>1, <1>2, <1>3, <1>4

\* Both counters follow the handlers.
LEMMA CountsStep == TypeOK /\ CountsExact /\ [Next]_vars => CountsExact'
<1> SUFFICES ASSUME TypeOK, CountsExact, [Next]_vars PROVE CountsExact'
  OBVIOUS
<1> USE DEF connVars, clientVars, serverVars, Goto
<1>a. handler \in [Conns -> HandlerPCs]
  BY DEF TypeOK
<1>b. /\ "spawned" \notin Started /\ "reading" \in Started /\ "closing" \in Started
      /\ "gone" \notin Started /\ "counting" \in Started /\ "greeting" \in Started
      /\ "leaving" \in Started /\ "removing" \in Started
  BY DEF Started, HandlerPCs
<1>c. /\ "spawned" \notin Counted /\ "reading" \notin Counted /\ "closing" \notin Counted
      /\ "gone" \notin Counted /\ "counting" \notin Counted /\ "greeting" \in Counted
      /\ "leaving" \in Counted /\ "removing" \notin Counted
  BY DEF Counted
<1>1. ASSUME NEW c \in Conns, Begin(c) PROVE CountsExact'
  <2> PICK to \in {"reading", "closing"} : /\ handler[c] = "spawned"
                                            /\ handler' = [handler EXCEPT ![c] = to]
    BY <1>1 DEF Begin
  <2>1. wg' = wg + 1 /\ active' = active
    BY <1>1 DEF Begin
  <2>2. Cardinality(At(Started)') = Cardinality(At(Started)) + 1
    BY <1>a, <1>b, CountMoves
  <2>3. At(Counted)' = At(Counted)
    BY <1>a, <1>c, CountMoves
  <2>4. QED
    BY <2>1, <2>2, <2>3 DEF CountsExact
<1>2. ASSUME NEW c \in Conns, Finish(c) PROVE CountsExact'
  <2>1. /\ handler[c] = "closing" /\ handler' = [handler EXCEPT ![c] = "gone"]
        /\ wg' = wg - 1 /\ active' = active
    BY <1>2 DEF Finish
  <2>2. Cardinality(At(Started)') = Cardinality(At(Started)) - 1
    BY <1>a, <2>1, <1>b, CountMoves
  <2>3. At(Counted)' = At(Counted)
    BY <1>a, <2>1, <1>c, CountMoves
  <2>4. QED
    BY <2>1, <2>2, <2>3 DEF CountsExact
<1>3. ASSUME NEW c \in Conns, IncConnected(c) PROVE CountsExact'
  <2>1. /\ handler[c] = "counting" /\ handler' = [handler EXCEPT ![c] = "greeting"]
        /\ active' = active + 1 /\ wg' = wg
    BY <1>3 DEF IncConnected
  <2>2. Cardinality(At(Counted)') = Cardinality(At(Counted)) + 1
    BY <1>a, <2>1, <1>c, CountMoves
  <2>3. At(Started)' = At(Started)
    BY <1>a, <2>1, <1>b, CountMoves
  <2>4. QED
    BY <2>1, <2>2, <2>3 DEF CountsExact
<1>4. ASSUME NEW c \in Conns, DecConnected(c) PROVE CountsExact'
  <2>1. /\ handler[c] = "leaving" /\ handler' = [handler EXCEPT ![c] = "removing"]
        /\ active' = active - 1 /\ wg' = wg
    BY <1>4 DEF DecConnected
  <2>2. Cardinality(At(Counted)') = Cardinality(At(Counted)) - 1
    BY <1>a, <2>1, <1>c, CountMoves
  <2>3. At(Started)' = At(Started)
    BY <1>a, <2>1, <1>b, CountMoves
  <2>4. QED
    BY <2>1, <2>2, <2>3 DEF CountsExact
<1>5. ASSUME NEW c \in Conns, NEW from \in HandlerPCs, NEW to \in HandlerPCs,
             Goto(c, from, to), UNCHANGED <<wg, active>>,
             from \in Started <=> to \in Started, from \in Counted <=> to \in Counted
      PROVE  CountsExact'
  <2>1. At(Started)' = At(Started) /\ At(Counted)' = At(Counted)
    BY <1>a, <1>5, CountMoves
  <2>2. QED
    BY <1>5, <2>1 DEF CountsExact
<1>6. ASSUME NEW c \in Conns, Accept(c) \/ Refuse(c) \/ Admit(c) \/ ProxyEnds(c)
                              \/ Assign(c) \/ AssignFails(c) \/ Remove(c)
      PROVE  CountsExact'
  <2>1. UNCHANGED <<wg, active>>
    BY <1>6 DEF Accept, Refuse, Admit, ProxyEnds, Assign, AssignFails, Remove
  <2>2. \/ Goto(c, "idle", "spawned") \/ Goto(c, "reading", "closing")
        \/ Goto(c, "reading", "assigning") \/ Goto(c, "reading", "proxying")
        \/ Goto(c, "proxying", "closing") \/ Goto(c, "assigning", "counting")
        \/ Goto(c, "assigning", "closing") \/ Goto(c, "removing", "closing")
    BY <1>6 DEF Accept, Refuse, Admit, ProxyEnds, Assign, AssignFails, Remove
  <2>3. QED
    BY <1>5, <2>1, <2>2 DEF Started, Counted, HandlerPCs
<1>7. ASSUME NEW c \in Conns, Greet(c) \/ GreetFails(c) \/ DeliverFails(c) \/ LoopEnds(c)
      PROVE  CountsExact'
  <2>1. UNCHANGED <<wg, active>>
    BY <1>7 DEF Greet, GreetFails, DeliverFails, LoopEnds
  <2>2. \/ Goto(c, "greeting", "serving") \/ Goto(c, "greeting", "leaving")
        \/ Goto(c, "serving", "leaving")
    BY <1>7 DEF Greet, GreetFails, DeliverFails, LoopEnds
  <2>3. QED
    BY <1>5, <2>1, <2>2 DEF Started, Counted, HandlerPCs
<1>8. ASSUME UNCHANGED <<handler, wg, active>> PROVE CountsExact'
  BY <1>8 DEF CountsExact, At
<1>9. ASSUME NEW c \in Conns, Deliver(c) \/ ForwarderStep(c) \/ PeerStep(c) \/ Kick(c)
      PROVE  CountsExact'
  BY <1>8, <1>9 DEF Deliver, ForwarderStep, FrameLoopEnds, MarkDead, CloseChan,
     PeerStep, PeerResets, PeerVanishes, Kick
<1>10. CASE RouterStep \/ ReaperStep \/ MainStep
  BY <1>8, <1>10 DEF RouterStep, Lookup, CheckDead, SendPacket, SendPanics,
     ReaperStep, ReaperTick, Reap, ReaperStops, MainStep, Shutdown, AcceptEnds, StartReturns
<1>11. CASE UNCHANGED vars
  BY <1>8, <1>11 DEF vars
<1>12. QED
  BY <1>1, <1>2, <1>3, <1>4, <1>6, <1>7, <1>9, <1>10, <1>11 DEF Next, HandlerStep

\* The gauge counts the handlers between IncConnected and DecConnected, the
\* WaitGroup those between Add and Done.
THEOREM CountersExact == Spec => []CountsExact
<1>1. Init => CountsExact
  <2> SUFFICES ASSUME Init PROVE CountsExact
    OBVIOUS
  <2>1. At(Counted) = {} /\ At(Started) = {}
    BY DEF Init, At, Counted, Started
  <2>2. QED
    BY <2>1, FS_EmptySet DEF CountsExact, Init
<1>2. QED
  BY <1>1, CountsStep, TypeCorrect, PTL DEF Spec

\* The gauge is between zero and the number of addresses handed out.
THEOREM GaugeBounded == Spec => []GaugeWithinRegistry
<1>1. TypeOK /\ AddressOwnership /\ CountsExact => GaugeWithinRegistry
  <2> SUFFICES ASSUME TypeOK, AddressOwnership, CountsExact PROVE GaugeWithinRegistry
    OBVIOUS
  <2> DEFINE Taken == {i \in Octets : ~Free(i)}
             addressOf == [c \in At(Counted) |-> ip[c]]
  <2>1. IsFiniteSet(Taken)
    <3>1. IsFiniteSet(Octets)
      BY PoolAssumption, FS_Interval DEF Octets
    <3>2. QED
      BY <3>1, FS_Subset
  <2>2. \A c \in At(Counted) : ip[c] \in Octets /\ clients[ip[c]] = c /\ c \in Conns
    BY DEF At, Counted, Registered, AddressOwnership
  <2>3. addressOf \in Injection(At(Counted), Taken)
    <3>1. addressOf \in [At(Counted) -> Taken]
      BY <2>2, NoConnAssumption DEF Free
    <3>2. \A c, d \in At(Counted) : addressOf[c] = addressOf[d] => c = d
      BY <2>2
    <3>3. QED
      BY <3>1, <3>2 DEF Injection, IsInjective
  <2>4. Cardinality(At(Counted)) <= Cardinality(Taken) /\ IsFiniteSet(At(Counted))
    <3> HIDE DEF Taken, addressOf
    <3>1. QED
      BY <2>1, <2>3, FS_Injection
  <2>5. Cardinality(At(Counted)) \in Nat /\ Cardinality(Taken) \in Nat
    BY <2>1, <2>4, FS_CardinalityType
  <2>6. QED
    BY <2>4, <2>5 DEF CountsExact, GaugeWithinRegistry
<1>2. QED
  BY <1>1, TypeCorrect, AddressesOwned, CountersExact, PTL

\* When wg.Wait returns, every handler that called wg.Add has called wg.Done and
\* the registry is empty.
THEOREM TeardownAfterDrain == Spec => DrainedBeforeTeardown
<1>1. TypeOK /\ AddressOwnership /\ CountsExact /\ [Next]_vars =>
        (main = "waiting" /\ main' = "returned" =>
           /\ \A i \in Octets : Free(i)
           /\ \A c \in Conns : handler[c] \notin Started)
  <2> SUFFICES ASSUME TypeOK, AddressOwnership, CountsExact, [Next]_vars,
                      main = "waiting", main' = "returned"
               PROVE  /\ \A i \in Octets : Free(i)
                      /\ \A c \in Conns : handler[c] \notin Started
    OBVIOUS
  <2>1. wg = 0
    <3>1. StartReturns \/ UNCHANGED main
      BY DEF Next, HandlerStep, ForwarderStep, PeerStep, RouterStep, ReaperStep, MainStep,
         Accept, Begin, Refuse, Admit, ProxyEnds, Assign, AssignFails, IncConnected, Greet,
         GreetFails, Deliver, DeliverFails, LoopEnds, DecConnected, Remove, Finish,
         FrameLoopEnds, MarkDead, CloseChan, PeerResets, PeerVanishes, Kick, Lookup,
         CheckDead, SendPacket, SendPanics, ReaperTick, Reap, ReaperStops, Shutdown,
         AcceptEnds, vars, serverVars
    <3>2. QED
      BY <3>1 DEF StartReturns
  <2>2. At(Started) = {}
    <3>1. IsFiniteSet(At(Started))
      BY ConnsFinite, FS_Subset DEF At
    <3>2. QED
      BY <2>1, <3>1, FS_EmptySet DEF CountsExact
  <2>3. \A c \in Conns : handler[c] \notin Started
    BY <2>2 DEF At
  <2>4. \A c \in Conns : handler[c] \notin Registered
    BY <2>3 DEF Started, Registered, HandlerPCs
  <2>5. \A i \in Octets : Free(i)
    BY <2>4 DEF AddressOwnership, TypeOK, Free
  <2>6. QED
    BY <2>3, <2>5
<1>2. QED
  BY <1>1, TypeCorrect, AddressesOwned, CountersExact, PTL DEF Spec, DrainedBeforeTeardown

-----------------------------------------------------------------------------
(* The dead flag and the send channel.                                     *)

\* dead is set before the channel is closed, and stays set; the router holds a
\* client while it is not reading; only Assign gives an address.
LEMMA ChannelStep ==
  TypeOK /\ AddressOwnership /\ ChannelOrder /\ RouterHasTarget /\ NoEarlyAddress /\ [Next]_vars
    => ChannelOrder' /\ RouterHasTarget' /\ NoEarlyAddress'
<1> SUFFICES ASSUME TypeOK, AddressOwnership, ChannelOrder, RouterHasTarget, NoEarlyAddress,
                    [Next]_vars
             PROVE  ChannelOrder' /\ RouterHasTarget' /\ NoEarlyAddress'
  OBVIOUS
<1> DEFINE Early == {"idle", "spawned", "reading", "proxying", "assigning"}
           Late  == {"serving", "leaving", "removing", "closing", "gone"}
<1> USE DEF connVars, clientVars, serverVars, Goto
<1>1. ASSUME UNCHANGED <<forwarder, dead, chanClosed>>,
             \A c \in Conns : handler[c] \in Late => handler'[c] \in Late
      PROVE  ChannelOrder'
  BY <1>1 DEF ChannelOrder
<1>2. ASSUME UNCHANGED <<router, target>> PROVE RouterHasTarget'
  BY <1>2 DEF RouterHasTarget
<1>3. ASSUME UNCHANGED ip, \A c \in Conns : handler'[c] \in Early => handler[c] \in Early
      PROVE  NoEarlyAddress'
  BY <1>3 DEF NoEarlyAddress
<1>4. ASSUME NEW c \in Conns, Assign(c)
      PROVE  ChannelOrder' /\ RouterHasTarget' /\ NoEarlyAddress'
  <2>1. ChannelOrder' /\ RouterHasTarget'
    BY <1>1, <1>2, <1>4 DEF Assign, TypeOK
  <2>2. NoEarlyAddress'
    BY <1>4 DEF Assign, TypeOK, NoEarlyAddress
  <2>3. QED
    BY <2>1, <2>2
<1>5. ASSUME NEW c \in Conns, Greet(c)
      PROVE  ChannelOrder' /\ RouterHasTarget' /\ NoEarlyAddress'
  <2>1. RouterHasTarget' /\ NoEarlyAddress'
    BY <1>2, <1>3, <1>5 DEF Greet, TypeOK
  <2>2. forwarder[c] = "none" /\ ~chanClosed[c]
    BY <1>5 DEF Greet, ChannelOrder, TypeOK
  <2>3. ChannelOrder'
    BY <1>5, <2>2 DEF Greet, ChannelOrder, TypeOK
  <2>4. QED
    BY <2>1, <2>3
<1>6. ASSUME NEW c \in Conns, Accept(c) \/ Begin(c) \/ Refuse(c) \/ Admit(c) \/ ProxyEnds(c)
                              \/ AssignFails(c) \/ Finish(c)
      PROVE  ChannelOrder' /\ RouterHasTarget' /\ NoEarlyAddress'
  <2>1. \A d \in Conns : handler[d] \in Late => handler'[d] \in Late
    BY <1>6 DEF Accept, Begin, Refuse, Admit, ProxyEnds, AssignFails, Finish, TypeOK
  <2>2. \A d \in Conns : handler'[d] \in Early => handler[d] \in Early
    BY <1>6 DEF Accept, Begin, Refuse, Admit, ProxyEnds, AssignFails, Finish, TypeOK
  <2>3. UNCHANGED <<forwarder, dead, chanClosed, router, target, ip>>
    BY <1>6 DEF Accept, Begin, Refuse, Admit, ProxyEnds, AssignFails, Finish
  <2>4. QED
    BY <1>1, <1>2, <1>3, <2>1, <2>2, <2>3
<1>7. ASSUME NEW c \in Conns, IncConnected(c) \/ GreetFails(c) \/ DeliverFails(c) \/ LoopEnds(c)
                              \/ DecConnected(c) \/ Remove(c)
      PROVE  ChannelOrder' /\ RouterHasTarget' /\ NoEarlyAddress'
  <2>1. \A d \in Conns : handler[d] \in Late => handler'[d] \in Late
    BY <1>7 DEF IncConnected, GreetFails, DeliverFails, LoopEnds, DecConnected, Remove, TypeOK
  <2>2. \A d \in Conns : handler'[d] \in Early => handler[d] \in Early
    BY <1>7 DEF IncConnected, GreetFails, DeliverFails, LoopEnds, DecConnected, Remove, TypeOK
  <2>3. UNCHANGED <<forwarder, dead, chanClosed, router, target, ip>>
    BY <1>7 DEF IncConnected, GreetFails, DeliverFails, LoopEnds, DecConnected, Remove
  <2>4. QED
    BY <1>1, <1>2, <1>3, <2>1, <2>2, <2>3
<1>8. ASSUME NEW c \in Conns, ForwarderStep(c)
      PROVE  ChannelOrder' /\ RouterHasTarget' /\ NoEarlyAddress'
  <2>1. ChannelOrder'
    BY <1>8 DEF ForwarderStep, FrameLoopEnds, MarkDead, CloseChan, ChannelOrder, TypeOK
  <2>2. UNCHANGED <<handler, router, target, ip>>
    BY <1>8 DEF ForwarderStep, FrameLoopEnds, MarkDead, CloseChan
  <2>3. QED
    BY <1>2, <1>3, <2>1, <2>2
<1>9. CASE RouterStep
  <2>1. UNCHANGED <<handler, forwarder, dead, chanClosed, ip>>
    BY <1>9 DEF RouterStep, Lookup, CheckDead, SendPacket, SendPanics
  <2>2. RouterHasTarget'
    BY <1>9 DEF RouterStep, Lookup, CheckDead, SendPacket, SendPanics, RouterHasTarget,
       TypeOK, Free
  <2>3. QED
    BY <1>1, <1>3, <2>1, <2>2
<1>10. ASSUME UNCHANGED <<handler, forwarder, dead, chanClosed, router, target, ip>>
       PROVE  ChannelOrder' /\ RouterHasTarget' /\ NoEarlyAddress'
  BY <1>1, <1>2, <1>3, <1>10
<1>11. ASSUME NEW c \in Conns, Deliver(c) \/ PeerStep(c) \/ Kick(c)
       PROVE  ChannelOrder' /\ RouterHasTarget' /\ NoEarlyAddress'
  BY <1>10, <1>11 DEF Deliver, PeerStep, PeerResets, PeerVanishes, Kick
<1>12. CASE ReaperStep \/ MainStep
  BY <1>10, <1>12 DEF ReaperStep, ReaperTick, Reap, ReaperStops, MainStep, Shutdown,
     AcceptEnds, StartReturns
<1>13. CASE UNCHANGED vars
  BY <1>10, <1>13 DEF vars
<1>14. QED
  BY <1>4, <1>5, <1>6, <1>7, <1>8, <1>9, <1>11, <1>12, <1>13 DEF Next, HandlerStep

\* The inductive invariant.
THEOREM Invariance == Spec => []Inv
<1>1. Init => ChannelOrder /\ RouterHasTarget /\ NoEarlyAddress
  BY DEF Init, ChannelOrder, RouterHasTarget, NoEarlyAddress
<1>2. QED
  BY <1>1, ChannelStep, TypeCorrect, AddressesOwned, CountersExact, PTL DEF Spec, Inv

\* The router never gets past its dead check for a client whose channel is closed.
THEOREM DeadCheckSound == Spec => CheckStopsClosed
<1>1. Inv /\ [Next]_vars =>
        (router = "checking" /\ router' = "sending" => ~chanClosed[target])
  <2> SUFFICES ASSUME Inv, [Next]_vars, router = "checking", router' = "sending"
               PROVE  ~chanClosed[target]
    OBVIOUS
  <2>1. RouterStep \/ UNCHANGED router
    BY DEF Next, HandlerStep, ForwarderStep, PeerStep, RouterStep, ReaperStep, MainStep,
       Accept, Begin, Refuse, Admit, ProxyEnds, Assign, AssignFails, IncConnected, Greet,
       GreetFails, Deliver, DeliverFails, LoopEnds, DecConnected, Remove, Finish,
       FrameLoopEnds, MarkDead, CloseChan, PeerResets, PeerVanishes, Kick, ReaperTick, Reap,
       ReaperStops, Shutdown, AcceptEnds, StartReturns, vars, serverVars
  <2>2. CheckDead /\ ~dead[target]
    BY <2>1 DEF RouterStep, Lookup, CheckDead, SendPacket, SendPanics
  <2>3. target \in Conns
    BY DEF Inv, RouterHasTarget
  <2>4. QED
    BY <2>2, <2>3 DEF Inv, ChannelOrder
<1>2. QED
  BY <1>1, Invariance, PTL DEF Spec, CheckStopsClosed

-----------------------------------------------------------------------------
(* The abstract pool.                                                      *)

\* Every step of the server is a Grant, a Release or no step of the pool: Assign
\* grants the lowest free address to a connection that never had one, and the
\* deferred Remove releases the caller's own address.
THEOREM PoolImplemented == Spec => PoolRefinement
<1>1. Init => Pool!PoolInit
  BY DEF Init, Pool!PoolInit, Pool!Octets, Octets, Ended
<1>2. Inv /\ [Next]_vars => [Pool!PoolNext]_(Pool!poolVars)
  <2> SUFFICES ASSUME Inv, [Next]_vars PROVE [Pool!PoolNext]_(Pool!poolVars)
    OBVIOUS
  <2> USE DEF connVars, clientVars, serverVars, Goto
  <2>0. ASSUME UNCHANGED <<clients, ip>>,
               \A c \in Conns : handler'[c] \in Registered <=> handler[c] \in Registered
        PROVE  UNCHANGED (Pool!poolVars)
    BY <2>0 DEF Pool!poolVars, Ended
  <2>1. ASSUME NEW c \in Conns, Assign(c) PROVE Pool!Grant(c)
    <3> PICK i \in Octets : /\ LowestFree(i)
                            /\ clients' = [clients EXCEPT ![i] = c]
                            /\ ip' = [ip EXCEPT ![c] = i]
      BY <2>1 DEF Assign
    <3>1. handler[c] = "assigning" /\ handler' = [handler EXCEPT ![c] = "counting"]
      BY <2>1 DEF Assign
    <3>2. ip[c] = 0
      BY <3>1 DEF Inv, NoEarlyAddress
    <3>3. c \notin Ended
      BY <3>2 DEF Ended
    <3>4. \A j \in Octets : clients[j] # c
      BY <3>1 DEF Inv, AddressOwnership, Registered
    <3>5. Ended' = Ended
      BY <3>1, <3>2 DEF Ended, Inv, TypeOK, Registered
    <3>6. Pool!LowestFree(i)
      BY DEF LowestFree, Free, Pool!LowestFree, Pool!Octets, Octets
    <3>7. QED
      BY <3>3, <3>4, <3>5, <3>6 DEF Pool!Grant, Pool!Octets, Octets
  <2>2. ASSUME NEW c \in Conns, Remove(c) PROVE Pool!Release(c)
    <3>1. /\ handler[c] = "removing" /\ handler' = [handler EXCEPT ![c] = "closing"]
          /\ clients' = [clients EXCEPT ![ip[c]] = NoConn] /\ ip' = ip
      BY <2>2 DEF Remove
    <3>2. ip[c] \in Octets /\ clients[ip[c]] = c
      BY <3>1 DEF Inv, AddressOwnership, Registered
    <3>3. ip[c] # 0
      BY <3>2, PoolAssumption DEF Octets
    <3>4. Ended' = Ended \union {c}
      BY <3>1, <3>3 DEF Ended, Inv, TypeOK, Registered
    <3>5. QED
      BY <3>1, <3>2, <3>4 DEF Pool!Release, Pool!Octets, Octets
  <2>3. ASSUME NEW c \in Conns, Accept(c) \/ Begin(c) \/ Refuse(c) \/ Admit(c) \/ ProxyEnds(c)
                                \/ AssignFails(c) \/ Finish(c)
        PROVE  UNCHANGED (Pool!poolVars)
    <3>1. UNCHANGED <<clients, ip>>
      BY <2>3 DEF Accept, Begin, Refuse, Admit, ProxyEnds, AssignFails, Finish
    <3>2. \A d \in Conns : handler'[d] \in Registered <=> handler[d] \in Registered
      BY <2>3 DEF Accept, Begin, Refuse, Admit, ProxyEnds, AssignFails, Finish, Inv, TypeOK,
                  Registered
    <3>3. QED
      BY <2>0, <3>1, <3>2
  <2>4. ASSUME NEW c \in Conns, IncConnected(c) \/ Greet(c) \/ GreetFails(c) \/ DeliverFails(c)
                                \/ LoopEnds(c) \/ DecConnected(c)
        PROVE  UNCHANGED (Pool!poolVars)
    <3>1. UNCHANGED <<clients, ip>>
      BY <2>4 DEF IncConnected, Greet, GreetFails, DeliverFails, LoopEnds, DecConnected
    <3>2. \A d \in Conns : handler'[d] \in Registered <=> handler[d] \in Registered
      BY <2>4 DEF IncConnected, Greet, GreetFails, DeliverFails, LoopEnds, DecConnected,
                  Inv, TypeOK, Registered
    <3>3. QED
      BY <2>0, <3>1, <3>2
  <2>5. ASSUME NEW c \in Conns, Deliver(c) \/ ForwarderStep(c) \/ PeerStep(c) \/ Kick(c)
        PROVE  UNCHANGED (Pool!poolVars)
    BY <2>0, <2>5 DEF Deliver, ForwarderStep, FrameLoopEnds, MarkDead, CloseChan,
       PeerStep, PeerResets, PeerVanishes, Kick
  <2>6. CASE RouterStep \/ ReaperStep \/ MainStep
    BY <2>0, <2>6 DEF RouterStep, Lookup, CheckDead, SendPacket, SendPanics, ReaperStep,
       ReaperTick, Reap, ReaperStops, MainStep, Shutdown, AcceptEnds, StartReturns
  <2>7. CASE UNCHANGED vars
    BY <2>0, <2>7 DEF vars
  <2>8. QED
    BY <2>1, <2>2, <2>3, <2>4, <2>5, <2>6, <2>7 DEF Next, HandlerStep, Pool!PoolNext
<1>3. QED
  BY <1>1, <1>2, Invariance, PTL DEF Spec, PoolRefinement, Pool!PoolSpec
=============================================================================
