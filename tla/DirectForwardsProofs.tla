------------------------ MODULE DirectForwardsProofs ------------------------
(***************************************************************************)
(* Connections and listeners of direct forwards can always be found by the *)
(* deletions that are to end them: proved for every whitelist, set of      *)
(* rules and number of connections, listeners and handlers.                *)
(***************************************************************************)
EXTENDS DirectForwards, TLAPS

\* WhitelistManager.Add lets in one entry per name and per pattern.
Distinct(list) == \A e, f \in list : e.name = f.name \/ e.ip = f.ip => e = f

Entries == [name : Names, ip : Patterns]

\* What the files hold is what New may load from them.
FileTypes ==
    /\ wlFile \subseteq Entries \union {None} /\ Distinct(Parsed(wlFile))
    /\ fwFile \subseteq Ports \union {None}

\* A handler that stops a listener knows its port, and so does a listener that was started.
PortsKnown ==
    /\ \A a \in Admins : admin[a].pc \in {"stopping", "closing"} => admin[a].port \in Ports
    /\ \A l \in Listeners :
         lis[l].pc \in {"spawned", "bound", "accepting"} => lis[l].port \in Ports

\* The inductive invariant of TypeOK.
TypeInv == TypeOK /\ FileTypes /\ PortsKnown

\* net.Listen: no two sockets are bound to one port.
BoundOnce ==
    \A k, l \in Listeners : Bound(k) /\ Bound(l) /\ lis[k].port = lis[l].port => k = l

\* The inductive invariant of ListenerReachable.
ReachInv == BoundOnce /\ ListenerReachable

-----------------------------------------------------------------------------
(* Types.                                                                  *)

\* The states of a handler.
Handlers == [pc : {"idle", "captured", "stopping", "closing"}, name : Names \union {None},
             ip : Patterns \union {None}, port : Ports \union {None},
             ln : Listeners \union {None}]

\* The states of a listener.
Goroutines == [pc : {"none", "spawned", "bound", "accepting", "ended"},
               port : Ports \union {None}]

\* An idle handler is a handler that knows no port.
LEMMA IdleHandler == Idle \in Handlers /\ Idle.pc = "idle"
  BY DEF Idle, Handlers

\* A save, whether it succeeds or not, leaves a file that New can load.
LEMMA WhitelistSaved ==
  ASSUME TypeInv, whitelist' \subseteq Entries, Distinct(whitelist'),
         SaveWhitelist \/ WhitelistSaveFails
  PROVE  /\ wlFile' \subseteq Entries \union {None} /\ Distinct(Parsed(wlFile'))
         /\ detached' = detached
<1>1. CASE SaveWhitelist
  BY <1>1 DEF SaveWhitelist, Distinct, Parsed
<1>2. CASE WhitelistSaveFails
  <2>1. wlFile' = wlFile \/ wlFile' = {None}
    BY <1>2 DEF WhitelistSaveFails
  <2>2. QED
    BY <1>2, <2>1 DEF WhitelistSaveFails, TypeInv, FileTypes, Distinct, Parsed
<1>3. QED
  BY <1>1, <1>2

\* A save of the rules, whether it fails or not, leaves a file New may load.
LEMMA RulesSaved ==
  ASSUME TypeInv, rules' \subseteq Ports, SaveRules \/ RulesSaveFails
  PROVE  fwFile' \subseteq Ports \union {None} /\ detached' = detached
  BY DEF SaveRules, RulesSaveFails, TypeInv, FileTypes

\* Every action keeps the types, Restart included, which loads what was saved.
LEMMA TypeStep == TypeInv /\ [Next]_vars => TypeInv'
<1> SUFFICES ASSUME TypeInv, [Next]_vars PROVE TypeInv'
  OBVIOUS
<1>a. TypeOK /\ FileTypes /\ PortsKnown
  BY DEF TypeInv
<1> USE DEF wlVars, ruleVars, connVars
<1>1. ASSUME NEW n \in Names, NEW p \in Patterns, WhitelistAdd(n, p) PROVE TypeInv'
  <2>1. whitelist' \subseteq Entries /\ Distinct(whitelist')
    BY <1>1, <1>a DEF WhitelistAdd, TypeOK, Entries, Distinct
  <2>2. wlFile' \subseteq Entries \union {None} /\ Distinct(Parsed(wlFile'))
        /\ detached' = detached
    BY <1>1, <2>1, WhitelistSaved DEF WhitelistAdd
  <2>3. QED
    BY <1>1, <1>a, <2>1, <2>2
       DEF WhitelistAdd, TypeInv, TypeOK, FileTypes, PortsKnown, Entries, Distinct, Parsed
<1>2. ASSUME NEW a \in Admins, NEW n \in Names, DeleteCapture(a, n) PROVE TypeInv'
  <2>1. PICK ip \in IF Named(n) = {} THEN {None} ELSE {e.ip : e \in Named(n)} :
          admin' = [admin EXCEPT ![a] =
                      [Idle EXCEPT !.pc = "captured", !.name = n, !.ip = ip]]
    BY <1>2 DEF DeleteCapture
  <2>2. ip \in Patterns \union {None}
    BY <1>a DEF Named, TypeOK
  <2>3. /\ [Idle EXCEPT !.pc = "captured", !.name = n, !.ip = ip] \in Handlers
        /\ [Idle EXCEPT !.pc = "captured", !.name = n, !.ip = ip].pc = "captured"
    BY <2>2, IdleHandler DEF Handlers
  <2>4. /\ admin' \in [Admins -> Handlers] /\ admin'[a].pc = "captured"
        /\ \A b \in Admins \ {a} : admin'[b] = admin[b]
    BY <1>a, <2>1, <2>3 DEF TypeOK, Handlers
  <2>5. UNCHANGED <<wlVars, ruleVars, connVars, detached>>
    BY <1>2 DEF DeleteCapture
  <2>6. QED
    BY <1>a, <2>4, <2>5
       DEF TypeInv, TypeOK, FileTypes, PortsKnown, Handlers, Parsed, Distinct
<1>3. ASSUME NEW a \in Admins, DeleteRemove(a) PROVE TypeInv'
  <2>1. whitelist' \subseteq whitelist
    BY <1>3 DEF DeleteRemove, Named
  <2>2. whitelist' \subseteq Entries /\ Distinct(whitelist')
    BY <1>a, <2>1 DEF TypeOK, Entries, Distinct
  <2>3. wlFile' \subseteq Entries \union {None} /\ Distinct(Parsed(wlFile'))
        /\ detached' = detached
    BY <1>3, <2>2, WhitelistSaved DEF DeleteRemove
  <2>4. kills' \subseteq Patterns /\ evicted' \subseteq Conns
    BY <1>3, <1>a DEF DeleteRemove, Evicted, TypeOK
  <2>5. admin' = [admin EXCEPT ![a] = Idle]
    BY <1>3 DEF DeleteRemove, AdminDone
  <2>6. QED
    BY <1>3, <1>a, <2>2, <2>3, <2>4, <2>5, IdleHandler
       DEF DeleteRemove, TypeInv, TypeOK, FileTypes, PortsKnown, Entries, Distinct, Parsed,
           Handlers
<1>4. ASSUME NEW a \in Admins, DeleteFails(a) PROVE TypeInv'
  <2>1. admin' = [admin EXCEPT ![a] = Idle] /\ UNCHANGED <<wlVars, ruleVars, connVars, detached>>
    BY <1>4 DEF DeleteFails, AdminDone
  <2>2. QED
    BY <1>a, <2>1, IdleHandler
       DEF TypeInv, TypeOK, FileTypes, PortsKnown, Handlers, Parsed, Distinct
<1>5. ASSUME NEW a \in Admins, StopTake(a) PROVE TypeInv'
  <2>1. admin[a].port \in Ports
    BY <1>5, <1>a DEF StopTake, PortsKnown
  <2>2. byPort[admin[a].port] \in Listeners \union {None}
    BY <1>a, <2>1 DEF TypeOK
  <2>3. /\ admin' \in [Admins -> Handlers]
        /\ \A b \in Admins : admin'[b].port = admin[b].port
        /\ \A b \in Admins \ {a} : admin'[b] = admin[b]
    <3> DEFINE ln == byPort[admin[a].port]
    <3>1. admin' = [admin EXCEPT ![a].pc = "closing", ![a].ln = ln]
      BY <1>5 DEF StopTake
    <3>2. admin \in [Admins -> Handlers] /\ ln \in Listeners \union {None}
      BY <1>a, <2>2 DEF TypeOK, Handlers
    <3> HIDE DEF ln
    <3>3. QED
      BY <3>1, <3>2 DEF Handlers
  <2>4. byPort' \in [Ports -> Listeners \union {None}] /\ strays' \subseteq Listeners
        /\ UNCHANGED <<wlVars, rules, fwFile, lis, bindErrors, connVars, detached>>
    BY <1>5, <1>a DEF StopTake, TooEarlyFor, Live, TypeOK
  <2>5. QED
    BY <1>a, <2>1, <2>3, <2>4
       DEF TypeInv, TypeOK, FileTypes, PortsKnown, Handlers, Parsed, Distinct
<1>6. ASSUME NEW a \in Admins, StopClose(a) PROVE TypeInv'
  <2>1. admin' = [admin EXCEPT ![a] = Idle]
        /\ UNCHANGED <<wlVars, rules, fwFile, byPort, strays, connVars, detached>>
        /\ bindErrors' \subseteq bindErrors
    BY <1>6 DEF StopClose, AdminDone
  <2>2. lis' = lis \/ \E l \in Listeners : lis' = [lis EXCEPT ![l].pc = "ended"]
    BY <1>6, <1>a DEF StopClose, TypeOK
  <2>3. /\ admin' \in [Admins -> Handlers]
        /\ \A b \in Admins : admin'[b] = admin[b] \/ admin'[b].pc = "idle"
    BY <1>a, <2>1, IdleHandler DEF TypeOK, Handlers
  <2>4. /\ lis' \in [Listeners -> Goroutines]
        /\ \A l \in Listeners : lis'[l] = lis[l] \/ lis'[l].pc = "ended"
    BY <1>a, <2>2 DEF TypeOK, Goroutines
  <2>5. QED
    BY <1>a, <2>1, <2>3, <2>4
       DEF Goroutines, TypeInv, TypeOK, FileTypes, PortsKnown, Handlers, Parsed, Distinct
<1>7. CASE \/ \E p \in Patterns : Kill(p)
           \/ \E c \in Conns : KillClose(c) \/ Reject(c) \/ Pass(c) \/ Track(c) \/ ServeEnds(c)
           \/ \E l \in Listeners, c \in Conns, ip \in Addrs : AcceptDirect(l, c, ip)
  <2>1. UNCHANGED <<whitelist, wlFile, ruleVars, admin, detached>>
    BY <1>7 DEF Kill, KillClose, Reject, Pass, Track, ServeEnds, AcceptDirect
  <2>2. /\ kills' \subseteq kills /\ victims' \subseteq Conns /\ tracked' \subseteq Conns
        /\ evicted' \subseteq evicted
    BY <1>7, <1>a DEF Kill, KillClose, Reject, Pass, Track, ServeEnds, AcceptDirect, TypeOK
  <2>3. /\ direct' \in [Conns -> {"idle", "checking", "tracking", "serving", "gone"}]
        /\ from' \in [Conns -> Addrs \union {None}]
    BY <1>7, <1>a
       DEF Kill, KillClose, Reject, Pass, Track, ServeEnds, AcceptDirect, Goto, TypeOK
  <2>4. closed' \in [Conns -> BOOLEAN]
    BY <1>7, <1>a DEF Kill, KillClose, Reject, Pass, Track, ServeEnds, AcceptDirect, TypeOK
  <2>5. QED
    BY <1>a, <2>1, <2>2, <2>3, <2>4 DEF TypeInv, TypeOK, FileTypes, PortsKnown, Parsed, Distinct
<1>8. ASSUME NEW l \in Listeners, NEW p \in Ports, RuleAdd(l, p) PROVE TypeInv'
  <2>1. rules' \subseteq Ports
    BY <1>8, <1>a DEF RuleAdd, TypeOK
  <2>2. fwFile' \subseteq Ports \union {None} /\ detached' = detached
    BY <1>8, <2>1, RulesSaved DEF RuleAdd
  <2>3. /\ lis' \in [Listeners -> Goroutines]
        /\ \A k \in Listeners : lis'[k] = lis[k] \/ lis'[k].port = p
    BY <1>8, <1>a DEF RuleAdd, Spawn, TypeOK, Goroutines
  <2>4. UNCHANGED <<wlVars, byPort, bindErrors, connVars, admin>> /\ strays' \subseteq strays
    BY <1>8 DEF RuleAdd
  <2>5. QED
    BY <1>a, <2>1, <2>2, <2>3, <2>4
       DEF TypeInv, TypeOK, FileTypes, PortsKnown, Parsed, Distinct, Goroutines
<1>9. ASSUME NEW a \in Admins, NEW p \in Ports, RuleDelete(a, p) PROVE TypeInv'
  <2>1. rules' \subseteq Ports
    BY <1>9, <1>a DEF RuleDelete, TypeOK
  <2>2. fwFile' \subseteq Ports \union {None} /\ detached' = detached
    BY <1>9, <2>1, RulesSaved DEF RuleDelete
  <2>3. /\ [Idle EXCEPT !.pc = "stopping", !.port = p] \in Handlers
        /\ [Idle EXCEPT !.pc = "stopping", !.port = p].port = p
    BY IdleHandler DEF Handlers
  <2>4. admin' = admin
        \/ admin' = [admin EXCEPT ![a] = [Idle EXCEPT !.pc = "stopping", !.port = p]]
    BY <1>9 DEF RuleDelete
  <2>5. /\ admin' \in [Admins -> Handlers]
        /\ \A b \in Admins : admin'[b] = admin[b] \/ admin'[b].port = p
    <3> DEFINE AtStop == [Idle EXCEPT !.pc = "stopping", !.port = p]
    <3>1. AtStop \in Handlers /\ AtStop.port = p
      BY <2>3
    <3>2. admin \in [Admins -> Handlers]
      BY <1>a DEF TypeOK, Handlers
    <3> HIDE DEF AtStop
    <3>3. QED
      BY <2>4, <3>1, <3>2 DEF AtStop
  <2>6. UNCHANGED <<wlVars, lis, byPort, bindErrors, connVars>>
        /\ strays' \subseteq strays \union Live(p)
    BY <1>9 DEF RuleDelete
  <2>7. QED
    BY <1>a, <2>1, <2>2, <2>5, <2>6
       DEF TypeInv, TypeOK, FileTypes, PortsKnown, Handlers, Live, Parsed, Distinct
<1>10. ASSUME NEW l \in Listeners, Bind(l) \/ BindFails(l) \/ Register(l) PROVE TypeInv'
  <2>1. lis[l].port \in Ports
    BY <1>10, <1>a DEF Bind, BindFails, Register, PortsKnown
  <2>2. UNCHANGED <<wlVars, rules, fwFile, strays, connVars, admin, detached>>
    BY <1>10 DEF Bind, BindFails, Register
  <2>3. \E next \in {"bound", "accepting", "ended"} : lis' = [lis EXCEPT ![l].pc = next]
    BY <1>10 DEF Bind, BindFails, Register
  <2>4. bindErrors' \subseteq Ports /\ byPort' \in [Ports -> Listeners \union {None}]
    BY <1>10, <1>a, <2>1 DEF Bind, BindFails, Register, TypeOK
  <2>5. QED
    BY <1>a, <2>1, <2>2, <2>3, <2>4
       DEF TypeInv, TypeOK, FileTypes, PortsKnown, Parsed, Distinct
<1>11. CASE Restart
  <2>1. /\ whitelist' = Parsed(wlFile) /\ rules' = Parsed(fwFile)
        /\ wlFile' = wlFile /\ fwFile' = fwFile /\ from' = from
        /\ byPort' = [p \in Ports |-> None] /\ bindErrors' = {}
        /\ admin' = [a \in Admins |-> Idle]
        /\ kills' = {} /\ victims' = {} /\ tracked' = {} /\ evicted' = {} /\ strays' = {}
        /\ direct' = [c \in Conns |-> IF direct[c] = "idle" THEN "idle" ELSE "gone"]
    BY <1>11 DEF Restart
  <2>2. closed' \in [Conns -> BOOLEAN]
    BY <1>11, Zenon DEF Restart
  <2>3. detached' \subseteq {"whitelist", "rules"}
    BY <1>11 DEF Restart
  <2>4. Parsed(fwFile) \subseteq Ports /\ Parsed(wlFile) \subseteq Entries
    BY <1>a DEF Parsed, FileTypes
  <2>5. /\ lis' \in [Listeners -> [pc : {"none", "spawned", "bound", "accepting", "ended"},
                                    port : Ports \union {None}]]
        /\ \A l \in Listeners :
             lis'[l].pc \in {"spawned", "bound", "accepting"} => lis'[l].port \in Ports
    <3> PICK f \in [Parsed(fwFile) -> Listeners] :
         lis' = [l \in Listeners |->
                  IF \E p \in Parsed(fwFile) : f[p] = l
                  THEN [pc |-> "spawned", port |-> CHOOSE p \in Parsed(fwFile) : f[p] = l]
                  ELSE IF lis[l].pc = "none" THEN lis[l] ELSE [lis[l] EXCEPT !.pc = "ended"]]
      BY <1>11 DEF Restart
    <3>1. ASSUME NEW l \in Listeners, \E p \in Parsed(fwFile) : f[p] = l
          PROVE  lis'[l] \in Goroutines /\ lis'[l].port \in Ports
      BY <2>4, <3>1 DEF Goroutines
    <3>2. ASSUME NEW l \in Listeners, ~\E p \in Parsed(fwFile) : f[p] = l
          PROVE  lis'[l] \in Goroutines /\ lis'[l].pc \in {"none", "ended"}
      BY <3>2, <1>a DEF TypeOK, Goroutines
    <3>3. \A l \in Listeners : /\ lis'[l] \in Goroutines
                               /\ lis'[l].port \in Ports \/ lis'[l].pc \in {"none", "ended"}
      BY <3>1, <3>2
    <3>4. lis' \in [Listeners -> Goroutines]
      BY <3>3
    <3>5. QED
      BY <3>3, <3>4 DEF Goroutines
  <2>6. QED
    BY <1>a, <2>1, <2>2, <2>3, <2>4, <2>5, IdleHandler
       DEF TypeInv, TypeOK, FileTypes, PortsKnown, Entries, Distinct, Handlers
<1>12. CASE UNCHANGED vars
  BY <1>12, <1>a DEF vars, TypeInv, TypeOK, FileTypes, PortsKnown, Parsed, Distinct
<1>13. QED
  BY <1>1, <1>2, <1>3, <1>4, <1>5, <1>6, <1>7, <1>8, <1>9, <1>10, <1>11, <1>12 DEF Next

\* Types, files and known ports hold in every reachable state.
LEMMA TypeInvAlways == Spec => []TypeInv
<1>1. Init => TypeInv
  <2> SUFFICES ASSUME Init PROVE TypeInv
    OBVIOUS
  <2>1. closed \in [Conns -> BOOLEAN]
    BY Zenon DEF Init
  <2>2. QED
    BY <2>1, IdleHandler
       DEF Init, TypeInv, TypeOK, FileTypes, PortsKnown, Entries, Distinct, Parsed, Handlers
<1>2. QED
  BY <1>1, TypeStep, PTL DEF Spec

\* Type correctness; the whitelist has one entry per name and one per pattern, also after
\* failed saves and restarts.
THEOREM TypeCorrect == Spec => []TypeOK
<1>1. TypeInv => TypeOK
  BY DEF TypeInv
<1>2. QED
  BY <1>1, TypeInvAlways, PTL

-----------------------------------------------------------------------------
(* Connections.                                                            *)

\* A connection that is served is in directConns, closed, or in the hands of a
\* killDirectConns that took it out and is about to close it, after every step.
LEMMA DoomedStep == TypeInv /\ TrackedOrDoomed /\ [Next]_vars => TrackedOrDoomed'
<1> SUFFICES ASSUME TypeInv, TrackedOrDoomed, [Next]_vars PROVE TrackedOrDoomed'
  OBVIOUS
<1>a. TypeOK
  BY DEF TypeInv
<1> USE DEF TrackedOrDoomed, connVars, wlVars
<1>1. ASSUME NEW p \in Patterns, Kill(p) PROVE TrackedOrDoomed'
  BY <1>1 DEF Kill
<1>2. ASSUME NEW c \in Conns, KillClose(c) PROVE TrackedOrDoomed'
  BY <1>2, <1>a DEF KillClose, TypeOK
<1>3. ASSUME NEW c \in Conns, Reject(c) \/ Pass(c) \/ Track(c) \/ ServeEnds(c)
      PROVE TrackedOrDoomed'
  BY <1>3, <1>a DEF Reject, Pass, Track, ServeEnds, Goto, TypeOK
<1>4. ASSUME NEW l \in Listeners, NEW c \in Conns, NEW ip \in Addrs, AcceptDirect(l, c, ip)
      PROVE TrackedOrDoomed'
  BY <1>4, <1>a DEF AcceptDirect, Goto, TypeOK
<1>5. CASE Restart
  BY <1>5 DEF Restart
<1>6. CASE UNCHANGED <<connVars, victims>>
  BY <1>6
<1>7. QED
  BY <1>1, <1>2, <1>3, <1>4, <1>5, <1>6
     DEF Next, WhitelistAdd, DeleteCapture, DeleteRemove, DeleteFails, StopTake, StopClose,
         RuleAdd, RuleDelete, Bind, BindFails, Register, vars

\* killDirectConns loses no connection: one that is served and no longer in directConns has
\* been closed or is about to be.
THEOREM TrackedOrDoomedAlways == Spec => []TrackedOrDoomed
<1>1. Init => TrackedOrDoomed
  BY DEF Init, TrackedOrDoomed
<1>2. QED
  BY <1>1, DoomedStep, TypeInvAlways, PTL DEF Spec

\* Only connections that are being served are in directConns, or were when their entry went.
Served == \A c \in tracked \union evicted : direct[c] = "serving"

\* Every action keeps the promise of a deletion: the pattern for which killDirectConns is
\* started is the address of the connections in question.
LEMMA EvictStep ==
  TypeInv /\ Served /\ ExactEntryKills /\ [Next]_vars => (Served /\ ExactEntryKills)'
<1> SUFFICES ASSUME TypeInv, Served, ExactEntryKills, [Next]_vars
             PROVE  (Served /\ ExactEntryKills)'
  OBVIOUS
<1>a. TypeOK
  BY DEF TypeInv
<1> USE DEF Served, ExactEntryKills, connVars, wlVars
<1>1. ASSUME NEW a \in Admins, DeleteRemove(a) PROVE (Served /\ ExactEntryKills)'
  <2>1. UNCHANGED <<connVars, victims>> /\ kills \subseteq kills'
    BY <1>1 DEF DeleteRemove
  <2>2. ASSUME NEW c \in evicted' \ evicted PROVE c \in tracked /\ from[c] \in kills'
    <3>1. c \in Evicted(a) /\ kills' = kills \union ({admin[a].ip} \ {None})
      BY <1>1, <2>2 DEF DeleteRemove
    <3>2. c \in tracked /\ from[c] = admin[a].ip
          /\ [name |-> admin[a].name, ip |-> from[c]] \in whitelist
      BY <3>1 DEF Evicted
    <3>3. from[c] # None
      BY <1>a, <3>2, NoneAssumption DEF TypeOK, Patterns
    <3>4. QED
      BY <3>1, <3>2, <3>3
  <2>3. QED
    BY <2>1, <2>2
<1>2. ASSUME NEW p \in Patterns, Kill(p) PROVE (Served /\ ExactEntryKills)'
  BY <1>2 DEF Kill
<1>3. ASSUME NEW c \in Conns, KillClose(c) PROVE (Served /\ ExactEntryKills)'
  BY <1>3, <1>a DEF KillClose, TypeOK
<1>4. ASSUME NEW c \in Conns, Reject(c) \/ Pass(c) \/ Track(c) \/ ServeEnds(c)
      PROVE (Served /\ ExactEntryKills)'
  BY <1>4, <1>a DEF Reject, Pass, Track, ServeEnds, Goto, TypeOK
<1>5. ASSUME NEW l \in Listeners, NEW c \in Conns, NEW ip \in Addrs, AcceptDirect(l, c, ip)
      PROVE (Served /\ ExactEntryKills)'
  BY <1>5, <1>a DEF AcceptDirect, Goto, TypeOK
<1>6. CASE Restart
  BY <1>6 DEF Restart
<1>7. CASE UNCHANGED <<connVars, kills, victims, evicted>>
  BY <1>7
<1>8. QED
  BY <1>1, <1>2, <1>3, <1>4, <1>5, <1>6, <1>7
     DEF Next, WhitelistAdd, DeleteCapture, DeleteFails, StopTake, StopClose,
         RuleAdd, RuleDelete, Bind, BindFails, Register, vars

\* DELETE /api/whitelist: for any number of requests side by side, once one has removed the
\* entry of an address it had captured, the connections then in directConns under that address
\* are closed, or the killDirectConns that will close them has yet to run or to come to them.
THEOREM ExactEntryKillsAlways == Spec => []ExactEntryKills
<1>1. Init => Served /\ ExactEntryKills
  BY DEF Init, Served, ExactEntryKills
<1>2. QED
  BY <1>1, EvictStep, TypeInvAlways, PTL DEF Spec

-----------------------------------------------------------------------------
(* Listeners.                                                              *)

\* A step after which as many sockets are bound as before, or fewer, and in which no
\* handler lets go of a listener, keeps listeners reachable.
LEMMA ReachableKept ==
  ASSUME ReachInv, UNCHANGED byPort,
         \A l \in Listeners : Bound(l)' => Bound(l) /\ lis'[l].port = lis[l].port,
         \A l \in Listeners : lis'[l].pc = "accepting" => lis[l].pc = "accepting",
         \A a \in Admins : admin[a].pc = "closing" /\ lis'[admin[a].ln].pc = "accepting" =>
                            admin'[a].pc = "closing" /\ admin'[a].ln = admin[a].ln
  PROVE  ReachInv'
<1>1. BoundOnce'
  BY DEF ReachInv, BoundOnce
<1>2. ListenerReachable'
  <2> SUFFICES ASSUME NEW l \in Listeners, lis'[l].pc = "accepting"
               PROVE  \/ byPort'[lis'[l].port] = l
                      \/ \E a \in Admins : admin'[a].pc = "closing" /\ admin'[a].ln = l
    BY DEF ListenerReachable
  <2>1. lis[l].pc = "accepting" /\ lis'[l].port = lis[l].port
    BY DEF Bound
  <2>2. QED
    BY <2>1 DEF ReachInv, ListenerReachable
<1>3. QED
  BY <1>1, <1>2 DEF ReachInv

\* Every action keeps the listening sockets within reach of a deletion.
LEMMA ReachableStep == TypeInv /\ ReachInv /\ [Next]_vars => ReachInv'
<1> SUFFICES ASSUME TypeInv, ReachInv, [Next]_vars PROVE ReachInv'
  OBVIOUS
<1>a. TypeOK /\ PortsKnown
  BY DEF TypeInv
<1>b. admin \in [Admins -> Handlers] /\ lis \in [Listeners -> Goroutines]
  BY <1>a DEF TypeOK, Handlers, Goroutines
<1> USE DEF ruleVars
<1>1. CASE UNCHANGED <<lis, byPort, admin>>
  BY <1>1, ReachableKept DEF Bound
<1>2. ASSUME NEW a \in Admins, admin[a].pc \in {"idle", "captured"}, UNCHANGED <<lis, byPort>>,
             \A b \in Admins \ {a} : admin'[b] = admin[b]
      PROVE ReachInv'
  BY <1>2, ReachableKept DEF Bound
<1>3. ASSUME NEW a \in Admins, StopTake(a) PROVE ReachInv'
  <2> DEFINE ln == byPort[admin[a].port]
  <2>1. /\ admin[a].pc = "stopping" /\ lis' = lis
        /\ admin' = [admin EXCEPT ![a].pc = "closing", ![a].ln = ln]
        /\ byPort' = [byPort EXCEPT ![admin[a].port] = None]
    BY <1>3 DEF StopTake
  <2>2. admin'[a].pc = "closing" /\ admin'[a].ln = ln
        /\ \A b \in Admins \ {a} : admin'[b] = admin[b]
    BY <2>1, <1>b DEF Handlers
  <2>3. \A l \in Listeners : Bound(l)' <=> Bound(l)
    BY <2>1 DEF Bound
  <2>4. BoundOnce'
    BY <2>1, <2>3 DEF ReachInv, BoundOnce
  <2>5. ListenerReachable'
    <3> SUFFICES ASSUME NEW l \in Listeners, lis[l].pc = "accepting"
                 PROVE  \/ byPort'[lis[l].port] = l
                        \/ \E b \in Admins : admin'[b].pc = "closing" /\ admin'[b].ln = l
      BY <2>1 DEF ListenerReachable
    <3>1. lis[l].port \in Ports
      BY <1>a DEF PortsKnown
    <3>2. CASE byPort[lis[l].port] = l
      <4>1. CASE lis[l].port = admin[a].port
        BY <2>2, <3>2, <4>1
      <4>2. CASE lis[l].port # admin[a].port
        BY <1>a, <2>1, <3>1, <3>2, <4>2 DEF TypeOK
      <4>3. QED
        BY <4>1, <4>2
    <3>3. CASE \E b \in Admins : admin[b].pc = "closing" /\ admin[b].ln = l
      BY <2>1, <2>2, <3>3
    <3>4. QED
      BY <3>2, <3>3 DEF ReachInv, ListenerReachable
  <2>6. QED
    BY <2>4, <2>5 DEF ReachInv
<1>4. ASSUME NEW a \in Admins, StopClose(a) PROVE ReachInv'
  <2>1. /\ admin[a].pc = "closing" /\ byPort' = byPort
        /\ admin' = [admin EXCEPT ![a] = Idle]
        /\ lis' = IF admin[a].ln = None THEN lis
                  ELSE [lis EXCEPT ![admin[a].ln].pc = "ended"]
    BY <1>4 DEF StopClose, AdminDone
  <2>2. \A l \in Listeners : lis'[l] = lis[l] \/ lis'[l].pc = "ended"
    BY <2>1, <1>b DEF Handlers, Goroutines
  <2>3. \A l \in Listeners : l = admin[a].ln => lis'[l].pc = "ended"
    BY <2>1, <1>b, NoneAssumption DEF Handlers, Goroutines
  <2>4. \A b \in Admins \ {a} : admin'[b] = admin[b]
    BY <2>1, <1>b
  <2>5. BoundOnce'
    BY <2>2 DEF ReachInv, BoundOnce, Bound
  <2>6. ListenerReachable'
    BY <2>1, <2>2, <2>3, <2>4 DEF ReachInv, ListenerReachable
  <2>7. QED
    BY <2>5, <2>6 DEF ReachInv
<1>5. ASSUME NEW l \in Listeners, NEW p \in Ports, RuleAdd(l, p) PROVE ReachInv'
  <2>1. lis' = lis \/ (lis[l].pc = "none"
                       /\ lis' = [lis EXCEPT ![l] = [pc |-> "spawned", port |-> p]])
    BY <1>5 DEF RuleAdd, Spawn
  <2>2. \A k \in Listeners : lis'[k] = lis[k] \/ ~Bound(k)'
    BY <2>1, <1>b DEF Bound
  <2>3. UNCHANGED <<byPort, admin>>
    BY <1>5 DEF RuleAdd
  <2>4. QED
    BY <2>2, <2>3 DEF Bound, ReachInv, BoundOnce, ListenerReachable
<1>6. ASSUME NEW l \in Listeners, Bind(l) PROVE ReachInv'
  <2>1. /\ lis[l].pc = "spawned" /\ lis' = [lis EXCEPT ![l].pc = "bound"]
        /\ \A k \in Listeners : Bound(k) => lis[k].port # lis[l].port
        /\ UNCHANGED <<byPort, admin>>
    BY <1>6 DEF Bind
  <2>2. /\ lis'[l].pc = "bound" /\ lis'[l].port = lis[l].port
        /\ \A k \in Listeners \ {l} : lis'[k] = lis[k]
    BY <2>1, <1>b DEF Goroutines
  <2>3. QED
    BY <2>1, <2>2 DEF Bound, ReachInv, BoundOnce, ListenerReachable
<1>7. ASSUME NEW l \in Listeners, BindFails(l) PROVE ReachInv'
  <2>1. UNCHANGED <<byPort, admin>> /\ lis' = [lis EXCEPT ![l].pc = "ended"]
    BY <1>7 DEF BindFails
  <2>2. \A k \in Listeners : lis'[k] = lis[k] \/ lis'[k].pc = "ended"
    BY <2>1, <1>b DEF Goroutines
  <2>3. QED
    BY <2>1, <2>2 DEF Bound, ReachInv, BoundOnce, ListenerReachable
<1>8. ASSUME NEW l \in Listeners, Register(l) PROVE ReachInv'
  <2>1. /\ lis[l].pc = "bound" /\ lis' = [lis EXCEPT ![l].pc = "accepting"]
        /\ byPort' = [byPort EXCEPT ![lis[l].port] = l] /\ admin' = admin
    BY <1>8 DEF Register
  <2>2. /\ lis'[l].pc = "accepting"
        /\ \A k \in Listeners : lis'[k].port = lis[k].port /\ (Bound(k)' <=> Bound(k))
        /\ \A k \in Listeners \ {l} : lis'[k] = lis[k]
    BY <2>1, <1>b DEF Goroutines, Bound
  <2>3. BoundOnce'
    BY <2>2 DEF ReachInv, BoundOnce
  <2>4. byPort'[lis[l].port] = l
    BY <1>a, <2>1 DEF PortsKnown, TypeOK
  <2>5. \A k \in Listeners \ {l} :
          lis[k].pc = "accepting" => byPort'[lis[k].port] = byPort[lis[k].port]
    BY <1>a, <2>1 DEF PortsKnown, TypeOK, ReachInv, BoundOnce, Bound
  <2>6. ListenerReachable'
    BY <2>1, <2>2, <2>4, <2>5 DEF ReachInv, ListenerReachable
  <2>7. QED
    BY <2>3, <2>6 DEF ReachInv
<1>9. CASE Restart
  <2> PICK f \in [Parsed(fwFile) -> Listeners] :
       lis' = [l \in Listeners |->
                IF \E p \in Parsed(fwFile) : f[p] = l
                THEN [pc |-> "spawned", port |-> CHOOSE p \in Parsed(fwFile) : f[p] = l]
                ELSE IF lis[l].pc = "none" THEN lis[l] ELSE [lis[l] EXCEPT !.pc = "ended"]]
    BY <1>9 DEF Restart
  <2>1. \A l \in Listeners : lis'[l].pc \in {"spawned", "none", "ended"}
    BY <1>b DEF Goroutines
  <2>2. QED
    BY <2>1 DEF Bound, ReachInv, BoundOnce, ListenerReachable
<1>10. ASSUME NEW a \in Admins,
              \/ \E n \in Names : DeleteCapture(a, n)
              \/ DeleteRemove(a) \/ DeleteFails(a)
              \/ \E p \in Ports : RuleDelete(a, p)
       PROVE ReachInv'
  <2>1. admin[a].pc \in {"idle", "captured"} /\ UNCHANGED <<lis, byPort>>
    BY <1>10 DEF DeleteCapture, DeleteRemove, DeleteFails, RuleDelete, AdminDone
  <2>2. admin' = admin \/ \E h : admin' = [admin EXCEPT ![a] = h]
    BY <1>10 DEF DeleteCapture, DeleteRemove, DeleteFails, RuleDelete, AdminDone
  <2>3. \A b \in Admins \ {a} : admin'[b] = admin[b]
    BY <2>2, <1>b
  <2>4. QED
    BY <1>2, <2>1, <2>3
<1>11. QED
  BY <1>1, <1>3, <1>4, <1>5, <1>6, <1>7, <1>8, <1>9, <1>10
     DEF Next, WhitelistAdd, Kill, KillClose, Reject, Pass, Track, ServeEnds, AcceptDirect,
         vars

\* A listening socket can always be reached by a deletion of its rule: directListeners has
\* it, or a deletion that is about to close it.
THEOREM ListenerReachableAlways == Spec => []ListenerReachable
<1>1. Init => ReachInv
  BY DEF Init, ReachInv, BoundOnce, Bound, ListenerReachable
<1>2. ReachInv => ListenerReachable
  BY DEF ReachInv
<1>3. QED
  BY <1>1, <1>2, ReachableStep, TypeInvAlways, PTL DEF Spec

\* Listener l of a port without a rule is accounted for.
Excused(l) ==
    \/ lis[l].port \in rules
    \/ l \in strays
    \/ \E a \in Admins : \/ Stopping(a, lis[l].port)
                        \/ (admin[a].pc = "closing" /\ admin[a].ln = l)

\* A listener's goroutine that has not ended.
Running(l) == lis[l].pc \in {"spawned", "bound", "accepting"}

\* DeletedRuleStops, said of the listeners rather than of the ports.
LEMMA StopsAll == TypeInv => (DeletedRuleStops <=> \A l \in Listeners : Running(l) => Excused(l))
  BY DEF TypeInv, PortsKnown, DeletedRuleStops, Live, Running, Excused

\* A step that changes no rule and takes no excuse back.
LEMMA ExcusesKept ==
  ASSUME \A l \in Listeners : Running(l) => Excused(l), rules' = rules, strays \subseteq strays',
         \A l \in Listeners : Running(l)' => Running(l) /\ lis'[l].port = lis[l].port,
         \A a \in Admins : admin[a].pc = "stopping" => admin'[a] = admin[a],
         \A a \in Admins : \A l \in Listeners :
            admin[a].pc = "closing" /\ admin[a].ln = l /\ Running(l)' => admin'[a] = admin[a]
  PROVE  \A l \in Listeners : Running(l)' => Excused(l)'
  BY DEF Excused, Stopping

\* Every action keeps the listeners of deleted rules accounted for.
LEMMA StopsStep ==
  TypeInv /\ ReachInv /\ DeletedRuleStops /\ TypeInv' /\ [Next]_vars => DeletedRuleStops'
<1>s. TypeInv' /\ (\A l \in Listeners : Running(l)' => Excused(l)') => DeletedRuleStops'
  BY DEF TypeInv, PortsKnown, DeletedRuleStops, Live, Running, Excused
<1> SUFFICES ASSUME TypeInv, ReachInv, \A l \in Listeners : Running(l) => Excused(l), [Next]_vars
             PROVE  \A l \in Listeners : Running(l)' => Excused(l)'
  BY <1>s, StopsAll
<1>a. TypeOK /\ PortsKnown
  BY DEF TypeInv
<1>b. admin \in [Admins -> Handlers] /\ lis \in [Listeners -> Goroutines]
  BY <1>a DEF TypeOK, Handlers, Goroutines
<1> USE DEF ruleVars
<1> DEFINE Goal == \A l \in Listeners : Running(l)' => Excused(l)'
<1>1. CASE UNCHANGED <<lis, rules, strays, admin>>
  BY <1>1 DEF Running, Excused, Stopping
<1>2. ASSUME NEW a \in Admins, admin[a].pc \in {"idle", "captured"},
             UNCHANGED <<lis, rules, strays>>, \A b \in Admins \ {a} : admin'[b] = admin[b]
      PROVE Goal
  BY <1>2, ExcusesKept DEF Running
<1>3. ASSUME NEW a \in Admins, NEW p \in Ports, RuleDelete(a, p) PROVE Goal
  <2>1. admin[a].pc = "idle" /\ lis' = lis /\ rules' = rules \ {p} /\ strays \subseteq strays'
    BY <1>3 DEF RuleDelete
  <2>2. \A b \in Admins \ {a} : admin'[b] = admin[b]
    BY <1>3, <1>b DEF RuleDelete
  <2>3. Stopping(a, p)' \/ Live(p) \subseteq strays'
    BY <1>3, <1>b DEF RuleDelete, Stopping, Idle
  <2>4. QED
    BY <2>1, <2>2, <2>3 DEF Running, Excused, Stopping, Live
<1>4. ASSUME NEW a \in Admins, StopTake(a) PROVE Goal
  <2> DEFINE p == admin[a].port
             ln == byPort[p]
  <2>1. /\ admin[a].pc = "stopping" /\ lis' = lis /\ rules' = rules
        /\ admin' = [admin EXCEPT ![a].pc = "closing", ![a].ln = ln]
        /\ strays' = strays \union TooEarlyFor(a)
    BY <1>4 DEF StopTake
  <2>2. admin'[a].pc = "closing" /\ admin'[a].ln = ln
        /\ \A b \in Admins \ {a} : admin'[b] = admin[b]
    BY <2>1, <1>b DEF Handlers
  <2>3. ASSUME NEW l \in Listeners, Running(l)' PROVE Excused(l)'
    <3>1. Running(l) /\ Excused(l)
      BY <2>1, <2>3 DEF Running
    <3>2. CASE lis[l].port # p
      BY <2>1, <2>2, <3>1, <3>2 DEF Excused, Stopping
    <3>3. CASE lis[l].port = p /\ lis[l].pc = "accepting"
      <4>1. ln = l \/ \E b \in Admins : admin[b].pc = "closing" /\ admin[b].ln = l
        BY <3>3 DEF ReachInv, ListenerReachable
      <4>2. QED
        BY <2>1, <2>2, <4>1 DEF Excused
    <3>4. CASE lis[l].port = p /\ lis[l].pc # "accepting"
      <4>1. CASE p \in rules
        BY <2>1, <3>4, <4>1 DEF Excused
      <4>2. CASE \E b \in Admins \ {a} : Stopping(b, p)
        <5>1. PICK b \in Admins \ {a} : admin[b].pc = "stopping" /\ admin[b].port = lis[l].port
          BY <3>4, <4>2 DEF Stopping
        <5>2. admin'[b].pc = "stopping" /\ admin'[b].port = lis'[l].port
          BY <2>1, <2>2, <5>1
        <5>3. QED
          BY <5>2 DEF Excused, Stopping
      <4>3. CASE p \notin rules /\ ~\E b \in Admins \ {a} : Stopping(b, p)
        <5>1. l \in TooEarlyFor(a)
          BY <3>1, <3>4, <4>3 DEF TooEarlyFor, Live, Running
        <5>2. QED
          BY <2>1, <5>1 DEF Excused
      <4>4. QED
        BY <4>1, <4>2, <4>3
    <3>5. QED
      BY <3>2, <3>3, <3>4
  <2>4. QED
    BY <2>3
<1>5. ASSUME NEW a \in Admins, StopClose(a) PROVE Goal
  <2>1. /\ admin[a].pc = "closing" /\ UNCHANGED <<rules, strays>>
        /\ admin' = [admin EXCEPT ![a] = Idle]
        /\ lis' = IF admin[a].ln = None THEN lis
                  ELSE [lis EXCEPT ![admin[a].ln].pc = "ended"]
    BY <1>5 DEF StopClose, AdminDone
  <2>2. \A l \in Listeners : lis'[l] = lis[l] \/ lis'[l].pc = "ended"
    BY <2>1, <1>b DEF Handlers, Goroutines
  <2>3. \A l \in Listeners : l = admin[a].ln => lis'[l].pc = "ended"
    BY <2>1, <1>b, NoneAssumption DEF Handlers, Goroutines
  <2>4. \A b \in Admins \ {a} : admin'[b] = admin[b]
    BY <2>1, <1>b
  <2>5. QED
    BY <2>1, <2>2, <2>3, <2>4, ExcusesKept DEF Running
<1>6. ASSUME NEW l \in Listeners, NEW p \in Ports, RuleAdd(l, p) PROVE Goal
  <2>1. lis' = lis \/ (lis[l].pc = "none"
                       /\ lis' = [lis EXCEPT ![l] = [pc |-> "spawned", port |-> p]])
    BY <1>6 DEF RuleAdd, Spawn
  <2>2. admin' = admin /\ rules' = rules \union {p} /\ strays' = strays \ Live(p)
    BY <1>6 DEF RuleAdd
  <2>3. \A k \in Listeners : lis'[k] = lis[k] \/ lis'[k].port = p
    BY <2>1, <1>b
  <2>4. QED
    BY <2>2, <2>3 DEF Running, Excused, Stopping, Live
<1>7. ASSUME NEW l \in Listeners, Bind(l) \/ BindFails(l) \/ Register(l) PROVE Goal
  <2>1. lis[l].pc \in {"spawned", "bound"} /\ UNCHANGED <<rules, strays, admin>>
    BY <1>7 DEF Bind, BindFails, Register
  <2>2. \E next : lis' = [lis EXCEPT ![l].pc = next]
    BY <1>7 DEF Bind, BindFails, Register
  <2>3. \A k \in Listeners : lis'[k].port = lis[k].port /\ (k # l => lis'[k] = lis[k])
    BY <2>2, <1>b DEF Goroutines
  <2>4. QED
    BY <2>1, <2>3, ExcusesKept DEF Running
<1>8. CASE Restart
  <2> PICK f \in [Parsed(fwFile) -> Listeners] :
       lis' = [l \in Listeners |->
                IF \E p \in Parsed(fwFile) : f[p] = l
                THEN [pc |-> "spawned", port |-> CHOOSE p \in Parsed(fwFile) : f[p] = l]
                ELSE IF lis[l].pc = "none" THEN lis[l] ELSE [lis[l] EXCEPT !.pc = "ended"]]
    BY <1>8 DEF Restart
  <2>1. rules' = Parsed(fwFile)
    BY <1>8 DEF Restart
  <2>2. ASSUME NEW l \in Listeners, \E p \in Parsed(fwFile) : f[p] = l
        PROVE  lis'[l].port \in rules'
    BY <2>1, <2>2
  <2>3. ASSUME NEW l \in Listeners, ~\E p \in Parsed(fwFile) : f[p] = l
        PROVE  lis'[l].pc \in {"none", "ended"}
    BY <1>b, <2>3 DEF Goroutines
  <2>4. QED
    BY <2>2, <2>3 DEF Running, Excused
<1>9. ASSUME NEW a \in Admins,
             (\E n \in Names : DeleteCapture(a, n)) \/ DeleteRemove(a) \/ DeleteFails(a)
      PROVE Goal
  <2>1. admin[a].pc \in {"idle", "captured"} /\ UNCHANGED <<lis, rules, strays>>
    BY <1>9 DEF DeleteCapture, DeleteRemove, DeleteFails, AdminDone
  <2>2. \E h : admin' = [admin EXCEPT ![a] = h]
    BY <1>9 DEF DeleteCapture, DeleteRemove, DeleteFails, AdminDone
  <2>3. \A b \in Admins \ {a} : admin'[b] = admin[b]
    BY <2>2, <1>b
  <2>4. QED
    BY <1>2, <2>1, <2>3
<1>10. QED
  BY <1>1, <1>3, <1>4, <1>5, <1>6, <1>7, <1>8, <1>9
     DEF Next, WhitelistAdd, Kill, KillClose, Reject, Pass, Track, ServeEnds, AcceptDirect,
         vars

\* DELETE /api/forwards: for any number of rules, goroutines and handlers, a port without a
\* rule is not listened on, unless a deletion is about to look for its listener or to close
\* it, or left it alone because its save failed or because it looked too early.  Rests on
\* ListenerReachable: the listener a deletion does not find is one not registered yet.
THEOREM DeletedRuleStopsAlways == Spec => []DeletedRuleStops
<1>1. Init => ReachInv /\ DeletedRuleStops
  BY DEF Init, ReachInv, BoundOnce, Bound, ListenerReachable, DeletedRuleStops, Live
<1>2. QED
  BY <1>1, ReachableStep, StopsStep, TypeInvAlways, PTL DEF Spec
=============================================================================
