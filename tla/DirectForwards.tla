--------------------------- MODULE DirectForwards ---------------------------
(***************************************************************************)
(* Direct forwards and the IP whitelist that guards them:                  *)
(* internal/server/direct.go and whitelist.go, and the handlers of the     *)
(* HTTP API that change them.                                              *)
(*                                                                         *)
(* A forward rule has a listener goroutine; each connection it accepts has *)
(* a goroutine of its own that checks the whitelist, enters itself in      *)
(* directConns and copies bytes.  Deleting a whitelist entry starts a      *)
(* goroutine that closes the connections of that address.                  *)
(***************************************************************************)
EXTENDS Integers, FiniteSets

CONSTANTS Addrs,     \* remote IP addresses
          Nets,      \* CIDR ranges
          Within,    \* Nets -> the addresses in the range
          Names,     \* names of whitelist entries
          Ports,     \* listen ports
          Conns,     \* connections accepted by direct listeners
          Listeners, \* startDirectListener goroutines
          Admins,    \* HTTP handlers that may run at the same time
          None       \* "" for a pattern, nil for a listener

ASSUME WithinAssumption == Within \in [Nets -> SUBSET Addrs]
ASSUME NoneAssumption == None \notin Addrs \union Nets \union Listeners
ASSUME PatternAssumption == Addrs \intersect Nets = {}

Patterns == Addrs \union Nets

VARIABLES
  whitelist,  \* WhitelistManager.entries: {[name, ip]}
  wlFile,     \* the whitelist file: the entries, or {None} when it does not parse
  rules,      \* ForwardsManager.entries: the ports
  fwFile,     \* the forwards file: the ports, or {None}
  detached,   \* managers that New created without a file: "whitelist", "rules"
  admin,      \* handler -> [pc, name, ip, port, ln]
  kills,      \* killDirectConns goroutines that have not started: their patterns
  victims,    \* connections killDirectConns is about to close
  direct,     \* handleDirectConn: program counter per connection
  from,       \* remote address per connection
  closed,     \* conn.Close was called on the connection
  tracked,    \* connections in directConns, under their remote address
  lis,        \* listener goroutine -> [pc, port]
  byPort,     \* directListeners: port -> listener or None
  bindErrors, \* ports with an entry in bindErrors
  evicted,    \* history: connections served when a deletion removed their entry
  strays      \* history: listeners that the deletion of their rule left alone

wlVars   == <<whitelist, wlFile, kills, victims, evicted>>
ruleVars == <<rules, fwFile, lis, byPort, bindErrors, strays>>
connVars == <<direct, from, closed, tracked>>
vars == <<wlVars, ruleVars, connVars, admin, detached>>

Idle == [pc |-> "idle", name |-> None, ip |-> None, port |-> None, ln |-> None]

Init ==
    /\ whitelist = {} /\ wlFile = {}
    /\ rules = {} /\ fwFile = {}
    /\ detached = {}
    /\ admin = [a \in Admins |-> Idle]
    /\ kills = {} /\ victims = {}
    /\ direct = [c \in Conns |-> "idle"]
    /\ from = [c \in Conns |-> None]
    /\ closed = [c \in Conns |-> FALSE]
    /\ tracked = {}
    /\ lis = [l \in Listeners |-> [pc |-> "none", port |-> None]]
    /\ byPort = [p \in Ports |-> None]
    /\ bindErrors = {}
    /\ evicted = {} /\ strays = {}

-----------------------------------------------------------------------------
(* save: os.WriteFile of the marshalled entries.  A write cut short leaves *)
(* JSON that does not parse.                                               *)

SaveWhitelist ==
    /\ "whitelist" \notin detached
    /\ wlFile' = whitelist'
    /\ UNCHANGED detached

WhitelistSaveFails ==
    /\ wlFile' \in IF "whitelist" \in detached THEN {wlFile} ELSE {wlFile, {None}}
    /\ UNCHANGED detached

SaveRules ==
    /\ "rules" \notin detached
    /\ fwFile' = rules'
    /\ UNCHANGED detached

RulesSaveFails ==
    /\ fwFile' \in IF "rules" \in detached THEN {fwFile} ELSE {fwFile, {None}}
    /\ UNCHANGED detached

-----------------------------------------------------------------------------
(* The whitelist.                                                          *)

Matches(pattern, ip) ==
    \/ pattern \in Addrs /\ pattern = ip
    \/ pattern \in Nets /\ ip \in Within[pattern]

\* WhitelistManager.Contains.
Contains(ip) == \E e \in whitelist : Matches(e.ip, ip)

\* Mutant: the name is not compared.
WhitelistAddTwice(n, p) ==
    /\ \A e \in whitelist : e.ip # p
    /\ whitelist' = whitelist \union {[name |-> n, ip |-> p]}
    /\ SaveWhitelist \/ WhitelistSaveFails
    /\ UNCHANGED <<kills, victims, evicted, ruleVars, connVars, admin>>

\* POST /api/whitelist: neither the name nor the pattern is there yet.
WhitelistAdd(n, p) ==
    /\ \A e \in whitelist : e.name # n /\ e.ip # p
    /\ whitelist' = whitelist \union {[name |-> n, ip |-> p]}
    /\ SaveWhitelist \/ WhitelistSaveFails
    /\ UNCHANGED <<kills, victims, evicted, ruleVars, connVars, admin>>

Named(n) == {e \in whitelist : e.name = n}

\* DELETE /api/whitelist/<name>: IPForName first, under a lock of its own.
DeleteCapture(a, n) ==
    /\ admin[a].pc = "idle"
    /\ \E ip \in IF Named(n) = {} THEN {None} ELSE {e.ip : e \in Named(n)} :
         admin' = [admin EXCEPT ![a] = [Idle EXCEPT !.pc = "captured", !.name = n, !.ip = ip]]
    /\ UNCHANGED <<wlVars, ruleVars, connVars, detached>>

AdminDone(a, pc) == admin[a].pc = pc /\ admin' = [admin EXCEPT ![a] = Idle]

\* The connections in directConns under the very address of the entry that handler a is
\* about to remove, if that is the address it has captured.
Evicted(a) == {c \in tracked : from[c] = admin[a].ip
                               /\ [name |-> admin[a].name, ip |-> from[c]] \in whitelist}

\* Mutant: the address is looked up after the removal, when the entry is gone.
DeleteRemoveLate(a) ==
    /\ AdminDone(a, "captured")
    /\ Named(admin[a].name) # {}
    /\ whitelist' = whitelist \ Named(admin[a].name)
    /\ \/ SaveWhitelist /\ evicted' = evicted \union Evicted(a)
       \/ WhitelistSaveFails /\ UNCHANGED evicted
    /\ UNCHANGED <<kills, victims, ruleVars, connVars>>

\* Then Remove; when it succeeds, killDirectConns of the captured pattern starts.
DeleteRemove(a) ==
    /\ AdminDone(a, "captured")
    /\ Named(admin[a].name) # {}
    /\ whitelist' = whitelist \ Named(admin[a].name)
    /\ \/ /\ SaveWhitelist
          /\ kills' = kills \union ({admin[a].ip} \ {None})
          /\ evicted' = evicted \union Evicted(a)
       \/ /\ WhitelistSaveFails
          /\ UNCHANGED <<kills, evicted>>
    /\ UNCHANGED <<victims, ruleVars, connVars>>

\* "entry not found"
DeleteFails(a) ==
    /\ AdminDone(a, "captured")
    /\ Named(admin[a].name) = {}
    /\ UNCHANGED <<wlVars, ruleVars, connVars, detached>>

\* killDirectConns takes the connections listed under exactly that string.
Kill(p) ==
    /\ p \in kills
    /\ kills' = kills \ {p}
    /\ victims' = victims \union {c \in tracked : from[c] = p}
    /\ tracked' = {c \in tracked : from[c] # p}
    /\ UNCHANGED <<whitelist, wlFile, evicted, ruleVars, direct, from, closed, admin,
                   detached>>

\* It closes them, outside the lock.
KillClose(c) ==
    /\ c \in victims
    /\ victims' = victims \ {c}
    /\ closed' = [closed EXCEPT ![c] = TRUE]
    /\ UNCHANGED <<whitelist, wlFile, kills, evicted, ruleVars, direct, from, tracked, admin,
                   detached>>

-----------------------------------------------------------------------------
(* handleDirectConn.                                                       *)

Goto(c, pc, next) == direct[c] = pc /\ direct' = [direct EXCEPT ![c] = next]

\* A listener accepts a connection.
AcceptDirect(l, c, ip) ==
    /\ lis[l].pc = "accepting"
    /\ Goto(c, "idle", "checking")
    /\ from' = [from EXCEPT ![c] = ip]
    /\ UNCHANGED <<wlVars, ruleVars, closed, tracked, admin, detached>>

Reject(c) ==
    /\ ~Contains(from[c])
    /\ Goto(c, "checking", "gone")
    /\ closed' = [closed EXCEPT ![c] = TRUE]
    /\ UNCHANGED <<wlVars, ruleVars, from, tracked, admin, detached>>

Pass(c) ==
    /\ Contains(from[c])
    /\ Goto(c, "checking", "tracking")
    /\ UNCHANGED <<wlVars, ruleVars, from, closed, tracked, admin, detached>>

\* Mutant: the connection is not entered in directConns.
TrackForgets(c) ==
    /\ Goto(c, "tracking", "serving")
    /\ UNCHANGED <<wlVars, ruleVars, from, closed, tracked, admin, detached>>

Track(c) ==
    /\ Goto(c, "tracking", "serving")
    /\ tracked' = tracked \union {c}
    /\ UNCHANGED <<wlVars, ruleVars, from, closed, admin, detached>>

\* The dial fails, one side ends, or conn was closed: the deferred calls.
ServeEnds(c) ==
    /\ Goto(c, "serving", "gone")
    /\ tracked' = tracked \ {c}
    /\ closed' = [closed EXCEPT ![c] = TRUE]
    /\ evicted' = evicted \ {c}
    /\ UNCHANGED <<whitelist, wlFile, kills, victims, ruleVars, from, admin, detached>>

-----------------------------------------------------------------------------
(* Forward rules and their listeners.                                      *)

Spawn(l, p) ==
    /\ lis[l].pc = "none"
    /\ lis' = [lis EXCEPT ![l] = [pc |-> "spawned", port |-> p]]

\* The startDirectListener goroutines for port p that have not ended.
Live(p) == {l \in Listeners : lis[l].port = p
                              /\ lis[l].pc \in {"spawned", "bound", "accepting"}}

\* POST /api/forwards: the rule is saved and its listener started.
RuleAdd(l, p) ==
    /\ p \notin rules
    /\ rules' = rules \union {p}
    /\ \/ SaveRules /\ Spawn(l, p)
       \/ RulesSaveFails /\ UNCHANGED lis
    /\ strays' = strays \ Live(p)
    /\ UNCHANGED <<wlVars, byPort, bindErrors, connVars, admin>>

\* DELETE /api/forwards/<port>: Remove, then stopDirectListener.
RuleDelete(a, p) ==
    /\ admin[a].pc = "idle"
    /\ p \in rules
    /\ rules' = rules \ {p}
    /\ \/ /\ SaveRules
          /\ admin' = [admin EXCEPT ![a] = [Idle EXCEPT !.pc = "stopping", !.port = p]]
          /\ UNCHANGED strays
       \/ /\ RulesSaveFails
          /\ strays' = strays \union Live(p)
          /\ UNCHANGED admin
    /\ UNCHANGED <<wlVars, lis, byPort, bindErrors, connVars>>

Stopping(a, p) == admin[a].pc = "stopping" /\ admin[a].port = p

\* The listeners that handler a, the last to look for one at its port, comes too early for:
\* their goroutines have not registered them.
TooEarlyFor(a) ==
    {l \in Live(admin[a].port) :
       /\ lis[l].pc # "accepting"
       /\ admin[a].port \notin rules
       /\ \A b \in Admins \ {a} : ~Stopping(b, admin[a].port)}

\* stopDirectListener takes the listener out of the map, if it is there yet.
StopTake(a) ==
    /\ admin[a].pc = "stopping"
    /\ admin' = [admin EXCEPT ![a].pc = "closing", ![a].ln = byPort[admin[a].port]]
    /\ byPort' = [byPort EXCEPT ![admin[a].port] = None]
    /\ strays' = strays \union TooEarlyFor(a)
    /\ UNCHANGED <<wlVars, rules, fwFile, lis, bindErrors, connVars, detached>>

\* Mutant: the listener is not closed.
StopForgets(a) ==
    /\ AdminDone(a, "closing")
    /\ bindErrors' = bindErrors \ {admin[a].port}
    /\ UNCHANGED <<wlVars, rules, fwFile, lis, byPort, strays, connVars, detached>>

\* It closes the listener and forgets a bind error of the port.
StopClose(a) ==
    /\ AdminDone(a, "closing")
    /\ lis' = IF admin[a].ln = None THEN lis ELSE [lis EXCEPT ![admin[a].ln].pc = "ended"]
    /\ bindErrors' = bindErrors \ {admin[a].port}
    /\ UNCHANGED <<wlVars, rules, fwFile, byPort, strays, connVars, detached>>

Bound(l) == lis[l].pc \in {"bound", "accepting"}

\* Mutant: the port may be bound twice, as with SO_REUSEPORT.
BindShared(l) ==
    /\ lis[l].pc = "spawned"
    /\ lis' = [lis EXCEPT ![l].pc = "bound"]
    /\ UNCHANGED <<wlVars, rules, fwFile, byPort, bindErrors, strays, connVars, admin,
                   detached>>

\* net.Listen: a port is bound by one socket at a time.
Bind(l) ==
    /\ lis[l].pc = "spawned"
    /\ \A k \in Listeners : Bound(k) => lis[k].port # lis[l].port
    /\ lis' = [lis EXCEPT ![l].pc = "bound"]
    /\ UNCHANGED <<wlVars, rules, fwFile, byPort, bindErrors, strays, connVars, admin,
                   detached>>

\* net.Listen fails: bound by another socket of the server, or by someone else.
BindFails(l) ==
    /\ lis[l].pc = "spawned"
    /\ lis' = [lis EXCEPT ![l].pc = "ended"]
    /\ bindErrors' = bindErrors \union {lis[l].port}
    /\ UNCHANGED <<wlVars, rules, fwFile, byPort, strays, connVars, admin, detached>>

\* The bind error is cleared, the listener entered in the map, the loop begins.
Register(l) ==
    /\ lis[l].pc = "bound"
    /\ lis' = [lis EXCEPT ![l].pc = "accepting"]
    /\ byPort' = [byPort EXCEPT ![lis[l].port] = l]
    /\ bindErrors' = bindErrors \ {lis[l].port}
    /\ UNCHANGED <<wlVars, rules, fwFile, strays, connVars, admin, detached>>

-----------------------------------------------------------------------------
Parsed(file) == file \ {None}

\* The server is restarted: New loads both files (one that does not parse is
\* replaced by an empty list that is never saved) and startDirectListeners starts
\* a goroutine per rule.
Restart ==
    /\ whitelist' = Parsed(wlFile)
    /\ rules' = Parsed(fwFile)
    /\ \E f \in [Parsed(fwFile) -> Listeners] :
         /\ \A p, q \in Parsed(fwFile) : f[p] = f[q] => p = q
         /\ \A p \in Parsed(fwFile) : lis[f[p]].pc = "none"
         /\ lis' = [l \in Listeners |->
                      IF \E p \in Parsed(fwFile) : f[p] = l
                      THEN [pc |-> "spawned", port |-> CHOOSE p \in Parsed(fwFile) : f[p] = l]
                      ELSE IF lis[l].pc = "none" THEN lis[l] ELSE [lis[l] EXCEPT !.pc = "ended"]]
    /\ byPort' = [p \in Ports |-> None]
    /\ bindErrors' = {}
    /\ admin' = [a \in Admins |-> Idle]
    /\ kills' = {} /\ victims' = {} /\ tracked' = {} /\ evicted' = {} /\ strays' = {}
    /\ direct' = [c \in Conns |-> IF direct[c] = "idle" THEN "idle" ELSE "gone"]
    /\ closed' = [c \in Conns |-> direct[c] # "idle"]
    /\ detached' = {m \in {"whitelist"} : None \in wlFile}
                   \union {m \in {"rules"} : None \in fwFile}
    /\ UNCHANGED <<wlFile, fwFile, from>>

Next ==
    \/ \E n \in Names, p \in Patterns : WhitelistAdd(n, p)
    \/ \E a \in Admins, n \in Names : DeleteCapture(a, n)
    \/ \E a \in Admins : DeleteRemove(a) \/ DeleteFails(a) \/ StopTake(a) \/ StopClose(a)
    \/ \E p \in Patterns : Kill(p)
    \/ \E c \in Conns : KillClose(c) \/ Reject(c) \/ Pass(c) \/ Track(c) \/ ServeEnds(c)
    \/ \E l \in Listeners, c \in Conns, ip \in Addrs : AcceptDirect(l, c, ip)
    \/ \E l \in Listeners, p \in Ports : RuleAdd(l, p)
    \/ \E a \in Admins, p \in Ports : RuleDelete(a, p)
    \/ \E l \in Listeners : Bind(l) \/ BindFails(l) \/ Register(l)
    \/ Restart

Spec == Init /\ [][Next]_vars

-----------------------------------------------------------------------------
(* Properties.                                                             *)

\* Types of the variables; the whitelist has at most one entry per name and one
\* per pattern, as WhitelistManager.Add is to ensure.
TypeOK ==
    /\ whitelist \subseteq [name : Names, ip : Patterns]
    /\ \A e, f \in whitelist : e.name = f.name \/ e.ip = f.ip => e = f
    /\ rules \subseteq Ports
    /\ admin \in [Admins -> [pc : {"idle", "captured", "stopping", "closing"},
                             name : Names \union {None}, ip : Patterns \union {None},
                             port : Ports \union {None}, ln : Listeners \union {None}]]
    /\ kills \subseteq Patterns /\ victims \subseteq Conns
    /\ direct \in [Conns -> {"idle", "checking", "tracking", "serving", "gone"}]
    /\ from \in [Conns -> Addrs \union {None}]
    /\ closed \in [Conns -> BOOLEAN] /\ tracked \subseteq Conns
    /\ lis \in [Listeners -> [pc : {"none", "spawned", "bound", "accepting", "ended"},
                              port : Ports \union {None}]]
    /\ byPort \in [Ports -> Listeners \union {None}]
    /\ bindErrors \subseteq Ports
    /\ evicted \subseteq Conns /\ strays \subseteq Listeners
    /\ detached \subseteq {"whitelist", "rules"}

\* A connection being served that is no longer in directConns, where a later
\* removal from the whitelist would find it, has been closed or is about to be.
TrackedOrDoomed ==
    \A c \in Conns :
      direct[c] = "serving" /\ c \notin tracked => closed[c] \/ c \in victims

\* A listening socket can always be reached by a deletion of its rule: it is the
\* one in directListeners, or its goroutine has yet to register it, or a deletion
\* that is about to close it holds it.  No two listeners fight over an entry.
ListenerReachable ==
    \A l \in Listeners :
      lis[l].pc = "accepting" =>
        \/ byPort[lis[l].port] = l
        \/ \E a \in Admins : admin[a].pc = "closing" /\ admin[a].ln = l

\* "Capture the IP before removal so we can kill active connections" (DELETE
\* /api/whitelist): once a request has removed the entry of a single address, a connection
\* that directConns had under that address is served only until the killDirectConns that was
\* started for it has found and closed it, whatever other requests do meanwhile.  Not so in
\* the cases Evicted and DeleteRemove leave out: the request had captured "" or another
\* pattern, because the name was added or given anew between its two calls; the save failed;
\* the entry was a range; the connection had passed Contains before the removal and was
\* tracked after it.
ExactEntryKills ==
    \A c \in evicted : (c \in tracked /\ from[c] \in kills) \/ c \in victims \/ closed[c]

\* "stopDirectListener closes the listener for a given port": a port without a rule is not
\* listened on, unless a deletion is about to look for the listener or to close it, or one
\* left it alone: its save had failed, or it looked before the goroutine had registered.
DeletedRuleStops ==
    \A p \in Ports \ rules : \A l \in Live(p) \ strays :
      \E a \in Admins : Stopping(a, p) \/ (admin[a].pc = "closing" /\ admin[a].ln = l)
=============================================================================
