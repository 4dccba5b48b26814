---------------------------- MODULE TunnelServer ----------------------------
(***************************************************************************)
(* The tunnel server: internal/server/server.go and clients.go.            *)
(*                                                                         *)
(* One handleConn goroutine and, once a client is admitted, one            *)
(* forwardToTUN goroutine per connection; the routeFromTUN goroutine, the  *)
(* reaper, the HTTP handler that kicks a client, the signal handler and    *)
(* the accept loop run beside them.  They share the client registry        *)
(* (address -> client), the dead flag and send channel of each client, the *)
(* connected-clients gauge and the WaitGroup.                              *)
(*                                                                         *)
(* A goroutine's position is a program counter; a step is what it does     *)
(* between two points where another goroutine can be observed.             *)
(***************************************************************************)
EXTENDS Integers, FiniteSets

CONSTANTS Conns,      \* connections the listener may accept
          NoConn,     \* nil *connectedClient
          LastOctet,  \* last host octet of the pool (254 in the code)
          SendCap     \* capacity of sendCh (256 in the code)

ASSUME ConnsFinite == IsFiniteSet(Conns)
ASSUME NoConnAssumption == NoConn \notin Conns
ASSUME PoolAssumption == LastOctet \in 2..254
ASSUME CapAssumption == SendCap \in Nat \ {0}

VARIABLES
  handler,    \* handleConn: program counter per connection
  forwarder,  \* forwardToTUN: program counter per connection
  conn,       \* the TLS connection, as the server's reads and writes see it
  clients,    \* clientRegistry.clients: octet -> connection
  ip,         \* connectedClient.ip: the octet assigned, 0 before Assign
  queued,     \* packets waiting in sendCh
  chanClosed, \* close(sendCh) was called
  dead,       \* connectedClient.dead
  router,     \* routeFromTUN: program counter
  target,     \* routeFromTUN: the client pointer it looked up
  reaper,     \* startReaper: "waiting" on its select, or "stopped"
  victims,    \* startReaper: stale connections still to be closed
  active,     \* metrics.activeConns
  wg,         \* the WaitGroup's counter
  main,       \* Start: the accept loop and what follows it
  done,       \* s.done is closed, and the listener with it
  crashed     \* a goroutine panicked, which ends the process

connVars   == <<handler, forwarder, conn>>
clientVars == <<clients, ip, queued, chanClosed, dead>>
serverVars == <<router, target, reaper, victims, active, wg, main, done,
                crashed>>
vars == <<handler, forwarder, conn, clients, ip, queued, chanClosed,
          dead, router, target, reaper, victims, active, wg, main, done,
          crashed>>

Octets == 2..LastOctet

HandlerPCs == {"idle",      \* not accepted yet
               "spawned",   \* go s.handleConn(conn), no step taken
               "reading",   \* waiting for the AUTH frame
               "proxying",  \* handleProxyConn
               "assigning", \* admitted in tunnel mode
               "counting",  \* registered, before IncConnected
               "greeting",  \* before the AUTH_OK write
               "serving",   \* range client.sendCh
               "leaving",   \* deferred: DecConnected
               "removing",  \* deferred: clients.Remove
               "closing",   \* deferred: conn.Close, then wg.Done
               "gone"}

\* Handlers between wg.Add and wg.Done.
Started == HandlerPCs \ {"idle", "spawned", "gone"}

\* Handlers between Assign and the deferred Remove.
Registered == {"counting", "greeting", "serving", "leaving", "removing"}

\* Handlers between IncConnected and the deferred DecConnected.
Counted == {"greeting", "serving", "leaving"}

Init ==
    /\ handler = [c \in Conns |-> "idle"]
    /\ forwarder = [c \in Conns |-> "none"]
    /\ conn = [c \in Conns |-> "up"]
    /\ clients = [i \in Octets |-> NoConn]
    /\ ip = [c \in Conns |-> 0]
    /\ queued = [c \in Conns |-> 0]
    /\ chanClosed = [c \in Conns |-> FALSE]
    /\ dead = [c \in Conns |-> FALSE]
    /\ router = "reading"
    /\ target = NoConn
    /\ reaper = "waiting"
    /\ victims = {}
    /\ active = 0
    /\ wg = 0
    /\ main = "accepting"
    /\ done = FALSE
    /\ crashed = FALSE

\* The process is there: it has neither returned from Start nor panicked.
Running == main # "returned" /\ ~crashed

Goto(c, from, to) ==
    /\ Running
    /\ handler[c] = from
    /\ handler' = [handler EXCEPT ![c] = to]

\* A read of the connection returns an error.
ReadFails(c) == conn[c] \in {"reset", "closed"}

\* A write may return an error: always after conn.Close, and once the peer is
\* known (reset) or found out by the kernel (silent) to be gone.
WriteMayFail(c) == conn[c] # "up"

-----------------------------------------------------------------------------
(* The peer and the network, outside the server.                           *)

\* The peer closes the connection, or the network breaks it noticeably.
PeerResets(c) ==
    /\ Running
    /\ handler[c] # "idle"
    /\ conn[c] = "up"
    /\ conn' = [conn EXCEPT ![c] = "reset"]
    /\ UNCHANGED <<handler, forwarder, clientVars, serverVars>>

\* The peer disappears without a FIN: a laptop sleeps, a cable is pulled.
PeerVanishes(c) ==
    /\ Running
    /\ handler[c] # "idle"
    /\ conn[c] = "up"
    /\ conn' = [conn EXCEPT ![c] = "silent"]
    /\ UNCHANGED <<handler, forwarder, clientVars, serverVars>>

-----------------------------------------------------------------------------
(* Start: the accept loop and the signal handler.                          *)

\* ln.Accept returns a connection and its handler is spawned.
Accept(c) ==
    /\ main = "accepting"
    /\ ~done
    /\ Goto(c, "idle", "spawned")
    /\ UNCHANGED <<forwarder, conn, clientVars, serverVars>>

\* SIGINT or SIGTERM: Shutdown closes s.done, then the listener is closed and
\* the signal goroutine returns.
Shutdown ==
    /\ Running
    /\ ~done
    /\ done' = TRUE
    /\ UNCHANGED <<connVars, clientVars, router, target, reaper, victims, active,
                   wg, main, crashed>>

\* Accept fails on the closed listener and the loop calls wg.Wait.
AcceptEnds ==
    /\ Running
    /\ main = "accepting"
    /\ done
    /\ main' = "waiting"
    /\ UNCHANGED <<connVars, clientVars, router, target, reaper, victims, active,
                   wg, done, crashed>>

\* Mutant: no wg.Wait.
StartReturnsUnwaited ==
    /\ Running
    /\ main = "waiting"
    /\ main' = "returned"
    /\ UNCHANGED <<connVars, clientVars, router, target, reaper, victims, active,
                   wg, done, crashed>>

\* wg.Wait returns: the TUN device is closed, the control socket removed, and
\* the process exits.
StartReturns ==
    /\ Running
    /\ main = "waiting"
    /\ wg = 0
    /\ main' = "returned"
    /\ UNCHANGED <<connVars, clientVars, router, target, reaper, victims, active,
                   wg, done, crashed>>

-----------------------------------------------------------------------------
(* handleConn.                                                             *)

\* wg.Add(1) is the goroutine's first statement; a banned address is turned
\* away, any other connection waits for its AUTH frame.
Begin(c) ==
    /\ \/ Goto(c, "spawned", "reading")
       \/ Goto(c, "spawned", "closing")
    /\ wg' = wg + 1
    /\ UNCHANGED <<forwarder, conn, clientVars, router, target, reaper,
                   victims, active, main, done, crashed>>

\* The read fails, or the frame, the token or its encoding is refused.
Refuse(c) ==
    /\ ReadFails(c) \/ conn[c] = "up"
    /\ Goto(c, "reading", "closing")
    /\ UNCHANGED <<forwarder, conn, clientVars, serverVars>>

\* The AUTH frame arrives and is accepted, in tunnel or in proxy mode (which
\* tokens are accepted is TokenStore's subject).
Admit(c) ==
    /\ conn[c] = "up"
    /\ Goto(c, "reading", "assigning") \/ Goto(c, "reading", "proxying")
    /\ UNCHANGED <<forwarder, conn, clientVars, serverVars>>

\* A proxy session ends with a DISCONNECT frame or a read error; it is never
\* in the registry, so neither the reaper nor a kick can reach it.
ProxyEnds(c) ==
    /\ ReadFails(c) \/ conn[c] = "up"
    /\ Goto(c, "proxying", "closing")
    /\ UNCHANGED <<forwarder, conn, clientVars, serverVars>>

Free(i) == clients[i] = NoConn

LowestFree(i) == Free(i) /\ \A j \in Octets : j < i => ~Free(j)

\* Mutant: the loop runs one octet too far.
AssignOverrun(c) ==
    /\ Goto(c, "assigning", "counting")
    /\ \E i \in 2..(LastOctet + 1) :
         /\ i \in Octets => Free(i)
         /\ clients' = [clients EXCEPT ![i] = c]
         /\ ip' = [ip EXCEPT ![c] = i]
    /\ UNCHANGED <<forwarder, conn, queued, chanClosed, dead, serverVars>>

\* Assign: the lowest free address, in one critical section of the registry.
Assign(c) ==
    /\ Goto(c, "assigning", "counting")
    /\ \E i \in Octets :
         /\ LowestFree(i)
         /\ clients' = [clients EXCEPT ![i] = c]
         /\ ip' = [ip EXCEPT ![c] = i]
    /\ UNCHANGED <<forwarder, conn, queued, chanClosed, dead,
                   serverVars>>

\* Assign: "tunnel IP pool exhausted".
AssignFails(c) ==
    /\ \A i \in Octets : ~Free(i)
    /\ Goto(c, "assigning", "closing")
    /\ UNCHANGED <<forwarder, conn, clientVars, serverVars>>

IncConnected(c) ==
    /\ Goto(c, "counting", "greeting")
    /\ active' = active + 1
    /\ UNCHANGED <<forwarder, conn, clientVars, router, target, reaper,
                   victims, wg, main, done, crashed>>

\* The AUTH_OK write succeeds and forwardToTUN is started.
Greet(c) ==
    /\ conn[c] # "closed"
    /\ Goto(c, "greeting", "serving")
    /\ forwarder' = [forwarder EXCEPT ![c] = "reading"]
    /\ UNCHANGED <<conn, clientVars, serverVars>>

\* Mutant: the early return is placed before the deferred Remove.
GreetFailsLeaks(c) ==
    /\ WriteMayFail(c)
    /\ Goto(c, "greeting", "closing")
    /\ UNCHANGED <<forwarder, conn, clientVars, serverVars>>

GreetFails(c) ==
    /\ WriteMayFail(c)
    /\ Goto(c, "greeting", "leaving")
    /\ UNCHANGED <<forwarder, conn, clientVars, serverVars>>

\* One iteration of the send loop: a packet is received from sendCh and written.
Deliver(c) ==
    /\ Running
    /\ handler[c] = "serving"
    /\ queued[c] > 0
    /\ conn[c] # "closed"
    /\ queued' = [queued EXCEPT ![c] = @ - 1]
    /\ UNCHANGED <<connVars, clients, ip, chanClosed, dead, serverVars>>

\* The write fails and the loop breaks.
DeliverFails(c) ==
    /\ queued[c] > 0
    /\ WriteMayFail(c)
    /\ Goto(c, "serving", "leaving")
    /\ queued' = [queued EXCEPT ![c] = @ - 1]
    /\ UNCHANGED <<forwarder, conn, clients, ip, chanClosed, dead,
                   serverVars>>

\* Mutant: DecConnected is not called on the normal path.
LoopEndsUncounted(c) ==
    /\ chanClosed[c]
    /\ queued[c] = 0
    /\ Goto(c, "serving", "removing")
    /\ UNCHANGED <<forwarder, conn, clientVars, serverVars>>

\* sendCh is closed and drained: the range loop ends.
LoopEnds(c) ==
    /\ chanClosed[c]
    /\ queued[c] = 0
    /\ Goto(c, "serving", "leaving")
    /\ UNCHANGED <<forwarder, conn, clientVars, serverVars>>

\* The deferred calls, last one first.
DecConnected(c) ==
    /\ Goto(c, "leaving", "removing")
    /\ active' = active - 1
    /\ UNCHANGED <<forwarder, conn, clientVars, router, target, reaper,
                   victims, wg, main, done, crashed>>

\* Mutant: the entry stays in the map.
RemoveForgets(c) ==
    /\ Goto(c, "removing", "closing")
    /\ UNCHANGED <<forwarder, conn, clientVars, serverVars>>

Remove(c) ==
    /\ Goto(c, "removing", "closing")
    /\ clients' = [clients EXCEPT ![ip[c]] = NoConn]
    /\ UNCHANGED <<forwarder, conn, ip, queued, chanClosed, dead,
                   serverVars>>

\* Mutant: wg.Done is left out.
FinishUncounted(c) ==
    /\ Goto(c, "closing", "gone")
    /\ conn' = [conn EXCEPT ![c] = "closed"]
    /\ UNCHANGED <<forwarder, clientVars, serverVars>>

\* The deferred conn.Close and wg.Done.
Finish(c) ==
    /\ Goto(c, "closing", "gone")
    /\ conn' = [conn EXCEPT ![c] = "closed"]
    /\ wg' = wg - 1
    /\ UNCHANGED <<forwarder, clientVars, router, target, reaper, victims, active,
                   main, done, crashed>>

-----------------------------------------------------------------------------
(* forwardToTUN.  A frame it reads goes to the TUN, is dropped by the      *)
(* exposure filter or is answered with a PONG, and refreshes lastSeen:     *)
(* none of that is state of this module (see ReaperTick).                  *)

\* The loop returns: read error, DISCONNECT frame, or TUN write error.
FrameLoopEnds(c) ==
    /\ Running
    /\ forwarder[c] = "reading"
    /\ ReadFails(c) \/ conn[c] = "up"
    /\ forwarder' = [forwarder EXCEPT ![c] = "marking"]
    /\ UNCHANGED <<handler, conn, clientVars, serverVars>>

\* Mutant: dead is never set.
MarkDeadForgets(c) ==
    /\ Running
    /\ forwarder[c] = "marking"
    /\ forwarder' = [forwarder EXCEPT ![c] = "closing"]
    /\ UNCHANGED <<handler, conn, clientVars, serverVars>>

\* The deferred function: dead first, then close(sendCh).
MarkDead(c) ==
    /\ Running
    /\ forwarder[c] = "marking"
    /\ forwarder' = [forwarder EXCEPT ![c] = "closing"]
    /\ dead' = [dead EXCEPT ![c] = TRUE]
    /\ UNCHANGED <<handler, conn, clients, ip, queued, chanClosed,
                   serverVars>>

\* Mutant: the channel is left open.
CloseChanForgets(c) ==
    /\ Running
    /\ forwarder[c] = "closing"
    /\ forwarder' = [forwarder EXCEPT ![c] = "done"]
    /\ UNCHANGED <<handler, conn, clientVars, serverVars>>

CloseChan(c) ==
    /\ Running
    /\ forwarder[c] = "closing"
    /\ forwarder' = [forwarder EXCEPT ![c] = "done"]
    /\ chanClosed' = [chanClosed EXCEPT ![c] = TRUE]
    /\ UNCHANGED <<handler, conn, clients, ip, queued, dead,
                   serverVars>>

-----------------------------------------------------------------------------
(* routeFromTUN.  A packet for an address without a client, or refused by  *)
(* the ACL, changes nothing and is not a step.                             *)

\* A packet is read from the TUN; GetByIP finds a client and the ACL allows it.
Lookup(i) ==
    /\ Running
    /\ router = "reading"
    /\ ~Free(i)
    /\ router' = "checking"
    /\ target' = clients[i]
    /\ UNCHANGED <<connVars, clientVars, reaper, victims, active, wg, main, done,
                   crashed>>

\* client.dead.Load(): a dead client's packet is dropped.
CheckDead ==
    /\ Running
    /\ router = "checking"
    /\ IF dead[target]
       THEN router' = "reading" /\ target' = NoConn
       ELSE router' = "sending" /\ UNCHANGED target
    /\ UNCHANGED <<connVars, clientVars, reaper, victims, active, wg, main, done,
                   crashed>>

\* Mutant: a plain channel send, which blocks while the channel is full.
SendPacketBlocks ==
    /\ Running
    /\ router = "sending"
    /\ ~chanClosed[target]
    /\ queued[target] < SendCap
    /\ queued' = [queued EXCEPT ![target] = @ + 1]
    /\ router' = "reading"
    /\ target' = NoConn
    /\ UNCHANGED <<connVars, clients, ip, chanClosed, dead, reaper, victims,
                   active, wg, main, done, crashed>>

\* The non-blocking send: queued, or dropped when the channel is full.
SendPacket ==
    /\ Running
    /\ router = "sending"
    /\ ~chanClosed[target]
    /\ queued' = [queued EXCEPT ![target] = IF @ < SendCap THEN @ + 1 ELSE @]
    /\ router' = "reading"
    /\ target' = NoConn
    /\ UNCHANGED <<connVars, clients, ip, chanClosed, dead, reaper, victims,
                   active, wg, main, done, crashed>>

\* A send on a closed channel panics, in a select with a default case too.
SendPanics ==
    /\ Running
    /\ router = "sending"
    /\ chanClosed[target]
    /\ crashed' = TRUE
    /\ UNCHANGED <<connVars, clientVars, router, target, reaper, victims, active,
                   wg, main, done>>

-----------------------------------------------------------------------------
(* The reaper and the admin's kick.                                        *)

InRegistry(c) == \E i \in Octets : clients[i] = c

\* A tick: StaleConns collects, under the registry's lock, the clients that have
\* not been heard of for three minutes.  Which ones those are is a matter of the
\* peers' traffic: any client may be among them, a vanished one some day is.
ReaperTick ==
    /\ Running
    /\ reaper = "waiting"
    /\ victims = {}
    /\ victims' \in SUBSET {c \in Conns : InRegistry(c)}
    /\ UNCHANGED <<connVars, clientVars, router, target, reaper, active, wg, main,
                   done, crashed>>

\* Mutant: the reaper reports a stale connection but does not close it.
ReapLogs(c) ==
    /\ Running
    /\ c \in victims
    /\ victims' = victims \ {c}
    /\ UNCHANGED <<connVars, clientVars, router, target, reaper, active, wg, main,
                   done, crashed>>

\* They are closed one after the other, outside the lock.
Reap(c) ==
    /\ Running
    /\ c \in victims
    /\ victims' = victims \ {c}
    /\ conn' = [conn EXCEPT ![c] = "closed"]
    /\ UNCHANGED <<handler, forwarder, clientVars, router, target, reaper,
                   active, wg, main, done, crashed>>

ReaperStops ==
    /\ Running
    /\ reaper = "waiting"
    /\ victims = {}
    /\ done
    /\ reaper' = "stopped"
    /\ UNCHANGED <<connVars, clientVars, router, target, victims, active, wg, main,
                   done, crashed>>

\* DELETE /api/clients/<name>: some client of that name is closed.
Kick(c) ==
    /\ Running
    /\ InRegistry(c)
    /\ conn' = [conn EXCEPT ![c] = "closed"]
    /\ UNCHANGED <<handler, forwarder, clientVars, serverVars>>

-----------------------------------------------------------------------------
HandlerStep(c) ==
    \/ Begin(c) \/ Refuse(c) \/ Admit(c) \/ ProxyEnds(c)
    \/ Assign(c) \/ AssignFails(c) \/ IncConnected(c) \/ Greet(c) \/ GreetFails(c)
    \/ Deliver(c) \/ DeliverFails(c) \/ LoopEnds(c)
    \/ DecConnected(c) \/ Remove(c) \/ Finish(c)

ForwarderStep(c) == FrameLoopEnds(c) \/ MarkDead(c) \/ CloseChan(c)

RouterStep == (\E i \in Octets : Lookup(i)) \/ CheckDead \/ SendPacket \/ SendPanics

ReaperStep == ReaperTick \/ (\E c \in Conns : Reap(c)) \/ ReaperStops

MainStep == Shutdown \/ AcceptEnds \/ StartReturns

PeerStep(c) == PeerResets(c) \/ PeerVanishes(c)

Next ==
    \/ \E c \in Conns :
         Accept(c) \/ HandlerStep(c) \/ ForwarderStep(c) \/ PeerStep(c) \/ Kick(c)
    \/ RouterStep
    \/ ReaperStep
    \/ MainStep

Spec == Init /\ [][Next]_vars

-----------------------------------------------------------------------------
(* Fairness: a goroutine that can take a step eventually takes it.  What   *)
(* waits for the peer (an AUTH frame, a DISCONNECT, a write to a peer that *)
(* has vanished) is left to the peer; the clock and the ticker do advance. *)

Answers(c) == conn[c] # "silent"

HandlerFairness(c) ==
    /\ WF_vars(Begin(c))
    /\ WF_vars(ReadFails(c) /\ (Refuse(c) \/ ProxyEnds(c)))
    /\ WF_vars(Assign(c) \/ AssignFails(c))
    /\ WF_vars(IncConnected(c))
    /\ WF_vars(Answers(c) /\ (Greet(c) \/ GreetFails(c)))
    /\ WF_vars(Answers(c) /\ (Deliver(c) \/ DeliverFails(c)))
    /\ WF_vars(LoopEnds(c))
    /\ WF_vars(DecConnected(c) \/ Remove(c) \/ Finish(c))

ForwarderFairness(c) ==
    /\ WF_vars(ReadFails(c) /\ FrameLoopEnds(c))
    /\ WF_vars(MarkDead(c) \/ CloseChan(c))

Fairness ==
    /\ \A c \in Conns : HandlerFairness(c) /\ ForwarderFairness(c)
    /\ WF_vars(CheckDead \/ SendPacket \/ SendPanics)
    /\ \A c \in Conns : WF_vars(conn[c] = "silent" /\ ReaperTick /\ c \in victims')
    /\ WF_vars(\E c \in Conns : Reap(c))
    /\ WF_vars(ReaperStops)
    /\ WF_vars(AcceptEnds \/ StartReturns)

FairSpec == Spec /\ Fairness

-----------------------------------------------------------------------------
(* Properties.                                                             *)

\* Types of the variables: the registry only hands out octets of the pool, and a
\* send channel never holds more than its capacity.
TypeOK ==
    /\ handler \in [Conns -> HandlerPCs]
    /\ forwarder \in [Conns -> {"none", "reading", "marking", "closing", "done"}]
    /\ conn \in [Conns -> {"up", "silent", "reset", "closed"}]
    /\ clients \in [Octets -> Conns \union {NoConn}]
    /\ ip \in [Conns -> Octets \union {0}]
    /\ queued \in [Conns -> 0..SendCap]
    /\ chanClosed \in [Conns -> BOOLEAN]
    /\ dead \in [Conns -> BOOLEAN]
    /\ router \in {"reading", "checking", "sending"}
    /\ target \in Conns \union {NoConn}
    /\ reaper \in {"waiting", "stopped"}
    /\ victims \subseteq Conns
    /\ active \in Int
    /\ wg \in Int
    /\ main \in {"accepting", "waiting", "returned"}
    /\ done \in BOOLEAN
    /\ crashed \in BOOLEAN

\* The registry and the handlers agree: an address maps to a connection exactly
\* while that connection's handler is between Assign and its deferred Remove, so
\* Remove deletes its own entry and no other, on every exit path of handleConn.
AddressOwnership ==
    /\ \A c \in Conns : handler[c] \in Registered => ip[c] \in Octets
    /\ \A i \in Octets, c \in Conns :
         clients[i] = c <=> handler[c] \in Registered /\ ip[c] = i

\* The gauge shown on the dashboard never exceeds the number of registered
\* clients and never goes below zero: IncConnected follows Assign and the
\* deferred DecConnected precedes the deferred Remove.
GaugeWithinRegistry ==
    0 <= active /\ active <= Cardinality({i \in Octets : ~Free(i)})

\* routeFromTUN never gets past its dead check for a client whose channel is
\* already closed, because forwardToTUN sets dead before it closes the channel.
CheckStopsClosed ==
    [][router = "checking" /\ router' = "sending" => ~chanClosed[target]]_vars

\* The TUN device is torn down only after every client has left the registry:
\* at the moment wg.Wait returns no handler that has called wg.Add is left.
DrainedBeforeTeardown ==
    [][main = "waiting" /\ main' = "returned" =>
         /\ \A i \in Octets : Free(i)
         /\ \A c \in Conns : handler[c] \notin Started]_vars

\* A client whose connection breaks, or that vanishes without a word, loses its
\* address: the read fails, or the reaper closes the idle connection.  A
\* shutdown stops the reaper and a panic stops everything.
AddressReclaimed ==
    \A c \in Conns :
      (InRegistry(c) /\ conn[c] \in {"silent", "reset"}) ~> (~InRegistry(c) \/ done \/ crashed)

\* "triggers cleanup chain in handleConn": closing a client's connection, as the
\* kick and the reaper do, ends its handler, whatever it was doing.
ClosedConnEnds ==
    \A c \in Conns :
      (conn[c] = "closed") ~> (handler[c] = "gone" \/ ~Running)

\* The one router goroutine serves all clients and is never held up by one of
\* them: every packet it picks up is queued or dropped.
RouterReturns == (router # "reading") ~> (router = "reading" \/ ~Running)

\* "Shutdown signals the server to stop accepting connections and exit cleanly": Start
\* returns after a shutdown, once the connections of all clients are closed or broken.
\* (Nothing in the server closes them: while a client stays, it does not return.)
ShutdownDrains ==
    (done /\ \A c \in Conns : handler[c] \in {"idle", "gone"} \/ ReadFails(c)) ~> ~Running

\* Connections that have given their address back.
Ended == {c \in Conns : ip[c] # 0 /\ handler[c] \notin Registered}

Pool == INSTANCE AddressPool WITH lease <- clients, ended <- Ended

\* The registry, with the handlers around it, implements the abstract address
\* pool: exclusive leases, lowest address first, one lease per connection.
PoolRefinement == Pool!PoolSpec

-----------------------------------------------------------------------------
(* What the proofs add to make these inductive.                            *)

\* Connections whose handler is at one of the points P.
At(P) == {c \in Conns : handler[c] \in P}

\* The two counters count exactly the handlers between their two calls.
CountsExact == active = Cardinality(At(Counted)) /\ wg = Cardinality(At(Started))

\* forwardToTUN runs once, after AUTH_OK; its deferred function sets dead, then
\* closes sendCh.
ChannelOrder ==
    \A c \in Conns :
      /\ forwarder[c] # "none" =>
           handler[c] \in {"serving", "leaving", "removing", "closing", "gone"}
      /\ forwarder[c] \in {"closing", "done"} => dead[c]
      /\ chanClosed[c] => forwarder[c] = "done"

\* A connection has no address until Assign gives it its only one.
NoEarlyAddress ==
    \A c \in Conns :
      handler[c] \in {"idle", "spawned", "reading", "proxying", "assigning"} => ip[c] = 0

\* routeFromTUN holds a client pointer from its lookup to its send.
RouterHasTarget == router # "reading" => target \in Conns

Inv == /\ TypeOK /\ AddressOwnership /\ CountsExact
       /\ ChannelOrder /\ NoEarlyAddress /\ RouterHasTarget

-----------------------------------------------------------------------------
(* What the comments promise and the code does not keep.                   *)

\* "dead is set before sendCh is closed; skip to avoid a panic on
\* send-to-closed-chan": the router never sends on a closed channel.
NoPanic == ~crashed

=============================================================================
