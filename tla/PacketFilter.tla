--------------------------- MODULE PacketFilter ---------------------------
(***************************************************************************)
(* What a connected client can reach: the exposed Services of labeled mode *)
(* (internal/server/expose.go), the routes pushed to clients (push.go on   *)
(* both sides) and the ACL of acl.yaml (internal/server/acl/acl.go), with  *)
(* the places that consult them (server.go, proxy.go).                     *)
(*                                                                         *)
(* The cluster, the ACL file and the client change at any time;            *)
(* watchExposed and the signal handler catch up with them step by step.    *)
(***************************************************************************)
EXTENDS Integers, FiniteSets

CONSTANTS Services,   \* Services that may be labelled: [ips, ports], see Pairs
          IPv4,       \* the IPv4 addresses among the addresses of Services
          PushRoutes, \* configured routes: [covers, ones], see SafeRoutes
          Answers,    \* what a name may resolve to, at any time: sets of addresses
          DNS, Self, VPN, \* addresses: cluster DNS, server in the tunnel, server outside
          APIPort,    \* port of the server's own dashboard and API
          DialPorts,  \* ports that clients ask for
          ClientPort, \* the port a client's program has chosen for itself
          Policies,   \* policies acl.yaml may hold: [default, rules]
          Device      \* the client's name

VARIABLES
  cluster, \* the Services labelled auth-vpn.io/expose=true now
  allow,   \* exposeSet.allow
  watch,   \* watchExposed: its program counter and the list it was given
  client,  \* the client's session and what it is doing, see Off
  aclFile, \* acl.yaml: a policy, Missing or Garbled
  acl,     \* Engine.policy and Engine.index
  hup,     \* a SIGHUP is waiting in the handler's channel
  reload,  \* Engine.Reload in the signal handler: its program counter and file
  edited,  \* history: acl.yaml was changed after the last SIGHUP
  labelled \* history: the Services that are or have been labelled

exposeVars == <<cluster, allow, watch, labelled>>
aclVars == <<aclFile, acl, hup, reload, edited>>
vars == <<exposeVars, client, aclVars>>

Protos == {"tcp", "udp", "icmp", "*"}
Missing == [default |-> "missing", rules |-> <<>>]
Garbled == [default |-> "garbled", rules |-> <<>>]
Files == Policies \union {Missing, Garbled}
AllowAll == [default |-> "allow", rules |-> <<>>]

\* A client in tunnel mode: off, up, awaiting an answer, answered; in proxy mode:
\* idle, its target checked, its target dialled.  proto, ip and port are those of the
\* packet that was let through or of the target that was checked or dialled.
Off == [pc |-> "off", routes |-> {}, proto |-> "*", ip |-> VPN, port |-> 0]

-----------------------------------------------------------------------------
(* The exposed Services.                                                   *)

\* parseServices: one entry per IPv4 address and port of a Service; headless Services
\* have no address, and a port without protocol is a TCP port.
PairsOf(s) ==
    {[ip |-> i, proto |-> IF p.proto = "" THEN "tcp" ELSE p.proto, port |-> p.port] :
       i \in s.ips \intersect IPv4, p \in s.ports}

Pairs(list) == UNION {PairsOf(s) : s \in list}

\* allowed
Allowed(ip, proto, port) ==
    \/ ip = DNS /\ port = 53
    \/ ip = Self /\ proto = "tcp" /\ port = APIPort
    \/ [ip |-> ip, proto |-> proto, port |-> port] \in allow

\* allowPacket: TCP and UDP to an exposed address and port, first fragments only.
AllowPacket(p) ==
    /\ p.firstFragment
    /\ p.proto \in {"tcp", "udp"}
    /\ Allowed(p.ip, p.proto, p.port)

\* routes: a /32 for each exposed address.
Routes(pairs) == {[covers |-> {p.ip}, ones |-> 32] : p \in pairs}

\* A list is asked for, at the start and then every 30 seconds.
RefreshAsks ==
    /\ watch.pc = "waiting"
    /\ watch' = [pc |-> "asking", list |-> {}]
    /\ UNCHANGED <<cluster, allow, labelled, client, aclVars>>

\* fetchExposed gets an answer,
RefreshAnswered ==
    /\ watch.pc = "asking"
    /\ watch' = [pc |-> "answered", list |-> Pairs(cluster)]
    /\ UNCHANGED <<cluster, allow, labelled, client, aclVars>>

\* or there is no token, no answer, or one that does not parse: "keeping previous list".
RefreshFails ==
    /\ watch.pc = "asking"
    /\ watch' = [pc |-> "waiting", list |-> {}]
    /\ UNCHANGED <<cluster, allow, labelled, client, aclVars>>

\* Mutant: the list read is added to the one in force.
RefreshMerges ==
    /\ watch.pc = "answered"
    /\ allow' = allow \union watch.list
    /\ watch' = [pc |-> "waiting", list |-> {}]
    /\ UNCHANGED <<cluster, labelled, client, aclVars>>

\* exposeSet.set
RefreshSets ==
    /\ watch.pc = "answered"
    /\ allow' = watch.list
    /\ watch' = [pc |-> "waiting", list |-> {}]
    /\ UNCHANGED <<cluster, labelled, client, aclVars>>

\* A Service is labelled or unlabelled.
ClusterChanges(s) ==
    /\ cluster' = IF s \in cluster THEN cluster \ {s} ELSE cluster \union {s}
    /\ labelled' = labelled \union {s}
    /\ UNCHANGED <<allow, watch, client, aclVars>>

-----------------------------------------------------------------------------
(* A client in tunnel mode.                                                *)

\* safeRoutes: IPv4, not broader than /8, and not covering the VPN server itself.
SafeRoutes(routes) ==
    {r \in routes : r.covers \subseteq IPv4 /\ r.ones >= 8 /\ VPN \notin r.covers}

\* pushRoutes, in labeled mode, as the client installs them with the route to the DNS.
PushedTo(pairs) ==
    SafeRoutes(PushRoutes \union Routes(pairs) \union {[covers |-> {DNS}, ones |-> 32]})

\* AUTH_OK carries the routes of this moment.
Connect ==
    /\ client.pc = "off"
    /\ client' = [Off EXCEPT !.pc = "up", !.routes = PushedTo(allow)]
    /\ UNCHANGED <<exposeVars, aclVars>>

\* The session ends, whatever is under way on it.
Disconnect ==
    /\ client.pc # "off"
    /\ client' = Off
    /\ UNCHANGED <<exposeVars, aclVars>>

\* The server itself is in the subnet that every client routes through the tunnel.
Routed(ip) == ip = Self \/ \E r \in client.routes : ip \in r.covers

\* forwardToTUN: a packet that is not allowed is dropped.
Request(ip, proto, port, first) ==
    /\ client.pc = "up"
    /\ Routed(ip)
    /\ AllowPacket([ip |-> ip, proto |-> proto, port |-> port, firstFragment |-> first])
    /\ client' = [client EXCEPT !.pc = "awaiting", !.proto = proto, !.ip = ip, !.port = port]
    /\ UNCHANGED <<exposeVars, aclVars>>

\* matches, with 0 for any port
Matches(spec, proto, port) == spec.proto \in {"*", proto} /\ spec.port \in {0, port}

\* Allow: without a rule for the device the default decides; a match in the deny list
\* drops the packet; with an allow list only what matches it passes.
Allow(policy, proto, port) ==
    IF Device \notin DOMAIN policy.rules
    THEN policy.default # "deny"
    ELSE LET rule == policy.rules[Device] IN
         /\ ~\E spec \in rule.deny : Matches(spec, proto, port)
         /\ IF rule.allow = {}
            THEN policy.default # "deny"
            ELSE \E spec \in rule.allow : Matches(spec, proto, port)

\* routeFromTUN: the target answers to the port the client chose, and that is the port
\* the ACL sees.
Reply ==
    /\ client.pc = "awaiting"
    /\ Allow(acl, client.proto, ClientPort)
    /\ client' = [client EXCEPT !.pc = "answered"]
    /\ UNCHANGED <<exposeVars, aclVars>>

\* The client is done with the answer, or gives up waiting for it.
Done ==
    /\ client.pc \in {"awaiting", "answered"}
    /\ client' = [Off EXCEPT !.pc = "up", !.routes = client.routes]
    /\ UNCHANGED <<exposeVars, aclVars>>

-----------------------------------------------------------------------------
(* A client in proxy mode.                                                 *)

ConnectProxy ==
    /\ client.pc = "off"
    /\ client' = [Off EXCEPT !.pc = "idle"]
    /\ UNCHANGED <<exposeVars, aclVars>>

\* resolveTarget: the host is an address, or a name that is looked up; the first exposed
\* IPv4 address is the one to dial.  Without any, PROXY_FAIL is sent.
ResolveTarget(hosts, port) ==
    /\ client.pc = "idle"
    /\ \E ip \in hosts \intersect IPv4 :
         /\ Allowed(ip, "tcp", port)
         /\ client' = [client EXCEPT !.pc = "checked", !.proto = "tcp", !.ip = ip, !.port = port]
    /\ UNCHANGED <<exposeVars, aclVars>>

\* Mutant: what was asked for is dialled, so a name is looked up again.
DialTargetAgain ==
    /\ client.pc = "checked"
    /\ \E ip \in UNION Answers : client' = [client EXCEPT !.pc = "dialled", !.ip = ip]
    /\ UNCHANGED <<exposeVars, aclVars>>

\* DialTimeout of the address that was checked.
DialTarget ==
    /\ client.pc = "checked"
    /\ client' = [client EXCEPT !.pc = "dialled"]
    /\ UNCHANGED <<exposeVars, aclVars>>

\* The dial fails or the stream ends.
StreamEnds ==
    /\ client.pc \in {"checked", "dialled"}
    /\ client' = [Off EXCEPT !.pc = "idle"]
    /\ UNCHANGED <<exposeVars, aclVars>>

-----------------------------------------------------------------------------
(* The ACL file and its reloading.                                         *)

\* Reload, given what it read: no file allows everything, and a file that does not parse
\* leaves the policy as it is.
Parsed(file, before) ==
    CASE file = Missing -> AllowAll
      [] file = Garbled -> before
      [] OTHER -> file

Edit(file) ==
    /\ aclFile' = file
    /\ edited' = TRUE
    /\ UNCHANGED <<exposeVars, client, acl, hup, reload>>

\* Mutant: the channel of the handler has no buffer, so that a signal is lost while the
\* handler is busy.
SighupUnbuffered ==
    /\ hup' = (hup \/ reload.pc = "idle")
    /\ edited' = FALSE
    /\ UNCHANGED <<exposeVars, client, aclFile, acl, reload>>

\* A SIGHUP: the channel has room for one, and another one sent meanwhile is dropped.
Sighup ==
    /\ hup' = TRUE
    /\ edited' = FALSE
    /\ UNCHANGED <<exposeVars, client, aclFile, acl, reload>>

\* The handler takes the signal and reads the file,
ReloadReads ==
    /\ hup
    /\ reload.pc = "idle"
    /\ hup' = FALSE
    /\ reload' = [pc |-> "storing", file |-> aclFile]
    /\ UNCHANGED <<exposeVars, client, aclFile, acl, edited>>

\* and puts the new policy in force.
ReloadStores ==
    /\ reload.pc = "storing"
    /\ acl' = Parsed(reload.file, acl)
    /\ reload' = [pc |-> "idle", file |-> Missing]
    /\ UNCHANGED <<exposeVars, client, aclFile, hup, edited>>

-----------------------------------------------------------------------------
\* NewServer: nothing is exposed before the first list, and the policy is loaded; a file
\* that does not parse allows all traffic.
Init ==
    /\ cluster \in SUBSET Services
    /\ labelled = cluster
    /\ allow = {}
    /\ watch = [pc |-> "waiting", list |-> {}]
    /\ client = Off
    /\ aclFile \in Files
    /\ acl = Parsed(aclFile, AllowAll)
    /\ hup = FALSE
    /\ reload = [pc |-> "idle", file |-> Missing]
    /\ edited = FALSE

Refresh == RefreshAsks \/ RefreshAnswered \/ RefreshFails \/ RefreshSets

Reload == ReloadReads \/ ReloadStores

Tunnel ==
    \/ Connect
    \/ \E ip \in IPv4, proto \in Protos, port \in DialPorts, first \in BOOLEAN :
         Request(ip, proto, port, first)
    \/ Reply
    \/ Done

Proxy ==
    \/ ConnectProxy
    \/ \E hosts \in Answers \union {{ip} : ip \in IPv4}, port \in DialPorts :
         ResolveTarget(hosts, port)
    \/ DialTarget
    \/ StreamEnds

Environment ==
    \/ \E s \in Services : ClusterChanges(s)
    \/ \E file \in Files : Edit(file)
    \/ Sighup

Next == Refresh \/ Reload \/ Tunnel \/ Proxy \/ Disconnect \/ Environment

\* The server's goroutines run, and a request for the list is answered or times out.
Fairness ==
    /\ WF_vars(RefreshAsks) /\ WF_vars(RefreshAnswered \/ RefreshFails) /\ WF_vars(RefreshSets)
    /\ WF_vars(ReloadReads) /\ WF_vars(ReloadStores)

Spec == Init /\ [][Next]_vars /\ Fairness

-----------------------------------------------------------------------------
(* Properties.                                                             *)

\* "only Services labelled ... are reachable" (server.go), and in resolveTarget "the checked
\* IP is what gets dialed, so a DNS answer can't change between the check and the dial":
\* whatever the DNS answers, and whenever the labels change while a list is being read,
\* a client's packet or stream goes to an address and port of a Service that somebody has
\* labelled, or to the cluster DNS or the server's own API.
OnlyLabelledReached ==
    client.pc \in {"awaiting", "answered", "dialled"} =>
      \/ [ip |-> client.ip, proto |-> client.proto, port |-> client.port] \in Pairs(labelled)
      \/ client.ip = DNS /\ client.port = 53
      \/ client.ip = Self /\ client.proto = "tcp" /\ client.port = APIPort

\* watchExposed "refreshes the allow-list ... On error the last good list is kept": once
\* the labels in the cluster stay as they are, and if not every refresh fails, exactly the
\* labelled Services are reachable from some moment on, in spite of failing refreshes and
\* answers that were old when they came.  "newly labelled Services reach clients on their
\* next (re)connect" (pushRoutes): a client that reconnects now and then has exactly their
\* routes.
ExposureConverges ==
    <>[][UNCHANGED cluster]_cluster /\ []<>(watch.pc = "answered") =>
      /\ <>[](allow = Pairs(cluster))
      /\ []<>(client.pc = "off") =>
           <>[](client.routes \in {{}, PushedTo(Pairs(cluster))})

\* "Reload re-reads the ACL file from disk.  Safe to call from a SIGHUP handler": a file
\* that is left alone after a SIGHUP is the policy in force from some moment on, and a
\* client that does not wait for ever with its last answer gets none that it forbids,
\* however many signals came while others were handled.
PolicyCatchesUp ==
    \A f \in Files \ {Garbled} :
      <>[](aclFile = f /\ ~edited) =>
        /\ <>[](acl = Parsed(f, acl))
        /\ []<>(client.pc # "answered") =>
             <>[](client.pc = "answered" => Allow(acl, client.proto, ClientPort))
=============================================================================
