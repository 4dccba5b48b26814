# A TLA+ model of auth-vpn

auth-vpn is a small VPN: a server next to private services, clients that reach
them through a TLS connection, a token or a whitelisted address as the ticket.
It is a concurrent Go program whose goroutines, HTTP handlers and processes
share maps, channels and files. These modules model that sharing, step by step,
as the source under `src/` does it. TLC checks the models on small instances;
TLAPS proves every safety property of every module for every instance, but for
the ENABLED in one of them (`NoCircularWait`).

## Inventory

| Component | Source | State | Operations | Hard about it |
|---|---|---|---|---|
| Tunnel server | `internal/server/server.go`, `metrics.go` | one `handleConn` and one `forwardToTUN` per client, router, reaper, `WaitGroup`, gauge | accept, admit, serve, kick, reap, shut down | six kinds of goroutine on one registry; close of a channel another goroutine sends on; every early return must undo what came before |
| Client registry | `internal/server/clients.go` | address -> client | `Assign`, `Remove`, lookups | pool limit, reuse of an address |
| Token store | `internal/auth/token.go`, token commands in `cmd/main.go`, `httpapi.go` | list in memory, list in the file | add, validate, revoke, load | two processes rewrite one file; writes fail, tear and are ignored |
| Proxy multiplexer | `internal/client/proxy.go`, `internal/server/proxy.go` | pending dials and streams on both sides, frames in flight | dial, answer, data, close, time out | two read loops and two goroutines per stream; a timeout racing its answer |
| Whitelist, direct forwards | `internal/server/whitelist.go`, `direct.go`, `httpapi.go` | entries, rules, listeners, tracked connections | add, delete, accept, track, kill, restart | check and use under separate locks |
| Client session | `internal/client/state.go`, `client.go`, `cmd/main.go` | `tunnel.json`, processes, signals | connect, switch over, drop, disconnect | processes that find and signal each other through a file |
| Front door | `internal/auth/ratelimit.go`, `handleConn`, `sshsrv.go` | failures and bans per address | ban check, failure, reset | attempts in flight, the clock |
| Packet filtering | `acl/acl.go`, `expose.go`, `push.go` | rules, exposed Services, routes of clients | refresh, reload, allow a packet, resolve a target, push routes | lists that are old when they arrive; check and dial |
| Hub | `internal/hub/hub.go`, `config.go` | server list, statuses, HTTP clients, `hub.yaml` | add, delete, poll, save | three locks and a file; a poll that ends after its server is gone |
| Profiles, trust on first use | `client/tofu.go`, `client/profile.go`, `cmd/profiles.go` | `known_hosts.yaml`, `profiles.yaml` | ask, pin, verify, save, remove | a list kept in memory while a person thinks |
| Port sharing | `dualproto.go` | sniffed connections | accept | one error ends the loop |
| SSH sessions, plugins, control socket, installer, updater, TUN devices, UIs | the remaining files | key list, none | | mostly sequential I/O |

How they meet: `handleConn` asks the token store and the whitelist, then enters
the registry (tunnel mode) or runs the proxy handler. The router reads packets
from the TUN device and hands them to a client's channel, which `handleConn`
drains. The HTTP API changes tokens, whitelist and rules and closes connections.
Each manager is a lock of its own; there is no lock across two of them, which is
where most of the hazards are. `PROJECT.json` lists the hazards with their lines.

What makes each part correct: an address belongs to one connection and comes
back on every path; a token lets in whom its terms say; a stream leaves nothing
behind on either side; a connection that is no longer whitelisted can be found
and closed; one machine has one tunnel, and the file says which; guesses are
limited and nobody is banned without cause; what is reachable follows the labels
and the policy; the hub's maps agree; a server once trusted is recognised.

## Modules

| Module | Models | Run by |
|---|---|---|
| `TunnelServer` | the tunnel server and its registry | `MCTunnelServer` |
| `AddressPool` | abstract: exclusive leases of tunnel addresses | refined by `TunnelServer` |
| `TokenStore` | token manager, CLI processes, CI jobs, the token file | `MCTokenStore` |
| `ProxyMux` | both ends of proxy mode | itself |
| `DirectForwards` | whitelist, rules, listeners, direct connections | `MCDirectForwards` |
| `ClientSession` | `connect` and `disconnect` processes, `tunnel.json` | itself |
| `FrontDoor` | rate limiter, admission order, SSH callbacks | itself |
| `PacketFilter` | exposed Services, pushed routes, ACL | `MCPacketFilter` |
| `Hub` | the hub's list, statuses, clients and file | itself |
| `TrustStore` | known hosts, profiles and the commands on them | `MCTrustStore` |
| `TunnelServerProofs`, `TokenStoreProofs`, `ProxyMuxProofs`, `DirectForwardsProofs`, `ClientSessionProofs`, `HubProofs`, `TrustStoreProofs` | theorems about the module of that name | tlapm |
| `GuardProofs` | theorems about `FrontDoor` and `PacketFilter` | tlapm |

The modules meet at free choices. Whether `TunnelServer` admits a connection is
what `FrontDoor` decides, whether a token is valid there is `TokenStore`'s
answer, whether a dial in `ProxyMux` succeeds includes `PacketFilter`'s check,
and a dial that `ClientSession` makes is `TrustStore`'s. Each module allows
either outcome at any time, so what it shows holds whatever the other decides.

Operators whose comment begins with "Mutant:" are not part of any
specification. Each is a plausible mistake in the definition that follows it;
putting it in that definition's place makes TLC find a property violated, which
shows that the property depends on the code.

### TunnelServer

A goroutine's position is a program counter (`handler`, `forwarder`, `router`,
`main`); a step is what it does between two points where another goroutine can
observe it. `handler` runs from `spawned` (the `go` statement) over `reading`,
`assigning`, `counting`, `greeting` and `serving` to the deferred calls,
`leaving` (`DecConnected`), `removing` (`Remove`), `closing` (`conn.Close`,
`wg.Done`). `forwarder` marks the client dead and closes its channel in two
steps; `router` looks a client up, checks `dead` and sends in three. A
connection is `up`, `silent` (the peer vanished), `reset` or `closed`; the
actions `PeerResets` and `PeerVanishes` belong to the network.

Abstracted: the contents of packets and frames, `lastSeen` (any registered
client may be found stale; a vanished one is, in the end), and the verdict on a
connection (banned, refused and admitted are all possible). Packets that change
nothing are not steps. `crashed` is a panic, which ends the Go process.

### TokenStore

`mem` is the server's list, `file` the token file, `cli` the list of each CLI
process between its load and its save. `SaveOK` and `SaveFails` are the two
outcomes of `save`; `Torn` gives what a write cut short leaves: an unparsable
file, a prefix of the entries, or a last entry without its later fields. The
server may crash inside a save, and does not start on a file that does not
parse. `issued`, `admitted`, `revoked`, `settled`, `overwritten` and their like
are history that only the properties read; `lost` also bounds the failing
writes.

### ProxyMux

`local` follows `handleLocalConn` through the dial to the copying loop; `up`
and `down` are the two directions of the TLS connection, in order, with frames
as records. Each takes `Cap` frames, after which a write blocks; so writing a
frame is a step of its own, before which a goroutine may wait while others run:
the DIAL, the CLOSE on either side, and the answer to a dial (`reply`), for which
the server's read loop waits and does nothing else. `readLoop` and the server's
read loop each take the frame at the head; the server dials inside its loop, so
that a stream's DIAL is served before its DATA is read. The dial may time out at
any moment, also when the answer is there: Go's `select` picks either. PING and
PONG and payloads are left out, and what a read loop writes to, an application or
a target, is taken to read.

### DirectForwards

The whitelist check and the tracking of a connection, the capture of a pattern
and its removal, the removal and the kill, the taking of a listener out of the
map and its close, the bind and the registration of a listener are each separate
steps, because each pair is under separate locks or in separate goroutines. An
address equals a pattern or lies `Within` a range. A save may fail, leaving the
old file or one that does not parse; after a restart the latter is replaced by a
manager without a file (`detached`), which never saves again, as `New` does.

`kills` are patterns: two `killDirectConns` that wait for one pattern are one. Two
histories serve the properties. `evicted` are the connections that `directConns`
had under the very address of an entry when a request that had captured that
address removed it and saved the list. `strays` are the listeners a deletion left
alone, because its save failed or because it looked, as the last to do so, before
their goroutine had registered them; adding the rule again makes them its
listeners once more.

### ClientSession

`pc` follows `connectCmd`: find, signal and await the running tunnel, dial,
record `tunnel.json`, install the signal handler, wait, and the deferred calls
in their order. `CurrentTunnel` is the process in the file, if alive, or any that
`ps` lists. A signal where `signal.Notify` is not in effect (before it is called,
after `signal.Stop`, during the backoff) kills the process. Process ids are not
reused; `ps` exists.

### FrontDoor

`conn` is where each connection stands: the ban is looked up, the AUTH frame
awaited, the token found valid or not, and the outcome recorded, in separate
steps, since each is under a lock of its own and the peer may wait as long as it
likes before it sends. `attempts` and `bans` are the limiter's maps, with times
kept as ages in ticks. As `RecordFailure` only counts the times it keeps, an
address's list is given as the number of failures of each age; one that has left
the window is counted under age `Window` until the next failure prunes it, as in
the code. The SSH server
uses the same limiter but never asks `IsBanned`. Its library calls
`PublicKeyCallback` whenever a client names a key, signed with or not, so finding
the key (`SSHKeyFound`, which resets the limiter) and being let in (`SSHSigned`)
are two steps, and the client may name another or offer a token in between.
`wrong` and `failed` are history by age since the limiter was last reset for the
address. That an entry of `bans` is deleted by the first look-up after its end
changes nothing that can be observed and is left out. The specification is called
`DoorSpec`, and its parts alike, so that `GuardProofs` can extend this module and
`PacketFilter` together.

### PacketFilter

One client, in tunnel or in proxy mode, in labeled mode. `cluster` is what is
labelled now, `watch` the goroutine that asks for the list, `allow` the list in
force; `client` holds the routes it was given when it connected and the packet or
stream under way. A request passes `allowPacket`, its answer `acl.Allow` with the
port the client itself chose, because `routeFromTUN` looks at the destination of
the packet it routes. `acl`, `reload` and `hup` are the policy, the signal
handler and its channel. Addresses, ports and policies are members of small sets;
a route is the set of addresses it covers and its prefix length.

### Hub

A handler changes and copies the list under `cfgMu`, then saves the copy, then
changes the other maps under their locks; each is a step. `saveConfig` empties the
file, then writes, so that two of them may overlap; what a failed or mixed write
leaves is any list that could come of it, or `Garbled`. An HTTP client is the
endpoint whose certificate it pins, a status the endpoint it was taken from and
the client it was taken with. What only reads is left out.

### TrustStore

`proc` follows the connect command: by address, or by a profile whose fingerprint
is first put in `known_hosts.yaml`; then verification against a pin, against the
CAs, or the question. The connection that a CA's signature is asked of, the one that
fetches the fingerprint to show and the one that is used are three, between which
the certificate may change; `peer` is the certificate presented on the last.
`Retry` is the reconnect loop, which dials again without another look at the
profile. `kh` is the list of pins loaded, which a process keeps while the
question is open. Loading and writing a file back without a question in between
is one step; two commands that do so in the same instant can still lose one of
the two writes. `known_hosts.yaml` that does not parse is read as empty,
`profiles.yaml` is not. `want`, `missed`, `agreed` and `expected` are history:
`want` is the fingerprint of the profile, dropped as soon as somebody else has
changed the server's entry (`StillWanted` lists the ways).

## Runs

| Run | Shows | Bounds |
|---|---|---|
| `tunnel_safety` | addresses owned, gauge bounded, dead check sound, teardown after drain, `AddressPool` implemented | 2 connections, 1 address, channel of 1 |
| `tunnel_live` | broken, vanished and closed connections end; the router returns; a shutdown ends once the clients have gone | 1 connection, 2 addresses, channel of 1 |
| `tunnel_panic` | violation: the router panics | 1 connection |
| `tokens` | nobody is let in against a token's terms; nothing is lost while no write is | 2 tokens, 1 name, 1 CLI process, 1 failing write |
| `proxy` | no orphaned target or dial; bytes lost only before registration; closes propagate; read loops never wait for each other | 2 streams, 1 DATA frame each way, 1 frame in flight each way |
| `direct` | connections tracked or about to close; listeners reachable; what deletions achieve, for connections and for listeners | 1 address, 1 range, 1 name, 1 port, 1 connection, 2 listeners, 2 deleting handlers |
| `client` | one tunnel at a time, state file cleared, signals end a process | 2 processes |
| `client_drop` | violation: a drop ends the reconnect loop | 1 process |
| `front_door` | wrong tokens are bounded, bans are deserved | 1 address, 3 connections, ban at 3 failures, window and ban of 2 ticks |
| `filter` | only what was labelled is reached; labels and policy take effect | 2 Services and the DNS, 3 ports, 2 routes, 1 policy |
| `hub` | maps and file in step between requests; statuses settle | 1 name, 2 endpoints, 2 requests, 2 polls |
| `trust` | the certificate of a connection was accepted, and is the profile's unless overruled; pins are kept | 2 processes, 2 servers, 3 certificates, 1 profile |

Why the bounds are enough to be interesting. One address for two connections
makes the pool run out and makes its only address change hands while the reaper,
a kick or the router still holds the first connection. A channel of one is full
after one packet. Two tokens of one name are what `Revoke` can confuse; one CLI
process and one server suffice for a lost update. Two streams share both read
loops; with one DATA frame each, every order of OK, DATA and CLOSE occurs. Two
listeners for one port are a rule deleted and added again, with the first
goroutine still on its way; two handlers are a second deletion between the two
calls of the first, with which a name changes its entry, or while the first looks
for the listener. A connection that takes one frame is full as soon as
one is not yet read, so every write of `ProxyMux` blocks at some time. With three
connections two are past the ban check when the third brings the ban, and
`RateBound` with one less is violated. One name and two endpoints are a server
deleted and another registered in its place; two requests and two polls are what
can collide. Two Services let one be withdrawn while another stays, and a name
resolve to either; the policy denies UDP, and so the answers of the DNS. Two processes and two servers are a pin that is written while
another is asked for, and the certificate of a CA one that comes without a
question.

`tunnel_safety`, `tokens`, `direct` and `trust` use symmetry of connections,
tokens, handlers and listeners, and processes, and check no liveness. Deadlock is checked in `front_door`, `filter`
and `trust`, which never stop. In the others checking is off: the modelled
systems do stop, when the server has returned or panicked, the token file or
`hub.yaml` does not parse, or every connection, token and process of the instance
is used up.

## Fairness

Weak fairness of a goroutine that can take a step, nothing more: Go's scheduler
runs every runnable goroutine. What waits for someone else has none. In
`TunnelServer` the peer need never send its AUTH frame or a DISCONNECT, and a
write to a vanished peer need never return; the reaper's ticker does tick, and a
vanished client's `lastSeen` does grow old (`ReaperTick` is fair for ticks that
find it). In `ProxyMux` both read loops run, a dial is answered or times out, a
writer writes while there is room, and a broken link is noticed; applications and
services may stay connected for ever. As every stream is used once and data is
bounded, behaviours are finite there, and one condition on all this work
(`WF_vars(Work)`) is as good as one for each goroutine. In
`ClientSession` signals are delivered and a process that
has left its `select` finishes its deferred calls; dialling may fail for ever.
In `PacketFilter` the watcher's and the signal handler's goroutines run; that a
refresh succeeds now and then, and that a client reconnects, are conditions of the
properties. In `Hub` handlers run to their end, a poll is answered or times out,
and the ticker ticks. In `FrontDoor` the clock does. `DirectForwards` and
`TrustStore` have none.

## Findings

Two runs end in a violation, each of a statement the repository makes:

1. `tunnel_panic`: `server.go:498` relies on `dead` to avoid a send on a closed
   channel; the check and the send are two steps, and the close fits between.
2. `client_drop`: `client.go:304` promises retries on drops; after a drop
   `Connect` returns nil, and the loop ends.

Modelling met more places where the code and what is said of it differ. The
models contain the behaviour, and the properties are stated around it.

- `server.go:228` has Shutdown "exit cleanly"; `wg.Wait` (line 318) waits for
  clients that nothing disconnects, and the reaper has stopped. `ShutdownDrains`
  says what is left: it ends once they have gone.
- `server.go:342` calls `wg.Add` inside the goroutine; a handler accepted just
  before the shutdown may do so after `wg.Wait` has returned and the TUN device is
  closed. `DrainedBeforeTeardown` is about the handlers that had called it.
- `docs/k8s-deployment.md:217` says a restart picks up the CLI's edits of the
  token file; any save of the running server in between undoes them.
- `cmd/main.go:499` calls job tokens safe for matrix jobs; jobs of a matrix share
  the variables the name is made of, and `Revoke` (`token.go:134`) takes the
  first token of that name, which may be another job's.
- `direct.go:174` tracks connections so that a removal can kill them; a
  connection that passed the check at line 168 may be tracked after the kill, and
  the removal of a range kills nothing, as connections are kept by address.
- `httpapi.go:215` captures the address "before removal so we can kill active
  connections", under a lock of its own: if the name was added, or given another
  address, between the two calls, the entry that is removed goes without a kill.
  A failed save (lines 217-220) answers with an error and kills nothing either,
  though the entry is out of the list in memory. `ExactEntryKills` leaves these out.
- `direct.go:145` says `stopDirectListener` closes the listener of the port; one
  whose goroutine is between `net.Listen` and line 126 is not found and accepts on
  without a rule, and after a failed save the listener is not looked for
  (`DeletedRuleStops` leaves both out). A rule added again while the deletion of the
  old one is under way may find its port still bound, and the deletion then clears
  that bind error (line 158): the rule is listed, without listener or error.
- `acl.go:80` says Allow is about packets the device sends to the server; it is
  called for packets to the device, and compares their destination port. The
  policy of `docs/server-features.md:162`, default deny and TCP 5432 allowed,
  drops the database's answers, which go to a port the client chose.
- After requests that overlapped, the hub's file may hold the older list, and a
  slow add after a deletion leaves a client cached that pins the old certificate.
  A poll that ends after its server was deleted leaves a status that only a new
  server of that name replaces, and that the overview counts.
- `docs/k8s-deployment.md:346` advises to delete a server's line in
  `known_hosts.yaml` after it was installed anew; a profile saved with the old
  fingerprint puts it back on the next connect.
- `cmd/profiles.go:90` says the fingerprint of a profile "pins every connection".
  It is put in `known_hosts.yaml` once, before the first attempt
  (`cmd/main.go:460`), and `DialTLS` goes by the entry it finds there: if another
  command or an edit changes it first, or between two attempts of the reconnect
  loop, the connection is verified against another certificate, or the user is
  asked. What holds is `ConnectedAsAgreed`: it is one that was agreed on for this
  server, by a person or a profile, or a CA's with nothing pinned.
- `tofu.go:148` says "won't ask again"; a process that had loaded the list before
  writes its own back and takes the pin out again (`missed`).
- `sshsrv.go:52-68`: the library asks `PublicKeyCallback` about a key before a
  signature is checked, and the callback resets the limiter for a key it finds. So a
  count of failures ends with the name of an authorised key, which is no secret;
  `RateBound` counts from the last reset.
- A whitelisted address that was banned before stays out until the ban ends, and
  the SSH port takes no notice of bans. A label that is withdrawn does not end
  streams that are open.

The passing properties state what does hold around each of them:
`CheckStopsClosed` is exactly the part of the first that the order of the two
stores buys, `AdmitsOnceInRun` what memory guarantees when the file is lost,
`TrackedOrDoomed` and `ExactEntryKills` what a removal does achieve, `LossWindow`
and `RemoteCloseSeen` that bytes and closes are missed only before the stream is
registered.

`SoleTunnel` holds when nobody starts a connect while another is still choosing
whom to stop, and no proxy runs: a proxy in `tunnel.json` hides the tunnel behind
it. `AdmitsEntitled` and `TokensKept` hold while no write is lost or overwritten,
`InStepWhenQuiet` since the last start of the hub while requests did not overlap
and no save failed, `PinsKept` for pins no process overwrote with an older list.

## Proofs

Each theorem holds for every value of the constants that satisfies the named
assumptions of its module, which TLC evaluates on every run. The assumptions say
that markers such as `None`, `NoConn` and `Garbled` are not among the values they
stand apart from, that constants are functions and records of the shape their
comments give, and that capacities are positive. A proof has three parts: an
inductive invariant, one step for each action that keeps it, and what follows from
it. The larger invariants (`MuxInv`, `TokenInv`, `TrustInv`, `DoorInv`) were checked by TLC on
small instances first.

### TunnelServerProofs

`TunnelServerProofs` holds for any finite set of connections, any pool and any
channel capacity (assumptions `ConnsFinite`, `NoConnAssumption`, `PoolAssumption`,
`CapAssumption`, which TLC evaluates in every run of `MCTunnelServer`).

- `TypeCorrect`: the type invariant, inductive by itself: `Assign` picks its
  octet from the pool, and a send is dropped when the channel is full.
- `AddressesOwned`: with types, inductive. An entry of the registry and a handler
  between `Assign` and `Remove` imply each other; as an equivalence it also says
  that no two connections share an address and that `Remove` deletes its own.
- `CountersExact`: gauge and `WaitGroup` equal the number of handlers at the
  program points between their calls. `CountMoves` is the lemma on cardinality
  that each handler step uses: one connection enters the set, leaves it, or
  neither.
- `GaugeBounded` follows: the counted handlers are registered ones, and
  ownership makes them an injective image of taken addresses.
- `TeardownAfterDrain` follows from both: a counter of zero is an empty set, and
  a taken address needs a handler.
- `Invariance` adds `ChannelOrder` (dead before closed), `NoEarlyAddress` and
  `RouterHasTarget`; from it `DeadCheckSound`, and
- `PoolImplemented`: the refinement of `AddressPool`, where `Assign` is `Grant`,
  `Remove` is `Release`, and every other step a stutter. `NoEarlyAddress` is what
  shows that a connection is never granted a second address.

### ProxyMuxProofs

Any number of streams, any capacity, any amount of data. `TypeCorrect`,
`NoOrphanTarget`, `PendingOwned` and `UpstreamKnown` as invariants, `LossWindow`
as an action property, all from `MuxInv`:

- `NoOrphanTarget` needs only types: the server registers a target in the step in
  which the dial succeeds.
- `PendingOwned` needs `AnsweredOnce`: the one answer to a dial is in the DIAL
  not yet read, in the read loop's `reply`, on its way down, or there, and in one
  of these places at most. Without it a second answer could find `pending` after
  the first.
- `UpstreamKnown` needs `OKDialled`: an OK, wherever it is, says that the target
  was dialled, and a client sends DATA only after an OK.
- `LossWindow` needs `DataAfterOK`, the order of frames on the connection: DATA
  comes behind the OK of its stream, or the client has that OK or has given up.
  `CopyingKnown` then says that a stream that copies is registered.
- `ReaderServed` is `NoCircularWait` without its ENABLED. A connection that takes
  no more frames holds at least one (`CapAssumption`), and `DownHandled` says that
  whatever the server sends is of a type `readLoop` has a case for: the answer the
  loop holds is an OK or a FAIL, the goroutines send DATA and CLOSE. That
  `readLoop` needs nothing else to take it, no room on the way up above all, is
  what TLC checks with ENABLED.

Lemmas on the two queues say which frames are in them after a send and a read
(`PutElements`, `TailElements`); all the others cite these.

### TokenStoreProofs

Any number of tokens, names, CLI processes and failing writes. `TypeCorrect`,
`TokensKept`, `AdmitsOnceInRun` and `AdmitsEntitled` from `TokenInv`: each list in
memory, in the file and in a CLI process names a token once at most
(`ListsSound`); its entries carry the terms the token was issued under while no
write was cut short (`ListsFaithful`); the list in memory shuts out what was
revoked or used in this run (`RunInv`), and together with the file what was in any
run, while nothing is lost or overwritten (`StayInv`). That a token is in a list
once is what the two properties hang on: `Validate` marks and `Revoke` removes the
first entry that matches, and a second one would still let in. `AddedList`,
`UsedList`, `RemovedList` and `TornList` say what `Add`, `Validate`, `Revoke` and
a torn write make of a list with these properties; `LeastFound` gives the first
match, from the well-ordering of the naturals.

### DirectForwardsProofs

`TypeCorrect` needs that the files hold what `New` may load, unique entries
included, and that handlers and listeners under way know their port.
`TrackedOrDoomed` is inductive with types. `ExactEntryKills` needs `Served`, that
only connections being served are tracked or evicted: a connection does not change
its address meanwhile. `ListenerReachable` needs `BoundOnce`,
which `net.Listen` gives: a deletion takes the listener of a port out of the map,
and a second one on that port would lose its entry to the first.
`DeletedRuleStops` rests on it: when a deletion takes what the map has for the
port, a listener that accepts is that one, or another deletion is about to close
it, so that only one not yet registered escapes. All hold for any number of
handlers.

### ClientSessionProofs

`TypeCorrect` with the fact that `CurrentTunnel` never names its caller.
`StateFileCleared` from `OwnerInv`: unless somebody was killed, the process in
`tunnel.json` has written it and not yet cleared it. `SoleTunnel`, for any number
of processes, from `SoleInv`: one process at most is past `StopRunningTunnel`, one
at most in it, and whom it has found is the one past it, so it goes on only when
that one has exited.

### GuardProofs

For any addresses, any finite set of connections (`ConnsFinite`), any threshold
and window of at least one, and any ban no shorter than the window
(`BanAssumption`; in the code both are a minute). `RateBound` as an invariant and
`BanJustified` as an action property from `DoorInv`:

- `FewKept`: fewer than `MaxAttempts` failures in the window are kept, since the
  one that makes them as many bans and clears the list. So, while there is no ban
  and everything wrong is kept, `RateBound` holds with room to spare.
- `WrongKept` says when it is kept: each wrong token since the tick of the ban, age
  by age. Without a ban that is all of them, as none was forgotten but with a ban,
  and a ban that has run out has lasted the window: this is where the assumption
  is needed, and with a shorter ban `RateBound` is false.
- `BanBounds`: while the address is banned, its wrong tokens and its connections
  past the ban check are together fewer than `MaxAttempts` and all connections.
  A wrong token takes its connection with it, and none passes the check meanwhile;
  that it holds when the ban begins comes from the first two. A failure at the SSH
  port, which asks for no ban, can begin or prolong one as well.
- `KeptHappened`: what the limiter counts is among the failures of the window since
  its last reset, age by age; so a ban has its cause. For a tick this needs the
  extra age `Window`, where what has left the window is counted apart.

`Total` is the cardinality of a set with one element for each thing counted, so
that what is needed of sums comes from facts on finite sets, without induction:
they grow with the count (`TotalMonotone`), one more failure adds one
(`TotalAdds`), and a tick adds nothing (`TotalOlder`).

`OnlyLabelledReached` from `ReachInv`: the list being read and the list in force
name only Services labelled at some time, and what a stream has checked is what
it dials. It holds for any Services, addresses, DNS answers and policies.

### HubProofs, TrustStoreProofs

- `InStepWhenQuiet` from `StepInv`, which says how far a request in progress has
  come: the list has its change, the cache is behind in that entry only, and the
  file is empty while it is written and holds the list afterwards.
- `ConnectedAsAgreed` and `PinsKept` from `TrustInv`: the pins in the file and in
  the list a process keeps while the user thinks were agreed on for their server,
  and that list lacks only pins that others wrote meanwhile (`missed`). While a
  profile's fingerprint is not overruled it is the pin in the file, at every stage
  and over retries; so `DialTLS` loads it and neither asks nor takes a CA's word.
  What is loaded is agreed on, and `Verify` makes the certificate presented that
  one: without its guard the last step fails.

### Only model-checked

Liveness (`AddressReclaimed`, `ClosedConnEnds`, `RouterReturns`,
`ShutdownDrains`, `TargetReleased`, `RemoteCloseSeen`, `SignalEnds`,
`ExposureConverges`, `PolicyCatchesUp`, `StatusConverges`) and `NoCircularWait`, which is about ENABLED: the prover reaches
neither. Of the latter `ReaderServed` is the part that can be proved.

## Not modelled

Port sharing: a connection's first byte is read in a goroutine of its own and the
connection handed over on a channel; what could be shown is that none is left
over when the listener closes. Authentication of the HTTP API is one comparison.
SSH sessions belong to a library. The control socket returns a snapshot, plugins
are other programs. The installer, the updater, the configuration's precedence
rules, the TUN devices, routes and DNS are sequential I/O.

Inside the modelled parts: packets as such, so that a reply that comes after an
address has changed hands reaches its new holder, as the code would have it;
targets and applications that do not read, each of which stops all streams of its
session; reuse of process ids; packet filtering without labeled mode, where
nothing is filtered but by the ACL; SIGINT and SIGTERM, which share the ACL
handler's channel and end the server (`TunnelServer` has the shutdown); `--insecure`; growth of the limiter's maps,
which are never emptied of addresses that do not come back.

## Plan

All modules of the table, their runs and the proofs above are done. Left, in this
order: an abstract token authority that `TokenStore` implements while no write is
lost or overwritten; port sharing; the SSH key list, a manager like the
whitelist's.
