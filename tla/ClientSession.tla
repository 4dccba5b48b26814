--------------------------- MODULE ClientSession ---------------------------
(***************************************************************************)
(* `auth-vpn connect` processes on one machine: connectCmd in cmd/main.go, *)
(* Connect and ConnectWithReconnect in internal/client/client.go (and      *)
(* their proxy-mode twins), and internal/client/state.go.                  *)
(*                                                                         *)
(* The processes share tunnel.json.  A tunnel-mode connect first finds and *)
(* stops the tunnel that is running, by tunnel.json or by the process      *)
(* list; `auth-vpn disconnect` finds it in the same way.                   *)
(***************************************************************************)
EXTENDS Integers, FiniteSets

CONSTANTS Procs,    \* connect processes
          NoProc    \* no process: no state file, nothing found

ASSUME NoProcAssumption == NoProc \notin Procs

VARIABLES
  pc,         \* connectCmd: program counter per process
  mode,       \* "tun" or "proxy"
  reconnect,  \* processes run with --reconnect, the default
  meta,       \* tunnel.json: the process it describes, or NoProc
  wrote,      \* processes whose WriteMeta succeeded: they defer ClearMeta
  victim,     \* StopRunningTunnel: the process found and signalled
  signalled,  \* processes with a SIGTERM or SIGINT that is not handled yet
  dropped,    \* processes whose tunnel broke
  cleaner,    \* disconnect: "idle", or "clearing" a state file it found stale
  overlapped, \* history: a connect started while another was choosing whom to stop
  killed      \* history: a process ended without its deferred calls

vars == <<pc, mode, reconnect, meta, wrote, victim, signalled, dropped, cleaner,
          overlapped, killed>>

PCs == {"idle",
        "finding",   \* StopRunningTunnel: CurrentTunnel
        "found",     \* before proc.Signal
        "waiting",   \* for the victim to exit
        "dialing",   \* DialTLS to the AUTH_OK
        "recording", \* TUN device and routes are up; before WriteMeta
        "starting",  \* before signal.Notify
        "up",        \* select on the signal and the context
        "ending",    \* deferred: ClearMeta, its ReadMeta
        "clearing",  \* ClearMeta, its Remove
        "unrouting", \* deferred: DNS, routes and TUN device
        "backoff",   \* ConnectWithReconnect's sleep
        "gone"}

Init ==
    /\ pc = [p \in Procs |-> "idle"]
    /\ mode = [p \in Procs |-> "tun"]
    /\ reconnect = {}
    /\ meta = NoProc
    /\ wrote = {}
    /\ victim = [p \in Procs |-> NoProc]
    /\ signalled = {} /\ dropped = {}
    /\ cleaner = "idle"
    /\ overlapped = FALSE /\ killed = FALSE

Alive(p) == pc[p] \notin {"idle", "gone"}

Goto(p, from, to) == pc[p] = from /\ pc' = [pc EXCEPT ![p] = to]

\* Mutant: the process list includes the asking process.
CurrentTunnelSelf(p) ==
    IF meta \in Procs \ {p} /\ Alive(meta) THEN {meta}
    ELSE LET all == {q \in Procs : Alive(q)}
         IN IF all = {} THEN {NoProc} ELSE all

\* CurrentTunnel, asked by process p or by `disconnect` (NoProc): the process in
\* tunnel.json if it is another one and alive, else the first of the connect
\* processes that ps lists.
CurrentTunnel(p) ==
    IF meta \in Procs \ {p} /\ Alive(meta) THEN {meta}
    ELSE LET others == {q \in Procs \ {p} : Alive(q)}
         IN IF others = {} THEN {NoProc} ELSE others

-----------------------------------------------------------------------------
(* connectCmd and StopRunningTunnel.                                       *)

Choosing == {"finding", "found", "waiting"}

\* Proxy mode (--forward) does not look for a running tunnel.
Start(p, m, again) ==
    /\ Goto(p, "idle", IF m = "tun" THEN "finding" ELSE "dialing")
    /\ mode' = [mode EXCEPT ![p] = m]
    /\ reconnect' = IF again THEN reconnect \union {p} ELSE reconnect
    /\ overlapped' = (overlapped \/ \E q \in Procs : pc[q] \in Choosing)
    /\ UNCHANGED <<meta, wrote, victim, signalled, dropped, cleaner, killed>>

\* Nothing is found, or a proxy, which is left alone.
FindNothing(p) ==
    /\ \E q \in CurrentTunnel(p) : q # NoProc => mode[q] = "proxy"
    /\ Goto(p, "finding", "dialing")
    /\ UNCHANGED <<mode, reconnect, meta, wrote, victim, signalled, dropped, cleaner,
                   overlapped, killed>>

\* A tunnel is found; in the process list a proxy whose forwards come from its
\* profile, not from --forward, looks like one.
FindTunnel(p) ==
    /\ Goto(p, "finding", "found")
    /\ \E q \in CurrentTunnel(p) \ {NoProc} :
         /\ mode[q] = "tun" \/ q # meta
         /\ victim' = [victim EXCEPT ![p] = q]
    /\ UNCHANGED <<mode, reconnect, meta, wrote, signalled, dropped, cleaner, overlapped,
                   killed>>

SignalVictim(p) ==
    /\ Goto(p, "found", "waiting")
    /\ Alive(victim[p])
    /\ signalled' = signalled \union {victim[p]}
    /\ UNCHANGED <<mode, reconnect, meta, wrote, victim, dropped, cleaner, overlapped, killed>>

\* "stop running tunnel": the process has just exited, and connect fails.
SignalFails(p) ==
    /\ Goto(p, "found", "gone")
    /\ ~Alive(victim[p])
    /\ UNCHANGED <<mode, reconnect, meta, wrote, victim, signalled, dropped, cleaner,
                   overlapped, killed>>

\* Mutant: connect goes on without waiting for the victim's exit.
VictimIgnored(p) ==
    /\ Goto(p, "waiting", "dialing")
    /\ UNCHANGED <<mode, reconnect, meta, wrote, victim, signalled, dropped, cleaner,
                   overlapped, killed>>

VictimExited(p) ==
    /\ Goto(p, "waiting", "dialing")
    /\ ~Alive(victim[p])
    /\ UNCHANGED <<mode, reconnect, meta, wrote, victim, signalled, dropped, cleaner,
                   overlapped, killed>>

\* "did not exit within 10s"
VictimLingers(p) ==
    /\ Goto(p, "waiting", "gone")
    /\ Alive(victim[p])
    /\ UNCHANGED <<mode, reconnect, meta, wrote, victim, signalled, dropped, cleaner,
                   overlapped, killed>>

-----------------------------------------------------------------------------
(* Connect and ConnectWithReconnect.                                       *)

\* Dialling, authentication or the TUN device fails: Connect returns an error.
DialFails(p) ==
    /\ Goto(p, "dialing", IF p \in reconnect THEN "backoff" ELSE "gone")
    /\ UNCHANGED <<mode, reconnect, meta, wrote, victim, signalled, dropped, cleaner,
                   overlapped, killed>>

Retry(p) ==
    /\ Goto(p, "backoff", "dialing")
    /\ UNCHANGED <<mode, reconnect, meta, wrote, victim, signalled, dropped, cleaner,
                   overlapped, killed>>

\* AUTH_OK; in tunnel mode the device and the routes are set up.
TunnelUp(p) ==
    /\ Goto(p, "dialing", "recording")
    /\ UNCHANGED <<mode, reconnect, meta, wrote, victim, signalled, dropped, cleaner,
                   overlapped, killed>>

\* WriteMeta renames a complete file into place; ClearMeta is deferred.
Record(p) ==
    /\ Goto(p, "recording", "starting")
    /\ meta' = p
    /\ wrote' = wrote \union {p}
    /\ UNCHANGED <<mode, reconnect, victim, signalled, dropped, cleaner, overlapped, killed>>

\* WriteMeta fails, or a proxy runs in the foreground and does not record itself.
Unrecorded(p) ==
    /\ Goto(p, "recording", "starting")
    /\ UNCHANGED <<mode, reconnect, meta, wrote, victim, signalled, dropped, cleaner,
                   overlapped, killed>>

Notify(p) ==
    /\ Goto(p, "starting", "up")
    /\ UNCHANGED <<mode, reconnect, meta, wrote, victim, signalled, dropped, cleaner,
                   overlapped, killed>>

\* The connection breaks and one of the goroutines cancels the context.
Drop(p) ==
    /\ pc[p] \in {"recording", "starting", "up"}
    /\ p \notin dropped
    /\ dropped' = dropped \union {p}
    /\ UNCHANGED <<pc, mode, reconnect, meta, wrote, victim, signalled, cleaner, overlapped,
                   killed>>

\* The deferred calls begin; ClearMeta is one of them if WriteMeta succeeded.
AfterSelect(p) == IF p \in wrote THEN "ending" ELSE "unrouting"

\* case <-ctx.Done()
DropSeen(p) ==
    /\ p \in dropped
    /\ Goto(p, "up", AfterSelect(p))
    /\ UNCHANGED <<mode, reconnect, meta, wrote, victim, signalled, dropped, cleaner,
                   overlapped, killed>>

\* case <-sig: Connect returns ErrCleanDisconnect.
SignalSeen(p) ==
    /\ p \in signalled
    /\ Goto(p, "up", AfterSelect(p))
    /\ signalled' = signalled \ {p}
    /\ dropped' = dropped \ {p}
    /\ UNCHANGED <<mode, reconnect, meta, wrote, victim, cleaner, overlapped, killed>>

\* Where signal.Notify is not in effect a signal kills the process; its device
\* and routes go with it, tunnel.json stays.
SignalKills(p) ==
    /\ p \in signalled
    /\ Alive(p) /\ pc[p] # "up"
    /\ pc' = [pc EXCEPT ![p] = "gone"]
    /\ signalled' = signalled \ {p}
    /\ killed' = TRUE
    /\ UNCHANGED <<mode, reconnect, meta, wrote, victim, dropped, cleaner, overlapped>>

\* ClearMeta reads the file and leaves it alone when it describes another process.
ClearRead(p) ==
    /\ IF meta \in Procs \ {p} THEN Goto(p, "ending", "unrouting")
                               ELSE Goto(p, "ending", "clearing")
    /\ UNCHANGED <<mode, reconnect, meta, wrote, victim, signalled, dropped, cleaner,
                   overlapped, killed>>

\* Mutant: the file is not removed.
ClearKeeps(p) ==
    /\ Goto(p, "clearing", "unrouting")
    /\ UNCHANGED <<mode, reconnect, meta, wrote, victim, signalled, dropped, cleaner,
                   overlapped, killed>>

\* Otherwise it removes it.
ClearRemove(p) ==
    /\ Goto(p, "clearing", "unrouting")
    /\ meta' = NoProc
    /\ UNCHANGED <<mode, reconnect, wrote, victim, signalled, dropped, cleaner, overlapped,
                   killed>>

\* Mutant: a clean disconnect is retried too.
EndRetries(p) ==
    /\ Goto(p, "unrouting", "backoff")
    /\ UNCHANGED <<mode, reconnect, meta, wrote, victim, signalled, dropped, cleaner,
                   overlapped, killed>>

\* The device is closed and Connect returns, nil after a drop and
\* ErrCleanDisconnect after a signal; on either ConnectWithReconnect returns nil
\* and the process exits.
End(p) ==
    /\ Goto(p, "unrouting", "gone")
    /\ UNCHANGED <<mode, reconnect, meta, wrote, victim, signalled, dropped, cleaner,
                   overlapped, killed>>

-----------------------------------------------------------------------------
(* auth-vpn disconnect, and the user's Ctrl-C.                             *)

Disconnect ==
    /\ cleaner = "idle"
    /\ \E q \in CurrentTunnel(NoProc) :
         IF q # NoProc
         THEN signalled' = signalled \union {q} /\ UNCHANGED cleaner
         ELSE /\ meta # NoProc
              /\ cleaner' = "clearing"
              /\ UNCHANGED signalled
    /\ UNCHANGED <<pc, mode, reconnect, meta, wrote, victim, dropped, overlapped, killed>>

\* ForceClearMeta, whatever the file says by now.
ForceClear ==
    /\ cleaner = "clearing"
    /\ cleaner' = "idle"
    /\ meta' = NoProc
    /\ UNCHANGED <<pc, mode, reconnect, wrote, victim, signalled, dropped, overlapped, killed>>

Interrupt(p) ==
    /\ Alive(p)
    /\ p \notin signalled
    /\ signalled' = signalled \union {p}
    /\ UNCHANGED <<pc, mode, reconnect, meta, wrote, victim, dropped, cleaner, overlapped,
                   killed>>

-----------------------------------------------------------------------------
StopStep(p) ==
    \/ FindNothing(p) \/ FindTunnel(p) \/ SignalVictim(p) \/ SignalFails(p)
    \/ VictimExited(p) \/ VictimLingers(p)

ConnectStep(p) ==
    \/ DialFails(p) \/ Retry(p) \/ TunnelUp(p) \/ Record(p) \/ Unrecorded(p) \/ Notify(p)

EndStep(p) ==
    \/ DropSeen(p) \/ SignalSeen(p) \/ ClearRead(p) \/ ClearRemove(p) \/ End(p)

Next ==
    \/ \E p \in Procs, m \in {"tun", "proxy"}, again \in BOOLEAN : Start(p, m, again)
    \/ \E p \in Procs :
         \/ StopStep(p) \/ ConnectStep(p) \/ EndStep(p)
         \/ SignalKills(p) \/ Drop(p) \/ Interrupt(p)
    \/ Disconnect
    \/ ForceClear

Spec == Init /\ [][Next]_vars

\* A signal is delivered, and a process that leaves the select loop finishes; the
\* server and the network may keep a dial waiting or failing for ever.
Fairness ==
    \A p \in Procs :
      /\ WF_vars(SignalKills(p))
      /\ WF_vars(Notify(p) \/ EndStep(p))

FairSpec == Spec /\ Fairness

-----------------------------------------------------------------------------
(* Properties.                                                             *)

\* Types of the variables; a process that has found somebody to stop has found
\* another process than itself, as CurrentTunnel's comparison with its own PID
\* is there to ensure.
TypeOK ==
    /\ pc \in [Procs -> PCs]
    /\ mode \in [Procs -> {"tun", "proxy"}]
    /\ meta \in Procs \union {NoProc}
    /\ wrote \subseteq Procs /\ reconnect \subseteq Procs
    /\ victim \in [Procs -> Procs \union {NoProc}]
    /\ \A p \in Procs : pc[p] \in {"found", "waiting"} => victim[p] \in Procs \ {p}
    /\ signalled \subseteq Procs /\ dropped \subseteq Procs
    /\ cleaner \in {"idle", "clearing"}
    /\ {overlapped, killed} \subseteq BOOLEAN

\* The process has its TUN device and routes.
HasTun(p) ==
    /\ mode[p] = "tun"
    /\ pc[p] \in {"recording", "starting", "up", "ending", "clearing", "unrouting"}

\* "One TUN tunnel at a time: connecting elsewhere switches over": the old tunnel
\* has torn down its routes before the new one sets up its own, whatever drops,
\* signals, kills and stale state files come in between - as long as users do not
\* start a connect while another is still choosing, and no proxy is running whose
\* state hides the tunnel's.
SoleTunnel ==
    ~overlapped /\ (\A p \in Procs : mode[p] = "tun") =>
      Cardinality({p \in Procs : HasTun(p)}) <= 1

\* "after a switch, the new tunnel owns the file": when every process has ended
\* and none was killed, tunnel.json is gone, whichever process wrote it last.
StateFileCleared ==
    (\A p \in Procs : ~Alive(p)) /\ ~killed => meta = NoProc

\* A process that is told to stop stops: in the select loop it disconnects, and
\* anywhere else the signal ends it.
SignalEnds == \A p \in Procs : (p \in signalled) ~> ~Alive(p)

-----------------------------------------------------------------------------
(* What a comment promises and the code does not keep.                     *)

\* "retrying on unexpected tunnel drops": when the tunnel of a process broke and
\* nobody asked it to stop, Connect's return is followed by another attempt.
DropRetried ==
    [][\A p \in Procs :
         /\ p \in dropped /\ p \in reconnect /\ p \notin signalled
         /\ pc[p] = "unrouting" /\ pc'[p] # pc[p]
         => pc'[p] = "backoff"]_vars
=============================================================================
