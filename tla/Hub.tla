-------------------------------- MODULE Hub --------------------------------
(***************************************************************************)
(* The multi-server hub: internal/hub/hub.go and config.go.                *)
(*                                                                         *)
(* Three pieces of state are keyed by a server's name and guarded by three *)
(* locks: the list of registered servers, the health status of each, and   *)
(* an HTTP client for each that pins its certificate.  The list is also    *)
(* written to hub.yaml.  The handlers that add and delete a server go      *)
(* through them one lock at a time; pollOne goroutines work on a copy of   *)
(* an entry and store what they find under its name.                       *)
(***************************************************************************)
EXTENDS Naturals

CONSTANTS Names,     \* names a server may be registered under
          Endpoints, \* what an entry says of a server: URL, API key, fingerprint
          None,      \* no entry in a map
          Garbled,   \* contents of hub.yaml that do not parse
          Reqs,      \* requests that may be in progress at the same time
          Polls      \* pollOne goroutines that may run at the same time

ASSUME NoneAssumption == None \notin Endpoints /\ Garbled # None
ASSUME GarbledAssumption == Garbled \notin [Names -> Endpoints \union {None}]

VARIABLES
  cfg,      \* h.cfg.Servers, as a map: handleServers keeps the names distinct
  statuses, \* h.statuses: the entry that was polled and the client it was polled with
  hcache,   \* h.hcache: the endpoint whose certificate the client pins
  file,     \* ~/.auth-vpn/hub.yaml
  hub,      \* the process: "up" or "down"
  req,      \* the handlers in progress
  poll,     \* the pollOne goroutines
  clean     \* history: since the start no save failed and no two requests met

vars == <<cfg, statuses, hcache, file, hub, req, poll, clean>>

Lists == [Names -> Endpoints \union {None}]
Empty == [n \in Names |-> None]

IdleReq  == [pc |-> "idle", name |-> None, at |-> None, snap |-> Empty]
IdlePoll == [pc |-> "idle", name |-> None, at |-> None, via |-> None]
Started(n, e) == [pc |-> "started", name |-> n, at |-> e, via |-> None]

Init ==
    /\ cfg = Empty /\ file = Empty
    /\ statuses = Empty /\ hcache = Empty
    /\ hub = "up"
    /\ req = [r \in Reqs |-> IdleReq]
    /\ poll = [q \in Polls |-> IdlePoll]
    /\ clean = TRUE

Quiet == \A r \in Reqs : req[r].pc = "idle"

-----------------------------------------------------------------------------
(* POST and DELETE /api/hub/servers.                                       *)

\* Under cfgMu: the list changes and is copied for saveConfig.
Begin(r, n, e, after) ==
    /\ hub = "up"
    /\ req[r].pc = "idle"
    /\ cfg' = after
    /\ req' = [req EXCEPT ![r] = [pc |-> "opening", name |-> n, at |-> e, snap |-> after]]
    /\ clean' = (clean /\ Quiet)
    /\ UNCHANGED <<statuses, hcache, file, hub, poll>>

\* POST: a name that is taken is refused.
AddServer(r, n, e) ==
    /\ cfg[n] = None
    /\ Begin(r, n, e, [cfg EXCEPT ![n] = e])

\* DELETE: an unknown name is refused.
DeleteServer(r, n) ==
    /\ cfg[n] # None
    /\ Begin(r, n, None, [cfg EXCEPT ![n] = None])

Adding(r) == req[r].at # None

Goto(r, from, to) ==
    /\ hub = "up"
    /\ req[r].pc = from
    /\ req' = [req EXCEPT ![r].pc = to]

AfterSave(r) == IF Adding(r) THEN "caching" ELSE "unstatus"

\* saveConfig returns; the copy of the list is not used any more.
Saved(r, from) ==
    /\ hub = "up"
    /\ req[r].pc = from
    /\ req' = [req EXCEPT ![r].pc = AfterSave(r), ![r].snap = Empty]

\* saveConfig: os.WriteFile opens the file, which empties it; an empty file loads
\* as an empty list.
SaveOpens(r) ==
    /\ Goto(r, "opening", "writing")
    /\ file' = Empty
    /\ UNCHANGED <<cfg, statuses, hcache, hub, poll, clean>>

\* What may be in the file when only part of list was written: nothing that
\* parses, or a list with entries missing and one cut short in its fields.
Torn(list) == {Garbled} \union {f \in Lists : \A n \in Names : list[n] = None => f[n] = None}

\* The copy is written from offset 0; if another request has written meanwhile
\* the two texts may end up mixed.
SaveWrites(r) ==
    /\ Saved(r, "writing")
    /\ \/ file' = req[r].snap
       \/ file # Empty /\ file' \in Lists \union {Garbled}
    /\ UNCHANGED <<cfg, statuses, hcache, hub, poll, clean>>

\* saveConfig fails, before the file was emptied or in the middle of the write;
\* the error is logged and the handler goes on.
SaveFails(r) ==
    /\ \/ Saved(r, "opening") /\ UNCHANGED file
       \/ Saved(r, "writing") /\ file' \in Torn(req[r].snap)
    /\ clean' = FALSE
    /\ UNCHANGED <<cfg, statuses, hcache, hub, poll>>

\* POST, the rest: the client is cached under hcMu and a poll of the server started.
CacheClient(r, q) ==
    /\ hub = "up"
    /\ req[r].pc = "caching"
    /\ req' = [req EXCEPT ![r] = IdleReq]
    /\ hcache' = [hcache EXCEPT ![req[r].name] = req[r].at]
    /\ poll[q].pc = "idle"
    /\ poll' = [poll EXCEPT ![q] = Started(req[r].name, req[r].at)]
    /\ UNCHANGED <<cfg, statuses, file, hub, clean>>

\* DELETE, the rest: first the status goes, under statusMu ...
DropStatus(r) ==
    /\ Goto(r, "unstatus", "uncache")
    /\ statuses' = [statuses EXCEPT ![req[r].name] = None]
    /\ UNCHANGED <<cfg, hcache, file, hub, poll, clean>>

\* Mutant: the client of a deleted server stays cached.
DropClientForgets(r) ==
    /\ hub = "up"
    /\ req[r].pc = "uncache"
    /\ req' = [req EXCEPT ![r] = IdleReq]
    /\ UNCHANGED <<cfg, statuses, hcache, file, hub, poll, clean>>

\* ... then the client, under hcMu.
DropClient(r) ==
    /\ hub = "up"
    /\ req[r].pc = "uncache"
    /\ req' = [req EXCEPT ![r] = IdleReq]
    /\ hcache' = [hcache EXCEPT ![req[r].name] = None]
    /\ UNCHANGED <<cfg, statuses, file, hub, poll, clean>>

-----------------------------------------------------------------------------
(* Health polling.                                                         *)

\* clientFor: the client cached under the name, or else one built for the entry.
ClientFor(n, e) == IF hcache[n] # None THEN hcache[n] ELSE e

\* A tick: pollAll copies the list and starts a goroutine for each server.
PollAll ==
    /\ hub = "up"
    /\ \E started \in [Names -> Polls \union {None}] :
         /\ \A n \in Names : started[n] # None <=> cfg[n] # None
         /\ \A n \in Names : started[n] # None =>
              /\ poll[started[n]].pc = "idle"
              /\ \A m \in Names \ {n} : started[m] # started[n]
         /\ poll' = [q \in Polls |->
              IF \E n \in Names : started[n] = q
              THEN LET n == CHOOSE n \in Names : started[n] = q IN Started(n, cfg[n])
              ELSE poll[q]]
    /\ UNCHANGED <<cfg, statuses, hcache, file, hub, req, clean>>

\* pollOne takes its client and sends the request.
PollAsks(q) ==
    /\ hub = "up"
    /\ poll[q].pc = "started"
    /\ poll' = [poll EXCEPT ![q].pc = "asking",
                            ![q].via = ClientFor(poll[q].name, poll[q].at)]
    /\ UNCHANGED <<cfg, statuses, hcache, file, hub, req, clean>>

\* Mutant: only the first poll of a server is recorded.
PollAnsweredOnce(q) ==
    /\ hub = "up"
    /\ poll[q].pc = "asking"
    /\ poll' = [poll EXCEPT ![q] = IdlePoll]
    /\ statuses' = IF statuses[poll[q].name] = None
                   THEN [statuses EXCEPT ![poll[q].name] =
                           [of |-> poll[q].at, via |-> poll[q].via]]
                   ELSE statuses
    /\ UNCHANGED <<cfg, hcache, file, hub, req, clean>>

\* The answer, an error or the 15 s timeout; either way the status is stored,
\* whatever became of the entry.  What it says of the server is left out: a client
\* that pins another certificate makes it an error, so only with the entry's own
\* client does it tell whether the server is up.
PollAnswered(q) ==
    /\ hub = "up"
    /\ poll[q].pc = "asking"
    /\ poll' = [poll EXCEPT ![q] = IdlePoll]
    /\ statuses' = [statuses EXCEPT ![poll[q].name] =
                      [of |-> poll[q].at, via |-> poll[q].via]]
    /\ UNCHANGED <<cfg, hcache, file, hub, req, clean>>

-----------------------------------------------------------------------------
(* The process.                                                            *)

\* Stop, or a crash: handlers and polls end where they are.
HubStops ==
    /\ hub = "up"
    /\ hub' = "down"
    /\ req' = [r \in Reqs |-> IdleReq]
    /\ poll' = [q \in Polls |-> IdlePoll]
    /\ \/ UNCHANGED file
       \/ \E r \in Reqs : req[r].pc = "writing" /\ file' \in Torn(req[r].snap)
    /\ cfg' = Empty /\ statuses' = Empty /\ hcache' = Empty
    /\ UNCHANGED clean

\* rebuildClientCache: a client for each entry, pinning its own certificate.
RebuildClientCache(list) == list

\* LoadConfig and New; a file that does not parse keeps the hub from starting.
HubStarts ==
    /\ hub = "down"
    /\ file # Garbled
    /\ hub' = "up"
    /\ cfg' = file
    /\ hcache' = RebuildClientCache(file)
    /\ clean' = TRUE
    /\ UNCHANGED <<statuses, file, req, poll>>

ReqStep(r) ==
    \/ SaveOpens(r) \/ SaveWrites(r) \/ SaveFails(r)
    \/ (\E q \in Polls : CacheClient(r, q))
    \/ DropStatus(r) \/ DropClient(r)

Next ==
    \/ \E r \in Reqs, n \in Names :
         DeleteServer(r, n) \/ \E e \in Endpoints : AddServer(r, n, e)
    \/ \E r \in Reqs : ReqStep(r)
    \/ PollAll
    \/ \E q \in Polls : PollAsks(q) \/ PollAnswered(q)
    \/ HubStops \/ HubStarts

Spec == Init /\ [][Next]_vars

\* Handlers run to their end, polls have a timeout, and the ticker ticks.  Nobody
\* has to add or delete a server, or to start the hub again.
Fairness ==
    /\ \A r \in Reqs : WF_vars(ReqStep(r))
    /\ \A q \in Polls : WF_vars(PollAsks(q) \/ PollAnswered(q))
    /\ WF_vars(PollAll)

FairSpec == Spec /\ Fairness

-----------------------------------------------------------------------------
(* Properties.                                                             *)

\* Requests made one after the other leave the list, the file and the clients in step:
\* between two of them the file holds the list, so that a restart brings back the
\* servers that were there and no other, and a server's requests go through the
\* client that pins its own certificate, not that of a namesake deleted before.
InStepWhenQuiet ==
    hub = "up" /\ clean /\ Quiet =>
      /\ file = cfg
      /\ \A n \in Names : hcache[n] = cfg[n]

\* "A status dot next to each server name shows live health": whatever polls of
\* earlier servers of that name are still under way, and however requests ran
\* into each other, the status of a server that stays registered ends up being
\* its own, and says whether it is up as long as the client cached is its own.
StatusConverges ==
    \A n \in Names, e \in Endpoints :
      /\ <>[](hub = "up" /\ cfg[n] = e)
           => <>[](statuses[n] # None /\ statuses[n].of = e)
      /\ <>[](hub = "up" /\ cfg[n] = e /\ hcache[n] \in {e, None})
           => <>[](statuses[n] = [of |-> e, via |-> e])
=============================================================================
