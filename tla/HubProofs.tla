----------------------------- MODULE HubProofs -----------------------------
(***************************************************************************)
(* The hub's maps and its file stay in step, proved for every number of    *)
(* servers, requests and polls.                                            *)
(***************************************************************************)
EXTENDS Hub, TLAPS

ReqPCs == {"idle", "opening", "writing", "caching", "unstatus", "uncache"}

\* Types of the variables that requests work on.
HubTypes ==
    /\ cfg \in Lists /\ hcache \in Lists
    /\ file \in Lists \union {Garbled}
    /\ hub \in {"up", "down"}
    /\ req \in [Reqs -> [pc : ReqPCs, name : Names \union {None},
                         at : Endpoints \union {None}, snap : Lists]]
    /\ \A r \in Reqs : req[r].pc # "idle" => req[r].name \in Names

\* While requests come one after the other, the one in progress is the only one.
OneRequest ==
    \A r, s \in Reqs : req[r].pc # "idle" /\ req[s].pc # "idle" => r = s

\* What the request r in progress has done: cfg has its change, hcache is behind in that
\* entry only, and the file holds cfg once it is saved.
Halfway(r) ==
    /\ cfg[req[r].name] = req[r].at
    /\ \A n \in Names \ {req[r].name} : hcache[n] = cfg[n]
    /\ req[r].pc \in {"opening", "writing"} => req[r].snap = cfg
    /\ req[r].pc = "writing" => file = Empty
    /\ req[r].pc \in {"caching", "unstatus", "uncache"} => file = cfg
    /\ req[r].pc \in {"unstatus", "uncache"} => req[r].at = None

\* The inductive invariant.
StepInv ==
    /\ HubTypes
    /\ hub = "down" => Quiet
    /\ hub = "up" /\ clean =>
         /\ OneRequest
         /\ \A r \in Reqs : req[r].pc # "idle" => Halfway(r)
         /\ Quiet => file = cfg /\ \A n \in Names : hcache[n] = cfg[n]

-----------------------------------------------------------------------------
\* A copy of the list is a list, and so is an empty file.
LEMMA EmptyList == Empty \in Lists /\ IdleReq.pc = "idle" /\ IdleReq.snap \in Lists
  BY DEF Empty, Lists, IdleReq

\* Every action keeps the types.
LEMMA TypesStep == HubTypes /\ [Next]_vars => HubTypes'
<1> SUFFICES ASSUME HubTypes, [Next]_vars PROVE HubTypes'
  OBVIOUS
<1> USE DEF HubTypes
<1>1. ASSUME NEW r \in Reqs, NEW n \in Names, NEW e \in Endpoints \union {None},
             Begin(r, n, e, [cfg EXCEPT ![n] = e])
      PROVE HubTypes'
  <2>1. [cfg EXCEPT ![n] = e] \in Lists
    BY DEF Lists
  <2>2. QED
    BY <1>1, <2>1 DEF Begin, ReqPCs
<1>2. ASSUME NEW r \in Reqs, SaveOpens(r) PROVE HubTypes'
  BY <1>2, EmptyList DEF SaveOpens, Goto, ReqPCs
<1>3. ASSUME NEW r \in Reqs, SaveWrites(r) \/ SaveFails(r) PROVE HubTypes'
  <2>1. AfterSave(r) \in ReqPCs \ {"idle"}
    BY DEF AfterSave, ReqPCs
  <2>2. file' \in Lists \union {Garbled}
    BY <1>3 DEF SaveWrites, SaveFails, Torn, Saved
  <2>3. req' = [req EXCEPT ![r].pc = AfterSave(r), ![r].snap = Empty]
        /\ req[r].pc # "idle"
    BY <1>3 DEF SaveWrites, SaveFails, Saved
  <2>4. UNCHANGED <<cfg, hcache, hub>>
    BY <1>3 DEF SaveWrites, SaveFails
  <2>5. QED
    BY <2>1, <2>2, <2>3, <2>4, EmptyList
<1>4. ASSUME NEW r \in Reqs, NEW q \in Polls, CacheClient(r, q) PROVE HubTypes'
  BY <1>4, EmptyList DEF CacheClient, IdleReq, Lists, ReqPCs
<1>5. ASSUME NEW r \in Reqs, DropStatus(r) \/ DropClient(r) PROVE HubTypes'
  BY <1>5, EmptyList DEF DropStatus, DropClient, Goto, IdleReq, Lists, ReqPCs
<1>6. CASE HubStops
  <2>1. file' \in Lists \union {Garbled}
    BY <1>6 DEF HubStops, Torn
  <2>2. QED
    BY <1>6, <2>1, EmptyList DEF HubStops, IdleReq, ReqPCs
<1>7. CASE HubStarts
  BY <1>7 DEF HubStarts, RebuildClientCache
<1>8. CASE UNCHANGED <<cfg, hcache, file, hub, req>>
  BY <1>8
<1>9. QED
  BY <1>1, <1>2, <1>3, <1>4, <1>5, <1>6, <1>7, <1>8
     DEF Next, ReqStep, AddServer, DeleteServer, PollAll, PollAsks, PollAnswered, vars

\* A request that begins while none is in progress has its change in cfg only.
LEMMA BeginStep ==
  ASSUME StepInv, HubTypes', NEW r \in Reqs, NEW n \in Names,
         NEW e \in Endpoints \union {None}, Begin(r, n, e, [cfg EXCEPT ![n] = e])
  PROVE  StepInv'
<1>1. hub' = "up" /\ (clean' => clean /\ Quiet)
  BY Zenon DEF Begin
<1>2. CASE ~clean'
  BY <1>1, <1>2 DEF StepInv
<1>3. CASE clean'
  <2>1. \A s \in Reqs \ {r} : req'[s].pc = "idle"
    BY <1>1, <1>3 DEF Begin, Quiet, StepInv, HubTypes
  <2>2. req'[r] = [pc |-> "opening", name |-> n, at |-> e, snap |-> cfg']
    BY DEF Begin, StepInv, HubTypes
  <2>3. cfg' = [cfg EXCEPT ![n] = e] /\ hcache' = hcache
    BY DEF Begin
  <2>4. Halfway(r)'
    BY <1>1, <1>3, <2>2, <2>3 DEF Halfway, StepInv, HubTypes, Lists, Begin
  <2>5. QED
    BY <1>1, <2>1, <2>2, <2>4 DEF StepInv, OneRequest, Quiet
<1>4. QED
  BY <1>2, <1>3

\* A step of the request in progress, which is not over after it.
LEMMA MiddleStep ==
  ASSUME StepInv, HubTypes', NEW r \in Reqs, hub = "up", hub' = "up", clean' => clean,
         req[r].pc # "idle", req'[r].pc # "idle",
         \A s \in Reqs \ {r} : req'[s].pc = req[s].pc, clean' => Halfway(r)'
  PROVE  StepInv'
<1>1. ~Quiet'
  BY DEF Quiet
<1>2. clean' => \A s \in Reqs \ {r} : req'[s].pc = "idle"
  BY DEF StepInv, OneRequest
<1>3. QED
  BY <1>1, <1>2 DEF StepInv, OneRequest

\* The last step of the request in progress.
LEMMA LastStep ==
  ASSUME StepInv, HubTypes', NEW r \in Reqs, hub = "up", hub' = "up", clean' = clean,
         req[r].pc # "idle", req'[r].pc = "idle",
         \A s \in Reqs \ {r} : req'[s].pc = req[s].pc,
         clean => file' = cfg' /\ \A n \in Names : hcache'[n] = cfg'[n]
  PROVE  StepInv'
<1>1. clean' => \A s \in Reqs : req'[s].pc = "idle"
  BY DEF StepInv, OneRequest
<1>2. QED
  BY <1>1 DEF StepInv, OneRequest

\* Every action keeps the maps and the file in step.
LEMMA InStepStep == StepInv /\ [Next]_vars => StepInv'
<1> SUFFICES ASSUME StepInv, [Next]_vars PROVE StepInv'
  OBVIOUS
<1>a. HubTypes /\ HubTypes'
  BY TypesStep DEF StepInv
<1>1. ASSUME NEW r \in Reqs, NEW n \in Names,
             DeleteServer(r, n) \/ \E e \in Endpoints : AddServer(r, n, e)
      PROVE StepInv'
  BY <1>1, <1>a, BeginStep DEF DeleteServer, AddServer
<1>2. ASSUME NEW r \in Reqs, SaveOpens(r) PROVE StepInv'
  <2>1. /\ hub = "up" /\ hub' = "up" /\ clean' = clean /\ file' = Empty
        /\ cfg' = cfg /\ hcache' = hcache
        /\ req[r].pc = "opening" /\ req' = [req EXCEPT ![r].pc = "writing"]
    BY <1>2 DEF SaveOpens, Goto
  <2>2. clean => Halfway(r)'
    BY <1>a, <2>1 DEF StepInv, Halfway, HubTypes
  <2>3. QED
    BY <1>a, <2>1, <2>2, MiddleStep DEF HubTypes
<1>3. ASSUME NEW r \in Reqs, SaveWrites(r) PROVE StepInv'
  <2>1. /\ hub = "up" /\ hub' = "up" /\ clean' = clean
        /\ cfg' = cfg /\ hcache' = hcache
        /\ req[r].pc = "writing"
        /\ req' = [req EXCEPT ![r].pc = AfterSave(r), ![r].snap = Empty]
        /\ file = Empty => file' = req[r].snap
    BY <1>3 DEF SaveWrites, Saved
  <2>2. AfterSave(r) \in {"caching", "unstatus", "uncache"}
        /\ (AfterSave(r) # "caching" => req[r].at = None)
    BY DEF AfterSave, Adding
  <2>3. req'[r] = [req[r] EXCEPT !.pc = AfterSave(r), !.snap = Empty]
    BY <1>a, <2>1 DEF HubTypes
  <2>4. clean => Halfway(r)'
    BY <1>a, <2>1, <2>2, <2>3 DEF StepInv, Halfway, HubTypes
  <2>5. QED
    BY <1>a, <2>1, <2>2, <2>3, <2>4, MiddleStep DEF HubTypes
<1>4. ASSUME NEW r \in Reqs, SaveFails(r) PROVE StepInv'
  BY <1>4, <1>a DEF SaveFails, Saved, StepInv
<1>5. ASSUME NEW r \in Reqs, NEW q \in Polls, CacheClient(r, q) PROVE StepInv'
  <2>1. /\ hub = "up" /\ hub' = "up" /\ clean' = clean /\ cfg' = cfg /\ file' = file
        /\ hcache' = [hcache EXCEPT ![req[r].name] = req[r].at]
        /\ req[r].pc = "caching" /\ req' = [req EXCEPT ![r] = IdleReq]
    BY <1>5 DEF CacheClient
  <2>2. clean => file' = cfg' /\ \A n \in Names : hcache'[n] = cfg'[n]
    BY <1>a, <2>1 DEF StepInv, Halfway, HubTypes, Lists
  <2>3. QED
    BY <1>a, <2>1, <2>2, EmptyList, LastStep DEF HubTypes
<1>6. ASSUME NEW r \in Reqs, DropStatus(r) PROVE StepInv'
  <2>1. /\ hub = "up" /\ hub' = "up" /\ clean' = clean /\ file' = file
        /\ cfg' = cfg /\ hcache' = hcache
        /\ req[r].pc = "unstatus" /\ req' = [req EXCEPT ![r].pc = "uncache"]
    BY <1>6 DEF DropStatus, Goto
  <2>2. clean => Halfway(r)'
    BY <1>a, <2>1 DEF StepInv, Halfway, HubTypes
  <2>3. QED
    BY <1>a, <2>1, <2>2, MiddleStep DEF HubTypes
<1>7. ASSUME NEW r \in Reqs, DropClient(r) PROVE StepInv'
  <2>1. /\ hub = "up" /\ hub' = "up" /\ clean' = clean /\ cfg' = cfg /\ file' = file
        /\ hcache' = [hcache EXCEPT ![req[r].name] = None]
        /\ req[r].pc = "uncache" /\ req' = [req EXCEPT ![r] = IdleReq]
    BY <1>7 DEF DropClient
  <2>2. clean => file' = cfg' /\ \A n \in Names : hcache'[n] = cfg'[n]
    BY <1>a, <2>1 DEF StepInv, Halfway, HubTypes, Lists
  <2>3. QED
    BY <1>a, <2>1, <2>2, EmptyList, LastStep DEF HubTypes
<1>8. CASE HubStops
  BY <1>8, <1>a, EmptyList DEF HubStops, StepInv, Quiet
<1>9. CASE HubStarts
  BY <1>9, <1>a DEF HubStarts, StepInv, Quiet, OneRequest, RebuildClientCache
<1>10. CASE UNCHANGED <<cfg, hcache, file, hub, req, clean>>
  BY <1>10, <1>a DEF StepInv, Quiet, OneRequest, Halfway
<1>11. QED
  BY <1>1, <1>2, <1>3, <1>4, <1>5, <1>6, <1>7, <1>8, <1>9, <1>10
     DEF Next, ReqStep, PollAll, PollAsks, PollAnswered, vars

\* Between two requests that did not meet and whose saves succeeded, hub.yaml holds the
\* registered servers and each has the client that pins its own certificate.
THEOREM InStepWhenQuietAlways == Spec => []InStepWhenQuiet
<1>1. Init => StepInv
  BY EmptyList DEF Init, StepInv, HubTypes, Quiet, OneRequest, IdleReq, ReqPCs
<1>2. StepInv => InStepWhenQuiet
  BY DEF StepInv, InStepWhenQuiet
<1>3. QED
  BY <1>1, <1>2, InStepStep, PTL DEF Spec
=============================================================================
