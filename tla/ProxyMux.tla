------------------------------ MODULE ProxyMux ------------------------------
(***************************************************************************)
(* Proxy mode: internal/client/proxy.go and internal/server/proxy.go.      *)
(*                                                                         *)
(* Local TCP connections are multiplexed as numbered streams over one TLS  *)
(* connection.  On the client one handleLocalConn goroutine per stream and *)
(* one readLoop share the pending and streams maps; on the server one read *)
(* loop, which also dials, and one copying goroutine per stream share the  *)
(* streams map.  The TLS connection carries frames in order, both ways,    *)
(* and takes only so many of them before a write blocks.  Keepalive PINGs  *)
(* and the PONGs that the server's loop writes like any answer are left    *)
(* out.                                                                    *)
(***************************************************************************)
EXTENDS Integers, Sequences

CONSTANTS Streams,  \* stream ids; dialRemote never hands one out twice
          MaxData,  \* bound on the DATA frames per stream and direction
          Cap       \* frames the connection takes in one direction

ASSUME MaxDataAssumption == MaxData \in Nat
ASSUME CapAssumption == Cap \in Nat \ {0}

VARIABLES
  local,     \* handleLocalConn: program counter per stream
  localConn, \* the accepted TCP connection: "open", "eof" (the application closed
             \* its side) or "closed" (closed on our side)
  pending,   \* proxyMux.pending
  answer,    \* the channel in pending: "none", "ok" or "fail"
  streams,   \* proxyMux.streams
  client,    \* the client process: "up" or "gone"
  link,      \* the TLS connection: "up" or "down"
  up,        \* frames on their way to the server
  down,      \* frames on their way to the client
  loop,      \* handleProxyConn: "reading" or "ended"
  reply,     \* the answer to a DIAL that the read loop is about to write, if any
  srvStreams,\* the server's streams map
  target,    \* the dialled connection: "none", "open", "eof" or "closed"
  copier,    \* the target-to-client goroutine: "none", "copying", "closing" or "done"
  sent       \* DATA frames sent per stream, [up, down]

clientVars == <<local, localConn, pending, answer, streams, client>>
serverVars == <<loop, reply, srvStreams, target, copier>>
vars == <<clientVars, link, up, down, serverVars, sent>>

Frame(type, s) == [type |-> type, id |-> s]

\* writeFrame: blocks while the connection takes no more, fails when it is broken.
Room(queue) == Len(queue) < Cap \/ link = "down"
Put(queue, frame) == IF link = "up" THEN Append(queue, frame) ELSE queue
SendUp(frame) == Room(up) /\ up' = Put(up, frame)
SendDown(frame) == Room(down) /\ down' = Put(down, frame)

Init ==
    /\ local = [s \in Streams |-> "idle"]
    /\ localConn = [s \in Streams |-> "open"]
    /\ pending = {} /\ answer = [s \in Streams |-> "none"]
    /\ streams = {}
    /\ client = "up" /\ link = "up"
    /\ up = <<>> /\ down = <<>>
    /\ loop = "reading" /\ reply = <<>>
    /\ srvStreams = {} /\ target = [s \in Streams |-> "none"]
    /\ copier = [s \in Streams |-> "none"]
    /\ sent = [s \in Streams |-> [up |-> 0, down |-> 0]]

-----------------------------------------------------------------------------
(* The client: handleLocalConn and dialRemote.                             *)

Goto(s, from, to) ==
    /\ client = "up"
    /\ local[s] = from
    /\ local' = [local EXCEPT ![s] = to]

CloseLocal(s) == localConn' = [localConn EXCEPT ![s] = "closed"]

\* A local connection is accepted: the stream is entered in pending,
Dial(s) ==
    /\ Goto(s, "idle", "sending")
    /\ pending' = pending \union {s}
    /\ UNCHANGED <<localConn, answer, streams, client, link, up, down, serverVars, sent>>

\* and DIAL written.
DialSent(s) ==
    /\ link = "up"
    /\ Goto(s, "sending", "dialing")
    /\ SendUp(Frame("DIAL", s))
    /\ UNCHANGED <<localConn, pending, answer, streams, client, link, down, serverVars, sent>>

\* Writing DIAL fails.
DialWriteFails(s) ==
    /\ link = "down"
    /\ Goto(s, "sending", "gone")
    /\ pending' = pending \ {s}
    /\ CloseLocal(s)
    /\ UNCHANGED <<answer, streams, client, link, up, down, serverVars, sent>>

DialSucceeds(s) ==
    /\ answer[s] = "ok"
    /\ Goto(s, "dialing", "registering")
    /\ UNCHANGED <<localConn, pending, answer, streams, client, link, up, down,
                   serverVars, sent>>

DialRefused(s) ==
    /\ answer[s] = "fail"
    /\ Goto(s, "dialing", "gone")
    /\ CloseLocal(s)
    /\ UNCHANGED <<pending, answer, streams, client, link, up, down, serverVars, sent>>

\* Mutant: the server is not told.
DialTimesOutSilently(s) ==
    /\ Goto(s, "dialing", "gone")
    /\ pending' = pending \ {s}
    /\ CloseLocal(s)
    /\ UNCHANGED <<answer, streams, client, link, up, down, serverVars, sent>>

\* Mutant: the entry stays in pending.
DialTimesOutKeeps(s) ==
    /\ Goto(s, "dialing", "closing")
    /\ UNCHANGED <<localConn, pending, answer, streams, client, link, up, down,
                   serverVars, sent>>

\* After 10 s, also when the answer arrives at the same moment: the entry is
\* deleted and the server told to close what it may have opened (CloseSent).
DialTimesOut(s) ==
    /\ Goto(s, "dialing", "closing")
    /\ pending' = pending \ {s}
    /\ UNCHANGED <<localConn, answer, streams, client, link, up, down, serverVars, sent>>

\* Mutant: the connection is not entered in the map.
RegisterForgets(s) ==
    /\ Goto(s, "registering", "copying")
    /\ UNCHANGED <<localConn, pending, answer, streams, client, link, up, down,
                   serverVars, sent>>

\* m.streams[id] = localConn, some time after readLoop delivered the answer.
Register(s) ==
    /\ Goto(s, "registering", "copying")
    /\ streams' = streams \union {s}
    /\ UNCHANGED <<localConn, pending, answer, client, link, up, down, serverVars, sent>>

\* The application writes; the bytes are sent as a DATA frame.
CopyUp(s) ==
    /\ client = "up"
    /\ local[s] = "copying"
    /\ localConn[s] = "open"
    /\ sent[s].up < MaxData
    /\ SendUp(Frame("DATA", s))
    /\ sent' = [sent EXCEPT ![s].up = @ + 1]
    /\ UNCHANGED <<clientVars, link, down, serverVars>>

\* The local read ends, or the write of a frame fails: the deferred function
\* forgets the stream,
CopyEnds(s) ==
    /\ localConn[s] # "open" \/ link = "down"
    /\ Goto(s, "copying", "closing")
    /\ streams' = streams \ {s}
    /\ UNCHANGED <<localConn, pending, answer, client, link, up, down, serverVars, sent>>

\* tells the server and closes the local connection.
CloseSent(s) ==
    /\ Goto(s, "closing", "gone")
    /\ SendUp(Frame("CLOSE", s))
    /\ CloseLocal(s)
    /\ UNCHANGED <<pending, answer, streams, client, link, down, serverVars, sent>>

\* The application closes its connection.
AppCloses(s) ==
    /\ local[s] \notin {"idle", "gone"}
    /\ localConn[s] = "open"
    /\ localConn' = [localConn EXCEPT ![s] = "eof"]
    /\ UNCHANGED <<local, pending, answer, streams, client, link, up, down,
                   serverVars, sent>>

-----------------------------------------------------------------------------
(* The client: readLoop, and the end of the process.                       *)

\* readLoop takes the next frame.
Receive(type, s) ==
    /\ client = "up"
    /\ down # <<>>
    /\ Head(down) = Frame(type, s)
    /\ down' = Tail(down)

\* OK and FAIL: the entry leaves pending; its goroutine is told, if it is there.
ReadAnswer(s) ==
    /\ \E r \in {"ok", "fail"} :
         /\ Receive(IF r = "ok" THEN "OK" ELSE "FAIL", s)
         /\ answer' = IF s \in pending THEN [answer EXCEPT ![s] = r] ELSE answer
    /\ pending' = pending \ {s}
    /\ UNCHANGED <<local, localConn, streams, client, link, up, serverVars, sent>>

\* DATA: written to the stream's connection; dropped when there is none, that is
\* when s \notin streams.
ReadData(s) ==
    /\ Receive("DATA", s)
    /\ UNCHANGED <<clientVars, link, up, serverVars, sent>>

\* Mutant: CLOSE is answered with CLOSE, by readLoop itself.
ReadCloseEchoes(s) ==
    /\ Receive("CLOSE", s)
    /\ SendUp(Frame("CLOSE", s))
    /\ streams' = streams \ {s}
    /\ IF s \in streams THEN CloseLocal(s) ELSE UNCHANGED localConn
    /\ UNCHANGED <<local, pending, answer, client, link, serverVars, sent>>

\* Mutant: the stream is forgotten, its connection left open.
ReadCloseForgets(s) ==
    /\ Receive("CLOSE", s)
    /\ streams' = streams \ {s}
    /\ UNCHANGED <<local, localConn, pending, answer, client, link, up, serverVars, sent>>

\* CLOSE: the stream's connection is closed; ignored when there is none.
ReadClose(s) ==
    /\ Receive("CLOSE", s)
    /\ streams' = streams \ {s}
    /\ IF s \in streams THEN CloseLocal(s) ELSE UNCHANGED localConn
    /\ UNCHANGED <<local, pending, answer, client, link, up, serverVars, sent>>

\* The process ends and its connections with it.
ProcessExits ==
    /\ client = "up"
    /\ client' = "gone"
    /\ local' = [s \in Streams |-> "gone"]
    /\ localConn' = [s \in Streams |-> "closed"]
    /\ pending' = {}
    /\ streams' = {}
    /\ link' = "down"
    /\ UNCHANGED <<answer, down, serverVars, sent>>

\* A signal: DISCONNECT is sent and ConnectProxy returns.
Quit == ProcessExits /\ SendUp([type |-> "DISCONNECT"])

\* readLoop fails and cancels the context; ConnectProxy returns.
ReadLoopEnds == link = "down" /\ ProcessExits /\ UNCHANGED up

\* The TLS connection breaks.
LinkBreaks ==
    /\ link = "up"
    /\ link' = "down"
    /\ UNCHANGED <<clientVars, up, down, serverVars, sent>>

-----------------------------------------------------------------------------
(* The server: handleProxyConn.                                            *)

\* The read loop takes the next frame; it does nothing else meanwhile.
Take(type, s) ==
    /\ loop = "reading"
    /\ reply = <<>>
    /\ up # <<>>
    /\ Head(up).type = type
    /\ Head(up).id = s
    /\ up' = Tail(up)

CloseTarget(s) == target' = [target EXCEPT ![s] = "closed"]

\* Mutant: the answer is OK whether the dial succeeds or not.
ServeDialEagerly(s) ==
    /\ Take("DIAL", s)
    /\ reply' = <<Frame("OK", s)>>
    /\ \/ /\ srvStreams' = srvStreams \union {s}
          /\ target' = [target EXCEPT ![s] = "open"]
       \/ UNCHANGED <<srvStreams, target>>
    /\ UNCHANGED <<clientVars, link, down, loop, copier, sent>>

\* DIAL: the target is dialled, which succeeds or fails (refused, unreachable,
\* not exposed).
ServeDial(s) ==
    /\ Take("DIAL", s)
    /\ \/ /\ srvStreams' = srvStreams \union {s}
          /\ target' = [target EXCEPT ![s] = "open"]
          /\ reply' = <<Frame("OK", s)>>
       \/ /\ reply' = <<Frame("FAIL", s)>>
          /\ UNCHANGED <<srvStreams, target>>
    /\ UNCHANGED <<clientVars, link, down, loop, copier, sent>>

\* The answer is written, by the read loop; after OK the copying goroutine is started.
AnswerSent ==
    /\ reply # <<>>
    /\ SendDown(Head(reply))
    /\ copier' = IF Head(reply).type = "OK"
                 THEN [copier EXCEPT ![Head(reply).id] = "copying"] ELSE copier
    /\ reply' = <<>>
    /\ UNCHANGED <<clientVars, link, up, loop, srvStreams, target, sent>>

\* DATA is written to the target, or dropped when the stream is unknown.
ServeData(s) ==
    /\ Take("DATA", s)
    /\ UNCHANGED <<clientVars, link, down, serverVars, sent>>

\* Mutant: the stream is forgotten, its target left open.
ServeCloseForgets(s) ==
    /\ Take("CLOSE", s)
    /\ srvStreams' = srvStreams \ {s}
    /\ UNCHANGED <<clientVars, link, down, loop, reply, target, copier, sent>>

\* CLOSE: the target is closed and forgotten.
ServeClose(s) ==
    /\ Take("CLOSE", s)
    /\ srvStreams' = srvStreams \ {s}
    /\ IF s \in srvStreams THEN CloseTarget(s) ELSE UNCHANGED target
    /\ UNCHANGED <<clientVars, link, down, loop, reply, copier, sent>>

\* DISCONNECT or a read error: the deferred function closes every stream.
LoopEnds ==
    /\ loop = "reading"
    /\ reply = <<>>
    /\ \/ up # <<>> /\ Head(up).type = "DISCONNECT"
       \/ link = "down"
    /\ loop' = "ended"
    /\ target' = [s \in Streams |-> IF s \in srvStreams THEN "closed" ELSE target[s]]
    /\ UNCHANGED <<clientVars, link, up, down, reply, srvStreams, copier, sent>>

\* The target writes; the bytes are sent as a DATA frame.
CopyDown(s) ==
    /\ copier[s] = "copying"
    /\ target[s] = "open"
    /\ sent[s].down < MaxData
    /\ SendDown(Frame("DATA", s))
    /\ sent' = [sent EXCEPT ![s].down = @ + 1]
    /\ UNCHANGED <<clientVars, link, up, serverVars>>

\* The read from the target ends: it is closed and forgotten,
CopyDownEnds(s) ==
    /\ copier[s] = "copying"
    /\ target[s] \in {"eof", "closed"}
    /\ copier' = [copier EXCEPT ![s] = "closing"]
    /\ CloseTarget(s)
    /\ srvStreams' = srvStreams \ {s}
    /\ UNCHANGED <<clientVars, link, up, down, loop, reply, sent>>

\* Mutant: the CLOSE frame does not carry the stream's id.
DownCloseUnnumbered(s) ==
    /\ copier[s] = "closing"
    /\ copier' = [copier EXCEPT ![s] = "done"]
    /\ SendDown(Frame("CLOSE", 0))
    /\ UNCHANGED <<clientVars, link, up, loop, reply, srvStreams, target, sent>>

\* and the client told.
DownCloseSent(s) ==
    /\ copier[s] = "closing"
    /\ copier' = [copier EXCEPT ![s] = "done"]
    /\ SendDown(Frame("CLOSE", s))
    /\ UNCHANGED <<clientVars, link, up, loop, reply, srvStreams, target, sent>>

\* The service closes its side.
TargetCloses(s) ==
    /\ target[s] = "open"
    /\ target' = [target EXCEPT ![s] = "eof"]
    /\ UNCHANGED <<clientVars, link, up, down, loop, reply, srvStreams, copier, sent>>

-----------------------------------------------------------------------------
LocalStep(s) ==
    \/ Dial(s) \/ DialSent(s) \/ DialWriteFails(s)
    \/ DialSucceeds(s) \/ DialRefused(s) \/ DialTimesOut(s)
    \/ Register(s) \/ CopyUp(s) \/ CopyEnds(s) \/ CloseSent(s)

ReadStep(s) == ReadAnswer(s) \/ ReadData(s) \/ ReadClose(s)

ServeStep(s) == ServeDial(s) \/ ServeData(s) \/ ServeClose(s)

CopierStep(s) == CopyDown(s) \/ CopyDownEnds(s) \/ DownCloseSent(s)

Next ==
    \/ \E s \in Streams :
         LocalStep(s) \/ ReadStep(s) \/ ServeStep(s) \/ CopierStep(s)
    \/ \E s \in Streams : AppCloses(s) \/ TargetCloses(s)
    \/ Quit \/ ReadLoopEnds \/ LinkBreaks \/ LoopEnds \/ AnswerSent

Spec == Init /\ [][Next]_vars

\* What the goroutines do of themselves: both read loops take the frames that arrive
\* (what they write to, applications and targets, reads) and notice a broken
\* connection, a dial is answered or times out, writers write while there is room.
Work ==
    \/ ReadLoopEnds \/ LoopEnds \/ AnswerSent
    \/ \E s \in Streams :
         \/ ReadStep(s) \/ ServeStep(s) \/ CopyDownEnds(s) \/ DownCloseSent(s)
         \/ DialSent(s) \/ DialWriteFails(s) \/ DialSucceeds(s) \/ DialRefused(s)
         \/ DialTimesOut(s) \/ Register(s) \/ CopyEnds(s) \/ CloseSent(s)

\* Some goroutine that has work runs; applications, services, the user and the
\* network do as they like.  Behaviours are finite, so no one is starved by that.
Fairness == WF_vars(Work)

FairSpec == Spec /\ Fairness

-----------------------------------------------------------------------------
(* Properties.                                                             *)

FrameTypes == {"DIAL", "DATA", "CLOSE", "OK", "FAIL"}

\* Types of the variables; in particular every frame on the wire carries the id
\* of a stream the client has numbered.
TypeOK ==
    /\ local \in [Streams -> {"idle", "sending", "dialing", "registering",
                           "copying", "closing", "gone"}]
    /\ localConn \in [Streams -> {"open", "eof", "closed"}]
    /\ pending \subseteq Streams
    /\ answer \in [Streams -> {"none", "ok", "fail"}]
    /\ streams \subseteq Streams
    /\ client \in {"up", "gone"} /\ link \in {"up", "down"}
    /\ Len(up) <= Cap /\ Len(down) <= Cap /\ Len(reply) <= 1
    /\ up \in Seq([type : FrameTypes, id : Streams] \union {[type |-> "DISCONNECT"]})
    /\ down \in Seq([type : FrameTypes, id : Streams])
    /\ reply \in Seq([type : FrameTypes, id : Streams])
    /\ loop \in {"reading", "ended"}
    /\ srvStreams \subseteq Streams
    /\ target \in [Streams -> {"none", "open", "eof", "closed"}]
    /\ copier \in [Streams -> {"none", "copying", "closing", "done"}]
    /\ sent \in [Streams -> [up : 0..MaxData, down : 0..MaxData]]

\* A target that is still open is in the server's map, where CLOSE and the
\* deferred function can find it, and there is none once the loop has ended.
NoOrphanTarget ==
    \A s \in Streams :
      target[s] \in {"open", "eof"} => s \in srvStreams /\ loop = "reading"

\* An entry of pending has its goroutine: a dial that was answered, refused or
\* timed out leaves nothing behind.
PendingOwned ==
    \A s \in pending : local[s] \in {"sending", "dialing"} /\ answer[s] = "none"

\* DATA and the answer to a dial never overtake each other: the server has
\* dialled a stream before any DATA for it can arrive, so none is dropped for
\* want of a map entry that is yet to be made.
UpstreamKnown ==
    \A k \in DOMAIN up : up[k].type = "DATA" => target[up[k].id] # "none"

\* The client drops DATA of a live stream only between the OK and Register: once
\* handleLocalConn is copying, everything the target sends is written.
LossWindow ==
    [][\A s \in Streams :
         ReadData(s) /\ s \notin streams =>
           \/ local[s] = "dialing" /\ answer[s] = "ok"
           \/ local[s] \in {"registering", "closing", "gone"}
           \/ localConn[s] # "open"]_vars

\* The server does not keep a target of a stream the client has given up, in
\* particular when the dial timed out while it was still dialling.
TargetReleased ==
    <>[](\A s \in Streams : local[s] = "gone" => target[s] \in {"none", "closed"})

\* The read loops never wait for each other: while the server's is held up writing an
\* answer, the client's, which writes no frame itself (the PONG it has for a PING is never
\* asked for), takes the next frame and makes room.  What the two loops write to,
\* applications and targets, is taken to read.
NoCircularWait ==
    (reply # <<>> /\ ~Room(down) /\ client = "up") => ENABLED (\E s \in Streams : ReadStep(s))

\* A service that closes its connection gets the application's connection closed,
\* once the stream is registered.
RemoteCloseSeen ==
    \A s \in Streams : (target[s] = "eof" /\ s \in streams) ~> local[s] = "gone"
=============================================================================
