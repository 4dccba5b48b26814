--------------------------- MODULE ProxyMuxProofs ---------------------------
(***************************************************************************)
(* The proxy's bookkeeping, proved for every number of streams, every      *)
(* capacity of the connection and every amount of data.                    *)
(***************************************************************************)
EXTENDS ProxyMux, TLAPS

Frames == [type : FrameTypes, id : Streams]
UpFrames == Frames \union {[type |-> "DISCONNECT"]}

Is(frame, type, s) == frame.type = type /\ frame.id = s
IsAnswer(frame, s) == Is(frame, "OK", s) \/ Is(frame, "FAIL", s)

\* The reply the read loop holds is an answer.
TypeInv == TypeOK /\ (reply # <<>> => reply[1].type \in {"OK", "FAIL"})

\* A dial that waits for its answer is in pending until it is there, and only an OK leads
\* beyond it; a stream that has not been dialled has no answer.
DialTracked ==
    /\ PendingOwned
    /\ \A s \in Streams :
         /\ local[s] = "idle" => answer[s] = "none"
         /\ local[s] \in {"sending", "dialing"} => s \in pending \/ answer[s] # "none"
         /\ local[s] \in {"registering", "copying"} => answer[s] = "ok"

\* While a stream copies, CLOSE finds its connection, or it is past being open.
CopyingKnown ==
    \A s \in Streams : local[s] = "copying" => s \in streams \/ localConn[s] # "open"

\* Where the one answer to a dial can be: in the DIAL, in the read loop, on its way, there.
Asked(s) == \E k \in DOMAIN up : Is(up[k], "DIAL", s)
Replying(s) == reply # <<>> /\ reply[1].id = s
Answering(s) == \E k \in DOMAIN down : IsAnswer(down[k], s)

\* DIAL is sent once, and answered once.
OneDial(s) == \A j, k \in DOMAIN up : Is(up[j], "DIAL", s) /\ Is(up[k], "DIAL", s) => j = k
OneAnswer(s) ==
    \A j, k \in DOMAIN down : IsAnswer(down[j], s) /\ IsAnswer(down[k], s) => j = k

\* It is in one of these places at most, and nowhere before the DIAL is sent.
AnsweredOnce ==
    \A s \in Streams :
      /\ Asked(s) => ~Replying(s) /\ ~Answering(s) /\ answer[s] = "none"
      /\ Replying(s) => ~Answering(s) /\ answer[s] = "none"
      /\ Answering(s) => answer[s] = "none"
      /\ local[s] \in {"idle", "sending"} =>
           ~Asked(s) /\ ~Replying(s) /\ ~Answering(s) /\ answer[s] = "none"
      /\ OneDial(s) /\ OneAnswer(s)

\* An OK, wherever it is, says that the target was dialled; so does DATA for it.
OKDialled ==
    /\ UpstreamKnown
    /\ \A s \in Streams : target[s] = "none" =>
         /\ ~(Replying(s) /\ reply[1].type = "OK")
         /\ \A k \in DOMAIN down : ~Is(down[k], "OK", s)
         /\ answer[s] # "ok"

\* The client has got the OK of a stream, or no longer cares.
Told(s) == answer[s] = "ok" \/ local[s] \in {"closing", "gone"}

\* What the target sends comes after the OK.
DataAfterOK ==
    \A s \in Streams :
      /\ \A k \in DOMAIN down : down[k].type = "DATA" /\ down[k].id = s =>
           Told(s) \/ \E j \in DOMAIN down : j < k /\ Is(down[j], "OK", s)
      /\ copier[s] = "copying" =>
           Told(s) \/ link = "down" \/ \E j \in DOMAIN down : Is(down[j], "OK", s)

\* What the server sends are answers, DATA and CLOSE, the frames readLoop has a case for.
Handled == {"OK", "FAIL", "DATA", "CLOSE"}
DownHandled == \A k \in DOMAIN down : down[k].type \in Handled

\* The loop that waits to write an answer has a reader: the first of the frames that fill
\* the connection is one that readLoop takes, of a stream it knows the number of.
ReaderServed ==
    reply # <<>> /\ ~Room(down) /\ client = "up" =>
      \E s \in Streams, type \in Handled : down # <<>> /\ Head(down) = Frame(type, s)

\* The inductive invariant.
MuxInv == /\ TypeInv /\ NoOrphanTarget /\ DialTracked /\ CopyingKnown
          /\ AnsweredOnce /\ OKDialled /\ DataAfterOK

-----------------------------------------------------------------------------
(* Queues of frames.                                                       *)

\* writeFrame keeps the frames in the queue and adds one after them, or, when the
\* connection is broken, none.
LEMMA PutElements ==
  ASSUME NEW S, NEW q \in Seq(S), NEW frame \in S
  PROVE  /\ Put(q, frame) \in Seq(S)
         /\ link # "up" => Put(q, frame) = q
         /\ link = "up" => /\ Len(Put(q, frame)) = Len(q) + 1
                           /\ Len(q) + 1 \in DOMAIN Put(q, frame)
                           /\ Put(q, frame)[Len(q) + 1] = frame
         /\ \A k \in DOMAIN q : k \in DOMAIN Put(q, frame) /\ Put(q, frame)[k] = q[k]
         /\ \A k \in DOMAIN Put(q, frame) :
              \/ k \in DOMAIN q
              \/ link = "up" /\ k = Len(q) + 1 /\ \A j \in DOMAIN q : j < k
  BY DEF Put

\* Taking the first frame moves the others up by one.
LEMMA TailElements ==
  ASSUME NEW S, NEW q \in Seq(S), q # <<>>
  PROVE  /\ Tail(q) \in Seq(S) /\ Len(Tail(q)) = Len(q) - 1
         /\ 1 \in DOMAIN q /\ Head(q) = q[1]
         /\ \A k \in DOMAIN Tail(q) : /\ k \in Nat /\ k + 1 \in DOMAIN q
                                      /\ k + 1 # 1 /\ Tail(q)[k] = q[k + 1]
         /\ \A k \in DOMAIN q : k = 1 \/ (k - 1 \in DOMAIN Tail(q) /\ Tail(q)[k - 1] = q[k])
  OBVIOUS

-----------------------------------------------------------------------------
(* Types.                                                                  *)

\* Frames are frames.
LEMMA FrameType ==
  ASSUME NEW type \in FrameTypes, NEW s \in Streams
  PROVE  /\ Frame(type, s) \in Frames /\ Frame(type, s) \in UpFrames
         /\ Frame(type, s).type = type /\ Frame(type, s).id = s
  BY DEF Frame, Frames, UpFrames

\* What is sent keeps to the types and the capacity of the connection.
LEMMA SendTypes ==
  ASSUME NEW S, NEW q \in Seq(S), NEW frame \in S, Room(q), Len(q) <= Cap
  PROVE  Put(q, frame) \in Seq(S) /\ Len(Put(q, frame)) <= Cap
  BY CapAssumption DEF Put, Room

\* Every action keeps the types.
LEMMA TypeStep == TypeInv /\ [Next]_vars => TypeInv'
<1> SUFFICES ASSUME TypeInv, [Next]_vars PROVE TypeInv'
  OBVIOUS
<1>a. TypeOK /\ up \in Seq(UpFrames) /\ down \in Seq(Frames) /\ reply \in Seq(Frames)
      /\ Len(up) <= Cap /\ Len(down) <= Cap
  BY DEF TypeInv, TypeOK, UpFrames, Frames
<1>b. ASSUME NEW type \in FrameTypes, NEW s \in Streams, SendUp(Frame(type, s))
      PROVE  up' \in Seq(UpFrames) /\ Len(up') <= Cap
  BY <1>a, <1>b, FrameType, SendTypes DEF SendUp
<1>c. ASSUME NEW frame \in Frames, SendDown(frame)
      PROVE  down' \in Seq(Frames) /\ Len(down') <= Cap
  BY <1>a, <1>c, SendTypes DEF SendDown
<1>d. {"DIAL", "DATA", "CLOSE", "OK", "FAIL"} = FrameTypes
  BY DEF FrameTypes
<1>e. ASSUME up # <<>>, up' = Tail(up) PROVE up' \in Seq(UpFrames) /\ Len(up') <= Cap
  BY <1>a, <1>e, TailElements, CapAssumption
<1>f. ASSUME down # <<>>, down' = Tail(down) PROVE down' \in Seq(Frames) /\ Len(down') <= Cap
  BY <1>a, <1>f, TailElements, CapAssumption
<1>1. ASSUME NEW s \in Streams,
             \/ Dial(s) \/ DialWriteFails(s) \/ DialSucceeds(s) \/ DialRefused(s)
             \/ DialTimesOut(s) \/ Register(s) \/ CopyEnds(s) \/ AppCloses(s)
      PROVE  TypeInv'
  BY <1>1 DEF TypeInv, TypeOK, Dial, DialWriteFails, DialSucceeds, DialRefused, DialTimesOut,
       Register, CopyEnds, AppCloses, Goto, CloseLocal, serverVars
<1>2. ASSUME NEW s \in Streams, DialSent(s) \/ CloseSent(s) PROVE TypeInv'
  <2>1. up' \in Seq(UpFrames) /\ Len(up') <= Cap
    BY <1>2, <1>b, <1>d DEF DialSent, CloseSent
  <2>2. QED
    BY <1>2, <2>1 DEF TypeInv, TypeOK, DialSent, CloseSent, Goto, CloseLocal, serverVars,
         UpFrames, Frames
<1>3. ASSUME NEW s \in Streams, CopyUp(s) PROVE TypeInv'
  <2>1. up' \in Seq(UpFrames) /\ Len(up') <= Cap
    BY <1>3, <1>b, <1>d DEF CopyUp
  <2>2. sent' \in [Streams -> [up : 0..MaxData, down : 0..MaxData]]
    BY <1>3, MaxDataAssumption DEF TypeInv, TypeOK, CopyUp
  <2>3. QED
    BY <1>3, <2>1, <2>2 DEF TypeInv, TypeOK, CopyUp, clientVars, serverVars, UpFrames, Frames
<1>4. ASSUME NEW s \in Streams, ReadAnswer(s) PROVE TypeInv'
  <2>1. down' \in Seq(Frames) /\ Len(down') <= Cap
    BY <1>4, <1>f DEF ReadAnswer, Receive
  <2>2. QED
    BY <1>4, <2>1 DEF TypeInv, TypeOK, ReadAnswer, serverVars, Frames
<1>5. ASSUME NEW s \in Streams, ReadData(s) \/ ReadClose(s) PROVE TypeInv'
  <2>1. down' \in Seq(Frames) /\ Len(down') <= Cap
    BY <1>5, <1>f DEF ReadData, ReadClose, Receive
  <2>2. QED
    BY <1>5, <2>1 DEF TypeInv, TypeOK, ReadData, ReadClose, CloseLocal, clientVars,
         serverVars, Frames
<1>6. ASSUME NEW s \in Streams, ServeDial(s) PROVE TypeInv'
  <2>1. up' \in Seq(UpFrames) /\ Len(up') <= Cap
    BY <1>6, <1>e DEF ServeDial, Take
  <2>2. \E frame \in Frames : reply' = <<frame>> /\ frame.type \in {"OK", "FAIL"}
    BY <1>6, <1>d, FrameType DEF ServeDial
  <2>3. /\ reply' \in Seq(Frames) /\ Len(reply') <= 1
        /\ reply' # <<>> => reply'[1].type \in {"OK", "FAIL"}
    BY <2>2
  <2>4. /\ srvStreams' \subseteq Streams
        /\ target' \in [Streams -> {"none", "open", "eof", "closed"}]
    BY <1>6, <1>a DEF ServeDial, TypeOK
  <2>5. QED
    BY <1>6, <2>1, <2>3, <2>4 DEF TypeInv, TypeOK, ServeDial, clientVars, UpFrames, Frames
<1>7. CASE AnswerSent
  <2>1. Head(reply) \in Frames /\ reply' = <<>>
    BY <1>7, <1>a DEF AnswerSent
  <2>2. down' \in Seq(Frames) /\ Len(down') <= Cap
    BY <1>7, <1>c, <2>1 DEF AnswerSent
  <2>3. QED
    BY <1>7, <2>1, <2>2 DEF TypeInv, TypeOK, AnswerSent, clientVars, Frames
<1>8. ASSUME NEW s \in Streams, ServeData(s) \/ ServeClose(s) PROVE TypeInv'
  <2>1. up' \in Seq(UpFrames) /\ Len(up') <= Cap
    BY <1>8, <1>e DEF ServeData, ServeClose, Take
  <2>2. QED
    BY <1>8, <2>1 DEF TypeInv, TypeOK, ServeData, ServeClose, CloseTarget, clientVars,
         serverVars, UpFrames, Frames
<1>9. ASSUME NEW s \in Streams, CopyDown(s) PROVE TypeInv'
  <2>1. down' \in Seq(Frames) /\ Len(down') <= Cap
    BY <1>9, <1>c, <1>d, FrameType DEF CopyDown
  <2>2. sent' \in [Streams -> [up : 0..MaxData, down : 0..MaxData]]
    BY <1>9, MaxDataAssumption DEF TypeInv, TypeOK, CopyDown
  <2>3. QED
    BY <1>9, <2>1, <2>2 DEF TypeInv, TypeOK, CopyDown, clientVars, serverVars, Frames
<1>10. ASSUME NEW s \in Streams, DownCloseSent(s) PROVE TypeInv'
  <2>1. down' \in Seq(Frames) /\ Len(down') <= Cap
    BY <1>10, <1>c, <1>d, FrameType DEF DownCloseSent
  <2>2. QED
    BY <1>10, <2>1 DEF TypeInv, TypeOK, DownCloseSent, clientVars, Frames
<1>11. ASSUME NEW s \in Streams, CopyDownEnds(s) \/ TargetCloses(s) PROVE TypeInv'
  BY <1>11 DEF TypeInv, TypeOK, CopyDownEnds, TargetCloses, CloseTarget, clientVars
<1>12. CASE Quit
  <2>1. up' \in Seq(UpFrames) /\ Len(up') <= Cap
    BY <1>12, <1>a, SendTypes DEF Quit, SendUp, UpFrames
  <2>2. QED
    BY <1>12, <2>1 DEF TypeInv, TypeOK, Quit, ProcessExits, serverVars, UpFrames, Frames
<1>13. CASE ReadLoopEnds \/ LinkBreaks
  BY <1>13 DEF TypeInv, TypeOK, ReadLoopEnds, ProcessExits, LinkBreaks, clientVars, serverVars
<1>14. CASE LoopEnds
  <2>1. target' \in [Streams -> {"none", "open", "eof", "closed"}]
    BY <1>14, <1>a DEF TypeOK, LoopEnds
  <2>2. QED
    BY <1>14, <2>1 DEF TypeInv, TypeOK, LoopEnds, clientVars
<1>15. CASE UNCHANGED vars
  BY <1>15 DEF TypeInv, TypeOK, vars, clientVars, serverVars
<1>16. QED
  BY <1>1, <1>2, <1>3, <1>4, <1>5, <1>6, <1>7, <1>8, <1>9, <1>10, <1>11, <1>12, <1>13, <1>14,
     <1>15 DEF Next, LocalStep, ReadStep, ServeStep, CopierStep

-----------------------------------------------------------------------------
(* The maps and the goroutines.                                            *)

\* Every action keeps the server's map and the open targets together.
LEMMA TargetStep == TypeInv /\ NoOrphanTarget /\ [Next]_vars => NoOrphanTarget'
<1> SUFFICES ASSUME TypeInv, NoOrphanTarget, [Next]_vars PROVE NoOrphanTarget'
  OBVIOUS
<1>a. target \in [Streams -> {"none", "open", "eof", "closed"}]
  BY DEF TypeInv, TypeOK
<1>1. CASE UNCHANGED <<target, srvStreams, loop>>
  BY <1>1 DEF NoOrphanTarget
<1>2. ASSUME NEW s \in Streams, ServeDial(s) PROVE NoOrphanTarget'
  BY <1>2, <1>a DEF NoOrphanTarget, ServeDial, Take
<1>3. ASSUME NEW s \in Streams, ServeClose(s) PROVE NoOrphanTarget'
  BY <1>3, <1>a DEF NoOrphanTarget, ServeClose, CloseTarget
<1>4. ASSUME NEW s \in Streams, CopyDownEnds(s) \/ TargetCloses(s) PROVE NoOrphanTarget'
  BY <1>4, <1>a DEF NoOrphanTarget, CopyDownEnds, TargetCloses, CloseTarget
<1>5. CASE LoopEnds
  BY <1>5, <1>a DEF NoOrphanTarget, LoopEnds
<1>6. QED
  BY <1>1, <1>2, <1>3, <1>4, <1>5
     DEF Next, LocalStep, ReadStep, ServeStep, CopierStep, vars, serverVars, Dial, DialSent,
         DialWriteFails, DialSucceeds, DialRefused, DialTimesOut, Register, CopyUp, CopyEnds,
         CloseSent, ReadAnswer, ReadData, ReadClose, ServeData, CopyDown, DownCloseSent,
         AppCloses, Quit, ReadLoopEnds, ProcessExits, LinkBreaks, AnswerSent

\* Every action keeps pending, the answers and the goroutines together.
LEMMA DialStep ==
  TypeInv /\ DialTracked /\ CopyingKnown /\ [Next]_vars => DialTracked' /\ CopyingKnown'
<1> SUFFICES ASSUME TypeInv, DialTracked, CopyingKnown, [Next]_vars
             PROVE  DialTracked' /\ CopyingKnown'
  OBVIOUS
<1>a. /\ DOMAIN local = Streams /\ DOMAIN answer = Streams /\ DOMAIN localConn = Streams
      /\ pending \subseteq Streams
  BY DEF TypeInv, TypeOK
<1>1. CASE UNCHANGED <<local, pending, answer, streams, localConn>>
  BY <1>1 DEF DialTracked, PendingOwned, CopyingKnown
<1>2. ASSUME NEW s \in Streams, Dial(s) \/ DialSent(s) \/ DialWriteFails(s)
      PROVE  DialTracked' /\ CopyingKnown'
  BY <1>2, <1>a DEF DialTracked, PendingOwned, CopyingKnown, Dial, DialSent, DialWriteFails,
       Goto, CloseLocal
<1>3. ASSUME NEW s \in Streams, DialSucceeds(s) \/ DialRefused(s) \/ DialTimesOut(s)
      PROVE  DialTracked' /\ CopyingKnown'
  BY <1>3, <1>a DEF DialTracked, PendingOwned, CopyingKnown, DialSucceeds, DialRefused,
       DialTimesOut, Goto, CloseLocal
<1>4. ASSUME NEW s \in Streams, Register(s) \/ CopyEnds(s) \/ CloseSent(s) \/ AppCloses(s)
      PROVE  DialTracked' /\ CopyingKnown'
  BY <1>4, <1>a DEF DialTracked, PendingOwned, CopyingKnown, Register, CopyEnds, CloseSent,
       AppCloses, Goto, CloseLocal
<1>5. ASSUME NEW s \in Streams, ReadAnswer(s) PROVE DialTracked' /\ CopyingKnown'
  BY <1>5, <1>a DEF DialTracked, PendingOwned, CopyingKnown, ReadAnswer
<1>6. ASSUME NEW s \in Streams, ReadClose(s) PROVE DialTracked' /\ CopyingKnown'
  BY <1>6, <1>a DEF DialTracked, PendingOwned, CopyingKnown, ReadClose, CloseLocal
<1>7. CASE ProcessExits
  BY <1>7 DEF DialTracked, PendingOwned, CopyingKnown, ProcessExits
<1>8. QED
  BY <1>1, <1>2, <1>3, <1>4, <1>5, <1>6, <1>7
     DEF Next, LocalStep, ReadStep, ServeStep, CopierStep, vars, clientVars, CopyUp, ReadData,
         ServeDial, ServeData, ServeClose, CopyDown, CopyDownEnds, DownCloseSent, TargetCloses,
         Quit, ReadLoopEnds, LinkBreaks, LoopEnds, AnswerSent

-----------------------------------------------------------------------------
(* One answer to a dial.                                                   *)

\* The frames on their way to the server once another is written.
LEMMA UpFramesSent ==
  ASSUME TypeInv, NEW frame \in UpFrames, up' = Put(up, frame)
  PROVE  /\ \A k \in DOMAIN up : up'[k] = up[k]
         /\ \A k \in DOMAIN up' : k \in DOMAIN up \/ (k = Len(up) + 1 /\ up'[k] = frame)
<1>1. up \in Seq(UpFrames)
  BY DEF TypeInv, TypeOK, UpFrames, Frames
<1>2. QED
  BY <1>1, PutElements

\* A frame is written to the server.
LEMMA UpSent ==
  ASSUME TypeInv, NEW frame \in UpFrames, up' = Put(up, frame), NEW s \in Streams
  PROVE  /\ Asked(s)' => Asked(s) \/ Is(frame, "DIAL", s)
         /\ OneDial(s) /\ ~(Asked(s) /\ Is(frame, "DIAL", s)) => OneDial(s)'
  BY UpFramesSent DEF Asked, OneDial

\* The server takes a frame.
LEMMA UpTaken ==
  ASSUME TypeInv, up # <<>>, up' = Tail(up), NEW s \in Streams
  PROVE  /\ Asked(s)' => Asked(s)
         /\ OneDial(s) => OneDial(s)'
         /\ OneDial(s) /\ Is(Head(up), "DIAL", s) => ~Asked(s)' /\ Asked(s)
         /\ \A k \in DOMAIN up' : \E j \in DOMAIN up : up'[k] = up[j]
<1>1. up \in Seq(UpFrames)
  BY DEF TypeInv, TypeOK, UpFrames, Frames
<1>2. /\ 1 \in DOMAIN up /\ Head(up) = up[1]
      /\ \A k \in DOMAIN up' : /\ k \in Nat /\ k + 1 \in DOMAIN up
                               /\ k + 1 # 1 /\ up'[k] = up[k + 1]
  BY <1>1, TailElements
<1>3. QED
  BY <1>2 DEF Asked, OneDial

\* The frames on their way to the client once another is written.
LEMMA DownFramesSent ==
  ASSUME TypeInv, NEW frame \in Frames, down' = Put(down, frame)
  PROVE  /\ \A k \in DOMAIN down : k \in DOMAIN down' /\ down'[k] = down[k]
         /\ \A k \in DOMAIN down' :
              \/ k \in DOMAIN down
              \/ /\ link = "up" /\ k = Len(down) + 1 /\ down'[k] = frame
                 /\ \A j \in DOMAIN down : j < k
         /\ link = "up" => \E k \in DOMAIN down' : down'[k] = frame
<1>1. down \in Seq(Frames)
  BY DEF TypeInv, TypeOK, Frames
<1>2. CASE link # "up"
  BY <1>1, <1>2, PutElements
<1>3. CASE link = "up"
  <2>1. down' = Append(down, frame)
    BY <1>3 DEF Put
  <2>2. QED
    BY <1>1, <1>3, <2>1
<1>4. QED
  BY <1>2, <1>3

\* A frame is written to the client.
LEMMA DownSent ==
  ASSUME TypeInv, NEW frame \in Frames, down' = Put(down, frame), NEW s \in Streams
  PROVE  /\ Answering(s)' => Answering(s) \/ IsAnswer(frame, s)
         /\ OneAnswer(s) /\ ~(Answering(s) /\ IsAnswer(frame, s)) => OneAnswer(s)'
         /\ \A k \in DOMAIN down' : down'[k] = frame \/ \E j \in DOMAIN down : down'[k] = down[j]
  BY DownFramesSent DEF Answering, OneAnswer

\* The client takes a frame.
LEMMA DownTaken ==
  ASSUME TypeInv, down # <<>>, down' = Tail(down), NEW s \in Streams
  PROVE  /\ Answering(s)' => Answering(s)
         /\ OneAnswer(s) => OneAnswer(s)'
         /\ OneAnswer(s) /\ IsAnswer(Head(down), s) => ~Answering(s)' /\ Answering(s)
         /\ \A k \in DOMAIN down' : \E j \in DOMAIN down : down'[k] = down[j]
<1>1. down \in Seq(Frames)
  BY DEF TypeInv, TypeOK, Frames
<1>2. /\ 1 \in DOMAIN down /\ Head(down) = down[1]
      /\ \A k \in DOMAIN down' : /\ k \in Nat /\ k + 1 \in DOMAIN down
                                 /\ k + 1 # 1 /\ down'[k] = down[k + 1]
  BY <1>1, TailElements
<1>3. QED
  BY <1>2 DEF Answering, OneAnswer

\* Every action keeps the answer to a dial in one place.
LEMMA AnswerStep == TypeInv /\ AnsweredOnce /\ [Next]_vars => AnsweredOnce'
<1> SUFFICES ASSUME TypeInv, AnsweredOnce, [Next]_vars PROVE AnsweredOnce'
  OBVIOUS
<1> DEFINE Undialled(s) == local[s] \in {"idle", "sending"}
<1>a. DOMAIN local = Streams /\ DOMAIN answer = Streams
  BY DEF TypeInv, TypeOK
<1>b. \A type \in FrameTypes, s \in Streams : /\ Frame(type, s) \in Frames \intersect UpFrames
                                              /\ Frame(type, s).type = type
                                              /\ Frame(type, s).id = s
  BY FrameType
<1>c. {"DIAL", "DATA", "CLOSE", "OK", "FAIL"} = FrameTypes
  BY DEF FrameTypes
\* The wire is untouched.
<1>1. ASSUME UNCHANGED <<up, down, reply, answer>>,
             \A s \in Streams : Undialled(s)' => Undialled(s)
      PROVE  AnsweredOnce'
  BY <1>1 DEF AnsweredOnce, Asked, Replying, Answering, OneDial, OneAnswer
<1>2. ASSUME NEW frame \in UpFrames, frame.type # "DIAL", up' = Put(up, frame),
             UNCHANGED <<down, reply, answer>>,
             \A s \in Streams : Undialled(s)' => Undialled(s)
      PROVE  AnsweredOnce'
  <2>1. ASSUME NEW s \in Streams
        PROVE  /\ Asked(s)' => Asked(s)
               /\ OneDial(s) => OneDial(s)'
    BY <1>2, UpSent DEF Is
  <2>2. \A s \in Streams : /\ Replying(s)' = Replying(s) /\ Answering(s)' = Answering(s)
                           /\ OneAnswer(s)' = OneAnswer(s)
    BY <1>2 DEF Replying, Answering, OneAnswer
  <2>3. QED
    BY <1>2, <2>1, <2>2 DEF AnsweredOnce
<1>3. ASSUME up # <<>>, up' = Tail(up), UNCHANGED <<down, reply, answer, local>>
      PROVE  AnsweredOnce'
  <2>1. ASSUME NEW s \in Streams
        PROVE  /\ Asked(s)' => Asked(s)
               /\ OneDial(s) => OneDial(s)'
    BY <1>3, UpTaken
  <2>2. \A s \in Streams : /\ Replying(s)' = Replying(s) /\ Answering(s)' = Answering(s)
                           /\ OneAnswer(s)' = OneAnswer(s)
    BY <1>3 DEF Replying, Answering, OneAnswer
  <2>3. QED
    BY <1>3, <2>1, <2>2 DEF AnsweredOnce
<1>4. ASSUME NEW frame \in Frames, frame.type \notin {"OK", "FAIL"}, down' = Put(down, frame),
             UNCHANGED <<up, reply, answer, local>>
      PROVE  AnsweredOnce'
  <2>1. ASSUME NEW s \in Streams
        PROVE  /\ Answering(s)' => Answering(s)
               /\ OneAnswer(s) => OneAnswer(s)'
    BY <1>4, DownSent DEF Is, IsAnswer
  <2>2. \A s \in Streams : /\ Replying(s)' = Replying(s) /\ Asked(s)' = Asked(s)
                           /\ OneDial(s)' = OneDial(s)
    BY <1>4 DEF Replying, Asked, OneDial
  <2>3. QED
    BY <1>4, <2>1, <2>2 DEF AnsweredOnce
<1>5. ASSUME down # <<>>, down' = Tail(down), UNCHANGED <<up, reply, answer, local>>
      PROVE  AnsweredOnce'
  <2>1. ASSUME NEW s \in Streams
        PROVE  /\ Answering(s)' => Answering(s)
               /\ OneAnswer(s) => OneAnswer(s)'
    BY <1>5, DownTaken
  <2>2. \A s \in Streams : /\ Replying(s)' = Replying(s) /\ Asked(s)' = Asked(s)
                           /\ OneDial(s)' = OneDial(s)
    BY <1>5 DEF Replying, Asked, OneDial
  <2>3. QED
    BY <1>5, <2>1, <2>2 DEF AnsweredOnce
<1>6. ASSUME NEW q \in Streams, DialSent(q) PROVE AnsweredOnce'
  <2>1. /\ up' = Put(up, Frame("DIAL", q)) /\ UNCHANGED <<down, reply, answer>>
        /\ local[q] = "sending" /\ local' = [local EXCEPT ![q] = "dialing"]
    BY <1>6 DEF DialSent, SendUp, Goto, serverVars
  <2>2. ~Asked(q) /\ ~Replying(q) /\ ~Answering(q) /\ answer[q] = "none"
    BY <2>1 DEF AnsweredOnce
  <2>4. ASSUME NEW s \in Streams
        PROVE  /\ Asked(s)' => Asked(s) \/ s = q
               /\ OneDial(s) => OneDial(s)'
    BY <1>b, <1>c, <2>1, <2>2, UpSent DEF Is
  <2>5. \A s \in Streams : /\ Replying(s)' = Replying(s) /\ Answering(s)' = Answering(s)
                           /\ OneAnswer(s)' = OneAnswer(s)
    BY <2>1 DEF Replying, Answering, OneAnswer
  <2>6. QED
    BY <1>a, <2>1, <2>2, <2>4, <2>5 DEF AnsweredOnce
<1>7. ASSUME NEW q \in Streams, ServeDial(q) PROVE AnsweredOnce'
  <2>1. /\ up # <<>> /\ up' = Tail(up) /\ Is(Head(up), "DIAL", q) /\ reply = <<>>
        /\ UNCHANGED <<down, answer, local>>
    BY <1>7 DEF ServeDial, Take, Is, clientVars
  <2>2. reply' # <<>> /\ reply'[1].id = q
    <3>1. PICK type \in {"OK", "FAIL"} : reply' = <<Frame(type, q)>>
      BY <1>7 DEF ServeDial
    <3>2. Frame(type, q).id = q
      BY <1>b, <1>c
    <3>3. QED
      BY <3>1, <3>2
  <2>3. Asked(q) /\ ~Asked(q)'
    BY <2>1, UpTaken DEF AnsweredOnce
  <2>4. ASSUME NEW s \in Streams
        PROVE  /\ Asked(s)' => Asked(s)
               /\ OneDial(s) => OneDial(s)'
    BY <2>1, UpTaken
  <2>5. \A s \in Streams : /\ Replying(s)' = (s = q) /\ Answering(s)' = Answering(s)
                           /\ OneAnswer(s)' = OneAnswer(s)
    BY <2>1, <2>2 DEF Replying, Answering, OneAnswer
  <2>6. QED
    BY <2>1, <2>3, <2>4, <2>5 DEF AnsweredOnce
<1>8. CASE AnswerSent
  <2> DEFINE frame == Head(reply)
             q == frame.id
  <2>1. /\ reply # <<>> /\ reply' = <<>> /\ down' = Put(down, frame)
        /\ UNCHANGED <<up, answer, local>>
    BY <1>8 DEF AnswerSent, SendDown, clientVars
  <2>2. frame \in Frames /\ q \in Streams /\ frame = reply[1]
    <3>1. reply \in Seq(Frames)
      BY DEF TypeInv, TypeOK, Frames
    <3>2. frame \in Frames /\ frame = reply[1]
      BY <2>1, <3>1
    <3>3. QED
      BY <3>2 DEF Frames
  <2>3. /\ Replying(q) /\ ~Asked(q) /\ ~Answering(q) /\ answer[q] = "none"
        /\ local[q] \notin {"idle", "sending"}
    BY <2>1, <2>2 DEF AnsweredOnce, Replying
  <2> HIDE DEF frame
  <2>4. ASSUME NEW s \in Streams
        PROVE  /\ Answering(s)' => Answering(s) \/ s = q
               /\ OneAnswer(s) => OneAnswer(s)'
    BY <2>1, <2>2, <2>3, DownSent DEF Is, IsAnswer
  <2>5. \A s \in Streams : /\ ~Replying(s)' /\ Asked(s)' = Asked(s)
                           /\ OneDial(s)' = OneDial(s)
    BY <2>1 DEF Replying, Asked, OneDial
  <2>6. QED
    BY <2>1, <2>2, <2>3, <2>4, <2>5 DEF AnsweredOnce
<1>9. ASSUME NEW q \in Streams, ReadAnswer(q) PROVE AnsweredOnce'
  <2>1. /\ down # <<>> /\ down' = Tail(down) /\ IsAnswer(Head(down), q)
        /\ UNCHANGED <<up, reply, local>>
    <3>1. PICK type \in {"OK", "FAIL"} : Receive(type, q)
      BY <1>9 DEF ReadAnswer
    <3>2. Frame(type, q).type = type /\ Frame(type, q).id = q
      BY <1>b, <1>c
    <3>3. IsAnswer(Head(down), q)
      BY <3>1, <3>2 DEF Receive, IsAnswer, Is
    <3>4. QED
      BY <1>9, <3>1, <3>3 DEF ReadAnswer, Receive, serverVars
  <2>2. \A s \in Streams : s # q => answer'[s] = answer[s]
    BY <1>9, <1>a DEF ReadAnswer
  <2>3. Answering(q) /\ ~Answering(q)'
    BY <2>1, DownTaken DEF AnsweredOnce
  <2>4. ASSUME NEW s \in Streams
        PROVE  /\ Answering(s)' => Answering(s)
               /\ OneAnswer(s) => OneAnswer(s)'
    BY <2>1, DownTaken
  <2>5. \A s \in Streams : /\ Replying(s)' = Replying(s) /\ Asked(s)' = Asked(s)
                           /\ OneDial(s)' = OneDial(s)
    BY <2>1 DEF Replying, Asked, OneDial
  <2>6. QED
    BY <2>1, <2>2, <2>3, <2>4, <2>5 DEF AnsweredOnce
<1>10. ASSUME NEW s \in Streams, CopyUp(s) \/ CloseSent(s) PROVE AnsweredOnce'
  <2>1. \E type \in {"DATA", "CLOSE"} : up' = Put(up, Frame(type, s))
    BY <1>10 DEF CopyUp, CloseSent, SendUp
  <2>2. UNCHANGED <<down, reply, answer>> /\ \A q \in Streams : Undialled(q)' => Undialled(q)
    BY <1>10, <1>a DEF CopyUp, CloseSent, Goto, clientVars, serverVars
  <2>3. QED
    BY <1>2, <1>b, <1>c, <2>1, <2>2
<1>11. CASE Quit
  <2>1. /\ up' = Put(up, [type |-> "DISCONNECT"]) /\ UNCHANGED <<down, reply, answer>>
        /\ \A q \in Streams : Undialled(q)' => Undialled(q)
    BY <1>11 DEF Quit, ProcessExits, SendUp, serverVars
  <2>2. QED
    BY <1>2, <2>1 DEF UpFrames
<1>12. ASSUME NEW s \in Streams, CopyDown(s) \/ DownCloseSent(s) PROVE AnsweredOnce'
  <2>1. \E type \in {"DATA", "CLOSE"} : down' = Put(down, Frame(type, s))
    BY <1>12 DEF CopyDown, DownCloseSent, SendDown
  <2>2. UNCHANGED <<up, reply, answer, local>>
    BY <1>12 DEF CopyDown, DownCloseSent, clientVars, serverVars
  <2>3. QED
    BY <1>4, <1>b, <1>c, <2>1, <2>2
<1>13. ASSUME NEW s \in Streams, ServeData(s) \/ ServeClose(s) PROVE AnsweredOnce'
  BY <1>3, <1>13 DEF ServeData, ServeClose, Take, clientVars, serverVars
<1>14. ASSUME NEW s \in Streams, ReadData(s) \/ ReadClose(s) PROVE AnsweredOnce'
  BY <1>5, <1>14 DEF ReadData, ReadClose, Receive, clientVars, serverVars
<1>15. ASSUME NEW s \in Streams,
             \/ Dial(s) \/ DialWriteFails(s) \/ DialSucceeds(s) \/ DialRefused(s)
             \/ DialTimesOut(s) \/ Register(s) \/ CopyEnds(s)
      PROVE  AnsweredOnce'
  <2>1. UNCHANGED <<up, down, reply, answer>> /\ \A q \in Streams : Undialled(q)' => Undialled(q)
    BY <1>15, <1>a DEF Dial, DialWriteFails, DialSucceeds, DialRefused, DialTimesOut,
       Register, CopyEnds, Goto, serverVars
  <2>2. QED
    BY <1>1, <2>1
<1>16. CASE ReadLoopEnds
  BY <1>1, <1>16 DEF ReadLoopEnds, ProcessExits, serverVars
<1>17. CASE UNCHANGED <<up, down, reply, answer, local>>
  BY <1>1, <1>17
<1>18. QED
  BY <1>6, <1>7, <1>8, <1>9, <1>10, <1>11, <1>12, <1>13, <1>14, <1>15, <1>16, <1>17
     DEF Next, LocalStep, ReadStep, ServeStep, CopierStep, AppCloses, TargetCloses, LinkBreaks,
         LoopEnds, CopyDownEnds, vars, clientVars, serverVars

-----------------------------------------------------------------------------
(* What an OK says.                                                        *)

\* A target that was dialled stays so.
LEMMA TargetStays ==
  ASSUME TypeInv, [Next]_vars, NEW s \in Streams, target'[s] = "none" PROVE target[s] = "none"
<1>a. target \in [Streams -> {"none", "open", "eof", "closed"}]
  BY DEF TypeInv, TypeOK
<1>1. CASE UNCHANGED target
  BY <1>1
<1>2. ASSUME NEW q \in Streams,
             ServeDial(q) \/ ServeClose(q) \/ CopyDownEnds(q) \/ TargetCloses(q)
      PROVE  target[s] = "none"
  BY <1>2, <1>a DEF ServeDial, ServeClose, CopyDownEnds, TargetCloses, CloseTarget
<1>3. CASE LoopEnds
  BY <1>3, <1>a DEF LoopEnds
<1>4. QED
  BY <1>1, <1>2, <1>3
     DEF Next, LocalStep, ReadStep, ServeStep, CopierStep, vars, serverVars, Dial, DialSent,
         DialWriteFails, DialSucceeds, DialRefused, DialTimesOut, Register, CopyUp, CopyEnds,
         CloseSent, ReadAnswer, ReadData, ReadClose, ServeData, CopyDown, DownCloseSent,
         AppCloses, Quit, ReadLoopEnds, ProcessExits, LinkBreaks, AnswerSent

\* Every action keeps DATA behind the dial it belongs to.
LEMMA UpstreamStep == TypeInv /\ DialTracked /\ OKDialled /\ [Next]_vars => UpstreamKnown'
<1> SUFFICES ASSUME TypeInv, DialTracked, OKDialled, [Next]_vars, NEW k \in DOMAIN up',
                    up'[k].type = "DATA"
             PROVE  target'[up'[k].id] # "none"
  BY DEF UpstreamKnown
<1>a. \A type \in FrameTypes, s \in Streams : /\ Frame(type, s) \in UpFrames
                                              /\ Frame(type, s).type = type
                                              /\ Frame(type, s).id = s
  BY FrameType
<1>b. {"DIAL", "DATA", "CLOSE", "OK", "FAIL"} = FrameTypes
  BY DEF FrameTypes
<1>1. ASSUME NEW j \in DOMAIN up, up'[k] = up[j] PROVE target'[up'[k].id] # "none"
  <2>1. up[j] \in UpFrames
    BY DEF TypeInv, TypeOK, UpFrames, Frames
  <2>2. up[j].id \in Streams
    BY <1>1, <2>1 DEF UpFrames, Frames
  <2>3. target[up[j].id] # "none"
    BY <1>1 DEF OKDialled, UpstreamKnown
  <2>4. QED
    BY <1>1, <2>2, <2>3, TargetStays
<1>2. ASSUME NEW frame \in UpFrames, up' = Put(up, frame), frame.type # "DATA"
      PROVE  target'[up'[k].id] # "none"
  BY <1>1, <1>2, UpFramesSent
<1>3. ASSUME NEW s \in Streams, CopyUp(s) PROVE target'[up'[k].id] # "none"
  <2>1. up' = Put(up, Frame("DATA", s)) /\ local[s] = "copying" /\ target' = target
    BY <1>3 DEF CopyUp, SendUp, serverVars
  <2>2. target[s] # "none"
    BY <2>1 DEF DialTracked, OKDialled
  <2>3. up'[k] = Frame("DATA", s) \/ \E j \in DOMAIN up : up'[k] = up[j]
    <3>1. Frame("DATA", s) \in UpFrames
      BY <1>a, <1>b
    <3>2. QED
      BY <2>1, <3>1, UpFramesSent
  <2>4. QED
    BY <1>1, <1>a, <1>b, <2>1, <2>2, <2>3
<1>4. ASSUME NEW s \in Streams, DialSent(s) \/ CloseSent(s) PROVE target'[up'[k].id] # "none"
  <2>1. \E type \in {"DIAL", "CLOSE"} : up' = Put(up, Frame(type, s))
    BY <1>4 DEF DialSent, CloseSent, SendUp
  <2>2. QED
    BY <1>2, <1>a, <1>b, <2>1
<1>5. CASE Quit
  <2>1. up' = Put(up, [type |-> "DISCONNECT"])
    BY <1>5 DEF Quit, SendUp
  <2>2. QED
    BY <1>2, <2>1 DEF UpFrames
<1>6. ASSUME NEW s \in Streams, ServeStep(s) PROVE target'[up'[k].id] # "none"
  <2>1. up # <<>> /\ up' = Tail(up)
    BY <1>6 DEF ServeStep, ServeDial, ServeData, ServeClose, Take
  <2>2. \E j \in DOMAIN up : up'[k] = up[j]
    BY <1>6, <2>1, UpTaken
  <2>3. QED
    BY <1>1, <2>2
<1>7. CASE UNCHANGED up
  BY <1>1, <1>7
<1>8. QED
  BY <1>3, <1>4, <1>5, <1>6, <1>7
     DEF Next, LocalStep, ReadStep, CopierStep, vars, clientVars, serverVars, Dial,
         DialWriteFails, DialSucceeds, DialRefused, DialTimesOut, Register, CopyEnds,
         ReadAnswer, ReadData, ReadClose, CopyDown, CopyDownEnds, DownCloseSent,
         AppCloses, TargetCloses, ReadLoopEnds, ProcessExits, LinkBreaks, LoopEnds, AnswerSent

\* Every action keeps an OK behind the dial it answers.
LEMMA OKStep == TypeInv /\ DialTracked /\ OKDialled /\ [Next]_vars => OKDialled'
<1> SUFFICES ASSUME TypeInv, DialTracked, OKDialled, [Next]_vars,
                    NEW s \in Streams, target'[s] = "none"
             PROVE  /\ ~(Replying(s)' /\ reply'[1].type = "OK")
                    /\ \A k \in DOMAIN down' : ~Is(down'[k], "OK", s)
                    /\ answer'[s] # "ok"
  BY UpstreamStep DEF OKDialled
<1> DEFINE Goal == /\ ~(Replying(s)' /\ reply'[1].type = "OK")
                   /\ \A k \in DOMAIN down' : ~Is(down'[k], "OK", s)
                   /\ answer'[s] # "ok"
<1>a. \A type \in FrameTypes, q \in Streams : /\ Frame(type, q) \in Frames
                                              /\ Frame(type, q).type = type
                                              /\ Frame(type, q).id = q
  BY FrameType
<1>b. {"DIAL", "DATA", "CLOSE", "OK", "FAIL"} = FrameTypes
  BY DEF FrameTypes
<1>c. /\ ~(Replying(s) /\ reply[1].type = "OK")
      /\ \A k \in DOMAIN down : ~Is(down[k], "OK", s)
      /\ answer[s] # "ok"
  BY TargetStays DEF OKDialled
<1>1. CASE UNCHANGED <<reply, down, answer>>
  BY <1>1, <1>c DEF Replying
<1>2. ASSUME NEW q \in Streams, ServeDial(q) PROVE Goal
  <2>1. UNCHANGED <<down, answer>>
    BY <1>2 DEF ServeDial, clientVars
  <2>2. CASE reply' = <<Frame("FAIL", q)>>
    <3>1. reply'[1].type = "FAIL"
      BY <2>2, <1>a, <1>b
    <3>2. QED
      BY <1>c, <2>1, <3>1
  <2>3. CASE reply' # <<Frame("FAIL", q)>>
    <3>1. reply' = <<Frame("OK", q)>> /\ target' = [target EXCEPT ![q] = "open"]
      BY <1>2, <2>3 DEF ServeDial
    <3>2. s # q
      BY <3>1 DEF TypeInv, TypeOK
    <3>3. reply'[1].id = q
      BY <3>1, <1>a, <1>b
    <3>4. QED
      BY <1>c, <2>1, <3>2, <3>3 DEF Replying
  <2>4. QED
    BY <2>2, <2>3
<1>3. CASE AnswerSent
  <2>1. /\ reply # <<>> /\ reply' = <<>> /\ down' = Put(down, Head(reply)) /\ answer' = answer
    BY <1>3 DEF AnswerSent, SendDown, clientVars
  <2>2. Head(reply) \in Frames /\ Head(reply) = reply[1]
    <3>1. reply \in Seq(Frames)
      BY DEF TypeInv, TypeOK, Frames
    <3>2. QED
      BY <2>1, <3>1
  <2>3. ~Is(Head(reply), "OK", s)
    BY <1>c, <2>1, <2>2 DEF Replying, Is
  <2>4. \A k \in DOMAIN down' : down'[k] = Head(reply) \/ \E j \in DOMAIN down : down'[k] = down[j]
    BY <2>1, <2>2, DownSent
  <2>5. QED
    BY <1>c, <2>1, <2>3, <2>4 DEF Replying
<1>4. ASSUME NEW q \in Streams, CopyDown(q) \/ DownCloseSent(q) PROVE Goal
  <2>1. UNCHANGED <<reply, answer>>
    BY <1>4 DEF CopyDown, DownCloseSent, clientVars, serverVars
  <2>2. PICK type \in {"DATA", "CLOSE"} : down' = Put(down, Frame(type, q))
    BY <1>4 DEF CopyDown, DownCloseSent, SendDown
  <2>3. Frame(type, q) \in Frames /\ Frame(type, q).type = type
    BY <1>a, <1>b
  <2>4. \A k \in DOMAIN down' : down'[k] = Frame(type, q) \/ \E j \in DOMAIN down : down'[k] = down[j]
    BY <2>2, <2>3, DownSent
  <2>5. ~Is(Frame(type, q), "OK", s)
    BY <2>3 DEF Is
  <2>6. QED
    BY <1>c, <2>1, <2>4, <2>5 DEF Replying
<1>5. ASSUME NEW q \in Streams, ReadStep(q) PROVE Goal
  <2>1. down # <<>> /\ down' = Tail(down) /\ reply' = reply
    BY <1>5 DEF ReadStep, ReadAnswer, ReadData, ReadClose, Receive, serverVars
  <2>2. \A k \in DOMAIN down' : \E j \in DOMAIN down : down'[k] = down[j]
    BY <2>1, DownTaken
  <2>3. answer'[s] # "ok"
    <3>1. CASE answer'[s] = answer[s]
      BY <3>1, <1>c
    <3>2. CASE answer'[s] # answer[s]
      <4>1. ReadAnswer(q) /\ s = q
        BY <1>5, <3>2 DEF ReadStep, ReadAnswer, ReadData, ReadClose, clientVars, TypeInv, TypeOK
      <4>2. PICK r \in {"ok", "fail"} : /\ Receive(IF r = "ok" THEN "OK" ELSE "FAIL", q)
                                        /\ answer' = IF q \in pending THEN [answer EXCEPT ![q] = r] ELSE answer
        BY <4>1 DEF ReadAnswer
      <4>3. CASE r = "fail"
        BY <4>1, <4>2, <4>3, <3>2 DEF TypeInv, TypeOK
      <4>4. CASE r = "ok"
        <5>1. Is(Head(down), "OK", s)
          BY <1>a, <1>b, <4>1, <4>2, <4>4 DEF Receive, Is
        <5>2. 1 \in DOMAIN down /\ Head(down) = down[1]
          <6>1. down \in Seq(Frames)
            BY DEF TypeInv, TypeOK, Frames
          <6>2. QED
            BY <2>1, <6>1
        <5>3. QED
          BY <1>c, <5>1, <5>2
      <4>5. QED
        BY <4>3, <4>4
    <3>3. QED
      BY <3>1, <3>2
  <2>4. QED
    BY <1>c, <2>1, <2>2, <2>3 DEF Replying
<1>6. QED
  BY <1>1, <1>2, <1>3, <1>4, <1>5
     DEF Next, LocalStep, ServeStep, CopierStep, vars, clientVars, serverVars, Dial, DialSent,
         DialWriteFails, DialSucceeds, DialRefused, DialTimesOut, Register, CopyUp, CopyEnds,
         CloseSent, ServeData, ServeClose, CopyDownEnds, TargetCloses,
         AppCloses, Quit, ReadLoopEnds, ProcessExits, LinkBreaks, LoopEnds

-----------------------------------------------------------------------------
(* What the target sends comes after the OK.                               *)

\* Once told, a stream stays told.
LEMMA ToldStays ==
  ASSUME TypeInv, DialTracked, [Next]_vars, NEW s \in Streams, Told(s) PROVE Told(s)'
<1>a. DOMAIN local = Streams /\ DOMAIN answer = Streams
  BY DEF TypeInv, TypeOK
<1>1. CASE UNCHANGED <<local, answer>>
  BY <1>1 DEF Told
<1>2. ASSUME NEW q \in Streams, LocalStep(q) PROVE Told(s)'
  BY <1>2, <1>a DEF Told, LocalStep, Dial, DialSent, DialWriteFails, DialSucceeds, DialRefused,
       DialTimesOut, Register, CopyUp, CopyEnds, CloseSent, Goto, clientVars
<1>3. ASSUME NEW q \in Streams, ReadAnswer(q) PROVE Told(s)'
  BY <1>3, <1>a DEF Told, ReadAnswer, DialTracked, PendingOwned
<1>4. CASE ProcessExits
  BY <1>4 DEF Told, ProcessExits
<1>5. QED
  BY <1>1, <1>2, <1>3, <1>4
     DEF Next, ReadStep, ServeStep, CopierStep, vars, clientVars, ReadData, ReadClose,
         ServeDial, ServeData, ServeClose, CopyDown, CopyDownEnds, DownCloseSent, AppCloses,
         TargetCloses, Quit, ReadLoopEnds, LinkBreaks, LoopEnds, AnswerSent

\* An OK that is read reaches the goroutine of the dial, unless it has given up.
LEMMA OKTells ==
  ASSUME TypeInv, DialTracked, AnsweredOnce, NEW s \in Streams, ReadAnswer(s),
         Is(Head(down), "OK", s)
  PROVE  Told(s)'
<1>1. down # <<>> /\ local' = local
  BY DEF ReadAnswer, Receive
<1>2. Answering(s)
  <2>1. down \in Seq(Frames)
    BY DEF TypeInv, TypeOK, Frames
  <2>2. 1 \in DOMAIN down /\ Head(down) = down[1]
    BY <1>1, <2>1
  <2>3. QED
    BY <2>2 DEF Answering, IsAnswer
<1>3. answer[s] = "none" /\ local[s] \notin {"idle", "sending"}
  BY <1>2 DEF AnsweredOnce
<1>4. CASE s \in pending
  <2>1. PICK r \in {"ok", "fail"} : /\ Receive(IF r = "ok" THEN "OK" ELSE "FAIL", s)
                                    /\ answer' = [answer EXCEPT ![s] = r]
    BY <1>4 DEF ReadAnswer
  <2>2. r = "ok"
    BY <2>1 DEF Receive, Frame, Is
  <2>3. QED
    BY <2>1, <2>2 DEF Told, TypeInv, TypeOK
<1>5. CASE s \notin pending
  <2>1. local[s] \in {"closing", "gone"}
    BY <1>3, <1>5 DEF DialTracked, TypeInv, TypeOK
  <2>2. QED
    BY <1>1, <2>1 DEF Told
<1>6. QED
  BY <1>4, <1>5

\* Every action keeps DATA behind the OK.
LEMMA DataStep ==
  TypeInv /\ DialTracked /\ AnsweredOnce /\ DataAfterOK /\ [Next]_vars => DataAfterOK'
<1> SUFFICES ASSUME TypeInv, DialTracked, AnsweredOnce, DataAfterOK, [Next]_vars,
                    NEW s \in Streams, ~Told(s)'
             PROVE  /\ \A k \in DOMAIN down' : down'[k].type = "DATA" /\ down'[k].id = s =>
                         \E j \in DOMAIN down' : j < k /\ Is(down'[j], "OK", s)
                    /\ copier'[s] = "copying" =>
                         link' = "down" \/ \E j \in DOMAIN down' : Is(down'[j], "OK", s)
  BY DEF DataAfterOK
<1> DEFINE Goal == /\ \A k \in DOMAIN down' : down'[k].type = "DATA" /\ down'[k].id = s =>
                        \E j \in DOMAIN down' : j < k /\ Is(down'[j], "OK", s)
                   /\ copier'[s] = "copying" =>
                        link' = "down" \/ \E j \in DOMAIN down' : Is(down'[j], "OK", s)
<1>a. /\ \A k \in DOMAIN down : down[k].type = "DATA" /\ down[k].id = s =>
           \E j \in DOMAIN down : j < k /\ Is(down[j], "OK", s)
      /\ copier[s] = "copying" =>
           link = "down" \/ \E j \in DOMAIN down : Is(down[j], "OK", s)
  BY ToldStays DEF DataAfterOK
<1>b. down \in Seq(Frames) /\ link \in {"up", "down"} /\ DOMAIN copier = Streams
  BY DEF TypeInv, TypeOK, Frames
<1>c. {"DIAL", "DATA", "CLOSE", "OK", "FAIL"} = FrameTypes
  BY DEF FrameTypes
<1>d. \A type \in FrameTypes, q \in Streams : /\ Frame(type, q) \in Frames
                                              /\ Frame(type, q).type = type
                                              /\ Frame(type, q).id = q
  BY FrameType
<1>1. CASE UNCHANGED <<down, copier>> /\ (link' = link \/ link' = "down")
  BY <1>1, <1>a
<1>2. ASSUME NEW q \in Streams, CopyDownEnds(q) PROVE Goal
  <2>1. down' = down /\ link' = link /\ (copier'[s] = "copying" => copier[s] = "copying")
    BY <1>2, <1>b DEF CopyDownEnds
  <2>2. QED
    BY <1>a, <2>1
\* A frame that is not DATA for s leaves what is there as it was.
<1>3. ASSUME NEW frame \in Frames, down' = Put(down, frame), link' = link,
             frame.type = "DATA" /\ frame.id = s => copier[s] = "copying",
             copier'[s] = "copying" => \/ copier[s] = "copying"
                                       \/ Is(frame, "OK", s)
      PROVE  Goal
  <2>1. /\ \A k \in DOMAIN down : k \in DOMAIN down' /\ down'[k] = down[k]
        /\ \A k \in DOMAIN down' :
              \/ k \in DOMAIN down
              \/ link = "up" /\ down'[k] = frame /\ \A j \in DOMAIN down : j < k
        /\ link = "up" => \E k \in DOMAIN down' : down'[k] = frame
    BY <1>3, DownFramesSent
  <2>2. QED
    BY <1>3, <1>a, <1>b, <2>1
<1>4. ASSUME NEW q \in Streams, CopyDown(q) \/ DownCloseSent(q) PROVE Goal
  <2>1. PICK type \in {"DATA", "CLOSE"} : /\ down' = Put(down, Frame(type, q))
                                          /\ type = "DATA" => copier[q] = "copying"
    BY <1>4 DEF CopyDown, DownCloseSent, SendDown
  <2>2. Frame(type, q) \in Frames /\ Frame(type, q).type = type /\ Frame(type, q).id = q
    BY <1>c, <1>d
  <2>3. link' = link /\ (copier'[s] = "copying" => copier[s] = "copying")
    BY <1>4, <1>b DEF CopyDown, DownCloseSent, serverVars
  <2>4. QED
    BY <1>3, <2>1, <2>2, <2>3
<1>5. CASE AnswerSent
  <2>1. reply # <<>> /\ down' = Put(down, Head(reply)) /\ link' = link
    BY <1>5 DEF AnswerSent, SendDown
  <2>2. Head(reply) \in Frames /\ Head(reply).type \in {"OK", "FAIL"}
    <3>1. reply \in Seq(Frames)
      BY DEF TypeInv, TypeOK, Frames
    <3>2. Head(reply) \in Frames /\ Head(reply) = reply[1]
      BY <2>1, <3>1
    <3>3. QED
      BY <2>1, <3>2 DEF TypeInv
  <2>3. copier'[s] = "copying" => copier[s] = "copying" \/ Is(Head(reply), "OK", s)
    BY <1>5, <1>b, <2>2 DEF AnswerSent, Is, Frames
  <2>4. QED
    BY <1>3, <2>1, <2>2, <2>3
<1>6. ASSUME NEW q \in Streams, ReadStep(q) PROVE Goal
  <2>1. down # <<>> /\ down' = Tail(down) /\ UNCHANGED <<link, copier>>
    BY <1>6 DEF ReadStep, ReadAnswer, ReadData, ReadClose, Receive, serverVars
  <2>2. ~Is(Head(down), "OK", s)
    <3>1. CASE ReadAnswer(q)
      <4>1. Head(down).id = q
        <5>1. PICK type \in {"OK", "FAIL"} : Receive(type, q)
          BY <3>1 DEF ReadAnswer
        <5>2. Frame(type, q).id = q
          BY <1>c, <1>d
        <5>3. QED
          BY <5>1, <5>2 DEF Receive
      <4>2. QED
        BY <3>1, <4>1, OKTells DEF Is
    <3>2. CASE ReadData(q) \/ ReadClose(q)
      BY <3>2, <1>c, <1>d DEF ReadData, ReadClose, Receive, Is
    <3>3. QED
      BY <1>6, <3>1, <3>2 DEF ReadStep
  <2>3. /\ Head(down) = down[1]
        /\ \A k \in DOMAIN down' : k \in Nat /\ k + 1 \in DOMAIN down /\ down'[k] = down[k + 1]
        /\ \A k \in DOMAIN down : k = 1 \/ (k - 1 \in DOMAIN down' /\ down'[k - 1] = down[k])
        /\ DOMAIN down \subseteq Nat
    BY <1>b, <2>1, TailElements
  <2>4. ASSUME NEW k \in DOMAIN down', down'[k].type = "DATA", down'[k].id = s
        PROVE  \E j \in DOMAIN down' : j < k /\ Is(down'[j], "OK", s)
    <3>1. PICK j \in DOMAIN down : j < k + 1 /\ Is(down[j], "OK", s)
      BY <1>a, <2>3, <2>4
    <3>2. j # 1
      BY <2>2, <2>3, <3>1
    <3>3. j - 1 \in DOMAIN down' /\ down'[j - 1] = down[j] /\ j - 1 < k
      BY <2>3, <3>1, <3>2
    <3>4. QED
      BY <3>1, <3>3
  <2>5. ASSUME NEW j \in DOMAIN down, Is(down[j], "OK", s)
        PROVE  \E i \in DOMAIN down' : Is(down'[i], "OK", s)
    BY <2>2, <2>3, <2>5
  <2>6. QED
    BY <1>a, <2>1, <2>4, <2>5
<1>7. QED
  BY <1>1, <1>2, <1>4, <1>5, <1>6
     DEF Next, LocalStep, ServeStep, CopierStep, vars, clientVars, serverVars, Dial, DialSent,
         DialWriteFails, DialSucceeds, DialRefused, DialTimesOut, Register, CopyUp, CopyEnds,
         CloseSent, ServeDial, ServeData, ServeClose, TargetCloses,
         AppCloses, Quit, ReadLoopEnds, ProcessExits, LinkBreaks, LoopEnds

-----------------------------------------------------------------------------
(* What the client's read loop is sent.                                    *)

\* The server sends nothing that readLoop would not take.
LEMMA HandledStep == TypeInv /\ DownHandled /\ [Next]_vars => DownHandled'
<1> SUFFICES ASSUME TypeInv, DownHandled, [Next]_vars PROVE DownHandled'
  OBVIOUS
<1>1. ASSUME NEW frame \in Frames, frame.type \in Handled, SendDown(frame)
      PROVE  DownHandled'
  BY <1>1, DownFramesSent DEF SendDown, DownHandled
<1>2. ASSUME NEW s \in Streams, down # <<>>, down' = Tail(down) PROVE DownHandled'
  BY <1>2, DownTaken DEF DownHandled
<1>3. CASE AnswerSent
  <2>1. Head(reply) \in Frames /\ Head(reply).type \in Handled
    <3>1. reply \in Seq(Frames) /\ reply # <<>> /\ reply[1].type \in {"OK", "FAIL"}
      BY <1>3 DEF AnswerSent, TypeInv, TypeOK, Frames
    <3>2. QED
      BY <3>1 DEF Handled
  <2>2. QED
    BY <1>1, <1>3, <2>1 DEF AnswerSent
<1>4. ASSUME NEW s \in Streams, CopyDown(s) \/ DownCloseSent(s) PROVE DownHandled'
  <2>1. \A type \in {"DATA", "CLOSE"} :
          Frame(type, s) \in Frames /\ Frame(type, s).type \in Handled
    BY FrameType DEF FrameTypes, Handled
  <2>2. QED
    BY <1>1, <1>4, <2>1 DEF CopyDown, DownCloseSent
<1>5. ASSUME NEW s \in Streams, ReadStep(s) PROVE DownHandled'
  BY <1>2, <1>5 DEF ReadStep, ReadAnswer, ReadData, ReadClose, Receive
<1>6. CASE UNCHANGED down
  BY <1>6 DEF DownHandled
<1>7. QED
  BY <1>3, <1>4, <1>5, <1>6
     DEF Next, LocalStep, ServeStep, CopierStep, vars, clientVars, serverVars, Dial, DialSent,
         DialWriteFails, DialSucceeds, DialRefused, DialTimesOut, Register, CopyUp, CopyEnds,
         CloseSent, ServeDial, ServeData, ServeClose, CopyDownEnds, TargetCloses,
         AppCloses, Quit, ReadLoopEnds, ProcessExits, LinkBreaks, LoopEnds

-----------------------------------------------------------------------------
(* Theorems.                                                               *)

\* Every action keeps the invariant.
LEMMA MuxStep == MuxInv /\ [Next]_vars => MuxInv'
  BY TypeStep, TargetStep, DialStep, AnswerStep, OKStep, DataStep DEF MuxInv

\* The invariant holds in every reachable state.
LEMMA MuxInvAlways == Spec => []MuxInv
<1>1. Init => MuxInv
  <2> SUFFICES ASSUME Init PROVE MuxInv
    OBVIOUS
  <2>1. up = <<>> /\ down = <<>> /\ reply = <<>>
    BY DEF Init
  <2>a. DOMAIN up = {} /\ DOMAIN down = {}
    BY <2>1
  <2>2. TypeOK
    BY MaxDataAssumption, CapAssumption DEF Init, TypeOK
  <2>3. NoOrphanTarget /\ DialTracked /\ CopyingKnown
    BY DEF Init, NoOrphanTarget, DialTracked, PendingOwned, CopyingKnown
  <2>4. AnsweredOnce
    BY <2>1, <2>a DEF Init, AnsweredOnce, Asked, Replying, Answering, OneDial, OneAnswer
  <2>5. OKDialled
    BY <2>1, <2>a DEF Init, OKDialled, UpstreamKnown, Replying
  <2>6. DataAfterOK
    BY <2>a DEF Init, DataAfterOK
  <2>7. QED
    BY <2>1, <2>2, <2>3, <2>4, <2>5, <2>6 DEF MuxInv, TypeInv
<1>2. QED
  BY <1>1, MuxStep, PTL DEF Spec

\* The types hold throughout, for every number of streams; in particular no queue outgrows
\* the connection and every frame carries the id of a stream.
THEOREM TypeCorrect == Spec => []TypeOK
<1>1. MuxInv => TypeOK
  BY DEF MuxInv, TypeInv
<1>2. QED
  BY <1>1, MuxInvAlways, PTL

\* handleProxyConn: an open target is in the streams map of a loop that still runs, so that
\* CLOSE or the deferred function will close it.
THEOREM NoOrphanTargetAlways == Spec => []NoOrphanTarget
<1>1. MuxInv => NoOrphanTarget
  BY DEF MuxInv
<1>2. QED
  BY <1>1, MuxInvAlways, PTL

\* dialRemote and readLoop: whoever wins, answer, refusal or timeout, pending keeps no
\* entry without a goroutine that waits for it.
THEOREM PendingOwnedAlways == Spec => []PendingOwned
<1>1. MuxInv => PendingOwned
  BY DEF MuxInv, DialTracked
<1>2. QED
  BY <1>1, MuxInvAlways, PTL

\* The server has dialled a stream before DATA for it can arrive.
THEOREM UpstreamKnownAlways == Spec => []UpstreamKnown
<1>1. MuxInv => UpstreamKnown
  BY DEF MuxInv, OKDialled
<1>2. QED
  BY <1>1, MuxInvAlways, PTL

\* readLoop drops DATA of a stream only before Register, or when the stream is over: the
\* one action property of the proxy, from the order of OK and DATA on the connection.
THEOREM LossWindowAlways == Spec => LossWindow
<1> DEFINE Lossless ==
      \A s \in Streams :
         ReadData(s) /\ s \notin streams =>
           \/ local[s] = "dialing" /\ answer[s] = "ok"
           \/ local[s] \in {"registering", "closing", "gone"}
           \/ localConn[s] # "open"
<1>1. ASSUME MuxInv, NEW s \in Streams, ReadData(s), s \notin streams
      PROVE  \/ local[s] = "dialing" /\ answer[s] = "ok"
             \/ local[s] \in {"registering", "closing", "gone"}
             \/ localConn[s] # "open"
  <2>1. down # <<>> /\ Head(down).type = "DATA" /\ Head(down).id = s
    BY <1>1, FrameType DEF ReadData, Receive, FrameTypes
  <2>2. 1 \in DOMAIN down /\ Head(down) = down[1] /\ \A j \in DOMAIN down : ~(j < 1)
    <3>1. down \in Seq(Frames)
      BY <1>1 DEF MuxInv, TypeInv, TypeOK, Frames
    <3>2. QED
      BY <2>1, <3>1
  <2>3. Told(s)
    BY <1>1, <2>1, <2>2 DEF MuxInv, DataAfterOK
  <2>4. answer[s] = "ok" => local[s] \notin {"idle", "sending"}
    BY <1>1 DEF MuxInv, AnsweredOnce
  <2>5. local[s] = "copying" => localConn[s] # "open"
    BY <1>1 DEF MuxInv, CopyingKnown
  <2>6. QED
    BY <1>1, <2>3, <2>4, <2>5 DEF Told, MuxInv, TypeInv, TypeOK
<1>2. MuxInv => Lossless
  BY <1>1
<1>3. MuxInv /\ [Next]_vars => [Lossless]_vars
  BY <1>2
<1>4. QED
  BY <1>3, MuxInvAlways, PTL DEF Spec, LossWindow
\* handleProxyConn and readLoop: while the server's loop is held up writing an answer, a frame
\* that readLoop takes stands first on the connection, so the two loops do not wait for each
\* other.  This is NoCircularWait less its ENABLED: that taking the frame is possible.
THEOREM ReaderServedAlways == Spec => []ReaderServed
<1>1. Init => DownHandled
  <2> SUFFICES ASSUME Init PROVE DownHandled
    OBVIOUS
  <2>1. down = <<>>
    BY DEF Init
  <2>2. QED
    BY <2>1 DEF DownHandled
<1>2. MuxInv /\ DownHandled => ReaderServed
  <2> SUFFICES ASSUME MuxInv, DownHandled, ~Room(down) 
                PROVE  \E s \in Streams, type \in Handled :
                         down # <<>> /\ Head(down) = Frame(type, s)
    BY DEF ReaderServed
  <2>1. down \in Seq(Frames)
    BY DEF MuxInv, TypeInv, TypeOK, Frames
  <2>2. Len(down) >= 1
    BY <2>1, CapAssumption DEF Room
  <2>3. down # <<>> /\ 1 \in DOMAIN down /\ Head(down) = down[1] /\ down[1] \in Frames
    BY <2>1, <2>2
  <2>4. down[1].type \in Handled /\ down[1].id \in Streams
    BY <2>3 DEF DownHandled, Frames
  <2>5. down[1] = Frame(down[1].type, down[1].id)
    BY <2>3 DEF Frames, Frame
  <2>6. QED
    BY <2>3, <2>4, <2>5
<1>3. MuxInv => TypeInv
  BY DEF MuxInv
<1>4. Spec => []DownHandled
  BY <1>1, <1>3, HandledStep, MuxInvAlways, PTL DEF Spec
<1>5. QED
  BY <1>2, <1>4, MuxInvAlways, PTL
=============================================================================
