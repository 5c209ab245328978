--------------------------- MODULE WsSessionProofs --------------------------
(***************************************************************************)
(* Proofs about WsSession, for every interval, timeout and lag, and any    *)
(* frames in flight.                                                       *)
(***************************************************************************)
EXTENDS WsSession, TLAPS

\* A session that is not over has no reason to be.
NotStoppedYet == phase # "stopped" => why = "none"

\* Until the interval begins, the only silence is the delay of its start.
StartedSoon ==
  phase = "created" => asked = Never /\ silence + check = 0

\* The next check finds a silence of at most the timeout and one interval; of
\* one interval, if no ping has been sent since the client was heard.
NextCheckInTime ==
  phase = "running" =>
    /\ silence + check <= Timeout + Interval
    /\ asked = Never => silence + check <= Interval + Lag
    /\ asked # Never => asked + check >= Interval

\* The next check is neither overdue nor further off than an interval.
ChecksNotOverdue == phase \in Live => check >= -Lag /\ check <= Interval

WInv ==
  /\ TypeOK
  /\ NotStoppedYet
  /\ StartedSoon
  /\ NextCheckInTime
  /\ ChecksNotOverdue
  /\ CutOnlyUnanswered

-----------------------------------------------------------------------------
LEMMA InitInv == Init => WInv
  BY SessionConstants DEF Init, WInv, TypeOK, NotStoppedYet, StartedSoon,
     NextCheckInTime, ChecksNotOverdue, CutOnlyUnanswered, Live

\* What a step does to the clocks and to the state of the session: one of these.
ClockStep ==
  \/ UNCHANGED <<phase, why, clocks>>
  \/ /\ phase \notin Live /\ phase' = "created" /\ why' = "none"
     /\ silence' = 0 /\ check' = 0 /\ asked' = Never
  \/ /\ phase = "created" /\ phase' = "running" /\ check' = Interval
     /\ UNCHANGED <<why, silence, asked>>
  \/ /\ phase = "running" /\ check <= 0 /\ silence > Timeout
     /\ phase' = "stopped" /\ why' = "timeout" /\ UNCHANGED clocks
  \/ /\ phase = "running" /\ check <= 0 /\ silence <= Timeout
     /\ check' = Interval /\ asked' = (IF asked = Never THEN 0 ELSE asked)
     /\ UNCHANGED <<phase, why, silence>>
  \/ /\ phase = "running" /\ silence' = 0 /\ asked' = Never
     /\ UNCHANGED <<phase, why, check>>
  \/ /\ phase = "running" /\ phase' = "stopped" /\ why' \in {"close", "frame"}
     /\ UNCHANGED clocks
  \/ /\ phase \in Live /\ check > -Lag
     /\ silence' = silence + 1 /\ check' = check - 1
     /\ asked' = (IF asked = Never THEN Never ELSE asked + 1)
     /\ UNCHANGED <<phase, why>>

\* Every action is one of the steps of the clocks.
LEMMA StepsOfClocks ==
  ASSUME TypeOK, [Next]_vars
  PROVE  ClockStep
<1> USE DEF TypeOK, ClockStep, clocks
<1>1. CASE Serve
  BY <1>1 DEF Serve
<1>2. CASE Connect
  BY <1>2 DEF Connect
<1>3. CASE Start
  BY <1>3 DEF Start
<1>4. CASE Beat
  <2>1. CASE TooLong
    BY <1>4, <2>1, SessionConstants DEF Beat, TooLong, Stop
  <2>2. CASE ~TooLong
    BY <1>4, <2>2, SessionConstants DEF Beat, TooLong, Pinged, GoOn
  <2>3. QED
    BY <2>1, <2>2
<1>5. CASE Handle
  <2>1. CASE HandlePing
    BY <2>1 DEF HandlePing, Receive, Alive, GoOn
  <2>2. CASE HandlePong
    BY <2>2 DEF HandlePong, Receive, Alive, GoOn
  <2>3. CASE HandleBinary
    BY <2>3 DEF HandleBinary, Receive, GoOn
  <2>4. CASE HandleClose
    BY <2>4 DEF HandleClose, Receive, Stop
  <2>5. CASE HandleOther
    BY <2>5 DEF HandleOther, Receive, Stop
  <2>6. QED
    BY <1>5, <2>1, <2>2, <2>3, <2>4, <2>5 DEF Handle
<1>6. CASE \E frame \in ClientFrame : Send(frame)
  BY <1>6 DEF Send
<1>7. CASE Read
  BY <1>7 DEF Read
<1>8. CASE GoSilent
  BY <1>8 DEF GoSilent
<1>9. CASE Tick
  BY <1>9 DEF Tick
<1>10. CASE UNCHANGED vars
  BY <1>10 DEF vars
<1>11. QED
  BY <1>1, <1>2, <1>3, <1>4, <1>5, <1>6, <1>7, <1>8, <1>9, <1>10 DEF Next

\* A frame appended, or the first one taken, leaves a queue of frames.
LEMMA Queues ==
  ASSUME NEW S, NEW q \in Seq(S), NEW f \in S
  PROVE  /\ Append(q, f) \in Seq(S)
         /\ q # <<>> => Tail(q) \in Seq(S)
         /\ <<>> \in Seq(S)
  OBVIOUS

\* Every step keeps the queues queues of frames, and the server and the client
\* in their states.
LEMMA StepsOfNet ==
  ASSUME TypeOK, [Next]_vars
  PROVE  /\ server' \in {"off", "serving", "panicked"}
         /\ client' \in {"absent", "there", "silent"}
         /\ toServer' \in Seq(ClientFrame)
         /\ toClient' \in Seq(ServerFrame)
<1> USE DEF TypeOK, net
<1>0. /\ \A f \in ClientFrame : Append(toServer, f) \in Seq(ClientFrame)
      /\ toServer # <<>> => Tail(toServer) \in Seq(ClientFrame)
      /\ \A f \in ServerFrame : Append(toClient, f) \in Seq(ServerFrame)
      /\ <<>> \in Seq(ClientFrame) /\ <<>> \in Seq(ServerFrame)
  BY Queues DEF ServerFrame, ClientFrame
<1>a. \A f \in ServerFrame : Reply(f) => toClient' \in Seq(ServerFrame)
  BY <1>0 DEF Reply
<1>b. /\ "ping" \in ServerFrame /\ "pong" \in ServerFrame
      /\ "echo" \in ServerFrame /\ "close" \in ServerFrame
      /\ "pong" \in ClientFrame
  BY DEF ServerFrame, ClientFrame
<1>c. \A f : Receive(f) =>
        /\ toServer' \in Seq(ClientFrame)
        /\ UNCHANGED <<server, client>>
  BY <1>0 DEF Receive
<1>1. CASE Serve
  BY <1>1 DEF Serve
<1>2. CASE Connect
  BY <1>0, <1>2 DEF Connect
<1>3. CASE Start
  BY <1>3 DEF Start
<1>4. CASE Beat
  BY <1>a, <1>b, <1>4 DEF Beat
<1>5. CASE Handle
  BY <1>a, <1>b, <1>c, <1>5 DEF Handle, HandlePing, HandlePong, HandleBinary,
     HandleClose, HandleOther
<1>6. CASE \E frame \in ClientFrame : Send(frame)
  BY <1>0, <1>6 DEF Send
<1>7. CASE Read
  BY <1>0, <1>b, <1>7 DEF Read
<1>8. CASE GoSilent
  BY <1>8 DEF GoSilent
<1>9. CASE Tick
  BY <1>9 DEF Tick
<1>10. CASE UNCHANGED vars
  BY <1>10 DEF vars
<1>11. QED
  BY <1>1, <1>2, <1>3, <1>4, <1>5, <1>6, <1>7, <1>8, <1>9, <1>10 DEF Next

\* Every step preserves the invariant: the sums of the clocks change only when
\* the check is run or the client is heard.
LEMMA StepInv ==
  ASSUME WInv, [Next]_vars
  PROVE  WInv'
<1>1. TypeOK /\ ClockStep
  BY StepsOfClocks DEF WInv
<1>2. /\ phase' \in {"none", "stopped"} \union Live
      /\ why' \in {"none", "timeout", "close", "frame"}
      /\ silence' \in Nat /\ check' \in Int /\ asked' \in Nat \union {Never}
  BY <1>1, SessionConstants DEF TypeOK, ClockStep, clocks, Live
<1>3. TypeOK'
  BY <1>1, <1>2, StepsOfNet DEF TypeOK, Live
<1>4. NotStoppedYet'
  BY <1>1 DEF WInv, ClockStep, NotStoppedYet, clocks, Live
<1>5. StartedSoon'
  BY <1>1, SessionConstants DEF WInv, TypeOK, ClockStep, StartedSoon, clocks, Live
<1>6. NextCheckInTime'
  BY <1>1, SessionConstants DEF WInv, TypeOK, ClockStep, NextCheckInTime,
     StartedSoon, ChecksNotOverdue, clocks, Live
<1>7. ChecksNotOverdue'
  BY <1>1, SessionConstants DEF WInv, TypeOK, ClockStep, ChecksNotOverdue, clocks,
     Live
<1>8. CutOnlyUnanswered'
  BY <1>1, SessionConstants DEF WInv, TypeOK, ClockStep, CutOnlyUnanswered,
     NotStoppedYet, NextCheckInTime, ChecksNotOverdue, clocks, Live
<1>9. QED
  BY <1>3, <1>4, <1>5, <1>6, <1>7, <1>8 DEF WInv

\* The session's invariant.
THEOREM SessionInvariant == Spec => []WInv
<1>1. WInv /\ UNCHANGED vars => WInv'
  BY StepInv
<1>2. QED
  BY InitInv, StepInv, <1>1, PTL DEF Spec

\* Every variable keeps its type.
THEOREM SessionTypes == Spec => []TypeOK
  BY SessionInvariant, PTL DEF WInv

\* A client that answers each ping before the next check is never cut.
THEOREM AnsweringClientKept == Spec => []CutOnlyUnanswered
  BY SessionInvariant, PTL DEF WInv

\* The session watches its client as PeerWatch promises.
THEOREM SessionWatches == Spec => ImplementsPeerWatch
<1>1. Init => Watch!Init
  BY DEF Init, Watch!Init, Live
<1>2. ASSUME WInv, [Next]_vars
      PROVE  [Watch!Next]_(Watch!vars)
  <2>1. TypeOK /\ ClockStep
    BY <1>2, StepsOfClocks DEF WInv
  <2>2. phase \in Live /\ check > -Lag => silence < Timeout + (Interval + Lag)
    BY <1>2, SessionConstants DEF WInv, TypeOK, StartedSoon, NextCheckInTime, Live
  <2>3. QED
    BY <1>2, <2>1, <2>2 DEF WInv, NotStoppedYet, ClockStep, TypeOK, clocks, Live,
       Watch!Next, Watch!Meet, Watch!Hear, Watch!Pass, Watch!GiveUp, Watch!Leave,
       Watch!vars
<1>3. QED
  BY <1>1, <1>2, SessionInvariant, PTL DEF Spec, ImplementsPeerWatch, Watch!Spec
=============================================================================
