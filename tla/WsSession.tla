------------------------------ MODULE WsSession -----------------------------
(***************************************************************************)
(* The WebSocket session of the Rust web server (rust/src/bin/web.rs): an  *)
(* actor that echoes messages, pings its client at every check and stops   *)
(* when the client has been silent for too long.                           *)
(*                                                                         *)
(* There is no clock: what counts is the age of the last sign of life, the *)
(* time left to the next check and the age of the first ping since.  The   *)
(* two directions of the connection are queues, as TCP neither loses nor   *)
(* reorders; a client may go silent without a word.                        *)
(***************************************************************************)
EXTENDS Integers, Sequences

CONSTANTS
  Interval,   \* of run_interval: 5 seconds
  Timeout,    \* 10 seconds
  Lag,        \* how late the runtime may run what is due
  MaxFlight,  \* bound: frames in flight when the client sends another
  Never

ASSUME SessionConstants ==
  /\ Interval \in Nat \ {0} /\ Timeout \in Nat /\ Lag \in Nat
  /\ Interval + 2 * Lag <= Timeout
  /\ MaxFlight \in Nat \ {0}
  /\ Never \notin Int

VARIABLES
  server,    \* main(): "off", "serving" or "panicked"
  phase,     \* of the session
  why,       \* what stopped it
  silence,   \* now - hb
  check,     \* until the next run of the interval, negative when it is late
  asked,     \* age of the first ping since hb
  client,    \* "absent", "there", or "silent" for good
  toServer,  \* frames on their way to the session
  toClient   \* frames on their way to the client

clocks == <<silence, check, asked>>
net == <<toServer, toClient>>
vars == <<server, phase, why, silence, check, asked, client, toServer, toClient>>

Live == {"created", "running"}

\* Text, continuation, and the end of the stream or an error of the protocol
\* are one case in handle().
ClientFrame == {"ping", "pong", "binary", "garbage", "close", "other"}
ServerFrame == {"ping", "pong", "echo", "close"}

Init ==
  /\ server = "off"
  /\ phase = "none"
  /\ why = "none"
  /\ silence = 0 /\ check = 0 /\ asked = Never
  /\ client = "absent"
  /\ toServer = <<>> /\ toClient = <<>>

\* main(): Config::new() and bind() may panic.
Serve ==
  /\ server = "off"
  /\ server' \in {"serving", "panicked"}
  /\ UNCHANGED <<phase, why, clocks, client, net>>

\* ws_index: a client connects; hb is the time of its request.
Connect ==
  /\ server = "serving" /\ phase \notin Live
  /\ phase' = "created" /\ why' = "none"
  /\ silence' = 0 /\ check' = 0 /\ asked' = Never
  /\ client' = "there"
  /\ toServer' = <<>> /\ toClient' = <<>>
  /\ UNCHANGED server

\* started(): the interval begins; its first run is one interval away.
Start ==
  /\ phase = "created"
  /\ phase' = "running" /\ check' = Interval
  /\ UNCHANGED <<server, why, silence, asked, client, net>>

\* What is sent to a silent client is never read, and is left out.
Reply(frame) ==
  toClient' = IF client = "there" THEN Append(toClient, frame) ELSE toClient
GoOn == UNCHANGED <<phase, why>>
Stop(reason) == phase' = "stopped" /\ why' = reason

\* The comparison of hb().  Mutations: with the interval; it never holds.
TooLongAgo == silence >= Interval
NeverTooLong == FALSE
TooLong == silence > Timeout

\* A ping does not renew hb.  Mutation: it does.
PingedAlive == asked' = Never /\ silence' = 0
Pinged == asked' = (IF asked = Never THEN 0 ELSE asked) /\ UNCHANGED silence

\* hb(): stop without a frame, or ping.
Beat ==
  /\ phase = "running" /\ check <= 0
  /\ \/ TooLong /\ Stop("timeout") /\ UNCHANGED <<clocks, toClient>>
     \/ /\ ~TooLong
        /\ Reply("ping") /\ Pinged
        /\ check' = Interval
        /\ GoOn
  /\ UNCHANGED <<server, client, toServer>>

\* hb = Instant::now().  Mutation: an interval of grace is added.
AliveAhead == silence' = -Interval /\ asked' = Never
Alive == silence' = 0 /\ asked' = Never

Receive(frame) ==
  /\ phase = "running"
  /\ toServer # <<>> /\ Head(toServer) = frame
  /\ toServer' = Tail(toServer)
  /\ UNCHANGED <<server, check, client>>

\* handle(), one action per arm of the match.
HandlePing == Receive("ping") /\ Alive /\ Reply("pong") /\ GoOn
HandlePong == Receive("pong") /\ Alive /\ GoOn /\ UNCHANGED toClient
\* A message that decodes is echoed; one that does not is ignored.  Neither
\* counts as a sign of life.
HandleBinary ==
  /\ \/ Receive("binary") /\ Reply("echo")
     \/ Receive("garbage") /\ UNCHANGED toClient
  /\ GoOn /\ UNCHANGED <<silence, asked>>
HandleClose ==
  Receive("close") /\ Reply("close") /\ Stop("close") /\ UNCHANGED <<silence, asked>>
HandleOther ==
  Receive("other") /\ Stop("frame") /\ UNCHANGED <<silence, asked, toClient>>

Handle == HandlePing \/ HandlePong \/ HandleBinary \/ HandleClose \/ HandleOther

-----------------------------------------------------------------------------
(* The client and time.                                                    *)

Send(frame) ==
  /\ client = "there" /\ phase \in Live
  /\ Len(toServer) + Len(toClient) < MaxFlight
  /\ toServer' = Append(toServer, frame)
  /\ UNCHANGED <<server, phase, why, clocks, client, toClient>>

\* The client reads what has arrived and, as the protocol allows, answers the
\* pings in it with one pong.
Read ==
  /\ client = "there" /\ phase \in Live
  /\ toClient # <<>> /\ Len(toServer) < MaxFlight
  /\ toClient' = <<>>
  /\ toServer' = IF \E i \in DOMAIN toClient : toClient[i] = "ping"
                 THEN Append(toServer, "pong") ELSE toServer
  /\ UNCHANGED <<server, phase, why, clocks, client>>

GoSilent ==
  /\ client = "there"
  /\ client' = "silent"
  /\ UNCHANGED <<server, phase, why, clocks, net>>

\* What is due is run at most Lag late.
Tick ==
  /\ phase \in Live /\ check > -Lag
  /\ silence' = silence + 1
  /\ check' = check - 1
  /\ asked' = IF asked = Never THEN Never ELSE asked + 1
  /\ UNCHANGED <<server, phase, why, client, net>>

Next ==
  \/ Serve
  \/ Connect
  \/ Start
  \/ Beat
  \/ Handle
  \/ \E frame \in ClientFrame : Send(frame)
  \/ Read
  \/ GoSilent
  \/ Tick

Spec == Init /\ [][Next]_vars

(***************************************************************************)
(* Fairness: time passes, and the actor's runtime polls what is due or has *)
(* arrived.  Nobody has to connect, to send or to go silent.               *)
(***************************************************************************)
Fairness == WF_vars(Tick) /\ WF_vars(Start) /\ WF_vars(Beat) /\ WF_vars(Handle)
FairSpec == Spec /\ Fairness

-----------------------------------------------------------------------------
(* Properties.                                                             *)

\* Every variable stays within the values the code and its peer can give it.
TypeOK ==
  /\ server \in {"off", "serving", "panicked"}
  /\ phase \in {"none", "stopped"} \union Live
  /\ why \in {"none", "timeout", "close", "frame"}
  /\ silence \in Nat /\ check \in Int /\ asked \in Nat \union {Never}
  /\ client \in {"absent", "there", "silent"}
  /\ toServer \in Seq(ClientFrame) /\ toClient \in Seq(ServerFrame)

\* A client that answers is not cut: when the session gives up, a ping has
\* been out for a whole interval and nothing has been heard since it was sent.
\* (The client has the five seconds of the interval to answer, not ten.)
CutOnlyUnanswered == why = "timeout" => asked # Never /\ asked >= Interval

\* The session watches its client as PeerWatch promises: no session outlives
\* its client's last ping or pong by more than the timeout and one interval,
\* and none is given up for silence before the timeout.
Watch == INSTANCE PeerWatch WITH
           Patience <- Timeout, Slack <- Interval + Lag, age <- silence,
           peer <- IF phase = "none" THEN "absent"
                   ELSE IF phase \in Live THEN "watched"
                   ELSE IF why = "timeout" THEN "givenUp" ELSE "left"
ImplementsPeerWatch == Watch!Spec

\* A session whose client has gone silent ends, whatever is still in flight.
SilentEnds == (client = "silent") ~> (phase \notin Live)
=============================================================================
