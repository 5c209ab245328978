------------------------- MODULE BinanceRateLimiter -------------------------
(***************************************************************************)
(* The GenServer BinanceMultiRateLimiter and the processes that ask it     *)
(* before they send a request to Binance (BinanceReqAdapter.request).  The *)
(* server answers one call at a time; a call is one action here.           *)
(*                                                                         *)
(* Four counters, each in a fixed window of the system clock, limit the    *)
(* weight per minute, the orders per second and per day and the raw        *)
(* requests per five minutes.  The system clock may be set back.           *)
(***************************************************************************)
EXTENDS Integers, FiniteSets

CONSTANTS
  Callers,     \* processes that send requests
  Weights,     \* weights of the requests for data
  Length,      \* length of each window
  Limit,       \* its limit
  StartTime,   \* the clock when the server first starts
  MaxNow,      \* bound: the clock stops there
  MaxCrashes,  \* bound: crashes of the server
  MaxAdjusts,  \* bound: times the system clock is set back
  Overrun,     \* bound: how far the casts push a counter over its limit
  Nil          \* Elixir's nil

Windows == {"minute", "second", "day", "fiveMin"}

ASSUME LimiterConstants ==
  /\ IsFiniteSet(Callers)
  /\ Weights \subseteq Nat /\ Nil \notin Nat
  /\ Length \in [Windows -> Nat \ {0}]
  /\ Limit \in [Windows -> Nat]
  /\ MaxNow \in Nat /\ StartTime \in 0 .. MaxNow /\ MaxCrashes \in Nat /\ MaxAdjusts \in Nat /\ Overrun \in Nat

VARIABLES
  now,      \* :os.system_time
  window,   \* per window: when it started and what has been counted in it
  pc,       \* where each caller is
  req,      \* its request, Nil when it has none
  wait,     \* how long it is told to sleep, or still sleeps
  until,    \* history: when the window is over that last refused its request,
            \* unless the clock has been set back since
  granted,  \* history: what this server has granted in each window
  spent,    \* history: weight granted in each minute, by any server process
  surplus,  \* history: data requests sent in each minute, less those granted
  crashes,  \* crashes so far
  adjusts   \* times the clock has been set back so far

serverVars == <<window, granted, spent>>
callerVars == <<pc, req, wait, until, surplus>>
vars == <<now, window, pc, req, wait, until, granted, spent, surplus, crashes, adjusts>>

Times == 0 .. MaxNow

\* get_klines, get_ticker_price and get_account_info give a weight,
\* get_rate_limits is the check itself, place_order gives no weight.
Data == [kind : {"data"}, weight : Weights]
Ping == [kind |-> "ping", weight |-> 1]
Order == [kind |-> "order", weight |-> Nil]
Requests == Data \union {Ping, Order}

\* get_current_interval_start and get_current_day_start
IntervalStart(k, t) == (t \div Length[k]) * Length[k]

\* Mutations: the window never moves on; it starts again at every call; it goes
\* back with the clock.
CurrentStuck(k) == window[k]
CurrentNotEarlier(k) ==
  IF IntervalStart(k, now) >= window[k].start
    THEN [start |-> IntervalStart(k, now), count |-> 0]
    ELSE window[k]
CurrentWithClock(k) ==
  IF IntervalStart(k, now) # window[k].start
    THEN [start |-> IntervalStart(k, now), count |-> 0]
    ELSE window[k]
\* The window a call finds: a new one only if it starts later.
Current(k) ==
  IF IntervalStart(k, now) > window[k].start
    THEN [start |-> IntervalStart(k, now), count |-> 0]
    ELSE window[k]

Charged(k, n) == [Current(k) EXCEPT !.count = @ + n]
\* Mutations: the wait ends with the last moment of the window; the operands are
\* swapped.
RemainingShort(k) == Current(k).start + Length[k] - 1 - now
RemainingSwapped(k) == now - (Current(k).start + Length[k])
Remaining(k) == Current(k).start + Length[k] - now

Fresh(t) == [k \in Windows |-> [start |-> IntervalStart(k, t), count |-> 0]]
Nothing == [k \in Windows |-> [t \in Times |-> 0]]

Init ==
  /\ now = StartTime
  /\ window = Fresh(now)
  /\ pc = [c \in Callers |-> "idle"]
  /\ req = [c \in Callers |-> Nil]
  /\ wait = [c \in Callers |-> 0]
  /\ until = [c \in Callers |-> 0]
  /\ granted = Nothing
  /\ spent = [t \in Times |-> 0]
  /\ surplus = [t \in Times |-> 0]
  /\ crashes = 0
  /\ adjusts = 0

-----------------------------------------------------------------------------
(* The callers.                                                            *)

Ask(c) ==
  /\ pc[c] = "idle"
  /\ \E r \in Requests : req' = [req EXCEPT ![c] = r]
  /\ pc' = [pc EXCEPT ![c] = "asking"]
  /\ UNCHANGED <<now, serverVars, wait, until, surplus, crashes, adjusts>>

Minute(t) == IntervalStart("minute", t)
Counted(c, n) ==
  surplus' = IF req[c].kind = "data" THEN [surplus EXCEPT ![Minute(now)] = @ + n] ELSE surplus

\* Mutation: one check serves all the pages that are fetched.
SendPage(c) ==
  /\ pc[c] = "cleared"
  /\ Counted(c, 1)
  /\ UNCHANGED <<now, serverVars, pc, req, wait, until, crashes, adjusts>>
\* Req.get!, whose answer changes nothing here, nor how often Req itself tries.
Send(c) ==
  /\ pc[c] = "cleared"
  /\ Counted(c, 1)
  /\ pc' = [pc EXCEPT ![c] = "idle"]
  /\ req' = [req EXCEPT ![c] = Nil]
  /\ UNCHANGED <<now, serverVars, wait, until, crashes, adjusts>>

\* A caller that is refused is told how long to wait, writes its log line and
\* sleeps: the clock may move before it does.
Sleep(c) ==
  /\ pc[c] = "refused"
  /\ pc' = [pc EXCEPT ![c] = "sleeping"]
  /\ UNCHANGED <<now, serverVars, req, wait, until, surplus, crashes, adjusts>>

\* It asks again when its sleep is over, or some time later.
Wake(c) ==
  /\ pc[c] = "sleeping" /\ wait[c] = 0
  /\ pc' = [pc EXCEPT ![c] = "asking"]
  /\ UNCHANGED <<now, serverVars, req, wait, until, surplus, crashes, adjusts>>

-----------------------------------------------------------------------------
(* The server.                                                             *)

Fits(k, n) == Current(k).count + n <= Limit[k]

Grant(ks, n) ==
  /\ window' = [k \in Windows |-> IF k \in ks THEN Charged(k, n) ELSE window[k]]
  /\ granted' = [k \in Windows |->
                   IF k \in ks
                     THEN [granted[k] EXCEPT ![Current(k).start] = @ + n]
                     ELSE granted[k]]

\* A refusal, too, keeps the windows it has moved on.
Refuse(ks) ==
  /\ window' = [k \in Windows |-> IF k \in ks THEN Current(k) ELSE window[k]]
  /\ UNCHANGED granted

\* {:check_weight_limit, weight}: a weight of zero or less is granted as it is.
\* A caller that is refused is told how long to wait; a check of the limits is
\* sent in any case.
CheckWeight(c) ==
  /\ pc[c] = "asking" /\ req[c].kind # "order"
  /\ LET n == req[c].weight IN
     \/ /\ n <= 0 \/ Fits("minute", n)
        /\ IF n <= 0 THEN UNCHANGED <<window, granted>> ELSE Grant({"minute"}, n)
        /\ spent' = [spent EXCEPT ![Minute(now)] = @ + n]
        /\ Counted(c, -1)
        /\ pc' = [pc EXCEPT ![c] = "cleared"]
        /\ until' = [until EXCEPT ![c] = 0]
        /\ UNCHANGED wait
     \/ /\ n > 0 /\ ~Fits("minute", n)
        /\ Refuse({"minute"})
        /\ UNCHANGED <<spent, surplus>>
        /\ \/ /\ req[c].kind = "ping"
              /\ pc' = [pc EXCEPT ![c] = "cleared"]
              /\ UNCHANGED <<wait, until>>
           \/ /\ req[c].kind # "ping"
              /\ pc' = [pc EXCEPT ![c] = "refused"]
              /\ wait' = [wait EXCEPT ![c] = Remaining("minute")]
              /\ until' = [until EXCEPT ![c] = Current("minute").start + Length["minute"]]
  /\ UNCHANGED <<now, req, crashes, adjusts>>

\* place_order passes no weight: nil compares greater than every number, the
\* addition raises, and the server dies with its counters.  Its supervisor
\* starts it again; the caller exits, and so do those whose calls it had queued.
CheckWeightNil(c) ==
  /\ pc[c] = "asking" /\ req[c].kind = "order"
  /\ crashes < MaxCrashes
  /\ crashes' = crashes + 1
  /\ window' = Fresh(now)
  /\ granted' = Nothing
  /\ \E queued \in SUBSET {d \in Callers : pc[d] = "asking"} :
       /\ pc' = [d \in Callers |-> IF d \in queued \union {c} THEN "idle" ELSE pc[d]]
       /\ req' = [d \in Callers |-> IF d \in queued \union {c} THEN Nil ELSE req[d]]
       /\ until' = [d \in Callers |-> IF d \in queued \union {c} THEN 0 ELSE until[d]]
  /\ UNCHANGED <<now, wait, spent, surplus, adjusts>>

\* :check_order_limit counts in two windows or in none.
CheckOrder ==
  /\ IF Fits("second", 1) /\ Fits("day", 1)
       THEN Grant({"second", "day"}, 1)
       ELSE Refuse({"second", "day"})
  /\ UNCHANGED <<now, callerVars, spent, crashes, adjusts>>

CheckRaw ==
  /\ IF Fits("fiveMin", 1) THEN Grant({"fiveMin"}, 1) ELSE Refuse({"fiveMin"})
  /\ UNCHANGED <<now, callerVars, spent, crashes, adjusts>>

\* The three casts count without a check, whenever the server comes to them.
Record(ks, n) ==
  /\ \A k \in ks : Current(k).count + n <= Limit[k] + Overrun
  /\ window' = [k \in Windows |-> IF k \in ks THEN Charged(k, n) ELSE window[k]]
  /\ UNCHANGED <<now, callerVars, granted, spent, crashes, adjusts>>

RecordWeight == \E n \in Weights : n > 0 /\ Record({"minute"}, n)
RecordOrder == Record({"second", "day"}, 1)
RecordRaw == Record({"fiveMin"}, 1)

-----------------------------------------------------------------------------
(* The clocks: sleep is measured by one that is never set back, and only   *)
(* of a caller that has begun to.                                          *)

Tick ==
  /\ now < MaxNow
  /\ now' = now + 1
  /\ wait' = [c \in Callers |->
                IF pc[c] = "sleeping" /\ wait[c] > 0 THEN wait[c] - 1 ELSE wait[c]]
  /\ UNCHANGED <<serverVars, pc, req, until, surplus, crashes, adjusts>>

SetBack ==
  /\ adjusts < MaxAdjusts
  /\ adjusts' = adjusts + 1
  /\ now' \in 0 .. (now - 1)
  /\ until' = [c \in Callers |-> 0]
  /\ UNCHANGED <<serverVars, pc, req, wait, surplus, crashes>>

Next ==
  \/ \E c \in Callers :
       Ask(c) \/ Send(c) \/ Sleep(c) \/ Wake(c) \/ CheckWeight(c) \/ CheckWeightNil(c)
  \/ CheckOrder
  \/ CheckRaw
  \/ RecordWeight
  \/ RecordOrder
  \/ RecordRaw
  \/ Tick
  \/ SetBack

Spec == Init /\ [][Next]_vars

-----------------------------------------------------------------------------
(* Properties.                                                             *)

\* Every variable stays within the values the code can give it.
TypeOK ==
  /\ now \in Times
  /\ window \in [Windows -> [start : Times, count : Nat]]
  /\ pc \in [Callers -> {"idle", "asking", "refused", "sleeping", "cleared"}]
  /\ req \in [Callers -> Requests \union {Nil}]
  /\ wait \in [Callers -> Nat]
  /\ until \in [Callers -> Nat]
  /\ granted \in [Windows -> [Times -> Nat]]
  /\ spent \in [Times -> Nat]
  /\ surplus \in [Times -> Int]
  /\ crashes \in Nat /\ adjusts \in Nat

\* One server process never grants more than the limit in any window, whatever
\* the mix of checks and casts, the caller that checked in a window and sent in
\* the next, and the clock that was set back into a window already counted.
WindowBudget ==
  \A k \in Windows, t \in Times : granted[k][t] <= Limit[k]

\* The server refines the abstract limiter: its windows only move on, and what
\* is granted in them is forgotten only when the server dies.
Quotas == INSTANCE FixedWindows WITH
            Counters <- Windows,
            start <- [k \in Windows |-> window[k].start],
            used <- [k \in Windows |-> granted[k][window[k].start]],
            restarts <- crashes
ImplementsQuotas == Quotas!Spec

\* What refuses a call is a window that ends: the wait it answers is positive
\* (Process.sleep would raise otherwise) and, as long as the clock is not set
\* back, no longer than the window.
WaitInWindow ==
  \A k \in Windows :
    /\ Remaining(k) > 0
    /\ adjusts = 0 => Remaining(k) <= Length[k]

\* A caller that was refused does not ask again before the window that refused it
\* is over, however long the answer, its log line and its sleep take, and even if
\* the server dies meanwhile: unless the clock is set back after the refusal, one
\* window never refuses it twice.
SleepsPastTheWindow ==
  \A c \in Callers :
    /\ pc[c] \in {"refused", "sleeping"} => now + wait[c] >= until[c]
    /\ pc[c] = "asking" => now >= until[c]

\* What a fault costs: a crash of the server, and a clock that is set back, each
\* let at most one more limit be granted in a minute of the clock.
MinuteBudgetPerFault ==
  \A t \in Times : spent[t] <= Limit["minute"] * (crashes + adjusts + 1)

\* A request is checked in one minute and may be sent in a later one, which does
\* not count it: a minute carries at most one such request for each caller, and
\* as many again each time the clock is set back.
LateSendsBounded ==
  \A t \in Times : surplus[t] <= Cardinality(Callers) * (adjusts + 1)

\* "Weight-based limits that reset every minute": the limit holds for a minute
\* of the clock, whatever happens to the server in it.
MinuteBudget == \A t \in Times : spent[t] <= Limit["minute"]
=============================================================================
