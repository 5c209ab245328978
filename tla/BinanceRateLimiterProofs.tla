---------------------- MODULE BinanceRateLimiterProofs ----------------------
(***************************************************************************)
(* Proofs about BinanceRateLimiter, for every number of callers, every set *)
(* of weights, lengths and limits, and any crashes and clock changes.      *)
(***************************************************************************)
EXTENDS BinanceRateLimiter, FiniteSetTheorems, TLAPS

\* A window starts at or before the time it holds, and ends after it.
LEMMA IntervalStartBounds ==
  ASSUME NEW k \in Windows, NEW t \in Nat
  PROVE  /\ IntervalStart(k, t) \in Nat
         /\ IntervalStart(k, t) <= t
         /\ t < IntervalStart(k, t) + Length[k]
<1>1. Length[k] \in Nat \ {0}
  BY LimiterConstants
<1>2. PICK n \in Nat \ {0} : n = Length[k]
  BY <1>1
<1>3. /\ (t \div n) \in Nat
      /\ (t \div n) * n + (t % n) = t
      /\ t % n \in 0 .. (n - 1)
  BY SMT
<1>4. PICK m \in Int : m = (t \div n) * n
  BY <1>3
<1>5. IntervalStart(k, t) = m
  BY <1>2, <1>4 DEF IntervalStart
<1>6. m + (t % n) = t
  BY <1>3, <1>4
<1>7. m \in Nat
  <2>1. \A x, y \in Nat : x * y \in Nat
    OBVIOUS
  <2>2. (t \div n) * n \in Nat
    BY <1>2, <1>3, <2>1
  <2>3. QED
    BY <1>4, <2>2
<1>8. m <= t /\ t < m + n
  <2>1. PICK r \in 0 .. (n - 1) : m + r = t
    BY <1>3, <1>6
  <2>2. QED
    BY <1>7, <2>1
<1>9. QED
  BY <1>2, <1>5, <1>7, <1>8

LEMMA MinuteType ==
  ASSUME NEW t \in Times
  PROVE  Minute(t) \in Times /\ Minute(t) \in Int
<1>1. t \in Nat /\ t <= MaxNow /\ MaxNow \in Nat /\ "minute" \in Windows
  BY LimiterConstants DEF Times, Windows
<1>2. Minute(t) \in Nat /\ Minute(t) <= t
  BY <1>1, IntervalStartBounds DEF Minute
<1>3. QED
  BY <1>1, <1>2 DEF Times

\* What a server has granted in its current window is counted there, and it has
\* granted nothing in a later one.
GrantsCounted ==
  \A k \in Windows :
    /\ granted[k][window[k].start] <= window[k].count
    /\ \A t \in Times : t > window[k].start => granted[k][t] = 0

\* While the clock is not set back no window is ahead of it.
WindowsPast == adjusts = 0 => \A k \in Windows : window[k].start <= now

\* A caller that is on its way with a request has one.
CallersHaveRequests == \A c \in Callers : pc[c] # "idle" => req[c] \in Requests

LInv ==
  /\ TypeOK
  /\ CallersHaveRequests
  /\ GrantsCounted
  /\ WindowsPast
  /\ WindowBudget

-----------------------------------------------------------------------------
\* A fresh set of windows has nothing counted and is not ahead of the clock.
LEMMA FreshWindows ==
  ASSUME NEW t \in Times
  PROVE  /\ Fresh(t) \in [Windows -> [start : Times, count : Nat]]
         /\ \A k \in Windows : Fresh(t)[k].start <= t /\ Fresh(t)[k].count = 0
<1>1. \A k \in Windows : IntervalStart(k, t) \in Times /\ IntervalStart(k, t) <= t
  BY IntervalStartBounds, LimiterConstants DEF Times
<1>2. QED
  BY <1>1 DEF Fresh

\* The window a call finds holds no less than what has been granted in it, is
\* not over, and takes the place of an earlier one or is the same.
LEMMA CurrentWindow ==
  ASSUME TypeOK, NEW k \in Windows
  PROVE  /\ Current(k) \in [start : Times, count : Nat]
         /\ Current(k).start >= window[k].start
         /\ Remaining(k) \in Nat \ {0}
         /\ window[k].start <= now => Current(k).start <= now
         /\ GrantsCounted =>
              /\ granted[k][Current(k).start] <= Current(k).count
              /\ \A t \in Times : t > Current(k).start => granted[k][t] = 0
<1>1. /\ now \in Nat /\ now <= MaxNow /\ Length[k] \in Nat \ {0}
      /\ window[k] \in [start : Times, count : Nat]
      /\ granted[k] \in [Times -> Nat]
  BY LimiterConstants DEF TypeOK, Times
<1>2. /\ IntervalStart(k, now) \in Times
      /\ IntervalStart(k, now) <= now
      /\ now < IntervalStart(k, now) + Length[k]
  <2>1. /\ IntervalStart(k, now) \in Nat
        /\ IntervalStart(k, now) <= now
        /\ now < IntervalStart(k, now) + Length[k]
    BY <1>1, IntervalStartBounds
  <2>2. QED
    BY <1>1, <2>1, LimiterConstants DEF Times
<1>3. CASE IntervalStart(k, now) > window[k].start
  <2>1. Current(k) = [start |-> IntervalStart(k, now), count |-> 0]
    BY <1>3 DEF Current
  <2>2. QED
    BY <1>1, <1>2, <1>3, <2>1 DEF Remaining, GrantsCounted, Times
<1>4. CASE ~(IntervalStart(k, now) > window[k].start)
  <2>1. Current(k) = window[k]
    BY <1>4 DEF Current
  <2>2. Remaining(k) \in Nat \ {0}
    BY <1>1, <1>2, <1>4, <2>1 DEF Remaining, Times
  <2>3. QED
    BY <1>1, <2>1, <2>2 DEF GrantsCounted, Times
<1>5. QED
  BY <1>3, <1>4

\* What it means to count n more at one point of a table of counts.
LEMMA AddAt ==
  ASSUME NEW S, NEW f \in [S -> Nat], NEW s \in S, NEW n \in Nat
  PROVE  /\ [f EXCEPT ![s] = @ + n] \in [S -> Nat]
         /\ [f EXCEPT ![s] = @ + n][s] = f[s] + n
         /\ \A t \in S : t # s => [f EXCEPT ![s] = @ + n][t] = f[t]
  OBVIOUS

\* The part of the invariant a handler of the server can disturb.
ServerInv ==
  /\ window \in [Windows -> [start : Times, count : Nat]]
  /\ granted \in [Windows -> [Times -> Nat]]
  /\ GrantsCounted /\ WindowsPast /\ WindowBudget

\* A grant that fits keeps the budget of each window it counts in.
LEMMA GrantKeeps ==
  ASSUME LInv, NEW ks \in SUBSET Windows, NEW n \in Nat,
         \A k \in ks : Fits(k, n), Grant(ks, n), UNCHANGED <<now, adjusts>>
  PROVE  ServerInv'
<1> USE DEF LInv
<1>1. /\ window \in [Windows -> [start : Times, count : Nat]]
      /\ granted \in [Windows -> [Times -> Nat]] /\ Limit \in [Windows -> Nat]
      /\ Times \subseteq Int /\ now \in Int
  BY LimiterConstants DEF TypeOK, Times
<1>2. ASSUME NEW k \in ks
      PROVE  /\ window'[k] \in [start : Times, count : Nat]
             /\ granted'[k] \in [Times -> Nat]
             /\ granted'[k][window'[k].start] <= window'[k].count
             /\ \A t \in Times : t > window'[k].start => granted'[k][t] = 0
             /\ window[k].start <= now => window'[k].start <= now
             /\ \A t \in Times : granted'[k][t] <= Limit[k]
  <2>1. /\ Current(k) \in [start : Times, count : Nat]
        /\ window[k].start <= now => Current(k).start <= now
        /\ granted[k][Current(k).start] <= Current(k).count
        /\ \A t \in Times : t > Current(k).start => granted[k][t] = 0
    BY CurrentWindow
  <2>2. Current(k).count + n <= Limit[k]
    BY DEF Fits
  <2>3. window'[k] = [start |-> Current(k).start, count |-> Current(k).count + n]
    BY <2>1 DEF Grant, Charged
  <2>4. granted'[k] = [granted[k] EXCEPT ![Current(k).start] = @ + n]
    BY DEF Grant
  <2>5. \A t \in Times : granted[k][t] <= Limit[k]
    BY DEF WindowBudget
  <2>6. Current(k).start \in Times /\ granted[k] \in [Times -> Nat]
    BY <1>1, <2>1
  <2>7. /\ granted'[k] \in [Times -> Nat]
        /\ granted'[k][Current(k).start] = granted[k][Current(k).start] + n
        /\ \A t \in Times : t # Current(k).start => granted'[k][t] = granted[k][t]
    BY <2>4, <2>6, AddAt
  <2>8. window'[k].start = Current(k).start /\ window'[k].count = Current(k).count + n
    BY <2>3
  <2>9. window'[k] \in [start : Times, count : Nat]
    BY <2>1, <2>3
  <2>10. granted'[k][window'[k].start] <= window'[k].count
    BY <2>1, <2>6, <2>7, <2>8
  <2>11. \A t \in Times : t > window'[k].start => granted'[k][t] = 0
    BY <1>1, <2>1, <2>6, <2>7, <2>8
  <2>12. \A t \in Times : granted'[k][t] <= Limit[k]
    <3>1. /\ granted[k][Current(k).start] \in Nat /\ Current(k).count \in Nat
          /\ Limit[k] \in Nat
      BY <1>1, <2>1, <2>6
    <3>2. granted[k][Current(k).start] + n <= Limit[k]
      BY <2>1, <2>2, <3>1
    <3>3. QED
      BY <2>5, <2>7, <3>2
  <2>13. QED
    BY <2>1, <2>7, <2>8, <2>9, <2>10, <2>11, <2>12
<1>3. ASSUME NEW k \in Windows \ ks
      PROVE  window'[k] = window[k] /\ granted'[k] = granted[k]
  BY DEF Grant
<1>4. /\ window' \in [Windows -> [start : Times, count : Nat]]
      /\ granted' \in [Windows -> [Times -> Nat]]
  <2>1. \A k \in Windows : Current(k) \in [start : Times, count : Nat]
    BY CurrentWindow
  <2>2. \A k \in Windows : Charged(k, n) \in [start : Times, count : Nat]
    BY <2>1 DEF Charged
  <2>3. \A k \in Windows : [granted[k] EXCEPT ![Current(k).start] = @ + n] \in [Times -> Nat]
    <3>1. ASSUME NEW k \in Windows
          PROVE  [granted[k] EXCEPT ![Current(k).start] = @ + n] \in [Times -> Nat]
      <4>1. granted[k] \in [Times -> Nat] /\ Current(k).start \in Times
        BY <1>1, <2>1
      <4>2. QED
        BY <4>1, AddAt
    <3>2. QED
      BY <3>1
  <2>4. QED
    BY <1>1, <2>2, <2>3 DEF Grant
<1>5. GrantsCounted'
  BY <1>2, <1>3 DEF GrantsCounted
<1>6. WindowsPast'
  BY <1>2, <1>3 DEF WindowsPast
<1>7. WindowBudget'
  BY <1>2, <1>3 DEF WindowBudget
<1>8. QED
  BY <1>4, <1>5, <1>6, <1>7 DEF ServerInv

\* So does an answer that grants nothing: the windows move on, or casts are
\* counted in them, while what has been granted stays as it is.
LEMMA CountKeeps ==
  ASSUME LInv, NEW ks \in SUBSET Windows, NEW n \in Nat,
         window' = [k \in Windows |-> IF k \in ks THEN Charged(k, n) ELSE window[k]],
         UNCHANGED <<now, granted, adjusts>>
  PROVE  ServerInv'
<1> USE DEF LInv
<1>1. /\ window \in [Windows -> [start : Times, count : Nat]]
      /\ granted \in [Windows -> [Times -> Nat]] /\ Times \subseteq Int
  BY LimiterConstants DEF TypeOK, Times
<1>2. ASSUME NEW k \in Windows
      PROVE  /\ Charged(k, n) \in [start : Times, count : Nat]
             /\ Charged(k, n).start = Current(k).start
             /\ Charged(k, n).count = Current(k).count + n
             /\ window[k].start <= now => Current(k).start <= now
             /\ granted[k][Current(k).start] <= Current(k).count
             /\ \A t \in Times : t > Current(k).start => granted[k][t] = 0
  BY CurrentWindow DEF Charged
<1>3. window' \in [Windows -> [start : Times, count : Nat]]
  BY <1>1, <1>2
<1>4. ASSUME NEW k \in Windows
      PROVE  /\ granted'[k][window'[k].start] <= window'[k].count
             /\ \A t \in Times : t > window'[k].start => granted'[k][t] = 0
             /\ window[k].start <= now => window'[k].start <= now'
  <2>1. granted[k] \in [Times -> Nat] /\ Current(k).start \in Times /\ Current(k).count \in Nat
    BY <1>1, CurrentWindow
  <2>2. CASE k \in ks
    <3>1. window'[k] = Charged(k, n)
      BY <2>2
    <3>2. /\ window'[k].start = Current(k).start
          /\ window'[k].count = Current(k).count + n
      BY <1>2, <3>1
    <3>3. granted[k][Current(k).start] \in Nat
      BY <2>1
    <3>4. QED
      BY <1>2, <2>1, <3>2, <3>3
  <2>3. CASE k \notin ks
    <3>1. window'[k] = window[k]
      BY <2>3
    <3>2. QED
      BY <3>1 DEF GrantsCounted
  <2>4. QED
    BY <2>2, <2>3
<1>5. GrantsCounted' /\ WindowsPast' /\ WindowBudget'
  BY <1>4 DEF GrantsCounted, WindowsPast, WindowBudget
<1>6. QED
  BY <1>1, <1>3, <1>5 DEF ServerInv

LEMMA RefuseKeeps ==
  ASSUME LInv, NEW ks \in SUBSET Windows, Refuse(ks), UNCHANGED <<now, adjusts>>
  PROVE  ServerInv'
<1>1. \A k \in Windows : Charged(k, 0) = Current(k)
  BY CurrentWindow DEF Charged, LInv
<1>2. window' = [k \in Windows |-> IF k \in ks THEN Charged(k, 0) ELSE window[k]]
  BY <1>1 DEF Refuse
<1>3. QED
  BY <1>2, CountKeeps DEF Refuse

-----------------------------------------------------------------------------
\* The invariant holds when the server first starts.
LEMMA InitLInv == Init => LInv
<1> SUFFICES ASSUME Init PROVE LInv
  OBVIOUS
<1>1. now \in Times
  BY LimiterConstants DEF Init, Times
<1>2. /\ window \in [Windows -> [start : Times, count : Nat]]
      /\ \A k \in Windows : window[k].start <= now /\ window[k].count = 0
  BY <1>1, FreshWindows DEF Init
<1>3. /\ granted \in [Windows -> [Times -> Nat]]
      /\ \A k \in Windows, t \in Times : granted[k][t] = 0
  BY DEF Init, Nothing
<1>4. TypeOK /\ CallersHaveRequests
  BY <1>1, <1>2, <1>3 DEF Init, TypeOK, CallersHaveRequests
<1>5. GrantsCounted
  BY <1>2, <1>3 DEF GrantsCounted
<1>6. WindowsPast /\ WindowBudget
  BY <1>2, <1>3, LimiterConstants DEF WindowsPast, WindowBudget
<1>7. QED
  BY <1>4, <1>5, <1>6 DEF LInv

\* What the callers and the clocks keep of their types.
CallerType ==
  /\ now \in Times
  /\ pc \in [Callers -> {"idle", "asking", "refused", "sleeping", "cleared"}]
  /\ req \in [Callers -> Requests \union {Nil}]
  /\ wait \in [Callers -> Nat]
  /\ until \in [Callers -> Nat]
  /\ spent \in [Times -> Nat]
  /\ surplus \in [Times -> Int]
  /\ crashes \in Nat /\ adjusts \in Nat
  /\ CallersHaveRequests

LEMMA InvParts == LInv' <=> (CallerType' /\ ServerInv')
  BY DEF LInv, TypeOK, CallerType, CallersHaveRequests, ServerInv

LEMMA SurplusType ==
  ASSUME TypeOK, NEW c \in Callers, NEW n \in Int, Counted(c, n)
  PROVE  surplus' \in [Times -> Int]
<1>1. ASSUME NEW S, NEW f \in [S -> Int], NEW s \in S
      PROVE  [f EXCEPT ![s] = @ + n] \in [S -> Int]
  OBVIOUS
<1>2. surplus \in [Times -> Int] /\ Minute(now) \in Times
  BY MinuteType DEF TypeOK
<1>3. [surplus EXCEPT ![Minute(now)] = @ + n] \in [Times -> Int]
  BY <1>1, <1>2
<1>4. QED
  BY <1>2, <1>3 DEF Counted

\* A caller that asks, sends, sleeps or wakes up leaves the server alone.
LEMMA CallerStep ==
  ASSUME LInv, NEW c \in Callers, Ask(c) \/ Send(c) \/ Sleep(c) \/ Wake(c)
  PROVE  LInv'
<1>1. CallerType'
  <2>1. surplus' \in [Times -> Int]
    <3>1. TypeOK /\ surplus \in [Times -> Int]
      BY DEF LInv, TypeOK
    <3>2. CASE Send(c)
      BY <3>1, <3>2, SurplusType DEF Send
    <3>3. CASE Ask(c) \/ Sleep(c) \/ Wake(c)
      BY <3>1, <3>3 DEF Ask, Sleep, Wake
    <3>4. QED
      BY <3>2, <3>3
  <2>2. QED
    BY <2>1 DEF Ask, Send, Sleep, Wake, CallerType, CallersHaveRequests, LInv, TypeOK, serverVars
<1>2. UNCHANGED <<now, window, granted, adjusts>>
  BY DEF Ask, Send, Sleep, Wake, serverVars
<1>3. ServerInv'
  BY <1>2 DEF ServerInv, LInv, TypeOK, GrantsCounted, WindowsPast, WindowBudget
<1>4. QED
  BY <1>1, <1>3, InvParts

\* Every request but an order has a weight.
LEMMA WeightType ==
  ASSUME LInv, NEW c \in Callers, pc[c] = "asking", req[c].kind # "order"
  PROVE  req[c].weight \in Nat
<1>1. req[c] \in Requests
  BY DEF LInv, CallersHaveRequests
<1>2. CASE req[c] \in Data
  BY <1>2, LimiterConstants DEF Data
<1>3. CASE req[c] = Ping
  BY <1>3 DEF Ping
<1>4. CASE req[c] = Order
  BY <1>4 DEF Order
<1>5. QED
  BY <1>1, <1>2, <1>3, <1>4 DEF Requests

\* A check of the weight.
LEMMA CheckWeightStep ==
  ASSUME LInv, NEW c \in Callers, CheckWeight(c)
  PROVE  LInv'
<1> DEFINE n == req[c].weight
<1>1. /\ UNCHANGED <<now, req, crashes, adjusts>> /\ req[c].kind # "order"
      /\ pc[c] = "asking" /\ TypeOK
  BY DEF CheckWeight, LInv
<1>2. \/ /\ n <= 0 \/ Fits("minute", n)
         /\ IF n <= 0 THEN UNCHANGED <<window, granted>> ELSE Grant({"minute"}, n)
         /\ spent' = [spent EXCEPT ![Minute(now)] = @ + n]
         /\ Counted(c, -1)
         /\ pc' = [pc EXCEPT ![c] = "cleared"]
         /\ until' = [until EXCEPT ![c] = 0]
         /\ UNCHANGED wait
      \/ /\ Refuse({"minute"}) /\ UNCHANGED <<spent, surplus>>
         /\ \/ pc' = [pc EXCEPT ![c] = "cleared"] /\ UNCHANGED <<wait, until>>
            \/ /\ pc' = [pc EXCEPT ![c] = "refused"]
               /\ wait' = [wait EXCEPT ![c] = Remaining("minute")]
               /\ until' = [until EXCEPT ![c] = Current("minute").start + Length["minute"]]
  BY DEF CheckWeight
<1>3. "minute" \in Windows /\ {"minute"} \in SUBSET Windows
  BY DEF Windows
<1>4. /\ Minute(now) \in Times /\ Remaining("minute") \in Nat
      /\ Current("minute").start + Length["minute"] \in Nat
  <2>1. /\ Minute(now) \in Nat /\ Minute(now) <= now
    <3>1. now \in Nat
      BY <1>1, LimiterConstants DEF TypeOK, Times
    <3>2. QED
      BY <1>3, <3>1, IntervalStartBounds DEF Minute
  <2>2. now \in Int /\ now <= MaxNow /\ MaxNow \in Int
    BY <1>1, LimiterConstants DEF TypeOK, Times
  <2>3. Remaining("minute") \in Nat /\ Current("minute").start + Length["minute"] \in Nat
    BY <1>1, <1>3, CurrentWindow, LimiterConstants DEF Times
  <2>4. QED
    BY <2>1, <2>2, <2>3 DEF Times
<1>5. CASE /\ n \in Nat
           /\ n <= 0 \/ Fits("minute", n)
           /\ IF n <= 0 THEN UNCHANGED <<window, granted>> ELSE Grant({"minute"}, n)
           /\ spent' = [spent EXCEPT ![Minute(now)] = @ + n]
           /\ Counted(c, -1)
           /\ pc' = [pc EXCEPT ![c] = "cleared"]
           /\ until' = [until EXCEPT ![c] = 0]
           /\ UNCHANGED wait
  <2>1. spent' \in [Times -> Nat] /\ surplus' \in [Times -> Int]
    <3>1. spent' \in [Times -> Nat]
      BY <1>1, <1>4, <1>5, AddAt DEF TypeOK
    <3>2. QED
      BY <1>1, <1>5, <3>1, SurplusType
  <2>2. CallerType'
    BY <1>1, <1>5, <2>1 DEF CallerType, TypeOK, CallersHaveRequests, LInv
  <2>3. ServerInv'
    <3>1. CASE n <= 0
      BY <1>1, <1>5, <3>1 DEF ServerInv, LInv, TypeOK, GrantsCounted, WindowsPast,
                              WindowBudget
    <3>2. CASE ~(n <= 0)
      <4>1. \A k \in {"minute"} : Fits(k, n)
        BY <1>5, <3>2
      <4>2. Grant({"minute"}, n)
        BY <1>5, <3>2
      <4>3. QED
        BY <1>1, <1>3, <1>5, <4>1, <4>2, GrantKeeps
    <3>3. QED
      BY <3>1, <3>2
  <2>4. QED
    BY <2>2, <2>3, InvParts
<1>6. CASE /\ Refuse({"minute"}) /\ UNCHANGED <<spent, surplus>>
           /\ \/ pc' = [pc EXCEPT ![c] = "cleared"] /\ UNCHANGED <<wait, until>>
              \/ /\ pc' = [pc EXCEPT ![c] = "refused"]
                 /\ wait' = [wait EXCEPT ![c] = Remaining("minute")]
                 /\ until' = [until EXCEPT ![c] = Current("minute").start + Length["minute"]]
  <2> DEFINE end == Current("minute").start + Length["minute"]
             left == Remaining("minute")
  <2> HIDE DEF end, left
  <2>1. CallerType'
    <3>1. /\ end \in Nat /\ left \in Nat
          /\ UNCHANGED <<spent, surplus>>
          /\ \/ pc' = [pc EXCEPT ![c] = "cleared"] /\ UNCHANGED <<wait, until>>
             \/ /\ pc' = [pc EXCEPT ![c] = "refused"]
                /\ wait' = [wait EXCEPT ![c] = left]
                /\ until' = [until EXCEPT ![c] = end]
      BY <1>4, <1>6 DEF end, left
    <3>2. pc' \in [Callers -> {"idle", "asking", "refused", "sleeping", "cleared"}]
      BY <1>1, <3>1 DEF TypeOK
    <3>3. wait' \in [Callers -> Nat] /\ until' \in [Callers -> Nat]
      <4>1. wait \in [Callers -> Nat] /\ until \in [Callers -> Nat]
        BY <1>1 DEF TypeOK
      <4>2. wait' = wait \/ wait' = [wait EXCEPT ![c] = left]
        BY <3>1
      <4>3. until' = until \/ until' = [until EXCEPT ![c] = end]
        BY <3>1
      <4>4. \A f \in [Callers -> Nat], v \in Nat : [f EXCEPT ![c] = v] \in [Callers -> Nat]
        OBVIOUS
      <4>5. QED
        BY <3>1, <4>1, <4>2, <4>3, <4>4
    <3>4. CallersHaveRequests'
      <4>1. \A d \in Callers : pc'[d] # "idle" => pc[d] # "idle"
        BY <1>1, <3>1 DEF TypeOK
      <4>2. QED
        BY <1>1, <4>1 DEF CallersHaveRequests, LInv
    <3>5. QED
      BY <1>1, <3>1, <3>2, <3>3, <3>4 DEF CallerType, TypeOK
  <2>2. ServerInv'
    BY <1>1, <1>3, <1>6, RefuseKeeps
  <2>3. QED
    BY <2>1, <2>2, InvParts
<1>7. n \in Nat
  BY <1>1, WeightType
<1>8. QED
  BY <1>2, <1>5, <1>6, <1>7

\* The crash of the server: the next one has granted nothing yet.
LEMMA CrashStep ==
  ASSUME LInv, NEW c \in Callers, CheckWeightNil(c)
  PROVE  LInv'
<1>1. now \in Times /\ UNCHANGED <<now, adjusts, wait, spent, surplus>>
  BY DEF LInv, TypeOK, CheckWeightNil
<1>2. /\ window' \in [Windows -> [start : Times, count : Nat]]
      /\ \A k \in Windows : window'[k].start <= now' /\ window'[k].count = 0
  BY <1>1, FreshWindows DEF CheckWeightNil
<1>3. /\ granted' \in [Windows -> [Times -> Nat]]
      /\ \A k \in Windows, t \in Times : granted'[k][t] = 0
  BY DEF CheckWeightNil, Nothing
<1>4. ServerInv'
  <2>1. GrantsCounted'
    BY <1>2, <1>3 DEF GrantsCounted
  <2>2. WindowsPast' /\ WindowBudget'
    BY <1>2, <1>3, LimiterConstants DEF WindowsPast, WindowBudget
  <2>3. QED
    BY <1>2, <1>3, <2>1, <2>2 DEF ServerInv
<1>5. CallerType'
  BY <1>1 DEF CheckWeightNil, CallerType, CallersHaveRequests, LInv, TypeOK
<1>6. QED
  BY <1>4, <1>5, InvParts

\* A step that leaves the callers and the clocks alone.
LEMMA CallersRest ==
  ASSUME LInv, UNCHANGED <<now, callerVars, spent, crashes, adjusts>>
  PROVE  CallerType'
  BY DEF LInv, TypeOK, CallerType, CallersHaveRequests, callerVars

\* The checks and the casts nobody waits for.
LEMMA CountStep ==
  ASSUME LInv,
         CheckOrder \/ CheckRaw \/ RecordWeight \/ RecordOrder \/ RecordRaw
  PROVE  LInv'
<1>1. UNCHANGED <<now, callerVars, spent, crashes, adjusts>>
  BY DEF CheckOrder, CheckRaw, RecordWeight, RecordOrder, RecordRaw, Record
<1>2. /\ {"second", "day"} \in SUBSET Windows /\ {"fiveMin"} \in SUBSET Windows
      /\ {"minute"} \in SUBSET Windows /\ 1 \in Nat /\ Weights \subseteq Nat
  BY LimiterConstants DEF Windows
<1>3. ServerInv'
  <2>1. CASE CheckOrder
    <3>1. CASE Fits("second", 1) /\ Fits("day", 1)
      <4>1. \A k \in {"second", "day"} : Fits(k, 1)
        BY <3>1
      <4>2. Grant({"second", "day"}, 1)
        BY <2>1, <3>1 DEF CheckOrder
      <4>3. QED
        BY <1>1, <1>2, <4>1, <4>2, GrantKeeps
    <3>2. CASE ~(Fits("second", 1) /\ Fits("day", 1))
      BY <1>1, <1>2, <2>1, <3>2, RefuseKeeps DEF CheckOrder
    <3>3. QED
      BY <3>1, <3>2
  <2>2. CASE CheckRaw
    <3>1. CASE Fits("fiveMin", 1)
      <4>1. \A k \in {"fiveMin"} : Fits(k, 1)
        BY <3>1
      <4>2. Grant({"fiveMin"}, 1)
        BY <2>2, <3>1 DEF CheckRaw
      <4>3. QED
        BY <1>1, <1>2, <4>1, <4>2, GrantKeeps
    <3>2. CASE ~Fits("fiveMin", 1)
      BY <1>1, <1>2, <2>2, <3>2, RefuseKeeps DEF CheckRaw
    <3>3. QED
      BY <3>1, <3>2
  <2>3. ASSUME NEW ks \in SUBSET Windows, NEW n \in Nat, Record(ks, n)
        PROVE  ServerInv'
    BY <1>1, <2>3, CountKeeps DEF Record
  <2>4. QED
    BY <1>2, <2>1, <2>2, <2>3 DEF RecordWeight, RecordOrder, RecordRaw
<1>4. QED
  BY <1>1, <1>3, CallersRest, InvParts

\* The clocks.
LEMMA ClockStep ==
  ASSUME LInv, Tick \/ SetBack
  PROVE  LInv'
<1>1. /\ UNCHANGED <<window, granted, spent, surplus, pc, req, crashes>>
      /\ now \in Int /\ now' \in Int /\ now >= 0 /\ now <= MaxNow
      /\ MaxNow \in Int /\ adjusts \in Nat
  BY LimiterConstants DEF Tick, SetBack, serverVars, LInv, TypeOK, Times
<1>2. /\ now' \in Times /\ adjusts' \in Nat
      /\ adjusts' = 0 => adjusts = 0 /\ now' >= now
  BY <1>1 DEF Tick, SetBack, Times
<1>3. wait' \in [Callers -> Nat] /\ until' \in [Callers -> Nat]
  BY DEF Tick, SetBack, LInv, TypeOK
<1>4. CallerType'
  BY <1>1, <1>2, <1>3 DEF CallerType, CallersHaveRequests, LInv, TypeOK
<1>5. WindowsPast'
  <2>1. \A k \in Windows : window[k].start \in Int
    BY LimiterConstants DEF LInv, TypeOK, Times
  <2>2. QED
    BY <1>1, <1>2, <2>1 DEF WindowsPast, LInv
<1>6. ServerInv'
  BY <1>1, <1>5 DEF ServerInv, GrantsCounted, WindowBudget, LInv, TypeOK
<1>7. QED
  BY <1>4, <1>6, InvParts

\* The invariant is inductive.
LEMMA NextLInv == LInv /\ [Next]_vars => LInv'
<1> SUFFICES ASSUME LInv, [Next]_vars PROVE LInv'
  OBVIOUS
<1>1. ASSUME NEW c \in Callers, Ask(c) \/ Send(c) \/ Sleep(c) \/ Wake(c) PROVE LInv'
  BY <1>1, CallerStep
<1>2. ASSUME NEW c \in Callers, CheckWeight(c) PROVE LInv'
  BY <1>2, CheckWeightStep
<1>3. ASSUME NEW c \in Callers, CheckWeightNil(c) PROVE LInv'
  BY <1>3, CrashStep
<1>4. CASE CheckOrder \/ CheckRaw \/ RecordWeight \/ RecordOrder \/ RecordRaw
  BY <1>4, CountStep
<1>5. CASE Tick \/ SetBack
  BY <1>5, ClockStep
<1>6. CASE UNCHANGED vars
  BY <1>6 DEF vars, LInv, TypeOK, CallersHaveRequests, GrantsCounted, WindowsPast,
              WindowBudget
<1>7. QED
  BY <1>1, <1>2, <1>3, <1>4, <1>5, <1>6 DEF Next

THEOREM LimiterInvariant == Spec => []LInv
  BY InitLInv, NextLInv, PTL DEF Spec

\* Every variable keeps its type: in particular no caller is ever told to sleep
\* for a negative time.
THEOREM LimiterTypes == Spec => []TypeOK
<1>1. LInv => TypeOK
  BY DEF LInv
<1>2. QED
  BY <1>1, LimiterInvariant, PTL

\* One server process never grants more than the limit in any window, for any
\* callers, casts and clock changes.
THEOREM BudgetKept == Spec => []WindowBudget
<1>1. LInv => WindowBudget
  BY DEF LInv
<1>2. QED
  BY <1>1, LimiterInvariant, PTL

\* A refusal always names a positive wait, within the window unless the clock
\* was set back.
THEOREM WaitsBounded == Spec => []WaitInWindow
<1>1. ASSUME LInv PROVE WaitInWindow
  <2>1. ASSUME NEW k \in Windows
        PROVE  Remaining(k) > 0 /\ (adjusts = 0 => Remaining(k) <= Length[k])
    <3>1. /\ TypeOK /\ now \in Int /\ Length[k] \in Int
          /\ adjusts = 0 => window[k].start <= now
      <4>1. TypeOK /\ (adjusts = 0 => window[k].start <= now)
        BY <1>1 DEF LInv, WindowsPast
      <4>2. now \in Int
        BY <4>1, LimiterConstants DEF TypeOK, Times
      <4>3. Length[k] \in Int
        BY LimiterConstants
      <4>4. QED
        BY <4>1, <4>2, <4>3
    <3>2. /\ Remaining(k) \in Nat \ {0} /\ Current(k).start \in Times
          /\ adjusts = 0 => Current(k).start <= now
      BY <3>1, CurrentWindow
    <3>3. Remaining(k) = Current(k).start + Length[k] - now /\ Current(k).start \in Int
      BY <3>2, LimiterConstants DEF Remaining, Times
    <3>4. QED
      BY <3>1, <3>2, <3>3
  <2>2. QED
    BY <2>1 DEF WaitInWindow
<1>2. QED
  BY <1>1, LimiterInvariant, PTL

-----------------------------------------------------------------------------
(* When a caller that was refused asks again.                              *)

\* A caller that is told to wait, or waits, will not be back before the window
\* that refused it is over; any other is past it.
Waits(c) ==
  /\ pc[c] \in {"refused", "sleeping"} => now + wait[c] >= until[c]
  /\ pc[c] \notin {"refused", "sleeping"} => now >= until[c]

\* A refused caller is told the time to the end of the window that refused it; a
\* tick takes from its sleep no more than it adds to the clock.
LEMMA WaitsStep ==
  ASSUME LInv, NEW c \in Callers, Waits(c), [Next]_vars
  PROVE  Waits(c)'
<1>1. /\ TypeOK /\ now \in Nat /\ wait[c] \in Nat /\ until[c] \in Nat
      /\ "minute" \in Windows /\ Length["minute"] \in Nat
  <2>1. TypeOK /\ "minute" \in Windows
    BY DEF LInv, Windows
  <2>2. now \in Nat /\ wait[c] \in Nat /\ until[c] \in Nat
    BY <2>1, LimiterConstants DEF TypeOK, Times
  <2>3. QED
    BY <2>1, <2>2, LimiterConstants
<1>2. ASSUME UNCHANGED <<now, wait, until>>, pc'[c] = pc[c] PROVE Waits(c)'
  BY <1>2 DEF Waits
<1>3. ASSUME NEW d \in Callers, Ask(d) \/ Send(d) \/ Sleep(d) \/ Wake(d) PROVE Waits(c)'
  <2>1. UNCHANGED <<now, wait, until>>
    BY <1>3 DEF Ask, Send, Sleep, Wake
  <2>2. CASE d # c
    <3>1. pc'[c] = pc[c]
      BY <1>1, <1>3, <2>2 DEF Ask, Send, Sleep, Wake, TypeOK
    <3>2. QED
      BY <1>2, <2>1, <3>1
  <2>3. CASE d = c
    <3>1. CASE Ask(c) \/ Send(c)
      <4>1. pc[c] \in {"idle", "cleared"} /\ pc'[c] \in {"asking", "idle"}
        BY <1>1, <3>1 DEF Ask, Send, TypeOK
      <4>2. QED
        BY <2>1, <4>1 DEF Waits
    <3>2. CASE Sleep(c)
      <4>1. pc[c] = "refused" /\ pc'[c] = "sleeping"
        BY <1>1, <3>2 DEF Sleep, TypeOK
      <4>2. QED
        BY <2>1, <4>1 DEF Waits
    <3>3. CASE Wake(c)
      <4>1. pc[c] = "sleeping" /\ pc'[c] = "asking" /\ wait[c] = 0
        BY <1>1, <3>3 DEF Wake, TypeOK
      <4>2. QED
        BY <1>1, <2>1, <4>1 DEF Waits
    <3>4. QED
      BY <1>3, <2>3, <3>1, <3>2, <3>3
  <2>4. QED
    BY <2>2, <2>3
<1>4. ASSUME NEW d \in Callers, CheckWeight(d) PROVE Waits(c)'
  <2>1. now' = now /\ pc[d] = "asking"
    BY <1>4 DEF CheckWeight
  <2>2. CASE d # c
    <3>1. pc'[c] = pc[c] /\ wait'[c] = wait[c] /\ until'[c] = until[c]
      BY <1>1, <1>4, <2>2 DEF CheckWeight, TypeOK
    <3>2. QED
      BY <2>1, <3>1 DEF Waits
  <2>3. CASE d = c
    <3>1. \/ pc'[c] = "cleared" /\ (until'[c] = 0 \/ until'[c] = until[c])
          \/ /\ pc'[c] = "refused" /\ wait'[c] = Remaining("minute")
             /\ until'[c] = Current("minute").start + Length["minute"]
      BY <1>1, <1>4, <2>3 DEF CheckWeight, TypeOK
    <3>2. Current("minute").start \in Nat
      BY <1>1, CurrentWindow DEF Times
    <3>3. now + Remaining("minute") = Current("minute").start + Length["minute"]
      BY <1>1, <3>2 DEF Remaining
    <3>4. QED
      BY <1>1, <2>1, <2>3, <3>1, <3>2, <3>3 DEF Waits
  <2>4. QED
    BY <2>2, <2>3
<1>5. ASSUME NEW d \in Callers, CheckWeightNil(d) PROVE Waits(c)'
  <2>1. PICK queued \in SUBSET {e \in Callers : pc[e] = "asking"} :
          /\ pc' = [e \in Callers |-> IF e \in queued \union {d} THEN "idle" ELSE pc[e]]
          /\ until' = [e \in Callers |-> IF e \in queued \union {d} THEN 0 ELSE until[e]]
    BY <1>5 DEF CheckWeightNil
  <2>2. now' = now /\ wait' = wait
    BY <1>5 DEF CheckWeightNil
  <2>3. CASE c \in queued \union {d}
    <3>1. pc'[c] = "idle" /\ until'[c] = 0
      BY <2>1, <2>3
    <3>2. QED
      BY <1>1, <2>2, <3>1 DEF Waits
  <2>4. CASE c \notin queued \union {d}
    <3>1. pc'[c] = pc[c] /\ until'[c] = until[c]
      BY <2>1, <2>4
    <3>2. QED
      BY <2>2, <3>1 DEF Waits
  <2>5. QED
    BY <2>3, <2>4
<1>6. CASE CheckOrder \/ CheckRaw \/ RecordWeight \/ RecordOrder \/ RecordRaw \/ UNCHANGED vars
  <2>1. UNCHANGED <<now, wait, until, pc>>
    BY <1>6 DEF CheckOrder, CheckRaw, RecordWeight, RecordOrder, RecordRaw, Record, callerVars, vars
  <2>2. QED
    BY <1>2, <2>1
<1>7. CASE Tick
  <2>1. /\ now' = now + 1 /\ pc' = pc /\ until' = until
        /\ wait'[c] = IF pc[c] = "sleeping" /\ wait[c] > 0 THEN wait[c] - 1 ELSE wait[c]
    BY <1>7 DEF Tick
  <2>2. now' + wait'[c] >= now + wait[c] /\ now' >= now
    BY <1>1, <2>1
  <2>3. now' \in Nat /\ wait'[c] \in Nat
    BY <1>1, <2>1
  <2>4. QED
    BY <1>1, <2>1, <2>2, <2>3 DEF Waits
<1>8. CASE SetBack
  <2>1. until'[c] = 0 /\ now' \in Nat /\ wait'[c] = wait[c]
    BY <1>1, <1>8 DEF SetBack
  <2>2. QED
    BY <1>1, <2>1 DEF Waits
<1>9. QED
  BY <1>3, <1>4, <1>5, <1>6, <1>7, <1>8 DEF Next

\* However long an answer and a sleep take, and even if the server dies meanwhile,
\* a caller is never refused by one window twice unless the clock is set back.
THEOREM RefusalsWaitedOut == Spec => []SleepsPastTheWindow
<1>1. Init => \A c \in Callers : Waits(c)
  <2>1. StartTime \in Nat
    BY LimiterConstants
  <2>2. QED
    BY <2>1 DEF Init, Waits
<1>2. LInv /\ (\A c \in Callers : Waits(c)) /\ [Next]_vars => (\A c \in Callers : Waits(c))'
  BY WaitsStep
<1>3. (\A c \in Callers : Waits(c)) => SleepsPastTheWindow
  BY DEF Waits, SleepsPastTheWindow
<1>4. QED
  BY <1>1, <1>2, <1>3, LimiterInvariant, PTL DEF Spec

-----------------------------------------------------------------------------
(* What a fault costs.                                                     *)

\* What the faults so far have let through in a minute.
Faulty == Limit["minute"] * (crashes + adjusts)

\* In the minute of the clock more than that is granted only as the window of
\* the server counts it, and in a later minute none is.
SpentCounted ==
  /\ \A t \in Times : t > Minute(now) => spent[t] <= Faulty
  /\ \/ spent[Minute(now)] <= Faulty
     \/ /\ window["minute"].start >= Minute(now)
        /\ spent[Minute(now)] <= Faulty + window["minute"].count
  /\ MinuteBudgetPerFault

LEMMA FaultyType ==
  ASSUME TypeOK
  PROVE  /\ Faulty \in Nat /\ Limit["minute"] \in Nat
         /\ Limit["minute"] * (crashes + adjusts + 1) = Faulty + Limit["minute"]
         /\ now \in Nat /\ Minute(now) \in Times /\ Minute(now) \in Int
         /\ "minute" \in Windows
         /\ spent \in [Times -> Nat] /\ Times \subseteq Int
         /\ window["minute"] \in [start : Times, count : Nat]
         /\ Current("minute") \in [start : Times, count : Nat]
<1>1. /\ "minute" \in Windows /\ Limit["minute"] \in Nat /\ now \in Nat /\ now <= MaxNow
      /\ MaxNow \in Nat /\ crashes + adjusts \in Nat /\ Times \subseteq Int
  BY LimiterConstants DEF TypeOK, Times, Windows
<1>2. \A l, f \in Nat : l * f \in Nat /\ l * (f + 1) = l * f + l
  OBVIOUS
<1>3. Faulty \in Nat /\ Limit["minute"] * (crashes + adjusts + 1) = Faulty + Limit["minute"]
  BY <1>1, <1>2 DEF Faulty
<1>5. Minute(now) \in Times /\ Minute(now) \in Int
  BY MinuteType DEF TypeOK
<1>6. window["minute"] \in [start : Times, count : Nat]
  BY <1>1 DEF TypeOK
<1>7. Current("minute") \in [start : Times, count : Nat]
  BY <1>1, CurrentWindow
<1>8. QED
  BY <1>1, <1>3, <1>5, <1>6, <1>7 DEF TypeOK

\* The minutes follow the clock.
LEMMA MinutesOrdered ==
  ASSUME NEW t \in Nat, NEW u \in Nat, t <= u
  PROVE  Minute(t) <= Minute(u)
<1>1. PICK n \in Nat \ {0} : n = Length["minute"]
  BY LimiterConstants DEF Windows
<1>2. PICK q \in Nat : q = t \div n
  BY <1>1
<1>3. PICK r \in Nat : r = u \div n
  BY <1>1
<1>4. q * n \in Nat /\ q * n <= t
  BY <1>1, <1>2
<1>5. (r + 1) * n \in Nat /\ u < (r + 1) * n
  BY <1>1, <1>3
<1>6. ~(r + 1 <= q)
  <2>1. r + 1 <= q => (r + 1) * n <= q * n
    BY <1>1, <1>2, <1>3
  <2>2. QED
    BY <1>4, <1>5, <2>1
<1>7. q <= r
  BY <1>2, <1>3, <1>6
<1>8. q * n <= r * n
  BY <1>1, <1>2, <1>3, <1>7
<1>9. Minute(t) = q * n /\ Minute(u) = r * n
  BY <1>1, <1>2, <1>3 DEF Minute, IntervalStart
<1>10. QED
  BY <1>8, <1>9

\* The window a call finds counts what has been spent beyond the faults.
LEMMA SpentCurrent ==
  ASSUME TypeOK, SpentCounted
  PROVE  /\ Current("minute").start >= Minute(now)
         /\ spent[Minute(now)] <= Faulty + Current("minute").count
<1>1. /\ Faulty \in Nat /\ Minute(now) \in Times /\ Minute(now) \in Int
      /\ spent[Minute(now)] \in Nat
      /\ window["minute"].start \in Int /\ window["minute"].count \in Nat
  BY FaultyType
<1>2. CASE Minute(now) > window["minute"].start
  <2>1. Current("minute") = [start |-> Minute(now), count |-> 0]
    BY <1>2 DEF Current, Minute
  <2>2. spent[Minute(now)] <= Faulty
    BY <1>1, <1>2 DEF SpentCounted
  <2>3. QED
    BY <1>1, <2>1, <2>2
<1>3. CASE ~(Minute(now) > window["minute"].start)
  <2>1. Current("minute") = window["minute"]
    BY <1>3 DEF Current, Minute
  <2>2. QED
    BY <1>1, <1>3, <2>1 DEF SpentCounted
<1>4. QED
  BY <1>2, <1>3

\* A handler that grants nothing in the minute leaves the window as it is or
\* counts on from the current one.
LEMMA SpentKept ==
  ASSUME TypeOK, TypeOK', SpentCounted, UNCHANGED <<now, crashes, adjusts, spent>>,
         \/ window'["minute"] = window["minute"]
         \/ /\ window'["minute"].start = Current("minute").start
            /\ window'["minute"].count >= Current("minute").count
  PROVE  SpentCounted'
<1>1. /\ Faulty \in Nat /\ Minute(now) \in Times /\ Minute(now) \in Int
      /\ spent[Minute(now)] \in Nat /\ Current("minute").count \in Nat
      /\ window'["minute"] \in [start : Times, count : Nat] /\ window'["minute"].count \in Nat
  <2>1. /\ Faulty \in Nat /\ Minute(now) \in Times /\ Minute(now) \in Int
        /\ spent[Minute(now)] \in Nat /\ Current("minute").count \in Nat
    BY FaultyType
  <2>2. window'["minute"] \in [start : Times, count : Nat]
    BY DEF TypeOK, Windows
  <2>3. QED
    BY <2>1, <2>2
<1>2. \/ spent[Minute(now)] <= Faulty
      \/ /\ window'["minute"].start >= Minute(now)
         /\ spent[Minute(now)] <= Faulty + window'["minute"].count
  <2>1. CASE window'["minute"] = window["minute"]
    BY <2>1 DEF SpentCounted
  <2>2. CASE /\ window'["minute"].start = Current("minute").start
             /\ window'["minute"].count >= Current("minute").count
    BY <1>1, <2>2, SpentCurrent
  <2>3. QED
    BY <2>1, <2>2
<1>3. Faulty' = Faulty /\ Minute(now)' = Minute(now) /\ spent' = spent
  BY DEF Faulty, Minute, IntervalStart
<1>4. MinuteBudgetPerFault'
  BY DEF SpentCounted, MinuteBudgetPerFault
<1>5. QED
  BY <1>2, <1>3, <1>4 DEF SpentCounted

\* What is granted in the minute is counted in the window, below its limit.
LEMMA SpentGranted ==
  ASSUME TypeOK, TypeOK', SpentCounted, UNCHANGED <<now, crashes, adjusts>>, NEW n \in Nat,
         spent' = [spent EXCEPT ![Minute(now)] = @ + n],
         \/ n = 0 /\ window' = window
         \/ Fits("minute", n) /\ window'["minute"] = Charged("minute", n)
  PROVE  SpentCounted'
<1>1. /\ Faulty \in Nat /\ Minute(now) \in Times /\ Minute(now) \in Int
      /\ Limit["minute"] \in Nat /\ spent \in [Times -> Nat]
      /\ Limit["minute"] * (crashes + adjusts + 1) = Faulty + Limit["minute"]
      /\ Current("minute") \in [start : Times, count : Nat]
  BY FaultyType
<1>2. CASE n = 0 /\ window' = window
  <2>1. spent' = spent
    BY <1>1, <1>2
  <2>2. QED
    BY <1>2, <2>1, SpentKept
<1>3. CASE Fits("minute", n) /\ window'["minute"] = Charged("minute", n)
  <2>1. /\ spent'[Minute(now)] = spent[Minute(now)] + n
        /\ \A t \in Times : t # Minute(now) => spent'[t] = spent[t]
    BY <1>1
  <2>2. /\ window'["minute"].start = Current("minute").start
        /\ window'["minute"].count = Current("minute").count + n
    BY <1>1, <1>3 DEF Charged
  <2>3. Current("minute").start >= Minute(now) /\ spent[Minute(now)] <= Faulty + Current("minute").count
    BY SpentCurrent
  <2>4. Current("minute").count + n <= Limit["minute"]
    BY <1>3 DEF Fits
  <2>5. /\ spent[Minute(now)] \in Nat /\ Current("minute").count \in Nat
    BY <1>1
  <2>6. spent'[Minute(now)] <= Faulty + window'["minute"].count
    BY <1>1, <2>1, <2>2, <2>3, <2>5
  <2>7. spent'[Minute(now)] <= Faulty + Limit["minute"]
    BY <1>1, <2>1, <2>3, <2>4, <2>5
  <2>8. Faulty' = Faulty /\ Minute(now)' = Minute(now)
    BY DEF Faulty, Minute, IntervalStart
  <2>9. ASSUME NEW t \in Times PROVE spent'[t] <= Faulty + Limit["minute"]
    <3>1. CASE t = Minute(now)
      BY <2>7, <3>1
    <3>2. CASE t # Minute(now)
      BY <1>1, <2>1, <3>2 DEF SpentCounted, MinuteBudgetPerFault
    <3>3. QED
      BY <3>1, <3>2
  <2>10. MinuteBudgetPerFault'
    BY <1>1, <2>9 DEF MinuteBudgetPerFault
  <2>11. \A t \in Times : t > Minute(now) => spent'[t] <= Faulty
    BY <1>1, <2>1 DEF SpentCounted
  <2>12. QED
    BY <2>2, <2>3, <2>6, <2>8, <2>10, <2>11 DEF SpentCounted
<1>4. QED
  BY <1>2, <1>3

\* A fault adds a limit to what each minute may hold, whatever it does to the
\* window and the clock.
LEMMA SpentFault ==
  ASSUME TypeOK, TypeOK', SpentCounted, spent' = spent,
         crashes' + adjusts' = crashes + adjusts + 1
  PROVE  SpentCounted'
<1>1. /\ Limit["minute"] * (crashes + adjusts + 1) = Faulty + Limit["minute"]
      /\ Faulty \in Nat /\ Limit["minute"] \in Nat /\ spent \in [Times -> Nat]
  BY FaultyType
<1>2. Minute(now)' \in Times
  BY MinuteType DEF TypeOK, Minute, IntervalStart
<1>3. /\ Faulty' = Faulty + Limit["minute"] /\ Faulty' \in Nat
      /\ Limit["minute"] * (crashes' + adjusts' + 1) = Faulty' + Limit["minute"]
  <2>1. Faulty' = Limit["minute"] * (crashes + adjusts + 1)
    BY DEF Faulty
  <2>2. \A l, f \in Nat : l * (f + 1) = l * f + l
    OBVIOUS
  <2>3. crashes' + adjusts' \in Nat
    <3>1. crashes' \in Nat /\ adjusts' \in Nat
      BY DEF TypeOK
    <3>2. \A x, y \in Nat : x + y \in Nat
      OBVIOUS
    <3>3. QED
      BY <3>1, <3>2
  <2>4. Limit["minute"] * (crashes' + adjusts' + 1) = Faulty' + Limit["minute"]
    BY <1>1, <2>2, <2>3 DEF Faulty
  <2>5. QED
    BY <1>1, <2>1, <2>4
<1>4. \A t \in Times : spent'[t] <= Faulty'
  BY <1>1, <1>3 DEF SpentCounted, MinuteBudgetPerFault
<1>5. MinuteBudgetPerFault'
  <2>1. \A t \in Times : spent'[t] <= Faulty' + Limit["minute"]
    BY <1>1, <1>3, <1>4
  <2>2. QED
    BY <1>3, <2>1 DEF MinuteBudgetPerFault
<1>6. QED
  BY <1>2, <1>4, <1>5 DEF SpentCounted

\* The clock goes on, in its minute or to a later one.
LEMMA SpentTick ==
  ASSUME TypeOK, TypeOK', SpentCounted, Tick
  PROVE  SpentCounted'
<1>1. /\ now' = now + 1 /\ UNCHANGED <<window, spent, crashes, adjusts>>
  BY DEF Tick, serverVars
<1>2. /\ now \in Nat /\ Minute(now) \in Int /\ \A t \in Times : t \in Int
  BY FaultyType
<1>3. /\ Minute(now)' = Minute(now + 1) /\ Faulty' = Faulty
      /\ Minute(now)' \in Times /\ Minute(now)' \in Int
  <2>1. Minute(now') = Minute(now)' /\ now' \in Times
    BY DEF Minute, IntervalStart, TypeOK
  <2>2. QED
    BY <1>1, <2>1, MinuteType DEF Faulty
<1>4. Minute(now) <= Minute(now)'
  BY <1>2, <1>3, MinutesOrdered
<1>5. MinuteBudgetPerFault'
  BY <1>1 DEF SpentCounted, MinuteBudgetPerFault
<1>6. \A t \in Times : t > Minute(now)' => spent'[t] <= Faulty'
  BY <1>1, <1>2, <1>3, <1>4 DEF SpentCounted
<1>7. CASE Minute(now)' = Minute(now)
  BY <1>1, <1>3, <1>5, <1>6, <1>7 DEF SpentCounted
<1>8. CASE Minute(now)' > Minute(now)
  <2>1. spent'[Minute(now)'] <= Faulty'
    BY <1>1, <1>2, <1>3, <1>8 DEF SpentCounted
  <2>2. QED
    BY <1>5, <1>6, <2>1 DEF SpentCounted
<1>9. Minute(now)' = Minute(now) \/ Minute(now)' > Minute(now)
  BY <1>2, <1>3, <1>4
<1>10. QED
  BY <1>7, <1>8, <1>9

LEMMA SpentNext == LInv /\ SpentCounted /\ [Next]_vars => SpentCounted'
<1> SUFFICES ASSUME LInv, SpentCounted, [Next]_vars PROVE SpentCounted'
  OBVIOUS
<1>1. TypeOK /\ TypeOK' /\ "minute" \in Windows
  BY NextLInv DEF LInv, Windows
<1>2. ASSUME UNCHANGED <<now, crashes, adjusts, spent, window>> PROVE SpentCounted'
  BY <1>1, <1>2, SpentKept
<1>3. ASSUME NEW c \in Callers, Ask(c) \/ Send(c) \/ Sleep(c) \/ Wake(c) PROVE SpentCounted'
  BY <1>2, <1>3 DEF Ask, Send, Sleep, Wake, serverVars
<1>4. /\ Current("minute") \in [start : Times, count : Nat]
      /\ \A n \in Nat : /\ Charged("minute", n).start = Current("minute").start
                        /\ Charged("minute", n).count = Current("minute").count + n
                        /\ Charged("minute", n).count >= Current("minute").count
  BY <1>1, FaultyType DEF Charged
<1>5. ASSUME NEW c \in Callers, CheckWeight(c) PROVE SpentCounted'
  <2> DEFINE n == req[c].weight
  <2>1. UNCHANGED <<now, crashes, adjusts>>
    BY <1>5 DEF CheckWeight
  <2>2. CASE Refuse({"minute"}) /\ UNCHANGED spent
    <3>1. window'["minute"] = Current("minute")
      BY <1>1, <2>2 DEF Refuse
    <3>2. Current("minute").count >= Current("minute").count
      BY <1>4
    <3>3. QED
      BY <1>1, <2>1, <2>2, <3>1, <3>2, SpentKept
  <2>3. CASE /\ n <= 0 \/ Fits("minute", n)
             /\ IF n <= 0 THEN UNCHANGED <<window, granted>> ELSE Grant({"minute"}, n)
             /\ spent' = [spent EXCEPT ![Minute(now)] = @ + n]
    <3>1. n \in Nat
      BY <1>5, WeightType DEF CheckWeight
    <3>2. CASE n <= 0
      <4>1. n = 0 /\ window' = window
        BY <2>3, <3>1, <3>2
      <4>2. QED
        BY <1>1, <2>1, <2>3, <3>1, <4>1, SpentGranted
    <3>3. CASE ~(n <= 0)
      <4>1. Fits("minute", n) /\ window'["minute"] = Charged("minute", n)
        BY <1>1, <2>3, <3>3 DEF Grant
      <4>2. QED
        BY <1>1, <2>1, <2>3, <3>1, <4>1, SpentGranted
    <3>4. QED
      BY <3>2, <3>3
  <2>4. QED
    BY <1>5, <2>2, <2>3 DEF CheckWeight
<1>6. ASSUME NEW c \in Callers, CheckWeightNil(c) PROVE SpentCounted'
  <2>1. crashes' = crashes + 1 /\ UNCHANGED <<adjusts, spent>>
    BY <1>6 DEF CheckWeightNil
  <2>2. crashes' + adjusts' = crashes + adjusts + 1
    BY <1>1, <2>1 DEF TypeOK
  <2>3. QED
    BY <1>1, <2>1, <2>2, SpentFault
<1>7. CASE CheckOrder \/ CheckRaw
  <2>1. UNCHANGED <<now, crashes, adjusts, spent>>
    BY <1>7 DEF CheckOrder, CheckRaw
  <2>2. window'["minute"] = window["minute"]
    BY <1>1, <1>7 DEF CheckOrder, CheckRaw, Grant, Refuse
  <2>3. QED
    BY <1>1, <2>1, <2>2, SpentKept
<1>8. ASSUME NEW ks, NEW n \in Nat, Record(ks, n) PROVE SpentCounted'
  <2>1. UNCHANGED <<now, crashes, adjusts, spent>>
    BY <1>8 DEF Record
  <2>2. window'["minute"] = window["minute"] \/ window'["minute"] = Charged("minute", n)
    BY <1>1, <1>8 DEF Record
  <2>3. QED
    BY <1>1, <1>4, <2>1, <2>2, SpentKept
<1>9. CASE RecordWeight \/ RecordOrder \/ RecordRaw
  BY <1>8, <1>9, LimiterConstants DEF RecordWeight, RecordOrder, RecordRaw
<1>10. CASE Tick
  BY <1>1, <1>10, SpentTick
<1>11. CASE SetBack
  <2>1. adjusts' = adjusts + 1 /\ UNCHANGED <<crashes, spent>>
    BY <1>11 DEF SetBack, serverVars
  <2>2. crashes' + adjusts' = crashes + adjusts + 1
    BY <1>1, <2>1 DEF TypeOK
  <2>3. QED
    BY <1>1, <2>1, <2>2, SpentFault
<1>12. CASE UNCHANGED vars
  BY <1>2, <1>12 DEF vars
<1>13. QED
  BY <1>3, <1>5, <1>6, <1>7, <1>9, <1>10, <1>11, <1>12 DEF Next

\* A minute of the clock holds no more than one limit for each fault so far and
\* one more, for any number of crashes and of clocks set back.
THEOREM FaultsBounded == Spec => []MinuteBudgetPerFault
<1>1. Init => SpentCounted
  <2> SUFFICES ASSUME Init PROVE SpentCounted
    OBVIOUS
  <2>1. TypeOK
    BY InitLInv DEF LInv
  <2>2. /\ Faulty \in Nat /\ Limit["minute"] \in Nat /\ Minute(now) \in Times
        /\ Limit["minute"] * (crashes + adjusts + 1) = Faulty + Limit["minute"]
    BY <2>1, FaultyType
  <2>3. \A t \in Times : spent[t] = 0
    BY DEF Init
  <2>4. QED
    BY <2>2, <2>3 DEF SpentCounted, MinuteBudgetPerFault
<1>2. SpentCounted => MinuteBudgetPerFault
  BY DEF SpentCounted
<1>3. QED
  BY <1>1, <1>2, SpentNext, LimiterInvariant, PTL DEF Spec

-----------------------------------------------------------------------------
(* What is sent in a minute that did not grant it.                         *)

\* The callers that have been told to send their request and have not.
Carrying == {c \in Callers : pc[c] = "cleared" /\ req[c].kind = "data"}

\* What each clock that was set back may have let every caller carry over.
Excused == Cardinality(Callers) * adjusts

\* What the minute has sent beyond its grants, and what is still to be sent in
\* it, comes from the callers that entered the minute with a request granted;
\* no later minute has any.
CarriedOver ==
  /\ \A t \in Times : t > Minute(now) => surplus[t] <= Excused
  /\ surplus[Minute(now)] + Cardinality(Carrying) <= Excused + Cardinality(Callers)
  /\ LateSendsBounded

LEMMA CarryingType ==
  /\ IsFiniteSet(Carrying)
  /\ Cardinality(Carrying) \in Nat /\ Cardinality(Callers) \in Nat
  /\ Cardinality(Carrying) <= Cardinality(Callers)
<1>1. IsFiniteSet(Callers) /\ Carrying \in SUBSET Callers
  BY LimiterConstants DEF Carrying
<1>2. QED
  BY <1>1, FS_Subset, FS_CardinalityType

LEMMA ExcusedType ==
  ASSUME TypeOK
  PROVE  /\ Excused \in Nat
         /\ Cardinality(Callers) * (adjusts + 1) = Excused + Cardinality(Callers)
         /\ surplus \in [Times -> Int] /\ Minute(now) \in Times /\ Minute(now) \in Int
         /\ surplus[Minute(now)] \in Int
<1>1. Cardinality(Callers) \in Nat /\ adjusts \in Nat
  BY CarryingType DEF TypeOK
<1>2. \A l, f \in Nat : l * f \in Nat /\ l * (f + 1) = l * f + l
  OBVIOUS
<1>3. Minute(now) \in Times /\ Minute(now) \in Int
  BY MinuteType DEF TypeOK
<1>4. QED
  BY <1>1, <1>2, <1>3 DEF Excused, TypeOK

\* A step in which no request is granted and none is sent.
LEMMA CarriedKept ==
  ASSUME CarriedOver, UNCHANGED <<now, surplus, adjusts>>, Carrying' = Carrying
  PROVE  CarriedOver'
<1>1. Minute(now)' = Minute(now) /\ Excused' = Excused
  BY DEF Minute, IntervalStart, Excused
<1>2. LateSendsBounded'
  BY DEF CarriedOver, LateSendsBounded
<1>3. QED
  BY <1>1, <1>2 DEF CarriedOver

\* A grant takes from the minute what it adds to the requests on their way, and
\* a request that is sent gives it back.
LEMMA CarriedMoves ==
  ASSUME TypeOK, TypeOK', CarriedOver, UNCHANGED <<now, adjusts>>, NEW n \in {1, -1},
         surplus' = [surplus EXCEPT ![Minute(now)] = @ + n],
         Cardinality(Carrying') = Cardinality(Carrying) - n
  PROVE  CarriedOver'
<1>1. /\ Excused \in Nat /\ Cardinality(Callers) \in Nat
      /\ Cardinality(Callers) * (adjusts + 1) = Excused + Cardinality(Callers)
      /\ surplus \in [Times -> Int] /\ Minute(now) \in Times /\ Minute(now) \in Int
      /\ surplus[Minute(now)] \in Int /\ Cardinality(Carrying) \in Nat
  BY ExcusedType, CarryingType
<1>2. Minute(now)' = Minute(now) /\ Excused' = Excused
  BY DEF Minute, IntervalStart, Excused
<1>3. /\ surplus'[Minute(now)] = surplus[Minute(now)] + n
      /\ \A t \in Times : t # Minute(now) => surplus'[t] = surplus[t]
  BY <1>1
<1>4. Cardinality(Carrying)' = Cardinality(Carrying) - n /\ Cardinality(Carrying)' \in Nat
  <2>1. Carrying' \in SUBSET Callers
    BY DEF Carrying
  <2>2. QED
    BY <2>1, LimiterConstants, FS_Subset, FS_CardinalityType
<1>5. surplus'[Minute(now)] + Cardinality(Carrying)' <= Excused + Cardinality(Callers)
  BY <1>1, <1>3, <1>4 DEF CarriedOver
<1>6. \A t \in Times : t > Minute(now) => surplus'[t] <= Excused
  BY <1>1, <1>3 DEF CarriedOver
<1>7. \A t \in Times : surplus'[t] <= Excused + Cardinality(Callers)
  <2>1. surplus'[Minute(now)] <= Excused + Cardinality(Callers)
    BY <1>1, <1>3, <1>4, <1>5
  <2>2. \A t \in Times : t # Minute(now) => surplus'[t] <= Excused + Cardinality(Callers)
    BY <1>1, <1>3 DEF CarriedOver, LateSendsBounded
  <2>3. QED
    BY <2>1, <2>2
<1>8. LateSendsBounded'
  BY <1>1, <1>7 DEF LateSendsBounded
<1>9. QED
  BY <1>2, <1>5, <1>6, <1>8 DEF CarriedOver

\* A request that is sent is on its way no longer.
LEMMA CarriedSend ==
  ASSUME LInv, TypeOK', CarriedOver, NEW c \in Callers, Send(c)
  PROVE  CarriedOver'
<1>1. /\ TypeOK /\ UNCHANGED <<now, adjusts>> /\ pc[c] = "cleared" /\ Counted(c, 1)
      /\ \A d \in Callers : pc'[d] = IF d = c THEN "idle" ELSE pc[d]
      /\ \A d \in Callers \ {c} : req'[d] = req[d]
  BY DEF Send, LInv, TypeOK
<1>2. Carrying' = Carrying \ {c}
  BY <1>1 DEF Carrying
<1>3. CASE req[c].kind = "data"
  <2>1. surplus' = [surplus EXCEPT ![Minute(now)] = @ + 1]
    BY <1>1, <1>3 DEF Counted
  <2>2. c \in Carrying
    BY <1>1, <1>3 DEF Carrying
  <2>3. Cardinality(Carrying') = Cardinality(Carrying) - 1
    BY <1>2, <2>2, CarryingType, FS_RemoveElement
  <2>4. QED
    BY <1>1, <2>1, <2>3, CarriedMoves
<1>4. CASE req[c].kind # "data"
  <2>1. Carrying' = Carrying
    BY <1>2, <1>4 DEF Carrying
  <2>2. QED
    BY <1>1, <1>4, <2>1, CarriedKept DEF Counted
<1>5. QED
  BY <1>3, <1>4

\* A check puts a request on its way only if it grants it, or counts no weight.
LEMMA CarriedCheck ==
  ASSUME LInv, TypeOK', CarriedOver, NEW c \in Callers, CheckWeight(c)
  PROVE  CarriedOver'
<1>1. /\ TypeOK /\ UNCHANGED <<now, req, adjusts>> /\ pc[c] = "asking"
      /\ \A d \in Callers \ {c} : pc'[d] = pc[d]
  BY DEF CheckWeight, LInv, TypeOK
<1>2. c \notin Carrying
  BY <1>1 DEF Carrying
<1>3. CASE pc'[c] = "cleared" /\ Counted(c, -1) /\ req[c].kind = "data"
  <2>1. surplus' = [surplus EXCEPT ![Minute(now)] = @ + (-1)]
    BY <1>3 DEF Counted
  <2>2. Carrying' = Carrying \union {c}
    BY <1>1, <1>3 DEF Carrying
  <2>3. Cardinality(Carrying') = Cardinality(Carrying) - (-1)
    BY <1>2, <2>2, CarryingType, FS_AddElement
  <2>4. QED
    BY <1>1, <2>1, <2>3, CarriedMoves
<1>4. CASE surplus' = surplus /\ (pc'[c] # "cleared" \/ req[c].kind # "data")
  <2>1. Carrying' = Carrying
    BY <1>1, <1>2, <1>4 DEF Carrying
  <2>2. QED
    BY <1>1, <1>4, <2>1, CarriedKept
<1>5. \/ pc'[c] = "cleared" /\ Counted(c, -1)
      \/ surplus' = surplus /\ (pc'[c] # "cleared" \/ req[c].kind # "data")
  BY <1>1 DEF CheckWeight, TypeOK
<1>6. QED
  BY <1>3, <1>4, <1>5 DEF Counted

\* The clock goes on: every caller may enter the next minute with a request.
LEMMA CarriedTick ==
  ASSUME TypeOK, TypeOK', CarriedOver, Tick
  PROVE  CarriedOver'
<1>1. now' = now + 1 /\ UNCHANGED <<surplus, adjusts, pc, req>>
  BY DEF Tick
<1>2. /\ Excused \in Nat /\ Cardinality(Callers) \in Nat /\ now \in Nat
      /\ surplus \in [Times -> Int] /\ Minute(now) \in Int
      /\ Cardinality(Carrying) \in Nat /\ Cardinality(Carrying) <= Cardinality(Callers)
      /\ \A t \in Times : t \in Int
  BY ExcusedType, CarryingType, FaultyType
<1>3. /\ Minute(now)' = Minute(now + 1) /\ Excused' = Excused /\ Carrying' = Carrying
      /\ Minute(now)' \in Times /\ Minute(now)' \in Int
  <2>1. Minute(now') = Minute(now)' /\ now' \in Times
    BY DEF Minute, IntervalStart, TypeOK
  <2>2. QED
    BY <1>1, <2>1, MinuteType DEF Excused, Carrying
<1>4. Minute(now) <= Minute(now)'
  BY <1>2, <1>3, MinutesOrdered
<1>5. \A t \in Times : t > Minute(now)' => surplus'[t] <= Excused
  BY <1>1, <1>2, <1>3, <1>4 DEF CarriedOver
<1>6. surplus'[Minute(now)'] + Cardinality(Carrying) <= Excused + Cardinality(Callers)
  <2>1. CASE Minute(now)' = Minute(now)
    BY <1>1, <2>1 DEF CarriedOver
  <2>2. CASE Minute(now)' > Minute(now)
    <3>1. surplus[Minute(now)'] <= Excused /\ surplus[Minute(now)'] \in Int
      BY <1>2, <1>3, <2>2 DEF CarriedOver
    <3>2. QED
      BY <1>1, <1>2, <3>1
  <2>3. QED
    BY <1>2, <1>3, <1>4, <2>1, <2>2
<1>7. LateSendsBounded'
  BY <1>1 DEF CarriedOver, LateSendsBounded
<1>8. QED
  BY <1>3, <1>5, <1>6, <1>7 DEF CarriedOver

\* The clock is set back: each caller may carry one request more into a minute
\* that was over.
LEMMA CarriedBack ==
  ASSUME TypeOK, TypeOK', CarriedOver, SetBack
  PROVE  CarriedOver'
<1>1. adjusts' = adjusts + 1 /\ UNCHANGED <<surplus, pc, req>>
  BY DEF SetBack
<1>2. /\ Excused \in Nat /\ Cardinality(Callers) \in Nat
      /\ Cardinality(Callers) * (adjusts + 1) = Excused + Cardinality(Callers)
      /\ surplus \in [Times -> Int]
      /\ Cardinality(Carrying) \in Nat /\ Cardinality(Carrying) <= Cardinality(Callers)
  BY ExcusedType, CarryingType
<1>3. /\ Carrying' = Carrying /\ Minute(now)' \in Times
      /\ Excused' = Excused + Cardinality(Callers)
  <2>1. Minute(now') = Minute(now)' /\ now' \in Times
    BY DEF Minute, IntervalStart, TypeOK
  <2>2. QED
    BY <1>1, <1>2, <2>1, MinuteType DEF Excused, Carrying
<1>4. \A t \in Times : surplus'[t] \in Int /\ surplus'[t] <= Excused'
  BY <1>1, <1>2, <1>3 DEF CarriedOver, LateSendsBounded
<1>5. surplus'[Minute(now)'] + Cardinality(Carrying)' <= Excused' + Cardinality(Callers)
  BY <1>2, <1>3, <1>4
<1>6. LateSendsBounded'
  <2>1. Cardinality(Callers) * (adjusts' + 1) = Excused' + Cardinality(Callers)
    <3>1. \A l, f \in Nat : l * (f + 1) = l * f + l
      OBVIOUS
    <3>2. adjusts' \in Nat
      BY DEF TypeOK
    <3>3. QED
      BY <1>2, <3>1, <3>2 DEF Excused
  <2>2. \A t \in Times : surplus'[t] <= Excused' + Cardinality(Callers)
    BY <1>2, <1>3, <1>4
  <2>3. QED
    BY <2>1, <2>2 DEF LateSendsBounded
<1>7. QED
  BY <1>4, <1>5, <1>6 DEF CarriedOver

LEMMA CarriedNext == LInv /\ CarriedOver /\ [Next]_vars => CarriedOver'
<1> SUFFICES ASSUME LInv, CarriedOver, [Next]_vars PROVE CarriedOver'
  OBVIOUS
<1>1. TypeOK /\ TypeOK'
  BY NextLInv DEF LInv
<1>2. ASSUME UNCHANGED <<now, callerVars, adjusts>> PROVE CarriedOver'
  BY <1>2, CarriedKept DEF callerVars, Carrying
<1>3. ASSUME NEW c \in Callers, Ask(c) \/ Sleep(c) \/ Wake(c) PROVE CarriedOver'
  <2>1. /\ UNCHANGED <<now, surplus, adjusts>> /\ pc[c] # "cleared" /\ pc'[c] # "cleared"
        /\ \A d \in Callers \ {c} : pc'[d] = pc[d] /\ req'[d] = req[d]
    BY <1>1, <1>3 DEF Ask, Sleep, Wake, TypeOK
  <2>2. Carrying' = Carrying
    BY <2>1 DEF Carrying
  <2>3. QED
    BY <2>1, <2>2, CarriedKept
<1>4. ASSUME NEW c \in Callers, Send(c) PROVE CarriedOver'
  BY <1>1, <1>4, CarriedSend
<1>5. ASSUME NEW c \in Callers, CheckWeight(c) PROVE CarriedOver'
  BY <1>1, <1>5, CarriedCheck
<1>6. ASSUME NEW c \in Callers, CheckWeightNil(c) PROVE CarriedOver'
  <2>1. PICK queued \in SUBSET {d \in Callers : pc[d] = "asking"} :
          /\ pc' = [d \in Callers |-> IF d \in queued \union {c} THEN "idle" ELSE pc[d]]
          /\ req' = [d \in Callers |-> IF d \in queued \union {c} THEN Nil ELSE req[d]]
    BY <1>6 DEF CheckWeightNil
  <2>2. UNCHANGED <<now, surplus, adjusts>> /\ pc[c] = "asking"
    BY <1>6 DEF CheckWeightNil
  <2>3. Carrying' = Carrying
    BY <2>1, <2>2 DEF Carrying
  <2>4. QED
    BY <2>2, <2>3, CarriedKept
<1>7. CASE CheckOrder \/ CheckRaw \/ RecordWeight \/ RecordOrder \/ RecordRaw
  BY <1>2, <1>7 DEF CheckOrder, CheckRaw, RecordWeight, RecordOrder, RecordRaw, Record
<1>8. CASE Tick
  BY <1>1, <1>8, CarriedTick
<1>9. CASE SetBack
  BY <1>1, <1>9, CarriedBack
<1>10. CASE UNCHANGED vars
  BY <1>2, <1>10 DEF vars, callerVars
<1>11. QED
  BY <1>3, <1>4, <1>5, <1>6, <1>7, <1>8, <1>9, <1>10 DEF Next

\* A minute sends at most one request for each caller beyond what it granted,
\* and as many again for each clock that was set back.
THEOREM LateSendsFew == Spec => []LateSendsBounded
<1>1. Init => CarriedOver
  <2> SUFFICES ASSUME Init PROVE CarriedOver
    OBVIOUS
  <2>1. TypeOK
    BY InitLInv DEF LInv
  <2>2. /\ Excused \in Nat /\ Minute(now) \in Times
        /\ Cardinality(Callers) * (adjusts + 1) = Excused + Cardinality(Callers)
        /\ Cardinality(Carrying) \in Nat /\ Cardinality(Callers) \in Nat
        /\ Cardinality(Carrying) <= Cardinality(Callers)
    BY <2>1, ExcusedType, CarryingType
  <2>3. \A t \in Times : surplus[t] = 0
    BY DEF Init
  <2>4. QED
    BY <2>2, <2>3 DEF CarriedOver, LateSendsBounded
<1>2. CarriedOver => LateSendsBounded
  BY DEF CarriedOver
<1>3. QED
  BY <1>1, <1>2, CarriedNext, LimiterInvariant, PTL DEF Spec

-----------------------------------------------------------------------------
(* The server implements the abstract limiter.                             *)

\* A step that takes no window back and no grant away serves a request, or none.
LEMMA Serves ==
  ASSUME LInv, LInv', crashes' = crashes,
         \A k \in Windows : /\ window'[k].start >= window[k].start
                            /\ \A t \in Times : granted'[k][t] >= granted[k][t]
  PROVE  Quotas!Serve
<1> SUFFICES ASSUME NEW k \in Windows
             PROVE  \/ /\ window'[k].start = window[k].start
                       /\ granted'[k][window'[k].start] = granted[k][window[k].start]
                    \/ /\ window'[k].start = window[k].start
                       /\ granted'[k][window'[k].start] > granted[k][window[k].start]
                       /\ granted'[k][window'[k].start] <= Limit[k]
                    \/ /\ window'[k].start > window[k].start
                       /\ granted'[k][window'[k].start] >= 0
                       /\ granted'[k][window'[k].start] <= Limit[k]
  BY DEF Quotas!Serve, Quotas!Kept, Quotas!Granted, Quotas!Advanced
<1>1. /\ window[k] \in [start : Times, count : Nat] /\ window'[k] \in [start : Times, count : Nat]
      /\ granted[k] \in [Times -> Nat] /\ granted'[k] \in [Times -> Nat]
      /\ \A t \in Times : granted'[k][t] <= Limit[k]
  BY DEF LInv, TypeOK, WindowBudget
<1>2. /\ window[k].start \in Times /\ window'[k].start \in Times
      /\ granted'[k][window'[k].start] \in Nat /\ granted'[k][window'[k].start] <= Limit[k]
      /\ granted[k][window[k].start] \in Nat
  BY <1>1
<1>3. window[k].start \in Int /\ window'[k].start \in Int
  BY <1>2 DEF Times
<1>4. CASE window'[k].start = window[k].start
  BY <1>2, <1>4
<1>5. CASE window'[k].start # window[k].start
  BY <1>2, <1>3, <1>5
<1>6. QED
  BY <1>4, <1>5

\* Every step serves a request, starts the limiter again, or stutters.
LEMMA QuotasStep == LInv /\ LInv' /\ [Next]_vars => [Quotas!Next]_Quotas!vars
<1> SUFFICES ASSUME LInv, LInv', [Next]_vars PROVE Quotas!Next \/ UNCHANGED Quotas!vars
  OBVIOUS
<1>1. /\ TypeOK /\ TypeOK' /\ now \in Times /\ "minute" \in Windows
      /\ \A k \in Windows : window[k].start \in Int
      /\ \A k \in Windows : Current(k).start \in Int /\ Current(k).start >= window[k].start
      /\ \A k \in Windows : granted[k] \in [Times -> Nat] /\ Current(k).start \in Times
  <2>1. TypeOK /\ TypeOK' /\ now \in Times /\ "minute" \in Windows
    BY DEF LInv, TypeOK, Windows
  <2>2. ASSUME NEW k \in Windows
        PROVE  /\ window[k].start \in Times /\ granted[k] \in [Times -> Nat]
               /\ Current(k).start \in Times /\ Current(k).start >= window[k].start
    BY <2>1, CurrentWindow DEF TypeOK
  <2>3. \A t \in Times : t \in Int
    BY LimiterConstants DEF Times
  <2>4. QED
    BY <2>1, <2>2, <2>3
<1>2. \A n : \A k \in Windows : Charged(k, n).start = Current(k).start
  BY <1>1, CurrentWindow DEF Charged
<1>3. ASSUME crashes' = crashes, granted' = granted,
             \A k \in Windows : window'[k] = window[k] \/ window'[k].start = Current(k).start
      PROVE  Quotas!Next
  <2>1. \A k \in Windows : window'[k].start >= window[k].start
    BY <1>1, <1>3
  <2>2. \A k \in Windows : \A t \in Times : granted'[k][t] >= granted[k][t]
    BY <1>1, <1>3
  <2>3. QED
    BY <1>3, <2>1, <2>2, Serves DEF Quotas!Next
<1>4. ASSUME crashes' = crashes, NEW ks, NEW n \in Nat, Grant(ks, n) PROVE Quotas!Next
  <2>1. ASSUME NEW k \in Windows PROVE window'[k].start >= window[k].start
    BY <1>1, <1>2, <1>4 DEF Grant
  <2>2. ASSUME NEW k \in Windows, NEW t \in Times PROVE granted'[k][t] >= granted[k][t]
    <3>1. \/ granted'[k] = granted[k]
          \/ granted'[k] = [granted[k] EXCEPT ![Current(k).start] = @ + n]
      BY <1>4 DEF Grant
    <3>2. granted[k][t] \in Nat
      BY <1>1
    <3>3. QED
      BY <1>1, <3>1, <3>2
  <2>3. QED
    BY <1>4, <2>1, <2>2, Serves DEF Quotas!Next
<1>5. ASSUME NEW ks, Refuse(ks), crashes' = crashes PROVE Quotas!Next
  BY <1>3, <1>5 DEF Refuse
<1>6. ASSUME UNCHANGED <<window, granted, crashes>> PROVE UNCHANGED Quotas!vars
  BY <1>6 DEF Quotas!vars
<1>7. ASSUME NEW c \in Callers, Ask(c) \/ Send(c) \/ Sleep(c) \/ Wake(c) PROVE UNCHANGED Quotas!vars
  BY <1>6, <1>7 DEF Ask, Send, Sleep, Wake, serverVars
<1>8. ASSUME NEW c \in Callers, CheckWeight(c) PROVE Quotas!Next \/ UNCHANGED Quotas!vars
  <2>1. crashes' = crashes /\ req[c].weight \in Nat
    BY <1>8, WeightType DEF CheckWeight
  <2>2. \/ UNCHANGED <<window, granted>>
        \/ Grant({"minute"}, req[c].weight)
        \/ Refuse({"minute"})
    BY <1>8 DEF CheckWeight
  <2>3. QED
    BY <1>4, <1>5, <1>6, <2>1, <2>2
<1>9. ASSUME NEW c \in Callers, CheckWeightNil(c) PROVE Quotas!Next
  <2>1. crashes' = crashes + 1 /\ granted' = Nothing
    BY <1>9 DEF CheckWeightNil
  <2>2. \A k \in Windows : window'[k].start \in Times
    BY <1>1 DEF TypeOK
  <2>3. \A k \in Windows : window'[k].start \in Int /\ granted'[k][window'[k].start] = 0
    BY <2>1, <2>2, LimiterConstants DEF Nothing, Times
  <2>4. QED
    BY <2>1, <2>3 DEF Quotas!Next, Quotas!Restart
<1>10. CASE CheckOrder \/ CheckRaw
  <2>1. crashes' = crashes
    BY <1>10 DEF CheckOrder, CheckRaw
  <2>2. \E ks : Grant(ks, 1) \/ Refuse(ks)
    BY <1>10 DEF CheckOrder, CheckRaw
  <2>3. QED
    BY <1>4, <1>5, <2>1, <2>2
<1>11. ASSUME NEW ks, NEW n, Record(ks, n) PROVE Quotas!Next
  <2>1. crashes' = crashes /\ granted' = granted
    BY <1>11 DEF Record
  <2>2. \A k \in Windows : window'[k] = window[k] \/ window'[k].start = Current(k).start
    BY <1>2, <1>11 DEF Record
  <2>3. QED
    BY <1>3, <2>1, <2>2
<1>12. CASE RecordWeight \/ RecordOrder \/ RecordRaw
  BY <1>11, <1>12 DEF RecordWeight, RecordOrder, RecordRaw
<1>13. CASE Tick \/ SetBack \/ UNCHANGED vars
  BY <1>6, <1>13 DEF Tick, SetBack, vars, serverVars
<1>14. QED
  BY <1>7, <1>8, <1>9, <1>10, <1>12, <1>13 DEF Next

LEMMA QuotasInit == Init => Quotas!Init
<1> SUFFICES ASSUME Init PROVE Quotas!Init
  OBVIOUS
<1>1. \A k \in Windows : window[k].start \in Times /\ granted[k][window[k].start] = 0
  <2>1. TypeOK
    BY InitLInv DEF LInv
  <2>2. QED
    BY <2>1 DEF TypeOK, Init, Nothing
<1>2. \A k \in Windows : window[k].start \in Int /\ granted[k][window[k].start] = 0
  BY <1>1, LimiterConstants DEF Times
<1>3. QED
  BY <1>2 DEF Init, Quotas!Init

\* The server implements the abstract limiter, with whatever casts, crashes and
\* clocks set back.
THEOREM LimiterImplements == Spec => ImplementsQuotas
<1>1. Init => Quotas!Init
  BY QuotasInit
<1>2. LInv /\ LInv' /\ [Next]_vars => [Quotas!Next]_Quotas!vars
  BY QuotasStep
<1>3. QED
  BY <1>1, <1>2, LimiterInvariant, PTL DEF Spec, ImplementsQuotas, Quotas!Spec
=============================================================================
