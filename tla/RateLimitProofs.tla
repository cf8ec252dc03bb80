--------------------------- MODULE RateLimitProofs ---------------------------
(***************************************************************************)
(* The two promises of the limiter, for every window, every limit and a    *)
(* clock and a connection without bounds.  The invariant places the log in *)
(* windows: its last request_count entries lie in the current one, what is *)
(* older lies before window_start, and what is older by a full window more *)
(* lies a window before it.                                                *)
(***************************************************************************)
EXTENDS RateLimit, TLAPS

W == RATE_LIMIT_WINDOW
M == RATE_LIMIT_MAX_REQUESTS
L == Len(log)

ClockInv ==
  /\ window_start <= now
  /\ now >= W
  /\ request_count <= L
  /\ \A i \in 1 .. L : log[i] <= now

WindowInv ==
  \A i \in 1 .. L :
    /\ i > L - request_count => log[i] >= window_start
    /\ log[i] < window_start + W
    /\ i <= L - request_count => log[i] < window_start
    /\ i <= L - request_count - M => log[i] < window_start - W

IInv == TypeOK /\ ClockInv /\ WindowInv /\ TwoWindowBound

-----------------------------------------------------------------------------

LEMMA InitIInv == Init => IInv
BY LimitAssumption, ClockAssumption
   DEF Init, IInv, TypeOK, ClockInv, WindowInv, TwoWindowBound, W, M, L

LEMMA TickIInv == ASSUME IInv, Tick PROVE IInv'
BY LimitAssumption
   DEF Tick, IInv, TypeOK, ClockInv, WindowInv, TwoWindowBound, W, M, L

\* What checking does to the fields keeps the log in its windows.
LEMMA Checked ==
  ASSUME IInv
  PROVE  /\ CheckedStart \in Nat /\ CheckedStart <= now
         /\ now < CheckedStart + W
         /\ CheckedCount \in 0 .. M /\ CheckedCount <= L
         /\ \A i \in 1 .. L :
              /\ i > L - CheckedCount => log[i] >= CheckedStart
              /\ log[i] < CheckedStart + W
              /\ i <= L - CheckedCount => log[i] < CheckedStart
              /\ i <= L - CheckedCount - M => log[i] < CheckedStart - W
<1> USE LimitAssumption DEF IInv, TypeOK, ClockInv, WindowInv, W, M, L
<1>0. L \in Nat /\ \A i \in 1 .. L : log[i] \in Nat
  OBVIOUS
<1>1. CASE Expired
  <2>1. CheckedStart = now /\ CheckedCount = 0 /\ now >= window_start + W
    BY <1>1 DEF Expired, CheckedStart, CheckedCount
  <2>2. \A i \in 1 .. L :
          /\ log[i] < now
          /\ i <= L - M => log[i] < window_start
    BY <1>0, <2>1
  <2>3. QED
    BY <1>0, <2>1, <2>2
<1>2. CASE ~ Expired
  BY <1>0, <1>2 DEF Expired, CheckedStart, CheckedCount
<1>3. QED
  BY <1>1, <1>2

LEMMA RefuseIInv == ASSUME IInv, Refuse PROVE IInv'
<1> USE LimitAssumption DEF IInv
<1>1. /\ window_start' = CheckedStart /\ request_count' = CheckedCount
      /\ connected' = FALSE /\ UNCHANGED <<now, log>>
  BY DEF Refuse
<1>2. TypeOK'
  BY <1>1, Checked DEF TypeOK, M
<1>3. ClockInv' /\ WindowInv'
  BY <1>1, Checked DEF ClockInv, WindowInv, L
<1>4. TwoWindowBound'
  BY <1>1 DEF TwoWindowBound
<1>5. QED
  BY <1>2, <1>3, <1>4

LEMMA ServeIInv == ASSUME IInv, Serve PROVE IInv'
<1> USE LimitAssumption DEF IInv
<1>1. /\ window_start' = CheckedStart /\ request_count' = CheckedCount + 1
      /\ CheckedCount < M
      /\ log' = Append(log, now) /\ UNCHANGED <<now, connected>>
  BY DEF Serve, M
<1>2. /\ L \in Nat /\ L' = L + 1
      /\ \A i \in 1 .. L : log'[i] = log[i] /\ log[i] \in Nat
      /\ log'[L + 1] = now
  BY <1>1 DEF TypeOK, L
<1>3. TypeOK'
  BY <1>1, Checked DEF TypeOK, M
<1>4. ClockInv'
  <2>1. now \in Nat /\ now' = now /\ \A i \in 1 .. L : log[i] <= now
    BY <1>1 DEF ClockInv, TypeOK
  <2>2. \A i \in 1 .. L' : log'[i] <= now
    BY <1>2, <2>1
  <2>3. window_start' <= now /\ request_count' <= L'
    <3>1. CheckedStart <= now /\ CheckedCount \in Nat /\ CheckedCount <= L
      BY Checked DEF M
    <3>2. QED
      BY <1>1, <1>2, <3>1
  <2>4. now >= W
    BY DEF ClockInv
  <2>5. QED
    BY <2>1, <2>2, <2>3, <2>4 DEF ClockInv
<1>5. WindowInv'
  <2> SUFFICES ASSUME NEW i \in 1 .. L'
               PROVE  /\ i > L - CheckedCount => log'[i] >= CheckedStart
                      /\ log'[i] < CheckedStart + W
                      /\ i <= L - CheckedCount => log'[i] < CheckedStart
                      /\ i <= L - CheckedCount - M =>
                           log'[i] < CheckedStart - W
    <3>1. /\ request_count' = CheckedCount + 1 /\ window_start' = CheckedStart
          /\ L' = L + 1 /\ L \in Nat /\ CheckedCount \in Nat
      BY <1>1, <1>2, Checked DEF M
    <3>2. \A i \in 1 .. L' :
            /\ i > L' - request_count' <=> i > L - CheckedCount
            /\ i <= L' - request_count' <=> i <= L - CheckedCount
            /\ i <= L' - request_count' - M <=> i <= L - CheckedCount - M
      BY <3>1 DEF M
    <3>3. QED
      BY <3>1, <3>2 DEF WindowInv
  <2>1. CASE i = L + 1
    <3>1. /\ CheckedStart \in Nat /\ CheckedStart <= now
          /\ now < CheckedStart + W /\ CheckedCount \in Nat
      BY Checked DEF M
    <3>2. log'[i] = now /\ L \in Nat /\ now \in Nat /\ M \in Nat
      BY <1>2, <2>1 DEF TypeOK, M
    <3>3. QED
      BY <2>1, <3>1, <3>2 DEF W
  <2>2. CASE i \in 1 .. L
    BY <1>2, <2>2, Checked
  <2>3. QED
    BY <1>2, <2>1, <2>2
<1>6. TwoWindowBound'
  <2> SUFFICES ASSUME NEW i \in 1 .. L', i + 2 * M <= L'
               PROVE  log'[i + 2 * M] - log'[i] > W
    BY DEF TwoWindowBound, W, M, L
  <2>1. CASE i + 2 * M <= L
    BY <1>2, <2>1 DEF TwoWindowBound, W, M, L
  <2>2. CASE i + 2 * M = L + 1
    <3>1. i <= L - CheckedCount - M
      BY <1>1, <1>2, <2>2, Checked DEF M
    <3>2. log[i] < CheckedStart - W
      BY <1>1, <1>2, <2>2, <3>1, Checked DEF M
    <3>3. i \in 1 .. L
      BY <1>2, <2>2 DEF M
    <3>4. QED
      BY <1>2, <2>2, <3>2, <3>3, Checked DEF TypeOK, W
  <2>3. QED
    BY <1>2, <2>1, <2>2 DEF M
<1>7. QED
  BY <1>3, <1>4, <1>5, <1>6

LEMMA NextIInv == IInv /\ [Next]_vars => IInv'
<1> SUFFICES ASSUME IInv, [Next]_vars PROVE IInv'
  OBVIOUS
<1>1. CASE UNCHANGED vars
  BY <1>1 DEF vars, IInv, TypeOK, ClockInv, WindowInv, TwoWindowBound, L
<1>2. QED
  BY <1>1, TickIInv, ServeIInv, RefuseIInv DEF Next

THEOREM Invariance == Spec => []IInv
BY InitIInv, NextIInv, PTL DEF Spec

\* The counters keep their types; request_count never passes the limit.
THEOREM TypeCorrect == Spec => []TypeOK
<1>1. IInv => TypeOK
  BY DEF IInv
<1>2. QED
  BY <1>1, Invariance, PTL

\* Of 2 * MAX + 1 requests served in a row by one connection, the first and
\* the last are more than a window apart, for every window and every limit.
THEOREM AtMostTwoWindows == Spec => []TwoWindowBound
<1>1. IInv => TwoWindowBound
  BY DEF IInv
<1>2. QED
  BY <1>1, Invariance, PTL

\* Only a client that was served MAX requests in less than a window is cut
\* off, for every window and every limit.
THEOREM ConformingClientKept == Spec => CutOnlyWhenOver
<1>1. ASSUME IInv, [Next]_vars, connected, ~ connected'
      PROVE  L >= M /\ now - log[L - M + 1] < W
  <2>1. Refuse
    BY <1>1 DEF Next, Tick, Serve, vars, IInv, TypeOK
  <2>2. CheckedCount = M
    BY <1>1, <2>1, Checked, LimitAssumption DEF Refuse, M
  <2>3. L \in Nat /\ now \in Nat /\ \A i \in 1 .. L : log[i] \in Nat
    BY <1>1 DEF IInv, TypeOK, L
  <2>4. L >= M /\ L - M + 1 \in 1 .. L
    BY <1>1, <2>2, <2>3, Checked, LimitAssumption DEF M
  <2>5. log[L - M + 1] >= CheckedStart
    BY <1>1, <2>2, <2>3, <2>4, Checked, LimitAssumption DEF M
  <2>6. QED
    BY <1>1, <2>3, <2>4, <2>5, Checked, LimitAssumption DEF W
<1>2. QED
  BY <1>1, Invariance, PTL DEF Spec, CutOnlyWhenOver, W, M, L
=============================================================================
