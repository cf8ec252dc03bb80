------------------------------ MODULE RateLimit ------------------------------
(***************************************************************************)
(* The request limiter of one connection: check_rate_limit and             *)
(* update_rate_limit, as the loop of client_handler calls them for every   *)
(* message it receives.  The limiter counts in fixed windows that open     *)
(* with a request; log remembers when each request was served, so that     *)
(* what a window promises can be said about time and not about counters.   *)
(* time(NULL) is taken never to go back.                                   *)
(***************************************************************************)
EXTENDS Integers, Sequences

CONSTANTS
  RATE_LIMIT_WINDOW,         \* seconds
  RATE_LIMIT_MAX_REQUESTS,
  StartTime,                 \* time(NULL) when the connection is accepted
  MaxTime,                   \* bound: when the clock stops
  MaxRequests                \* bound: requests served in a behaviour

ASSUME LimitAssumption ==
  /\ RATE_LIMIT_WINDOW \in Nat \ {0}
  /\ RATE_LIMIT_MAX_REQUESTS \in Nat \ {0}

\* The epoch lies more than a window back.
ASSUME ClockAssumption ==
  /\ StartTime \in Nat
  /\ StartTime >= RATE_LIMIT_WINDOW

VARIABLES
  now,             \* time(NULL)
  window_start,    \* client->rate_limit.window_start
  request_count,   \* client->rate_limit.request_count
  connected,       \* the handler's loop is running
  log              \* when each request was served

vars == <<now, window_start, request_count, connected, log>>

\* The slot was just wiped: both fields of rate_limit are zero.
Init ==
  /\ now = StartTime
  /\ window_start = 0
  /\ request_count = 0
  /\ connected = TRUE
  /\ log = <<>>

Tick ==
  /\ now < MaxTime
  /\ now' = now + 1
  /\ UNCHANGED <<window_start, request_count, connected, log>>

\* Mutated form of Expired, in no specification: a second too early.
ExpiredEarly == now - window_start >= RATE_LIMIT_WINDOW - 1

\* What check_rate_limit leaves in the two fields before it compares.
Expired == now - window_start >= RATE_LIMIT_WINDOW
CheckedStart == IF Expired THEN now ELSE window_start
\* Mutated form of CheckedCount: a new window keeps the old count.
CheckedCountKept == request_count

CheckedCount == IF Expired THEN 0 ELSE request_count

\* Mutated form of Serve: <= for < in the comparison.
ServeOneMore ==
  /\ connected
  /\ Len(log) < MaxRequests
  /\ CheckedCount <= RATE_LIMIT_MAX_REQUESTS
  /\ window_start' = CheckedStart
  /\ request_count' = CheckedCount + 1
  /\ log' = Append(log, now)
  /\ UNCHANGED <<now, connected>>

\* A request within the limit is counted and dispatched.
Serve ==
  /\ connected
  /\ Len(log) < MaxRequests
  /\ CheckedCount < RATE_LIMIT_MAX_REQUESTS
  /\ window_start' = CheckedStart
  /\ request_count' = CheckedCount + 1
  /\ log' = Append(log, now)
  /\ UNCHANGED <<now, connected>>

\* A request over the limit gets an error and ends the connection.
Refuse ==
  /\ connected
  /\ CheckedCount >= RATE_LIMIT_MAX_REQUESTS
  /\ window_start' = CheckedStart
  /\ request_count' = CheckedCount
  /\ connected' = FALSE
  /\ UNCHANGED <<now, log>>

Next == Tick \/ Serve \/ Refuse

Spec == Init /\ [][Next]_vars

-----------------------------------------------------------------------------

TypeOK ==
  /\ now \in Nat
  /\ window_start \in Nat
  /\ request_count \in 0 .. RATE_LIMIT_MAX_REQUESTS
  /\ connected \in BOOLEAN
  /\ log \in Seq(Nat)

\* What fixed windows do guarantee: of 2 * MAX + 1 requests in a row, the
\* first and the last are more than a window apart.  A burst at the end of
\* one window and the start of the next is the worst a client can do.
TwoWindowBound ==
  \A i \in 1 .. Len(log) :
    i + 2 * RATE_LIMIT_MAX_REQUESTS <= Len(log) =>
      log[i + 2 * RATE_LIMIT_MAX_REQUESTS] - log[i] > RATE_LIMIT_WINDOW

\* A client that keeps the documented rate is never cut off: a connection is
\* ended only when the last MAX requests were all served less than a window
\* ago (protocol.c:140-149, client_handler.c:25-30).
CutOnlyWhenOver ==
  [][connected /\ ~ connected' =>
       /\ Len(log) >= RATE_LIMIT_MAX_REQUESTS
       /\ now - log[Len(log) - RATE_LIMIT_MAX_REQUESTS + 1]
            < RATE_LIMIT_WINDOW]_vars
=============================================================================
