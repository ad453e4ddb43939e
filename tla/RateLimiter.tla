----------------------------- MODULE RateLimiter -----------------------------
(***************************************************************************)
(* The request limiter as its own process: callers that send requests with *)
(* the headers the proxy gave them, the store of buckets, its collector,   *)
(* and the restarts that lose it. admitted is the history of the times at  *)
(* which each key was admitted since the last restart.                     *)
(***************************************************************************)
EXTENDS RateLimit, Sequences

CONSTANTS
  Headers,       \* the pairs x-forwarded-for, x-real-ip that requests come with
  NoHeader,
  Limit, LimitWindow,   \* limit and windowMs
  MaxTick        \* bound

ASSUME LimiterAssumption ==
  /\ Limit \in Nat \ {0} /\ LimitWindow \in Nat \ {0}
  /\ NoBucket \notin [count : Nat, windowEnd : Nat]

VARIABLES store, admitted, tick

limiterVars == <<store, admitted, tick>>

Keys == {ClientIp(h[1], h[2], NoHeader) : h \in Headers}

InitLimiter ==
  /\ store = [k \in Keys |-> NoBucket]
  /\ admitted = [k \in Keys |-> << >>]
  /\ tick = 0

\* checkRateLimit, called by a route.
Arrives(k) ==
  /\ store' = [store EXCEPT ![k] = Checked(@, Limit, LimitWindow, tick)]
  /\ admitted' = IF Admits(store[k], Limit, tick)
                 THEN [admitted EXCEPT ![k] = Append(@, tick)]
                 ELSE admitted
  /\ UNCHANGED tick

Request(h) == Arrives(ClientIp(h[1], h[2], NoHeader))

\* purgeExpiredBuckets
Collect ==
  /\ store' = [k \in Keys |-> IF InWindow(store[k], tick) THEN store[k] ELSE NoBucket]
  /\ UNCHANGED <<admitted, tick>>

Restarts ==
  /\ store' = [k \in Keys |-> NoBucket]
  /\ admitted' = [k \in Keys |-> << >>]
  /\ UNCHANGED tick

Passes == tick < MaxTick /\ tick' = tick + 1 /\ UNCHANGED <<store, admitted>>

NextLimiter == (\E h \in Headers : Request(h)) \/ Collect \/ Restarts \/ Passes

SpecLimiter == InitLimiter /\ [][NextLimiter]_limiterVars

-----------------------------------------------------------------------------
(* Properties *)

\* A window starts with its first request, so the bound around its end is not
\* Limit: any span shorter than the window admits less than twice the limit to
\* a key (2 * Limit admissions take at least one window), whenever the
\* collector runs. Callers without headers are one key, and share it.
TwiceTheLimitTakesAWindow ==
  \A k \in Keys : \A i \in 1 .. Len(admitted[k]) :
    i + 2 * Limit - 1 <= Len(admitted[k])
      => admitted[k][i + 2 * Limit - 1] - admitted[k][i] >= LimitWindow

=============================================================================
