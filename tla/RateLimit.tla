----------------------------- MODULE RateLimit -----------------------------
(***************************************************************************)
(* lib/security: the fixed-window limiter and the client address it is     *)
(* keyed by, as operators of the routes that call them. A bucket is a      *)
(* count and the end of its window, or NoBucket. All of it is synchronous: *)
(* no other request runs in between.                                       *)
(***************************************************************************)
EXTENDS Integers

CONSTANT NoBucket

\* Within its window a bucket counts on; afterwards it is as if it were not there.
InWindow(bucket, now) == bucket # NoBucket /\ now < bucket.windowEnd

\* Mutant: one too many.
AdmitsOneMore(bucket, limit, now) ==
  InWindow(bucket, now) => bucket.count <= limit

Admits(bucket, limit, now) == InWindow(bucket, now) => bucket.count < limit

\* The bucket after a request it admits; one it refuses leaves it alone.
Counted(bucket, window, now) ==
  IF InWindow(bucket, now)
  THEN [bucket EXCEPT !.count = @ + 1]
  ELSE [count |-> 1, windowEnd |-> now + window]

\* checkRateLimit: the bucket after any request.
Checked(bucket, limit, window, now) ==
  IF Admits(bucket, limit, now) THEN Counted(bucket, window, now) ELSE bucket

\* getClientIp, a header being an address or Absent.
ClientIp(forwardedFor, realIp, Absent) ==
  CASE forwardedFor # Absent -> forwardedFor
    [] forwardedFor = Absent /\ realIp # Absent -> realIp
    [] OTHER -> "unknown"

=============================================================================
