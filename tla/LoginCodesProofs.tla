--------------------------- MODULE LoginCodesProofs ---------------------------
(***************************************************************************)
(* The login codes, for every number of pages, codes, restarts and faults: *)
(* types and limits, one session for a code, the bound on wrong attempts,  *)
(* and that a code once dead stays dead.                                   *)
(***************************************************************************)
EXTENDS LoginCodes, FiniteSetTheorems, TLAPS

Codes == [created : Nat, expires : Nat, consumed : BOOLEAN, attempts : Nat, there : BOOLEAN]

Handlers ==
  [pc : {"request", "replace", "create", "mail", "undo",
         "verify", "miss", "consume", "cleanup", "session"},
   at : Nat, code : Nat, given : Nat]

Buckets == [count : Nat, windowEnd : Nat]

Typed ==
  /\ codes \in Seq(Codes)
  /\ sessions \subseteq [code : Nat, page : Pages, expires : Nat]
  /\ handler \in [Pages -> {Idle} \cup Handlers]
  /\ step \in [Pages -> {"email", "code", "in"}]
  /\ mailed \subseteq DOMAIN codes
  /\ now \in Nat

\* No bucket counts beyond its limit.
BucketFits(bucket, limit) ==
  /\ bucket \in Buckets \cup {NoBucket}
  /\ bucket # NoBucket => bucket.count \in 1 .. limit

BucketsHold ==
  /\ DOMAIN buckets = DOMAIN Limits
  /\ buckets = [k \in DOMAIN buckets |-> buckets[k]]
  /\ \A k \in DOMAIN Limits : BucketFits(buckets[k], Limits[k])

\* A handler that has consumed its code and is about to open a session.
Opening(h) == h.pc \in {"cleanup", "session"}

\* A handler among these codes, these mailed and these sessions: what it was given
\* was mailed, and the code it opens a session for is consumed and unused.
Fits(h, rows, sent, open, time) ==
  /\ h.pc # "idle" => h.at <= time /\ h.given \in sent \cup {Wrong}
  /\ h.pc \in {"mail", "undo", "miss", "consume", "cleanup", "session"} =>
       h.code \in DOMAIN rows
  /\ h.pc \in {"consume", "cleanup", "session"} => h.code \in sent
  /\ Opening(h) => rows[h.code].consumed /\ \A s \in open : s.code # h.code

OpeningsDiffer ==
  \A p, q \in Pages :
    p # q /\ Opening(handler[p]) /\ Opening(handler[q])
      => handler[p].code # handler[q].code

SessionsHold ==
  \A s \in sessions :
    /\ s.code \in mailed
    /\ codes[s.code].consumed
    /\ \A t \in sessions : s.code = t.code => s = t

\* The handlers that have found a wrong attempt and have yet to count it.
Missing(n) == {p \in Pages : handler[p].pc = "miss" /\ handler[p].code = n}

AttemptsFit(n) ==
  codes[n].attempts + Cardinality(Missing(n)) < MaxAttempts + Cardinality(Pages)

IInv ==
  /\ Typed
  /\ BucketsHold
  /\ \A p \in Pages : Fits(handler[p], codes, mailed, sessions, now)
  /\ OpeningsDiffer
  /\ SessionsHold
  /\ \A n \in DOMAIN codes : AttemptsFit(n)

-----------------------------------------------------------------------------
(* Lemmas *)

LEMMA CodesDomain ==
  ASSUME Typed
  PROVE  /\ DOMAIN codes = 1 .. Len(codes) /\ Len(codes) \in Nat
         /\ Wrong \notin DOMAIN codes
         /\ \A n \in DOMAIN codes : codes[n] \in Codes /\ n \in Nat
BY DEF Typed, Wrong

LEMMA BusyHandler ==
  ASSUME Typed, NEW p \in Pages, handler[p].pc # "idle"
  PROVE  handler[p] \in Handlers
BY DEF Typed, Idle

LEMMA MissingIsFinite ==
  ASSUME NEW n
  PROVE  /\ IsFiniteSet(Missing(n)) /\ Cardinality(Missing(n)) \in Nat
         /\ Cardinality(Pages) \in Nat /\ Cardinality(Missing(n)) <= Cardinality(Pages)
<1>1. Missing(n) \subseteq Pages
  BY DEF Missing
<1> QED BY <1>1, ConstantsAssumption, FS_Subset, FS_CardinalityType

\* Whoever misses it, a row with attempts left stays within the bound.
LEMMA FewAttemptsFit ==
  ASSUME NEW n, codes'[n].attempts \in Nat, codes'[n].attempts < MaxAttempts
  PROVE  AttemptsFit(n)'
<1>1. MaxAttempts \in Nat
  BY ConstantsAssumption
<1>2. Missing(n)' \subseteq Pages
  BY DEF Missing
<1>3. /\ Cardinality(Missing(n)') \in Nat /\ Cardinality(Pages) \in Nat
      /\ Cardinality(Missing(n)') <= Cardinality(Pages)
  BY <1>2, ConstantsAssumption, FS_Subset, FS_CardinalityType
<1> QED BY <1>1, <1>3 DEF AttemptsFit

\* The attempts of a row and the handlers that miss it do not grow.
LEMMA AttemptsStay ==
  ASSUME NEW n, AttemptsFit(n), codes[n].attempts \in Nat,
         codes'[n].attempts = codes[n].attempts, Missing(n)' \subseteq Missing(n)
  PROVE  AttemptsFit(n)'
<1>1. MaxAttempts \in Nat
  BY ConstantsAssumption
<1>2. IsFiniteSet(Missing(n)) /\ Cardinality(Missing(n)) \in Nat /\ Cardinality(Pages) \in Nat
  BY MissingIsFinite
<1>3. IsFiniteSet(Missing(n)') /\ Cardinality(Missing(n)') <= Cardinality(Missing(n))
  BY <1>2, FS_Subset
<1>4. Cardinality(Missing(n)') \in Nat
  BY <1>3, FS_CardinalityType
<1> QED BY <1>1, <1>2, <1>3, <1>4 DEF AttemptsFit

\* One handler moves; rows and mails may be added, and rows be consumed.
LEMMA HandlerMoves ==
  ASSUME IInv, NEW p \in Pages, NEW r \in {Idle} \cup Handlers,
         handler' = [handler EXCEPT ![p] = r],
         codes' \in Seq(Codes), DOMAIN codes \subseteq DOMAIN codes',
         \A n \in DOMAIN codes : codes[n].consumed => codes'[n].consumed,
         mailed \subseteq mailed', mailed' \subseteq DOMAIN codes',
         step' \in [Pages -> {"email", "code", "in"}],
         BucketsHold', UNCHANGED <<sessions, now>>,
         Fits(r, codes', mailed', sessions, now),
         \A q \in Pages \ {p} : Opening(r) /\ Opening(handler[q]) => handler[q].code # r.code,
         \A n \in DOMAIN codes' : AttemptsFit(n)'
  PROVE  IInv'
<1>1. /\ handler' \in [Pages -> {Idle} \cup Handlers] /\ handler'[p] = r
      /\ \A q \in Pages \ {p} : handler'[q] = handler[q]
  BY DEF IInv, Typed
<1>2. Typed'
  BY <1>1 DEF IInv, Typed
<1>4. ASSUME NEW q \in Pages PROVE Fits(handler'[q], codes', mailed', sessions, now)
  <2>1. CASE q = p
    BY <1>1, <2>1
  <2>2. CASE q # p
    <3>1. Fits(handler[q], codes, mailed, sessions, now)
      BY DEF IInv
    <3>2. Opening(handler[q]) => handler[q].code \in DOMAIN codes
      BY <3>1 DEF Fits, Opening
    <3> QED BY <1>1, <2>2, <3>1, <3>2 DEF Fits
  <2> QED BY <2>1, <2>2
<1>5. OpeningsDiffer'
  BY <1>1 DEF IInv, OpeningsDiffer
<1>6. SessionsHold'
  BY DEF IInv, SessionsHold, Typed
<1> QED BY <1>2, <1>4, <1>5, <1>6 DEF IInv

\* The same where rows and mails stay.
LEMMA OnlyHandlerMoves ==
  ASSUME IInv, NEW p \in Pages, NEW r \in {Idle} \cup Handlers,
         handler' = [handler EXCEPT ![p] = r],
         step' \in [Pages -> {"email", "code", "in"}],
         BucketsHold', UNCHANGED <<codes, sessions, mailed, now>>,
         Fits(r, codes, mailed, sessions, now),
         Opening(r) => Opening(handler[p]) /\ r.code = handler[p].code,
         r.pc = "miss" => codes[r.code].attempts < MaxAttempts
  PROVE  IInv'
<1>1. \A q \in Pages \ {p} : Opening(r) /\ Opening(handler[q]) => handler[q].code # r.code
  BY DEF IInv, OpeningsDiffer
<1>2. ASSUME NEW n \in DOMAIN codes' PROVE AttemptsFit(n)'
  <2>1. codes[n].attempts \in Nat /\ codes'[n] = codes[n] /\ AttemptsFit(n)
    BY CodesDomain DEF IInv, Codes
  <2>2. CASE r.pc = "miss" /\ r.code = n
    <3>1. codes'[n].attempts < MaxAttempts
      BY <2>1, <2>2
    <3> QED BY <2>1, <3>1, FewAttemptsFit
  <2>3. CASE ~ (r.pc = "miss" /\ r.code = n)
    <3>1. Missing(n)' \subseteq Missing(n)
      BY <2>3 DEF IInv, Typed, Missing
    <3> QED BY <2>1, <3>1, AttemptsStay
  <2> QED BY <2>2, <2>3
<1>3. codes' \in Seq(Codes) /\ mailed' \subseteq DOMAIN codes'
  BY DEF IInv, Typed
<1> QED BY <1>1, <1>2, <1>3, HandlerMoves

\* No handler moves; sessions may end and time may pass.
LEMMA NoHandlerMoves ==
  ASSUME IInv, UNCHANGED <<codes, handler, mailed>>, sessions' \subseteq sessions,
         step' \in [Pages -> {"email", "code", "in"}],
         BucketsHold', now' \in Nat, now <= now'
  PROVE  IInv'
<1>1. Typed'
  BY DEF IInv, Typed
<1>2. ASSUME NEW p \in Pages PROVE Fits(handler[p], codes, mailed, sessions, now)'
  <2>1. Fits(handler[p], codes, mailed, sessions, now)
    BY DEF IInv
  <2>2. handler[p].pc # "idle" => handler[p].at \in Nat
    BY BusyHandler DEF IInv, Handlers
  <2>3. handler[p].pc # "idle" => handler[p].at <= now'
    BY <2>1, <2>2 DEF Fits, IInv, Typed
  <2> QED BY <2>1, <2>3 DEF Fits
<1>3. OpeningsDiffer' /\ SessionsHold'
  BY DEF IInv, OpeningsDiffer, SessionsHold
<1>4. ASSUME NEW n \in DOMAIN codes' PROVE AttemptsFit(n)'
  BY DEF IInv, AttemptsFit, Missing
<1> QED BY <1>1, <1>2, <1>3, <1>4 DEF IInv

\* The limiter's own invariant.
LEMMA CheckedFits ==
  ASSUME NEW bucket, NEW limit \in Nat \ {0}, NEW time \in Nat, BucketFits(bucket, limit)
  PROVE  BucketFits(Checked(bucket, limit, Window, time), limit)
<1> USE ConstantsAssumption DEF BucketFits, Buckets, Checked, Admits, Counted
<1>1. CASE InWindow(bucket, time)
  <2>1. bucket \in Buckets /\ bucket.count \in 1 .. limit
    BY <1>1 DEF InWindow
  <2>2. CASE bucket.count < limit
    <3> DEFINE b == [bucket EXCEPT !.count = @ + 1]
    <3>1. b \in Buckets /\ b.count \in 1 .. limit
      BY <2>1, <2>2
    <3>2. Checked(bucket, limit, Window, time) = b
      BY <1>1, <2>2
    <3> QED BY <3>1, <3>2
  <2>3. CASE ~ (bucket.count < limit)
    BY <1>1, <2>3
  <2> QED BY <2>2, <2>3
<1>2. CASE ~ InWindow(bucket, time)
  BY <1>2
<1> QED BY <1>1, <1>2

LEMMA CheckLimitsKeeps ==
  ASSUME IInv, NEW route, CheckLimits(route)
  PROVE  BucketsHold'
<1>1. now \in Nat /\ BucketsHold
  BY DEF IInv, Typed
<1>2. \A k \in DOMAIN Limits : Limits[k] \in Nat \ {0}
  BY ConstantsAssumption
<1>3. PICK K : buckets' = [k \in DOMAIN buckets |->
                IF k \in K THEN Checked(buckets[k], Limits[k], Window, now)
                ELSE buckets[k]]
  BY DEF CheckLimits, CountKeys
<1>4. \A k \in DOMAIN Limits : BucketFits(buckets'[k], Limits[k])
  BY <1>1, <1>2, <1>3, CheckedFits DEF BucketsHold
<1> QED BY <1>1, <1>3, <1>4 DEF BucketsHold

\* A call of a route, admitted or not.
LEMMA CallKeeps ==
  ASSUME IInv, NEW p \in Pages, NEW route \in {"request", "verify"},
         NEW given \in mailed \cup {Wrong}, Call(p, route, given)
  PROVE  IInv'
<1>1. BucketsHold'
  BY CheckLimitsKeeps DEF Call
<1>2. UNCHANGED <<codes, sessions, step, mailed, now>> /\ step \in [Pages -> {"email", "code", "in"}]
      /\ now \in Nat
  BY DEF Call, environment, IInv, Typed
<1>3. CASE handler' = handler
  BY <1>1, <1>2, <1>3, NoHandlerMoves
<1>4. CASE handler' # handler
  <2> DEFINE r == [pc |-> route, at |-> now, code |-> 0, given |-> given]
  <2>1. given \in Nat
    BY CodesDomain DEF IInv, Typed, Wrong
  <2>2. r \in Handlers /\ r.pc = route /\ r.at = now /\ r.given = given
    BY <1>2, <2>1 DEF Handlers
  <2>3. handler' = [handler EXCEPT ![p] = r]
    BY <1>4 DEF Call
  <2> HIDE DEF r
  <2>4. Fits(r, codes, mailed, sessions, now)
    BY <1>2, <2>2 DEF Fits, Opening
  <2>5. ~ Opening(r) /\ r.pc # "miss"
    BY <2>2 DEF Opening
  <2> QED BY <1>1, <1>2, <2>2, <2>3, <2>4, <2>5, OnlyHandlerMoves
<1> QED BY <1>3, <1>4

\* The handler answers and nothing else has changed but the counted faults.
LEMMA AnswerKeeps ==
  ASSUME IInv, NEW p \in Pages, NEW next \in {"email", "code", "in"}, Answer(p, next),
         UNCHANGED <<codes, sessions, buckets, mailed, now>>
  PROVE  IInv'
<1>1. Idle.pc = "idle" /\ Fits(Idle, codes, mailed, sessions, now)
      /\ ~ Opening(Idle) /\ Idle.pc # "miss"
  BY DEF Idle, Fits, Opening
<1>2. handler' = [handler EXCEPT ![p] = Idle] /\ step' \in [Pages -> {"email", "code", "in"}]
      /\ BucketsHold'
  BY DEF Answer, IInv, Typed, BucketsHold
<1> QED BY <1>1, <1>2, OnlyHandlerMoves

\* The handler goes on to a place that asks for no more than the one before.
LEMMA GoToKeeps ==
  ASSUME IInv, NEW p \in Pages, handler[p].pc # "idle",
         NEW pc \in {"replace", "create", "undo", "session"}, GoTo(p, pc),
         pc = "undo" => handler[p].pc = "mail",
         pc = "session" => handler[p].pc = "cleanup",
         codes' \in Seq(Codes), DOMAIN codes' = DOMAIN codes,
         \A n \in DOMAIN codes : /\ codes[n].consumed => codes'[n].consumed
                                 /\ codes'[n].attempts = codes[n].attempts,
         mailed \subseteq mailed', mailed' \subseteq DOMAIN codes,
         UNCHANGED <<sessions, buckets, step, now>>
  PROVE  IInv'
<1> DEFINE r == [handler[p] EXCEPT !.pc = pc]
<1>1. handler[p] \in Handlers /\ Fits(handler[p], codes, mailed, sessions, now)
  BY BusyHandler DEF IInv
<1>2. /\ r \in Handlers /\ r.pc = pc /\ r.at = handler[p].at
      /\ r.code = handler[p].code /\ r.given = handler[p].given
  BY <1>1 DEF Handlers
<1>3. handler' = [handler EXCEPT ![p] = r]
  BY DEF GoTo
<1> HIDE DEF r
<1>4. Fits(r, codes', mailed', sessions, now)
  BY <1>1, <1>2 DEF Fits, Opening
<1>5. \A q \in Pages \ {p} : Opening(r) /\ Opening(handler[q]) => handler[q].code # r.code
  BY <1>2 DEF IInv, OpeningsDiffer, Opening
<1>6. ASSUME NEW n \in DOMAIN codes' PROVE AttemptsFit(n)'
  <2>1. Missing(n)' \subseteq Missing(n)
    BY <1>2, <1>3 DEF Missing, IInv, Typed
  <2>2. codes[n].attempts \in Nat /\ codes'[n].attempts = codes[n].attempts /\ AttemptsFit(n)
    BY CodesDomain DEF IInv, Codes
  <2> QED BY <2>1, <2>2, AttemptsStay
<1>7. step' \in [Pages -> {"email", "code", "in"}] /\ BucketsHold'
  BY DEF IInv, Typed, BucketsHold
<1> QED BY <1>2, <1>3, <1>4, <1>5, <1>6, <1>7, HandlerMoves

\* The handler is over, and a row has changed without a new attempt, or a code
\* was mailed.
LEMMA EndKeeps ==
  ASSUME IInv, NEW p \in Pages, NEW next \in {"email", "code", "in"}, Answer(p, next),
         codes' \in Seq(Codes), DOMAIN codes' = DOMAIN codes,
         \A n \in DOMAIN codes : /\ codes[n].consumed => codes'[n].consumed
                                 /\ codes'[n].attempts = codes[n].attempts,
         mailed \subseteq mailed', mailed' \subseteq DOMAIN codes,
         UNCHANGED <<sessions, buckets, now>>
  PROVE  IInv'
<1>1. Idle.pc = "idle" /\ Fits(Idle, codes', mailed', sessions, now) /\ ~ Opening(Idle)
  BY DEF Idle, Fits, Opening
<1>2. handler' = [handler EXCEPT ![p] = Idle] /\ step' \in [Pages -> {"email", "code", "in"}]
      /\ BucketsHold'
  BY DEF Answer, IInv, Typed, BucketsHold
<1>3. ASSUME NEW n \in DOMAIN codes' PROVE AttemptsFit(n)'
  <2>1. Missing(n)' \subseteq Missing(n)
    BY <1>1, <1>2 DEF Missing, IInv, Typed
  <2>2. codes[n].attempts \in Nat /\ codes'[n].attempts = codes[n].attempts /\ AttemptsFit(n)
    BY CodesDomain DEF IInv, Codes
  <2> QED BY <2>1, <2>2, AttemptsStay
<1> QED BY <1>1, <1>2, <1>3, HandlerMoves

-----------------------------------------------------------------------------
(* The steps *)

\* A step that writes every row in its place.
LEMMA RowsWritten ==
  ASSUME Typed, NEW f, f = [n \in DOMAIN codes |-> f[n]],
         \A n \in DOMAIN codes : f[n] \in Codes
  PROVE  f \in Seq(Codes) /\ DOMAIN f = DOMAIN codes
<1>1. DOMAIN codes = 1 .. Len(codes) /\ Len(codes) \in Nat
  BY CodesDomain
<1> QED BY <1>1

LEMMA RequestSteps ==
  ASSUME IInv, NEW p \in Pages,
         CheckCooldown(p) \/ ReplacePrevious(p) \/ SendCode(p) \/ SendFails(p) \/ UndoCode(p)
  PROVE  IInv'
<1>1. Typed /\ step[p] \in {"email", "code", "in"} /\ codes \in Seq(Codes)
      /\ mailed \subseteq DOMAIN codes /\ Fits(handler[p], codes, mailed, sessions, now)
  BY DEF IInv, Typed
<1>2. \A n \in DOMAIN codes : codes[n] \in Codes
  BY <1>1, CodesDomain
<1>3. CASE CheckCooldown(p)
  BY <1>1, <1>3, AnswerKeeps, GoToKeeps DEF CheckCooldown, Requested, environment
<1>4. CASE ReplacePrevious(p)
  <2>1. \A n \in DOMAIN codes :
          /\ codes'[n] = [codes[n] EXCEPT !.consumed = @ \/ n \in Active(handler[p].at)]
    BY <1>4 DEF ReplacePrevious
  <2>2. \A n \in DOMAIN codes :
          /\ codes'[n] \in Codes /\ codes'[n].attempts = codes[n].attempts
          /\ codes[n].consumed => codes'[n].consumed
    BY <1>2, <2>1 DEF Codes
  <2>3. codes' = [n \in DOMAIN codes |-> codes'[n]]
    BY <1>4 DEF ReplacePrevious
  <2>4. codes' \in Seq(Codes) /\ DOMAIN codes' = DOMAIN codes
    BY <1>1, <2>2, <2>3, RowsWritten
  <2> QED BY <1>1, <1>4, <2>2, <2>4, GoToKeeps DEF ReplacePrevious, environment
<1>5. CASE SendCode(p)
  <2>1. handler[p].code \in DOMAIN codes
    BY <1>1, <1>5 DEF SendCode, Fits
  <2> QED BY <1>1, <1>5, <2>1, EndKeeps DEF SendCode, Requested, environment
<1>6. CASE SendFails(p)
  <2>1. handler[p].code \in DOMAIN codes
    BY <1>1, <1>6 DEF SendFails, Fits
  <2> QED BY <1>1, <1>6, <2>1, GoToKeeps DEF SendFails
<1>7. CASE UndoCode(p)
  <2> DEFINE c == handler[p].code
  <2>1. c \in DOMAIN codes
    BY <1>1, <1>7 DEF UndoCode, Fits
  <2>2. codes' = [codes EXCEPT ![c] = [codes[c] EXCEPT !.there = FALSE]]
    BY <1>7 DEF UndoCode
  <2>3. \A n \in DOMAIN codes :
          /\ codes'[n] \in Codes /\ codes'[n].attempts = codes[n].attempts
          /\ codes[n].consumed => codes'[n].consumed
    BY <1>2, <2>1, <2>2 DEF Codes
  <2>4. codes' = [n \in DOMAIN codes |-> codes'[n]]
    BY <1>1, <2>2
  <2>5. codes' \in Seq(Codes) /\ DOMAIN codes' = DOMAIN codes
    BY <1>1, <2>3, <2>4, RowsWritten
  <2> QED BY <1>1, <1>7, <2>3, <2>5, EndKeeps DEF UndoCode, environment
<1> QED BY <1>3, <1>4, <1>5, <1>6, <1>7

LEMMA CreateKeeps ==
  ASSUME IInv, NEW p \in Pages, CreateCode(p)
  PROVE  IInv'
<1> DEFINE n == Len(codes) + 1
           row == [created |-> now, expires |-> now + CodeLife, consumed |-> FALSE,
                   attempts |-> 0, there |-> TRUE]
           r == [handler[p] EXCEPT !.pc = "mail", !.code = n]
<1>1. handler[p] \in Handlers /\ Fits(handler[p], codes, mailed, sessions, now)
      /\ handler[p].pc = "create"
  BY BusyHandler DEF CreateCode, IInv
<1>2. codes \in Seq(Codes) /\ DOMAIN codes = 1 .. Len(codes) /\ Len(codes) \in Nat
  BY CodesDomain DEF IInv, Typed
<1>3. row \in Codes /\ row.attempts = 0
  BY ConstantsAssumption DEF Codes, IInv, Typed
<1>4. codes' = Append(codes, row)
  BY DEF CreateCode
<1>5. /\ codes' \in Seq(Codes) /\ DOMAIN codes' = DOMAIN codes \cup {n}
      /\ n \in Nat /\ n \notin DOMAIN codes
      /\ codes'[n] = row /\ \A k \in DOMAIN codes : codes'[k] = codes[k]
  BY <1>2, <1>3, <1>4
<1>6. /\ r \in Handlers /\ r.pc = "mail" /\ r.code = n /\ r.at = handler[p].at
      /\ r.given = handler[p].given
  BY <1>1, <1>5 DEF Handlers
<1>7. /\ handler' = [handler EXCEPT ![p] = r]
      /\ UNCHANGED <<sessions, buckets, step, mailed, now>>
  BY DEF CreateCode, environment
<1> HIDE DEF n, row, r
<1>8. Fits(r, codes', mailed', sessions, now) /\ ~ Opening(r)
  BY <1>1, <1>5, <1>6, <1>7 DEF Fits, Opening
<1>9. ASSUME NEW k \in DOMAIN codes' PROVE AttemptsFit(k)'
  <2>1. CASE k = n
    BY <1>3, <1>5, <2>1, FewAttemptsFit, ConstantsAssumption
  <2>2. CASE k \in DOMAIN codes
    <3>1. Missing(k)' \subseteq Missing(k)
      BY <1>6, <1>7 DEF Missing, IInv, Typed
    <3>2. codes[k].attempts \in Nat /\ codes'[k] = codes[k] /\ AttemptsFit(k)
      BY <1>5, <2>2, CodesDomain DEF IInv, Codes
    <3> QED BY <3>1, <3>2, AttemptsStay
  <2> QED BY <1>5, <2>1, <2>2
<1>10. /\ step' \in [Pages -> {"email", "code", "in"}] /\ BucketsHold'
       /\ mailed' \subseteq DOMAIN codes'
  BY <1>5, <1>7 DEF IInv, Typed, BucketsHold
<1> QED BY <1>5, <1>6, <1>7, <1>8, <1>9, <1>10, HandlerMoves

\* The latest active code is compared with what was given.
LEMMA FindKeeps ==
  ASSUME IInv, NEW p \in Pages, FindCode(p)
  PROVE  IInv'
<1>1. Typed /\ step[p] \in {"email", "code", "in"} /\ step \in [Pages -> {"email", "code", "in"}]
      /\ BucketsHold
  BY DEF IInv, Typed
<1>2. UNCHANGED <<codes, sessions, buckets, mailed, now>>
  BY DEF FindCode, environment
<1>3. CASE Answer(p, step[p])
  BY <1>1, <1>2, <1>3, AnswerKeeps
<1>4. CASE ~ Answer(p, step[p])
  <2>1. PICK n \in Latest(Active(handler[p].at)) :
          /\ ~ Spent(n)
          /\ handler' = [handler EXCEPT ![p].code = n,
               ![p].pc = IF handler[p].given = n THEN "consume" ELSE "miss"]
          /\ step' = step
    BY <1>4 DEF FindCode
  <2> DEFINE pc == IF handler[p].given = n THEN "consume" ELSE "miss"
             r == [handler[p] EXCEPT !.code = n, !.pc = pc]
  <2>2. n \in DOMAIN codes /\ n \in Nat /\ n # Wrong /\ codes[n] \in Codes
    BY <1>1, <2>1, CodesDomain DEF Latest, Active
  <2>3. handler[p] \in Handlers /\ Fits(handler[p], codes, mailed, sessions, now)
        /\ handler[p].pc = "verify"
    BY BusyHandler DEF FindCode, IInv
  <2>4. /\ r \in Handlers /\ r.pc = pc /\ r.code = n /\ r.at = handler[p].at
        /\ r.given = handler[p].given
    BY <2>2, <2>3 DEF Handlers
  <2>5. handler' = [handler EXCEPT ![p] = r]
    BY <2>1
  <2>6. pc = "consume" => n \in mailed
    BY <2>2, <2>3 DEF Fits
  <2>7. pc \in {"consume", "miss"}
    OBVIOUS
  <2> HIDE DEF r, pc
  <2>8. Fits(r, codes, mailed, sessions, now) /\ ~ Opening(r)
    BY <2>2, <2>3, <2>4, <2>6, <2>7 DEF Fits, Opening
  <2>9. codes[n].attempts < MaxAttempts
    BY <2>1, <2>2, ConstantsAssumption DEF Spent, Codes
  <2>10. BucketsHold'
    BY <1>1, <1>2 DEF BucketsHold
  <2> QED BY <1>1, <1>2, <2>1, <2>4, <2>5, <2>8, <2>9, <2>10, OnlyHandlerMoves
<1> QED BY <1>3, <1>4

\* A wrong attempt is counted: one more of the row, one fewer under way.
LEMMA CountKeeps ==
  ASSUME IInv, NEW p \in Pages, CountMiss(p)
  PROVE  IInv'
<1> DEFINE c == handler[p].code
<1>1. /\ Typed /\ c \in DOMAIN codes /\ handler[p].pc = "miss"
      /\ codes \in Seq(Codes) /\ \A n \in DOMAIN codes : codes[n] \in Codes
  BY CodesDomain DEF CountMiss, IInv, Fits, Typed
<1>2. /\ codes' = [codes EXCEPT ![c] = [codes[c] EXCEPT !.attempts = @ + 1]]
      /\ handler' = [handler EXCEPT ![p] = Idle]
      /\ step' = [step EXCEPT ![p] = step[p]]
      /\ UNCHANGED <<sessions, buckets, mailed, now>>
  BY DEF CountMiss, Answer, environment
<1> HIDE DEF c
<1>3. \A n \in DOMAIN codes :
        /\ codes'[n] \in Codes /\ (codes[n].consumed => codes'[n].consumed)
        /\ codes'[n].attempts = IF n = c THEN codes[n].attempts + 1 ELSE codes[n].attempts
  <2>1. ASSUME NEW row \in Codes
        PROVE  /\ [row EXCEPT !.attempts = @ + 1] \in Codes
               /\ [row EXCEPT !.attempts = @ + 1].consumed = row.consumed
               /\ [row EXCEPT !.attempts = @ + 1].attempts = row.attempts + 1
    BY DEF Codes
  <2>2. \A n \in DOMAIN codes :
          codes'[n] = IF n = c THEN [codes[n] EXCEPT !.attempts = @ + 1] ELSE codes[n]
    BY <1>1, <1>2
  <2>3. ASSUME NEW n \in DOMAIN codes
        PROVE  /\ codes'[n] \in Codes /\ codes'[n].consumed = codes[n].consumed
               /\ codes'[n].attempts =
                    IF n = c THEN codes[n].attempts + 1 ELSE codes[n].attempts
    <3>1. codes[n] \in Codes
      BY <1>1
    <3>2. CASE n = c
      BY <2>1, <2>2, <3>1, <3>2
    <3>3. CASE n # c
      BY <2>2, <3>1, <3>3
    <3> QED BY <3>2, <3>3
  <2> QED BY <2>3
<1>4. codes' = [n \in DOMAIN codes |-> codes'[n]]
  BY <1>1, <1>2
<1>5. codes' \in Seq(Codes) /\ DOMAIN codes' = DOMAIN codes
  BY <1>1, <1>3, <1>4, RowsWritten
<1>6. Idle.pc = "idle" /\ Fits(Idle, codes', mailed', sessions, now) /\ ~ Opening(Idle)
  BY DEF Idle, Fits, Opening
<1>7. ASSUME NEW n \in DOMAIN codes' PROVE AttemptsFit(n)'
  <2>1. codes[n].attempts \in Nat /\ AttemptsFit(n) /\ MaxAttempts \in Nat
    BY <1>1, <1>5, ConstantsAssumption DEF IInv, Codes
  <2>2. CASE n = c
    <3>1. p \in Missing(n) /\ Missing(n)' = Missing(n) \ {p}
      BY <1>1, <1>2, <1>6, <2>2 DEF Missing, IInv, Typed, c
    <3>2. Cardinality(Missing(n)') = Cardinality(Missing(n)) - 1
      BY <3>1, MissingIsFinite, FS_RemoveElement
    <3>3. Cardinality(Missing(n)) \in Nat /\ Cardinality(Pages) \in Nat
      BY MissingIsFinite
    <3> QED BY <1>3, <1>5, <2>1, <2>2, <3>2, <3>3 DEF AttemptsFit
  <2>3. CASE n # c
    <3>1. Missing(n)' \subseteq Missing(n)
      BY <1>2, <1>6 DEF Missing, IInv, Typed
    <3> QED BY <1>3, <1>5, <2>1, <2>3, <3>1, AttemptsStay
  <2> QED BY <2>2, <2>3
<1>8. /\ step' \in [Pages -> {"email", "code", "in"}] /\ BucketsHold'
      /\ mailed' \subseteq DOMAIN codes'
  BY <1>2, <1>5 DEF IInv, Typed, BucketsHold
<1> QED BY <1>2, <1>3, <1>5, <1>6, <1>7, <1>8, HandlerMoves

\* Only an unconsumed row is consumed, so whoever does is the only one.
LEMMA ConsumeKeeps ==
  ASSUME IInv, NEW p \in Pages, ConsumeCode(p)
  PROVE  IInv'
<1> DEFINE c == handler[p].code
           r == [handler[p] EXCEPT !.pc = "cleanup"]
<1>1. /\ Typed /\ handler[p] \in Handlers /\ handler[p].pc = "consume"
      /\ Fits(handler[p], codes, mailed, sessions, now)
      /\ step[p] \in {"email", "code", "in"} /\ codes \in Seq(Codes)
      /\ mailed \subseteq DOMAIN codes
  BY BusyHandler DEF ConsumeCode, IInv, Typed
<1>2. UNCHANGED <<sessions, buckets, mailed, now>>
  BY DEF ConsumeCode, environment
<1>3. CASE ~ MayConsume(c)
  BY <1>1, <1>2, <1>3, AnswerKeeps DEF ConsumeCode
<1>4. CASE MayConsume(c)
  <2>1. /\ codes' = [codes EXCEPT ![c] = [codes[c] EXCEPT !.consumed = TRUE]]
        /\ handler' = [handler EXCEPT ![p] = r] /\ step' = step
    BY <1>4 DEF ConsumeCode, GoTo
  <2>2. c \in DOMAIN codes /\ c \in mailed /\ ~ codes[c].consumed
    BY <1>1, <1>4 DEF Fits, MayConsume
  <2>3. /\ r \in Handlers /\ r.pc = "cleanup" /\ r.at = handler[p].at /\ r.code = c
        /\ r.given = handler[p].given
    BY <1>1 DEF Handlers
  <2> HIDE DEF r
  <2>4. \A n \in DOMAIN codes : codes[n] \in Codes
    BY <1>1, CodesDomain
  <2>5. \A n \in DOMAIN codes :
          /\ codes'[n] \in Codes /\ (codes[n].consumed => codes'[n].consumed)
          /\ codes'[n].attempts = codes[n].attempts
    BY <2>1, <2>2, <2>4 DEF Codes
  <2>6. codes' = [n \in DOMAIN codes |-> codes'[n]] /\ codes'[c].consumed
    BY <1>1, <2>1, <2>2, <2>4 DEF Codes
  <2>7. codes' \in Seq(Codes) /\ DOMAIN codes' = DOMAIN codes
    BY <1>1, <2>5, <2>6, RowsWritten
  <2>8. \A s \in sessions : s.code # c
    BY <2>2 DEF IInv, SessionsHold
  <2>9. Fits(r, codes', mailed', sessions, now)
    BY <1>1, <1>2, <2>2, <2>3, <2>6, <2>7, <2>8 DEF Fits, Opening
  <2>10. \A q \in Pages \ {p} :
           Opening(r) /\ Opening(handler[q]) => handler[q].code # r.code
    BY <2>2, <2>3 DEF IInv, Fits
  <2>11. ASSUME NEW n \in DOMAIN codes' PROVE AttemptsFit(n)'
    <3>1. Missing(n)' \subseteq Missing(n)
      BY <2>1, <2>3 DEF Missing, IInv, Typed
    <3>2. codes[n].attempts \in Nat /\ codes'[n].attempts = codes[n].attempts /\ AttemptsFit(n)
      BY <2>4, <2>5, <2>7 DEF IInv, Codes
    <3> QED BY <3>1, <3>2, AttemptsStay
  <2>12. /\ step' \in [Pages -> {"email", "code", "in"}] /\ BucketsHold'
         /\ mailed' \subseteq DOMAIN codes'
    BY <1>1, <1>2, <2>1, <2>7 DEF IInv, Typed, BucketsHold
  <2>13. r \in {Idle} \cup Handlers /\ DOMAIN codes \subseteq DOMAIN codes'
         /\ mailed \subseteq mailed'
         /\ \A n \in DOMAIN codes : codes[n].consumed => codes'[n].consumed
    BY <1>2, <2>3, <2>5, <2>7
  <2> HIDE DEF c
  <2> QED BY <1>2, <2>1, <2>7, <2>9, <2>10, <2>11, <2>12, <2>13, HandlerMoves
<1> QED BY <1>3, <1>4

LEMMA CleanUpKeeps ==
  ASSUME IInv, NEW p \in Pages, CleanUp(p)
  PROVE  IInv'
<1>1. Typed /\ mailed \subseteq DOMAIN codes /\ codes \in Seq(Codes)
      /\ \A n \in DOMAIN codes : codes[n] \in Codes
  BY CodesDomain DEF IInv, Typed
<1>2. CASE codes' = codes
  BY <1>1, <1>2, GoToKeeps DEF CleanUp, environment
<1>3. CASE codes' # codes
  <2>1. codes' = [n \in DOMAIN codes |->
          [codes[n] EXCEPT !.there = @ /\ codes[n].expires >= handler[p].at]]
    BY <1>3 DEF CleanUp
  <2>2. \A n \in DOMAIN codes :
          /\ codes'[n] \in Codes /\ codes'[n].attempts = codes[n].attempts
          /\ codes[n].consumed => codes'[n].consumed
    BY <1>1, <2>1 DEF Codes
  <2>3. codes' = [n \in DOMAIN codes |-> codes'[n]]
    BY <2>1
  <2>4. codes' \in Seq(Codes) /\ DOMAIN codes' = DOMAIN codes
    BY <1>1, <2>2, <2>3, RowsWritten
  <2> QED BY <1>1, <2>2, <2>4, GoToKeeps DEF CleanUp, environment
<1> QED BY <1>2, <1>3

\* The session takes the place of the handler that opened it.
LEMMA SessionKeeps ==
  ASSUME IInv, NEW p \in Pages, CreateSession(p)
  PROVE  IInv'
<1> DEFINE s == [code |-> handler[p].code, page |-> p, expires |-> now + SessionLife]
<1>1. /\ handler[p] \in Handlers /\ handler[p].pc = "session"
      /\ Fits(handler[p], codes, mailed, sessions, now)
  BY BusyHandler DEF CreateSession, IInv
<1>2. /\ s \in [code : Nat, page : Pages, expires : Nat] /\ s.code = handler[p].code
      /\ s.code \in mailed /\ codes[s.code].consumed
      /\ \A t \in sessions : t.code # s.code
  BY <1>1, ConstantsAssumption DEF Handlers, Fits, Opening, IInv, Typed
<1>3. /\ sessions' = sessions \cup {s}
      /\ handler' = [handler EXCEPT ![p] = Idle] /\ step' = [step EXCEPT ![p] = "in"]
      /\ UNCHANGED <<codes, buckets, mailed, now>>
  BY DEF CreateSession, Answer, environment
<1> HIDE DEF s
<1>4. /\ handler' \in [Pages -> {Idle} \cup Handlers] /\ handler'[p] = Idle
      /\ \A q \in Pages \ {p} : handler'[q] = handler[q]
      /\ step' \in [Pages -> {"email", "code", "in"}]
  BY <1>3 DEF IInv, Typed
<1>5. Idle.pc = "idle"
  BY DEF Idle
<1>6. Typed'
  BY <1>2, <1>3, <1>4 DEF IInv, Typed
<1>7. BucketsHold' /\ OpeningsDiffer'
  BY <1>3, <1>4, <1>5 DEF IInv, BucketsHold, OpeningsDiffer, Opening
<1>8. ASSUME NEW q \in Pages PROVE Fits(handler[q], codes, mailed, sessions, now)'
  <2>1. CASE q = p
    BY <1>4, <1>5, <2>1 DEF Fits, Opening
  <2>2. CASE q # p
    <3>1. Fits(handler[q], codes, mailed, sessions, now) /\ handler'[q] = handler[q]
      BY <1>4, <2>2 DEF IInv
    <3>2. Opening(handler[q]) => handler[q].code # handler[p].code
      BY <1>1, <2>2 DEF IInv, OpeningsDiffer, Opening
    <3> QED BY <1>2, <1>3, <3>1, <3>2 DEF Fits
  <2> QED BY <2>1, <2>2
<1>9. SessionsHold'
  BY <1>2, <1>3 DEF IInv, SessionsHold
<1>10. ASSUME NEW n \in DOMAIN codes' PROVE AttemptsFit(n)'
  <2>1. Missing(n)' \subseteq Missing(n)
    BY <1>4, <1>5 DEF Missing
  <2>2. codes[n].attempts \in Nat /\ codes'[n] = codes[n] /\ AttemptsFit(n)
    BY <1>3, CodesDomain DEF IInv, Codes
  <2> QED BY <2>1, <2>2, AttemptsStay
<1> QED BY <1>6, <1>7, <1>8, <1>9, <1>10 DEF IInv

\* A restart forgets the handlers and the limiter's store.
LEMMA RestartKeeps ==
  ASSUME IInv, Restart
  PROVE  IInv'
<1>1. /\ handler' = [p \in Pages |-> Idle] /\ Idle.pc = "idle"
      /\ buckets' = [k \in DOMAIN buckets |-> NoBucket]
      /\ UNCHANGED <<codes, sessions, step, mailed, now>>
  BY DEF Restart, Idle, IInv, BucketsHold
<1>2. Typed'
  BY <1>1 DEF IInv, Typed
<1>3. BucketsHold'
  BY <1>1 DEF IInv, BucketsHold, BucketFits
<1>4. (\A p \in Pages : Fits(handler[p], codes, mailed, sessions, now))'
  BY <1>1 DEF Fits, Opening
<1>5. OpeningsDiffer' /\ SessionsHold'
  BY <1>1 DEF IInv, OpeningsDiffer, Opening, SessionsHold
<1>6. ASSUME NEW n \in DOMAIN codes' PROVE AttemptsFit(n)'
  <2>1. Missing(n)' \subseteq Missing(n)
    BY <1>1 DEF Missing
  <2>2. codes[n].attempts \in Nat /\ codes'[n] = codes[n] /\ AttemptsFit(n)
    BY <1>1, CodesDomain DEF IInv, Codes
  <2> QED BY <2>1, <2>2, AttemptsStay
<1> QED BY <1>2, <1>3, <1>4, <1>5, <1>6 DEF IInv

LEMMA InitHolds == Init => IInv
<1> SUFFICES ASSUME Init PROVE IInv
  OBVIOUS
<1>1. Typed
  BY DEF Init, Typed
<1>2. BucketsHold
  BY DEF Init, BucketsHold, BucketFits
<1>3. \A p \in Pages : handler[p] = Idle /\ Idle.pc = "idle"
  BY DEF Init, Idle
<1>4. sessions = {} /\ DOMAIN codes = {}
  BY DEF Init
<1> QED BY <1>1, <1>2, <1>3, <1>4 DEF IInv, Fits, Opening, OpeningsDiffer, SessionsHold

LEMMA StepHolds == IInv /\ [Next]_vars => IInv'
<1> SUFFICES ASSUME IInv, [Next]_vars PROVE IInv'
  OBVIOUS
<1>1. now \in Nat /\ step \in [Pages -> {"email", "code", "in"}] /\ BucketsHold
  BY DEF IInv, Typed
<1>2. ASSUME NEW p \in Pages, PageStep(p) PROVE IInv'
  <2>1. CASE RequestCode(p)
    BY <2>1, CallKeeps DEF RequestCode
  <2>2. CASE VerifyCode(p)
    BY <2>2, CallKeeps DEF VerifyCode
  <2>3. CASE HandlerFails(p)
    BY <1>1, <2>3, AnswerKeeps DEF HandlerFails
  <2>4. CASE ChangeEmail(p)
    BY <1>1, <2>4, NoHandlerMoves DEF ChangeEmail, environment, BucketsHold
  <2> QED BY <1>2, <2>1, <2>2, <2>3, <2>4, RequestSteps, CreateKeeps, FindKeeps,
             CountKeeps, ConsumeKeeps, CleanUpKeeps, SessionKeeps DEF PageStep
<1>3. ASSUME NEW s \in sessions, Me(s) \/ Logout(s) PROVE IInv'
  <2>1. step' \in [Pages -> {"email", "code", "in"}]
    BY <1>1, <1>3 DEF Me, Logout
  <2> QED BY <1>1, <1>3, <2>1, NoHandlerMoves DEF Me, Logout, environment, BucketsHold
<1>4. CASE Purge
  <2>1. BucketsHold'
    BY <1>1, <1>4 DEF Purge, BucketsHold, BucketFits
  <2> QED BY <1>1, <1>4, <2>1, NoHandlerMoves DEF Purge, environment
<1>5. CASE AdvanceClock
  BY <1>1, <1>5, NoHandlerMoves DEF AdvanceClock, BucketsHold
<1>6. CASE UNCHANGED vars
  BY <1>1, <1>6, NoHandlerMoves DEF vars, environment, BucketsHold
<1> QED BY <1>2, <1>3, <1>4, <1>5, <1>6, RestartKeeps DEF Next

LEMMA Invariance == Spec => []IInv
BY InitHolds, StepHolds, PTL DEF Spec

-----------------------------------------------------------------------------
(* Theorems *)

\* Stored values are of their types, and checkRateLimit never counts beyond its
\* limit, whatever the restarts and the collector drop.
THEOREM TypeCorrect == Spec => []TypeOK
<1>1. IInv => TypeOK
  <2> SUFFICES ASSUME IInv PROVE TypeOK
    OBVIOUS
  <2>1. \A s \in sessions : s.code \in DOMAIN codes /\ s.page \in Pages
    BY DEF IInv, Typed, SessionsHold
  <2>2. ASSUME NEW p \in Pages, handler[p] # Idle PROVE handler[p].at \in 0 .. now
    <3>1. handler[p] \in Handlers
      BY <2>2 DEF IInv, Typed
    <3>2. Fits(handler[p], codes, mailed, sessions, now) /\ now \in Nat
      BY DEF IInv, Typed
    <3> QED BY <3>1, <3>2 DEF Handlers, Fits
  <2> QED BY <2>1, <2>2 DEF TypeOK, IInv, Typed, Codes, BucketsHold, BucketFits
<1> QED BY <1>1, Invariance, PTL

\* consumed_at is null in the update's own condition: of any number of calls that
\* found the same row, one opens a session, and for a mailed code only.
THEOREM OneSessionForACode == Spec => []OneSessionPerCode
<1>1. IInv => OneSessionPerCode
  BY DEF IInv, SessionsHold, OneSessionPerCode
<1> QED BY <1>1, Invariance, PTL

\* Each call that overlaps adds one wrong attempt to the limit, and no more.
THEOREM AttemptsAreBounded == Spec => []GuessesAreBounded
<1>1. IInv => GuessesAreBounded
  <2> SUFFICES ASSUME IInv, NEW n \in DOMAIN codes
               PROVE  codes[n].attempts < MaxAttempts + Cardinality(Pages)
    BY DEF GuessesAreBounded
  <2>1. codes[n].attempts \in Nat /\ MaxAttempts \in Nat /\ AttemptsFit(n)
    BY CodesDomain, ConstantsAssumption DEF IInv, Codes
  <2> QED BY <2>1, MissingIsFinite DEF AttemptsFit
<1> QED BY <1>1, Invariance, PTL

\* A step never revives a row, and never moves its expiry.
LEMMA RowsAreKept ==
  ASSUME IInv, NEW p \in Pages, PageStep(p), NEW n \in DOMAIN codes
  PROVE  /\ n \in DOMAIN codes' /\ codes'[n].expires = codes[n].expires
         /\ Dead(n) => Dead(n)'
<1>1. codes \in Seq(Codes) /\ codes[n] \in Codes
  BY CodesDomain DEF IInv, Typed
<1>2. CASE ReplacePrevious(p)
  BY <1>1, <1>2 DEF ReplacePrevious, Dead, Codes
<1>3. CASE CreateCode(p)
  BY <1>1, <1>3 DEF CreateCode, Dead
<1>4. CASE UndoCode(p)
  BY <1>1, <1>4 DEF UndoCode, Dead, Codes
<1>5. CASE CountMiss(p)
  BY <1>1, <1>5 DEF CountMiss, Dead, Codes
<1>6. CASE ConsumeCode(p)
  <2>1. codes' = codes \/ codes' = [codes EXCEPT ![handler[p].code].consumed = TRUE]
    BY <1>6 DEF ConsumeCode
  <2>2. CASE codes' = codes
    BY <2>2 DEF Dead
  <2>3. CASE codes' = [codes EXCEPT ![handler[p].code].consumed = TRUE]
    <3>1. DOMAIN codes' = DOMAIN codes
      BY <2>3
    <3>2. codes'[n] = IF n = handler[p].code THEN [codes[n] EXCEPT !.consumed = TRUE] ELSE codes[n]
      BY <2>3
    <3> QED BY <1>1, <3>1, <3>2 DEF Dead, Codes
  <2> QED BY <2>1, <2>2, <2>3
<1>7. CASE CleanUp(p)
  <2>1. CASE codes' = codes
    BY <2>1 DEF Dead
  <2>2. CASE codes' # codes
    <3>1. codes' = [k \in DOMAIN codes |->
                      [codes[k] EXCEPT !.there = @ /\ codes[k].expires >= handler[p].at]]
      BY <1>7, <2>2 DEF CleanUp
    <3>2. codes'[n] = [codes[n] EXCEPT !.there = @ /\ codes[n].expires >= handler[p].at]
          /\ DOMAIN codes' = DOMAIN codes
      BY <3>1
    <3>3. /\ codes'[n].expires = codes[n].expires /\ codes'[n].consumed = codes[n].consumed
          /\ codes'[n].there => codes[n].there
      BY <1>1, <3>2, Zenon DEF Codes
    <3> QED BY <3>2, <3>3 DEF Dead
  <2> QED BY <2>1, <2>2
<1>8. CASE UNCHANGED codes
  BY <1>8 DEF Dead
<1> QED BY <1>2, <1>3, <1>4, <1>5, <1>6, <1>7, <1>8 DEF PageStep, RequestCode,
      VerifyCode, Call, CheckCooldown, SendCode, SendFails, FindCode, CreateSession,
      ChangeEmail, HandlerFails

\* Only FindCode leads to the update and only the update leads past it, each of
\* them by the page's own handler.
LEMMA WhoConsumes ==
  ASSUME IInv, NEW p \in Pages, PageStep(p), NEW q \in Pages,
         handler'[q] # handler[q], handler'[q].pc \in {"consume", "cleanup"}
  PROVE  /\ q = p
         /\ \/ handler'[q].pc = "consume" /\ FindCode(p)
            \/ handler'[q].pc = "cleanup" /\ ConsumeCode(p)
         /\ handler'[q].at = handler[q].at
         /\ handler'[q].pc = "consume" => handler'[q].code \in Active(handler[q].at)
         /\ handler'[q].pc = "cleanup" => handler[q].pc = "consume" /\ MayConsume(handler[q].code)
<1>1. handler \in [Pages -> {Idle} \cup Handlers] /\ Idle.pc = "idle"
  BY DEF IInv, Typed, Idle
<1>2. CASE ConsumeCode(p)
  <2>1. handler[p] \in Handlers
    BY <1>2, BusyHandler DEF ConsumeCode, IInv
  <2>2. q = p /\ MayConsume(handler[p].code) /\ handler[p].pc = "consume"
    BY <1>1, <1>2 DEF ConsumeCode, Answer, GoTo
  <2>3. handler' = [handler EXCEPT ![p] = [handler[p] EXCEPT !.pc = "cleanup"]]
    BY <1>1, <1>2, <2>2 DEF ConsumeCode, GoTo
  <2> QED BY <1>1, <1>2, <2>1, <2>2, <2>3 DEF Handlers
<1>3. CASE FindCode(p)
  <2>1. handler[p] \in Handlers
    BY <1>3, BusyHandler DEF FindCode, IInv
  <2>2. q = p /\ ~ Answer(p, step[p])
    BY <1>1, <1>3 DEF FindCode, Answer
  <2>3. PICK n \in Active(handler[p].at) :
          handler' = [handler EXCEPT ![p].code = n,
               ![p].pc = IF handler[p].given = n THEN "consume" ELSE "miss"]
    BY <1>3, <2>2 DEF FindCode, Latest
  <2>4. handler'[p] = [handler[p] EXCEPT !.code = n,
               !.pc = IF handler[p].given = n THEN "consume" ELSE "miss"]
    BY <1>1, <2>3
  <2>5. /\ handler'[p].at = handler[p].at /\ handler'[p].code = n
        /\ handler'[p].pc \in {"consume", "miss"}
    BY <2>1, <2>4 DEF Handlers
  <2> QED BY <1>3, <2>2, <2>3, <2>5
<1>4. ASSUME ~ ConsumeCode(p), ~ FindCode(p) PROVE FALSE
  <2>1. ASSUME NEW r, handler' = [handler EXCEPT ![p] = r], r.pc \notin {"consume", "cleanup"}
        PROVE  FALSE
    BY <1>1, <2>1
  <2>2. ASSUME NEW pc, pc \notin {"consume", "cleanup"}, handler[p].pc # "idle",
               handler' = [handler EXCEPT ![p].pc = pc]
        PROVE  FALSE
    <3>1. handler[p] \in Handlers
      BY <2>2, BusyHandler DEF IInv
    <3>2. [handler[p] EXCEPT !.pc = pc].pc = pc
      BY <3>1 DEF Handlers
    <3> QED BY <2>1, <2>2, <3>2
  <2>3. CASE handler' = handler
    BY <2>3
  <2>4. ASSUME NEW next, Answer(p, next) PROVE FALSE
    BY <1>1, <2>1, <2>4 DEF Answer
  <2>5. ~ RequestCode(p) /\ ~ VerifyCode(p)
    BY <2>1, <2>3 DEF RequestCode, VerifyCode, Call
  <2>6. ~ CheckCooldown(p) /\ ~ ReplacePrevious(p) /\ ~ SendCode(p) /\ ~ SendFails(p)
        /\ ~ UndoCode(p) /\ ~ CountMiss(p) /\ ~ CleanUp(p) /\ ~ CreateSession(p)
        /\ ~ HandlerFails(p) /\ ~ ChangeEmail(p)
    BY <2>2, <2>3, <2>4 DEF CheckCooldown, ReplacePrevious, SendCode, SendFails,
      UndoCode, CountMiss, CleanUp, CreateSession, HandlerFails, ChangeEmail,
      Requested, GoTo
  <2>7. ~ CreateCode(p)
    <3> SUFFICES ASSUME CreateCode(p) PROVE FALSE
      OBVIOUS
    <3>1. handler[p] \in Handlers
      BY BusyHandler DEF CreateCode, IInv
    <3>2. [handler[p] EXCEPT !.pc = "mail", !.code = Len(codes) + 1].pc = "mail"
      BY <3>1 DEF Handlers
    <3> QED BY <2>1, <3>2 DEF CreateCode
  <2> QED BY <1>4, <2>5, <2>6, <2>7 DEF PageStep
<1> QED BY <1>2, <1>3, <1>4

\* What a handler is about to consume had not expired when it was called.
ConsumesInTime ==
  \A q \in Pages : handler[q].pc = "consume" => codes[handler[q].code].expires > handler[q].at

\* What the other steps leave alone.
LEMMA OtherSteps ==
  ASSUME [Next]_vars
  PROVE  \/ \E p \in Pages : PageStep(p)
         \/ UNCHANGED <<codes, handler>>
         \/ codes' = codes /\ \A p \in Pages : handler'[p].pc = "idle"
<1>1. CASE Restart
  BY <1>1 DEF Restart, Idle
<1>2. ASSUME NEW s \in sessions, Me(s) \/ Logout(s) PROVE UNCHANGED <<codes, handler>>
  BY <1>2 DEF Me, Logout
<1> QED BY <1>1, <1>2 DEF Next, Purge, AdvanceClock, vars

LEMMA ConsumesStep == IInv /\ ConsumesInTime /\ [Next]_vars => ConsumesInTime'
<1> SUFFICES ASSUME IInv, ConsumesInTime, [Next]_vars, NEW q \in Pages, handler'[q].pc = "consume"
             PROVE  codes'[handler'[q].code].expires > handler'[q].at
  BY DEF ConsumesInTime
<1>1. ASSUME NEW p \in Pages, PageStep(p), handler'[q] = handler[q]
      PROVE  codes'[handler'[q].code].expires > handler'[q].at
  BY <1>1, RowsAreKept DEF ConsumesInTime, IInv, Fits
<1>2. ASSUME NEW p \in Pages, PageStep(p), handler'[q] # handler[q]
      PROVE  codes'[handler'[q].code].expires > handler'[q].at
  <2>1. handler'[q].code \in Active(handler[q].at) /\ handler'[q].at = handler[q].at
    BY <1>2, WhoConsumes
  <2> QED BY <1>2, <2>1, RowsAreKept DEF Active
<1>3. CASE UNCHANGED <<codes, handler>>
  BY <1>3 DEF ConsumesInTime
<1> QED BY <1>1, <1>2, <1>3, OtherSteps

LEMMA ConsumesInvariance == Spec => []ConsumesInTime
<1>1. Init => ConsumesInTime
  BY DEF Init, ConsumesInTime, Idle
<1> QED BY <1>1, ConsumesStep, Invariance, PTL DEF Spec

\* A code that was used, replaced or withdrawn is so for ever, and no handler that
\* read a code before, however late it runs, takes it once it is; nor does one
\* called after its expiry.
THEOREM DeadStayDead == Spec => DeadCodesStayDead
<1> DEFINE Step ==
  /\ \A n \in DOMAIN codes : Dead(n) => Dead(n)'
  /\ \A p \in Pages :
       handler'[p].pc = "cleanup" /\ handler[p].pc # "cleanup" =>
         /\ ~ Dead(handler[p].code)
         /\ codes[handler[p].code].expires > handler[p].at
<1>1. IInv /\ ConsumesInTime /\ [Next]_vars => [Step]_vars
  <2> SUFFICES ASSUME IInv, ConsumesInTime, [Next]_vars PROVE Step
    OBVIOUS
  <2>1. ASSUME NEW p \in Pages, PageStep(p) PROVE Step
    <3>1. \A n \in DOMAIN codes : Dead(n) => Dead(n)'
      BY <2>1, RowsAreKept
    <3>2. ASSUME NEW q \in Pages, handler'[q].pc = "cleanup", handler[q].pc # "cleanup"
          PROVE  ~ Dead(handler[q].code) /\ codes[handler[q].code].expires > handler[q].at
      <4>1. handler[q].pc = "consume" /\ MayConsume(handler[q].code)
        BY <2>1, <3>2, WhoConsumes
      <4> QED BY <4>1 DEF MayConsume, Dead, ConsumesInTime
    <3> QED BY <3>1, <3>2
  <2>2. CASE UNCHANGED <<codes, handler>>
    BY <2>2 DEF Dead
  <2>3. CASE codes' = codes /\ \A p \in Pages : handler'[p].pc = "idle"
    BY <2>3 DEF Dead
  <2> QED BY <2>1, <2>2, <2>3, OtherSteps
<1> QED BY <1>1, Invariance, ConsumesInvariance, PTL DEF Spec, DeadCodesStayDead

=============================================================================
