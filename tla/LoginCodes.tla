----------------------------- MODULE LoginCodes -----------------------------
(***************************************************************************)
(* Signing in by a one-time code: the login page, the routes request-code, *)
(* verify-code, me and logout, and the limiter in front of the first two.  *)
(* One e-mail address and one client address; every page has at most one   *)
(* call under way, as its buttons are disabled meanwhile, and every await  *)
(* of a handler is a place where the other pages' handlers run.            *)
(*                                                                         *)
(* A code is its row's number; whoever reads the mail knows it, and any    *)
(* other attempt is a wrong one.                                           *)
(***************************************************************************)
EXTENDS RateLimit, Sequences, FiniteSets

CONSTANTS
  Pages,
  Cooldown,      \* OTP_COOLDOWN_SECONDS
  CodeLife,      \* OTP_TTL_MINUTES
  Window,        \* windowMs, the same everywhere
  SessionLife,   \* SESSION_TTL_DAYS
  MaxAttempts,   \* MAX_OTP_ATTEMPTS
  Limits,        \* limit by route and kind of key
  MaxTime, MaxCodes, MaxFaults   \* bounds

ASSUME ConstantsAssumption ==
  /\ IsFiniteSet(Pages)
  /\ {Cooldown, CodeLife, Window, SessionLife, MaxAttempts} \subseteq Nat \ {0}
  /\ Limits \in [{"request", "verify"} \X {"ip", "email"} -> Nat \ {0}]

VARIABLES
  codes,      \* table login_codes, in the order of creation
  sessions,   \* table sessions, with the code and the page of each
  buckets,    \* the limiter's store
  handler,    \* the handler each page has called
  step,       \* the page's step: email, code, or in
  mailed,     \* the codes that reached the mailbox
  now,
  faults

vars == <<codes, sessions, buckets, handler, step, mailed, now, faults>>
environment == <<now, faults>>

Wrong == 0
Idle == [pc |-> "idle"]

Init ==
  /\ codes = << >>
  /\ sessions = {}
  /\ buckets = [k \in DOMAIN Limits |-> NoBucket]
  /\ handler = [p \in Pages |-> Idle]
  /\ step = [p \in Pages |-> "email"]
  /\ mailed = {}
  /\ now = 0
  /\ faults = 0

\* Mutant: the expiry is not asked about.
ActiveOfAnyAge(t) == {n \in DOMAIN codes : codes[n].there /\ ~ codes[n].consumed}

\* The unconsumed codes that expire after t.
Active(t) == {n \in DOMAIN codes : /\ codes[n].there
                                   /\ ~ codes[n].consumed
                                   /\ codes[n].expires > t}

Latest(S) == {n \in S : \A k \in S : codes[k].created <= codes[n].created}

GoTo(p, pc) == handler' = [handler EXCEPT ![p].pc = pc]

\* The handler is over, and the page shows what it answered.
Answer(p, next) ==
  /\ handler' = [handler EXCEPT ![p] = Idle]
  /\ step' = [step EXCEPT ![p] = next]

-----------------------------------------------------------------------------
(* The limits of a route: by client address, and only then by e-mail. *)

AdmitsKey(k) == Admits(buckets[k], Limits[k], now)

CountKeys(K) ==
  buckets' = [k \in DOMAIN buckets |->
                IF k \in K THEN Checked(buckets[k], Limits[k], Window, now)
                ELSE buckets[k]]

CheckLimits(route) ==
  CountKeys(IF AdmitsKey(<<route, "ip">>)
            THEN {<<route, "ip">>, <<route, "email">>} ELSE {})

PassesLimits(route) == AdmitsKey(<<route, "ip">>) /\ AdmitsKey(<<route, "email">>)

\* A call from the page. Refused, it shows the error and stays where it is.
Call(p, route, given) ==
  /\ handler[p].pc = "idle"
  /\ CheckLimits(route)
  /\ \/ /\ PassesLimits(route)
        /\ handler' = [handler EXCEPT ![p] =
             [pc |-> route, at |-> now, code |-> 0, given |-> given]]
     \/ ~ PassesLimits(route) /\ UNCHANGED handler
  /\ UNCHANGED <<codes, sessions, step, mailed, environment>>

-----------------------------------------------------------------------------
(* POST /api/auth/request-code *)

\* handleRequestCode, and handleResendCode, which stays in the second step.
RequestCode(p) == step[p] # "in" /\ Call(p, "request", Wrong)

Requested(p) == Answer(p, "code")

\* findFirst of a recent active code; one is enough.
CheckCooldown(p) ==
  LET recent == {n \in Active(handler[p].at) : codes[n].created > now - Cooldown}
  IN /\ handler[p].pc = "request"
     /\ \/ recent # {} /\ Requested(p)
        \/ recent = {} /\ GoTo(p, "replace") /\ UNCHANGED step
     /\ UNCHANGED <<codes, sessions, buckets, mailed, environment>>

\* updateMany of the previous codes.
ReplacePrevious(p) ==
  /\ handler[p].pc = "replace"
  /\ codes' = [n \in DOMAIN codes |->
                 [codes[n] EXCEPT !.consumed = @ \/ n \in Active(handler[p].at)]]
  /\ GoTo(p, "create")
  /\ UNCHANGED <<sessions, buckets, step, mailed, environment>>

CreateCode(p) ==
  /\ handler[p].pc = "create"
  /\ Len(codes) < MaxCodes
  /\ codes' = Append(codes, [created |-> now, expires |-> now + CodeLife,
                             consumed |-> FALSE, attempts |-> 0, there |-> TRUE])
  /\ handler' = [handler EXCEPT ![p].pc = "mail", ![p].code = Len(codes) + 1]
  /\ UNCHANGED <<sessions, buckets, step, mailed, environment>>

\* sendEmail, or the console.
SendCode(p) ==
  /\ handler[p].pc = "mail"
  /\ mailed' = mailed \cup {handler[p].code}
  /\ Requested(p)
  /\ UNCHANGED <<codes, sessions, buckets, environment>>

\* sendEmail throws, whether or not the mail is out.
SendFails(p) ==
  /\ handler[p].pc = "mail"
  /\ faults < MaxFaults
  /\ faults' = faults + 1
  /\ mailed' \in {mailed, mailed \cup {handler[p].code}}
  /\ GoTo(p, "undo")
  /\ UNCHANGED <<codes, sessions, buckets, step, now>>

UndoCode(p) ==
  /\ handler[p].pc = "undo"
  /\ codes' = [codes EXCEPT ![handler[p].code].there = FALSE]
  /\ Answer(p, step[p])
  /\ UNCHANGED <<sessions, buckets, mailed, environment>>

-----------------------------------------------------------------------------
(* POST /api/auth/verify-code *)

\* handleVerifyCode, with a code from the mailbox or a wrong one.
VerifyCode(p) ==
  /\ step[p] = "code"
  /\ \E given \in mailed \cup {Wrong} : Call(p, "verify", given)

\* Mutant: the attempts are not checked.
NeverSpent(n) == FALSE

Spent(n) == codes[n].attempts >= MaxAttempts

\* The latest active code, its attempts, and whether it is the one given.
FindCode(p) ==
  LET latest == Latest(Active(handler[p].at))
  IN /\ handler[p].pc = "verify"
     /\ \/ /\ latest = {} \/ \E n \in latest : Spent(n)
           /\ Answer(p, step[p])
        \/ /\ \E n \in {k \in latest : ~ Spent(k)} :
                handler' = [handler EXCEPT ![p].code = n,
                  ![p].pc = IF handler[p].given = n THEN "consume" ELSE "miss"]
           /\ UNCHANGED step
     /\ UNCHANGED <<codes, sessions, buckets, mailed, environment>>

\* attempts: { increment: 1 }
CountMiss(p) ==
  LET n == handler[p].code
  IN /\ handler[p].pc = "miss"
     /\ codes' = [codes EXCEPT ![n].attempts = @ + 1]
     /\ Answer(p, step[p])
     /\ UNCHANGED <<sessions, buckets, mailed, environment>>

\* Mutant: the update does not ask for an unconsumed row.
MayStillConsume(n) == codes[n].there

MayConsume(n) == codes[n].there /\ ~ codes[n].consumed

\* updateMany where consumed_at is null: a count of one, or another was first.
ConsumeCode(p) ==
  LET n == handler[p].code
  IN /\ handler[p].pc = "consume"
     /\ \/ /\ MayConsume(n)
           /\ codes' = [codes EXCEPT ![n].consumed = TRUE]
           /\ GoTo(p, "cleanup")
           /\ UNCHANGED step
        \/ /\ ~ MayConsume(n)
           /\ Answer(p, step[p])
           /\ UNCHANGED codes
     /\ UNCHANGED <<sessions, buckets, mailed, environment>>

\* deleteMany of the expired codes, best effort.
CleanUp(p) ==
  /\ handler[p].pc = "cleanup"
  /\ codes' \in {codes, [n \in DOMAIN codes |->
       [codes[n] EXCEPT !.there = @ /\ codes[n].expires >= handler[p].at]]}
  /\ GoTo(p, "session")
  /\ UNCHANGED <<sessions, buckets, step, mailed, environment>>

\* The user is upserted, the session stored, the cookie set; the page moves on.
CreateSession(p) ==
  /\ handler[p].pc = "session"
  /\ sessions' = sessions \cup
       {[code |-> handler[p].code, page |-> p, expires |-> now + SessionLife]}
  /\ Answer(p, "in")
  /\ UNCHANGED <<codes, buckets, mailed, environment>>

-----------------------------------------------------------------------------
(* The rest: sessions, the page, the limiter's collector, failures. *)

\* requireUserId
Authorizes(s) == s.expires > now

\* GET /api/auth/me deletes an expired session it is asked about.
Me(s) ==
  /\ ~ Authorizes(s)
  /\ sessions' = sessions \ {s}
  /\ UNCHANGED <<codes, buckets, handler, step, mailed, environment>>

\* POST /api/auth/logout, and the page is opened anew.
Logout(s) ==
  /\ sessions' = sessions \ {s}
  /\ handler[s.page].pc = "idle"
  /\ step' = [step EXCEPT ![s.page] = "email"]
  /\ UNCHANGED <<codes, buckets, handler, mailed, environment>>

\* "Change email": the other address is another instance, so the page returns
\* to its first step.
ChangeEmail(p) ==
  /\ step[p] = "code"
  /\ handler[p].pc = "idle"
  /\ step' = [step EXCEPT ![p] = "email"]
  /\ UNCHANGED <<codes, sessions, buckets, handler, mailed, environment>>

\* purgeExpiredBuckets
Purge ==
  /\ buckets' = [k \in DOMAIN buckets |->
                   IF InWindow(buckets[k], now) THEN buckets[k] ELSE NoBucket]
  /\ buckets' # buckets
  /\ UNCHANGED <<codes, sessions, handler, step, mailed, environment>>

\* A query fails: the handler answers 500 and has done what it had done.
HandlerFails(p) ==
  /\ handler[p].pc # "idle"
  /\ faults < MaxFaults
  /\ faults' = faults + 1
  /\ Answer(p, step[p])
  /\ UNCHANGED <<codes, sessions, buckets, mailed, now>>

\* The server restarts: its handlers are gone and so is the limiter's store.
Restart ==
  /\ faults < MaxFaults
  /\ faults' = faults + 1
  /\ handler' = [p \in Pages |-> Idle]
  /\ buckets' = [k \in DOMAIN buckets |-> NoBucket]
  /\ UNCHANGED <<codes, sessions, step, mailed, now>>

AdvanceClock ==
  /\ now < MaxTime
  /\ now' = now + 1
  /\ UNCHANGED <<codes, sessions, buckets, handler, step, mailed, faults>>

PageStep(p) ==
  \/ RequestCode(p) \/ CheckCooldown(p) \/ ReplacePrevious(p) \/ CreateCode(p)
  \/ SendCode(p) \/ SendFails(p) \/ UndoCode(p)
  \/ VerifyCode(p) \/ FindCode(p) \/ CountMiss(p) \/ ConsumeCode(p)
  \/ CleanUp(p) \/ CreateSession(p)
  \/ ChangeEmail(p) \/ HandlerFails(p)

Next ==
  \/ \E p \in Pages : PageStep(p)
  \/ \E s \in sessions : Me(s) \/ Logout(s)
  \/ Purge \/ Restart \/ AdvanceClock

Spec == Init /\ [][Next]_vars

-----------------------------------------------------------------------------
(* Properties *)

\* The stored values are of their types, and no bucket counts beyond its limit.
TypeOK ==
  /\ codes \in Seq([created : Nat, expires : Nat, consumed : BOOLEAN,
                    attempts : Nat, there : BOOLEAN])
  /\ \A s \in sessions : s.code \in DOMAIN codes /\ s.page \in Pages
  /\ \A k \in DOMAIN Limits : buckets[k] # NoBucket =>
       buckets[k].count \in 1 .. Limits[k]
  /\ \A p \in Pages : handler[p] # Idle => handler[p].at \in 0 .. now
  /\ step \in [Pages -> {"email", "code", "in"}]

\* However many calls present it at once, a code opens one session, and only a
\* code that reached the mailbox and is consumed opens one.
OneSessionPerCode ==
  \A s \in sessions :
    /\ s.code \in mailed
    /\ codes[s.code].consumed
    /\ \A t \in sessions : s.code = t.code => s = t

\* The attempts are checked on a row read earlier, so calls under way together
\* may exceed them, by the calls that overlap and no more.
GuessesAreBounded ==
  \A n \in DOMAIN codes :
    codes[n].attempts < MaxAttempts + Cardinality(Pages)

\* Used, replaced or withdrawn.
Dead(n) == codes[n].consumed \/ ~ codes[n].there

\* A dead code never comes to life, and a verification takes a code only while
\* it is alive, and only one that had not expired when the call came in: whatever
\* happened to it since the handler read it, it opens no other session.
DeadCodesStayDead ==
  [][/\ \A n \in DOMAIN codes : Dead(n) => Dead(n)'
     /\ \A p \in Pages :
          handler'[p].pc = "cleanup" /\ handler[p].pc # "cleanup" =>
            /\ ~ Dead(handler[p].code)
            /\ codes[handler[p].code].expires > handler[p].at]_vars

=============================================================================
