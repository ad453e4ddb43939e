------------------------------ MODULE RateCache ------------------------------
(***************************************************************************)
(* getRateWithFallback for one currency: the call reads the clock and the  *)
(* cached entry, asks the provider, and serves the fresh rate, or the      *)
(* entry it read when the provider fails. Calls overlap. A rate is the     *)
(* time at which the provider read its market.                             *)
(***************************************************************************)
EXTENDS Naturals

CONSTANTS
  Askers, NoEntry,
  RateLife,      \* BTC_RATE_CACHE_TTL
  MaxMinute      \* bound

ASSUME CacheAssumption == RateLife \in Nat \ {0} /\ NoEntry \notin Nat

VARIABLES
  rateCache,   \* the entry of the currency
  ask,         \* the call of each asker
  quote,       \* the last answer to each asker
  minute

cacheVars == <<rateCache, ask, quote, minute>>

NoCall == [pc |-> "idle"]

InitCache ==
  /\ rateCache = NoEntry
  /\ ask = [a \in Askers |-> NoCall]
  /\ quote = [a \in Askers |-> NoEntry]
  /\ minute = 0

AskRate(a) ==
  /\ ask[a] = NoCall
  /\ ask' = [ask EXCEPT ![a] = [pc |-> "asked", at |-> minute, cached |-> rateCache]]
  /\ UNCHANGED <<rateCache, quote, minute>>

\* The provider reads its market at some time before it answers.
ProviderReads(a) ==
  /\ ask[a].pc = "asked"
  /\ ask' = [ask EXCEPT ![a] = [pc |-> "read", at |-> ask[a].at,
                                cached |-> ask[a].cached, rate |-> minute]]
  /\ UNCHANGED <<rateCache, quote, minute>>

\* Mutant: the entry is stamped when the answer is there.
EntryStamped(rate, asked) ==
  [rate |-> rate, fetchedAt |-> minute, expiresAt |-> minute + RateLife]

Entry(rate, asked) ==
  [rate |-> rate, fetchedAt |-> asked, expiresAt |-> asked + RateLife]

Answered(a, entry) ==
  /\ quote' = [quote EXCEPT ![a] = [rate |-> entry.rate, fetchedAt |-> entry.fetchedAt,
                                    asked |-> ask[a].at]]
  /\ ask' = [ask EXCEPT ![a] = NoCall]
  /\ UNCHANGED minute

\* The answer is cached, over a newer one if that was faster.
FreshRate(a) ==
  LET entry == Entry(ask[a].rate, ask[a].at)
  IN /\ ask[a].pc = "read"
     /\ rateCache' = entry
     /\ Answered(a, entry)

Unexpired(cached, asked) == cached # NoEntry /\ cached.expiresAt > asked

\* The provider is disabled or fails: the entry the call began with, or an error.
ServeCached(a) ==
  /\ ask[a].pc \in {"asked", "read"}
  /\ Unexpired(ask[a].cached, ask[a].at)
  /\ Answered(a, ask[a].cached)
  /\ UNCHANGED rateCache

NoRate(a) ==
  /\ ask[a].pc \in {"asked", "read"}
  /\ ~ Unexpired(ask[a].cached, ask[a].at)
  /\ ask' = [ask EXCEPT ![a] = NoCall]
  /\ quote' = [quote EXCEPT ![a] = NoEntry]
  /\ UNCHANGED <<rateCache, minute>>

\* The process restarts.
LoseCache ==
  /\ rateCache' = NoEntry
  /\ ask' = [a \in Askers |-> NoCall]
  /\ UNCHANGED <<quote, minute>>

MinutePasses ==
  minute < MaxMinute /\ minute' = minute + 1 /\ UNCHANGED <<rateCache, ask, quote>>

NextCache ==
  \/ \E a \in Askers : \/ AskRate(a) \/ ProviderReads(a) \/ FreshRate(a)
                       \/ ServeCached(a) \/ NoRate(a)
  \/ LoseCache \/ MinutePasses

SpecCache == InitCache /\ [][NextCache]_cacheVars

-----------------------------------------------------------------------------
(* Properties *)

\* The rate an invoice is priced at is never older than the time it is recorded
\* with, however slow the provider and whichever answer was cached last, and
\* when the invoice asked that time was less than the entry's life ago.
RateIsNoOlderThanItSays ==
  \A a \in Askers :
    quote[a] # NoEntry =>
      /\ quote[a].fetchedAt <= quote[a].rate
      /\ quote[a].asked < quote[a].fetchedAt + RateLife

=============================================================================
