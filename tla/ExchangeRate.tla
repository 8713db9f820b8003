---------------------------- MODULE ExchangeRate ----------------------------
(***************************************************************************)
(* controllers/payment.go: the rate of the dollar that prices every card   *)
(* payment.  One rate is cached for the process under a RWMutex.  A miss   *)
(* releases the lock, asks the API, and locks again to store the answer,   *)
(* so misses overlap, and the answer that arrives last is kept, however    *)
(* old it is.                                                              *)
(*                                                                         *)
(* The rate 0 is none: the cache starts with it, and an answer without a   *)
(* positive rate is refused.                                               *)
(***************************************************************************)
EXTENDS Naturals

CONSTANTS
    Callers,        \* requests that initialize a payment
    Quotes,         \* what the API may quote
    RateTTL,        \* exchangeRateCacheTTL
    ClientTimeout,  \* of the HTTP client
    NoRate          \* no value, for the abstract store

ASSUME QuotesAssumption == Quotes \subseteq Nat
ASSUME NoRateAssumption == NoRate \notin Nat \union [value : Nat, left : Nat]
ASSUME RateTimeAssumption == RateTTL \in Nat \ {0} /\ ClientTimeout \in Nat

VARIABLES
    market,         \* the rate the API quotes by now
    cachedUSDToNGN,
    since,          \* time since exchangeRateUpdated; TTL is any longer time
    stage,          \* where each caller is
    remains,        \* time until its HTTP client gives up
    rate,           \* the rate it has
    quoteAge,       \* history: time since the API quoted that rate
    cachedAge       \* history: the same of the cached rate

cacheVars == <<cachedUSDToNGN, since, cachedAge>>
callVars == <<stage, remains, rate, quoteAge>>
rateVars == <<market, cacheVars, callVars>>

Stages == {"idle", "asking", "arriving", "storing", "done"}

RateTypeOK ==
    /\ market \in Quotes
    /\ cachedUSDToNGN \in Quotes \union {0}
    /\ since \in 0 .. RateTTL
    /\ stage \in [Callers -> Stages]
    /\ remains \in [Callers -> 0 .. ClientTimeout]
    /\ rate \in [Callers -> Quotes \union {0}]
    /\ quoteAge \in [Callers -> Nat]
    /\ cachedAge \in Nat

NoCalls ==
    /\ stage = [c \in Callers |-> "idle"]
    /\ remains = [c \in Callers |-> 0]
    /\ rate = [c \in Callers |-> 0]
    /\ quoteAge = [c \in Callers |-> 0]

RateInit ==
    /\ market \in Quotes
    /\ cachedUSDToNGN = 0
    /\ since = RateTTL
    /\ cachedAge = 0
    /\ NoCalls

-----------------------------------------------------------------------------
(* GetUSDToNGNRate.                                                        *)

\* Slip: a rate is used in its last moment, too.
FreshAtTTL == cachedUSDToNGN > 0 /\ since <= RateTTL

Fresh == cachedUSDToNGN > 0 /\ since < RateTTL

\* Slip: a rate that is used is kept for another TTL.
CachedRateRenewing(c) ==
    /\ stage[c] = "idle"
    /\ Fresh
    /\ stage' = [stage EXCEPT ![c] = "done"]
    /\ rate' = [rate EXCEPT ![c] = cachedUSDToNGN]
    /\ quoteAge' = [quoteAge EXCEPT ![c] = cachedAge]
    /\ since' = 0
    /\ UNCHANGED <<market, cachedUSDToNGN, cachedAge, remains>>

\* Under the read lock.
CachedRate(c) ==
    /\ stage[c] = "idle"
    /\ Fresh
    /\ stage' = [stage EXCEPT ![c] = "done"]
    /\ rate' = [rate EXCEPT ![c] = cachedUSDToNGN]
    /\ quoteAge' = [quoteAge EXCEPT ![c] = cachedAge]
    /\ UNCHANGED <<market, cacheVars, remains>>

\* The lock is released and the request sent, also when another caller's is
\* under way.
AskRate(c) ==
    /\ stage[c] = "idle"
    /\ ~Fresh
    /\ stage' = [stage EXCEPT ![c] = "asking"]
    /\ remains' = [remains EXCEPT ![c] = ClientTimeout]
    /\ UNCHANGED <<market, cacheVars, rate, quoteAge>>

\* The API quotes what the rate is now.
APIAnswers(c) ==
    /\ stage[c] = "asking"
    /\ stage' = [stage EXCEPT ![c] = "arriving"]
    /\ rate' = [rate EXCEPT ![c] = market]
    /\ quoteAge' = [quoteAge EXCEPT ![c] = 0]
    /\ UNCHANGED <<market, cacheVars, remains>>

RateArrives(c) ==
    /\ stage[c] = "arriving"
    /\ rate[c] > 0
    /\ stage' = [stage EXCEPT ![c] = "storing"]
    /\ remains' = [remains EXCEPT ![c] = 0]
    /\ UNCHANGED <<market, cacheVars, rate, quoteAge>>

\* No connection, another status, an answer without a positive rate, or none
\* in time: the caller gets the error, and nothing is cached.
AskFails(c) ==
    /\ stage[c] \in {"asking", "arriving"}
    /\ stage' = [stage EXCEPT ![c] = "idle"]
    /\ remains' = [remains EXCEPT ![c] = 0]
    /\ rate' = [rate EXCEPT ![c] = 0]
    /\ quoteAge' = [quoteAge EXCEPT ![c] = 0]
    /\ UNCHANGED <<market, cacheVars>>

\* Under the lock, whatever was stored in the meantime.
StoreRate(c) ==
    /\ stage[c] = "storing"
    /\ cachedUSDToNGN' = rate[c]
    /\ since' = 0
    /\ cachedAge' = quoteAge[c]
    /\ stage' = [stage EXCEPT ![c] = "done"]
    /\ UNCHANGED <<market, remains, rate, quoteAge>>

\* USDToNGN: the price of the plan is converted and the payment initialized.
Convert(c) ==
    /\ stage[c] = "done"
    /\ stage' = [stage EXCEPT ![c] = "idle"]
    /\ rate' = [rate EXCEPT ![c] = 0]
    /\ quoteAge' = [quoteAge EXCEPT ![c] = 0]
    /\ UNCHANGED <<market, cacheVars, remains>>

-----------------------------------------------------------------------------
(* The world.                                                              *)

MarketMoves ==
    /\ \E q \in Quotes \ {market} : market' = q
    /\ UNCHANGED <<cacheVars, callVars>>

OnItsWay(c) == stage[c] \in {"asking", "arriving"}

\* No time passes a timeout, or between the answer and the lock.
RateTick ==
    /\ \A c \in Callers : /\ OnItsWay(c) => remains[c] > 0
                          /\ stage[c] /= "storing"
    /\ since' = IF since < RateTTL THEN since + 1 ELSE RateTTL
    /\ cachedAge' = IF Fresh THEN cachedAge + 1 ELSE cachedAge
    /\ remains' = [c \in Callers |->
           IF OnItsWay(c) THEN remains[c] - 1 ELSE remains[c]]
    /\ quoteAge' = [c \in Callers |->
           IF stage[c] = "arriving" THEN quoteAge[c] + 1 ELSE quoteAge[c]]
    /\ UNCHANGED <<market, cachedUSDToNGN, stage, rate>>

\* The process ends with its cache and its callers.
RateRestart ==
    /\ cachedUSDToNGN' = 0
    /\ since' = RateTTL
    /\ cachedAge' = 0
    /\ stage' = [c \in Callers |-> "idle"]
    /\ remains' = [c \in Callers |-> 0]
    /\ rate' = [c \in Callers |-> 0]
    /\ quoteAge' = [c \in Callers |-> 0]
    /\ UNCHANGED market

RateNext ==
    \/ \E c \in Callers :
           \/ CachedRate(c)
           \/ AskRate(c)
           \/ APIAnswers(c)
           \/ RateArrives(c)
           \/ AskFails(c)
           \/ StoreRate(c)
           \/ Convert(c)
    \/ MarketMoves
    \/ RateTick
    \/ RateRestart

RateSpec == RateInit /\ [][RateNext]_rateVars

-----------------------------------------------------------------------------
(* Properties.                                                             *)

\* A price is made with a positive rate that the API quoted less than one TTL
\* and one timeout ago: also when misses overlap and a slow answer replaces a
\* newer one, which then counts as new (GetUSDToNGNRate).
QuotesAreRecent ==
    \A c \in Callers :
        stage[c] = "done" => rate[c] > 0 /\ quoteAge[c] < RateTTL + ClientTimeout

\* The cached rate while it is fresh, and what the callers are given.
RateShown ==
    [k \in {"NGN"} |->
        IF Fresh THEN [value |-> cachedUSDToNGN, left |-> RateTTL - 1 - since]
                 ELSE NoRate]

RateGiven == [c \in Callers |-> IF stage[c] = "done" THEN rate[c] ELSE NoRate]

RS == INSTANCE TimedStore WITH
          Keys <- {"NGN"}, Values <- Quotes \ {0}, Life <- RateTTL - 1,
          Nothing <- NoRate, store <- RateShown, given <- RateGiven

\* Lock, misses and timeouts together are a store with a time to live: a rate
\* is served until fifteen minutes after it was stored and never later, and a
\* caller that asked the API itself gets the rate it found (GetUSDToNGNRate).
RateImplementsStore == RS!StoreSpec
=============================================================================
