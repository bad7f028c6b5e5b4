--------------------------- MODULE TenantRateLimiter ---------------------------
(* The token buckets in front of an evaluation (riskengine/rate_limiter.go): *)
(* AllowN takes a token of the platform's bucket, finds or creates the one   *)
(* of the tenant, and takes a token of that, each under a lock of its own.   *)
(* Tokens refill when somebody asks. Time is counted in ticks.               *)
EXTENDS Integers

CONSTANTS
  Tenants, Askers,
  GlobalBurst, TenantBurst,  \* GlobalBurstCap and DefaultBurstCap
  GlobalRate, TenantRate,    \* tokens a tick
  MaxTicks                   \* bound on the clock

ASSUME LimiterAssumption ==
  {GlobalBurst, TenantBurst, GlobalRate, TenantRate, MaxTicks} \subseteq Nat

VARIABLES
  buckets,     \* rl.global, and rl.tenants
  asking,      \* the tenant of each request that has its global token
  ticks,       \* the clock
  given,       \* history: tokens each bucket has given
  givenBefore  \* history: how many of them it had given when each tick began

limiterVars == <<buckets, asking, ticks, given, givenBefore>>

Global == "global"
Nobody == "nobody"
Owners == {Global} \cup Tenants
Capacity(o) == IF o = Global THEN GlobalBurst ELSE TenantBurst
Rate(o) == IF o = Global THEN GlobalRate ELSE TenantRate

\* newTenantBucket
NewBucket(o) == [tokens |-> Capacity(o), refilled |-> ticks]

LimiterTypeOK ==
  /\ Global \in DOMAIN buckets /\ DOMAIN buckets \subseteq Owners
  /\ \A o \in DOMAIN buckets :
       buckets[o] \in [tokens : 0 .. Capacity(o), refilled : 0 .. ticks]
  /\ asking \in [Askers -> Tenants \cup {Nobody}]
  /\ ticks \in 0 .. MaxTicks
  /\ given \in [Owners -> Nat] /\ givenBefore \in [Owners -> [0 .. MaxTicks -> Nat]]

LimiterInit ==
  /\ buckets = [o \in {Global} |-> [tokens |-> GlobalBurst, refilled |-> 0]]
  /\ asking = [r \in Askers |-> Nobody]
  /\ ticks = 0
  /\ given = [o \in Owners |-> 0]
  /\ givenBefore = [o \in Owners |-> [t \in 0 .. MaxTicks |-> 0]]

(* The tokens of a bucket once it is refilled; that of a tenant is created  *)
(* with its first request, under the write lock.                            *)
Refill(o) ==
  LET b == IF o \in DOMAIN buckets THEN buckets[o] ELSE NewBucket(o)
      n == b.tokens + (ticks - b.refilled) * Rate(o)
  IN IF n > Capacity(o) THEN Capacity(o) ELSE n

\* Mutant: the time of the refill is not kept.
TakeForgetting(o) ==
  LET n == Refill(o)
      b == [tokens |-> IF n >= 1 THEN n - 1 ELSE n,
            refilled |-> IF o \in DOMAIN buckets THEN buckets[o].refilled ELSE ticks]
  IN buckets' = [x \in DOMAIN buckets \cup {o} |-> IF x = o THEN b ELSE buckets[x]]

\* What allow(1) leaves of a bucket, whether it has a token or not.
Take(o) ==
  LET n == Refill(o)
      b == [tokens |-> IF n >= 1 THEN n - 1 ELSE n, refilled |-> ticks]
  IN buckets' = [x \in DOMAIN buckets \cup {o} |-> IF x = o THEN b ELSE buckets[x]]

Given(o) == given' = IF Refill(o) >= 1 THEN [given EXCEPT ![o] = @ + 1] ELSE given

AskGlobal(r, t) ==
  /\ asking[r] = Nobody
  /\ Take(Global) /\ Given(Global)
  /\ asking' = IF Refill(Global) >= 1 THEN [asking EXCEPT ![r] = t] ELSE asking
  /\ UNCHANGED <<ticks, givenBefore>>

\* A tenant that is over its rate has used a token of the platform all the same.
AskTenant(r) ==
  /\ asking[r] # Nobody
  /\ Take(asking[r]) /\ Given(asking[r])
  /\ asking' = [asking EXCEPT ![r] = Nobody]
  /\ UNCHANGED <<ticks, givenBefore>>

LimiterTicks ==
  /\ ticks < MaxTicks /\ ticks' = ticks + 1
  /\ givenBefore' = [o \in Owners |-> [givenBefore[o] EXCEPT ![ticks + 1] = given[o]]]
  /\ UNCHANGED <<buckets, asking, given>>

LimiterNext ==
  \/ \E r \in Askers : (\E t \in Tenants : AskGlobal(r, t)) \/ AskTenant(r)
  \/ LimiterTicks

LimiterSpec == LimiterInit /\ [][LimiterNext]_limiterVars

(* In no stretch of time, the last ticks of any moment, does a bucket give  *)
(* more than its burst and what it refills in that time, whoever asks in    *)
(* between.                                                                 *)
NoOverspending ==
  \A o \in Owners, since \in 0 .. ticks :
    given[o] - givenBefore[o][since] <= Capacity(o) + (ticks - since) * Rate(o)

(* Buckets stay within their capacity and their rate, however requests of   *)
(* several tenants interleave.                                              *)
LimitsHold ==
  LimiterTypeOK /\ NoOverspending

================================================================================
