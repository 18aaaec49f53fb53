----------------------------- MODULE RateLimit -----------------------------
(***************************************************************************)
(* The two stacked token buckets in front of the broker's gated routes     *)
(* (broker/src/rate_limit.rs), for the chats of one user.                  *)
(*                                                                         *)
(* The outer bucket is the user's and is asked first, so that a request    *)
(* which its chat's bucket then refuses has used up a token of the user's. *)
(* The buckets themselves are tower_governor's: one element of the quota   *)
(* goes with a request, and per_second(n) has one come back every n        *)
(* seconds, up to the burst.                                               *)
(***************************************************************************)
EXTENDS Integers

CONSTANTS
    Chat,           \* the chats of the user
    RateLimitPerSecond, RateLimitBurst, RateLimitUserMultiplier

ASSUME RateLimitAssumption ==
    /\ RateLimitPerSecond \in Nat /\ RateLimitBurst \in Nat
    /\ RateLimitUserMultiplier \in Nat

VARIABLES
    bucket,     \* tokens left in each chat's bucket
    purse,      \* tokens left in the user's bucket
    second,     \* seconds since start, modulo Cycle
    refusal,    \* which layer refused the last request: "none", "chat", "user"
    sent,       \* history: what each chat asked since the purse was full
    polled      \* history: a chat overdrew its bucket since then

limitVars == <<bucket, purse, second, refusal, sent, polled>>

(* apply(): zeros are clamped to one. *)
AtLeastOne(n) == IF n = 0 THEN 1 ELSE n
PerSecond == AtLeastOne(RateLimitPerSecond)
Burst == AtLeastOne(RateLimitBurst)
Multiplier == AtLeastOne(RateLimitUserMultiplier)

(* Mutant: the user's bucket is as deep as a chat's. *)
UserBurstOne == Burst

UserPerSecond == PerSecond * Multiplier
UserBurst == Burst * Multiplier

Cycle == UserPerSecond
Refill(period) == IF second % period = 0 THEN 1 ELSE 0
Upto(most, n) == IF n > most THEN most ELSE n

LimitInit ==
    /\ bucket = [c \in Chat |-> Burst]
    /\ purse = UserBurst
    /\ second = 0
    /\ refusal = "none"
    /\ sent = [c \in Chat |-> 0]
    /\ polled = FALSE

(* The layers compose: the user's is outer, and refuses first. *)
Ask(c) ==
    /\ refusal' = CASE purse = 0     -> "user"
                    [] bucket[c] = 0 -> "chat"
                    [] OTHER         -> "none"
    /\ purse' = IF purse = 0 THEN 0 ELSE purse - 1
    /\ bucket' = IF refusal' = "none" THEN [bucket EXCEPT ![c] = @ - 1] ELSE bucket
    /\ sent' = [sent EXCEPT ![c] = Upto(Burst + 1, @ + 1)]
    /\ polled' = (polled \/ bucket[c] = 0)
    /\ UNCHANGED second

Second ==
    /\ second' = (second + 1) % Cycle
    /\ bucket' = [c \in Chat |-> Upto(Burst, bucket[c] + Refill(PerSecond))]
    /\ purse' = Upto(UserBurst, purse + Refill(UserPerSecond))
    /\ refusal' = "none"
    /\ sent' = [c \in Chat |-> IF purse' = UserBurst THEN 0 ELSE sent[c]]
    /\ polled' = (polled /\ purse' < UserBurst)

LimitNext == Second \/ \E c \in Chat : Ask(c)

LimitSpec == LimitInit /\ [][LimitNext]_limitVars

(* A burst of every chat fits the aggregate (rate_limit.rs:6-11): until a  *)
(* chat asks for more than its burst in the time the user's bucket takes to*)
(* fill, and with no more chats than the multiplier provides for, the      *)
(* aggregate refuses none of them, whatever was refilled meanwhile.        *)
BurstsServed == (\A c \in Chat : sent[c] <= Burst) => refusal # "user"

(* What rate_limit.rs:9-11 says: the aggregate is the per-chat budget      *)
(* scaled, so it refuses nothing while each chat stays within its own.     *)
(* Not so: per_second takes a period, and the scaled one is the longer.    *)
WithinBudgetServed == ~ polled => refusal # "user"

(* "One chat's FileNav polling can no longer starve the user's other       *)
(* chats" (rate_limit.rs:8).  Not so: what the polling chat's own bucket   *)
(* refuses still drains the user's.                                        *)
PollingStarvesNobody ==
    refusal = "user" => \A c \in Chat : bucket[c] = 0
=============================================================================
