------------------------------- MODULE RateLimiter -------------------------------
(***************************************************************************)
(* The limiters of the credential routes and the store they count in        *)
(* (rate-limit.middleware.ts, rate-limit-store.ts): Redis while its         *)
(* commands work, the memory of the instance otherwise, with tighter caps   *)
(* for the instances that count alone.                                      *)
(*                                                                          *)
(* One address and one window are followed: requests pass the credential    *)
(* limiter, which counts all of them, then the failure limiter, whose count *)
(* is taken back when the answer was a success. A count and the comparison  *)
(* with the limit are two steps: replies of Redis to other requests of the  *)
(* instance may be handled in between. express-rate-limit is external: it   *)
(* increments, then asks for the limit, and refuses above it.               *)
(***************************************************************************)
EXTENDS Integers, FiniteSets

CONSTANTS
    Instances,      \* API processes
    LoginRequests,  \* requests under way at once
    Limits,         \* per limiter: [normal, emergency]
    MaxHits,        \* bound on the requests of the window
    MaxFaults       \* bound on the changes of Redis

ASSUME RateConstants ==
    /\ IsFiniteSet(Instances) /\ IsFiniteSet(LoginRequests)
    /\ MaxHits \in Nat /\ MaxFaults \in Nat
    /\ \A l \in {"credential", "failures"} :
          Limits[l].normal \in Nat /\ Limits[l].emergency \in Nat

VARIABLES
    rlRedis,        \* "up", "rejecting" (connected, commands fail) or "down"
    shared,         \* the counts in Redis
    memory,         \* the counts of each instance's MemoryStore
    failing,        \* failingStores of each instance
    hit,            \* the requests
    hits, faults,   \* bounds: requests begun, changes of Redis
    admitted, failures,     \* ghosts: requests let through; of these, failed answers
    rlRaced         \* ghost: a request passed by a late comparison

rateVars == <<rlRedis, shared, memory, failing, hit, hits, faults, admitted, failures, rlRaced>>

Limiters == {"credential", "failures"}
Fresh == [pc |-> "idle", at |-> "none", in |-> "none"]

\* redisReady and redisHealthy
RedisReady == rlRedis # "down"
RedisHealthy(n) == RedisReady /\ failing[n] = {}

\* authLimit: the emergency cap while the instance counts alone.
AuthLimit(n, l) ==
    IF RedisHealthy(n) \/ Limits[l].normal < Limits[l].emergency
    THEN Limits[l].normal ELSE Limits[l].emergency

\* A store is failing from a failed command to the next one that works. A store
\* that finds Redis down does not become failing.
StoreRecovers(n, l) == failing' = [failing EXCEPT ![n] = @ \ {l}]
StoreFails(n, l) == failing' = [failing EXCEPT ![n] = IF RedisReady THEN @ \cup {l} ELSE @]

\* FailoverStore.increment: in Redis when its command works, else in memory.
Count(r, n, l) ==
    IF rlRedis = "up"
    THEN /\ shared' = [shared EXCEPT ![l] = @ + 1]
         /\ StoreRecovers(n, l)
         /\ hit' = [hit EXCEPT ![r] = [pc |-> l, at |-> n, in |-> "redis", seen |-> shared[l] + 1]]
         /\ UNCHANGED memory
    ELSE /\ memory' = [memory EXCEPT ![n][l] = @ + 1]
         /\ StoreFails(n, l)
         /\ hit' = [hit EXCEPT ![r] = [pc |-> l, at |-> n, in |-> "memory", seen |-> memory[n][l] + 1]]
         /\ UNCHANGED shared

Arrive(r, n) ==
    /\ hit[r].pc = "idle" /\ hits < MaxHits
    /\ hits' = hits + 1
    /\ Count(r, n, "credential")
    /\ UNCHANGED <<rlRedis, faults, admitted, failures, rlRaced>>

\* The limit is asked for after the count. A refused request answers 429.
Refused(r) == hit[r].seen > AuthLimit(hit[r].at, hit[r].pc)

\* A count taken in memory is compared with the limit of the shared store, because the
\* instance has seen Redis recover in between.
ComparedLate(r) == hit[r].in = "memory" /\ RedisHealthy(hit[r].at)

Refuse(r) ==
    /\ hit[r].pc \in Limiters
    /\ Refused(r)
    /\ hit' = [hit EXCEPT ![r] = Fresh]
    /\ UNCHANGED <<rlRedis, shared, memory, failing, hits, faults, admitted, failures,
                   rlRaced>>

\* Past the credential limiter the request is counted by the failure limiter.
PassCredential(r) ==
    /\ hit[r].pc = "credential"
    /\ ~Refused(r)
    /\ admitted' = admitted + 1
    /\ Count(r, hit[r].at, "failures")
    /\ rlRaced' = (rlRaced \/ ComparedLate(r))
    /\ UNCHANGED <<rlRedis, hits, faults, failures>>

PassFailures(r) ==
    /\ hit[r].pc = "failures"
    /\ ~Refused(r)
    /\ hit' = [hit EXCEPT ![r].pc = "handling"]
    /\ rlRaced' = (rlRaced \/ ComparedLate(r))
    /\ UNCHANGED <<rlRedis, shared, memory, failing, hits, faults, admitted, failures>>

\* The answer was a failure: the count stays.
AnswerFailure(r) ==
    /\ hit[r].pc = "handling"
    /\ failures' = failures + 1
    /\ hit' = [hit EXCEPT ![r] = Fresh]
    /\ UNCHANGED <<rlRedis, shared, memory, failing, hits, faults, admitted, rlRaced>>

\* The answer was a success: FailoverStore.decrement takes the count back from
\* the store that works now, which need not be the one it was made in. (The
\* memory store stops at zero, Redis does not.)
AnswerSuccess(r) ==
    LET n == hit[r].at IN
    /\ hit[r].pc = "handling"
    /\ IF rlRedis = "up"
       THEN /\ shared' = [shared EXCEPT !["failures"] = @ - 1]
            /\ StoreRecovers(n, "failures")
            /\ UNCHANGED memory
       ELSE /\ memory' = [memory EXCEPT ![n]["failures"] = IF @ > 0 THEN @ - 1 ELSE @]
            /\ StoreFails(n, "failures")
            /\ UNCHANGED shared
    /\ hit' = [hit EXCEPT ![r] = Fresh]
    /\ UNCHANGED <<rlRedis, hits, faults, admitted, failures, rlRaced>>

RedisChanges(s) ==
    /\ s # rlRedis /\ faults < MaxFaults
    /\ rlRedis' = s /\ faults' = faults + 1
    /\ UNCHANGED <<shared, memory, failing, hit, hits, admitted, failures, rlRaced>>

RateInit ==
    /\ rlRedis \in {"up", "rejecting", "down"}
    /\ shared = [l \in Limiters |-> 0]
    /\ memory = [n \in Instances |-> [l \in Limiters |-> 0]]
    /\ failing = [n \in Instances |-> {}]
    /\ hit = [r \in LoginRequests |-> Fresh]
    /\ hits = 0 /\ faults = 0 /\ admitted = 0 /\ failures = 0
    /\ rlRaced = FALSE

RateNext ==
    \/ \E r \in LoginRequests, n \in Instances : Arrive(r, n)
    \/ \E r \in LoginRequests : \/ Refuse(r) \/ PassCredential(r) \/ PassFailures(r)
                                \/ AnswerFailure(r) \/ AnswerSuccess(r)
    \/ \E s \in {"up", "rejecting", "down"} : RedisChanges(s)

RateSpec == RateInit /\ [][RateNext]_rateVars

-----------------------------------------------------------------------------
Budget(l) ==
    Limits[l].normal + Cardinality(Instances) *
        (IF Limits[l].normal < Limits[l].emergency THEN Limits[l].normal ELSE Limits[l].emergency)

\* Every variable keeps its type; a count of all requests never falls.
RateTypeOK ==
    /\ rlRedis \in {"up", "rejecting", "down"}
    /\ shared["credential"] \in 0..MaxHits /\ shared["failures"] \in (-MaxHits)..MaxHits
    /\ memory \in [Instances -> [Limiters -> 0..MaxHits]]
    /\ failing \in [Instances -> SUBSET Limiters]
    /\ hits \in 0..MaxHits /\ admitted \in 0..MaxHits

\* Whatever Redis does in between, one window lets an address through the
\* credential limiter at most the shared limit and one emergency cap for each
\* instance.
CredentialBudget == ~rlRaced => admitted <= Budget("credential")

\* The same bound holds for failed answers, which is what the failure limiter is
\* for, although the count of a success may be made in one store and taken back in
\* the other: each takes back one, wherever it was counted.
FailureBudget == ~rlRaced => failures <= Budget("failures")

\* An address gets the attempts it is allowed and no more than the hand-over between
\* the stores costs.
LimitsHold == RateTypeOK /\ CredentialBudget /\ FailureBudget
=============================================================================
