------------------------------ MODULE AgentLedger ------------------------------
(***************************************************************************)
(* The commission an agent earns by the completed orders of the sellers     *)
(* they recruited: credited as pending in the transaction that completes an *)
(* order, moved to the available balance by a job once the hold is over,    *)
(* paid out on request and approved by an administrator.                    *)
(*                                                                          *)
(* Every operation is a transaction at READ COMMITTED and takes two steps:  *)
(* what it reads without a lock, and its writes with the commit.  The job   *)
(* runs under withJobLock, whose key lapses by itself: a second worker may  *)
(* run it before the first has ended, and without Redis it runs unlocked.   *)
(***************************************************************************)
EXTENDS Integers, FiniteSets, FiniteSetsExt

CONSTANTS
    Agents,
    Sales,          \* orders that get completed
    RecruiterOf,    \* the agent who recruited the seller of an order, or NoAgent
    SaleBase,       \* subtotal less discount of an order
    Rates,          \* commission rates an administrator may set
    Minimums,       \* payoutMinimum values
    PayoutAmounts,  \* amounts an agent may ask for
    PayoutIds,
    Crediters,      \* completions under way
    PayoutRequests, \* requestPayout calls
    Approvers,      \* approvePayout calls
    Maturers,       \* workers that run maturePendingCommissions
    RateEditors,    \* updateConfig calls
    MaxRateVersion, \* bound on configuration versions
    MaxFailures,    \* bound on maturation transactions that fail
    NoAgent

ASSUME AgentConstants ==
    /\ IsFiniteSet(Agents) /\ IsFiniteSet(Sales) /\ IsFiniteSet(PayoutIds)
    /\ IsFiniteSet(PayoutRequests)
    /\ RecruiterOf \in [Sales -> Agents \cup {NoAgent}]
    /\ SaleBase \in [Sales -> Nat]
    /\ Rates \subseteq Nat /\ Minimums \subseteq Nat
    /\ PayoutAmounts \subseteq Nat \ {0} /\ IsFiniteSet(PayoutAmounts) /\ PayoutAmounts # {}
    /\ MaxRateVersion \in Nat /\ MaxFailures \in Nat
    /\ NoAgent \notin Agents

VARIABLES
    agentAccount,   \* AgentCommissionAccount rows
    commission,     \* SALE_COMMISSION transaction of an order
    agentPayout,    \* AgentPayouts rows
    rateConfigs,    \* active AgentCommissionConfigurations rows
    agentCall,      \* the progress of every request
    maturing,       \* what each worker has listed and not yet handled
    failures,       \* maturation transactions that failed so far
    jobsOverlapped  \* history: two workers were in the job at once

agentVars == <<agentAccount, commission, agentPayout, rateConfigs, agentCall, maturing,
               failures, jobsOverlapped>>

AgentRequests == Crediters \cup PayoutRequests \cup Approvers \cup RateEditors \cup Maturers

AgentIdle == [pc |-> "idle", agent |-> NoAgent, subject |-> NoAgent, amount |-> 0, rows |-> {}]

AgentDone(c) == agentCall' = [agentCall EXCEPT ![c] = AgentIdle]

-----------------------------------------------------------------------------
(* Configuration                                                            *)

DefaultRates == [version |-> 0, rate |-> 1, minimum |-> 1, enabled |-> TRUE]

\* getActiveConfig: an active row of the highest version, or the built-in defaults.
ActiveRates ==
    IF rateConfigs = {} THEN {DefaultRates}
    ELSE {r \in rateConfigs : \A s \in rateConfigs : s.version <= r.version}

AgentInit ==
    /\ agentAccount = [a \in Agents |-> [available |-> 0, pending |-> 0, earned |-> 0, paid |-> 0]]
    /\ commission = [o \in Sales |-> [status |-> "NONE", amount |-> 0, due |-> FALSE]]
    /\ agentPayout = [p \in PayoutIds |-> [status |-> "NONE", agent |-> NoAgent, amount |-> 0]]
    /\ rateConfigs = {}
    /\ agentCall = [c \in AgentRequests |-> AgentIdle]
    /\ maturing = [w \in Maturers |-> {}]
    /\ failures = 0
    /\ jobsOverlapped = FALSE

\* updateConfig reads the active row; the updateMany that retires the active rows
\* sees those that are committed when it begins.
RatesRead(e, rate, minimum, enabled) ==
    /\ agentCall[e].pc = "idle"
    /\ \E current \in ActiveRates :
         /\ current.version < MaxRateVersion
         /\ agentCall' = [agentCall EXCEPT ![e] =
              [AgentIdle EXCEPT !.pc = "rates",
                 !.subject = [version |-> current.version + 1, rate |-> rate,
                              minimum |-> minimum, enabled |-> enabled],
                 !.rows = rateConfigs]]
    /\ UNCHANGED <<agentAccount, commission, agentPayout, rateConfigs, maturing, failures, jobsOverlapped>>

RatesWrite(e) ==
    /\ agentCall[e].pc = "rates"
    /\ rateConfigs' = (rateConfigs \ agentCall[e].rows) \cup {agentCall[e].subject}
    /\ AgentDone(e)
    /\ UNCHANGED <<agentAccount, commission, agentPayout, maturing, failures, jobsOverlapped>>

-----------------------------------------------------------------------------
(* Commission of an order                                                   *)

\* creditOrderCommission up to its writes: nothing is credited twice, for a seller
\* nobody recruited, while commissions are off or when the amount rounds to zero.
CreditRead(c, o) ==
    /\ agentCall[c].pc = "idle"
    /\ commission[o].status = "NONE"
    /\ RecruiterOf[o] # NoAgent
    /\ \E config \in ActiveRates :
         /\ config.enabled
         /\ SaleBase[o] * config.rate > 0
         /\ agentCall' = [agentCall EXCEPT ![c] =
              [AgentIdle EXCEPT !.pc = "credit", !.agent = RecruiterOf[o], !.subject = o,
                                !.amount = SaleBase[o] * config.rate]]
    /\ UNCHANGED <<agentAccount, commission, agentPayout, rateConfigs, maturing, failures, jobsOverlapped>>

CreditTo(account, a, amount) ==
    [account EXCEPT ![a].pending = @ + amount, ![a].earned = @ + amount]

\* The increments and the transaction row; the row of another completion of the same
\* order violates the unique referenceKey and rolls this one back.
CreditWrite(c) ==
    LET o == agentCall[c].subject amount == agentCall[c].amount IN
    /\ agentCall[c].pc = "credit"
    /\ IF commission[o].status = "NONE"
       THEN /\ agentAccount' = CreditTo(agentAccount, agentCall[c].agent, amount)
            /\ commission' = [commission EXCEPT ![o] =
                                [status |-> "PENDING", amount |-> amount, due |-> FALSE]]
       ELSE UNCHANGED <<agentAccount, commission>>
    /\ AgentDone(c)
    /\ UNCHANGED <<agentPayout, rateConfigs, maturing, failures, jobsOverlapped>>

\* maturesAt passes.
HoldEnds(o) ==
    /\ commission[o].status # "NONE" /\ ~commission[o].due
    /\ commission' = [commission EXCEPT ![o].due = TRUE]
    /\ UNCHANGED <<agentAccount, agentPayout, rateConfigs, agentCall, maturing, failures, jobsOverlapped>>

-----------------------------------------------------------------------------
(* Maturation job                                                           *)

Due == {o \in Sales : commission[o].status = "PENDING" /\ commission[o].due}

MatureStart(w) ==
    /\ agentCall[w].pc = "idle" /\ maturing[w] = {} /\ Due # {}
    /\ maturing' = [maturing EXCEPT ![w] = Due]
    /\ jobsOverlapped' = (jobsOverlapped \/ \E v \in Maturers \ {w} : maturing[v] # {})
    /\ UNCHANGED <<agentAccount, commission, agentPayout, rateConfigs, agentCall, failures>>

\* One listed transaction re-read in a transaction of its own; one that is no longer
\* PENDING is passed over.
MatureRead(w, o) ==
    /\ agentCall[w].pc = "idle" /\ o \in maturing[w]
    /\ IF commission[o].status = "PENDING"
       THEN /\ agentCall' = [agentCall EXCEPT ![w] =
                 [AgentIdle EXCEPT !.pc = "mature", !.agent = RecruiterOf[o], !.subject = o,
                                   !.amount = commission[o].amount]]
            /\ UNCHANGED maturing
       ELSE /\ maturing' = [maturing EXCEPT ![w] = @ \ {o}]
            /\ UNCHANGED agentCall
    /\ UNCHANGED <<agentAccount, commission, agentPayout, rateConfigs, failures, jobsOverlapped>>

\* Variant of MatureWrite that forgets to take the amount off the pending balance.
MatureWrite_KeepPending(w) ==
    LET o == agentCall[w].subject a == agentCall[w].agent IN
    /\ agentCall[w].pc = "mature"
    /\ agentAccount' = [agentAccount EXCEPT ![a].available = @ + agentCall[w].amount]
    /\ commission' = [commission EXCEPT ![o].status = "MATURED"]
    /\ maturing' = [maturing EXCEPT ![w] = @ \ {o}]
    /\ AgentDone(w)
    /\ UNCHANGED <<agentPayout, rateConfigs, failures, jobsOverlapped>>

MatureWrite(w) ==
    LET o == agentCall[w].subject a == agentCall[w].agent IN
    /\ agentCall[w].pc = "mature"
    /\ agentAccount' = [agentAccount EXCEPT ![a].pending = @ - agentCall[w].amount,
                                            ![a].available = @ + agentCall[w].amount]
    /\ commission' = [commission EXCEPT ![o].status = "MATURED"]
    /\ maturing' = [maturing EXCEPT ![w] = @ \ {o}]
    /\ AgentDone(w)
    /\ UNCHANGED <<agentPayout, rateConfigs, failures, jobsOverlapped>>

\* The transaction fails; the job logs it and goes on with the next.
MatureFail(w) ==
    /\ agentCall[w].pc = "mature" /\ failures < MaxFailures
    /\ maturing' = [maturing EXCEPT ![w] = @ \ {agentCall[w].subject}]
    /\ failures' = failures + 1
    /\ AgentDone(w)
    /\ UNCHANGED <<agentAccount, commission, agentPayout, rateConfigs, jobsOverlapped>>

-----------------------------------------------------------------------------
(* Payouts                                                                  *)

\* requestPayout: the minimum of the configuration and the balance are read first.
RequestRead(r, a, amount) ==
    /\ agentCall[r].pc = "idle"
    /\ \E config \in ActiveRates : amount >= config.minimum
    /\ agentAccount[a].available >= amount
    /\ agentCall' = [agentCall EXCEPT ![r] =
                       [AgentIdle EXCEPT !.pc = "request", !.agent = a, !.amount = amount]]
    /\ UNCHANGED <<agentAccount, commission, agentPayout, rateConfigs, maturing, failures, jobsOverlapped>>

\* Variant of RequestWrite that records the payout and leaves the balance.
RequestWrite_KeepBalance(r, p) ==
    LET a == agentCall[r].agent amount == agentCall[r].amount IN
    /\ agentCall[r].pc = "request" /\ agentPayout[p].status = "NONE"
    /\ agentPayout' = [agentPayout EXCEPT ![p] = [status |-> "PENDING", agent |-> a, amount |-> amount]]
    /\ AgentDone(r)
    /\ UNCHANGED <<agentAccount, commission, rateConfigs, maturing, failures, jobsOverlapped>>

\* The decrement carries no condition of its own.
RequestWrite(r, p) ==
    LET a == agentCall[r].agent amount == agentCall[r].amount IN
    /\ agentCall[r].pc = "request" /\ agentPayout[p].status = "NONE"
    /\ agentAccount' = [agentAccount EXCEPT ![a].available = @ - amount]
    /\ agentPayout' = [agentPayout EXCEPT ![p] = [status |-> "PENDING", agent |-> a, amount |-> amount]]
    /\ AgentDone(r)
    /\ UNCHANGED <<commission, rateConfigs, maturing, failures, jobsOverlapped>>

\* approvePayout: the status is read, then the increment and the new status written.
ApproveRead(q, p) ==
    /\ agentCall[q].pc = "idle"
    /\ agentPayout[p].status \in {"PENDING", "PROCESSING"}
    /\ agentCall' = [agentCall EXCEPT ![q] =
                       [AgentIdle EXCEPT !.pc = "approve", !.agent = agentPayout[p].agent,
                                         !.subject = p, !.amount = agentPayout[p].amount]]
    /\ UNCHANGED <<agentAccount, commission, agentPayout, rateConfigs, maturing, failures, jobsOverlapped>>

ApproveWrite(q) ==
    LET c == agentCall[q] IN
    /\ c.pc = "approve"
    /\ agentAccount' = [agentAccount EXCEPT ![c.agent].paid = @ + c.amount]
    /\ agentPayout' = [agentPayout EXCEPT ![c.subject].status = "COMPLETED"]
    /\ AgentDone(q)
    /\ UNCHANGED <<commission, rateConfigs, maturing, failures, jobsOverlapped>>

-----------------------------------------------------------------------------
AgentNext ==
    \/ \E e \in RateEditors, rate \in Rates, minimum \in Minimums, enabled \in BOOLEAN :
         RatesRead(e, rate, minimum, enabled)
    \/ \E e \in RateEditors : RatesWrite(e)
    \/ \E c \in Crediters, o \in Sales : CreditRead(c, o)
    \/ \E c \in Crediters : CreditWrite(c)
    \/ \E o \in Sales : HoldEnds(o)
    \/ \E w \in Maturers : MatureStart(w) \/ MatureWrite(w) \/ MatureFail(w)
    \/ \E w \in Maturers, o \in Sales : MatureRead(w, o)
    \/ \E r \in PayoutRequests, a \in Agents, amount \in PayoutAmounts : RequestRead(r, a, amount)
    \/ \E r \in PayoutRequests, p \in PayoutIds : RequestWrite(r, p)
    \/ \E q \in Approvers, p \in PayoutIds : ApproveRead(q, p)
    \/ \E q \in Approvers : ApproveWrite(q)

\* The cron of a worker fires for ever and its transactions end; one that fails now
\* and then is listed again by a later run.
AgentFairness ==
    /\ \A w \in Maturers : WF_agentVars(MatureStart(w))
    /\ \A w \in Maturers, o \in Sales : WF_agentVars(MatureRead(w, o))
    /\ \A w \in Maturers : WF_agentVars(MatureWrite(w))

AgentSpec == AgentInit /\ [][AgentNext]_agentVars /\ AgentFairness

-----------------------------------------------------------------------------
(* Properties                                                               *)

\* Rows and requests keep their types; balances may be overdrawn, totals may not, and
\* no commission of zero is on record (creditOrderCommission).
AgentTypeOK ==
    /\ agentAccount \in [Agents -> [available : Int, pending : Int, earned : Nat, paid : Nat]]
    /\ commission \in [Sales -> [status : {"NONE", "PENDING", "MATURED"}, amount : Nat, due : BOOLEAN]]
    /\ \A o \in Sales : commission[o].status # "NONE" => commission[o].amount > 0
    /\ agentPayout \in [PayoutIds -> [status : {"NONE", "PENDING", "COMPLETED"},
                                      agent : Agents \cup {NoAgent}, amount : Nat]]
    /\ \A r \in rateConfigs : r.version \in 1 .. MaxRateVersion
    /\ \A w \in Maturers : maturing[w] \subseteq Sales
    /\ jobsOverlapped \in BOOLEAN

EarnedBy(a) == {o \in Sales : RecruiterOf[o] = a}

PayoutsOf(a) == {p \in PayoutIds : agentPayout[p].agent = a}

\* What a set of orders earned, and what a set of payouts is worth.
Earnings(S) == SumFunctionOnSet([o \in Sales |-> commission[o].amount], S)

PaidTo(a) == SumFunctionOnSet([p \in PayoutIds |-> agentPayout[p].amount], PayoutsOf(a))

\* Whatever runs at once, an agent has earned exactly the commissions on record, one
\* for an order, and every peso of it is pending, available or in a payout.
CommissionsAreConserved ==
    \A a \in Agents :
      /\ agentAccount[a].earned = Earnings(EarnedBy(a))
      /\ agentAccount[a].pending + agentAccount[a].available + PaidTo(a) = agentAccount[a].earned

\* As long as no two workers were in the maturation job at once, the pending balance
\* is the commissions that are still PENDING, so none is matured twice.
PendingIsUnmatured ==
    ~jobsOverlapped =>
      \A a \in Agents :
        agentAccount[a].pending = Earnings({o \in EarnedBy(a) : commission[o].status = "PENDING"})

\* Payout requests that overlap can overdraw an agent, by no more than the largest
\* amount for every request but one.
AgentSlack == (Cardinality(PayoutRequests) - 1) * Max(PayoutAmounts)

AgentAccountOf == INSTANCE Account WITH
    Owners   <- Agents,
    Slack    <- AgentSlack,
    balance  <- [a \in Agents |-> agentAccount[a].available],
    credited <- [a \in Agents |-> agentAccount[a].earned - agentAccount[a].pending],
    spent    <- [a \in Agents |-> PaidTo(a)]

\* The available balance is an account: matured commissions are its credits, payouts
\* its debits, and it is never overdrawn by more than AgentSlack.
AgentImplementsAccount == AgentAccountOf!AccountSpec

\* A commission whose hold is over becomes available, although runs of the job
\* overlap and transactions of it fail.
DueCommissionMatures ==
    \A o \in Sales : []<>(commission[o].due => commission[o].status = "MATURED")

\* The books of the agents hold: every commission is conserved, and none matures twice.
CommissionsAreSafe == AgentTypeOK /\ CommissionsAreConserved /\ PendingIsUnmatured
=============================================================================
