------------------------------- MODULE JobsProofs -------------------------------
(***************************************************************************)
(* What jobs, sweeps and events do, for any number of agents, sales,        *)
(* payouts, sellers, ads, requests under way, promotions and workers: the   *)
(* commissions of the agents, the marketing wallets of the sellers, the     *)
(* windows of promotions, and the composition of it all.                    *)
(*                                                                          *)
(* The sums are statements about one row; what makes them inductive is what *)
(* is on its way.  A request that has passed its check may still debit, so  *)
(* the balance less what the requests under way will take is what stays     *)
(* above the bound; and what an ad counts late was charged before.  An edit *)
(* of a promotion that was checked may still write, and stands apart from   *)
(* the others until it has.                                                 *)
(***************************************************************************)
EXTENDS MCBackgroundJobs, BackgroundProofs, SumTheorems

-----------------------------------------------------------------------------
(* The largest amount                                                      *)

\* A set of numbers that is finite and not empty has a largest member.
LEMMA LargestMember ==
    ASSUME NEW S \in SUBSET Nat, IsFiniteSet(S), S # {}
    PROVE  Max(S) \in S /\ \A x \in S : x <= Max(S)
<1> DEFINE f == [x \in S |-> x]
<1>1. f \in [S -> Int]
  OBVIOUS
<1>2. \E x \in S : \A y \in S : f[y] <= f[x]
  <2> HIDE DEF f
  <2> QED
    BY <1>1, LargestEntry
<1>3. PICK x \in S : \A y \in S : x >= y
  BY <1>2
<1> QED
  BY <1>3 DEF Max

-----------------------------------------------------------------------------
(* Commissions: the shape of the rows and requests                         *)

RateRow == [version : 1 .. MaxRateVersion, rate : Rates, minimum : Minimums, enabled : BOOLEAN]

\* A request of the agent service carries what its operation reads.
AgentCallState ==
    [pc : {"idle", "rates", "credit", "mature", "request", "approve"},
     agent : Agents \cup {NoAgent},
     subject : Sales \cup PayoutIds \cup RateRow \cup {NoAgent},
     amount : Nat, rows : SUBSET RateRow]

\* A maturation under way is of a commission on the worker's list, for the agent who
\* recruited the seller; alone, the worker finds it PENDING when it writes.
Matures(c) ==
    LET o == agentCall[c].subject IN
    /\ c \in Maturers /\ o \in Sales /\ o \in maturing[c]
    /\ agentCall[c].agent = RecruiterOf[o] /\ agentCall[c].agent \in Agents
    /\ agentCall[c].amount = commission[o].amount
    /\ commission[o].status # "NONE"
    /\ ~jobsOverlapped => commission[o].status = "PENDING"

AgentFits(c) ==
    /\ agentCall[c].pc = "rates" => agentCall[c].subject \in RateRow
    /\ agentCall[c].pc = "credit" =>
          /\ agentCall[c].subject \in Sales /\ agentCall[c].agent \in Agents
          /\ agentCall[c].agent = RecruiterOf[agentCall[c].subject]
          /\ agentCall[c].amount > 0
    /\ agentCall[c].pc = "mature" => Matures(c)
    /\ agentCall[c].pc = "request" =>
          /\ c \in PayoutRequests /\ agentCall[c].agent \in Agents
          /\ agentCall[c].amount \in PayoutAmounts
    /\ agentCall[c].pc = "approve" =>
          /\ agentCall[c].agent \in Agents /\ agentCall[c].subject \in PayoutIds
          /\ agentPayout[agentCall[c].subject].agent \in Agents

AgentCallsFit ==
    /\ agentCall \in [AgentRequests -> AgentCallState]
    /\ \A c \in AgentRequests : AgentFits(c)

\* A row that was never made holds nothing; one that was is an agent's.
AgentRowsFit ==
    /\ \A o \in Sales : /\ commission[o].status = "NONE" => commission[o].amount = 0
                        /\ commission[o].status # "NONE" => RecruiterOf[o] \in Agents
    /\ \A p \in PayoutIds : IF agentPayout[p].status = "NONE" THEN agentPayout[p].agent = NoAgent
                            ELSE agentPayout[p].agent \in Agents
    /\ rateConfigs \subseteq RateRow
    /\ maturing \in [Maturers -> SUBSET Sales]

\* What jobsOverlapped rules out.
MaturesAlone ==
    ~jobsOverlapped => \A v, w \in Maturers : maturing[v] # {} /\ maturing[w] # {} => v = w

AgentShape == AgentTypeOK /\ AgentCallsFit /\ AgentRowsFit /\ MaturesAlone

\* What the payout requests under way will take of an agent's balance.
Asked == [r \in PayoutRequests |-> agentCall[r].amount]

Asking(a) == {r \in PayoutRequests : agentCall[r].pc = "request" /\ agentCall[r].agent = a}

\* That the balance is above its bound now says nothing of the debits to come: it is
\* once they are all taken off.
AgentsSolvent ==
    PayoutRequests # {} =>
       \A a \in Agents :
          agentAccount[a].available >= SumFunctionOnSet(Asked, Asking(a)) - AgentSlack

AgentInv ==
    AgentShape /\ CommissionsAreConserved /\ PendingIsUnmatured /\ AgentsSolvent

\* Types by which the steps below are taken apart.
LEMMA AgentTyped ==
    ASSUME AgentShape
    PROVE  /\ agentAccount \in
                 [Agents -> [available : Int, pending : Int, earned : Nat, paid : Nat]]
           /\ commission \in
                 [Sales -> [status : {"NONE", "PENDING", "MATURED"}, amount : Nat, due : BOOLEAN]]
           /\ agentPayout \in
                 [PayoutIds -> [status : {"NONE", "PENDING", "COMPLETED"},
                                agent : Agents \cup {NoAgent}, amount : Nat]]
           /\ agentCall \in [AgentRequests -> AgentCallState]
           /\ maturing \in [Maturers -> SUBSET Sales]
           /\ \A c \in AgentRequests : AgentFits(c)
BY DEF AgentShape, AgentTypeOK, AgentCallsFit, AgentRowsFit

\* A request that did not move still fits, if its maturation does, and
\* the payouts remain the agents'.
LEMMA OtherAgentFits ==
    ASSUME AgentShape, NEW x \in AgentRequests, agentCall'[x] = agentCall[x],
           agentCall[x].pc = "mature" => Matures(x)',
           \A p \in PayoutIds : agentPayout[p].agent \in Agents => agentPayout'[p].agent \in Agents
    PROVE  AgentFits(x)'
<1>1. AgentFits(x)
  BY AgentTyped
<1> QED
  BY <1>1 DEF AgentFits

\* Maturations under way are those of before when nothing they rely on changes.
LEMMA MaturesStay ==
    ASSUME AgentShape, UNCHANGED <<commission, maturing>>, jobsOverlapped => jobsOverlapped',
           NEW x \in AgentRequests, agentCall'[x] = agentCall[x], agentCall[x].pc = "mature"
    PROVE  Matures(x)'
<1>1. Matures(x)
  BY AgentTyped DEF AgentFits
<1> QED
  BY <1>1 DEF Matures

\* One request moved, to where it fits.
LEMMA AgentMoves ==
    ASSUME AgentShape, NEW c \in AgentRequests, NEW r \in AgentCallState,
           agentCall' = [agentCall EXCEPT ![c] = r], AgentFits(c)',
           \A x \in AgentRequests : x # c /\ agentCall[x].pc = "mature" => Matures(x)',
           \A p \in PayoutIds : agentPayout[p].agent \in Agents => agentPayout'[p].agent \in Agents
    PROVE  AgentCallsFit'
<1>1. agentCall \in [AgentRequests -> AgentCallState]
  BY AgentTyped
<1>2. /\ agentCall' \in [AgentRequests -> AgentCallState]
      /\ \A x \in AgentRequests : x # c => agentCall'[x] = agentCall[x]
  BY <1>1
<1>3. ASSUME NEW x \in AgentRequests, x # c PROVE AgentFits(x)'
  BY <1>2, <1>3, OtherAgentFits
<1> QED
  BY <1>2, <1>3 DEF AgentCallsFit

\* One request ended.
LEMMA AgentEnds ==
    ASSUME AgentShape, NEW c \in AgentRequests, AgentDone(c),
           \A x \in AgentRequests : x # c /\ agentCall[x].pc = "mature" => Matures(x)',
           \A p \in PayoutIds : agentPayout[p].agent \in Agents => agentPayout'[p].agent \in Agents
    PROVE  AgentCallsFit' /\ agentCall'[c].pc = "idle"
<1>1. AgentIdle \in AgentCallState /\ AgentIdle.pc = "idle"
  BY DEF AgentIdle, AgentCallState
<1>2. agentCall' = [agentCall EXCEPT ![c] = AgentIdle]
  BY DEF AgentDone
<1>3. agentCall'[c] = AgentIdle
  BY <1>2, AgentTyped
<1>4. AgentFits(c)'
  BY <1>1, <1>3 DEF AgentFits
<1> QED
  BY <1>1, <1>2, <1>3, <1>4, AgentMoves

\* Who did not move, when one request did.
LEMMA AgentOthers ==
    ASSUME AgentShape, NEW c \in AgentRequests, NEW r, agentCall' = [agentCall EXCEPT ![c] = r]
    PROVE  agentCall'[c] = r /\ \A x \in AgentRequests : x # c => agentCall'[x] = agentCall[x]
BY AgentTyped

\* A configuration in force, and what it says.
LEMMA ActiveRatesTyped ==
    ASSUME AgentShape, NEW r \in ActiveRates
    PROVE  r.version \in Nat /\ r.rate \in Nat /\ r.minimum \in Nat
<1>1. CASE rateConfigs = {}
  BY <1>1 DEF ActiveRates, DefaultRates
<1>2. CASE rateConfigs # {}
  <2>1. r \in RateRow
    BY <1>2 DEF ActiveRates, AgentShape, AgentRowsFit
  <2>2. Rates \subseteq Nat /\ Minimums \subseteq Nat /\ MaxRateVersion \in Nat
    BY AgentConstants
  <2>3. r.rate \in Rates /\ r.minimum \in Minimums
    BY <2>1 DEF RateRow
  <2>4. PICK v \in 1 .. MaxRateVersion : v = r.version
    BY <2>1 DEF RateRow
  <2>5. v \in Nat
    BY <2>2
  <2> QED
    BY <2>2, <2>3, <2>4, <2>5, Zenon
<1> QED
  BY <1>1, <1>2

\* A step of a request that writes no row.
LEMMA AgentCallShape ==
    ASSUME AgentShape, AgentCallsFit',
           UNCHANGED <<agentAccount, commission, agentPayout, rateConfigs, maturing, failures,
                       jobsOverlapped>>
    PROVE  AgentShape'
BY DEF AgentShape, AgentTypeOK, AgentRowsFit, MaturesAlone

LEMMA RatesReadShape ==
    ASSUME AgentShape, NEW e \in RateEditors, NEW rate \in Rates, NEW minimum \in Minimums,
           NEW enabled \in BOOLEAN, RatesRead(e, rate, minimum, enabled)
    PROVE  AgentShape'
<1>1. e \in AgentRequests
  BY DEF AgentRequests
<1>2. PICK current \in ActiveRates :
         /\ current.version < MaxRateVersion
         /\ agentCall' = [agentCall EXCEPT ![e] =
              [AgentIdle EXCEPT !.pc = "rates",
                 !.subject = [version |-> current.version + 1, rate |-> rate,
                              minimum |-> minimum, enabled |-> enabled],
                 !.rows = rateConfigs]]
  BY DEF RatesRead
<1>3. PICK v \in 1 .. MaxRateVersion : v = current.version + 1
  BY <1>2, ActiveRatesTyped, AgentConstants
<1>4. PICK row \in RateRow :
         row = [version |-> v, rate |-> rate, minimum |-> minimum, enabled |-> enabled]
  BY DEF RateRow
<1>5. rateConfigs \in SUBSET RateRow
  BY DEF AgentShape, AgentRowsFit
<1>6. PICK r \in AgentCallState :
         r = [AgentIdle EXCEPT !.pc = "rates", !.subject = row, !.rows = rateConfigs]
  BY <1>5 DEF AgentIdle, AgentCallState
<1>7. r.pc = "rates" /\ r.subject = row
  BY <1>6 DEF AgentIdle
<1>8. agentCall' = [agentCall EXCEPT ![e] = r]
  BY <1>2, <1>3, <1>4, <1>6
<1>9. agentCall'[e] = r
  BY <1>1, <1>8, AgentOthers
<1>10. AgentFits(e)'
  BY <1>7, <1>9 DEF AgentFits
<1>11. AgentCallsFit'
  BY <1>1, <1>8, <1>10, MaturesStay, AgentOthers, AgentMoves DEF RatesRead
<1> QED
  BY <1>11, AgentCallShape DEF RatesRead

LEMMA RatesWriteShape ==
    ASSUME AgentShape, NEW e \in RateEditors, RatesWrite(e)
    PROVE  AgentShape'
<1>1. e \in AgentRequests /\ agentCall[e].pc = "rates"
  BY DEF AgentRequests, RatesWrite
<1>2. agentCall[e].subject \in RateRow
  BY <1>1, AgentTyped DEF AgentFits
<1>3. rateConfigs' \subseteq RateRow
  BY <1>2 DEF RatesWrite, AgentShape, AgentRowsFit
<1>4. AgentCallsFit'
  BY <1>1, MaturesStay, AgentOthers, AgentEnds DEF RatesWrite, AgentDone
<1>5. \A r \in rateConfigs' : r.version \in 1 .. MaxRateVersion
  BY <1>3 DEF RateRow
<1> QED
  BY <1>3, <1>4, <1>5 DEF RatesWrite, AgentShape, AgentTypeOK, AgentRowsFit, MaturesAlone

LEMMA CreditReadShape ==
    ASSUME AgentShape, NEW c \in Crediters, NEW o \in Sales, CreditRead(c, o)
    PROVE  AgentShape'
<1>1. c \in AgentRequests /\ RecruiterOf[o] \in Agents
  BY AgentConstants DEF AgentRequests, CreditRead
<1>2. PICK config \in ActiveRates :
         /\ SaleBase[o] * config.rate > 0
         /\ agentCall' = [agentCall EXCEPT ![c] =
              [AgentIdle EXCEPT !.pc = "credit", !.agent = RecruiterOf[o], !.subject = o,
                                !.amount = SaleBase[o] * config.rate]]
  BY DEF CreditRead
<1>3. PICK n \in Nat : n = SaleBase[o] * config.rate /\ n > 0
  <2>1. PICK x \in Nat : x = SaleBase[o]
    BY AgentConstants
  <2>2. PICK y \in Nat : y = config.rate
    BY ActiveRatesTyped
  <2>3. x * y \in Nat
    OBVIOUS
  <2> QED
    BY <1>2, <2>1, <2>2, <2>3
<1>4. PICK r \in AgentCallState :
         r = [AgentIdle EXCEPT !.pc = "credit", !.agent = RecruiterOf[o], !.subject = o,
                               !.amount = n]
  BY <1>1 DEF AgentIdle, AgentCallState
<1>5. r.pc = "credit" /\ r.agent = RecruiterOf[o] /\ r.subject = o /\ r.amount = n
  BY <1>4 DEF AgentIdle
<1>6. agentCall' = [agentCall EXCEPT ![c] = r]
  BY <1>2, <1>3, <1>4
<1>7. agentCall'[c] = r
  BY <1>1, <1>6, AgentOthers
<1>8. AgentFits(c)'
  BY <1>1, <1>3, <1>5, <1>7 DEF AgentFits
<1>9. AgentCallsFit'
  BY <1>1, <1>6, <1>8, MaturesStay, AgentOthers, AgentMoves DEF CreditRead
<1> QED
  BY <1>9, AgentCallShape DEF CreditRead

\* The two outcomes of a credit: the order was credited before, or its commission is
\* recorded and the agent's accounts grow by it.
LEMMA CreditWrites ==
    ASSUME AgentShape, NEW c \in Crediters, CreditWrite(c)
    PROVE  /\ c \in AgentRequests
           /\ agentCall[c].subject \in Sales /\ agentCall[c].agent \in Agents
           /\ agentCall[c].agent = RecruiterOf[agentCall[c].subject]
           /\ agentCall[c].amount \in Nat /\ agentCall[c].amount > 0
           /\ agentAccount' \in
                 [Agents -> [available : Int, pending : Int, earned : Nat, paid : Nat]]
           /\ commission' \in
                 [Sales -> [status : {"NONE", "PENDING", "MATURED"}, amount : Nat, due : BOOLEAN]]
           /\ \/ UNCHANGED <<agentAccount, commission>>
              \/ LET o == agentCall[c].subject
                     a == agentCall[c].agent
                     n == agentCall[c].amount IN
                 /\ commission[o].status = "NONE" /\ commission[o].amount = 0
                 /\ commission'[o].status = "PENDING" /\ commission'[o].amount = n
                 /\ \A x \in Sales : x # o => commission'[x] = commission[x]
                 /\ agentAccount'[a].available = agentAccount[a].available
                 /\ agentAccount'[a].pending = agentAccount[a].pending + n
                 /\ agentAccount'[a].earned = agentAccount[a].earned + n
                 /\ \A x \in Agents : x # a => agentAccount'[x] = agentAccount[x]
<1>1. c \in AgentRequests /\ agentCall[c].pc = "credit"
  BY DEF AgentRequests, CreditWrite
<1>2. PICK o \in Sales : o = agentCall[c].subject
  BY <1>1, AgentTyped DEF AgentFits
<1>3. PICK a \in Agents : a = agentCall[c].agent /\ a = RecruiterOf[o]
  BY <1>1, <1>2, AgentTyped DEF AgentFits
<1>4. PICK n \in Nat : n = agentCall[c].amount /\ n > 0
  BY <1>1, AgentTyped DEF AgentFits, AgentCallState
<1>5. CASE commission[o].status = "NONE"
  <2>1. /\ agentAccount' = [agentAccount EXCEPT ![a].pending = @ + n, ![a].earned = @ + n]
        /\ commission' = [commission EXCEPT ![o] =
                            [status |-> "PENDING", amount |-> n, due |-> FALSE]]
    BY <1>2, <1>3, <1>4, <1>5 DEF CreditWrite, CreditTo
  <2>2. agentAccount[a] \in [available : Int, pending : Int, earned : Nat, paid : Nat]
    BY AgentTyped
  <2>3. PICK p \in Int : p = agentAccount[a].pending + n
    BY <2>2
  <2>4. PICK e \in Nat : e = agentAccount[a].earned + n
    BY <2>2
  <2>5. PICK row \in [available : Int, pending : Int, earned : Nat, paid : Nat] :
           row = [agentAccount[a] EXCEPT !.pending = p, !.earned = e]
    BY <2>2
  <2>6. agentAccount' = [agentAccount EXCEPT ![a] = row]
    BY <2>1, <2>3, <2>4, <2>5, AgentTyped
  <2>7. row.available = agentAccount[a].available /\ row.pending = p /\ row.earned = e
    BY <2>2, <2>5
  <2>8. /\ agentAccount' \in
              [Agents -> [available : Int, pending : Int, earned : Nat, paid : Nat]]
        /\ agentAccount'[a] = row /\ \A x \in Agents : x # a => agentAccount'[x] = agentAccount[x]
    BY <2>6, AgentTyped
  <2>9. /\ commission' \in
              [Sales -> [status : {"NONE", "PENDING", "MATURED"}, amount : Nat, due : BOOLEAN]]
        /\ commission'[o].status = "PENDING" /\ commission'[o].amount = n
        /\ \A x \in Sales : x # o => commission'[x] = commission[x]
    BY <2>1, AgentTyped
  <2>10. commission[o].amount = 0
    BY <1>5 DEF AgentShape, AgentRowsFit
  <2> QED
    BY <1>1, <1>2, <1>3, <1>4, <1>5, <2>3, <2>4, <2>7, <2>8, <2>9, <2>10
<1>6. CASE commission[o].status # "NONE"
  BY <1>1, <1>2, <1>3, <1>4, <1>6, AgentTyped DEF CreditWrite
<1> QED
  BY <1>5, <1>6

LEMMA CreditWriteShape ==
    ASSUME AgentShape, NEW c \in Crediters, CreditWrite(c)
    PROVE  AgentShape'
<1>1. ASSUME NEW x \in AgentRequests, x # c, agentCall[x].pc = "mature" PROVE Matures(x)'
  <2>1. Matures(x) /\ agentCall'[x] = agentCall[x]
    BY <1>1, AgentTyped, AgentOthers DEF AgentFits, CreditWrite, AgentDone, AgentRequests
  <2>2. PICK s \in Sales : s = agentCall[x].subject /\ commission[s].status # "NONE"
    BY <2>1 DEF Matures
  <2>3. commission'[s] = commission[s]
    BY <2>2, CreditWrites
  <2> QED
    BY <2>1, <2>2, <2>3 DEF Matures, CreditWrite
<1>2. AgentCallsFit'
  BY <1>1, CreditWrites, AgentEnds DEF CreditWrite
<1>3. \A x \in Sales : /\ commission'[x].status # "NONE" => commission'[x].amount > 0
                       /\ commission'[x].status = "NONE" => commission'[x].amount = 0
                       /\ commission'[x].status # "NONE" => RecruiterOf[x] \in Agents
  BY CreditWrites DEF AgentShape, AgentTypeOK, AgentRowsFit
<1>4. UNCHANGED <<agentPayout, rateConfigs, maturing, failures, jobsOverlapped>>
  BY DEF CreditWrite
<1>5. AgentTypeOK'
  BY <1>3, <1>4, CreditWrites DEF AgentShape, AgentTypeOK
<1>6. AgentRowsFit' /\ MaturesAlone'
  BY <1>3, <1>4 DEF AgentShape, AgentRowsFit, MaturesAlone
<1> QED
  BY <1>2, <1>5, <1>6 DEF AgentShape

LEMMA HoldEndsShape ==
    ASSUME AgentShape, NEW o \in Sales, HoldEnds(o)
    PROVE  /\ AgentShape'
           /\ \A x \in Sales : /\ commission'[x].status = commission[x].status
                               /\ commission'[x].amount = commission[x].amount
<1>1. commission' = [commission EXCEPT ![o].due = TRUE]
  BY DEF HoldEnds
<1>2. /\ commission' \in
            [Sales -> [status : {"NONE", "PENDING", "MATURED"}, amount : Nat, due : BOOLEAN]]
      /\ \A x \in Sales : /\ commission'[x].status = commission[x].status
                          /\ commission'[x].amount = commission[x].amount
  BY <1>1, AgentTyped
<1>3. UNCHANGED <<agentAccount, agentPayout, rateConfigs, agentCall, maturing, failures,
                  jobsOverlapped>>
  BY DEF HoldEnds
<1>4. ASSUME NEW x \in AgentRequests, agentCall[x].pc = "mature" PROVE Matures(x)'
  <2>1. Matures(x)
    BY <1>4, AgentTyped DEF AgentFits
  <2> QED
    BY <1>2, <1>3, <2>1 DEF Matures
<1>5. AgentCallsFit'
  BY <1>3, <1>4, OtherAgentFits, AgentTyped DEF AgentCallsFit
<1>6. AgentTypeOK'
  BY <1>2, <1>3 DEF AgentShape, AgentTypeOK
<1>7. AgentRowsFit' /\ MaturesAlone'
  BY <1>2, <1>3 DEF AgentShape, AgentRowsFit, MaturesAlone
<1> QED
  BY <1>2, <1>5, <1>6, <1>7 DEF AgentShape

LEMMA MatureStartShape ==
    ASSUME AgentShape, NEW w \in Maturers, MatureStart(w)
    PROVE  AgentShape'
<1>1. w \in AgentRequests /\ agentCall[w].pc = "idle" /\ maturing[w] = {}
  BY DEF AgentRequests, MatureStart
<1>2. UNCHANGED <<agentAccount, commission, agentPayout, rateConfigs, agentCall, failures>>
  BY DEF MatureStart
<1>3. /\ maturing' \in [Maturers -> SUBSET Sales]
      /\ \A v \in Maturers : v # w => maturing'[v] = maturing[v]
  BY AgentTyped DEF MatureStart, Due
<1>4. jobsOverlapped \in BOOLEAN
  BY DEF AgentShape, AgentTypeOK
<1>5. /\ jobsOverlapped' \in BOOLEAN
      /\ ~jobsOverlapped' => ~jobsOverlapped /\ \A v \in Maturers \ {w} : maturing[v] = {}
  BY <1>4 DEF MatureStart
<1>6. ASSUME NEW x \in AgentRequests, agentCall[x].pc = "mature" PROVE Matures(x)'
  <2>1. Matures(x) /\ x # w
    BY <1>1, <1>6, AgentTyped DEF AgentFits
  <2> QED
    BY <1>2, <1>3, <1>5, <2>1 DEF Matures
<1>7. AgentCallsFit'
  BY <1>2, <1>6, OtherAgentFits, AgentTyped DEF AgentCallsFit
<1>8. MaturesAlone'
  BY <1>3, <1>5 DEF MaturesAlone
<1>9. AgentTypeOK'
  BY <1>2, <1>3, <1>5 DEF AgentShape, AgentTypeOK
<1>10. AgentRowsFit'
  BY <1>2, <1>3 DEF AgentShape, AgentRowsFit
<1> QED
  BY <1>7, <1>8, <1>9, <1>10 DEF AgentShape

\* A worker's list gets shorter.
LEMMA ListShortens ==
    ASSUME AgentShape, NEW w \in Maturers, NEW o,
           maturing' = [maturing EXCEPT ![w] = @ \ {o}], jobsOverlapped' = jobsOverlapped
    PROVE  /\ maturing' \in [Maturers -> SUBSET Sales]
           /\ \A v \in Maturers : v # w => maturing'[v] = maturing[v]
           /\ \A v \in Maturers : maturing'[v] \subseteq maturing[v]
           /\ MaturesAlone'
<1>1. /\ maturing' \in [Maturers -> SUBSET Sales]
      /\ \A v \in Maturers : v # w => maturing'[v] = maturing[v]
      /\ maturing'[w] = maturing[w] \ {o}
  BY AgentTyped
<1>2. \A v \in Maturers : maturing'[v] \subseteq maturing[v]
  BY <1>1
<1> QED
  BY <1>1, <1>2 DEF AgentShape, MaturesAlone

LEMMA MatureReadShape ==
    ASSUME AgentShape, NEW w \in Maturers, NEW o \in Sales, MatureRead(w, o)
    PROVE  AgentShape'
<1>1. w \in AgentRequests /\ agentCall[w].pc = "idle" /\ o \in maturing[w]
  BY DEF AgentRequests, MatureRead
<1>2. UNCHANGED <<agentAccount, commission, agentPayout, rateConfigs, failures, jobsOverlapped>>
  BY DEF MatureRead
<1>3. CASE commission[o].status = "PENDING"
  <2>1. RecruiterOf[o] \in Agents /\ commission[o].amount \in Nat
    BY <1>3, AgentTyped DEF AgentShape, AgentRowsFit
  <2>2. PICK r \in AgentCallState :
           r = [AgentIdle EXCEPT !.pc = "mature", !.agent = RecruiterOf[o], !.subject = o,
                                 !.amount = commission[o].amount]
    BY <2>1 DEF AgentIdle, AgentCallState
  <2>3. /\ r.pc = "mature" /\ r.agent = RecruiterOf[o] /\ r.subject = o
        /\ r.amount = commission[o].amount
    BY <2>2 DEF AgentIdle
  <2>4. agentCall' = [agentCall EXCEPT ![w] = r] /\ maturing' = maturing
    BY <1>3, <2>2 DEF MatureRead
  <2>5. agentCall'[w] = r
    BY <1>1, <2>4, AgentOthers
  <2>6. Matures(w)'
    BY <1>1, <1>2, <1>3, <2>1, <2>3, <2>4, <2>5 DEF Matures
  <2>7. AgentFits(w)'
    BY <2>3, <2>5, <2>6 DEF AgentFits
  <2>8. AgentCallsFit'
    BY <1>1, <1>2, <2>4, <2>7, MaturesStay, AgentOthers, AgentMoves
  <2> QED
    BY <1>2, <2>4, <2>8, AgentCallShape
<1>4. CASE commission[o].status # "PENDING"
  <2>1. maturing' = [maturing EXCEPT ![w] = @ \ {o}] /\ agentCall' = agentCall
    BY <1>4 DEF MatureRead
  <2>2. /\ maturing' \in [Maturers -> SUBSET Sales]
        /\ \A v \in Maturers : v # w => maturing'[v] = maturing[v]
        /\ MaturesAlone'
    BY <1>2, <2>1, ListShortens
  <2>3. ASSUME NEW x \in AgentRequests, agentCall[x].pc = "mature" PROVE Matures(x)'
    <3>1. Matures(x) /\ x # w
      BY <1>1, <2>3, AgentTyped DEF AgentFits
    <3> QED
      BY <1>2, <2>1, <2>2, <3>1 DEF Matures
  <2>4. AgentCallsFit'
    BY <1>2, <2>1, <2>3, OtherAgentFits, AgentTyped DEF AgentCallsFit
  <2>5. AgentTypeOK' /\ AgentRowsFit'
    BY <1>2, <2>2, SMTT(30) DEF AgentShape, AgentTypeOK, AgentRowsFit
  <2> QED
    BY <2>2, <2>4, <2>5 DEF AgentShape
<1> QED
  BY <1>3, <1>4

\* What a maturation writes: an amount above zero moves from the pending balance of
\* the agent to the available one, and the commission is MATURED.
LEMMA MatureWrites ==
    ASSUME AgentShape, NEW w \in Maturers, MatureWrite(w)
    PROVE  LET o == agentCall[w].subject
               a == agentCall[w].agent
               n == agentCall[w].amount IN
           /\ w \in AgentRequests /\ Matures(w)
           /\ o \in Sales /\ a \in Agents /\ a = RecruiterOf[o] /\ n \in Nat /\ n > 0
           /\ agentAccount' \in
                 [Agents -> [available : Int, pending : Int, earned : Nat, paid : Nat]]
           /\ agentAccount'[a].available = agentAccount[a].available + n
           /\ agentAccount'[a].pending = agentAccount[a].pending - n
           /\ agentAccount'[a].earned = agentAccount[a].earned
           /\ \A x \in Agents : x # a => agentAccount'[x] = agentAccount[x]
           /\ commission' \in
                 [Sales -> [status : {"NONE", "PENDING", "MATURED"}, amount : Nat, due : BOOLEAN]]
           /\ commission'[o].status = "MATURED" /\ commission[o].status # "NONE"
           /\ n = commission[o].amount
           /\ \A x \in Sales : /\ commission'[x].amount = commission[x].amount
                               /\ x # o => commission'[x] = commission[x]
<1>1. w \in AgentRequests /\ agentCall[w].pc = "mature"
  BY DEF AgentRequests, MatureWrite
<1>2. Matures(w)
  BY <1>1, AgentTyped DEF AgentFits
<1>3. PICK o \in Sales : o = agentCall[w].subject
  BY <1>2 DEF Matures
<1>4. PICK a \in Agents : a = agentCall[w].agent /\ a = RecruiterOf[o]
  BY <1>2, <1>3 DEF Matures
<1>5. commission[o].amount \in Nat /\ commission[o].amount > 0 /\ commission[o].status # "NONE"
  BY <1>2, <1>3, AgentTyped DEF Matures, AgentShape, AgentTypeOK
<1>6. PICK n \in Nat : n = agentCall[w].amount /\ n = commission[o].amount /\ n > 0
  BY <1>2, <1>3, <1>5 DEF Matures
<1>7. /\ agentAccount' = [agentAccount EXCEPT ![a].pending = @ - n, ![a].available = @ + n]
      /\ commission' = [commission EXCEPT ![o].status = "MATURED"]
  BY <1>3, <1>4, <1>6 DEF MatureWrite
<1>8. agentAccount[a] \in [available : Int, pending : Int, earned : Nat, paid : Nat]
  BY AgentTyped
<1>9. PICK p \in Int : p = agentAccount[a].pending - n
  BY <1>8
<1>10. PICK v \in Int : v = agentAccount[a].available + n
  BY <1>8
<1>11. PICK row \in [available : Int, pending : Int, earned : Nat, paid : Nat] :
         row = [agentAccount[a] EXCEPT !.pending = p, !.available = v]
  BY <1>8
<1>12. agentAccount' = [agentAccount EXCEPT ![a] = row]
  BY <1>7, <1>9, <1>10, <1>11, AgentTyped
<1>13. row.available = v /\ row.pending = p /\ row.earned = agentAccount[a].earned
  BY <1>8, <1>11
<1>14. /\ agentAccount' \in
            [Agents -> [available : Int, pending : Int, earned : Nat, paid : Nat]]
       /\ agentAccount'[a] = row /\ \A x \in Agents : x # a => agentAccount'[x] = agentAccount[x]
  BY <1>12, AgentTyped
<1>15. /\ commission' \in
            [Sales -> [status : {"NONE", "PENDING", "MATURED"}, amount : Nat, due : BOOLEAN]]
       /\ commission'[o].status = "MATURED" /\ commission'[o].amount = commission[o].amount
       /\ \A x \in Sales : x # o => commission'[x] = commission[x]
  BY <1>7, AgentTyped
<1> QED
  BY <1>1, <1>2, <1>3, <1>4, <1>5, <1>6, <1>9, <1>10, <1>13, <1>14, <1>15

\* Alone, no other worker is in a maturation.
LEMMA NoOtherMatures ==
    ASSUME AgentShape, ~jobsOverlapped, NEW w \in Maturers, Matures(w),
           NEW x \in AgentRequests, agentCall[x].pc = "mature"
    PROVE  x = w
<1>1. Matures(x)
  BY AgentTyped DEF AgentFits
<1>2. x \in Maturers /\ maturing[x] # {} /\ maturing[w] # {}
  BY <1>1 DEF Matures
<1> QED
  BY <1>2 DEF AgentShape, MaturesAlone

LEMMA MatureWriteShape ==
    ASSUME AgentShape, NEW w \in Maturers, MatureWrite(w)
    PROVE  AgentShape'
<1>1. /\ maturing' = [maturing EXCEPT ![w] = @ \ {agentCall[w].subject}]
      /\ UNCHANGED <<agentPayout, rateConfigs, failures, jobsOverlapped>>
  BY DEF MatureWrite
<1>2. /\ maturing' \in [Maturers -> SUBSET Sales]
      /\ \A v \in Maturers : v # w => maturing'[v] = maturing[v]
      /\ MaturesAlone'
  BY <1>1, ListShortens
<1>3. ASSUME NEW x \in AgentRequests, x # w, agentCall[x].pc = "mature" PROVE Matures(x)'
  <2>1. Matures(x) /\ agentCall'[x] = agentCall[x]
    BY <1>3, AgentTyped, AgentOthers DEF AgentFits, MatureWrite, AgentDone, AgentRequests
  <2>2. jobsOverlapped
    BY <1>3, MatureWrites, NoOtherMatures
  <2>3. PICK s \in Sales : s = agentCall[x].subject /\ commission[s].status # "NONE"
    BY <2>1 DEF Matures
  <2>4. commission'[s].status # "NONE" /\ commission'[s].amount = commission[s].amount
    BY <2>3, MatureWrites, SMTT(30)
  <2> QED
    BY <1>1, <1>2, <1>3, <2>1, <2>2, <2>3, <2>4 DEF Matures
<1>4. AgentCallsFit'
  BY <1>3, MatureWrites, AgentEnds DEF MatureWrite
<1>5. \A x \in Sales : /\ commission'[x].status # "NONE" => commission'[x].amount > 0
                       /\ commission'[x].status = "NONE" => commission'[x].amount = 0
                       /\ commission'[x].status # "NONE" => RecruiterOf[x] \in Agents
  BY MatureWrites DEF AgentShape, AgentTypeOK, AgentRowsFit
<1>6. AgentTypeOK'
  BY <1>1, <1>2, <1>5, MatureWrites DEF AgentShape, AgentTypeOK
<1>7. AgentRowsFit'
  BY <1>1, <1>2, <1>5 DEF AgentShape, AgentRowsFit
<1> QED
  BY <1>2, <1>4, <1>6, <1>7 DEF AgentShape

LEMMA MatureFailShape ==
    ASSUME AgentShape, NEW w \in Maturers, MatureFail(w)
    PROVE  AgentShape'
<1>1. /\ maturing' = [maturing EXCEPT ![w] = @ \ {agentCall[w].subject}]
      /\ UNCHANGED <<agentAccount, commission, agentPayout, rateConfigs, jobsOverlapped>>
      /\ w \in AgentRequests
  BY DEF MatureFail, AgentRequests
<1>2. /\ maturing' \in [Maturers -> SUBSET Sales]
      /\ \A v \in Maturers : v # w => maturing'[v] = maturing[v]
      /\ MaturesAlone'
  BY <1>1, ListShortens
<1>3. ASSUME NEW x \in AgentRequests, x # w, agentCall[x].pc = "mature" PROVE Matures(x)'
  <2>1. Matures(x) /\ agentCall'[x] = agentCall[x]
    BY <1>1, <1>3, AgentTyped, AgentOthers DEF AgentFits, MatureFail, AgentDone
  <2> QED
    BY <1>1, <1>2, <1>3, <2>1 DEF Matures
<1>4. AgentCallsFit'
  BY <1>1, <1>3, AgentEnds DEF MatureFail
<1>5. AgentTypeOK' /\ AgentRowsFit'
  BY <1>1, <1>2 DEF AgentShape, AgentTypeOK, AgentRowsFit
<1> QED
  BY <1>2, <1>4, <1>5 DEF AgentShape

LEMMA RequestReadShape ==
    ASSUME AgentShape, NEW r \in PayoutRequests, NEW a \in Agents, NEW amount \in PayoutAmounts,
           RequestRead(r, a, amount)
    PROVE  AgentShape'
<1>1. r \in AgentRequests /\ amount \in Nat
  BY AgentConstants DEF AgentRequests
<1>2. PICK m \in AgentCallState :
         m = [AgentIdle EXCEPT !.pc = "request", !.agent = a, !.amount = amount]
  BY <1>1 DEF AgentIdle, AgentCallState
<1>3. m.pc = "request" /\ m.agent = a /\ m.amount = amount
  BY <1>2 DEF AgentIdle
<1>4. agentCall' = [agentCall EXCEPT ![r] = m]
  BY <1>2 DEF RequestRead
<1>5. agentCall'[r] = m
  BY <1>1, <1>4, AgentOthers
<1>6. AgentFits(r)'
  BY <1>3, <1>5 DEF AgentFits
<1>7. AgentCallsFit'
  BY <1>1, <1>4, <1>6, MaturesStay, AgentOthers, AgentMoves DEF RequestRead
<1> QED
  BY <1>7, AgentCallShape DEF RequestRead

\* What a payout request writes: the amount leaves the available balance and a row that
\* was not there is the agent's.
LEMMA RequestWrites ==
    ASSUME AgentShape, NEW r \in PayoutRequests, NEW p \in PayoutIds, RequestWrite(r, p)
    PROVE  LET a == agentCall[r].agent
               n == agentCall[r].amount IN
           /\ r \in AgentRequests /\ agentCall[r].pc = "request"
           /\ a \in Agents /\ n \in Nat /\ n > 0 /\ n \in PayoutAmounts
           /\ agentAccount' \in
                 [Agents -> [available : Int, pending : Int, earned : Nat, paid : Nat]]
           /\ agentAccount'[a].available = agentAccount[a].available - n
           /\ agentAccount'[a].pending = agentAccount[a].pending
           /\ agentAccount'[a].earned = agentAccount[a].earned
           /\ \A x \in Agents : x # a => agentAccount'[x] = agentAccount[x]
           /\ agentPayout' \in
                 [PayoutIds -> [status : {"NONE", "PENDING", "COMPLETED"},
                                agent : Agents \cup {NoAgent}, amount : Nat]]
           /\ agentPayout[p].agent = NoAgent
           /\ agentPayout'[p].status = "PENDING" /\ agentPayout'[p].agent = a
           /\ agentPayout'[p].amount = n
           /\ \A x \in PayoutIds : x # p => agentPayout'[x] = agentPayout[x]
<1>1. r \in AgentRequests /\ agentCall[r].pc = "request"
  BY DEF AgentRequests, RequestWrite
<1>2. PICK a \in Agents : a = agentCall[r].agent
  BY <1>1, AgentTyped DEF AgentFits
<1>3. PICK n \in Nat : n = agentCall[r].amount /\ n > 0 /\ n \in PayoutAmounts
  <2>1. agentCall[r].amount \in PayoutAmounts
    BY <1>1, AgentTyped DEF AgentFits
  <2>2. PayoutAmounts \subseteq Nat \ {0}
    BY AgentConstants
  <2> QED
    BY <2>1, <2>2
<1>4. agentPayout[p].agent = NoAgent
  BY DEF RequestWrite, AgentShape, AgentRowsFit
<1>5. /\ agentAccount' = [agentAccount EXCEPT ![a].available = @ - n]
      /\ agentPayout' = [agentPayout EXCEPT ![p] =
                           [status |-> "PENDING", agent |-> a, amount |-> n]]
  BY <1>2, <1>3 DEF RequestWrite
<1>6. agentAccount[a] \in [available : Int, pending : Int, earned : Nat, paid : Nat]
  BY AgentTyped
<1>7. PICK v \in Int : v = agentAccount[a].available - n
  BY <1>6
<1>8. PICK row \in [available : Int, pending : Int, earned : Nat, paid : Nat] :
         row = [agentAccount[a] EXCEPT !.available = v]
  BY <1>6
<1>9. agentAccount' = [agentAccount EXCEPT ![a] = row]
  BY <1>5, <1>7, <1>8, AgentTyped
<1>10. /\ row.available = v /\ row.pending = agentAccount[a].pending
       /\ row.earned = agentAccount[a].earned
  BY <1>6, <1>8
<1>11. /\ agentAccount' \in
            [Agents -> [available : Int, pending : Int, earned : Nat, paid : Nat]]
       /\ agentAccount'[a] = row /\ \A x \in Agents : x # a => agentAccount'[x] = agentAccount[x]
  BY <1>9, AgentTyped
<1>12. /\ agentPayout' \in
            [PayoutIds -> [status : {"NONE", "PENDING", "COMPLETED"},
                           agent : Agents \cup {NoAgent}, amount : Nat]]
       /\ agentPayout'[p].status = "PENDING" /\ agentPayout'[p].agent = a
       /\ agentPayout'[p].amount = n
       /\ \A x \in PayoutIds : x # p => agentPayout'[x] = agentPayout[x]
  BY <1>5, AgentTyped
<1> QED
  BY <1>1, <1>2, <1>3, <1>4, <1>7, <1>10, <1>11, <1>12

LEMMA RequestWriteShape ==
    ASSUME AgentShape, NEW r \in PayoutRequests, NEW p \in PayoutIds, RequestWrite(r, p)
    PROVE  AgentShape'
<1>1. UNCHANGED <<commission, rateConfigs, maturing, failures, jobsOverlapped>>
  BY DEF RequestWrite
<1>2. r \in AgentRequests
  BY RequestWrites
<1>3. AgentCallsFit'
  <2>1. \A x \in PayoutIds : agentPayout[x].agent \in Agents => agentPayout'[x].agent \in Agents
    BY RequestWrites
  <2>2. AgentDone(r)
    BY DEF RequestWrite
  <2>3. ASSUME NEW x \in AgentRequests, x # r, agentCall[x].pc = "mature" PROVE Matures(x)'
    BY <1>1, <1>2, <2>2, <2>3, MaturesStay, AgentOthers DEF AgentDone
  <2> QED
    BY <1>2, <2>1, <2>2, <2>3, AgentEnds
<1>4. \A x \in PayoutIds : IF agentPayout'[x].status = "NONE" THEN agentPayout'[x].agent = NoAgent
                           ELSE agentPayout'[x].agent \in Agents
  BY RequestWrites DEF AgentShape, AgentRowsFit
<1>5. AgentTypeOK'
  BY <1>1, RequestWrites DEF AgentShape, AgentTypeOK
<1>6. AgentRowsFit' /\ MaturesAlone'
  BY <1>1, <1>4 DEF AgentShape, AgentRowsFit, MaturesAlone
<1> QED
  BY <1>3, <1>5, <1>6 DEF AgentShape

LEMMA ApproveReadShape ==
    ASSUME AgentShape, NEW q \in Approvers, NEW p \in PayoutIds, ApproveRead(q, p)
    PROVE  AgentShape'
<1>1. /\ q \in AgentRequests
      /\ agentPayout[p].agent \in Agents /\ agentPayout[p].amount \in Nat
  <2>1. agentPayout[p].status # "NONE"
    BY DEF ApproveRead
  <2> QED
    BY <2>1, AgentTyped DEF AgentRequests, AgentShape, AgentRowsFit
<1>2. PICK m \in AgentCallState :
         m = [AgentIdle EXCEPT !.pc = "approve", !.agent = agentPayout[p].agent,
                               !.subject = p, !.amount = agentPayout[p].amount]
  BY <1>1 DEF AgentIdle, AgentCallState
<1>3. m.pc = "approve" /\ m.agent = agentPayout[p].agent /\ m.subject = p
  BY <1>2 DEF AgentIdle
<1>4. agentCall' = [agentCall EXCEPT ![q] = m]
  BY <1>2 DEF ApproveRead
<1>5. agentCall'[q] = m
  BY <1>1, <1>4, AgentOthers
<1>6. AgentFits(q)'
  BY <1>1, <1>3, <1>5 DEF AgentFits, ApproveRead
<1>7. AgentCallsFit'
  BY <1>1, <1>4, <1>6, MaturesStay, AgentOthers, AgentMoves DEF ApproveRead
<1> QED
  BY <1>7, AgentCallShape DEF ApproveRead

\* An approval touches neither balance nor what a payout is worth.
LEMMA ApproveWrites ==
    ASSUME AgentShape, NEW q \in Approvers, ApproveWrite(q)
    PROVE  /\ agentAccount' \in
                 [Agents -> [available : Int, pending : Int, earned : Nat, paid : Nat]]
           /\ \A x \in Agents : /\ agentAccount'[x].available = agentAccount[x].available
                                /\ agentAccount'[x].pending = agentAccount[x].pending
                                /\ agentAccount'[x].earned = agentAccount[x].earned
           /\ agentPayout' \in
                 [PayoutIds -> [status : {"NONE", "PENDING", "COMPLETED"},
                                agent : Agents \cup {NoAgent}, amount : Nat]]
           /\ \A x \in PayoutIds : /\ agentPayout'[x].agent = agentPayout[x].agent
                                   /\ agentPayout'[x].amount = agentPayout[x].amount
           /\ AgentShape'
<1>1. q \in AgentRequests /\ agentCall[q].pc = "approve"
  BY DEF AgentRequests, ApproveWrite
<1>2. PICK a \in Agents : a = agentCall[q].agent
  BY <1>1, AgentTyped DEF AgentFits
<1>3. PICK p \in PayoutIds : p = agentCall[q].subject
  BY <1>1, AgentTyped DEF AgentFits
<1>4. PICK n \in Nat : n = agentCall[q].amount
  BY <1>1, AgentTyped DEF AgentCallState
<1>5. PICK m \in Nat : m = agentAccount[a].paid + n
  BY AgentTyped
<1>6. /\ agentAccount' = [agentAccount EXCEPT ![a].paid = m]
      /\ agentPayout' = [agentPayout EXCEPT ![p].status = "COMPLETED"]
  BY <1>2, <1>3, <1>4, <1>5, AgentTyped DEF ApproveWrite
<1>7. /\ agentAccount' \in
            [Agents -> [available : Int, pending : Int, earned : Nat, paid : Nat]]
      /\ \A x \in Agents : /\ agentAccount'[x].available = agentAccount[x].available
                           /\ agentAccount'[x].pending = agentAccount[x].pending
                           /\ agentAccount'[x].earned = agentAccount[x].earned
  BY <1>6, AgentTyped
<1>8. /\ agentPayout' \in
            [PayoutIds -> [status : {"NONE", "PENDING", "COMPLETED"},
                           agent : Agents \cup {NoAgent}, amount : Nat]]
      /\ agentPayout'[p].status = "COMPLETED"
      /\ \A x \in PayoutIds : /\ agentPayout'[x].agent = agentPayout[x].agent
                              /\ agentPayout'[x].amount = agentPayout[x].amount
                              /\ x # p => agentPayout'[x] = agentPayout[x]
  BY <1>6, AgentTyped
<1>9. UNCHANGED <<commission, rateConfigs, maturing, failures, jobsOverlapped>>
  BY DEF ApproveWrite
<1>10. AgentCallsFit'
  <2>1. \A x \in PayoutIds : agentPayout[x].agent \in Agents => agentPayout'[x].agent \in Agents
    BY <1>8
  <2>2. AgentDone(q)
    BY DEF ApproveWrite
  <2>3. ASSUME NEW x \in AgentRequests, x # q, agentCall[x].pc = "mature" PROVE Matures(x)'
    BY <1>1, <1>9, <2>2, <2>3, MaturesStay, AgentOthers DEF AgentDone
  <2> QED
    BY <1>1, <2>1, <2>2, <2>3, AgentEnds
<1>11. AgentTypeOK'
  BY <1>7, <1>8, <1>9 DEF AgentShape, AgentTypeOK
<1>12. AgentRowsFit'
  <2>1. agentPayout[p].agent \in Agents
    <3>1. agentCall[q].pc = "approve" /\ AgentFits(q)
      BY <1>1, AgentTyped
    <3> QED
      BY <1>3, <3>1 DEF AgentFits
  <2> QED
    BY <1>8, <1>9, <2>1 DEF AgentShape, AgentRowsFit
<1>13. MaturesAlone'
  BY <1>9 DEF AgentShape, MaturesAlone
<1> QED
  BY <1>7, <1>8, <1>10, <1>11, <1>12, <1>13 DEF AgentShape

-----------------------------------------------------------------------------
(* Commissions: every step keeps the shape                                 *)

LEMMA AgentShapeStep == AgentShape /\ [AgentNext]_agentVars => AgentShape'
<1> SUFFICES ASSUME AgentShape, [AgentNext]_agentVars PROVE AgentShape'
  OBVIOUS
<1>1. CASE UNCHANGED agentVars
  BY <1>1
     DEF agentVars, AgentShape, AgentTypeOK, AgentCallsFit, AgentFits, Matures, AgentRowsFit,
         MaturesAlone
<1>2. CASE AgentNext
  BY <1>2, RatesReadShape, RatesWriteShape, CreditReadShape, CreditWriteShape, HoldEndsShape,
     MatureStartShape, MatureReadShape, MatureWriteShape, MatureFailShape, RequestReadShape,
     RequestWriteShape, ApproveReadShape, ApproveWrites
     DEF AgentNext
<1> QED
  BY <1>1, <1>2

LEMMA AgentShapeInit == AgentInit => AgentShape
<1> SUFFICES ASSUME AgentInit PROVE AgentShape
  OBVIOUS
<1>1. agentCall \in [AgentRequests -> AgentCallState]
  BY DEF AgentInit, AgentIdle, AgentCallState
<1>2. \A c \in AgentRequests : AgentFits(c)
  BY DEF AgentInit, AgentIdle, AgentFits
<1>3. AgentTypeOK
  <2>1. agentAccount \in [Agents -> [available : Int, pending : Int, earned : Nat, paid : Nat]]
    BY DEF AgentInit
  <2>2. commission \in
           [Sales -> [status : {"NONE", "PENDING", "MATURED"}, amount : Nat, due : BOOLEAN]]
    BY DEF AgentInit
  <2>3. agentPayout \in [PayoutIds -> [status : {"NONE", "PENDING", "COMPLETED"},
                                       agent : Agents \cup {NoAgent}, amount : Nat]]
    BY DEF AgentInit
  <2> QED
    BY <2>1, <2>2, <2>3 DEF AgentInit, AgentTypeOK
<1>4. AgentRowsFit /\ MaturesAlone
  BY DEF AgentInit, AgentRowsFit, MaturesAlone
<1> QED
  BY <1>1, <1>2, <1>3, <1>4 DEF AgentShape, AgentCallsFit

-----------------------------------------------------------------------------
(* Commissions: the sums                                                   *)

CommissionAmounts == [o \in Sales |-> commission[o].amount]

PayoutAmountOf == [p \in PayoutIds |-> agentPayout[p].amount]

Unmatured(a) == {o \in EarnedBy(a) : commission[o].status = "PENDING"}

LEMMA AgentSumsTyped ==
    ASSUME AgentShape
    PROVE  /\ CommissionAmounts \in [Sales -> Int] /\ PayoutAmountOf \in [PayoutIds -> Int]
           /\ \A a : /\ EarnedBy(a) \in SUBSET Sales /\ IsFiniteSet(EarnedBy(a))
                     /\ Unmatured(a) \in SUBSET Sales /\ IsFiniteSet(Unmatured(a))
                     /\ PayoutsOf(a) \in SUBSET PayoutIds /\ IsFiniteSet(PayoutsOf(a))
                     /\ Earnings(EarnedBy(a)) \in Int /\ Earnings(Unmatured(a)) \in Int
                     /\ PaidTo(a) \in Int
<1>1. CommissionAmounts \in [Sales -> Int] /\ PayoutAmountOf \in [PayoutIds -> Int]
  <2>1. \A o \in Sales : commission[o].amount \in Int
    BY AgentTyped
  <2>2. \A p \in PayoutIds : agentPayout[p].amount \in Int
    BY AgentTyped
  <2> QED
    BY <2>1, <2>2 DEF CommissionAmounts, PayoutAmountOf
<1>2. ASSUME NEW a
      PROVE  /\ EarnedBy(a) \in SUBSET Sales /\ IsFiniteSet(EarnedBy(a))
             /\ Unmatured(a) \in SUBSET Sales /\ IsFiniteSet(Unmatured(a))
             /\ PayoutsOf(a) \in SUBSET PayoutIds /\ IsFiniteSet(PayoutsOf(a))
  <2>1. /\ EarnedBy(a) \in SUBSET Sales /\ Unmatured(a) \in SUBSET Sales
        /\ PayoutsOf(a) \in SUBSET PayoutIds
    BY DEF EarnedBy, Unmatured, PayoutsOf
  <2> QED
    BY <2>1, FS_Subset, AgentConstants
<1>3. ASSUME NEW a
      PROVE  /\ Earnings(EarnedBy(a)) \in Int /\ Earnings(Unmatured(a)) \in Int
             /\ PaidTo(a) \in Int
  <2>1. /\ SumFunctionOnSet(CommissionAmounts, EarnedBy(a)) \in Int
        /\ SumFunctionOnSet(CommissionAmounts, Unmatured(a)) \in Int
        /\ SumFunctionOnSet(PayoutAmountOf, PayoutsOf(a)) \in Int
    BY <1>1, <1>2, SumInt
  <2> QED
    BY <2>1 DEF Earnings, PaidTo, CommissionAmounts, PayoutAmountOf
<1> QED
  BY <1>1, <1>2, <1>3

\* Commissions whose amounts stay are worth the same.
LEMMA EarningsStay ==
    ASSUME \A o \in Sales : commission'[o].amount = commission[o].amount
    PROVE  \A S : Earnings(S)' = Earnings(S)
<1>1. CommissionAmounts' = CommissionAmounts
  BY DEF CommissionAmounts
<1> QED
  BY <1>1 DEF Earnings, CommissionAmounts

\* Payouts that stay are worth the same.
LEMMA PaidStays ==
    ASSUME \A p \in PayoutIds : /\ agentPayout'[p].agent = agentPayout[p].agent
                                /\ agentPayout'[p].amount = agentPayout[p].amount
    PROVE  \A a : PaidTo(a)' = PaidTo(a)
<1>1. PayoutAmountOf' = PayoutAmountOf /\ \A a : PayoutsOf(a)' = PayoutsOf(a)
  BY DEF PayoutAmountOf, PayoutsOf
<1> QED
  BY <1>1 DEF PaidTo, PayoutAmountOf

\* A payout request adds its amount to what its agent was paid, and to no other's.
LEMMA PaidGrows ==
    ASSUME AgentShape, AgentShape', NEW r \in PayoutRequests, NEW p \in PayoutIds,
           RequestWrite(r, p), NEW a \in Agents
    PROVE  PaidTo(a)' = PaidTo(a) + IF a = agentCall[r].agent THEN agentCall[r].amount ELSE 0
<1>1. PICK b \in Agents : b = agentCall[r].agent
  BY RequestWrites
<1>2. PICK n \in Nat : n = agentCall[r].amount
  BY RequestWrites
<1>3. /\ agentPayout[p].agent = NoAgent
      /\ agentPayout'[p].agent = b /\ agentPayout'[p].amount = n
      /\ \A x \in PayoutIds : x # p => agentPayout'[x] = agentPayout[x]
  BY <1>1, <1>2, RequestWrites
<1>4. NoAgent \notin Agents
  BY AgentConstants
<1>5. PICK f \in [PayoutIds -> Int] : f = PayoutAmountOf
  BY AgentSumsTyped
<1>6. PICK g \in [PayoutIds -> Int] : g = PayoutAmountOf'
  <2>1. \A x \in PayoutIds : agentPayout'[x].amount \in Int
    BY DEF AgentShape, AgentTypeOK
  <2>2. PayoutAmountOf' \in [PayoutIds -> Int]
    BY <2>1 DEF PayoutAmountOf
  <2> QED
    BY <2>2, Zenon
<1>7. g[p] = n /\ \A x \in PayoutIds : x # p => g[x] = f[x]
  BY <1>3, <1>5, <1>6 DEF PayoutAmountOf
<1>8. PICK S \in SUBSET PayoutIds : S = PayoutsOf(a) /\ IsFiniteSet(S)
  BY AgentSumsTyped
<1>9. p \notin S
  BY <1>3, <1>4, <1>8 DEF PayoutsOf
<1>10. PICK s \in Int : s = SumFunctionOnSet(f, S)
  BY <1>8, SumInt
<1>11. SumFunctionOnSet(g, S) = s
  <2>1. \A x \in S : f[x] = g[x]
    BY <1>7, <1>9
  <2> QED
    BY <1>8, <1>10, <2>1, SumSame
<1>12. PaidTo(a) = s /\ PaidTo(a)' = SumFunctionOnSet(g, PayoutsOf(a)')
  BY <1>5, <1>6, <1>8, <1>10 DEF PaidTo, PayoutAmountOf
<1>13. CASE a = b
  <2>1. PayoutsOf(a)' = S \cup {p}
    BY <1>3, <1>8, <1>13 DEF PayoutsOf
  <2>2. SumFunctionOnSet(g, S \cup {p}) = s + n
    BY <1>7, <1>8, <1>9, <1>11, SumAdd
  <2> QED
    BY <1>1, <1>2, <1>12, <1>13, <2>1, <2>2
<1>14. CASE a # b
  <2>1. PayoutsOf(a)' = S
    BY <1>3, <1>4, <1>8, <1>14 DEF PayoutsOf
  <2>2. s + 0 = s
    OBVIOUS
  <2> QED
    BY <1>1, <1>11, <1>12, <1>14, <2>1, <2>2
<1> QED
  BY <1>13, <1>14

\* A step that earns, matures and pays nothing.
LEMMA MoneyStays ==
    ASSUME AgentShape, CommissionsAreConserved, PendingIsUnmatured,
           \A a \in Agents : /\ agentAccount'[a].available = agentAccount[a].available
                             /\ agentAccount'[a].pending = agentAccount[a].pending
                             /\ agentAccount'[a].earned = agentAccount[a].earned,
           \A o \in Sales : /\ commission'[o].status = commission[o].status
                            /\ commission'[o].amount = commission[o].amount,
           \A p \in PayoutIds : /\ agentPayout'[p].agent = agentPayout[p].agent
                                /\ agentPayout'[p].amount = agentPayout[p].amount,
           jobsOverlapped => jobsOverlapped'
    PROVE  CommissionsAreConserved' /\ PendingIsUnmatured'
<1>1. \A S : Earnings(S)' = Earnings(S)
  BY EarningsStay
<1>2. \A a : PaidTo(a)' = PaidTo(a)
  BY PaidStays
<1>3. \A a : EarnedBy(a)' = EarnedBy(a) /\ Unmatured(a)' = Unmatured(a)
  BY DEF EarnedBy, Unmatured
<1>4. CommissionsAreConserved'
  <2> SUFFICES ASSUME NEW a \in Agents
               PROVE  /\ agentAccount'[a].earned = Earnings(EarnedBy(a))'
                      /\ agentAccount'[a].pending + agentAccount'[a].available + PaidTo(a)'
                            = agentAccount'[a].earned
    BY DEF CommissionsAreConserved
  <2> QED
    BY <1>1, <1>2 DEF CommissionsAreConserved, EarnedBy
<1>5. PendingIsUnmatured'
  <2> SUFFICES ASSUME ~jobsOverlapped', NEW a \in Agents
               PROVE  agentAccount'[a].pending = Earnings(Unmatured(a))'
    BY DEF PendingIsUnmatured, Unmatured
  <2>1. agentAccount[a].pending = Earnings(Unmatured(a))
    BY DEF PendingIsUnmatured, Unmatured
  <2>2. PICK U : U = Unmatured(a)
    OBVIOUS
  <2>3. Earnings(Unmatured(a))' = Earnings(U)'
    BY <1>3, <2>2 DEF Earnings
  <2> QED
    BY <1>1, <2>1, <2>2, <2>3
<1> QED
  BY <1>4, <1>5

\* A credit is earned, pending and on record at once.
LEMMA CreditMoney ==
    ASSUME AgentShape, AgentShape', CommissionsAreConserved, PendingIsUnmatured,
           NEW c \in Crediters, CreditWrite(c)
    PROVE  CommissionsAreConserved' /\ PendingIsUnmatured'
<1>1. UNCHANGED <<agentPayout, jobsOverlapped>>
  BY DEF CreditWrite
<1>2. CASE UNCHANGED <<agentAccount, commission>>
  BY <1>1, <1>2, MoneyStays
<1>3. CASE ~ UNCHANGED <<agentAccount, commission>>
  <2>1. PICK o \in Sales : o = agentCall[c].subject
    BY CreditWrites
  <2>2. PICK b \in Agents : b = agentCall[c].agent /\ b = RecruiterOf[o]
    BY <2>1, CreditWrites
  <2>3. PICK n \in Nat : n = agentCall[c].amount
    BY CreditWrites
  <2>4. /\ commission[o].status = "NONE" /\ commission[o].amount = 0
        /\ commission'[o].status = "PENDING" /\ commission'[o].amount = n
        /\ \A x \in Sales : x # o => commission'[x] = commission[x]
        /\ agentAccount'[b].available = agentAccount[b].available
        /\ agentAccount'[b].pending = agentAccount[b].pending + n
        /\ agentAccount'[b].earned = agentAccount[b].earned + n
        /\ \A x \in Agents : x # b => agentAccount'[x] = agentAccount[x]
    BY <1>3, <2>1, <2>2, <2>3, CreditWrites
  <2>5. PICK f \in [Sales -> Int] : f = CommissionAmounts
    BY AgentSumsTyped
  <2>6. PICK g \in [Sales -> Int] : g = CommissionAmounts'
    <3>1. \A x \in Sales : commission'[x].amount \in Int
      BY DEF AgentShape, AgentTypeOK
    <3>2. CommissionAmounts' \in [Sales -> Int]
      BY <3>1 DEF CommissionAmounts
    <3> QED
      BY <3>2, Zenon
  <2>7. f[o] = 0 /\ g[o] = n /\ \A x \in Sales : x # o => g[x] = f[x]
    BY <2>4, <2>5, <2>6 DEF CommissionAmounts
  <2>8. ASSUME NEW a \in Agents
        PROVE  /\ agentAccount'[a].earned = SumFunctionOnSet(g, EarnedBy(a))
               /\ agentAccount'[a].pending + agentAccount'[a].available + PaidTo(a)'
                     = agentAccount'[a].earned
    <3>1. PICK S \in SUBSET Sales : S = EarnedBy(a) /\ IsFiniteSet(S)
      BY AgentSumsTyped
    <3>2. PICK s \in Int : s = SumFunctionOnSet(f, S)
      BY <3>1, SumInt
    <3>3. /\ agentAccount[a].earned = s
          /\ agentAccount[a].pending + agentAccount[a].available + PaidTo(a) = s
      BY <2>5, <3>1, <3>2 DEF CommissionsAreConserved, Earnings, CommissionAmounts
    <3>4. PaidTo(a)' = PaidTo(a) /\ PaidTo(a) \in Int
      BY <1>1, PaidStays, AgentSumsTyped
    <3>5. agentAccount[a].pending \in Int /\ agentAccount[a].available \in Int
      BY AgentTyped
    <3>6. CASE a = b
      <4>1. o \in S
        BY <2>2, <3>1, <3>6 DEF EarnedBy
      <4>2. SumFunctionOnSet(g, S) = s + (g[o] - f[o])
        BY <2>7, <3>1, <3>2, <4>1, SumChange
      <4>3. SumFunctionOnSet(g, S) = s + n
        BY <2>7, <4>2
      <4>4. agentAccount'[a].earned = s + n
        BY <2>4, <3>3, <3>6
      <4>5. agentAccount'[a].pending + agentAccount'[a].available + PaidTo(a)' = s + n
        BY <2>4, <3>3, <3>4, <3>5, <3>6
      <4> QED
        BY <3>1, <4>3, <4>4, <4>5
    <3>7. CASE a # b
      <4>1. o \notin S
        BY <2>2, <3>1, <3>7 DEF EarnedBy
      <4>2. \A x \in S : f[x] = g[x]
        BY <2>7, <4>1
      <4>3. SumFunctionOnSet(g, S) = s
        BY <3>1, <3>2, <4>2, SumSame
      <4> QED
        BY <2>4, <3>1, <3>3, <3>4, <3>7, <4>3
    <3> QED
      BY <3>6, <3>7
  <2>9. CommissionsAreConserved'
    BY <2>6, <2>8, Zenon DEF CommissionsAreConserved, Earnings, CommissionAmounts, EarnedBy
  <2>10. ASSUME ~jobsOverlapped, NEW a \in Agents
         PROVE  agentAccount'[a].pending = SumFunctionOnSet(g, Unmatured(a)')
    <3>1. PICK S \in SUBSET Sales : S = Unmatured(a) /\ IsFiniteSet(S)
      BY AgentSumsTyped
    <3>2. PICK s \in Int : s = SumFunctionOnSet(f, S)
      BY <3>1, SumInt
    <3>3. agentAccount[a].pending = s
      BY <2>5, <2>10, <3>1, <3>2 DEF PendingIsUnmatured, Earnings, CommissionAmounts, Unmatured
    <3>4. o \notin S
      BY <2>4, <3>1 DEF Unmatured
    <3>5. \A x \in S : f[x] = g[x]
      BY <2>7, <3>4
    <3>6. SumFunctionOnSet(g, S) = s
      BY <3>1, <3>2, <3>5, SumSame
    <3>7. CASE a = b
      <4>1. Unmatured(a)' = S \cup {o}
        BY <2>2, <2>4, <3>1, <3>7 DEF Unmatured, EarnedBy
      <4>2. SumFunctionOnSet(g, S \cup {o}) = s + n
        BY <2>7, <3>1, <3>4, <3>6, SumAdd
      <4> QED
        BY <2>4, <3>3, <3>7, <4>1, <4>2
    <3>8. CASE a # b
      <4>1. Unmatured(a)' = S
        BY <2>2, <2>4, <3>1, <3>8 DEF Unmatured, EarnedBy
      <4> QED
        BY <2>4, <3>3, <3>6, <3>8, <4>1
    <3> QED
      BY <3>7, <3>8
  <2>11. PendingIsUnmatured'
    BY <1>1, <2>6, <2>10, Zenon
       DEF PendingIsUnmatured, Earnings, CommissionAmounts, Unmatured, EarnedBy
  <2> QED
    BY <2>9, <2>11
<1> QED
  BY <1>2, <1>3

\* A maturation moves its amount between the two balances, and the commission out of
\* those that are PENDING; a second one of it is only possible when jobs overlapped.
LEMMA MatureMoney ==
    ASSUME AgentShape, AgentShape', CommissionsAreConserved, PendingIsUnmatured,
           NEW w \in Maturers, MatureWrite(w)
    PROVE  CommissionsAreConserved' /\ PendingIsUnmatured'
<1>1. UNCHANGED <<agentPayout, jobsOverlapped>>
  BY DEF MatureWrite
<1>2. PICK o \in Sales : o = agentCall[w].subject
  BY MatureWrites
<1>3. PICK b \in Agents : b = agentCall[w].agent /\ b = RecruiterOf[o]
  BY <1>2, MatureWrites
<1>4. PICK n \in Nat : n = agentCall[w].amount /\ n = commission[o].amount
  BY <1>2, MatureWrites
<1>5. /\ agentAccount'[b].available = agentAccount[b].available + n
      /\ agentAccount'[b].pending = agentAccount[b].pending - n
      /\ agentAccount'[b].earned = agentAccount[b].earned
      /\ \A x \in Agents : x # b => agentAccount'[x] = agentAccount[x]
  BY <1>3, <1>4, MatureWrites
<1>6. /\ commission'[o].status = "MATURED"
      /\ \A x \in Sales : /\ commission'[x].amount = commission[x].amount
                          /\ x # o => commission'[x] = commission[x]
  BY <1>2, MatureWrites
<1>7. \A S : Earnings(S)' = Earnings(S)
  BY <1>6, EarningsStay
<1>8. CommissionsAreConserved'
  <2> SUFFICES ASSUME NEW a \in Agents
               PROVE  /\ agentAccount'[a].earned = Earnings(EarnedBy(a))'
                      /\ agentAccount'[a].pending + agentAccount'[a].available + PaidTo(a)'
                            = agentAccount'[a].earned
    BY DEF CommissionsAreConserved
  <2>1. Earnings(EarnedBy(a))' = Earnings(EarnedBy(a)) /\ PaidTo(a)' = PaidTo(a)
    BY <1>1, <1>7, PaidStays DEF EarnedBy
  <2>2. PICK p \in Int : p = PaidTo(a)
    BY AgentSumsTyped
  <2>3. agentAccount[a].pending \in Int /\ agentAccount[a].available \in Int
    BY AgentTyped
  <2>4. /\ agentAccount[a].earned = Earnings(EarnedBy(a))
        /\ agentAccount[a].pending + agentAccount[a].available + p = agentAccount[a].earned
    BY <2>2 DEF CommissionsAreConserved
  <2>5. CASE a = b
    BY <1>5, <2>1, <2>2, <2>3, <2>4, <2>5
  <2>6. CASE a # b
    BY <1>5, <2>1, <2>2, <2>4, <2>6
  <2> QED
    BY <2>5, <2>6
<1>9. ASSUME ~jobsOverlapped, NEW a \in Agents
      PROVE  agentAccount'[a].pending = SumFunctionOnSet(CommissionAmounts, Unmatured(a)')
  <2>1. PICK S \in SUBSET Sales : S = Unmatured(a) /\ IsFiniteSet(S)
    BY AgentSumsTyped
  <2>2. PICK f \in [Sales -> Int] : f = CommissionAmounts
    BY AgentSumsTyped
  <2>3. agentAccount[a].pending = SumFunctionOnSet(f, S)
    BY <1>9, <2>1, <2>2 DEF PendingIsUnmatured, Earnings, CommissionAmounts, Unmatured
  <2>4. CASE a = b
    <3>1. commission[o].status = "PENDING"
      BY <1>2, <1>9, MatureWrites DEF Matures
    <3>2. o \in S /\ Unmatured(a)' = S \ {o}
      BY <1>3, <1>6, <2>1, <2>4, <3>1 DEF Unmatured, EarnedBy
    <3>3. SumFunctionOnSet(f, S) = f[o] + SumFunctionOnSet(f, S \ {o})
      BY <2>1, <3>2, SumRemove
    <3>4. f[o] = n
      BY <1>4, <2>2 DEF CommissionAmounts
    <3>5. PICK s \in Int : s = SumFunctionOnSet(f, S \ {o})
      <4>1. S \ {o} \in SUBSET Sales /\ IsFiniteSet(S \ {o})
        BY <2>1, FS_Subset
      <4> QED
        BY <4>1, SumInt
    <3>6. agentAccount'[a].pending = (n + s) - n
      BY <1>5, <2>3, <2>4, <3>3, <3>4, <3>5
    <3>7. (n + s) - n = s
      OBVIOUS
    <3> QED
      BY <2>2, <3>2, <3>5, <3>6, <3>7
  <2>5. CASE a # b
    <3>1. Unmatured(a)' = S
      BY <1>3, <1>6, <2>1, <2>5 DEF Unmatured, EarnedBy
    <3> QED
      BY <1>5, <2>2, <2>3, <2>5, <3>1
  <2> QED
    BY <2>4, <2>5
<1>10. PendingIsUnmatured'
  <2>1. CommissionAmounts' = CommissionAmounts
    BY <1>6 DEF CommissionAmounts
  <2> QED
    BY <1>1, <1>9, <2>1, Zenon
       DEF PendingIsUnmatured, Earnings, CommissionAmounts, Unmatured, EarnedBy
<1> QED
  BY <1>8, <1>10

\* A payout takes from the balance what it is worth.
LEMMA RequestMoney ==
    ASSUME AgentShape, AgentShape', CommissionsAreConserved, PendingIsUnmatured,
           NEW r \in PayoutRequests, NEW p \in PayoutIds, RequestWrite(r, p)
    PROVE  CommissionsAreConserved' /\ PendingIsUnmatured'
<1>1. UNCHANGED <<commission, jobsOverlapped>>
  BY DEF RequestWrite
<1>2. PICK b \in Agents : b = agentCall[r].agent
  BY RequestWrites
<1>3. PICK n \in Nat : n = agentCall[r].amount
  BY RequestWrites
<1>4. /\ agentAccount'[b].available = agentAccount[b].available - n
      /\ agentAccount'[b].pending = agentAccount[b].pending
      /\ agentAccount'[b].earned = agentAccount[b].earned
      /\ \A x \in Agents : x # b => agentAccount'[x] = agentAccount[x]
  BY <1>2, <1>3, RequestWrites
<1>5. \A S : Earnings(S)' = Earnings(S)
  BY <1>1, EarningsStay
<1>6. CommissionsAreConserved'
  <2> SUFFICES ASSUME NEW a \in Agents
               PROVE  /\ agentAccount'[a].earned = Earnings(EarnedBy(a))'
                      /\ agentAccount'[a].pending + agentAccount'[a].available + PaidTo(a)'
                            = agentAccount'[a].earned
    BY DEF CommissionsAreConserved
  <2>1. Earnings(EarnedBy(a))' = Earnings(EarnedBy(a))
    BY <1>5 DEF EarnedBy
  <2>2. PICK x \in Int : x = PaidTo(a)
    BY AgentSumsTyped
  <2>3. agentAccount[a].pending \in Int /\ agentAccount[a].available \in Int
    BY AgentTyped
  <2>4. /\ agentAccount[a].earned = Earnings(EarnedBy(a))
        /\ agentAccount[a].pending + agentAccount[a].available + x = agentAccount[a].earned
    BY <2>2 DEF CommissionsAreConserved
  <2>5. CASE a = b
    <3>1. PaidTo(a)' = x + n
      BY <1>2, <1>3, <2>2, <2>5, PaidGrows
    <3> QED
      BY <1>4, <2>1, <2>3, <2>4, <2>5, <3>1
  <2>6. CASE a # b
    <3>1. PaidTo(a)' = x
      BY <1>2, <2>2, <2>6, PaidGrows
    <3> QED
      BY <1>4, <2>1, <2>4, <2>6, <3>1
  <2> QED
    BY <2>5, <2>6
<1>7. PendingIsUnmatured'
  <2>1. \A a \in Agents : agentAccount'[a].pending = agentAccount[a].pending
    BY <1>4
  <2>2. CommissionAmounts' = CommissionAmounts
    BY <1>1 DEF CommissionAmounts
  <2> QED
    BY <1>1, <2>1, <2>2 DEF PendingIsUnmatured, Earnings, CommissionAmounts, EarnedBy
<1> QED
  BY <1>6, <1>7

\* A step keeps the books.
LEMMA MoneyStep ==
    AgentShape /\ AgentShape' /\ CommissionsAreConserved /\ PendingIsUnmatured
       /\ [AgentNext]_agentVars
    => CommissionsAreConserved' /\ PendingIsUnmatured'
<1> SUFFICES ASSUME AgentShape, AgentShape', CommissionsAreConserved, PendingIsUnmatured,
                    [AgentNext]_agentVars
             PROVE  CommissionsAreConserved' /\ PendingIsUnmatured'
  OBVIOUS
<1>0. ASSUME UNCHANGED <<agentAccount, commission, agentPayout>>,
             jobsOverlapped => jobsOverlapped'
      PROVE  CommissionsAreConserved' /\ PendingIsUnmatured'
  BY <1>0, MoneyStays
<1>1. CASE UNCHANGED agentVars
  BY <1>0, <1>1 DEF agentVars
<1>2. ASSUME NEW e \in RateEditors, NEW rate \in Rates, NEW minimum \in Minimums,
             NEW enabled \in BOOLEAN, RatesRead(e, rate, minimum, enabled)
      PROVE  CommissionsAreConserved' /\ PendingIsUnmatured'
  BY <1>0, <1>2 DEF RatesRead
<1>3. ASSUME NEW e \in RateEditors, RatesWrite(e)
      PROVE  CommissionsAreConserved' /\ PendingIsUnmatured'
  BY <1>0, <1>3 DEF RatesWrite
<1>4. ASSUME NEW c \in Crediters, NEW o \in Sales, CreditRead(c, o)
      PROVE  CommissionsAreConserved' /\ PendingIsUnmatured'
  BY <1>0, <1>4 DEF CreditRead
<1>5. ASSUME NEW o \in Sales, HoldEnds(o)
      PROVE  CommissionsAreConserved' /\ PendingIsUnmatured'
  <2>1. UNCHANGED <<agentAccount, agentPayout, jobsOverlapped>>
    BY <1>5 DEF HoldEnds
  <2>2. \A x \in Sales : /\ commission'[x].status = commission[x].status
                         /\ commission'[x].amount = commission[x].amount
    BY <1>5, HoldEndsShape
  <2> QED
    BY <2>1, <2>2, MoneyStays
<1>6. ASSUME NEW w \in Maturers, MatureStart(w)
      PROVE  CommissionsAreConserved' /\ PendingIsUnmatured'
  BY <1>0, <1>6 DEF MatureStart
<1>7. ASSUME NEW w \in Maturers, NEW o \in Sales, MatureRead(w, o)
      PROVE  CommissionsAreConserved' /\ PendingIsUnmatured'
  BY <1>0, <1>7 DEF MatureRead
<1>8. ASSUME NEW w \in Maturers, MatureFail(w)
      PROVE  CommissionsAreConserved' /\ PendingIsUnmatured'
  BY <1>0, <1>8 DEF MatureFail
<1>9. ASSUME NEW r \in PayoutRequests, NEW a \in Agents, NEW amount \in PayoutAmounts,
             RequestRead(r, a, amount)
      PROVE  CommissionsAreConserved' /\ PendingIsUnmatured'
  BY <1>0, <1>9 DEF RequestRead
<1>10. ASSUME NEW q \in Approvers, NEW p \in PayoutIds, ApproveRead(q, p)
       PROVE  CommissionsAreConserved' /\ PendingIsUnmatured'
  BY <1>0, <1>10 DEF ApproveRead
<1>11. ASSUME NEW q \in Approvers, ApproveWrite(q)
       PROVE  CommissionsAreConserved' /\ PendingIsUnmatured'
  <2>1. UNCHANGED <<commission, jobsOverlapped>>
    BY <1>11 DEF ApproveWrite
  <2>2. /\ \A x \in Agents : /\ agentAccount'[x].available = agentAccount[x].available
                             /\ agentAccount'[x].pending = agentAccount[x].pending
                             /\ agentAccount'[x].earned = agentAccount[x].earned
        /\ \A x \in PayoutIds : /\ agentPayout'[x].agent = agentPayout[x].agent
                                /\ agentPayout'[x].amount = agentPayout[x].amount
    BY <1>11, ApproveWrites
  <2> QED
    BY <2>1, <2>2, MoneyStays
<1>12. CASE AgentNext
  BY <1>2, <1>3, <1>4, <1>5, <1>6, <1>7, <1>8, <1>9, <1>10, <1>11, <1>12,
     CreditMoney, MatureMoney, RequestMoney
     DEF AgentNext
<1> QED
  BY <1>1, <1>12

\* At first nothing is earned, pending, available or paid.
LEMMA MoneyInit == AgentInit => CommissionsAreConserved /\ PendingIsUnmatured
<1> SUFFICES ASSUME AgentInit PROVE CommissionsAreConserved /\ PendingIsUnmatured
  OBVIOUS
<1>1. AgentShape
  BY AgentShapeInit
<1>2. /\ \A o \in Sales : CommissionAmounts[o] = 0
      /\ \A p \in PayoutIds : PayoutAmountOf[p] = 0
  BY DEF AgentInit, CommissionAmounts, PayoutAmountOf
<1>3. /\ CommissionAmounts \in [Sales -> Int] /\ PayoutAmountOf \in [PayoutIds -> Int]
      /\ \A a : /\ EarnedBy(a) \in SUBSET Sales /\ IsFiniteSet(EarnedBy(a))
                /\ Unmatured(a) \in SUBSET Sales /\ IsFiniteSet(Unmatured(a))
                /\ PayoutsOf(a) \in SUBSET PayoutIds /\ IsFiniteSet(PayoutsOf(a))
  BY <1>1, AgentSumsTyped
<1>4. ASSUME NEW S \in SUBSET Sales, IsFiniteSet(S) PROVE Earnings(S) = 0
  <2>1. PICK f \in [Sales -> Int] : f = CommissionAmounts
    BY <1>3
  <2>2. \A x \in S : f[x] = 0
    BY <1>2, <2>1
  <2>3. SumFunctionOnSet(f, S) = 0
    BY <1>4, <2>2, SumZero
  <2> QED
    BY <2>1, <2>3 DEF Earnings, CommissionAmounts
<1>5. ASSUME NEW a PROVE PaidTo(a) = 0
  <2>1. PICK f \in [PayoutIds -> Int] : f = PayoutAmountOf
    BY <1>3
  <2>2. PICK S \in SUBSET PayoutIds : S = PayoutsOf(a) /\ IsFiniteSet(S)
    BY <1>3
  <2>3. \A x \in S : f[x] = 0
    BY <1>2, <2>1
  <2>4. SumFunctionOnSet(f, S) = 0
    BY <2>2, <2>3, SumZero
  <2> QED
    BY <2>1, <2>2, <2>4 DEF PaidTo, PayoutAmountOf
<1>6. \A a \in Agents : /\ agentAccount[a].earned = 0 /\ agentAccount[a].pending = 0
                        /\ agentAccount[a].available = 0
  BY DEF AgentInit
<1>7. \A a : Earnings(EarnedBy(a)) = 0 /\ Earnings(Unmatured(a)) = 0
  BY <1>3, <1>4
<1> QED
  BY <1>5, <1>6, <1>7 DEF CommissionsAreConserved, PendingIsUnmatured, Unmatured

-----------------------------------------------------------------------------
(* Commissions: how far an agent can be overdrawn                          *)

\* A product is monotone.
LEMMA TimesMonotone == \A k, l, m \in Nat : k <= l => k * m <= l * m
<1> SUFFICES ASSUME NEW k \in Nat, NEW l \in Nat, NEW m \in Nat, k <= l PROVE k * m <= l * m
  OBVIOUS
<1>1. PICK d \in Nat : l = k + d
  BY l - k \in Nat
<1>2. (k + d) * m = k * m + d * m
  OBVIOUS
<1>3. d * m \in Nat /\ k * m \in Nat
  OBVIOUS
<1> QED
  BY <1>1, <1>2, <1>3

LEMMA AskedTyped ==
    ASSUME AgentShape
    PROVE  /\ Asked \in [PayoutRequests -> Nat]
           /\ IsFiniteSet(PayoutRequests) /\ PayoutRequests \subseteq AgentRequests
           /\ \A a : Asking(a) \in SUBSET PayoutRequests /\ IsFiniteSet(Asking(a))
<1>1. IsFiniteSet(PayoutRequests)
  BY AgentConstants
<1>2. PayoutRequests \subseteq AgentRequests
  BY DEF AgentRequests
<1>3. \A r \in PayoutRequests : agentCall[r].amount \in Nat
  BY <1>2, AgentTyped DEF AgentCallState
<1>4. Asked \in [PayoutRequests -> Nat]
  BY <1>3 DEF Asked
<1>5. \A a : Asking(a) \in SUBSET PayoutRequests
  BY DEF Asking
<1>6. \A a : IsFiniteSet(Asking(a))
  BY <1>1, <1>5, FS_Subset
<1> QED
  BY <1>1, <1>2, <1>4, <1>5, <1>6

LEMMA LargestPayout ==
    /\ Max(PayoutAmounts) \in Nat
    /\ \A n \in PayoutAmounts : n \in Nat /\ n <= Max(PayoutAmounts)
<1>1. PayoutAmounts \in SUBSET Nat /\ IsFiniteSet(PayoutAmounts) /\ PayoutAmounts # {}
  BY AgentConstants
<1> QED
  BY <1>1, LargestMember

\* The requests of an agent are those of before, for the same amounts.
LEMMA AskingStays ==
    ASSUME AgentShape, NEW a, NEW S, S = Asking(a)', NEW T, T = Asking(a),
           \A x \in S \cup T : agentCall'[x] = agentCall[x],
           \A x \in PayoutRequests : x \in S <=> x \in T
    PROVE  S = T /\ SumFunctionOnSet(Asked, Asking(a))' = SumFunctionOnSet(Asked, Asking(a))
<1>1. S = T
  BY DEF Asking
<1>2. T \in SUBSET PayoutRequests /\ IsFiniteSet(T)
  BY AskedTyped
<1>3. PICK f : f = Asked
  OBVIOUS
<1>4. PICK g : g = Asked'
  OBVIOUS
<1>5. \A x \in T : f[x] = g[x]
  BY <1>2, <1>3, <1>4 DEF Asked
<1>6. SumFunctionOnSet(f, T) = SumFunctionOnSet(g, T)
  BY <1>2, <1>5, SumSame
<1> QED
  BY <1>1, <1>3, <1>4, <1>6

\* A step that neither begins nor ends a payout request and takes nothing.
LEMMA SolventStays ==
    ASSUME AgentShape, AgentShape', AgentsSolvent,
           \A x \in PayoutRequests :
              \/ agentCall'[x] = agentCall[x]
              \/ agentCall[x].pc # "request" /\ agentCall'[x].pc # "request",
           \A a \in Agents : agentAccount'[a].available >= agentAccount[a].available
    PROVE  AgentsSolvent'
<1> SUFFICES ASSUME PayoutRequests # {}, NEW a \in Agents
             PROVE  agentAccount'[a].available >=
                       SumFunctionOnSet(Asked, Asking(a))' - AgentSlack
  BY DEF AgentsSolvent, AgentSlack
<1>1. PICK S : S = Asking(a)'
  OBVIOUS
<1>2. PICK T : T = Asking(a)
  OBVIOUS
<1>3. /\ \A x \in S \cup T : agentCall'[x] = agentCall[x]
      /\ \A x \in PayoutRequests : x \in S <=> x \in T
  BY <1>1, <1>2 DEF Asking
<1>4. SumFunctionOnSet(Asked, Asking(a))' = SumFunctionOnSet(Asked, Asking(a))
  BY <1>1, <1>2, <1>3, AskingStays
<1>5. PICK k : k = SumFunctionOnSet(Asked, Asking(a)) - AgentSlack
  OBVIOUS
<1>6. agentAccount[a].available >= k
  BY <1>5 DEF AgentsSolvent
<1>7. agentAccount[a].available \in Int /\ agentAccount'[a].available \in Int
  BY AgentTyped DEF AgentShape, AgentTypeOK
<1>8. k \in Int
  <2>1. SumFunctionOnSet(Asked, Asking(a)) \in Int
    <3>1. PICK f \in [PayoutRequests -> Int] : f = Asked
      BY AskedTyped
    <3>2. T \in SUBSET PayoutRequests /\ IsFiniteSet(T)
      BY <1>2, AskedTyped
    <3> QED
      BY <1>2, <3>1, <3>2, SumInt
  <2>2. AgentSlack \in Int
    BY LargestPayout, AgentConstants, FS_CardinalityType DEF AgentSlack
  <2> QED
    BY <1>5, <2>1, <2>2
<1>9. agentAccount'[a].available >= k
  BY <1>6, <1>7, <1>8
<1> QED
  BY <1>4, <1>5, <1>9

\* A request that finds the balance it asks for: all the others together ask for no
\* more than AgentSlack.
LEMMA SolventBegins ==
    ASSUME AgentShape, AgentShape', AgentsSolvent, NEW r \in PayoutRequests, NEW a \in Agents,
           NEW n \in PayoutAmounts, RequestRead(r, a, n)
    PROVE  AgentsSolvent'
<1>1. r \in AgentRequests /\ agentCall[r].pc = "idle"
  BY DEF RequestRead, AgentRequests
<1>2. PICK m : m = [AgentIdle EXCEPT !.pc = "request", !.agent = a, !.amount = n]
  OBVIOUS
<1>3. m.pc = "request" /\ m.agent = a /\ m.amount = n
  BY <1>2 DEF AgentIdle
<1>4. agentCall' = [agentCall EXCEPT ![r] = m] /\ agentAccount' = agentAccount
  BY <1>2 DEF RequestRead
<1>5. agentCall'[r] = m /\ \A x \in AgentRequests : x # r => agentCall'[x] = agentCall[x]
  BY <1>1, <1>4, AgentOthers
<1>6. PayoutRequests \subseteq AgentRequests
  BY AskedTyped
<1> SUFFICES ASSUME NEW b \in Agents
             PROVE  agentAccount'[b].available >=
                       SumFunctionOnSet(Asked, Asking(b))' - AgentSlack
  BY DEF AgentsSolvent, AgentSlack
<1>7. PICK T \in SUBSET PayoutRequests : T = Asking(b) /\ IsFiniteSet(T)
  BY AskedTyped
<1>8. r \notin T
  BY <1>1, <1>7 DEF Asking
<1>9. PICK S : S = Asking(b)'
  OBVIOUS
<1>10. CASE b # a
  <2>1. /\ \A x \in S \cup T : agentCall'[x] = agentCall[x]
        /\ \A x \in PayoutRequests : x \in S <=> x \in T
    BY <1>3, <1>5, <1>6, <1>7, <1>8, <1>9, <1>10 DEF Asking
  <2>2. SumFunctionOnSet(Asked, Asking(b))' = SumFunctionOnSet(Asked, Asking(b))
    BY <1>7, <1>9, <2>1, AskingStays
  <2> QED
    BY <1>4, <2>2 DEF AgentsSolvent
<1>11. CASE b = a
  <2>1. S = T \cup {r}
    BY <1>3, <1>5, <1>6, <1>7, <1>8, <1>9, <1>11 DEF Asking
  <2>2. PICK g \in [PayoutRequests -> Int] : g = Asked'
    <3>1. \A x \in PayoutRequests : agentCall'[x].amount \in Int
      BY <1>6 DEF AgentShape, AgentCallsFit, AgentCallState
    <3>2. Asked' \in [PayoutRequests -> Int]
      BY <3>1 DEF Asked
    <3> QED
      BY <3>2, Zenon
  <2>3. g[r] = n /\ \A x \in T : g[x] = agentCall[x].amount
    BY <1>3, <1>5, <1>6, <1>7, <1>8, <2>2 DEF Asked
  <2>4. \A x \in T : agentCall[x].amount \in PayoutAmounts
    BY <1>6, <1>7, AgentTyped DEF Asking, AgentFits
  <2>5. PICK M \in Nat : M = Max(PayoutAmounts) /\ \A k \in PayoutAmounts : k \in Nat /\ k <= M
    BY LargestPayout
  <2>6. PICK s \in Int : s = SumFunctionOnSet(g, T)
    BY <1>7, SumInt
  <2>7. PICK k \in Nat : k = Cardinality(T)
    BY <1>7, FS_CardinalityType
  <2>8. PICK c \in Nat : c = Cardinality(PayoutRequests) - 1 /\ k <= c
    <3>1. IsFiniteSet(PayoutRequests) /\ IsFiniteSet(PayoutRequests \ {r})
      BY AskedTyped, FS_Subset
    <3>2. /\ Cardinality(PayoutRequests \ {r}) = Cardinality(PayoutRequests) - 1
      BY <3>1, FS_RemoveElement
    <3>3. T \subseteq PayoutRequests \ {r}
      BY <1>7, <1>8
    <3>4. Cardinality(T) <= Cardinality(PayoutRequests \ {r})
      BY <3>1, <3>3, FS_Subset
    <3>5. Cardinality(PayoutRequests \ {r}) \in Nat
      BY <3>1, FS_CardinalityType
    <3> QED
      BY <2>7, <3>2, <3>4, <3>5
  <2>9. s <= k * M
    <3>1. \A x \in T : g[x] <= M
      BY <2>3, <2>4, <2>5
    <3> QED
      BY <1>7, <2>5, <2>6, <2>7, <3>1, SumBound
  <2>10. PICK L \in Int : L = c * M /\ L = AgentSlack
    BY <2>5, <2>8 DEF AgentSlack
  <2>11. s <= L
    <3>1. k * M <= c * M /\ k * M \in Int
      BY <2>8, TimesMonotone
    <3> QED
      BY <2>9, <2>10, <3>1
  <2>12. SumFunctionOnSet(g, S) = s + n
    BY <1>7, <1>8, <2>1, <2>3, <2>6, SumAdd
  <2>13. PICK v \in Int : v = agentAccount'[b].available /\ v >= n
    BY <1>4, <1>11, AgentTyped DEF RequestRead
  <2>14. v >= (s + n) - L
    BY <2>5, <2>11, <2>13
  <2> QED
    BY <1>9, <2>2, <2>10, <2>12, <2>13, <2>14
<1> QED
  BY <1>10, <1>11

\* A debit takes what its request asked for, and the request is over.
LEMMA SolventEnds ==
    ASSUME AgentShape, AgentShape', AgentsSolvent, NEW r \in PayoutRequests,
           NEW p \in PayoutIds, RequestWrite(r, p)
    PROVE  AgentsSolvent'
<1>1. r \in AgentRequests /\ agentCall[r].pc = "request"
  BY RequestWrites
<1>2. PICK a \in Agents : a = agentCall[r].agent
  BY RequestWrites
<1>3. PICK n \in Nat : n = agentCall[r].amount
  BY RequestWrites
<1>4. /\ agentAccount'[a].available = agentAccount[a].available - n
      /\ \A x \in Agents : x # a => agentAccount'[x] = agentAccount[x]
  BY <1>2, <1>3, RequestWrites
<1>5. agentCall'[r] = AgentIdle /\ \A x \in AgentRequests : x # r => agentCall'[x] = agentCall[x]
  BY <1>1, AgentOthers DEF RequestWrite, AgentDone
<1>6. PayoutRequests \subseteq AgentRequests /\ AgentIdle.pc = "idle"
  BY AskedTyped DEF AgentIdle
<1> SUFFICES ASSUME NEW b \in Agents
             PROVE  agentAccount'[b].available >=
                       SumFunctionOnSet(Asked, Asking(b))' - AgentSlack
  BY DEF AgentsSolvent, AgentSlack
<1>7. PICK T \in SUBSET PayoutRequests : T = Asking(b) /\ IsFiniteSet(T)
  BY AskedTyped
<1>8. PICK S : S = Asking(b)'
  OBVIOUS
<1>9. CASE b # a
  <2>1. /\ \A x \in S \cup T : agentCall'[x] = agentCall[x]
        /\ \A x \in PayoutRequests : x \in S <=> x \in T
    BY <1>2, <1>5, <1>6, <1>7, <1>8, <1>9 DEF Asking
  <2>2. SumFunctionOnSet(Asked, Asking(b))' = SumFunctionOnSet(Asked, Asking(b))
    BY <1>7, <1>8, <2>1, AskingStays
  <2> QED
    BY <1>4, <1>9, <2>2 DEF AgentsSolvent
<1>10. CASE b = a
  <2>1. r \in T /\ S = T \ {r}
    BY <1>1, <1>2, <1>5, <1>6, <1>7, <1>8, <1>10 DEF Asking
  <2>2. PICK f \in [PayoutRequests -> Int] : f = Asked
    BY AskedTyped
  <2>3. f[r] = n
    BY <1>3, <2>2 DEF Asked
  <2>4. S \in SUBSET PayoutRequests /\ IsFiniteSet(S)
    BY <1>7, <2>1, FS_Subset
  <2>5. PICK s \in Int : s = SumFunctionOnSet(f, S)
    BY <2>4, SumInt
  <2>6. SumFunctionOnSet(f, T) = n + s
    BY <1>7, <2>1, <2>3, <2>5, SumRemove
  <2>7. PICK g : g = Asked'
    OBVIOUS
  <2>8. \A x \in S : f[x] = g[x]
    BY <1>5, <1>6, <2>1, <2>2, <2>4, <2>7 DEF Asked
  <2>9. SumFunctionOnSet(g, S) = s
    BY <2>4, <2>5, <2>8, SumSame
  <2>10. PICK L \in Int : L = AgentSlack
    BY LargestPayout, AgentConstants, FS_CardinalityType DEF AgentSlack
  <2>11. PICK v \in Int : v = agentAccount[b].available
    BY AgentTyped
  <2>12. v >= (n + s) - L
    BY <1>7, <2>2, <2>6, <2>10, <2>11 DEF AgentsSolvent
  <2>13. v - n >= s - L
    BY <2>12
  <2>14. agentAccount'[b].available = v - n
    BY <1>4, <1>10, <2>11
  <2> QED
    BY <1>8, <2>7, <2>9, <2>10, <2>13, <2>14
<1> QED
  BY <1>9, <1>10

\* A step keeps what the requests under way ask for within the bound.
LEMMA SolventStep ==
    AgentShape /\ AgentShape' /\ AgentsSolvent /\ [AgentNext]_agentVars => AgentsSolvent'
<1> SUFFICES ASSUME AgentShape, AgentShape', AgentsSolvent, [AgentNext]_agentVars
             PROVE  AgentsSolvent'
  OBVIOUS
<1>a. ASSUME NEW c \in AgentRequests, NEW m, agentCall' = [agentCall EXCEPT ![c] = m],
             agentCall[c].pc # "request", m.pc # "request",
             \A a \in Agents : agentAccount'[a].available >= agentAccount[a].available
      PROVE  AgentsSolvent'
  <2>1. agentCall'[c] = m /\ \A x \in AgentRequests : x # c => agentCall'[x] = agentCall[x]
    BY <1>a, AgentOthers
  <2>2. PayoutRequests \subseteq AgentRequests
    BY AskedTyped
  <2>3. \A x \in PayoutRequests :
           \/ agentCall'[x] = agentCall[x]
           \/ agentCall[x].pc # "request" /\ agentCall'[x].pc # "request"
    BY <1>a, <2>1, <2>2
  <2> QED
    BY <1>a, <2>3, SolventStays
<1>b. \A a \in Agents : agentAccount[a].available >= agentAccount[a].available
  BY AgentTyped
<1>c. AgentIdle.pc = "idle"
  BY DEF AgentIdle
<1>1. CASE UNCHANGED <<agentAccount, agentCall>>
  BY <1>1, <1>b, SolventStays
<1>2. ASSUME NEW e \in RateEditors, NEW rate \in Rates, NEW minimum \in Minimums,
             NEW enabled \in BOOLEAN, RatesRead(e, rate, minimum, enabled)
      PROVE  AgentsSolvent'
  <2>1. e \in AgentRequests /\ agentCall[e].pc = "idle"
    BY <1>2 DEF RatesRead, AgentRequests
  <2>2. PICK current \in ActiveRates :
           agentCall' = [agentCall EXCEPT ![e] =
              [AgentIdle EXCEPT !.pc = "rates",
                 !.subject = [version |-> current.version + 1, rate |-> rate,
                              minimum |-> minimum, enabled |-> enabled],
                 !.rows = rateConfigs]]
    BY <1>2 DEF RatesRead
  <2>3. PICK m :
           m = [AgentIdle EXCEPT !.pc = "rates",
                  !.subject = [version |-> current.version + 1, rate |-> rate,
                               minimum |-> minimum, enabled |-> enabled],
                  !.rows = rateConfigs]
    OBVIOUS
  <2>4. m.pc = "rates" /\ agentCall' = [agentCall EXCEPT ![e] = m]
    BY <2>2, <2>3 DEF AgentIdle
  <2> QED
    BY <1>2, <1>a, <1>b, <2>1, <2>4 DEF RatesRead
<1>3. ASSUME NEW e \in RateEditors, RatesWrite(e) PROVE AgentsSolvent'
  BY <1>3, <1>a, <1>b, <1>c DEF RatesWrite, AgentRequests, AgentDone
<1>4. ASSUME NEW c \in Crediters, NEW o \in Sales, CreditRead(c, o) PROVE AgentsSolvent'
  <2>1. c \in AgentRequests /\ agentCall[c].pc = "idle"
    BY <1>4 DEF CreditRead, AgentRequests
  <2>2. PICK config \in ActiveRates :
           agentCall' = [agentCall EXCEPT ![c] =
              [AgentIdle EXCEPT !.pc = "credit", !.agent = RecruiterOf[o], !.subject = o,
                                !.amount = SaleBase[o] * config.rate]]
    BY <1>4 DEF CreditRead
  <2>3. PICK m : m = [AgentIdle EXCEPT !.pc = "credit", !.agent = RecruiterOf[o], !.subject = o,
                                       !.amount = SaleBase[o] * config.rate]
    OBVIOUS
  <2>4. m.pc = "credit" /\ agentCall' = [agentCall EXCEPT ![c] = m]
    BY <2>2, <2>3 DEF AgentIdle
  <2> QED
    BY <1>4, <1>a, <1>b, <2>1, <2>4 DEF CreditRead
<1>5. ASSUME NEW c \in Crediters, CreditWrite(c) PROVE AgentsSolvent'
  <2>1. /\ c \in AgentRequests /\ agentCall[c].pc = "credit"
        /\ agentCall' = [agentCall EXCEPT ![c] = AgentIdle]
    BY <1>5 DEF CreditWrite, AgentRequests, AgentDone
  <2>2. \A a \in Agents : agentAccount'[a].available = agentAccount[a].available
    BY <1>5, CreditWrites
  <2> QED
    BY <1>a, <1>b, <1>c, <2>1, <2>2
<1>6. ASSUME NEW w \in Maturers, NEW o \in Sales, MatureRead(w, o) PROVE AgentsSolvent'
  <2>1. CASE commission[o].status = "PENDING"
    <3>1. w \in AgentRequests /\ agentCall[w].pc = "idle"
      BY <1>6 DEF MatureRead, AgentRequests
    <3>2. PICK m : m = [AgentIdle EXCEPT !.pc = "mature", !.agent = RecruiterOf[o],
                                         !.subject = o, !.amount = commission[o].amount]
      OBVIOUS
    <3>3. m.pc = "mature" /\ agentCall' = [agentCall EXCEPT ![w] = m]
      BY <1>6, <2>1, <3>2 DEF MatureRead, AgentIdle
    <3> QED
      BY <1>6, <1>a, <1>b, <3>1, <3>3 DEF MatureRead
  <2>2. CASE commission[o].status # "PENDING"
    BY <1>1, <1>6, <2>2 DEF MatureRead
  <2> QED
    BY <2>1, <2>2
<1>7. ASSUME NEW w \in Maturers, MatureWrite(w) PROVE AgentsSolvent'
  <2>1. /\ w \in AgentRequests /\ agentCall[w].pc = "mature"
        /\ agentCall' = [agentCall EXCEPT ![w] = AgentIdle]
    BY <1>7 DEF MatureWrite, AgentRequests, AgentDone
  <2>2. PICK n \in Nat : n = agentCall[w].amount
    BY <1>7, MatureWrites
  <2>3. /\ agentAccount'[agentCall[w].agent].available
              = agentAccount[agentCall[w].agent].available + n
        /\ \A x \in Agents : x # agentCall[w].agent => agentAccount'[x] = agentAccount[x]
    BY <1>7, <2>2, MatureWrites
  <2>4. \A a \in Agents : agentAccount[a].available \in Int
    BY AgentTyped
  <2>5. \A a \in Agents : agentAccount'[a].available >= agentAccount[a].available
    BY <2>2, <2>3, <2>4
  <2> QED
    BY <1>a, <1>c, <2>1, <2>5
<1>8. ASSUME NEW w \in Maturers, MatureFail(w) PROVE AgentsSolvent'
  BY <1>8, <1>a, <1>b, <1>c DEF MatureFail, AgentRequests, AgentDone
<1>9. ASSUME NEW q \in Approvers, NEW p \in PayoutIds, ApproveRead(q, p) PROVE AgentsSolvent'
  <2>1. q \in AgentRequests /\ agentCall[q].pc = "idle"
    BY <1>9 DEF ApproveRead, AgentRequests
  <2>2. PICK m : m = [AgentIdle EXCEPT !.pc = "approve", !.agent = agentPayout[p].agent,
                                       !.subject = p, !.amount = agentPayout[p].amount]
    OBVIOUS
  <2>3. m.pc = "approve" /\ agentCall' = [agentCall EXCEPT ![q] = m]
    BY <1>9, <2>2 DEF ApproveRead, AgentIdle
  <2> QED
    BY <1>9, <1>a, <1>b, <2>1, <2>3 DEF ApproveRead
<1>10. ASSUME NEW q \in Approvers, ApproveWrite(q) PROVE AgentsSolvent'
  <2>1. /\ q \in AgentRequests /\ agentCall[q].pc = "approve"
        /\ agentCall' = [agentCall EXCEPT ![q] = AgentIdle]
    BY <1>10 DEF ApproveWrite, AgentRequests, AgentDone
  <2>2. \A a \in Agents : agentAccount'[a].available = agentAccount[a].available
    BY <1>10, ApproveWrites
  <2> QED
    BY <1>a, <1>b, <1>c, <2>1, <2>2
<1>11. ASSUME NEW o \in Sales, HoldEnds(o) PROVE AgentsSolvent'
  BY <1>1, <1>11 DEF HoldEnds
<1>12. ASSUME NEW w \in Maturers, MatureStart(w) PROVE AgentsSolvent'
  BY <1>1, <1>12 DEF MatureStart
<1>13. CASE AgentNext
  BY <1>2, <1>3, <1>4, <1>5, <1>6, <1>7, <1>8, <1>9, <1>10, <1>11, <1>12, <1>13,
     SolventBegins, SolventEnds
     DEF AgentNext
<1>14. CASE UNCHANGED agentVars
  BY <1>1, <1>14 DEF agentVars
<1> QED
  BY <1>13, <1>14

\* At first nobody asks for anything.
LEMMA SolventInit == AgentInit => AgentsSolvent
<1> SUFFICES ASSUME AgentInit, PayoutRequests # {}, NEW a \in Agents
             PROVE  agentAccount[a].available >= SumFunctionOnSet(Asked, Asking(a)) - AgentSlack
  BY DEF AgentsSolvent
<1>1. Asking(a) = {}
  BY AskedTyped, AgentShapeInit DEF AgentInit, AgentIdle, Asking
<1>2. SumFunctionOnSet(Asked, Asking(a)) = 0
  BY <1>1, SumEmpty
<1>3. AgentSlack \in Nat
  <2>1. IsFiniteSet(PayoutRequests)
    BY AgentConstants
  <2>2. PICK k \in Nat : k = Cardinality(PayoutRequests) /\ k # 0
    BY <2>1, FS_CardinalityType, FS_EmptySet
  <2>3. PICK c \in Nat : c = k - 1
    BY <2>2
  <2>4. c * Max(PayoutAmounts) \in Nat
    BY LargestPayout
  <2> QED
    BY <2>2, <2>3, <2>4 DEF AgentSlack
<1>4. agentAccount[a].available = 0
  BY DEF AgentInit
<1> QED
  BY <1>2, <1>3, <1>4

LEMMA AgentInvStep == AgentInv /\ [AgentNext]_agentVars => AgentInv'
BY AgentShapeStep, MoneyStep, SolventStep DEF AgentInv

LEMMA AgentInvInit == AgentInit => AgentInv
BY AgentShapeInit, MoneyInit, SolventInit DEF AgentInv

AgentsWithinSlack ==
    PayoutRequests # {} => \A a \in Agents : agentAccount[a].available >= -AgentSlack

\* While requests are under way no agent is overdrawn by more than the others of them
\* ask for.
LEMMA OverdrawnBounded == AgentInv => AgentsWithinSlack
<1> SUFFICES ASSUME AgentInv, PayoutRequests # {}, NEW a \in Agents
             PROVE  agentAccount[a].available >= -AgentSlack
  BY DEF AgentsWithinSlack
<1>1. AgentShape /\ AgentsSolvent
  BY DEF AgentInv
<1>2. PICK s \in Nat : s = SumFunctionOnSet(Asked, Asking(a))
  <2>1. PICK f \in [PayoutRequests -> Nat] : f = Asked
    BY <1>1, AskedTyped
  <2>2. PICK T \in SUBSET PayoutRequests : T = Asking(a) /\ IsFiniteSet(T)
    BY <1>1, AskedTyped
  <2> QED
    BY <2>1, <2>2, SumNat
<1>3. PICK v \in Int : v = agentAccount[a].available
  BY <1>1, AgentTyped
<1>4. PICK L \in Int : L = AgentSlack
  BY LargestPayout, AgentConstants, FS_CardinalityType DEF AgentSlack
<1>5. v >= s - L
  BY <1>1, <1>2, <1>3, <1>4 DEF AgentsSolvent
<1> QED
  BY <1>2, <1>3, <1>4, <1>5

LEMMA OverdrawnBoundedNext == AgentInv' => AgentsWithinSlack'
BY OverdrawnBounded, PTL

-----------------------------------------------------------------------------
(* Commissions: the available balance is an account                        *)

LEMMA AgentAccountStutters ==
    ASSUME \A a \in Agents : /\ agentAccount'[a].available = agentAccount[a].available
                             /\ agentAccount'[a].earned - agentAccount'[a].pending
                                   = agentAccount[a].earned - agentAccount[a].pending
                             /\ PaidTo(a)' = PaidTo(a)
    PROVE  UNCHANGED AgentAccountOf!accountVars
BY DEF AgentAccountOf!accountVars

\* A maturation is a credit.
LEMMA MaturingCredits ==
    ASSUME AgentInv, NEW w \in Maturers, MatureWrite(w)
    PROVE  AgentAccountOf!AccountNext
<1>1. AgentShape
  BY DEF AgentInv
<1>2. PICK b \in Agents : b = agentCall[w].agent
  BY <1>1, MatureWrites
<1>3. PICK n \in Nat : n = agentCall[w].amount /\ n > 0
  BY <1>1, MatureWrites
<1>4. /\ agentAccount'[b].available = agentAccount[b].available + n
      /\ agentAccount'[b].pending = agentAccount[b].pending - n
      /\ agentAccount'[b].earned = agentAccount[b].earned
      /\ \A x \in Agents : x # b => agentAccount'[x] = agentAccount[x]
  BY <1>1, <1>2, <1>3, MatureWrites
<1>5. PICK f : f = [a \in Agents |-> agentAccount[a].available]
  OBVIOUS
<1>6. PICK f2 : f2 = [a \in Agents |-> agentAccount'[a].available]
  OBVIOUS
<1>7. PICK g : g = [a \in Agents |-> agentAccount[a].earned - agentAccount[a].pending]
  OBVIOUS
<1>8. PICK g2 : g2 = [a \in Agents |-> agentAccount'[a].earned - agentAccount'[a].pending]
  OBVIOUS
<1>9. /\ agentAccount[b].available \in Int /\ agentAccount[b].pending \in Int
      /\ agentAccount[b].earned \in Int
  BY <1>1, AgentTyped
<1>10. g2[b] - g[b] = n /\ g[b] \in Int /\ g2[b] \in Int /\ g2[b] > g[b]
  BY <1>3, <1>4, <1>7, <1>8, <1>9
<1>11. f2 = [f EXCEPT ![b] = @ + (g2[b] - g[b])]
  BY <1>4, <1>5, <1>6, <1>10
<1>12. g2 = [g EXCEPT ![b] = g2[b]]
  BY <1>4, <1>7, <1>8
<1>13. \A a : PaidTo(a)' = PaidTo(a)
  BY PaidStays DEF MatureWrite
<1>14. AgentAccountOf!Credit(b)
  BY <1>5, <1>6, <1>7, <1>8, <1>10, <1>11, <1>12, <1>13 DEF AgentAccountOf!Credit
<1> QED
  BY <1>14 DEF AgentAccountOf!AccountNext

\* A payout request's debit spends, within the bound.
LEMMA PayingSpends ==
    ASSUME AgentInv, AgentInv', NEW r \in PayoutRequests, NEW p \in PayoutIds,
           RequestWrite(r, p)
    PROVE  AgentAccountOf!AccountNext
<1>1. AgentShape /\ AgentShape'
  BY DEF AgentInv
<1>2. PICK b \in Agents : b = agentCall[r].agent
  BY <1>1, RequestWrites
<1>3. PICK n \in Nat : n = agentCall[r].amount /\ n > 0
  BY <1>1, RequestWrites
<1>4. /\ agentAccount'[b].available = agentAccount[b].available - n
      /\ agentAccount'[b].pending = agentAccount[b].pending
      /\ agentAccount'[b].earned = agentAccount[b].earned
      /\ \A x \in Agents : x # b => agentAccount'[x] = agentAccount[x]
  BY <1>1, <1>2, <1>3, RequestWrites
<1>5. PICK f : f = [a \in Agents |-> agentAccount[a].available]
  OBVIOUS
<1>6. PICK f2 : f2 = [a \in Agents |-> agentAccount'[a].available]
  OBVIOUS
<1>7. PICK h : h = [a \in Agents |-> PaidTo(a)]
  OBVIOUS
<1>8. PICK h2 : h2 = [a \in Agents |-> PaidTo(a)']
  OBVIOUS
<1>9. \A a \in Agents : PaidTo(a)' = PaidTo(a) + IF a = b THEN n ELSE 0
  BY <1>1, <1>2, <1>3, PaidGrows
<1>10. \A a \in Agents : PaidTo(a) \in Int
  BY <1>1, AgentSumsTyped
<1>11. /\ h[b] \in Int /\ h2[b] \in Int /\ h2[b] - h[b] = n /\ h2[b] > h[b]
       /\ \A a \in Agents : a # b => h2[a] = h[a]
  BY <1>3, <1>7, <1>8, <1>9, <1>10
<1>12. agentAccount[b].available \in Int
  BY <1>1, AgentTyped
<1>13. f2 = [f EXCEPT ![b] = @ - (h2[b] - h[b])]
  BY <1>4, <1>5, <1>6, <1>11, <1>12
<1>14. h2 = [h EXCEPT ![b] = h2[b]]
  BY <1>7, <1>8, <1>11
<1>15. f2[b] >= -AgentSlack
  <2>1. agentAccount'[b].available >= -AgentSlack
    BY OverdrawnBoundedNext DEF AgentsWithinSlack, AgentSlack
  <2> QED
    BY <1>6, <2>1
<1>16. \A a \in Agents : agentAccount'[a].earned - agentAccount'[a].pending
                            = agentAccount[a].earned - agentAccount[a].pending
  BY <1>4
<1>17. AgentAccountOf!Spend(b)
  BY <1>5, <1>6, <1>7, <1>8, <1>11, <1>13, <1>14, <1>15, <1>16 DEF AgentAccountOf!Spend
<1> QED
  BY <1>17 DEF AgentAccountOf!AccountNext

LEMMA AgentStepIsAccountStep ==
    AgentInv /\ AgentInv' /\ [AgentNext]_agentVars
    => [AgentAccountOf!AccountNext]_AgentAccountOf!accountVars
<1> SUFFICES ASSUME AgentInv, AgentInv', [AgentNext]_agentVars
             PROVE  AgentAccountOf!AccountNext \/ UNCHANGED AgentAccountOf!accountVars
  OBVIOUS
<1>0. AgentShape
  BY DEF AgentInv
<1>a. ASSUME UNCHANGED <<agentAccount, agentPayout>>
      PROVE  UNCHANGED AgentAccountOf!accountVars
  <2>1. \A a : PaidTo(a)' = PaidTo(a)
    BY <1>a, PaidStays
  <2> QED
    BY <1>a, <2>1, AgentAccountStutters
<1>1. CASE UNCHANGED agentVars
  BY <1>a, <1>1 DEF agentVars
<1>2. ASSUME NEW c \in Crediters, CreditWrite(c)
      PROVE  UNCHANGED AgentAccountOf!accountVars
  <2>1. \A a : PaidTo(a)' = PaidTo(a)
    BY <1>2, PaidStays DEF CreditWrite
  <2>2. PICK n \in Nat : n = agentCall[c].amount
    BY <1>0, <1>2, CreditWrites
  <2>3. CASE UNCHANGED <<agentAccount, commission>>
    BY <2>1, <2>3, AgentAccountStutters
  <2>4. CASE ~ UNCHANGED <<agentAccount, commission>>
    <3>1. PICK b \in Agents : b = agentCall[c].agent
      BY <1>0, <1>2, CreditWrites
    <3>2. /\ agentAccount'[b].available = agentAccount[b].available
          /\ agentAccount'[b].pending = agentAccount[b].pending + n
          /\ agentAccount'[b].earned = agentAccount[b].earned + n
          /\ \A x \in Agents : x # b => agentAccount'[x] = agentAccount[x]
      BY <1>0, <1>2, <2>2, <2>4, <3>1, CreditWrites
    <3>3. /\ agentAccount[b].pending \in Int /\ agentAccount[b].earned \in Int
      BY <1>0, AgentTyped
    <3>4. agentAccount'[b].earned - agentAccount'[b].pending
             = agentAccount[b].earned - agentAccount[b].pending
      BY <3>2, <3>3
    <3> QED
      BY <2>1, <3>2, <3>4, AgentAccountStutters
  <2> QED
    BY <2>3, <2>4
<1>3. ASSUME NEW q \in Approvers, ApproveWrite(q)
      PROVE  UNCHANGED AgentAccountOf!accountVars
  <2>1. /\ \A x \in Agents : /\ agentAccount'[x].available = agentAccount[x].available
                             /\ agentAccount'[x].pending = agentAccount[x].pending
                             /\ agentAccount'[x].earned = agentAccount[x].earned
        /\ \A x \in PayoutIds : /\ agentPayout'[x].agent = agentPayout[x].agent
                                /\ agentPayout'[x].amount = agentPayout[x].amount
    BY <1>0, <1>3, ApproveWrites
  <2>2. \A a : PaidTo(a)' = PaidTo(a)
    BY <2>1, PaidStays, SMTT(30)
  <2> QED
    BY <2>1, <2>2, AgentAccountStutters
<1>4. ASSUME NEW c, \/ \E rate, minimum, enabled : RatesRead(c, rate, minimum, enabled)
                    \/ RatesWrite(c)
                    \/ \E o : CreditRead(c, o) \/ MatureRead(c, o)
                    \/ HoldEnds(c) \/ MatureStart(c) \/ MatureFail(c)
                    \/ \E a, amount : RequestRead(c, a, amount)
                    \/ \E p : ApproveRead(c, p)
      PROVE  UNCHANGED AgentAccountOf!accountVars
  BY <1>4, <1>a DEF RatesRead, RatesWrite, CreditRead, MatureRead, HoldEnds, MatureStart,
                    MatureFail, RequestRead, ApproveRead
<1>5. CASE AgentNext
  <2>1. CASE \E w \in Maturers : MatureWrite(w)
    BY <2>1, MaturingCredits
  <2>2. CASE \E r \in PayoutRequests, p \in PayoutIds : RequestWrite(r, p)
    BY <2>2, PayingSpends
  <2> QED
    BY <1>2, <1>3, <1>4, <1>5, <2>1, <2>2 DEF AgentNext
<1> QED
  BY <1>1, <1>5

LEMMA AgentAccountInit == AgentInit => AgentAccountOf!AccountInit
<1> SUFFICES ASSUME AgentInit PROVE AgentAccountOf!AccountInit
  OBVIOUS
<1>1. \A a : PaidTo(a) = 0
  <2> SUFFICES ASSUME NEW a PROVE PaidTo(a) = 0
    OBVIOUS
  <2>1. AgentShape
    BY AgentShapeInit
  <2>2. PICK f \in [PayoutIds -> Int] : f = PayoutAmountOf
    BY <2>1, AgentSumsTyped
  <2>3. PICK S \in SUBSET PayoutIds : S = PayoutsOf(a) /\ IsFiniteSet(S)
    BY <2>1, AgentSumsTyped
  <2>4. \A x \in S : f[x] = 0
    BY <2>2 DEF AgentInit, PayoutAmountOf
  <2>5. SumFunctionOnSet(f, S) = 0
    BY <2>3, <2>4, SumZero
  <2> QED
    BY <2>2, <2>3, <2>5 DEF PaidTo, PayoutAmountOf
<1>2. \A a \in Agents : /\ agentAccount[a].available = 0
                        /\ agentAccount[a].earned - agentAccount[a].pending = 0
  BY DEF AgentInit
<1> QED
  BY <1>1, <1>2 DEF AgentAccountOf!AccountInit

-----------------------------------------------------------------------------
(* Commissions: theorems                                                   *)

\* AgentInv is inductive: the sums it states of rows hold after every write of the
\* agent service, whichever requests it interrupts.
THEOREM AgentInvariant == AgentSpec => []AgentInv
<1> QED
  BY AgentInvInit, AgentInvStep, PTL DEF AgentSpec

\* Whatever completions, payout requests, approvals and overlapping runs of the job do,
\* an agent has earned exactly the commissions on record, every peso is pending,
\* available or in a payout, and nothing matures twice unless two workers were in the
\* job at once.
THEOREM CommissionsSafe == AgentSpec => []CommissionsAreSafe
<1>1. AgentInv => CommissionsAreSafe
  BY DEF AgentInv, AgentShape, CommissionsAreSafe
<1> QED
  BY <1>1, AgentInvariant, PTL

\* The available balance of an agent implements Account: requestPayout, which reads the
\* balance and decrements it later without a condition, overdraws it by at most the
\* largest amount for every other request under way.
THEOREM AgentsImplementAccount == AgentSpec => AgentImplementsAccount
<1> QED
  BY AgentAccountInit, AgentStepIsAccountStep, AgentInvariant, PTL
     DEF AgentSpec, AgentImplementsAccount, AgentAccountOf!AccountSpec

-----------------------------------------------------------------------------
(* Ad spend: the shape of the rows and requests                            *)

AdRequests == Trackers \cup Depositors

\* A request of the ads service carries what its operation reads.
AdCallState ==
    [pc : {"idle", "deposit", "over", "charge", "debit", "record", "count"},
     ad : BilledAds \cup {NoAd}, seller : AdSellers \cup {NoAd},
     key : DepositKeys \cup {NoAd}, amount : Nat, seen : Nat]

AdFits(c) ==
    /\ adCall[c].pc = "deposit" => adCall[c].key \in DepositKeys
    /\ adCall[c].pc \in {"over", "charge", "debit", "record", "count"} =>
          /\ c \in Trackers /\ adCall[c].ad \in BilledAds
          /\ adCall[c].seller = SellerOfAd[adCall[c].ad]
    /\ adCall[c].pc \in {"charge", "debit", "record"} => adCall[c].amount > 0
    /\ adCall[c].amount <= MaxCost

BillingShape ==
    /\ BillingTypeOK
    /\ adCall \in [AdRequests -> AdCallState]
    /\ \A c \in AdRequests : AdFits(c)

-----------------------------------------------------------------------------
(* Ad spend: what is on its way                                            *)

\* The events whose debit is done and whose AD_SPEND row is not.
Recording(s) == {t \in Trackers : adCall[t].pc = "record" /\ adCall[t].seller = s}

\* The events that passed the budget test of an ad and are not counted yet.
Passed(ad) == {t \in Trackers : /\ adCall[t].pc \in {"charge", "debit", "record", "count"}
                                /\ adCall[t].ad = ad}

\* The events that found the funds they are about to take.
Debiting(s) == {t \in Trackers : adCall[t].pc = "debit" /\ adCall[t].seller = s}

\* All but one of the events under way, each at the dearest.
OthersCost == (Cardinality(Trackers) - 1) * MaxCost

Charged(s) == SumFunctionOnSet(spendRows, AdsOf(s))

\* An ad's counted spend and what is about to be counted were charged.
CountedWasCharged == \A ad \in BilledAds : adSpent[ad] + Uncounted(ad) <= spendRows[ad]

\* What the AD_SPEND rows of a seller say, with those about to be written, left the
\* wallet.
ChargedWasSpent ==
    \A s \in AdSellers : Charged(s) + Amounts(Recording(s)) <= adWallet[s].spent

\* What an ad spent and is going to spend is near its budget.
PassedWithinBudget ==
    \A ad \in BilledAds : TotalBudget[ad] > 0 =>
       adSpent[ad] + Amounts(Passed(ad)) <= TotalBudget[ad] + OthersCost

\* A wallet covers the debits to come but for those of all events save one.
WalletsSolvent ==
    \A s \in AdSellers : adWallet[s].balance >= Amounts(Debiting(s)) - OthersCost

BillingSums == CountedWasCharged /\ ChargedWasSpent /\ PassedWithinBudget /\ WalletsSolvent

BillingInv == BillingShape /\ BillingSums

LEMMA BillingTyped ==
    ASSUME BillingShape
    PROVE  /\ adWallet \in [AdSellers -> [balance : Int, deposited : Nat, spent : Nat]]
           /\ depositRows \subseteq DepositKeys
           /\ spendRows \in [BilledAds -> Nat] /\ adSpent \in [BilledAds -> Nat]
           /\ adActive \in [BilledAds -> BOOLEAN]
           /\ adCall \in [AdRequests -> AdCallState]
           /\ \A c \in AdRequests : AdFits(c)
           /\ \A c \in AdRequests : adCall[c].amount \in Nat
BY DEF BillingShape, BillingTypeOK, AdCallState

\* No event costs more than MaxCost.
LEMMA DearestEvent == MaxCost \in Nat /\ \A e \in EventTypes : EventCost[e] <= MaxCost
<1>1. EventCost \in [EventTypes -> Nat] /\ IsFiniteSet(EventTypes) /\ EventTypes # {}
  BY BillingConstants
<1>2. PICK d \in EventTypes : \A e \in EventTypes : EventCost[e] <= EventCost[d]
  <2>1. EventCost \in [EventTypes -> Int] /\ EventTypes \in SUBSET EventTypes
    BY <1>1
  <2> QED
    BY <1>1, <2>1, LargestEntry
<1> DEFINE C == {EventCost[e] : e \in EventTypes}
<1>3. EventCost[d] \in C /\ \A x \in C : EventCost[d] >= x
  BY <1>2
<1>4. PICK m : m = MaxCost
  OBVIOUS
<1>5. m = CHOOSE x \in C : \A y \in C : x >= y
  BY <1>4 DEF MaxCost, Max
<1>6. m \in C /\ \A y \in C : m >= y
  BY <1>3, <1>5
<1> QED
  BY <1>1, <1>4, <1>6

\* One request moved, to where it fits.
LEMMA AdMoves ==
    ASSUME BillingShape, BillingTypeOK', NEW c \in AdRequests, NEW r \in AdCallState,
           adCall' = [adCall EXCEPT ![c] = r], AdFits(c)'
    PROVE  BillingShape'
<1>1. /\ adCall' \in [AdRequests -> AdCallState]
      /\ \A x \in AdRequests : x # c => adCall'[x] = adCall[x]
  BY BillingTyped
<1>2. ASSUME NEW x \in AdRequests, x # c PROVE AdFits(x)'
  <2>1. AdFits(x)
    BY BillingTyped
  <2> QED
    BY <1>1, <1>2, <2>1 DEF AdFits, MaxCost
<1> QED
  BY <1>1, <1>2 DEF BillingShape

LEMMA AdIdleFits == AdIdle \in AdCallState /\ AdIdle.pc = "idle" /\ AdIdle.amount = 0
BY DEF AdIdle, AdCallState

\* One request ended.
LEMMA AdEnds ==
    ASSUME BillingShape, NEW c \in AdRequests, AdDone(c),
           /\ adWallet' \in [AdSellers -> [balance : Int, deposited : Nat, spent : Nat]]
           /\ depositRows' \subseteq DepositKeys
           /\ spendRows' \in [BilledAds -> Nat] /\ adSpent' \in [BilledAds -> Nat]
           /\ adActive' \in [BilledAds -> BOOLEAN]
    PROVE  /\ BillingShape'
           /\ adCall'[c] = AdIdle /\ \A x \in AdRequests : x # c => adCall'[x] = adCall[x]
<1>1. adCall' = [adCall EXCEPT ![c] = AdIdle]
  BY DEF AdDone
<1>2. adCall'[c] = AdIdle /\ \A x \in AdRequests : x # c => adCall'[x] = adCall[x]
  BY <1>1, BillingTyped
<1>3. AdFits(c)'
  BY <1>2, AdIdleFits, DearestEvent DEF AdFits, MaxCost
<1>4. \A t \in Trackers : adCall'[t].pc \in {"charge", "debit", "record"} => adCall'[t].amount > 0
  BY <1>2, AdIdleFits DEF BillingShape, BillingTypeOK, AdRequests
<1>5. BillingTypeOK'
  BY <1>4 DEF BillingTypeOK
<1> QED
  BY <1>1, <1>2, <1>3, <1>5, AdIdleFits, AdMoves

\* One request went on: what it is now, and that its rows keep their types, is all that
\* is left to see.
LEMMA AdGoes ==
    ASSUME BillingShape, NEW c \in AdRequests, NEW r \in AdCallState,
           adCall' = [adCall EXCEPT ![c] = r],
           r.pc = "deposit" => r.key \in DepositKeys,
           r.pc \in {"over", "charge", "debit", "record", "count"} =>
              c \in Trackers /\ r.ad \in BilledAds /\ r.seller = SellerOfAd[r.ad],
           r.pc \in {"charge", "debit", "record"} => r.amount > 0,
           r.amount <= MaxCost,
           /\ adWallet' \in [AdSellers -> [balance : Int, deposited : Nat, spent : Nat]]
           /\ depositRows' \subseteq DepositKeys
           /\ spendRows' \in [BilledAds -> Nat] /\ adSpent' \in [BilledAds -> Nat]
           /\ adActive' \in [BilledAds -> BOOLEAN]
    PROVE  /\ BillingShape'
           /\ adCall'[c] = r /\ \A x \in AdRequests : x # c => adCall'[x] = adCall[x]
<1>1. adCall'[c] = r /\ \A x \in AdRequests : x # c => adCall'[x] = adCall[x]
  BY BillingTyped
<1>2. AdFits(c)'
  BY <1>1 DEF AdFits, MaxCost
<1>3. \A t \in Trackers : adCall'[t].pc \in {"charge", "debit", "record"} => adCall'[t].amount > 0
  BY <1>1 DEF BillingShape, BillingTypeOK, AdRequests
<1>4. BillingTypeOK'
  BY <1>3 DEF BillingTypeOK
<1> QED
  BY <1>1, <1>2, <1>4, AdMoves

-----------------------------------------------------------------------------
(* Ad spend: what every step writes                                        *)

LEMMA DepositWalletWrites ==
    ASSUME BillingShape, NEW d \in Depositors, NEW s \in AdSellers, NEW key \in DepositKeys,
           NEW n \in DepositAmounts, DepositWallet(d, s, key, n)
    PROVE  /\ BillingShape' /\ n > 0 /\ n \in Nat
           /\ d \in AdRequests /\ adCall[d].pc = "idle" /\ adCall'[d].pc = "deposit"
           /\ \A x \in AdRequests : x # d => adCall'[x] = adCall[x]
           /\ adWallet'[s].balance = adWallet[s].balance + n
           /\ adWallet'[s].deposited = adWallet[s].deposited + n
           /\ adWallet'[s].spent = adWallet[s].spent
           /\ \A x \in AdSellers : x # s => adWallet'[x] = adWallet[x]
<1>1. d \in AdRequests /\ adCall[d].pc = "idle" /\ n \in Nat /\ n > 0
  BY BillingConstants DEF DepositWallet, AdRequests
<1>2. PICK r \in AdCallState : r = [AdIdle EXCEPT !.pc = "deposit", !.seller = s, !.key = key]
  BY DEF AdIdle, AdCallState
<1>3. r.pc = "deposit" /\ r.key = key /\ r.amount = 0
  BY <1>2 DEF AdIdle
<1>4. adCall' = [adCall EXCEPT ![d] = r]
  BY <1>2 DEF DepositWallet
<1>5. adWallet[s] \in [balance : Int, deposited : Nat, spent : Nat]
  BY BillingTyped
<1>6. PICK b \in Int : b = adWallet[s].balance + n
  BY <1>1, <1>5
<1>7. PICK e \in Nat : e = adWallet[s].deposited + n
  BY <1>1, <1>5
<1>8. PICK row \in [balance : Int, deposited : Nat, spent : Nat] :
         row = [adWallet[s] EXCEPT !.balance = b, !.deposited = e]
  BY <1>5
<1>9. adWallet' = [adWallet EXCEPT ![s] = row]
  BY <1>6, <1>7, <1>8, BillingTyped DEF DepositWallet
<1>10. row.balance = b /\ row.deposited = e /\ row.spent = adWallet[s].spent
  BY <1>5, <1>8
<1>11. /\ adWallet' \in [AdSellers -> [balance : Int, deposited : Nat, spent : Nat]]
       /\ adWallet'[s] = row /\ \A x \in AdSellers : x # s => adWallet'[x] = adWallet[x]
  BY <1>9, BillingTyped
<1>12. UNCHANGED <<depositRows, spendRows, adSpent, adActive>>
  BY DEF DepositWallet
<1>13. /\ depositRows' \subseteq DepositKeys
       /\ spendRows' \in [BilledAds -> Nat] /\ adSpent' \in [BilledAds -> Nat]
       /\ adActive' \in [BilledAds -> BOOLEAN]
  BY <1>12, BillingTyped
<1>14. r.amount <= MaxCost
  BY <1>3, DearestEvent
<1>15. /\ BillingShape'
       /\ adCall'[d] = r /\ \A x \in AdRequests : x # d => adCall'[x] = adCall[x]
  BY <1>1, <1>3, <1>4, <1>11, <1>13, <1>14, AdGoes
<1> QED
  BY <1>1, <1>3, <1>6, <1>7, <1>10, <1>11, <1>15

LEMMA DepositRecordWrites ==
    ASSUME BillingShape, NEW d \in Depositors, DepositRecord(d)
    PROVE  /\ BillingShape' /\ d \in AdRequests
           /\ adCall[d].pc = "deposit" /\ adCall'[d] = AdIdle
           /\ \A x \in AdRequests : x # d => adCall'[x] = adCall[x]
<1>1. d \in AdRequests /\ adCall[d].pc = "deposit" /\ AdDone(d)
  BY DEF DepositRecord, AdRequests
<1>2. adCall[d].key \in DepositKeys
  BY <1>1, BillingTyped DEF AdFits
<1>3. depositRows' \subseteq DepositKeys /\ UNCHANGED <<adWallet, spendRows, adSpent, adActive>>
  BY <1>2, BillingTyped DEF DepositRecord
<1> QED
  BY <1>1, <1>3, BillingTyped, AdEnds

\* An event reads the ad: it is free, within the budget of the ad, or past it.
LEMMA TrackReadWrites ==
    ASSUME BillingShape, NEW t \in Trackers, NEW ad \in BilledAds, NEW type \in EventTypes,
           TrackRead(t, ad, type)
    PROVE  /\ BillingShape' /\ t \in AdRequests /\ adCall[t].pc = "idle"
           /\ adCall'[t].ad = ad
           /\ \/ adCall'[t].pc = "count" /\ adCall'[t].amount = 0
              \/ adCall'[t].pc = "over"
              \/ adCall'[t].pc = "charge" /\ WithinBudget(ad, adSpent[ad], adCall'[t].amount)
           /\ \A x \in AdRequests : x # t => adCall'[x] = adCall[x]
           /\ UNCHANGED <<adWallet, spendRows, adSpent>>
<1>1. t \in AdRequests /\ adCall[t].pc = "idle"
  BY DEF TrackRead, AdRequests
<1>2. PICK n \in Nat : n = EventCost[type] /\ n <= MaxCost
  BY BillingConstants, DearestEvent
<1>3. PICK pc \in {"count", "charge", "over"} :
         pc = IF n = 0 THEN "count"
              ELSE IF WithinBudget(ad, adSpent[ad], n) THEN "charge" ELSE "over"
  OBVIOUS
<1>4. PICK s \in AdSellers : s = SellerOfAd[ad]
  BY BillingConstants
<1>5. PICK k \in Nat : k = adSpent[ad]
  BY BillingTyped
<1>6. PICK r \in AdCallState :
         r = [AdIdle EXCEPT !.ad = ad, !.seller = s, !.amount = n, !.seen = k, !.pc = pc]
  BY DEF AdIdle, AdCallState
<1>7. r.ad = ad /\ r.seller = s /\ r.amount = n /\ r.pc = pc
  BY <1>6 DEF AdIdle
<1>8. adCall' = [adCall EXCEPT ![t] = r]
  BY <1>2, <1>3, <1>4, <1>5, <1>6 DEF TrackRead
<1>9. UNCHANGED <<adWallet, depositRows, spendRows, adSpent, adActive>>
  BY DEF TrackRead
<1>10. pc \in {"charge", "debit", "record"} => n > 0
  BY <1>2, <1>3
<1>11. /\ BillingShape'
       /\ adCall'[t] = r /\ \A x \in AdRequests : x # t => adCall'[x] = adCall[x]
  <2>1. /\ adWallet' \in [AdSellers -> [balance : Int, deposited : Nat, spent : Nat]]
        /\ depositRows' \subseteq DepositKeys
        /\ spendRows' \in [BilledAds -> Nat] /\ adSpent' \in [BilledAds -> Nat]
        /\ adActive' \in [BilledAds -> BOOLEAN]
    BY <1>9, BillingTyped
  <2>2. r.pc # "deposit"
    BY <1>3, <1>7
  <2>3. r.amount <= MaxCost /\ (r.pc \in {"charge", "debit", "record"} => r.amount > 0)
    BY <1>2, <1>7, <1>10
  <2>4. t \in Trackers /\ r.ad \in BilledAds /\ r.seller = SellerOfAd[r.ad]
    BY <1>4, <1>7
  <2> QED
    BY <1>1, <1>8, <2>1, <2>2, <2>3, <2>4, AdGoes
<1>12. \/ pc = "count" /\ n = 0
       \/ pc = "over"
       \/ pc = "charge" /\ WithinBudget(ad, adSpent[ad], n)
  BY <1>3
<1> QED
  BY <1>1, <1>7, <1>9, <1>11, <1>12

\* The request of an event that is under way.
LEMMA EventUnderWay ==
    ASSUME BillingShape, NEW t \in Trackers,
           adCall[t].pc \in {"over", "charge", "debit", "record", "count"}
    PROVE  /\ t \in AdRequests /\ adCall[t] \in AdCallState
           /\ adCall[t].ad \in BilledAds /\ adCall[t].seller \in AdSellers
           /\ adCall[t].seller = SellerOfAd[adCall[t].ad]
           /\ adCall[t].amount \in Nat /\ adCall[t].amount <= MaxCost
           /\ adCall[t].seen \in Nat
           /\ adCall[t].pc \in {"charge", "debit", "record"} => adCall[t].amount > 0
<1>1. t \in AdRequests
  BY DEF AdRequests
<1>2. adCall[t] \in AdCallState /\ AdFits(t)
  BY <1>1, BillingTyped
<1>3. adCall[t].ad \in BilledAds /\ adCall[t].seller = SellerOfAd[adCall[t].ad]
  BY <1>2 DEF AdFits
<1>4. adCall[t].seller \in AdSellers
  BY <1>3, BillingConstants
<1> QED
  BY <1>1, <1>2, <1>3, <1>4 DEF AdFits, AdCallState

\* An event passes on to be charged, recorded or counted, for what it costs or for
\* nothing.
LEMMA EventGoes ==
    ASSUME BillingShape, NEW t \in Trackers,
           adCall[t].pc \in {"over", "charge", "debit", "record", "count"},
           NEW pc \in {"debit", "record", "count"}, NEW n \in Nat,
           (n = 0 /\ pc = "count") \/ n = adCall[t].amount,
           pc \in {"debit", "record"} => adCall[t].pc \in {"charge", "debit"},
           adCall' = [adCall EXCEPT ![t].pc = pc, ![t].amount = n],
           /\ adWallet' \in [AdSellers -> [balance : Int, deposited : Nat, spent : Nat]]
           /\ depositRows' \subseteq DepositKeys
           /\ spendRows' \in [BilledAds -> Nat] /\ adSpent' \in [BilledAds -> Nat]
           /\ adActive' \in [BilledAds -> BOOLEAN]
    PROVE  /\ BillingShape' /\ t \in AdRequests
           /\ adCall'[t].pc = pc /\ adCall'[t].amount = n
           /\ adCall'[t].ad = adCall[t].ad /\ adCall'[t].seller = adCall[t].seller
           /\ \A x \in AdRequests : x # t => adCall'[x] = adCall[x]
<1>1. /\ t \in AdRequests /\ adCall[t] \in AdCallState
      /\ adCall[t].ad \in BilledAds /\ adCall[t].seller = SellerOfAd[adCall[t].ad]
      /\ adCall[t].amount \in Nat /\ adCall[t].amount <= MaxCost
      /\ adCall[t].pc \in {"charge", "debit", "record"} => adCall[t].amount > 0
  BY EventUnderWay
<1>2. PICK r \in AdCallState : r = [adCall[t] EXCEPT !.pc = pc, !.amount = n]
  BY <1>1 DEF AdCallState
<1>3. r.pc = pc /\ r.amount = n /\ r.ad = adCall[t].ad /\ r.seller = adCall[t].seller
  BY <1>1, <1>2 DEF AdCallState
<1>4. adCall' = [adCall EXCEPT ![t] = r]
  BY <1>1, <1>2, BillingTyped
<1>5. n <= MaxCost /\ (pc \in {"charge", "debit", "record"} => n > 0)
  BY <1>1, DearestEvent
<1>6. /\ BillingShape'
      /\ adCall'[t] = r /\ \A x \in AdRequests : x # t => adCall'[x] = adCall[x]
  <2>1. r.pc # "deposit"
    BY <1>3
  <2>2. t \in Trackers /\ r.ad \in BilledAds /\ r.seller = SellerOfAd[r.ad]
    BY <1>1, <1>3
  <2>3. r.amount <= MaxCost /\ (r.pc \in {"charge", "debit", "record"} => r.amount > 0)
    BY <1>3, <1>5
  <2> QED
    BY <1>1, <1>4, <2>1, <2>2, <2>3, AdGoes
<1> QED
  BY <1>1, <1>3, <1>6

LEMMA AdSwitches ==
    ASSUME BillingShape, NEW ad \in BilledAds, NEW on \in BOOLEAN
    PROVE  [adActive EXCEPT ![ad] = on] \in [BilledAds -> BOOLEAN]
BY BillingTyped

\* The event past the budget is free.
LEMMA TrackOverWrites ==
    ASSUME BillingShape, NEW t \in Trackers, TrackOver(t)
    PROVE  /\ BillingShape' /\ t \in AdRequests /\ adCall[t].pc = "over"
           /\ adCall'[t].pc = "count" /\ adCall'[t].amount = 0
           /\ \A x \in AdRequests : x # t => adCall'[x] = adCall[x]
           /\ UNCHANGED <<adWallet, spendRows, adSpent>>
<1>1. /\ adCall[t].pc = "over" /\ UNCHANGED <<adWallet, depositRows, spendRows, adSpent>>
      /\ adCall' = [adCall EXCEPT ![t].pc = "count", ![t].amount = 0]
  BY DEF TrackOver
<1>2. adActive' \in [BilledAds -> BOOLEAN]
  BY <1>1, EventUnderWay, AdSwitches DEF TrackOver
<1> QED
  BY <1>1, <1>2, BillingTyped, EventGoes

\* The balance covers the event, or it is free.
LEMMA ChargeReadWrites ==
    ASSUME BillingShape, NEW t \in Trackers, ChargeRead(t)
    PROVE  /\ BillingShape' /\ t \in AdRequests /\ adCall[t].pc = "charge"
           /\ adCall[t].seller \in AdSellers
           /\ \/ /\ adWallet[adCall[t].seller].balance >= adCall[t].amount
                 /\ adCall'[t].pc = "debit" /\ adCall'[t].amount = adCall[t].amount
              \/ adCall'[t].pc = "count" /\ adCall'[t].amount = 0
           /\ adCall'[t].ad = adCall[t].ad /\ adCall'[t].seller = adCall[t].seller
           /\ \A x \in AdRequests : x # t => adCall'[x] = adCall[x]
           /\ UNCHANGED <<adWallet, spendRows, adSpent>>
<1>1. adCall[t].pc = "charge" /\ UNCHANGED <<adWallet, depositRows, spendRows, adSpent>>
  BY DEF ChargeRead
<1>2. PICK n \in Nat : n = adCall[t].amount
  BY <1>1, EventUnderWay
<1>3. adCall[t].ad \in BilledAds /\ adCall[t].seller \in AdSellers /\ t \in AdRequests
  BY <1>1, EventUnderWay
<1>4. CASE adWallet[adCall[t].seller].balance >= adCall[t].amount
  <2>1. adCall' = [adCall EXCEPT ![t].pc = "debit"] /\ UNCHANGED adActive
    <3>1. PICK b \in Int : b = adWallet[adCall[t].seller].balance
      BY <1>3, BillingTyped
    <3>2. ~ (b < n)
      BY <1>2, <1>4, <3>1
    <3> QED
      BY <1>2, <3>1, <3>2 DEF ChargeRead
  <2>2. adCall' = [adCall EXCEPT ![t].pc = "debit", ![t].amount = n]
    <3>1. adCall[t] \in AdCallState /\ adCall \in [AdRequests -> AdCallState]
      BY <1>3, BillingTyped
    <3> QED
      BY <1>2, <1>3, <2>1, <3>1 DEF AdCallState
  <2>3. adActive' \in [BilledAds -> BOOLEAN]
    BY <2>1, BillingTyped
  <2> QED
    BY <1>1, <1>2, <1>3, <1>4, <2>2, <2>3, BillingTyped, EventGoes
<1>5. CASE ~ (adWallet[adCall[t].seller].balance >= adCall[t].amount)
  <2>1. /\ adCall' = [adCall EXCEPT ![t].pc = "count", ![t].amount = 0]
        /\ adActive' = [adActive EXCEPT ![adCall[t].ad] = FALSE]
    BY <1>5 DEF ChargeRead
  <2>2. adActive' \in [BilledAds -> BOOLEAN]
    BY <1>3, <2>1, AdSwitches
  <2> QED
    BY <1>1, <1>3, <2>1, <2>2, BillingTyped, EventGoes
<1> QED
  BY <1>4, <1>5

\* The debit.
LEMMA ChargeWriteWrites ==
    ASSUME BillingShape, NEW t \in Trackers, ChargeWrite(t)
    PROVE  LET s == adCall[t].seller
               n == adCall[t].amount IN
           /\ BillingShape' /\ t \in AdRequests /\ adCall[t].pc = "debit"
           /\ s \in AdSellers /\ n \in Nat /\ n > 0
           /\ adCall'[t].pc = "record" /\ adCall'[t].amount = n
           /\ adCall'[t].ad = adCall[t].ad /\ adCall'[t].seller = s
           /\ \A x \in AdRequests : x # t => adCall'[x] = adCall[x]
           /\ adWallet'[s].balance = adWallet[s].balance - n
           /\ adWallet'[s].deposited = adWallet[s].deposited
           /\ adWallet'[s].spent = adWallet[s].spent + n
           /\ \A x \in AdSellers : x # s => adWallet'[x] = adWallet[x]
           /\ UNCHANGED <<spendRows, adSpent>>
<1>1. adCall[t].pc = "debit" /\ UNCHANGED <<depositRows, spendRows, adSpent, adActive>>
  BY DEF ChargeWrite
<1>2. PICK n \in Nat : n = adCall[t].amount /\ n > 0
  BY <1>1, EventUnderWay
<1>3. PICK s \in AdSellers : s = adCall[t].seller
  BY <1>1, EventUnderWay
<1>4. adWallet[s] \in [balance : Int, deposited : Nat, spent : Nat]
  BY BillingTyped
<1>5. PICK b \in Int : b = adWallet[s].balance - n
  BY <1>4
<1>6. PICK e \in Nat : e = adWallet[s].spent + n
  BY <1>4
<1>7. PICK row \in [balance : Int, deposited : Nat, spent : Nat] :
         row = [adWallet[s] EXCEPT !.balance = b, !.spent = e]
  BY <1>4
<1>8. adWallet' = [adWallet EXCEPT ![s] = row]
  BY <1>2, <1>3, <1>5, <1>6, <1>7, BillingTyped DEF ChargeWrite
<1>9. row.balance = b /\ row.deposited = adWallet[s].deposited /\ row.spent = e
  BY <1>4, <1>7
<1>10. /\ adWallet' \in [AdSellers -> [balance : Int, deposited : Nat, spent : Nat]]
       /\ adWallet'[s] = row /\ \A x \in AdSellers : x # s => adWallet'[x] = adWallet[x]
  BY <1>8, BillingTyped
<1>11. adCall' = [adCall EXCEPT ![t].pc = "record", ![t].amount = n]
  <2>1. adCall' = [adCall EXCEPT ![t].pc = "record"]
    BY DEF ChargeWrite
  <2>2. t \in AdRequests /\ adCall[t] \in AdCallState /\ adCall \in [AdRequests -> AdCallState]
    BY <1>1, EventUnderWay, BillingTyped
  <2> QED
    BY <1>2, <2>1, <2>2 DEF AdCallState
<1>12. /\ BillingShape' /\ t \in AdRequests
       /\ adCall'[t].pc = "record" /\ adCall'[t].amount = n
       /\ adCall'[t].ad = adCall[t].ad /\ adCall'[t].seller = adCall[t].seller
       /\ \A x \in AdRequests : x # t => adCall'[x] = adCall[x]
  <2>1. /\ depositRows' \subseteq DepositKeys
        /\ spendRows' \in [BilledAds -> Nat] /\ adSpent' \in [BilledAds -> Nat]
        /\ adActive' \in [BilledAds -> BOOLEAN]
    BY <1>1, BillingTyped
  <2> QED
    BY <1>1, <1>2, <1>10, <1>11, <2>1, EventGoes
<1> QED
  BY <1>1, <1>2, <1>3, <1>5, <1>6, <1>9, <1>10, <1>12

\* The AD_SPEND row.
LEMMA ChargeRecordWrites ==
    ASSUME BillingShape, NEW t \in Trackers, ChargeRecord(t)
    PROVE  LET ad == adCall[t].ad
               n == adCall[t].amount IN
           /\ BillingShape' /\ t \in AdRequests /\ adCall[t].pc = "record"
           /\ ad \in BilledAds /\ n \in Nat
           /\ adCall[t].seller = SellerOfAd[ad] /\ adCall[t].seller \in AdSellers
           /\ adCall'[t].pc = "count" /\ adCall'[t].amount = n
           /\ adCall'[t].ad = ad /\ adCall'[t].seller = adCall[t].seller
           /\ \A x \in AdRequests : x # t => adCall'[x] = adCall[x]
           /\ spendRows'[ad] = spendRows[ad] + n
           /\ \A x \in BilledAds : x # ad => spendRows'[x] = spendRows[x]
           /\ UNCHANGED <<adWallet, adSpent>>
<1>1. adCall[t].pc = "record" /\ UNCHANGED <<adWallet, depositRows, adSpent>>
  BY DEF ChargeRecord
<1>2. PICK n \in Nat : n = adCall[t].amount
  BY <1>1, EventUnderWay
<1>3. PICK ad \in BilledAds : ad = adCall[t].ad
  BY <1>1, EventUnderWay
<1>4. PICK m \in Nat : m = spendRows[ad] + n
  BY BillingTyped
<1>5. spendRows' = [spendRows EXCEPT ![ad] = m]
  BY <1>2, <1>3, <1>4 DEF ChargeRecord
<1>6. /\ spendRows' \in [BilledAds -> Nat] /\ spendRows'[ad] = m
      /\ \A x \in BilledAds : x # ad => spendRows'[x] = spendRows[x]
  BY <1>5, BillingTyped
<1>7. adActive' \in [BilledAds -> BOOLEAN]
  <2>1. PICK on \in BOOLEAN :
           on = (adActive[ad] /\ (TotalBudget[ad] = 0 \/ adCall[t].seen + n < TotalBudget[ad]))
    OBVIOUS
  <2>2. adActive' = [adActive EXCEPT ![ad] = on]
    BY <1>2, <1>3, <2>1, BillingTyped DEF ChargeRecord
  <2> QED
    BY <2>2, AdSwitches
<1>8. adCall' = [adCall EXCEPT ![t].pc = "count", ![t].amount = n]
  <2>1. adCall' = [adCall EXCEPT ![t].pc = "count"]
    BY DEF ChargeRecord
  <2>2. t \in AdRequests /\ adCall[t] \in AdCallState /\ adCall \in [AdRequests -> AdCallState]
    BY <1>1, EventUnderWay, BillingTyped
  <2> QED
    BY <1>2, <2>1, <2>2 DEF AdCallState
<1>9. /\ BillingShape' /\ t \in AdRequests
      /\ adCall'[t].pc = "count" /\ adCall'[t].amount = n
      /\ adCall'[t].ad = adCall[t].ad /\ adCall'[t].seller = adCall[t].seller
      /\ \A x \in AdRequests : x # t => adCall'[x] = adCall[x]
  <2>1. /\ adWallet' \in [AdSellers -> [balance : Int, deposited : Nat, spent : Nat]]
        /\ depositRows' \subseteq DepositKeys /\ adSpent' \in [BilledAds -> Nat]
    BY <1>1, BillingTyped
  <2>2. adCall[t].pc \in {"over", "charge", "debit", "record", "count"}
    BY <1>1
  <2>3. spendRows' \in [BilledAds -> Nat]
    BY <1>6
  <2> QED
    BY <1>2, <1>7, <1>8, <2>1, <2>2, <2>3, EventGoes
<1>10. adCall[t].seller = SellerOfAd[adCall[t].ad] /\ adCall[t].seller \in AdSellers
  BY <1>1, EventUnderWay
<1> QED
  BY <1>1, <1>2, <1>3, <1>4, <1>6, <1>9, <1>10

\* The ad's spentAmount.
LEMMA TrackCountWrites ==
    ASSUME BillingShape, NEW t \in Trackers, TrackCount(t)
    PROVE  LET ad == adCall[t].ad
               n == adCall[t].amount IN
           /\ BillingShape' /\ t \in AdRequests /\ adCall[t].pc = "count"
           /\ ad \in BilledAds /\ n \in Nat
           /\ adCall'[t] = AdIdle
           /\ \A x \in AdRequests : x # t => adCall'[x] = adCall[x]
           /\ adSpent'[ad] = adSpent[ad] + n
           /\ \A x \in BilledAds : x # ad => adSpent'[x] = adSpent[x]
           /\ UNCHANGED <<adWallet, spendRows>>
<1>1. /\ adCall[t].pc = "count" /\ AdDone(t)
      /\ UNCHANGED <<adWallet, depositRows, spendRows, adActive>>
  BY DEF TrackCount
<1>2. PICK n \in Nat : n = adCall[t].amount
  BY <1>1, EventUnderWay
<1>3. PICK ad \in BilledAds : ad = adCall[t].ad
  BY <1>1, EventUnderWay
<1>4. PICK m \in Nat : m = adSpent[ad] + n
  BY BillingTyped
<1>5. adSpent' = [adSpent EXCEPT ![ad] = m]
  BY <1>2, <1>3, <1>4 DEF TrackCount
<1>6. /\ adSpent' \in [BilledAds -> Nat] /\ adSpent'[ad] = m
      /\ \A x \in BilledAds : x # ad => adSpent'[x] = adSpent[x]
  BY <1>5, BillingTyped
<1>7. t \in AdRequests
  BY DEF AdRequests
<1>8. /\ BillingShape'
      /\ adCall'[t] = AdIdle /\ \A x \in AdRequests : x # t => adCall'[x] = adCall[x]
  BY <1>1, <1>6, <1>7, BillingTyped, AdEnds
<1> QED
  BY <1>1, <1>2, <1>3, <1>4, <1>6, <1>7, <1>8

LEMMA RequestDiesWrites ==
    ASSUME BillingShape, NEW c \in AdRequests, RequestDies(c)
    PROVE  /\ BillingShape' /\ adCall'[c] = AdIdle
           /\ \A x \in AdRequests : x # c => adCall'[x] = adCall[x]
<1>1. AdDone(c) /\ UNCHANGED <<adWallet, depositRows, spendRows, adSpent, adActive>>
  BY DEF RequestDies
<1> QED
  BY <1>1, BillingTyped, AdEnds

LEMMA SetAdActiveWrites ==
    ASSUME BillingShape, NEW ad \in BilledAds, NEW active \in BOOLEAN, SetAdActive(ad, active)
    PROVE  BillingShape'
<1>1. /\ UNCHANGED <<adWallet, depositRows, spendRows, adSpent, adCall>>
      /\ adActive' = [adActive EXCEPT ![ad] = active]
  BY DEF SetAdActive
<1>2. adActive' \in [BilledAds -> BOOLEAN]
  BY <1>1, AdSwitches
<1>3. BillingTypeOK'
  BY <1>1, <1>2 DEF BillingShape, BillingTypeOK
<1> QED
  BY <1>1, <1>3 DEF BillingShape, AdFits, MaxCost

-----------------------------------------------------------------------------
(* Ad spend: the sums                                                      *)

AdAmounts == [t \in Trackers |-> adCall[t].amount]

\* The part of a request in each of the sums.
Counts(c, ad) ==
    IF c \in Trackers /\ adCall[c].pc = "count" /\ adCall[c].ad = ad
    THEN adCall[c].amount ELSE 0

Records(c, s) ==
    IF c \in Trackers /\ adCall[c].pc = "record" /\ adCall[c].seller = s
    THEN adCall[c].amount ELSE 0

Passes(c, ad) ==
    IF c \in Trackers /\ adCall[c].pc \in {"charge", "debit", "record", "count"}
          /\ adCall[c].ad = ad
    THEN adCall[c].amount ELSE 0

Debits(c, s) ==
    IF c \in Trackers /\ adCall[c].pc = "debit" /\ adCall[c].seller = s
    THEN adCall[c].amount ELSE 0

LEMMA AdAmountsTyped == BillingShape => AdAmounts \in [Trackers -> Nat]
BY BillingTyped DEF AdAmounts, AdRequests

LEMMA AdAmountsTypedNext == BillingShape' => AdAmounts' \in [Trackers -> Nat]
BY DEF BillingShape, AdCallState, AdAmounts, AdRequests

LEMMA OthersCostTyped == OthersCost \in Nat
<1>1. PICK k \in Nat : k = Cardinality(Trackers) /\ k # 0
  BY BillingConstants, FS_CardinalityType, FS_EmptySet
<1>2. PICK c \in Nat : c = k - 1
  BY <1>1
<1>3. c * MaxCost \in Nat
  BY DearestEvent
<1> QED
  BY <1>1, <1>2, <1>3 DEF OthersCost

\* All events but one cost no more than OthersCost.
LEMMA OthersBounded ==
    ASSUME BillingShape, NEW t \in Trackers, NEW S \in SUBSET (Trackers \ {t})
    PROVE  SumFunctionOnSet(AdAmounts, S) <= OthersCost
<1>1. IsFiniteSet(Trackers) /\ IsFiniteSet(Trackers \ {t}) /\ S \subseteq Trackers
  BY BillingConstants, FS_Subset
<1>2. IsFiniteSet(S) /\ Cardinality(S) <= Cardinality(Trackers \ {t})
  BY <1>1, FS_Subset
<1>3. Cardinality(Trackers \ {t}) = Cardinality(Trackers) - 1
  BY <1>1, FS_RemoveElement
<1>4. PICK k \in Nat : k = Cardinality(S)
  BY <1>2, FS_CardinalityType
<1>5. PICK c \in Nat : c = Cardinality(Trackers) - 1 /\ k <= c
  BY <1>1, <1>2, <1>3, <1>4, FS_CardinalityType
<1>6. PICK M \in Nat : M = MaxCost
  BY DearestEvent
<1>7. PICK f \in [Trackers -> Int] : f = AdAmounts
  BY AdAmountsTyped
<1>8. \A x \in S : f[x] <= M
  BY <1>1, <1>6, <1>7, BillingTyped DEF AdAmounts, AdFits, AdRequests
<1>9. PICK s \in Int : s = SumFunctionOnSet(f, S)
  BY <1>1, <1>2, SumInt
<1>10. s <= k * M
  BY <1>1, <1>2, <1>4, <1>6, <1>8, <1>9, SumBound
<1>11. k * M <= c * M /\ k * M \in Int /\ c * M \in Int
  BY <1>5, <1>6, TimesMonotone
<1>12. s <= c * M
  BY <1>10, <1>11
<1> QED
  BY <1>5, <1>6, <1>7, <1>9, <1>12 DEF OthersCost

\* How a sum over events changes when one request moves: what the others add to it
\* stays.
LEMMA EventSumMoves ==
    ASSUME BillingShape, BillingShape', NEW c \in AdRequests,
           \A x \in AdRequests : x # c => adCall'[x] = adCall[x],
           NEW S \in SUBSET Trackers, NEW T \in SUBSET Trackers,
           \A x \in Trackers : x # c => (x \in S <=> x \in T)
    PROVE  \E s \in Nat :
              /\ SumFunctionOnSet(AdAmounts, S) = s + IF c \in S THEN adCall[c].amount ELSE 0
              /\ SumFunctionOnSet(AdAmounts', T) = s + IF c \in T THEN adCall'[c].amount ELSE 0
              /\ c \in Trackers => s <= OthersCost
<1>1. PICK R \in SUBSET Trackers : R = S \ {c} /\ R = T \ {c}
  <2>1. S \ {c} = T \ {c}
    OBVIOUS
  <2> QED
    BY <2>1
<1>2. IsFiniteSet(S) /\ IsFiniteSet(T) /\ IsFiniteSet(R)
  BY BillingConstants, FS_Subset
<1>3. PICK f \in [Trackers -> Nat] : f = AdAmounts
  BY AdAmountsTyped
<1>4. PICK g \in [Trackers -> Nat] : g = AdAmounts'
  BY AdAmountsTypedNext
<1>5. \A x \in R : f[x] = g[x]
  BY <1>1, <1>3, <1>4 DEF AdAmounts, AdRequests
<1>6. PICK s \in Nat : s = SumFunctionOnSet(f, R)
  BY <1>2, SumNat
<1>7. SumFunctionOnSet(g, R) = s
  BY <1>2, <1>5, <1>6, SumSame
<1>8. SumFunctionOnSet(f, S) = s + IF c \in S THEN adCall[c].amount ELSE 0
  <2>1. CASE c \in S
    <3>1. f \in [Trackers -> Int]
      OBVIOUS
    <3>2. SumFunctionOnSet(f, S) = f[c] + s
      BY <1>1, <1>2, <1>6, <2>1, <3>1, SumRemove
    <3>3. f[c] = adCall[c].amount /\ f[c] \in Nat
      BY <1>3, <2>1 DEF AdAmounts
    <3> QED
      BY <2>1, <3>2, <3>3
  <2>2. CASE c \notin S
    BY <1>1, <1>6, <2>2
  <2> QED
    BY <2>1, <2>2
<1>9. SumFunctionOnSet(g, T) = s + IF c \in T THEN adCall'[c].amount ELSE 0
  <2>1. CASE c \in T
    <3>1. g \in [Trackers -> Int]
      OBVIOUS
    <3>2. SumFunctionOnSet(g, T) = g[c] + s
      BY <1>1, <1>2, <1>7, <2>1, <3>1, SumRemove
    <3>3. g[c] = adCall'[c].amount /\ g[c] \in Nat
      BY <1>4, <2>1 DEF AdAmounts
    <3> QED
      BY <2>1, <3>2, <3>3
  <2>2. CASE c \notin T
    <3>1. T = R
      BY <1>1, <2>2
    <3>2. s + 0 = s
      OBVIOUS
    <3> QED
      BY <1>7, <2>2, <3>1, <3>2
  <2> QED
    BY <2>1, <2>2
<1>10. c \in Trackers => s <= OthersCost
  <2>1. R \in SUBSET (Trackers \ {c})
    BY <1>1
  <2> QED
    BY <1>3, <1>6, <2>1, OthersBounded
<1> QED
  BY <1>3, <1>4, <1>8, <1>9, <1>10

LEMMA UncountedMoves ==
    ASSUME BillingShape, BillingShape', NEW c \in AdRequests,
           \A x \in AdRequests : x # c => adCall'[x] = adCall[x], NEW ad
    PROVE  \E s \in Nat : Uncounted(ad) = s + Counts(c, ad) /\ Uncounted(ad)' = s + Counts(c, ad)'
<1>1. PICK S \in SUBSET Trackers :
         S = {t \in Trackers : adCall[t].ad = ad /\ adCall[t].pc = "count"}
  OBVIOUS
<1>2. PICK T \in SUBSET Trackers :
         T = {t \in Trackers : adCall'[t].ad = ad /\ adCall'[t].pc = "count"}
  OBVIOUS
<1>3. \A x \in Trackers : x # c => (x \in S <=> x \in T)
  BY <1>1, <1>2 DEF AdRequests
<1>4. PICK s \in Nat :
        /\ SumFunctionOnSet(AdAmounts, S) = s + IF c \in S THEN adCall[c].amount ELSE 0
        /\ SumFunctionOnSet(AdAmounts', T) = s + IF c \in T THEN adCall'[c].amount ELSE 0
  BY <1>3, EventSumMoves
<1>5. Uncounted(ad) = SumFunctionOnSet(AdAmounts, S)
  BY <1>1 DEF Uncounted, Amounts, AdAmounts
<1>6. Uncounted(ad)' = SumFunctionOnSet(AdAmounts', T)
  BY <1>2 DEF Uncounted, Amounts, AdAmounts
<1>7. /\ (IF c \in S THEN adCall[c].amount ELSE 0) = Counts(c, ad)
      /\ (IF c \in T THEN adCall'[c].amount ELSE 0) = Counts(c, ad)'
  BY <1>1, <1>2 DEF Counts
<1> QED
  BY <1>4, <1>5, <1>6, <1>7

LEMMA RecordingMoves ==
    ASSUME BillingShape, BillingShape', NEW c \in AdRequests,
           \A x \in AdRequests : x # c => adCall'[x] = adCall[x], NEW u
    PROVE  \E s \in Nat : /\ Amounts(Recording(u)) = s + Records(c, u)
                          /\ Amounts(Recording(u))' = s + Records(c, u)'
<1>1. PICK S \in SUBSET Trackers :
         S = {t \in Trackers : adCall[t].pc = "record" /\ adCall[t].seller = u}
  OBVIOUS
<1>2. PICK T \in SUBSET Trackers :
         T = {t \in Trackers : adCall'[t].pc = "record" /\ adCall'[t].seller = u}
  OBVIOUS
<1>3. \A x \in Trackers : x # c => (x \in S <=> x \in T)
  BY <1>1, <1>2 DEF AdRequests
<1>4. PICK s \in Nat :
        /\ SumFunctionOnSet(AdAmounts, S) = s + IF c \in S THEN adCall[c].amount ELSE 0
        /\ SumFunctionOnSet(AdAmounts', T) = s + IF c \in T THEN adCall'[c].amount ELSE 0
  BY <1>3, EventSumMoves
<1>5. Amounts(Recording(u)) = SumFunctionOnSet(AdAmounts, S)
  BY <1>1 DEF Recording, Amounts, AdAmounts
<1>6. Amounts(Recording(u))' = SumFunctionOnSet(AdAmounts', T)
  BY <1>2 DEF Recording, Amounts, AdAmounts
<1>7. /\ (IF c \in S THEN adCall[c].amount ELSE 0) = Records(c, u)
      /\ (IF c \in T THEN adCall'[c].amount ELSE 0) = Records(c, u)'
  BY <1>1, <1>2 DEF Records
<1> QED
  BY <1>4, <1>5, <1>6, <1>7

LEMMA PassedMoves ==
    ASSUME BillingShape, BillingShape', NEW c \in AdRequests,
           \A x \in AdRequests : x # c => adCall'[x] = adCall[x], NEW ad
    PROVE  \E s \in Nat : /\ Amounts(Passed(ad)) = s + Passes(c, ad)
                          /\ Amounts(Passed(ad))' = s + Passes(c, ad)'
                          /\ c \in Trackers => s <= OthersCost
<1>1. PICK S \in SUBSET Trackers :
         S = {t \in Trackers : /\ adCall[t].pc \in {"charge", "debit", "record", "count"}
                               /\ adCall[t].ad = ad}
  OBVIOUS
<1>2. PICK T \in SUBSET Trackers :
         T = {t \in Trackers : /\ adCall'[t].pc \in {"charge", "debit", "record", "count"}
                               /\ adCall'[t].ad = ad}
  OBVIOUS
<1>3. \A x \in Trackers : x # c => (x \in S <=> x \in T)
  BY <1>1, <1>2 DEF AdRequests
<1>4. PICK s \in Nat :
        /\ SumFunctionOnSet(AdAmounts, S) = s + IF c \in S THEN adCall[c].amount ELSE 0
        /\ SumFunctionOnSet(AdAmounts', T) = s + IF c \in T THEN adCall'[c].amount ELSE 0
        /\ c \in Trackers => s <= OthersCost
  BY <1>3, EventSumMoves
<1>5. Amounts(Passed(ad)) = SumFunctionOnSet(AdAmounts, S)
  BY <1>1 DEF Passed, Amounts, AdAmounts
<1>6. Amounts(Passed(ad))' = SumFunctionOnSet(AdAmounts', T)
  BY <1>2 DEF Passed, Amounts, AdAmounts
<1>7. /\ (IF c \in S THEN adCall[c].amount ELSE 0) = Passes(c, ad)
      /\ (IF c \in T THEN adCall'[c].amount ELSE 0) = Passes(c, ad)'
  BY <1>1, <1>2 DEF Passes
<1> QED
  BY <1>4, <1>5, <1>6, <1>7

LEMMA DebitingMoves ==
    ASSUME BillingShape, BillingShape', NEW c \in AdRequests,
           \A x \in AdRequests : x # c => adCall'[x] = adCall[x], NEW u
    PROVE  \E s \in Nat : /\ Amounts(Debiting(u)) = s + Debits(c, u)
                          /\ Amounts(Debiting(u))' = s + Debits(c, u)'
                          /\ c \in Trackers => s <= OthersCost
<1>1. PICK S \in SUBSET Trackers :
         S = {t \in Trackers : adCall[t].pc = "debit" /\ adCall[t].seller = u}
  OBVIOUS
<1>2. PICK T \in SUBSET Trackers :
         T = {t \in Trackers : adCall'[t].pc = "debit" /\ adCall'[t].seller = u}
  OBVIOUS
<1>3. \A x \in Trackers : x # c => (x \in S <=> x \in T)
  BY <1>1, <1>2 DEF AdRequests
<1>4. PICK s \in Nat :
        /\ SumFunctionOnSet(AdAmounts, S) = s + IF c \in S THEN adCall[c].amount ELSE 0
        /\ SumFunctionOnSet(AdAmounts', T) = s + IF c \in T THEN adCall'[c].amount ELSE 0
        /\ c \in Trackers => s <= OthersCost
  BY <1>3, EventSumMoves
<1>5. Amounts(Debiting(u)) = SumFunctionOnSet(AdAmounts, S)
  BY <1>1 DEF Debiting, Amounts, AdAmounts
<1>6. Amounts(Debiting(u))' = SumFunctionOnSet(AdAmounts', T)
  BY <1>2 DEF Debiting, Amounts, AdAmounts
<1>7. /\ (IF c \in S THEN adCall[c].amount ELSE 0) = Debits(c, u)
      /\ (IF c \in T THEN adCall'[c].amount ELSE 0) = Debits(c, u)'
  BY <1>1, <1>2 DEF Debits
<1> QED
  BY <1>4, <1>5, <1>6, <1>7

\* The part of a request in a sum is a number.
LEMMA PartsTyped ==
    ASSUME BillingShape, NEW c \in AdRequests
    PROVE  \A x : /\ Counts(c, x) \in Nat /\ Records(c, x) \in Nat
                  /\ Passes(c, x) \in Nat /\ Debits(c, x) \in Nat
<1>1. adCall[c].amount \in Nat
  BY BillingTyped
<1> QED
  BY <1>1 DEF Counts, Records, Passes, Debits

LEMMA PartsTypedNext ==
    ASSUME BillingShape', NEW c \in AdRequests
    PROVE  \A x : /\ Counts(c, x)' \in Nat /\ Records(c, x)' \in Nat
                  /\ Passes(c, x)' \in Nat /\ Debits(c, x)' \in Nat
<1>1. adCall'[c].amount \in Nat
  BY DEF BillingShape, AdCallState
<1> QED
  BY <1>1 DEF Counts, Records, Passes, Debits

\* What the AD_SPEND rows of a seller add up to.
LEMMA ChargedTyped ==
    ASSUME BillingShape, NEW s
    PROVE  Charged(s) \in Nat /\ AdsOf(s) \in SUBSET BilledAds /\ IsFiniteSet(AdsOf(s))
<1>1. AdsOf(s) \in SUBSET BilledAds /\ IsFiniteSet(AdsOf(s))
  BY BillingConstants, FS_Subset DEF AdsOf
<1>2. PICK S \in SUBSET BilledAds : S = AdsOf(s) /\ IsFiniteSet(S)
  BY <1>1
<1>3. SumFunctionOnSet(spendRows, S) \in Nat
  BY <1>2, BillingTyped, SumNat
<1> QED
  BY <1>1, <1>2, <1>3 DEF Charged

\* What is left to see of a step, when one request moves: that its own part of every
\* sum grows by no more than the row it is compared with, or that the step tested the
\* bound itself.
LEMMA SumsMove ==
    ASSUME BillingShape, BillingShape', BillingSums, NEW c \in AdRequests,
           \A x \in AdRequests : x # c => adCall'[x] = adCall[x],
           \A ad \in BilledAds :
              (adSpent'[ad] + Counts(c, ad)') - spendRows'[ad]
                 <= (adSpent[ad] + Counts(c, ad)) - spendRows[ad],
           \A s \in AdSellers :
              (Charged(s)' + Records(c, s)') - adWallet'[s].spent
                 <= (Charged(s) + Records(c, s)) - adWallet[s].spent,
           \A ad \in BilledAds : TotalBudget[ad] > 0 =>
              \/ adSpent'[ad] + Passes(c, ad)' <= adSpent[ad] + Passes(c, ad)
              \/ c \in Trackers /\ adSpent'[ad] + Passes(c, ad)' <= TotalBudget[ad],
           \A s \in AdSellers :
              \/ adWallet'[s].balance - Debits(c, s)' >= adWallet[s].balance - Debits(c, s)
              \/ c \in Trackers /\ adWallet'[s].balance >= Debits(c, s)'
    PROVE  BillingSums'
<1>0. /\ \A x : /\ Counts(c, x) \in Nat /\ Records(c, x) \in Nat
                /\ Passes(c, x) \in Nat /\ Debits(c, x) \in Nat
      /\ \A x : /\ Counts(c, x)' \in Nat /\ Records(c, x)' \in Nat
                /\ Passes(c, x)' \in Nat /\ Debits(c, x)' \in Nat
  BY PartsTyped, PartsTypedNext
<1>a. /\ \A s \in AdSellers : adWallet[s].balance \in Int /\ adWallet[s].spent \in Nat
      /\ \A s \in AdSellers : adWallet'[s].balance \in Int /\ adWallet'[s].spent \in Nat
      /\ \A ad \in BilledAds : adSpent[ad] \in Nat /\ spendRows[ad] \in Nat
      /\ \A ad \in BilledAds : adSpent'[ad] \in Nat /\ spendRows'[ad] \in Nat
  BY DEF BillingShape, BillingTypeOK
<1>b. OthersCost \in Nat /\ OthersCost' = OthersCost
  BY OthersCostTyped DEF OthersCost, MaxCost
<1>1. CountedWasCharged'
  <2> SUFFICES ASSUME NEW ad \in BilledAds
               PROVE  adSpent'[ad] + Uncounted(ad)' <= spendRows'[ad]
    BY DEF CountedWasCharged
  <2>1. PICK s \in Nat : /\ Uncounted(ad) = s + Counts(c, ad)
                         /\ Uncounted(ad)' = s + Counts(c, ad)'
    BY UncountedMoves
  <2>2. PICK k \in Nat : k = Counts(c, ad)
    BY <1>0
  <2>3. PICK k2 \in Nat : k2 = Counts(c, ad)'
    BY <1>0
  <2>4. adSpent[ad] + (s + k) <= spendRows[ad]
    BY <2>1, <2>2 DEF BillingSums, CountedWasCharged
  <2>5. (adSpent'[ad] + k2) - spendRows'[ad] <= (adSpent[ad] + k) - spendRows[ad]
    BY <2>2, <2>3
  <2>6. adSpent'[ad] + (s + k2) <= spendRows'[ad]
    BY <1>a, <2>4, <2>5
  <2> QED
    BY <2>1, <2>3, <2>6
<1>2. ChargedWasSpent'
  <2> SUFFICES ASSUME NEW u \in AdSellers
               PROVE  Charged(u)' + Amounts(Recording(u))' <= adWallet'[u].spent
    BY DEF ChargedWasSpent
  <2>1. PICK s \in Nat : /\ Amounts(Recording(u)) = s + Records(c, u)
                         /\ Amounts(Recording(u))' = s + Records(c, u)'
    BY RecordingMoves
  <2>2. PICK k \in Nat : k = Records(c, u)
    BY <1>0
  <2>3. PICK k2 \in Nat : k2 = Records(c, u)'
    BY <1>0
  <2>4. PICK m \in Nat : m = Charged(u)
    BY ChargedTyped
  <2>5. PICK m2 \in Nat : m2 = Charged(u)'
    <3>1. Charged(u)' = SumFunctionOnSet(spendRows', AdsOf(u))
      BY DEF Charged, AdsOf
    <3>2. PICK S \in SUBSET BilledAds : S = AdsOf(u) /\ IsFiniteSet(S)
      BY ChargedTyped
    <3>3. spendRows' \in [BilledAds -> Nat]
      BY DEF BillingShape, BillingTypeOK
    <3>4. SumFunctionOnSet(spendRows', S) \in Nat
      BY <3>2, <3>3, SumNat
    <3> QED
      BY <3>1, <3>2, <3>4
  <2>6. m + (s + k) <= adWallet[u].spent
    BY <2>1, <2>2, <2>4 DEF BillingSums, ChargedWasSpent
  <2>7. (m2 + k2) - adWallet'[u].spent <= (m + k) - adWallet[u].spent
    BY <2>2, <2>3, <2>4, <2>5
  <2>8. m2 + (s + k2) <= adWallet'[u].spent
    BY <1>a, <2>6, <2>7
  <2> QED
    BY <2>1, <2>3, <2>5, <2>8
<1>3. PassedWithinBudget'
  <2> SUFFICES ASSUME NEW ad \in BilledAds, TotalBudget[ad] > 0
               PROVE  adSpent'[ad] + Amounts(Passed(ad))' <= TotalBudget[ad] + OthersCost
    BY <1>b DEF PassedWithinBudget
  <2>1. PICK s \in Nat : /\ Amounts(Passed(ad)) = s + Passes(c, ad)
                         /\ Amounts(Passed(ad))' = s + Passes(c, ad)'
                         /\ c \in Trackers => s <= OthersCost
    BY PassedMoves
  <2>2. PICK k \in Nat : k = Passes(c, ad)
    BY <1>0
  <2>3. PICK k2 \in Nat : k2 = Passes(c, ad)'
    BY <1>0
  <2>4. PICK B \in Nat : B = TotalBudget[ad]
    BY BillingConstants
  <2>5. PICK C \in Nat : C = OthersCost
    BY <1>b
  <2>6. adSpent[ad] + (s + k) <= B + C
    BY <2>1, <2>2, <2>4, <2>5 DEF BillingSums, PassedWithinBudget
  <2>7. \/ adSpent'[ad] + k2 <= adSpent[ad] + k
        \/ s <= C /\ adSpent'[ad] + k2 <= B
    BY <2>1, <2>2, <2>3, <2>4, <2>5
  <2>8. adSpent'[ad] + (s + k2) <= B + C
    BY <1>a, <2>6, <2>7
  <2> QED
    BY <2>1, <2>3, <2>4, <2>5, <2>8
<1>4. WalletsSolvent'
  <2> SUFFICES ASSUME NEW u \in AdSellers
               PROVE  adWallet'[u].balance >= Amounts(Debiting(u))' - OthersCost
    BY <1>b DEF WalletsSolvent
  <2>1. PICK s \in Nat : /\ Amounts(Debiting(u)) = s + Debits(c, u)
                         /\ Amounts(Debiting(u))' = s + Debits(c, u)'
                         /\ c \in Trackers => s <= OthersCost
    BY DebitingMoves
  <2>2. PICK k \in Nat : k = Debits(c, u)
    BY <1>0
  <2>3. PICK k2 \in Nat : k2 = Debits(c, u)'
    BY <1>0
  <2>4. PICK C \in Nat : C = OthersCost
    BY <1>b
  <2>5. adWallet[u].balance >= (s + k) - C
    BY <2>1, <2>2, <2>4 DEF BillingSums, WalletsSolvent
  <2>6. \/ adWallet'[u].balance - k2 >= adWallet[u].balance - k
        \/ s <= C /\ adWallet'[u].balance >= k2
    BY <2>1, <2>2, <2>3, <2>4
  <2>7. adWallet'[u].balance >= (s + k2) - C
    BY <1>a, <2>5, <2>6
  <2> QED
    BY <2>1, <2>3, <2>4, <2>7
<1> QED
  BY <1>1, <1>2, <1>3, <1>4 DEF BillingSums

\* A step that writes none of the rows that count.
LEMMA SumsQuiet ==
    ASSUME BillingShape, BillingShape', BillingSums, NEW c \in AdRequests,
           \A x \in AdRequests : x # c => adCall'[x] = adCall[x],
           UNCHANGED <<adWallet, spendRows, adSpent>>,
           \A x : Counts(c, x)' <= Counts(c, x) /\ Records(c, x)' <= Records(c, x),
           \A ad \in BilledAds : TotalBudget[ad] > 0 =>
              \/ Passes(c, ad)' <= Passes(c, ad)
              \/ c \in Trackers /\ adSpent[ad] + Passes(c, ad)' <= TotalBudget[ad],
           \A s \in AdSellers :
              \/ Debits(c, s)' <= Debits(c, s)
              \/ c \in Trackers /\ adWallet[s].balance >= Debits(c, s)'
    PROVE  BillingSums'
<1>0. /\ \A x : /\ Counts(c, x) \in Nat /\ Records(c, x) \in Nat
                /\ Passes(c, x) \in Nat /\ Debits(c, x) \in Nat
      /\ \A x : /\ Counts(c, x)' \in Nat /\ Records(c, x)' \in Nat
                /\ Passes(c, x)' \in Nat /\ Debits(c, x)' \in Nat
  BY PartsTyped, PartsTypedNext
<1>a. /\ \A s \in AdSellers : adWallet[s].balance \in Int /\ adWallet[s].spent \in Nat
      /\ \A ad \in BilledAds : adSpent[ad] \in Nat /\ spendRows[ad] \in Nat
      /\ \A s \in AdSellers : Charged(s)' = Charged(s) /\ Charged(s) \in Nat
  BY ChargedTyped DEF BillingShape, BillingTypeOK, Charged, AdsOf
<1>1. \A ad \in BilledAds :
         (adSpent'[ad] + Counts(c, ad)') - spendRows'[ad]
            <= (adSpent[ad] + Counts(c, ad)) - spendRows[ad]
  BY <1>0, <1>a
<1>2. \A s \in AdSellers :
         (Charged(s)' + Records(c, s)') - adWallet'[s].spent
            <= (Charged(s) + Records(c, s)) - adWallet[s].spent
  BY <1>0, <1>a
<1>3. \A ad \in BilledAds : TotalBudget[ad] > 0 =>
         \/ adSpent'[ad] + Passes(c, ad)' <= adSpent[ad] + Passes(c, ad)
         \/ c \in Trackers /\ adSpent'[ad] + Passes(c, ad)' <= TotalBudget[ad]
  BY <1>0, <1>a
<1>4. \A s \in AdSellers :
         \/ adWallet'[s].balance - Debits(c, s)' >= adWallet[s].balance - Debits(c, s)
         \/ c \in Trackers /\ adWallet'[s].balance >= Debits(c, s)'
  BY <1>0, <1>a
<1> QED
  BY <1>1, <1>2, <1>3, <1>4, SumsMove

-----------------------------------------------------------------------------
(* Ad spend: every step                                                    *)

LEMMA DepositWalletSums ==
    ASSUME BillingShape, BillingSums, NEW d \in Depositors, NEW s \in AdSellers,
           NEW key \in DepositKeys, NEW n \in DepositAmounts, DepositWallet(d, s, key, n)
    PROVE  BillingSums'
<1>1. /\ BillingShape' /\ n > 0 /\ n \in Nat
      /\ d \in AdRequests /\ adCall[d].pc = "idle" /\ adCall'[d].pc = "deposit"
      /\ \A x \in AdRequests : x # d => adCall'[x] = adCall[x]
      /\ adWallet'[s].balance = adWallet[s].balance + n
      /\ adWallet'[s].spent = adWallet[s].spent
      /\ \A x \in AdSellers : x # s => adWallet'[x] = adWallet[x]
  BY DepositWalletWrites
<1>2. /\ \A x : Counts(d, x) = 0 /\ Records(d, x) = 0 /\ Passes(d, x) = 0 /\ Debits(d, x) = 0
      /\ \A x : /\ Counts(d, x)' = 0 /\ Records(d, x)' = 0
                /\ Passes(d, x)' = 0 /\ Debits(d, x)' = 0
  BY <1>1 DEF Counts, Records, Passes, Debits
<1>3. /\ \A x \in AdSellers : adWallet[x].balance \in Int /\ adWallet[x].spent \in Nat
      /\ \A ad \in BilledAds : adSpent[ad] \in Nat /\ spendRows[ad] \in Nat
      /\ \A x : Charged(x)' = Charged(x) /\ Charged(x) \in Nat
      /\ UNCHANGED <<spendRows, adSpent>>
  BY ChargedTyped, BillingTyped DEF Charged, AdsOf, DepositWallet
<1>4. \A ad \in BilledAds :
         (adSpent'[ad] + Counts(d, ad)') - spendRows'[ad]
            <= (adSpent[ad] + Counts(d, ad)) - spendRows[ad]
  BY <1>2, <1>3
<1>5. \A x \in AdSellers :
         (Charged(x)' + Records(d, x)') - adWallet'[x].spent
            <= (Charged(x) + Records(d, x)) - adWallet[x].spent
  BY <1>1, <1>2, <1>3
<1>6. \A ad \in BilledAds : TotalBudget[ad] > 0 =>
         adSpent'[ad] + Passes(d, ad)' <= adSpent[ad] + Passes(d, ad)
  BY <1>2, <1>3
<1>7. \A x \in AdSellers :
         adWallet'[x].balance - Debits(d, x)' >= adWallet[x].balance - Debits(d, x)
  BY <1>1, <1>2, <1>3
<1> QED
  BY <1>1, <1>4, <1>5, <1>6, <1>7, SumsMove

\* A request that ends without having written.
LEMMA EndsSums ==
    ASSUME BillingShape, BillingShape', BillingSums, NEW c \in AdRequests,
           adCall'[c] = AdIdle, \A x \in AdRequests : x # c => adCall'[x] = adCall[x],
           UNCHANGED <<adWallet, spendRows, adSpent>>
    PROVE  BillingSums'
<1>1. \A x : Counts(c, x)' = 0 /\ Records(c, x)' = 0 /\ Passes(c, x)' = 0 /\ Debits(c, x)' = 0
  BY AdIdleFits DEF Counts, Records, Passes, Debits
<1>2. \A x : /\ Counts(c, x) \in Nat /\ Records(c, x) \in Nat
             /\ Passes(c, x) \in Nat /\ Debits(c, x) \in Nat
  BY PartsTyped
<1>3. \A x : /\ Counts(c, x)' <= Counts(c, x) /\ Records(c, x)' <= Records(c, x)
             /\ Passes(c, x)' <= Passes(c, x) /\ Debits(c, x)' <= Debits(c, x)
  BY <1>1, <1>2
<1> QED
  BY <1>3, SumsQuiet

LEMMA TrackReadSums ==
    ASSUME BillingShape, BillingSums, NEW t \in Trackers, NEW ad \in BilledAds,
           NEW type \in EventTypes, TrackRead(t, ad, type)
    PROVE  BillingSums'
<1>1. /\ BillingShape' /\ t \in AdRequests /\ adCall[t].pc = "idle" /\ adCall'[t].ad = ad
      /\ \/ adCall'[t].pc = "count" /\ adCall'[t].amount = 0
         \/ adCall'[t].pc = "over"
         \/ adCall'[t].pc = "charge" /\ WithinBudget(ad, adSpent[ad], adCall'[t].amount)
      /\ \A x \in AdRequests : x # t => adCall'[x] = adCall[x]
      /\ UNCHANGED <<adWallet, spendRows, adSpent>>
  BY TrackReadWrites
<1>2. \A x : Counts(t, x) = 0 /\ Records(t, x) = 0 /\ Passes(t, x) = 0 /\ Debits(t, x) = 0
  BY <1>1 DEF Counts, Records, Passes, Debits
<1>3. \A x : Counts(t, x)' = 0 /\ Records(t, x)' = 0 /\ Debits(t, x)' = 0
  BY <1>1 DEF Counts, Records, Debits
<1>4. ASSUME NEW x \in BilledAds, TotalBudget[x] > 0
      PROVE  Passes(t, x)' = 0 \/ adSpent[x] + Passes(t, x)' <= TotalBudget[x]
  <2>1. PICK n \in Nat : n = adCall'[t].amount
    BY <1>1 DEF BillingShape, AdCallState
  <2>2. TotalBudget[x] # 0
    BY <1>4, BillingConstants
  <2>3. CASE adCall'[t].pc = "charge" /\ x = ad
    <3>1. Passes(t, x)' = n
      BY <1>1, <2>1, <2>3 DEF Passes
    <3>2. adSpent[x] + n <= TotalBudget[x]
      BY <1>1, <2>1, <2>2, <2>3 DEF WithinBudget
    <3> QED
      BY <3>1, <3>2
  <2>4. CASE ~ (adCall'[t].pc = "charge" /\ x = ad)
    BY <1>1, <2>4 DEF Passes
  <2> QED
    BY <2>3, <2>4
<1>5. /\ \A x : Counts(t, x)' <= Counts(t, x) /\ Records(t, x)' <= Records(t, x)
      /\ \A x : Debits(t, x)' <= Debits(t, x)
  BY <1>2, <1>3
<1>6. \A x \in BilledAds : TotalBudget[x] > 0 =>
         \/ Passes(t, x)' <= Passes(t, x)
         \/ t \in Trackers /\ adSpent[x] + Passes(t, x)' <= TotalBudget[x]
  BY <1>2, <1>4
<1> QED
  BY <1>1, <1>5, <1>6, SumsQuiet

LEMMA TrackOverSums ==
    ASSUME BillingShape, BillingSums, NEW t \in Trackers, TrackOver(t)
    PROVE  BillingSums'
<1>1. /\ BillingShape' /\ t \in AdRequests /\ adCall[t].pc = "over"
      /\ adCall'[t].pc = "count" /\ adCall'[t].amount = 0
      /\ \A x \in AdRequests : x # t => adCall'[x] = adCall[x]
      /\ UNCHANGED <<adWallet, spendRows, adSpent>>
  BY TrackOverWrites
<1>2. /\ \A x : Counts(t, x) = 0 /\ Records(t, x) = 0 /\ Passes(t, x) = 0 /\ Debits(t, x) = 0
      /\ \A x : /\ Counts(t, x)' = 0 /\ Records(t, x)' = 0
                /\ Passes(t, x)' = 0 /\ Debits(t, x)' = 0
  BY <1>1 DEF Counts, Records, Passes, Debits
<1>3. \A x : /\ Counts(t, x)' <= Counts(t, x) /\ Records(t, x)' <= Records(t, x)
             /\ Passes(t, x)' <= Passes(t, x) /\ Debits(t, x)' <= Debits(t, x)
  BY <1>2
<1> QED
  BY <1>1, <1>3, SumsQuiet

LEMMA ChargeReadSums ==
    ASSUME BillingShape, BillingSums, NEW t \in Trackers, ChargeRead(t)
    PROVE  BillingSums'
<1>1. /\ BillingShape' /\ t \in AdRequests /\ adCall[t].pc = "charge"
      /\ adCall[t].seller \in AdSellers
      /\ \/ /\ adWallet[adCall[t].seller].balance >= adCall[t].amount
            /\ adCall'[t].pc = "debit" /\ adCall'[t].amount = adCall[t].amount
         \/ adCall'[t].pc = "count" /\ adCall'[t].amount = 0
      /\ adCall'[t].ad = adCall[t].ad /\ adCall'[t].seller = adCall[t].seller
      /\ \A x \in AdRequests : x # t => adCall'[x] = adCall[x]
      /\ UNCHANGED <<adWallet, spendRows, adSpent>>
  BY ChargeReadWrites
<1>2. PICK n \in Nat : n = adCall[t].amount
  BY <1>1, BillingTyped
<1>3. \A x : Counts(t, x) = 0 /\ Records(t, x) = 0 /\ Debits(t, x) = 0
  BY <1>1 DEF Counts, Records, Debits
<1>4. \A x : Counts(t, x)' = 0 /\ Records(t, x)' = 0
  BY <1>1 DEF Counts, Records
<1>5. \A x : Passes(t, x)' = Passes(t, x) \/ (Passes(t, x)' = 0 /\ Passes(t, x) \in Nat)
  BY <1>1, PartsTyped DEF Passes
<1>6. ASSUME NEW s \in AdSellers
      PROVE  Debits(t, s)' = 0 \/ adWallet[s].balance >= Debits(t, s)'
  BY <1>1 DEF Debits
<1>7. \A x : Counts(t, x)' <= Counts(t, x) /\ Records(t, x)' <= Records(t, x)
  BY <1>3, <1>4
<1>8. \A x : Passes(t, x)' <= Passes(t, x)
  BY <1>5, PartsTyped, <1>1
<1>9. \A s \in AdSellers : \/ Debits(t, s)' <= Debits(t, s)
                           \/ t \in Trackers /\ adWallet[s].balance >= Debits(t, s)'
  BY <1>3, <1>6
<1> QED
  BY <1>1, <1>7, <1>8, <1>9, SumsQuiet

\* The debit takes what was found, and it is on its way to the AD_SPEND rows.
LEMMA ChargeWriteSums ==
    ASSUME BillingShape, BillingSums, NEW t \in Trackers, ChargeWrite(t)
    PROVE  BillingSums'
<1>1. PICK n \in Nat : n = adCall[t].amount
  BY ChargeWriteWrites
<1>2. PICK u \in AdSellers : u = adCall[t].seller
  BY ChargeWriteWrites
<1>3. /\ BillingShape' /\ t \in AdRequests /\ adCall[t].pc = "debit"
      /\ adCall'[t].pc = "record" /\ adCall'[t].amount = n
      /\ adCall'[t].ad = adCall[t].ad /\ adCall'[t].seller = u
      /\ \A x \in AdRequests : x # t => adCall'[x] = adCall[x]
      /\ adWallet'[u].balance = adWallet[u].balance - n
      /\ adWallet'[u].spent = adWallet[u].spent + n
      /\ \A x \in AdSellers : x # u => adWallet'[x] = adWallet[x]
      /\ UNCHANGED <<spendRows, adSpent>>
  BY <1>1, <1>2, ChargeWriteWrites
<1>4. \A x : /\ Counts(t, x) = 0 /\ Records(t, x) = 0
             /\ Debits(t, x) = IF x = u THEN n ELSE 0
  BY <1>1, <1>2, <1>3 DEF Counts, Records, Debits
<1>5. \A x : /\ Counts(t, x)' = 0 /\ Debits(t, x)' = 0
             /\ Records(t, x)' = IF x = u THEN n ELSE 0
  BY <1>3 DEF Counts, Records, Debits
<1>6. \A x : Passes(t, x)' = Passes(t, x) /\ Passes(t, x) \in Nat
  BY <1>1, <1>3, PartsTyped DEF Passes
<1>7. /\ \A x \in AdSellers : adWallet[x].balance \in Int /\ adWallet[x].spent \in Nat
      /\ \A ad \in BilledAds : adSpent[ad] \in Nat /\ spendRows[ad] \in Nat
      /\ \A x : Charged(x)' = Charged(x) /\ Charged(x) \in Nat
  BY <1>3, ChargedTyped, BillingTyped DEF Charged, AdsOf
<1>8. \A ad \in BilledAds :
         (adSpent'[ad] + Counts(t, ad)') - spendRows'[ad]
            <= (adSpent[ad] + Counts(t, ad)) - spendRows[ad]
  BY <1>3, <1>4, <1>5, <1>7
<1>9. \A x \in AdSellers :
         (Charged(x)' + Records(t, x)') - adWallet'[x].spent
            <= (Charged(x) + Records(t, x)) - adWallet[x].spent
  BY <1>3, <1>4, <1>5, <1>7
<1>10. \A ad \in BilledAds : TotalBudget[ad] > 0 =>
          adSpent'[ad] + Passes(t, ad)' <= adSpent[ad] + Passes(t, ad)
  BY <1>3, <1>6, <1>7
<1>11. \A x \in AdSellers :
          adWallet'[x].balance - Debits(t, x)' >= adWallet[x].balance - Debits(t, x)
  BY <1>3, <1>4, <1>5, <1>7
<1> QED
  BY <1>3, <1>8, <1>9, <1>10, <1>11, SumsMove

\* The AD_SPEND row is one of the seller's, of an ad that is about to count it.
LEMMA ChargeRecordSums ==
    ASSUME BillingShape, BillingSums, NEW t \in Trackers, ChargeRecord(t)
    PROVE  BillingSums'
<1>1. PICK n \in Nat : n = adCall[t].amount
  BY ChargeRecordWrites
<1>2. PICK b \in BilledAds : b = adCall[t].ad
  BY ChargeRecordWrites
<1>3. PICK u \in AdSellers : u = adCall[t].seller /\ u = SellerOfAd[b]
  BY <1>2, ChargeRecordWrites
<1>4. /\ BillingShape' /\ t \in AdRequests /\ adCall[t].pc = "record"
      /\ adCall'[t].pc = "count" /\ adCall'[t].amount = n
      /\ adCall'[t].ad = b /\ adCall'[t].seller = u
      /\ \A x \in AdRequests : x # t => adCall'[x] = adCall[x]
      /\ spendRows'[b] = spendRows[b] + n
      /\ \A x \in BilledAds : x # b => spendRows'[x] = spendRows[x]
      /\ UNCHANGED <<adWallet, adSpent>>
  BY <1>1, <1>2, <1>3, ChargeRecordWrites
<1>5. \A x : /\ Counts(t, x) = 0 /\ Debits(t, x) = 0
             /\ Records(t, x) = IF x = u THEN n ELSE 0
  BY <1>1, <1>3, <1>4 DEF Counts, Records, Debits
<1>6. \A x : /\ Counts(t, x)' = IF x = b THEN n ELSE 0
             /\ Records(t, x)' = 0 /\ Debits(t, x)' = 0
  BY <1>4 DEF Counts, Records, Debits
<1>7. \A x : Passes(t, x)' = Passes(t, x) /\ Passes(t, x) \in Nat
  BY <1>1, <1>2, <1>4, PartsTyped DEF Passes
<1>8. /\ \A x \in AdSellers : adWallet[x].balance \in Int /\ adWallet[x].spent \in Nat
      /\ \A ad \in BilledAds : adSpent[ad] \in Nat /\ spendRows[ad] \in Nat
  BY BillingTyped
<1>9. ASSUME NEW x \in AdSellers
      PROVE  /\ Charged(x) \in Int
             /\ Charged(x)' = Charged(x) + IF x = u THEN n ELSE 0
  <2>1. PICK S \in SUBSET BilledAds : S = AdsOf(x) /\ IsFiniteSet(S)
    BY ChargedTyped
  <2>2. PICK f \in [BilledAds -> Int] : f = spendRows
    BY BillingTyped
  <2>3. PICK g \in [BilledAds -> Int] : g = spendRows'
    BY <1>4 DEF BillingShape, BillingTypeOK
  <2>4. PICK s \in Int : s = SumFunctionOnSet(f, S)
    BY <2>1, SumInt
  <2>5. Charged(x) = s /\ Charged(x)' = SumFunctionOnSet(g, S)
    BY <2>1, <2>2, <2>3, <2>4 DEF Charged, AdsOf
  <2>6. b \in S <=> x = u
    BY <1>3, <2>1 DEF AdsOf
  <2>7. g[b] - f[b] = n /\ \A y \in S : y # b => g[y] = f[y]
    <3>1. PICK m \in Int : m = f[b]
      OBVIOUS
    <3>2. g[b] = m + n
      BY <1>4, <2>2, <2>3, <3>1
    <3> QED
      BY <1>4, <2>2, <2>3, <3>1, <3>2
  <2>8. CASE x = u
    <3>1. SumFunctionOnSet(g, S) = s + (g[b] - f[b])
      BY <2>1, <2>4, <2>6, <2>7, <2>8, SumChange
    <3> QED
      BY <2>5, <2>7, <2>8, <3>1
  <2>9. CASE x # u
    <3>1. \A y \in S : f[y] = g[y]
      BY <2>6, <2>7, <2>9
    <3>2. SumFunctionOnSet(g, S) = s
      BY <2>1, <2>4, <3>1, SumSame
    <3> QED
      BY <2>5, <2>9, <3>2
  <2> QED
    BY <2>8, <2>9
<1>10. \A ad \in BilledAds :
          (adSpent'[ad] + Counts(t, ad)') - spendRows'[ad]
             <= (adSpent[ad] + Counts(t, ad)) - spendRows[ad]
  BY <1>4, <1>5, <1>6, <1>8
<1>11. \A x \in AdSellers :
          (Charged(x)' + Records(t, x)') - adWallet'[x].spent
             <= (Charged(x) + Records(t, x)) - adWallet[x].spent
  <2> SUFFICES ASSUME NEW x \in AdSellers
               PROVE  (Charged(x)' + Records(t, x)') - adWallet'[x].spent
                         <= (Charged(x) + Records(t, x)) - adWallet[x].spent
    OBVIOUS
  <2>1. PICK m \in Int : m = Charged(x)
    BY <1>9
  <2>2. PICK e \in Int : e = adWallet[x].spent /\ e = adWallet'[x].spent
    BY <1>4, <1>8
  <2>3. CASE x = u
    <3>1. /\ Charged(x)' = m + n /\ Records(t, x)' = 0 /\ Records(t, x) = n
      BY <1>5, <1>6, <1>9, <2>1, <2>3
    <3> QED
      BY <2>1, <2>2, <3>1
  <2>4. CASE x # u
    <3>1. /\ Charged(x)' = m /\ Records(t, x)' = 0 /\ Records(t, x) = 0
      BY <1>5, <1>6, <1>9, <2>1, <2>4
    <3> QED
      BY <2>1, <2>2, <3>1
  <2> QED
    BY <2>3, <2>4
<1>12. \A ad \in BilledAds : TotalBudget[ad] > 0 =>
          adSpent'[ad] + Passes(t, ad)' <= adSpent[ad] + Passes(t, ad)
  BY <1>4, <1>7, <1>8
<1>13. \A x \in AdSellers :
          adWallet'[x].balance - Debits(t, x)' >= adWallet[x].balance - Debits(t, x)
  BY <1>4, <1>5, <1>6, <1>8
<1> QED
  BY <1>4, <1>10, <1>11, <1>12, <1>13, SumsMove

\* What was about to be counted is counted.
LEMMA TrackCountSums ==
    ASSUME BillingShape, BillingSums, NEW t \in Trackers, TrackCount(t)
    PROVE  BillingSums'
<1>1. PICK n \in Nat : n = adCall[t].amount
  BY TrackCountWrites
<1>2. PICK b \in BilledAds : b = adCall[t].ad
  BY TrackCountWrites
<1>3. /\ BillingShape' /\ t \in AdRequests /\ adCall[t].pc = "count" /\ adCall'[t] = AdIdle
      /\ \A x \in AdRequests : x # t => adCall'[x] = adCall[x]
      /\ adSpent'[b] = adSpent[b] + n
      /\ \A x \in BilledAds : x # b => adSpent'[x] = adSpent[x]
      /\ UNCHANGED <<adWallet, spendRows>>
  BY <1>1, <1>2, TrackCountWrites
<1>4. \A x : /\ Counts(t, x) = IF x = b THEN n ELSE 0
             /\ Passes(t, x) = IF x = b THEN n ELSE 0
             /\ Records(t, x) = 0 /\ Debits(t, x) = 0
  BY <1>1, <1>2, <1>3 DEF Counts, Records, Passes, Debits
<1>5. \A x : Counts(t, x)' = 0 /\ Records(t, x)' = 0 /\ Passes(t, x)' = 0 /\ Debits(t, x)' = 0
  BY <1>3, AdIdleFits DEF Counts, Records, Passes, Debits
<1>6. /\ \A x \in AdSellers : adWallet[x].balance \in Int /\ adWallet[x].spent \in Nat
      /\ \A ad \in BilledAds : adSpent[ad] \in Nat /\ spendRows[ad] \in Nat
      /\ \A x : Charged(x)' = Charged(x) /\ Charged(x) \in Nat
  BY <1>3, ChargedTyped, BillingTyped DEF Charged, AdsOf
<1>7. \A ad \in BilledAds :
         (adSpent'[ad] + Counts(t, ad)') - spendRows'[ad]
            <= (adSpent[ad] + Counts(t, ad)) - spendRows[ad]
  BY <1>3, <1>4, <1>5, <1>6
<1>8. \A x \in AdSellers :
         (Charged(x)' + Records(t, x)') - adWallet'[x].spent
            <= (Charged(x) + Records(t, x)) - adWallet[x].spent
  BY <1>3, <1>4, <1>5, <1>6
<1>9. \A ad \in BilledAds : TotalBudget[ad] > 0 =>
         adSpent'[ad] + Passes(t, ad)' <= adSpent[ad] + Passes(t, ad)
  BY <1>3, <1>4, <1>5, <1>6
<1>10. \A x \in AdSellers :
          adWallet'[x].balance - Debits(t, x)' >= adWallet[x].balance - Debits(t, x)
  BY <1>3, <1>4, <1>5, <1>6
<1> QED
  BY <1>3, <1>7, <1>8, <1>9, <1>10, SumsMove

LEMMA BillingInvStep == BillingInv /\ [BillingNext]_billingVars => BillingInv'
<1> SUFFICES ASSUME BillingShape, BillingSums, [BillingNext]_billingVars
             PROVE  BillingShape' /\ BillingSums'
  BY DEF BillingInv
<1>a. ASSUME UNCHANGED <<adWallet, spendRows, adSpent, adCall>> PROVE BillingSums'
  BY <1>a
     DEF BillingSums, CountedWasCharged, ChargedWasSpent, PassedWithinBudget, WalletsSolvent,
         Uncounted, Charged, AdsOf, Amounts, Recording, Passed, Debiting, OthersCost, MaxCost
<1>1. CASE UNCHANGED billingVars
  <2>1. BillingShape'
    BY <1>1 DEF billingVars, BillingShape, BillingTypeOK, AdFits, MaxCost
  <2> QED
    BY <1>1, <1>a, <2>1 DEF billingVars
<1>2. ASSUME NEW d \in Depositors, NEW s \in AdSellers, NEW key \in DepositKeys,
             NEW n \in DepositAmounts, DepositWallet(d, s, key, n)
      PROVE  BillingShape' /\ BillingSums'
  BY <1>2, DepositWalletWrites, DepositWalletSums
<1>3. ASSUME NEW d \in Depositors, DepositRecord(d) PROVE BillingShape' /\ BillingSums'
  <2>1. /\ BillingShape' /\ d \in AdRequests /\ adCall'[d] = AdIdle
        /\ \A x \in AdRequests : x # d => adCall'[x] = adCall[x]
    BY <1>3, DepositRecordWrites
  <2>2. UNCHANGED <<adWallet, spendRows, adSpent>>
    BY <1>3 DEF DepositRecord
  <2> QED
    BY <2>1, <2>2, EndsSums
<1>4. ASSUME NEW t \in Trackers, NEW ad \in BilledAds, NEW type \in EventTypes,
             TrackRead(t, ad, type)
      PROVE  BillingShape' /\ BillingSums'
  BY <1>4, TrackReadWrites, TrackReadSums
<1>5. ASSUME NEW t \in Trackers, TrackOver(t) PROVE BillingShape' /\ BillingSums'
  BY <1>5, TrackOverWrites, TrackOverSums
<1>6. ASSUME NEW t \in Trackers, ChargeRead(t) PROVE BillingShape' /\ BillingSums'
  BY <1>6, ChargeReadWrites, ChargeReadSums
<1>7. ASSUME NEW t \in Trackers, ChargeWrite(t) PROVE BillingShape' /\ BillingSums'
  BY <1>7, ChargeWriteWrites, ChargeWriteSums
<1>8. ASSUME NEW t \in Trackers, ChargeRecord(t) PROVE BillingShape' /\ BillingSums'
  BY <1>8, ChargeRecordWrites, ChargeRecordSums
<1>9. ASSUME NEW t \in Trackers, TrackCount(t) PROVE BillingShape' /\ BillingSums'
  BY <1>9, TrackCountWrites, TrackCountSums
<1>10. ASSUME NEW c \in AdRequests, RequestDies(c) PROVE BillingShape' /\ BillingSums'
  <2>1. /\ BillingShape' /\ adCall'[c] = AdIdle
        /\ \A x \in AdRequests : x # c => adCall'[x] = adCall[x]
    BY <1>10, RequestDiesWrites
  <2>2. UNCHANGED <<adWallet, spendRows, adSpent>>
    BY <1>10 DEF RequestDies
  <2> QED
    BY <2>1, <2>2, EndsSums
<1>11. ASSUME NEW ad \in BilledAds, NEW active \in BOOLEAN, SetAdActive(ad, active)
       PROVE  BillingShape' /\ BillingSums'
  BY <1>11, <1>a, SetAdActiveWrites DEF SetAdActive
<1>12. CASE BillingNext
  BY <1>2, <1>3, <1>4, <1>5, <1>6, <1>7, <1>8, <1>9, <1>10, <1>11, <1>12
     DEF BillingNext, AdRequests
<1> QED
  BY <1>1, <1>12

LEMMA BillingInvInit == BillingInit => BillingInv
<1> SUFFICES ASSUME BillingInit PROVE BillingShape /\ BillingSums
  BY DEF BillingInv
<1>1. adCall \in [AdRequests -> AdCallState] /\ \A c \in AdRequests : adCall[c] = AdIdle
  BY AdIdleFits DEF BillingInit, AdRequests
<1>2. \A c \in AdRequests : AdFits(c)
  BY <1>1, AdIdleFits, DearestEvent DEF AdFits
<1>3. BillingTypeOK
  <2>1. adWallet \in [AdSellers -> [balance : Int, deposited : Nat, spent : Nat]]
    BY DEF BillingInit
  <2>2. \A t \in Trackers : adCall[t].pc = "idle"
    BY <1>1, AdIdleFits DEF AdRequests
  <2> QED
    BY <2>1, <2>2 DEF BillingInit, BillingTypeOK
<1>4. BillingShape
  BY <1>1, <1>2, <1>3 DEF BillingShape
<1>5. \A t \in Trackers : adCall[t].pc = "idle"
  BY <1>1, AdIdleFits DEF AdRequests
<1>6. Amounts({}) = 0
  BY SumEmpty DEF Amounts
<1>7. /\ \A ad : Uncounted(ad) = 0
      /\ \A s : Amounts(Recording(s)) = 0 /\ Amounts(Debiting(s)) = 0
      /\ \A ad : Amounts(Passed(ad)) = 0
  <2>1. \A ad : {t \in Trackers : adCall[t].ad = ad /\ adCall[t].pc = "count"} = {}
    BY <1>5
  <2>2. \A s : Recording(s) = {} /\ Debiting(s) = {} /\ Passed(s) = {}
    BY <1>5 DEF Recording, Debiting, Passed
  <2> QED
    BY <1>6, <2>1, <2>2 DEF Uncounted
<1>8. \A s : Charged(s) = 0
  <2> SUFFICES ASSUME NEW s PROVE Charged(s) = 0
    OBVIOUS
  <2>1. PICK S \in SUBSET BilledAds : S = AdsOf(s) /\ IsFiniteSet(S)
    BY <1>4, ChargedTyped
  <2>2. PICK f \in [BilledAds -> Int] : f = spendRows /\ \A x \in S : f[x] = 0
    BY DEF BillingInit
  <2>3. SumFunctionOnSet(f, S) = 0
    BY <2>1, <2>2, SumZero
  <2> QED
    BY <2>1, <2>2, <2>3 DEF Charged
<1>9. /\ \A s \in AdSellers : adWallet[s].balance = 0 /\ adWallet[s].spent = 0
      /\ \A ad \in BilledAds : adSpent[ad] = 0 /\ spendRows[ad] = 0
  BY DEF BillingInit
<1>10. PICK C \in Nat : C = OthersCost
  BY OthersCostTyped
<1>11. CountedWasCharged /\ ChargedWasSpent
  BY <1>7, <1>8, <1>9 DEF CountedWasCharged, ChargedWasSpent
<1>12. PassedWithinBudget
  BY <1>7, <1>9, <1>10, BillingConstants DEF PassedWithinBudget
<1>13. WalletsSolvent
  BY <1>7, <1>9, <1>10 DEF WalletsSolvent
<1> QED
  BY <1>4, <1>11, <1>12, <1>13 DEF BillingSums

\* A sum over events under way is not negative.
LEMMA AmountsNat ==
    ASSUME BillingShape, NEW T \in SUBSET Trackers
    PROVE  Amounts(T) \in Nat
<1>1. PICK f \in [Trackers -> Nat] : f = AdAmounts
  BY AdAmountsTyped
<1>2. IsFiniteSet(T)
  BY BillingConstants, FS_Subset
<1>3. SumFunctionOnSet(f, T) \in Nat
  BY <1>2, SumNat
<1> QED
  BY <1>1, <1>3 DEF Amounts, AdAmounts

LEMMA SpendAccounted == BillingInv => SpendIsAccounted
<1> SUFFICES ASSUME BillingShape, BillingSums PROVE SpendIsAccounted
  BY DEF BillingInv
<1>1. /\ \A s : Amounts(Recording(s)) \in Nat
      /\ \A ad : Amounts(Passed(ad)) \in Nat
  BY AmountsNat DEF Recording, Passed
<1>2. \A s \in AdSellers : Charged(s) <= adWallet[s].spent
  <2> SUFFICES ASSUME NEW s \in AdSellers PROVE Charged(s) <= adWallet[s].spent
    OBVIOUS
  <2>1. PICK k \in Nat : k = Amounts(Recording(s))
    BY <1>1
  <2>2. PICK m \in Nat : m = Charged(s)
    BY ChargedTyped
  <2>3. PICK e \in Nat : e = adWallet[s].spent
    BY BillingTyped
  <2>4. m + k <= e
    BY <2>1, <2>2, <2>3 DEF BillingSums, ChargedWasSpent
  <2> QED
    BY <2>2, <2>3, <2>4
<1>3. ReportedSpendWasCharged
  BY <1>2 DEF BillingSums, CountedWasCharged, ReportedSpendWasCharged, Charged
<1>4. BudgetOverrunBounded
  <2> SUFFICES ASSUME NEW ad \in BilledAds, TotalBudget[ad] > 0
               PROVE  adSpent[ad] <= TotalBudget[ad] + OthersCost
    BY DEF BudgetOverrunBounded, OthersCost
  <2>1. PICK k \in Nat : k = Amounts(Passed(ad))
    BY <1>1
  <2>2. PICK b \in Nat : b = TotalBudget[ad]
    BY BillingConstants
  <2>3. PICK c \in Nat : c = OthersCost
    BY OthersCostTyped
  <2>4. PICK n \in Nat : n = adSpent[ad]
    BY BillingTyped
  <2>5. n + k <= b + c
    BY <2>1, <2>2, <2>3, <2>4 DEF BillingSums, PassedWithinBudget
  <2> QED
    BY <2>2, <2>3, <2>4, <2>5
<1> QED
  BY <1>3, <1>4 DEF SpendIsAccounted, BillingShape

\* No wallet is overdrawn by more than the other events under way cost.
WalletsWithinSlack == \A s \in AdSellers : adWallet[s].balance >= -OthersCost

LEMMA WalletsBounded == BillingInv => WalletsWithinSlack
<1> SUFFICES ASSUME BillingShape, BillingSums, NEW s \in AdSellers
             PROVE  adWallet[s].balance >= -OthersCost
  BY DEF BillingInv, WalletsWithinSlack
<1>1. PICK k \in Nat : k = Amounts(Debiting(s))
  BY AmountsNat DEF Debiting
<1>2. PICK c \in Nat : c = OthersCost
  BY OthersCostTyped
<1>3. PICK b \in Int : b = adWallet[s].balance
  BY BillingTyped
<1>4. b >= k - c
  BY <1>1, <1>2, <1>3 DEF BillingSums, WalletsSolvent
<1> QED
  BY <1>1, <1>2, <1>3, <1>4

LEMMA WalletsBoundedNext == BillingInv' => WalletsWithinSlack'
BY WalletsBounded, PTL

-----------------------------------------------------------------------------
(* Ad spend: the marketing wallet is an account                            *)

\* A deposit is a credit.
LEMMA DepositCredits ==
    ASSUME BillingInv, NEW d \in Depositors, NEW s \in AdSellers, NEW key \in DepositKeys,
           NEW n \in DepositAmounts, DepositWallet(d, s, key, n)
    PROVE  WalletAccount!AccountNext
<1>1. BillingShape
  BY DEF BillingInv
<1>2. /\ n > 0 /\ n \in Nat
      /\ adWallet'[s].balance = adWallet[s].balance + n
      /\ adWallet'[s].deposited = adWallet[s].deposited + n
      /\ adWallet'[s].spent = adWallet[s].spent
      /\ \A x \in AdSellers : x # s => adWallet'[x] = adWallet[x]
  BY <1>1, DepositWalletWrites
<1>3. PICK f : f = [x \in AdSellers |-> adWallet[x].balance]
  OBVIOUS
<1>4. PICK f2 : f2 = [x \in AdSellers |-> adWallet'[x].balance]
  OBVIOUS
<1>5. PICK g : g = [x \in AdSellers |-> adWallet[x].deposited]
  OBVIOUS
<1>6. PICK g2 : g2 = [x \in AdSellers |-> adWallet'[x].deposited]
  OBVIOUS
<1>7. adWallet[s].balance \in Int /\ adWallet[s].deposited \in Int
  BY <1>1, BillingTyped
<1>8. g2[s] - g[s] = n /\ g2[s] > g[s]
  BY <1>2, <1>5, <1>6, <1>7
<1>9. f2 = [f EXCEPT ![s] = @ + (g2[s] - g[s])]
  BY <1>2, <1>3, <1>4, <1>8
<1>10. g2 = [g EXCEPT ![s] = g2[s]]
  BY <1>2, <1>5, <1>6
<1>11. \A x \in AdSellers : adWallet'[x].spent = adWallet[x].spent
  BY <1>2
<1>12. WalletAccount!Credit(s)
  BY <1>3, <1>4, <1>5, <1>6, <1>8, <1>9, <1>10, <1>11 DEF WalletAccount!Credit
<1> QED
  BY <1>12 DEF WalletAccount!AccountNext

\* A debit spends, within the bound.
LEMMA DebitSpends ==
    ASSUME BillingInv, BillingInv', NEW t \in Trackers, ChargeWrite(t)
    PROVE  WalletAccount!AccountNext
<1>1. BillingShape
  BY DEF BillingInv
<1>2. PICK n \in Nat : n = adCall[t].amount /\ n > 0
  BY <1>1, ChargeWriteWrites
<1>3. PICK s \in AdSellers : s = adCall[t].seller
  BY <1>1, ChargeWriteWrites
<1>4. /\ adWallet'[s].balance = adWallet[s].balance - n
      /\ adWallet'[s].deposited = adWallet[s].deposited
      /\ adWallet'[s].spent = adWallet[s].spent + n
      /\ \A x \in AdSellers : x # s => adWallet'[x] = adWallet[x]
  BY <1>1, <1>2, <1>3, ChargeWriteWrites
<1>5. PICK f : f = [x \in AdSellers |-> adWallet[x].balance]
  OBVIOUS
<1>6. PICK f2 : f2 = [x \in AdSellers |-> adWallet'[x].balance]
  OBVIOUS
<1>7. PICK h : h = [x \in AdSellers |-> adWallet[x].spent]
  OBVIOUS
<1>8. PICK h2 : h2 = [x \in AdSellers |-> adWallet'[x].spent]
  OBVIOUS
<1>9. adWallet[s].balance \in Int /\ adWallet[s].spent \in Int
  BY <1>1, BillingTyped
<1>10. h2[s] - h[s] = n /\ h2[s] > h[s]
  BY <1>2, <1>4, <1>7, <1>8, <1>9
<1>11. f2 = [f EXCEPT ![s] = @ - (h2[s] - h[s])]
  BY <1>4, <1>5, <1>6, <1>10
<1>12. h2 = [h EXCEPT ![s] = h2[s]]
  BY <1>4, <1>7, <1>8
<1>13. f2[s] >= -((Cardinality(Trackers) - 1) * MaxCost)
  BY <1>6, WalletsBoundedNext DEF WalletsWithinSlack, OthersCost, MaxCost
<1>14. \A x \in AdSellers : adWallet'[x].deposited = adWallet[x].deposited
  BY <1>4
<1>15. WalletAccount!Spend(s)
  BY <1>5, <1>6, <1>7, <1>8, <1>10, <1>11, <1>12, <1>13, <1>14
     DEF WalletAccount!Spend, MaxCost
<1> QED
  BY <1>15 DEF WalletAccount!AccountNext

LEMMA BillingStepIsAccountStep ==
    BillingInv /\ BillingInv' /\ [BillingNext]_billingVars
    => [WalletAccount!AccountNext]_WalletAccount!accountVars
<1> SUFFICES ASSUME BillingInv, BillingInv', [BillingNext]_billingVars
             PROVE  WalletAccount!AccountNext \/ UNCHANGED WalletAccount!accountVars
  OBVIOUS
<1>a. ASSUME UNCHANGED adWallet PROVE UNCHANGED WalletAccount!accountVars
  BY <1>a DEF WalletAccount!accountVars
<1>1. CASE UNCHANGED billingVars
  BY <1>1, <1>a DEF billingVars
<1>2. ASSUME NEW c, \/ DepositRecord(c) \/ TrackOver(c) \/ ChargeRead(c) \/ ChargeRecord(c)
                    \/ TrackCount(c) \/ RequestDies(c)
                    \/ \E ad, type : TrackRead(c, ad, type)
                    \/ \E active : SetAdActive(c, active)
      PROVE  UNCHANGED WalletAccount!accountVars
  BY <1>2, <1>a DEF DepositRecord, TrackOver, ChargeRead, ChargeRecord, TrackCount, RequestDies,
                    TrackRead, SetAdActive
<1>3. CASE BillingNext
  BY <1>2, <1>3, DepositCredits, DebitSpends DEF BillingNext
<1> QED
  BY <1>1, <1>3

LEMMA WalletAccountInit == BillingInit => WalletAccount!AccountInit
BY DEF BillingInit, WalletAccount!AccountInit

-----------------------------------------------------------------------------
(* Ad spend: theorems                                                      *)

\* BillingInv is inductive: what the events of the others will cost is all that can
\* come between a test and the write it allows.
THEOREM BillingInvariant == BillingSpec => []BillingInv
<1> QED
  BY BillingInvInit, BillingInvStep, PTL DEF BillingSpec

\* Whichever statement of trackEvent and deductSpend a request dies after, an ad never
\* reports spend its seller was not charged, and passes its budget by less than one
\* event for every other one under way.
THEOREM AdSpendAccounted == BillingSpec => []SpendIsAccounted
<1> QED
  BY SpendAccounted, BillingInvariant, PTL

\* The marketing wallet implements Account: deductSpend reads the balance and decrements
\* it later without a condition, and overdraws it by at most the dearest event for every
\* other request under way.
THEOREM WalletsImplementAccount == BillingSpec => WalletImplementsAccount
<1> QED
  BY WalletAccountInit, BillingStepIsAccountStep, BillingInvariant, PTL
     DEF BillingSpec, WalletImplementsAccount, WalletAccount!AccountSpec

-----------------------------------------------------------------------------
(* Promotions: the invariant                                               *)

AnnouncedStates == {"NULL", "SCHEDULED", "LIVE", "PAUSED", "ENDED"}

\* Lists of links that rows have.
ProductLists == NewProducts \cup {OldProducts[a] : a \in OldAds} \cup {{}}

PromoRow == [exists : BOOLEAN, startAt : Times \cup {NoTime}, expiresAt : Times \cup {NoTime},
             products : ProductLists, isActive : BOOLEAN, notified : AnnouncedStates]

AdEditState == [pc : {"idle", "create", "update", "replacing"}, ad : PromoAds \cup {NoTime},
                startAt : Times \cup {NoTime, Keep}, expiresAt : Times \cup {NoTime, Keep},
                products : NewProducts \cup {Keep}, raced : BOOLEAN]

\* Promotions of one product have windows that do not meet.
RowsApart(v, w) == ScopesIntersect(v.products, w.products) => ~WindowsOverlap(v, w)

Apart(a, b) == adRow[a].exists /\ adRow[b].exists => RowsApart(adRow[a], adRow[b])

\* Two ads that were there before the checks, for one product.
NeverCompared(a, b) ==
    a \in OldAds /\ b \in OldAds /\ ScopesIntersect(OldProducts[a], OldProducts[b])

\* The window and the products an edit is going to leave its ad with.
EditedAd(c) ==
    LET e == adEdit[c]
        row == adRow[e.ad] IN
    [startAt   |-> IF e.pc = "replacing" THEN row.startAt ELSE Patched(e.startAt, row.startAt),
     expiresAt |-> IF e.pc = "replacing" THEN row.expiresAt
                   ELSE Patched(e.expiresAt, row.expiresAt),
     products  |-> Patched(e.products, row.products)]

\* An edit under way names an ad; a new ad has its whole window and its products, and
\* products to come are in the payload.
EditFits(c) ==
    /\ adEdit[c].pc # "idle" => adEdit[c].ad \in PromoAds
    /\ adEdit[c].pc = "create" =>
          adEdit[c].startAt # Keep /\ adEdit[c].expiresAt # Keep /\ adEdit[c].products # Keep
    /\ adEdit[c].pc = "replacing" => adEdit[c].products # Keep

\* What was true of the window and the products when they were checked is true still.
EditStandsApart(c) ==
    adEdit[c].pc = "create" \/ (adEdit[c].pc # "idle" /\ adRow[adEdit[c].ad].exists)
    => \A b \in PromoAds \ {adEdit[c].ad} : adRow[b].exists => RowsApart(EditedAd(c), adRow[b])

\* What a worker publishes and records is on its list.
SweepFits(w) ==
    /\ DOMAIN adSweep[w].todo \subseteq PromoAds
    /\ \A a \in DOMAIN adSweep[w].todo : adSweep[w].todo[a] \in AnnouncedStates
    /\ adSweep[w].published # NoTime => adSweep[w].published \in DOMAIN adSweep[w].todo

ScheduleShape ==
    /\ ScheduleTypeOK
    /\ adRow \in [PromoAds -> PromoRow]
    /\ adEdit \in [AdEditors -> AdEditState]
    /\ DOMAIN adSweep = AdWorkers
    /\ \A c \in AdEditors : EditFits(c)
    /\ \A w \in AdWorkers : SweepFits(w)

\* Windows that do not meet is what the checks keep; that no two promotions are live
\* at once follows.  The ads older than the checks were compared with no other until
\* they are edited, and an ad that is unsure was checked for other links than it has, or
\* against others that have changed.  A request that is not raced runs alone.
PromotionsApart ==
    /\ \A a, b \in PromoAds \ adUnsure : a # b => Apart(a, b) \/ NeverCompared(a, b)
    /\ \A c \in AdEditors :
         ~adEdit[c].raced =>
            /\ EditStandsApart(c)
            /\ adEdit[c].pc # "idle" => \A d \in AdEditors \ {c} : adEdit[d].pc = "idle"

ScheduleInv == ScheduleShape /\ PromotionsApart

-----------------------------------------------------------------------------
(* Promotions: windows                                                     *)

\* A time is no marker, a list of products neither.
LEMMA TimesAreNumbers ==
    /\ \A t \in Times : t \in Int /\ t # NoTime /\ t # Keep
    /\ NoTime # Keep /\ MaxTime \in Times /\ 0 \in Times /\ Keep \notin NewProducts
BY ScheduleConstants DEF Times

LEMMA OverlapSymmetric ==
    /\ \A v, w : WindowsOverlap(v, w) <=> WindowsOverlap(w, v)
    /\ \A p, q : ScopesIntersect(p, q) => ScopesIntersect(q, p)
    /\ \A v, w : RowsApart(v, w) <=> RowsApart(w, v)
    /\ \A a, b : Apart(a, b) <=> Apart(b, a)
    /\ \A a, b : NeverCompared(a, b) <=> NeverCompared(b, a)
<1>1. \A v, w : WindowsOverlap(v, w) <=> WindowsOverlap(w, v)
  BY DEF WindowsOverlap
<1>2. ASSUME NEW p, NEW q, ScopesIntersect(p, q) PROVE ScopesIntersect(q, p)
  <2>1. PICK x \in p, y \in q :
             x[1] = y[1] /\ (x[2] = NoVariant \/ y[2] = NoVariant \/ x[2] = y[2])
    BY <1>2 DEF ScopesIntersect
  <2> QED
    BY <2>1 DEF ScopesIntersect
<1>3. \A v, w : RowsApart(v, w) <=> RowsApart(w, v)
  BY <1>1, <1>2 DEF RowsApart
<1>4. \A a, b : Apart(a, b) <=> Apart(b, a)
  BY <1>3 DEF Apart
<1>5. \A a, b : NeverCompared(a, b) <=> NeverCompared(b, a)
  BY <1>2 DEF NeverCompared
<1> QED
  BY <1>1, <1>2, <1>3, <1>4, <1>5

\* Rows stand apart where their two columns and their links say so.
LEMMA ApartIsOfWindows ==
    ASSUME NEW v, NEW v2, NEW w, NEW w2,
           v.startAt = v2.startAt, v.expiresAt = v2.expiresAt, v.products = v2.products,
           w.startAt = w2.startAt, w.expiresAt = w2.expiresAt, w.products = w2.products
    PROVE  RowsApart(v, w) <=> RowsApart(v2, w2)
BY DEF RowsApart, WindowsOverlap, StartsBeforeEndOf

\* The selection in SQL and the state shown to the seller are the same.
LEMMA LiveIsLive ==
    ASSUME NEW r \in PromoRow, NEW moment \in Times
    PROVE  LiveWindowFilter(r, moment) <=> DeriveAdState(r, moment) = "LIVE"
<1>1. /\ r.startAt = NoTime \/ r.startAt \in Int
      /\ r.expiresAt = NoTime \/ r.expiresAt \in Int
      /\ r.isActive \in BOOLEAN /\ moment \in Int
  BY TimesAreNumbers DEF PromoRow
<1> QED
  BY <1>1 DEF LiveWindowFilter, DeriveAdState

\* The pre-selection misses no conflict.
LEMMA PreselectionIsComplete ==
    ASSUME NEW w, NEW r, WindowsOverlap(w, r)
    PROVE  OverlappingWindowFilter(w, r)
BY DEF WindowsOverlap, StartsBeforeEndOf, OverlappingWindowFilter, Windows

\* Two promotions that are live at one instant have windows that meet.
LEMMA LiveWindowsMeet ==
    ASSUME NEW q \in PromoRow, NEW r \in PromoRow, NEW moment \in Times,
           DeriveAdState(q, moment) = "LIVE", DeriveAdState(r, moment) = "LIVE"
    PROVE  WindowsOverlap(q, r)
<1>1. LiveWindowFilter(q, moment) /\ LiveWindowFilter(r, moment)
  BY LiveIsLive
<1>2. /\ q.startAt = NoTime \/ q.startAt \in Int
      /\ q.expiresAt = NoTime \/ q.expiresAt \in Int
      /\ r.startAt = NoTime \/ r.startAt \in Int
      /\ r.expiresAt = NoTime \/ r.expiresAt \in Int
      /\ moment \in Int
  BY TimesAreNumbers DEF PromoRow
<1>3. StartsBeforeEndOf(q, r)
  BY <1>1, <1>2 DEF LiveWindowFilter, StartsBeforeEndOf
<1>4. StartsBeforeEndOf(r, q)
  BY <1>1, <1>2 DEF LiveWindowFilter, StartsBeforeEndOf
<1> QED
  BY <1>3, <1>4 DEF WindowsOverlap
-----------------------------------------------------------------------------
(* Promotions: the steps                                                   *)

LEMMA ScheduleInvInit == ScheduleInit => ScheduleInv
<1> SUFFICES ASSUME ScheduleInit PROVE ScheduleInv
  OBVIOUS
<1> USE TimesAreNumbers
<1>0. \A a \in OldAds : OldProducts[a] \in ProductLists
  BY DEF ProductLists
<1>1. adRow \in [PromoAds -> PromoRow]
  <2>1. ASSUME NEW a \in PromoAds PROVE adRow[a] \in PromoRow
    BY <1>0 DEF ScheduleInit, PromoRow, AnnouncedStates, NoAdRow, ProductLists
  <2>2. adRow = [a \in PromoAds |-> adRow[a]]
    BY DEF ScheduleInit
  <2> QED
    BY <2>1, <2>2
<1>2. ScheduleTypeOK
  BY DEF ScheduleInit, ScheduleTypeOK, NoAdRow
<1>3. \A c \in AdEditors : adEdit[c] = NoEdit
  BY DEF ScheduleInit
<1>4. \A c \in AdEditors : EditFits(c)
  BY <1>3 DEF EditFits, NoEdit
<1>5. \A w \in AdWorkers : SweepFits(w)
  BY DEF ScheduleInit, NoSweep, SweepFits
<1>6. adEdit \in [AdEditors -> AdEditState]
  BY DEF ScheduleInit, NoEdit, AdEditState
<1>7. DOMAIN adSweep = AdWorkers
  BY DEF ScheduleInit
<1>8. ASSUME NEW a \in PromoAds, NEW b \in PromoAds PROVE Apart(a, b) \/ NeverCompared(a, b)
  <2>1. \A x \in PromoAds : adRow[x].exists => x \in OldAds /\ adRow[x].products = OldProducts[x]
    BY DEF ScheduleInit, NoAdRow
  <2> QED
    BY <2>1 DEF Apart, RowsApart, NeverCompared
<1>9. PromotionsApart
  BY <1>3, <1>8 DEF PromotionsApart, EditStandsApart, NoEdit
<1> QED
  BY <1>1, <1>2, <1>4, <1>5, <1>6, <1>7, <1>9 DEF ScheduleInv, ScheduleShape

\* Time, toggles, deletions and sweeps move no window.
LEMMA WindowsStay ==
    ASSUME ScheduleInv, UNCHANGED adEdit,
           \A a \in PromoAds : adRow'[a].exists =>
              /\ adRow[a].exists
              /\ adRow'[a].startAt = adRow[a].startAt
              /\ adRow'[a].expiresAt = adRow[a].expiresAt
              /\ adRow'[a].products = adRow[a].products
              /\ a \in adUnsure => a \in adUnsure'
    PROVE  PromotionsApart'
<1>1. /\ \A a, b \in PromoAds \ adUnsure : a # b => Apart(a, b) \/ NeverCompared(a, b)
      /\ \A c \in AdEditors : EditFits(c)
  BY DEF ScheduleInv, ScheduleShape, PromotionsApart
<1>2. ASSUME NEW a \in PromoAds \ adUnsure', NEW b \in PromoAds \ adUnsure', a # b
      PROVE  Apart(a, b)' \/ NeverCompared(a, b)
  <2> SUFFICES ASSUME adRow'[a].exists, adRow'[b].exists, ~NeverCompared(a, b)
               PROVE  RowsApart(adRow'[a], adRow'[b])
    BY DEF Apart
  <2>1. RowsApart(adRow[a], adRow[b])
    BY <1>1, <1>2 DEF Apart
  <2> QED
    BY <2>1, ApartIsOfWindows
<1>3. ASSUME NEW c \in AdEditors, ~adEdit[c].raced PROVE EditStandsApart(c)'
  <2> SUFFICES ASSUME adEdit[c].pc = "create" \/ (adEdit[c].pc # "idle" /\ adRow'[adEdit[c].ad].exists),
                      NEW b \in PromoAds \ {adEdit[c].ad}, adRow'[b].exists
               PROVE  RowsApart(EditedAd(c)', adRow'[b])
    BY DEF EditStandsApart
  <2>1. EditFits(c) /\ EditStandsApart(c)
    BY <1>1, <1>3 DEF ScheduleInv, PromotionsApart
  <2>2. /\ EditedAd(c)'.startAt = EditedAd(c).startAt
        /\ EditedAd(c)'.expiresAt = EditedAd(c).expiresAt
        /\ EditedAd(c)'.products = EditedAd(c).products
    BY <2>1 DEF EditFits, EditedAd, Patched
  <2>3. RowsApart(EditedAd(c), adRow[b])
    BY <2>1 DEF EditStandsApart, EditFits
  <2> QED
    BY <2>2, <2>3, ApartIsOfWindows
<1> QED
  BY <1>2, <1>3 DEF ScheduleInv, PromotionsApart, NeverCompared

\* An edit begins: its window met no other of its products, and if it runs alone, none
\* will move before it writes.
LEMMA EditBegins ==
    ASSUME ScheduleInv, NEW c \in AdEditors, NEW edit \in AdEditState,
           edit.pc \in {"create", "update"}, edit.ad \in PromoAds,
           edit.pc = "create" => edit.startAt # Keep /\ edit.expiresAt # Keep /\ edit.products # Keep,
           edit.raced = (OthersUnderWay(c) # {}),
           BeginEdit(c, edit),
           NEW window, NEW links,
           window.startAt = Patched(edit.startAt, adRow[edit.ad].startAt),
           window.expiresAt = Patched(edit.expiresAt, adRow[edit.ad].expiresAt),
           links = Patched(edit.products, adRow[edit.ad].products),
           WindowConflicts(edit.ad, window, links) = {}
    PROVE  ScheduleInv'
<1>1. ScheduleShape
  BY DEF ScheduleInv
<1>2. /\ adEdit[c].pc = "idle"
      /\ adEdit' = [d \in AdEditors |->
                      IF d = c THEN edit
                      ELSE [adEdit[d] EXCEPT !.raced = d \in OthersUnderWay(c)]]
      /\ UNCHANGED <<adClock, adRow, adUnsure, adSweep>>
  BY DEF BeginEdit, newsVars
<1>3. /\ adEdit'[c] = edit
      /\ \A d \in AdEditors \ {c} :
           adEdit'[d] = [adEdit[d] EXCEPT !.raced = d \in OthersUnderWay(c)]
  BY <1>2
<1>4. ASSUME NEW d \in AdEditors \ {c}
      PROVE  /\ adEdit'[d] \in AdEditState
             /\ adEdit'[d].pc = adEdit[d].pc /\ adEdit'[d].ad = adEdit[d].ad
             /\ adEdit'[d].startAt = adEdit[d].startAt /\ adEdit'[d].expiresAt = adEdit[d].expiresAt
             /\ adEdit'[d].products = adEdit[d].products
             /\ (adEdit'[d].raced <=> adEdit[d].pc # "idle")
  <2>1. adEdit[d] \in AdEditState
    BY <1>1 DEF ScheduleShape
  <2>2. CASE d \in OthersUnderWay(c)
    <3>1. adEdit'[d] = [adEdit[d] EXCEPT !.raced = TRUE] /\ adEdit[d].pc # "idle"
      BY <1>3, <2>2 DEF OthersUnderWay
    <3> QED
      BY <2>1, <3>1 DEF AdEditState
  <2>3. CASE d \notin OthersUnderWay(c)
    <3>1. (d \in OthersUnderWay(c)) = FALSE
      BY <2>3
    <3>2. adEdit'[d] = [adEdit[d] EXCEPT !.raced = FALSE]
      BY <1>3, <3>1, Zenon
    <3>3. adEdit[d].pc = "idle"
      BY <2>3 DEF OthersUnderWay
    <3> QED
      BY <2>1, <3>2, <3>3 DEF AdEditState
  <2> QED
    BY <2>2, <2>3
<1>5. adEdit' \in [AdEditors -> AdEditState]
  BY <1>2, <1>3, <1>4
<1>6. \A d \in AdEditors : EditFits(d)'
  <2>1. EditFits(c)'
    BY <1>3 DEF EditFits
  <2>2. ASSUME NEW d \in AdEditors \ {c} PROVE EditFits(d)'
    <3>1. EditFits(d)
      BY <1>1 DEF ScheduleShape
    <3> QED
      BY <1>4, <3>1 DEF EditFits
  <2> QED
    BY <2>1, <2>2
<1>7. ScheduleShape'
  BY <1>1, <1>2, <1>5, <1>6 DEF ScheduleShape, ScheduleTypeOK, SweepFits
<1>8. EditStandsApart(c)'
  <2> SUFFICES ASSUME NEW b \in PromoAds \ {edit.ad}, adRow[b].exists
               PROVE  RowsApart(EditedAd(c)', adRow[b])
    BY <1>2, <1>3 DEF EditStandsApart
  <2>1. /\ EditedAd(c)'.startAt = window.startAt /\ EditedAd(c)'.expiresAt = window.expiresAt
        /\ EditedAd(c)'.products = links
    BY <1>2, <1>3 DEF EditedAd
  <2>2. b \notin WindowConflicts(edit.ad, window, links)
    OBVIOUS
  <2>3. ScopesIntersect(links, adRow[b].products) => ~WindowsOverlap(window, adRow[b])
    BY <2>2, PreselectionIsComplete DEF WindowConflicts
  <2>4. WindowsOverlap(EditedAd(c)', adRow[b]) <=> WindowsOverlap(window, adRow[b])
    BY <2>1 DEF WindowsOverlap, StartsBeforeEndOf
  <2> QED
    BY <2>1, <2>3, <2>4 DEF RowsApart
<1>9. ASSUME NEW d \in AdEditors, ~adEdit'[d].raced
      PROVE  /\ EditStandsApart(d)'
             /\ adEdit'[d].pc # "idle" => \A x \in AdEditors \ {d} : adEdit'[x].pc = "idle"
  <2>1. CASE d = c
    <3>1. OthersUnderWay(c) = {}
      BY <1>3, <1>9, <2>1
    <3>2. \A x \in AdEditors \ {c} : adEdit[x].pc = "idle"
      BY <3>1 DEF OthersUnderWay
    <3> QED
      BY <1>4, <1>8, <2>1, <3>2
  <2>2. CASE d # c
    <3>1. adEdit'[d].pc = "idle"
      BY <1>4, <1>9, <2>2
    <3> QED
      BY <3>1 DEF EditStandsApart
  <2> QED
    BY <2>1, <2>2
<1>10. \A a, b \in PromoAds \ adUnsure' : a # b => Apart(a, b)' \/ NeverCompared(a, b)
  BY <1>2 DEF ScheduleInv, PromotionsApart, Apart
<1> QED
  BY <1>7, <1>9, <1>10 DEF ScheduleInv, PromotionsApart, NeverCompared

\* An edit under way writes a row: it ends, or goes on to the products.  Either its ad
\* is unsure afterwards, or the row it leaves stands apart from the others.
LEMMA EditWrites ==
    ASSUME ScheduleInv, NEW c \in AdEditors, NEW ad \in PromoAds, ad = adEdit[c].ad,
           adEdit[c].pc # "idle",
           NEW row \in PromoRow, row.exists, adRow' = [adRow EXCEPT ![ad] = row],
           NEW next \in AdEditState, adEdit' = [adEdit EXCEPT ![c] = next],
           next = NoEdit \/ (/\ next = [adEdit[c] EXCEPT !.pc = "replacing"]
                             /\ next.products # Keep /\ adRow[ad].exists
                             /\ row.startAt = EditedAd(c).startAt
                             /\ row.expiresAt = EditedAd(c).expiresAt),
           NEW unsure, adUnsure' = Marked(ad, unsure),
           ~unsure => \A b \in PromoAds \ ({ad} \cup adUnsure) :
                         adRow[b].exists => RowsApart(row, adRow[b]) \/ NeverCompared(ad, b),
           UNCHANGED <<adClock, adSweep>>
    PROVE  ScheduleInv'
<1>1. ScheduleShape
  BY DEF ScheduleInv
<1>2. /\ adRow'[ad] = row /\ \A b \in PromoAds \ {ad} : adRow'[b] = adRow[b]
      /\ adEdit'[c] = next /\ \A d \in AdEditors \ {c} : adEdit'[d] = adEdit[d]
  BY <1>1 DEF ScheduleShape
<1>3. adRow' \in [PromoAds -> PromoRow] /\ adEdit' \in [AdEditors -> AdEditState]
  BY <1>1 DEF ScheduleShape
<1>4. \A b \in PromoAds : b \in adUnsure' => b = ad \/ b \in adUnsure
  BY DEF Marked
<1>5. ScheduleTypeOK'
  BY <1>1, <1>2, <1>3, <1>4 DEF ScheduleShape, ScheduleTypeOK, PromoRow, AnnouncedStates
<1>6. EditFits(c)'
  BY <1>1, <1>2 DEF ScheduleShape, EditFits, NoEdit, AdEditState
<1>7. \A d \in AdEditors : EditFits(d)'
  BY <1>1, <1>2, <1>6 DEF ScheduleShape, EditFits
<1>8. ScheduleShape'
  BY <1>1, <1>3, <1>5, <1>7 DEF ScheduleShape, SweepFits
<1>9. ASSUME NEW b \in PromoAds \ {ad}, ad \notin adUnsure', b \notin adUnsure'
      PROVE  Apart(ad, b)' \/ NeverCompared(ad, b)
  <2>1. ~unsure /\ b \notin adUnsure
    BY <1>9 DEF Marked
  <2> QED
    BY <1>2, <2>1 DEF Apart
<1>10. ASSUME NEW a \in PromoAds \ adUnsure', NEW b \in PromoAds \ adUnsure', a # b
       PROVE  Apart(a, b)' \/ NeverCompared(a, b)
  <2>1. CASE a = ad
    BY <1>9, <1>10, <2>1
  <2>2. CASE b = ad
    <3>1. Apart(ad, a)' \/ NeverCompared(ad, a)
      BY <1>9, <1>10, <2>2
    <3>2. RowsApart(adRow'[ad], adRow'[a]) <=> RowsApart(adRow'[a], adRow'[ad])
      BY OverlapSymmetric
    <3> QED
      BY <2>2, <3>1, <3>2, OverlapSymmetric DEF Apart
  <2>3. CASE a # ad /\ b # ad
    <3>1. a \notin adUnsure /\ b \notin adUnsure
      BY <1>10, <2>3 DEF Marked
    <3> QED
      BY <1>2, <1>10, <2>3, <3>1 DEF ScheduleInv, PromotionsApart, Apart
  <2> QED
    BY <2>1, <2>2, <2>3
<1>11. ASSUME NEW d \in AdEditors \ {c}, ~adEdit'[d].raced PROVE adEdit'[d].pc = "idle"
  BY <1>2, <1>11 DEF ScheduleInv, PromotionsApart
<1>12. ASSUME ~adEdit'[c].raced
       PROVE  /\ EditStandsApart(c)'
              /\ adEdit'[c].pc # "idle" => \A x \in AdEditors \ {c} : adEdit'[x].pc = "idle"
  <2>1. CASE next = NoEdit
    BY <1>2, <2>1 DEF EditStandsApart, NoEdit
  <2>2. CASE next # NoEdit
    <3>1. /\ next = [adEdit[c] EXCEPT !.pc = "replacing"]
          /\ next.products # Keep /\ adRow[ad].exists
          /\ row.startAt = EditedAd(c).startAt /\ row.expiresAt = EditedAd(c).expiresAt
      BY <2>2
    <3>2. adEdit[c] \in AdEditState
      BY <1>1 DEF ScheduleShape
    <3>3. /\ next.ad = ad /\ next.startAt = adEdit[c].startAt /\ next.expiresAt = adEdit[c].expiresAt
          /\ next.products = adEdit[c].products /\ next.raced = adEdit[c].raced
      BY <3>1, <3>2 DEF AdEditState
    <3>4. EditStandsApart(c) /\ \A x \in AdEditors \ {c} : adEdit[x].pc = "idle"
      BY <1>2, <1>12, <3>3 DEF ScheduleInv, PromotionsApart
    <3>5. /\ EditedAd(c)'.startAt = EditedAd(c).startAt
          /\ EditedAd(c)'.expiresAt = EditedAd(c).expiresAt
          /\ EditedAd(c)'.products = EditedAd(c).products
      BY <1>2, <3>1, <3>3 DEF EditedAd, Patched
    <3>6. ASSUME NEW b \in PromoAds \ {ad}, adRow'[b].exists PROVE RowsApart(EditedAd(c)', adRow'[b])
      <4>1. RowsApart(EditedAd(c), adRow[b])
        BY <1>2, <3>1, <3>4, <3>6 DEF EditStandsApart
      <4> QED
        BY <1>2, <3>5, <3>6, <4>1, ApartIsOfWindows
    <3> QED
      BY <1>2, <3>3, <3>4, <3>6 DEF EditStandsApart
  <2> QED
    BY <2>1, <2>2
<1>13. \A d \in AdEditors \ {c} : ~adEdit'[d].raced => EditStandsApart(d)'
  BY <1>11 DEF EditStandsApart
<1> QED
  BY <1>8, <1>10, <1>11, <1>12, <1>13 DEF ScheduleInv, PromotionsApart, NeverCompared

\* What an edit that runs alone leaves stands apart from the other rows.
LEMMA AloneStandsApart ==
    ASSUME ScheduleInv, NEW c \in AdEditors, ~adEdit[c].raced,
           adEdit[c].pc = "create" \/ (adEdit[c].pc # "idle" /\ adRow[adEdit[c].ad].exists),
           NEW row, row.startAt = EditedAd(c).startAt, row.expiresAt = EditedAd(c).expiresAt,
           row.products = EditedAd(c).products,
           NEW b \in PromoAds \ {adEdit[c].ad}, adRow[b].exists
    PROVE  RowsApart(row, adRow[b])
<1>1. RowsApart(EditedAd(c), adRow[b])
  BY DEF ScheduleInv, PromotionsApart, EditStandsApart
<1> QED
  BY <1>1, ApartIsOfWindows

\* An edit that fails leaves what it has written.
LEMMA EditEnds ==
    ASSUME ScheduleInv, NEW c \in AdEditors, adEdit' = [adEdit EXCEPT ![c] = NoEdit],
           UNCHANGED <<adClock, adRow, adUnsure, adSweep>>
    PROVE  ScheduleInv'
<1>1. ScheduleShape
  BY DEF ScheduleInv
<1>2. adEdit'[c] = NoEdit /\ \A d \in AdEditors \ {c} : adEdit'[d] = adEdit[d]
  BY <1>1 DEF ScheduleShape
<1>3. NoEdit \in AdEditState
  BY DEF NoEdit, AdEditState
<1>4. \A d \in AdEditors : EditFits(d)'
  BY <1>1, <1>2 DEF ScheduleShape, EditFits, NoEdit
<1>5. ScheduleShape'
  BY <1>1, <1>3, <1>4 DEF ScheduleShape, ScheduleTypeOK, SweepFits
<1>6. ASSUME NEW d \in AdEditors, ~adEdit'[d].raced
      PROVE  /\ EditStandsApart(d)'
             /\ adEdit'[d].pc # "idle" => \A x \in AdEditors \ {d} : adEdit'[x].pc = "idle"
  <2>1. CASE d = c
    BY <1>2, <2>1 DEF EditStandsApart, NoEdit
  <2>2. CASE d # c
    <3>1. adEdit'[d] = adEdit[d] /\ EditStandsApart(d)
      BY <1>2, <1>6, <2>2 DEF ScheduleInv, PromotionsApart
    <3>2. EditStandsApart(d)'
      BY <3>1 DEF EditStandsApart, EditedAd
    <3> QED
      BY <1>2, <1>6, <2>2, <3>1, <3>2 DEF ScheduleInv, PromotionsApart, NoEdit
  <2> QED
    BY <2>1, <2>2
<1>7. \A a, b \in PromoAds \ adUnsure' : a # b => Apart(a, b)' \/ NeverCompared(a, b)
  BY DEF ScheduleInv, PromotionsApart, Apart
<1> QED
  BY <1>5, <1>6, <1>7 DEF ScheduleInv, PromotionsApart, NeverCompared

\* A sweep that moves between its steps.
LEMMA SweepMoves ==
    ASSUME ScheduleInv, NEW w \in AdWorkers, NEW list, adSweep' = [adSweep EXCEPT ![w] = list],
           DOMAIN list.todo \subseteq PromoAds,
           \A a \in DOMAIN list.todo : list.todo[a] \in AnnouncedStates,
           list.published # NoTime => list.published \in DOMAIN list.todo
    PROVE  DOMAIN adSweep' = AdWorkers /\ \A x \in AdWorkers : SweepFits(x)'
BY DEF ScheduleInv, ScheduleShape, SweepFits

\* Each operation of the seller and each step of the job keeps the invariant.
LEMMA ScheduleInvStep == ScheduleInv /\ [ScheduleNext]_scheduleVars => ScheduleInv'
<1> SUFFICES ASSUME ScheduleInv, [ScheduleNext]_scheduleVars PROVE ScheduleInv'
  OBVIOUS
<1> USE TimesAreNumbers
<1>a. ScheduleShape
  BY DEF ScheduleInv
<1>1. CASE UNCHANGED scheduleVars
  <2>1. ScheduleShape'
    BY <1>a, <1>1 DEF scheduleVars, editVars, newsVars, ScheduleShape, ScheduleTypeOK, EditFits, SweepFits
  <2> QED
    BY <1>1, <2>1, WindowsStay DEF scheduleVars, editVars, ScheduleInv
<1>2. CASE TimePasses
  <2>1. ScheduleShape'
    BY <1>a, <1>2 DEF TimePasses, editVars, newsVars, ScheduleShape, ScheduleTypeOK, EditFits, SweepFits, Times
  <2> QED
    BY <1>2, <2>1, WindowsStay DEF TimePasses, editVars, ScheduleInv
<1>3. ASSUME NEW c \in AdEditors, NEW ad \in PromoAds, NEW window \in NewWindows,
             NEW products \in NewProducts, AdCreateCheck(c, ad, window, products)
      PROVE  ScheduleInv'
  <2>1. window.startAt \in Times \cup {NoTime} /\ window.expiresAt \in Times \cup {NoTime}
    BY ScheduleConstants DEF Times
  <2>2. PICK edit : edit = [pc |-> "create", ad |-> ad, startAt |-> window.startAt,
                            expiresAt |-> window.expiresAt, products |-> products,
                            raced |-> OthersUnderWay(c) # {}]
    OBVIOUS
  <2>3. edit \in AdEditState /\ edit.raced = (OthersUnderWay(c) # {})
    BY <2>1, <2>2 DEF AdEditState
  <2>4. /\ edit.pc = "create" /\ edit.ad = ad /\ edit.startAt = window.startAt
        /\ edit.expiresAt = window.expiresAt /\ edit.products = products
        /\ edit.startAt # Keep /\ edit.expiresAt # Keep /\ edit.products # Keep
    BY <2>1, <2>2
  <2>5. /\ window.startAt = Patched(edit.startAt, adRow[edit.ad].startAt)
        /\ window.expiresAt = Patched(edit.expiresAt, adRow[edit.ad].expiresAt)
        /\ products = Patched(edit.products, adRow[edit.ad].products)
    BY <2>4 DEF Patched
  <2>6. WindowConflicts(edit.ad, window, products) = {} /\ BeginEdit(c, edit)
    BY <1>3, <2>2, <2>4 DEF AdCreateCheck
  <2> QED
    BY <2>3, <2>4, <2>5, <2>6, EditBegins
<1>4. ASSUME NEW c \in AdEditors, NEW ad \in PromoAds, NEW s \in StartPatches,
             NEW e \in EndPatches, NEW products \in NewProducts \cup {Keep},
             AdUpdateCheck(c, ad, s, e, products)
      PROVE  ScheduleInv'
  <2>1. s \in Times \cup {NoTime, Keep} /\ e \in Times \cup {NoTime, Keep}
    BY ScheduleConstants DEF Times
  <2>2. PICK edit : edit = [pc |-> "update", ad |-> ad, startAt |-> s, expiresAt |-> e,
                            products |-> products, raced |-> OthersUnderWay(c) # {}]
    OBVIOUS
  <2>3. edit \in AdEditState /\ edit.raced = (OthersUnderWay(c) # {})
    BY <2>1, <2>2 DEF AdEditState
  <2>4. /\ edit.pc = "update" /\ edit.ad = ad /\ edit.startAt = s
        /\ edit.expiresAt = e /\ edit.products = products
    BY <2>2
  <2>5. PICK window : window = PatchedWindow(adRow[ad], s, e)
    OBVIOUS
  <2>6. PICK links : links = Patched(products, adRow[ad].products)
    OBVIOUS
  <2>7. /\ window.startAt = Patched(edit.startAt, adRow[edit.ad].startAt)
        /\ window.expiresAt = Patched(edit.expiresAt, adRow[edit.ad].expiresAt)
        /\ links = Patched(edit.products, adRow[edit.ad].products)
    BY <2>4, <2>5, <2>6 DEF PatchedWindow
  <2>8. WindowConflicts(edit.ad, window, links) = {} /\ BeginEdit(c, edit)
    BY <1>4, <2>2, <2>4, <2>5, <2>6 DEF AdUpdateCheck
  <2>9. edit.pc \in {"create", "update"} /\ edit.pc # "create" /\ edit.ad \in PromoAds
    BY <2>4
  <2> QED
    BY <2>3, <2>7, <2>8, <2>9, EditBegins
<1>5. ASSUME NEW c \in AdEditors, AdCreateWrite(c) PROVE ScheduleInv'
  <2>1. EditFits(c) /\ adEdit[c].pc = "create" /\ adEdit[c] \in AdEditState
    BY <1>a, <1>5 DEF AdCreateWrite, ScheduleShape
  <2>2. PICK ad \in PromoAds : ad = adEdit[c].ad
    BY <2>1 DEF EditFits
  <2>3. PICK row : row = [exists |-> TRUE, startAt |-> adEdit[c].startAt,
                          expiresAt |-> adEdit[c].expiresAt, products |-> adEdit[c].products,
                          isActive |-> TRUE, notified |-> "NULL"]
    OBVIOUS
  <2>4. row \in PromoRow /\ row.exists
    BY <2>1, <2>3 DEF EditFits, AdEditState, PromoRow, AnnouncedStates, ProductLists
  <2>5. /\ row.startAt = EditedAd(c).startAt /\ row.expiresAt = EditedAd(c).expiresAt
        /\ row.products = EditedAd(c).products
    BY <2>1, <2>3 DEF EditFits, EditedAd, Patched
  <2>6. PICK unsure : unsure = adEdit[c].raced
    OBVIOUS
  <2>7. /\ adRow' = [adRow EXCEPT ![ad] = row] /\ adEdit' = [adEdit EXCEPT ![c] = NoEdit]
        /\ adUnsure' = Marked(ad, unsure) /\ UNCHANGED <<adClock, adSweep>>
    BY <1>5, <2>2, <2>3, <2>6 DEF AdCreateWrite, newsVars
  <2>8. ASSUME ~unsure, NEW b \in PromoAds \ {ad}, adRow[b].exists PROVE RowsApart(row, adRow[b])
    BY <2>1, <2>2, <2>5, <2>6, <2>8, AloneStandsApart
  <2>9. NoEdit \in AdEditState /\ adEdit[c].pc # "idle"
    BY <2>1 DEF NoEdit, AdEditState
  <2> QED
    BY <2>2, <2>4, <2>7, <2>8, <2>9, EditWrites
<1>6. ASSUME NEW c \in AdEditors, AdUpdateWrite(c) PROVE ScheduleInv'
  <2>1. EditFits(c) /\ adEdit[c].pc = "update" /\ adEdit[c] \in AdEditState
    BY <1>a, <1>6 DEF AdUpdateWrite, ScheduleShape
  <2>2. PICK ad \in PromoAds : ad = adEdit[c].ad
    BY <2>1 DEF EditFits
  <2>3. adRow[ad] \in PromoRow /\ adRow[ad].exists
    BY <1>a, <1>6, <2>2 DEF ScheduleShape, AdUpdateWrite
  <2>4. PICK s : s = Patched(adEdit[c].startAt, adRow[ad].startAt)
    OBVIOUS
  <2>5. PICK e : e = Patched(adEdit[c].expiresAt, adRow[ad].expiresAt)
    OBVIOUS
  <2>6. s \in Times \cup {NoTime} /\ e \in Times \cup {NoTime}
    BY <2>1, <2>3, <2>4, <2>5 DEF AdEditState, Patched, PromoRow
  <2>7. PICK row : row = [adRow[ad] EXCEPT !.startAt = s, !.expiresAt = e]
    OBVIOUS
  <2>8. /\ row \in PromoRow /\ row.exists /\ row.startAt = s /\ row.expiresAt = e
        /\ row.products = adRow[ad].products
    BY <2>3, <2>6, <2>7 DEF PromoRow
  <2>9. row.startAt = EditedAd(c).startAt /\ row.expiresAt = EditedAd(c).expiresAt
    BY <2>1, <2>2, <2>4, <2>5, <2>8 DEF EditedAd
  <2>10. PICK next : next = IF adEdit[c].products = Keep THEN NoEdit
                            ELSE [adEdit[c] EXCEPT !.pc = "replacing"]
    OBVIOUS
  <2>11. PICK moved : moved = (PatchedWindow(adRow[ad], adEdit[c].startAt, adEdit[c].expiresAt)
                                 # PatchedWindow(adRow[ad], Keep, Keep))
    OBVIOUS
  <2>12. PICK unsure : unsure = (\/ adEdit[c].raced
                                 \/ adEdit[c].products # Keep /\ (moved \/ ad \in adUnsure))
    OBVIOUS
  <2>13. adRow' = [adRow EXCEPT ![ad] = row]
    <3>1. PatchedWindow(adRow[ad], adEdit[c].startAt, adEdit[c].expiresAt)
            = [startAt |-> s, expiresAt |-> e]
      BY <2>4, <2>5 DEF PatchedWindow
    <3> QED
      BY <1>6, <2>2, <2>7, <3>1 DEF AdUpdateWrite
  <2>14. /\ adEdit' = [adEdit EXCEPT ![c] = next]
         /\ adUnsure' = Marked(ad, unsure) /\ UNCHANGED <<adClock, adSweep>>
    BY <1>6, <2>2, <2>10, <2>11, <2>12 DEF AdUpdateWrite, newsVars
  <2>15. next \in AdEditState
    BY <2>1, <2>10 DEF NoEdit, AdEditState
  <2>16. next = NoEdit \/ (/\ next = [adEdit[c] EXCEPT !.pc = "replacing"]
                           /\ next.products # Keep /\ adRow[ad].exists)
    BY <2>1, <2>3, <2>10 DEF AdEditState
  <2>17. ASSUME ~unsure, NEW b \in PromoAds \ ({ad} \cup adUnsure), adRow[b].exists
         PROVE  RowsApart(row, adRow[b]) \/ NeverCompared(ad, b)
    <3>1. ~adEdit[c].raced
      BY <2>12, <2>17
    <3>2. CASE adEdit[c].products = Keep
      <4>1. row.products = EditedAd(c).products
        BY <2>2, <2>8, <3>2 DEF EditedAd, Patched
      <4> QED
        BY <2>1, <2>2, <2>3, <2>9, <2>17, <3>1, <4>1, AloneStandsApart
    <3>3. CASE adEdit[c].products # Keep
      <4>1. ad \notin adUnsure /\ ~moved
        BY <2>12, <2>17, <3>3
      <4>2. [startAt |-> s, expiresAt |-> e]
              = [startAt |-> adRow[ad].startAt, expiresAt |-> adRow[ad].expiresAt]
        BY <2>4, <2>5, <2>11, <4>1 DEF PatchedWindow, Patched
      <4>3. s = adRow[ad].startAt /\ e = adRow[ad].expiresAt
        BY <4>2
      <4>4. Apart(ad, b) \/ NeverCompared(ad, b)
        BY <2>17, <4>1 DEF ScheduleInv, PromotionsApart
      <4>5. RowsApart(adRow[ad], adRow[b]) => RowsApart(row, adRow[b])
        BY <2>8, <4>3, ApartIsOfWindows
      <4> QED
        BY <2>3, <2>17, <4>4, <4>5 DEF Apart
    <3> QED
      BY <3>2, <3>3
  <2>18. adEdit[c].pc # "idle"
    BY <2>1
  <2> QED
    BY <2>2, <2>8, <2>9, <2>13, <2>14, <2>15, <2>16, <2>17, <2>18, EditWrites
<1>6a. ASSUME NEW c \in AdEditors, ReplaceAdProducts(c) PROVE ScheduleInv'
  <2>1. EditFits(c) /\ adEdit[c].pc = "replacing" /\ adEdit[c] \in AdEditState
    BY <1>a, <1>6a DEF ReplaceAdProducts, ScheduleShape
  <2>2. PICK ad \in PromoAds : ad = adEdit[c].ad
    BY <2>1 DEF EditFits
  <2>3. adRow[ad] \in PromoRow /\ adRow[ad].exists
    BY <1>a, <1>6a, <2>2 DEF ScheduleShape, ReplaceAdProducts
  <2>4. PICK row : row = [adRow[ad] EXCEPT !.products = adEdit[c].products]
    OBVIOUS
  <2>5. /\ row \in PromoRow /\ row.exists /\ row.startAt = adRow[ad].startAt
        /\ row.expiresAt = adRow[ad].expiresAt /\ row.products = adEdit[c].products
    BY <2>1, <2>3, <2>4 DEF PromoRow, AdEditState, EditFits, ProductLists
  <2>6. PICK unsure : unsure = adEdit[c].raced
    OBVIOUS
  <2>7. /\ adRow' = [adRow EXCEPT ![ad] = row] /\ adEdit' = [adEdit EXCEPT ![c] = NoEdit]
        /\ adUnsure' = Marked(ad, unsure) /\ UNCHANGED <<adClock, adSweep>>
    BY <1>6a, <2>2, <2>4, <2>6 DEF ReplaceAdProducts, newsVars
  <2>8. ASSUME ~unsure, NEW b \in PromoAds \ {ad}, adRow[b].exists PROVE RowsApart(row, adRow[b])
    <3>1. /\ row.startAt = EditedAd(c).startAt /\ row.expiresAt = EditedAd(c).expiresAt
          /\ row.products = EditedAd(c).products
      BY <2>1, <2>2, <2>5 DEF EditedAd, EditFits, Patched
    <3> QED
      BY <2>1, <2>2, <2>3, <2>6, <2>8, <3>1, AloneStandsApart
  <2>9. NoEdit \in AdEditState /\ adEdit[c].pc # "idle"
    BY <2>1 DEF NoEdit, AdEditState
  <2> QED
    BY <2>2, <2>5, <2>7, <2>8, <2>9, EditWrites
<1>6b. ASSUME NEW c \in AdEditors, EditFails(c) PROVE ScheduleInv'
  <2>1. /\ adEdit' = [adEdit EXCEPT ![c] = NoEdit]
        /\ UNCHANGED <<adClock, adRow, adUnsure, adSweep>>
    BY <1>6b DEF EditFails, newsVars
  <2> QED
    BY <2>1, EditEnds
<1>7. ASSUME NEW ad \in PromoAds, NEW active \in BOOLEAN, ToggleAd(ad, active) PROVE ScheduleInv'
  <2>1. /\ adRow[ad].exists /\ adRow' = [adRow EXCEPT ![ad].isActive = active]
        /\ UNCHANGED <<adClock, adEdit, adUnsure, adSweep>>
    BY <1>7 DEF ToggleAd, editVars, newsVars
  <2>2. /\ adRow' \in [PromoAds -> PromoRow]
        /\ \A a \in PromoAds : /\ adRow'[a].exists = adRow[a].exists
                               /\ adRow'[a].startAt = adRow[a].startAt
                               /\ adRow'[a].expiresAt = adRow[a].expiresAt
                               /\ adRow'[a].products = adRow[a].products
                               /\ ~adRow[a].exists => adRow'[a] = adRow[a]
    BY <1>a, <2>1 DEF ScheduleShape, PromoRow
  <2>3. ScheduleShape'
    BY <1>a, <2>1, <2>2 DEF ScheduleShape, ScheduleTypeOK, EditFits, SweepFits, PromoRow, AnnouncedStates
  <2> QED
    BY <2>1, <2>2, <2>3, WindowsStay DEF ScheduleInv
<1>8. ASSUME NEW ad \in PromoAds, DeleteAd(ad) PROVE ScheduleInv'
  <2>1. /\ adRow' = [adRow EXCEPT ![ad] = NoAdRow]
        /\ adUnsure' = adUnsure \ {ad} /\ UNCHANGED <<adClock, adEdit, adSweep>>
    BY <1>8 DEF DeleteAd, newsVars
  <2>2. adRow' \in [PromoAds -> PromoRow] /\ adRow'[ad] = NoAdRow
        /\ \A a \in PromoAds \ {ad} : adRow'[a] = adRow[a]
    BY <1>a, <2>1 DEF ScheduleShape, PromoRow, NoAdRow, AnnouncedStates, ProductLists
  <2>3. ScheduleShape'
    BY <1>a, <2>1, <2>2 DEF ScheduleShape, ScheduleTypeOK, EditFits, SweepFits, PromoRow, AnnouncedStates
  <2>4. \A a \in PromoAds : adRow'[a].exists => a # ad
    BY <2>2 DEF NoAdRow
  <2> QED
    BY <2>1, <2>2, <2>3, <2>4, WindowsStay DEF ScheduleInv
<1>9. ASSUME NEW w \in AdWorkers, SweepAds(w) PROVE ScheduleInv'
  <2>1. PICK listed : /\ listed \subseteq PromoAds
                      /\ adSweep[w] = NoSweep
                      /\ adSweep' = [adSweep EXCEPT ![w].todo =
                                        [a \in listed |-> DeriveAdState(adRow[a], adClock)]]
                      /\ UNCHANGED <<adClock, adRow, adEdit, adUnsure>>
    BY <1>9 DEF SweepAds, editVars
  <2>2. PICK list : list = [todo |-> [a \in listed |-> DeriveAdState(adRow[a], adClock)],
                              published |-> NoTime]
    OBVIOUS
  <2>3. adSweep' = [adSweep EXCEPT ![w] = list]
    <3>1. [adSweep[w] EXCEPT !.todo = [a \in listed |-> DeriveAdState(adRow[a], adClock)]] = list
      BY <2>1, <2>2 DEF NoSweep
    <3> QED
      BY <2>1, <3>1
  <2>4. \A a \in listed : DeriveAdState(adRow[a], adClock) \in AnnouncedStates
    BY DEF DeriveAdState, AnnouncedStates
  <2>5. DOMAIN adSweep' = AdWorkers /\ \A x \in AdWorkers : SweepFits(x)'
    BY <2>1, <2>2, <2>3, <2>4, SweepMoves
  <2>6. ScheduleShape'
    BY <1>a, <2>1, <2>5 DEF ScheduleShape, ScheduleTypeOK, EditFits
  <2> QED
    BY <2>1, <2>6, WindowsStay DEF ScheduleInv
<1>10. ASSUME NEW w \in AdWorkers, NEW ad \in PromoAds, PublishTransition(w, ad) PROVE ScheduleInv'
  <2>1. /\ ad \in DOMAIN adSweep[w].todo
        /\ adSweep' = [adSweep EXCEPT ![w].published = ad]
        /\ UNCHANGED <<adClock, adRow, adEdit, adUnsure>>
    BY <1>10 DEF PublishTransition, editVars
  <2>2. PICK list : list = [adSweep[w] EXCEPT !.published = ad]
    OBVIOUS
  <2>3. adSweep' = [adSweep EXCEPT ![w] = list]
    BY <2>1, <2>2
  <2>4. SweepFits(w) /\ w \in DOMAIN adSweep
    BY <1>a DEF ScheduleShape
  <2>5. list.todo = adSweep[w].todo /\ (list.published # NoTime => list.published \in DOMAIN list.todo)
    BY <2>1, <2>2, <2>4 DEF SweepFits
  <2>6. DOMAIN adSweep' = AdWorkers /\ \A x \in AdWorkers : SweepFits(x)'
    BY <2>3, <2>4, <2>5, SweepMoves DEF SweepFits
  <2>7. ScheduleShape'
    BY <1>a, <2>1, <2>6 DEF ScheduleShape, ScheduleTypeOK, EditFits
  <2> QED
    BY <2>1, <2>7, WindowsStay DEF ScheduleInv
<1>11. ASSUME NEW w \in AdWorkers, MarkNotified(w) PROVE ScheduleInv'
  <2>1. PICK ad : ad = adSweep[w].published
    OBVIOUS
  <2>2. SweepFits(w)
    BY <1>a DEF ScheduleShape
  <2>3. ad # NoTime /\ ad \in DOMAIN adSweep[w].todo /\ ad \in PromoAds
    BY <1>11, <2>1, <2>2 DEF MarkNotified, SweepFits
  <2>4. PICK state \in AnnouncedStates : state = adSweep[w].todo[ad]
    BY <2>2, <2>3 DEF SweepFits
  <2>5. /\ adRow' = IF adRow[ad].exists THEN [adRow EXCEPT ![ad].notified = state] ELSE adRow
        /\ UNCHANGED <<adClock, adEdit, adUnsure>>
    BY <1>11, <2>1, <2>4 DEF MarkNotified, editVars
  <2>6. PICK rest : rest = [a \in DOMAIN adSweep[w].todo \ {ad} |-> adSweep[w].todo[a]]
    OBVIOUS
  <2>7. PICK list : list = [todo |-> IF adRow[ad].exists THEN rest ELSE NoSweep.todo,
                              published |-> NoTime]
    OBVIOUS
  <2>8. adSweep' = [adSweep EXCEPT ![w] = list]
    BY <1>11, <2>1, <2>6, <2>7 DEF MarkNotified
  <2>9. /\ DOMAIN list.todo \subseteq PromoAds
        /\ \A a \in DOMAIN list.todo : list.todo[a] \in AnnouncedStates
        /\ list.published = NoTime
    BY <2>2, <2>6, <2>7 DEF NoSweep, SweepFits
  <2>10. DOMAIN adSweep' = AdWorkers /\ \A x \in AdWorkers : SweepFits(x)'
    BY <2>8, <2>9, SweepMoves
  <2>11. /\ adRow' \in [PromoAds -> PromoRow]
         /\ \A a \in PromoAds : /\ adRow'[a].exists = adRow[a].exists
                                /\ adRow'[a].startAt = adRow[a].startAt
                                /\ adRow'[a].expiresAt = adRow[a].expiresAt
                                /\ adRow'[a].products = adRow[a].products
                                /\ ~adRow[a].exists => adRow'[a] = adRow[a]
    BY <1>a, <2>3, <2>5 DEF ScheduleShape, PromoRow
  <2>12. ScheduleShape'
    BY <1>a, <2>5, <2>10, <2>11 DEF ScheduleShape, ScheduleTypeOK, EditFits, PromoRow, AnnouncedStates
  <2> QED
    BY <2>5, <2>11, <2>12, WindowsStay DEF ScheduleInv
<1>12. ASSUME NEW w \in AdWorkers, SweepDies(w) PROVE ScheduleInv'
  <2>1. /\ adSweep' = [adSweep EXCEPT ![w] = NoSweep]
        /\ UNCHANGED <<adClock, adRow, adEdit, adUnsure>>
    BY <1>12 DEF SweepDies, editVars
  <2>2. DOMAIN adSweep' = AdWorkers /\ \A x \in AdWorkers : SweepFits(x)'
    BY <2>1, SweepMoves DEF NoSweep
  <2>3. ScheduleShape'
    BY <1>a, <2>1, <2>2 DEF ScheduleShape, ScheduleTypeOK, EditFits
  <2> QED
    BY <2>1, <2>3, WindowsStay DEF ScheduleInv
<1> QED
  BY <1>1, <1>2, <1>3, <1>4, <1>5, <1>6, <1>6a, <1>6b, <1>7, <1>8, <1>9, <1>10, <1>11, <1>12 DEF ScheduleNext, ScheduleStep

\* What the two columns of a row say is what everyone is told of it.
LEMMA FiltersAgree == ScheduleInv => ScheduleTypeOK /\ WindowFiltersAgree
<1> SUFFICES ASSUME ScheduleInv PROVE ScheduleTypeOK /\ WindowFiltersAgree
  OBVIOUS
<1>1. ScheduleTypeOK /\ adRow \in [PromoAds -> PromoRow] /\ adClock \in Times
  BY DEF ScheduleInv, ScheduleShape, ScheduleTypeOK
<1> QED
  BY <1>1, LiveIsLive, PreselectionIsComplete DEF WindowFiltersAgree

\* Two promotions of one product that are live at one instant are both older than the
\* checks, or one is unsure.
LEMMA CompetitorsAreOld ==
    ASSUME ScheduleInv, NEW a \in PromoAds \ adUnsure, NEW b \in PromoAds \ adUnsure, Compete(a, b)
    PROVE  NeverCompared(a, b)
<1>1. adRow[a] \in PromoRow /\ adRow[b] \in PromoRow /\ adClock \in Times
  BY DEF ScheduleInv, ScheduleShape, ScheduleTypeOK
<1>2. WindowsOverlap(adRow[a], adRow[b])
  BY <1>1, LiveWindowsMeet DEF Compete, AdStateNow
<1> QED
  BY <1>2 DEF ScheduleInv, PromotionsApart, Apart, RowsApart, Compete

LEMMA NewAdsDoNotCompete ==
    ASSUME ScheduleInv, NEW a \in PromoAds \ (OldAds \cup adUnsure), NEW b \in PromoAds \ adUnsure
    PROVE  ~Compete(a, b)
BY CompetitorsAreOld DEF NeverCompared

LEMMA NoAdsCompete ==
    ASSUME \A a, b \in OldAds : a # b => ~ScopesIntersect(OldProducts[a], OldProducts[b])
    PROVE  ScheduleInv => PromotionsAreSound
<1>1. ASSUME ScheduleInv, NEW a \in PromoAds \ adUnsure, NEW b \in PromoAds \ adUnsure
      PROVE  ~Compete(a, b)
  BY <1>1, CompetitorsAreOld DEF NeverCompared, Compete
<1> QED
  BY <1>1, FiltersAgree DEF PromotionsAreSound, PromotionsDoNotCompete

-----------------------------------------------------------------------------
(* Promotions: theorems                                                    *)

\* A promotion created under the checks of merchantAds is never live together with
\* another of the same product, however the two are moved to other windows and other
\* products, paused and resumed; excepted are ads last written by requests that were
\* checked at once and ads whose update stopped between its two writes.  And the filter of
\* the live query, the derived state and the pre-selection of conflicts agree.
THEOREM NewPromotionsDoNotCompete ==
    ScheduleSpec => []( /\ ScheduleTypeOK /\ WindowFiltersAgree
                        /\ \A a \in PromoAds \ (OldAds \cup adUnsure), b \in PromoAds \ adUnsure :
                              ~Compete(a, b))
<1> DEFINE P == /\ ScheduleTypeOK /\ WindowFiltersAgree
                /\ \A a \in PromoAds \ (OldAds \cup adUnsure), b \in PromoAds \ adUnsure :
                      ~Compete(a, b)
<1>1. ScheduleInv => P
  BY FiltersAgree, NewAdsDoNotCompete
<1> HIDE DEF P
<1>2. ScheduleSpec => []P
  BY <1>1, ScheduleInvInit, ScheduleInvStep, PTL DEF ScheduleSpec
<1> QED
  BY <1>2 DEF P

\* No two promotions compete at all, with the same exceptions, if those older than the
\* checks, which nobody compared, were of different products.
THEOREM PromotionsSound ==
    ASSUME \A a, b \in OldAds : a # b => ~ScopesIntersect(OldProducts[a], OldProducts[b])
    PROVE  ScheduleSpec => []PromotionsAreSound
<1>1. ScheduleInv => PromotionsAreSound
  BY NoAdsCompete
<1> QED
  BY <1>1, ScheduleInvInit, ScheduleInvStep, PTL DEF ScheduleSpec
-----------------------------------------------------------------------------
(* The jobs and events together                                            *)

LEMMA JobsSteps ==
    [JobsNext]_jobsVars =>
       /\ [AgentNext]_agentVars /\ [BillingNext]_billingVars /\ [ScheduleNext]_scheduleVars
       /\ [BusNext]_busVars /\ [RankingNext]_rankingVars
       /\ [FleetNext]_fleetVars /\ [ShopNext]_shopVars
<1>1. BusStep(Mails) => BusNext
  BY BusConstants DEF BusStep, BusNext
<1>2. BusStep(Messages \ Mails) => BusNext
  BY DEF BusStep, BusNext
<1>3. FleetStep({p1}, FleetAdmins) => FleetNext
  BY JobsConstants DEF FleetStep, FleetNext
<1>4. FleetStep(Pings, {}) => FleetNext
  BY DEF FleetStep, FleetNext
<1>5. ShopStep({d1}, ShopEdits) => ShopNext
  BY JobsConstants DEF ShopStep, ShopNext
<1>6. ShopStep(Decisions, {}) => ShopNext
  BY DEF ShopStep, ShopNext
<1>7. ScheduleStep(AdEditors, {}, PromoAds) => ScheduleNext
  BY DEF ScheduleStep, ScheduleNext
<1>8. ScheduleStep({u1}, AdWorkers, OldAds) => ScheduleNext
  BY JobsConstants, ScheduleConstants DEF ScheduleStep, ScheduleNext
<1> QED
  BY <1>1, <1>2, <1>3, <1>4, <1>5, <1>6, <1>7, <1>8 DEF JobsNext, jobsVars

LEMMA JobsInits ==
    JobsInit => /\ AgentInit /\ BillingInit /\ ScheduleInit /\ BusInit /\ RankingInit
                /\ FleetInit /\ ShopInit
BY DEF JobsInit

\* In the composition of all that jobs, sweeps and workers finish, the money they move
\* adds up.
THEOREM JobsMoneyAddsUp == JobsSpec => []MoneyAddsUp
<1>1. AgentInv => CommissionsAreSafe
  BY DEF AgentInv, AgentShape, CommissionsAreSafe
<1>2. JobsSpec => []AgentInv
  BY AgentInvInit, AgentInvStep, JobsSteps, JobsInits, PTL DEF JobsSpec
<1>3. JobsSpec => []BillingInv
  BY BillingInvInit, BillingInvStep, JobsSteps, JobsInits, PTL DEF JobsSpec
<1> QED
  BY <1>1, <1>2, <1>3, SpendAccounted, PTL DEF MoneyAddsUp

\* In that composition the balances of agents and sellers both implement Account.
THEOREM JobsImplementAccounts == JobsSpec => AccountsAreImplemented
<1>1. JobsSpec => []AgentInv
  BY AgentInvInit, AgentInvStep, JobsSteps, JobsInits, PTL DEF JobsSpec
<1>2. JobsSpec => []BillingInv
  BY BillingInvInit, BillingInvStep, JobsSteps, JobsInits, PTL DEF JobsSpec
<1>3. JobsSpec => AgentImplementsAccount
  BY <1>1, AgentAccountInit, AgentStepIsAccountStep, JobsSteps, JobsInits, PTL
     DEF JobsSpec, AgentImplementsAccount, AgentAccountOf!AccountSpec
<1>4. JobsSpec => WalletImplementsAccount
  BY <1>2, WalletAccountInit, BillingStepIsAccountStep, JobsSteps, JobsInits, PTL
     DEF JobsSpec, WalletImplementsAccount, WalletAccount!AccountSpec
<1> QED
  BY <1>3, <1>4, PTL DEF AccountsAreImplemented

\* In that composition, where edits race edits and one edit races the job, promotions do
\* not compete, if those older than the checks were of different products.
THEOREM JobsKeepPromotionsApart ==
    ASSUME \A a, b \in OldAds : a # b => ~ScopesIntersect(OldProducts[a], OldProducts[b])
    PROVE  JobsSpec => []PromotionsAreSound
<1>1. ScheduleInv => PromotionsAreSound
  BY NoAdsCompete
<1> QED
  BY <1>1, ScheduleInvInit, ScheduleInvStep, JobsSteps, JobsInits, PTL DEF JobsSpec

\* In that composition, where mails and facts are told apart, events are delivered safely.
THEOREM JobsDeliverSafely == JobsSpec => []DeliveryIsSafe
<1> QED
  BY BusInvInit, BusInvSafe, BusInvStep, JobsSteps, JobsInits, PTL DEF JobsSpec

\* In that composition rollups and rankings count what happened.
THEOREM JobsKeepRankings == JobsSpec => []RankingsAreTrue
<1> QED
  BY RankingInvInit, RankingInvStep, RankingInvSafe, JobsSteps, JobsInits, PTL DEF JobsSpec

\* In that composition, where pings race pings and one driver races the administrators,
\* live vehicles are tracked as FleetTracked says.
THEOREM JobsKeepFleet == JobsSpec => FleetIsTracked
<1>1. JobsSpec => []FleetInv
  BY FleetInvInit, FleetInvStep, JobsSteps, JobsInits, PTL DEF JobsSpec
<1>2. JobsSpec => FixesMoveForward
  BY <1>1, FixesAdvance, JobsSteps, PTL DEF JobsSpec, FixesMoveForward
<1> QED
  BY <1>1, <1>2, FleetInvSafe, PTL DEF FleetIsTracked

\* In that composition, where decisions race decisions and one decision races the edits
\* of the seller, stores are reviewed as ShopsReviewed says.
THEOREM JobsKeepReviews == JobsSpec => ReviewIsSound
<1>1. JobsSpec => []ShopInv
  BY ShopInvInit, ShopInvStep, JobsSteps, JobsInits, PTL DEF JobsSpec
<1>2. JobsSpec => ToggleComesBack
  BY <1>1, ToggleRestored, JobsSteps, PTL DEF JobsSpec, ToggleComesBack
<1> QED
  BY <1>1, <1>2, ShopInvSafe, PTL DEF ReviewIsSound
=============================================================================
