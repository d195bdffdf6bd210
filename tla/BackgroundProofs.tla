---------------------------- MODULE BackgroundProofs ----------------------------
(***************************************************************************)
(* What the background components promise, proved for any number of         *)
(* requests, workers, crashes and outages: the events handed to the         *)
(* workers, the rankings made from them, live vehicles, the review of       *)
(* stores, and settlements with their returns and payouts.                  *)
(*                                                                          *)
(* The hard part of the first is that a mail is sent once. The claim of     *)
(* runOnce can lapse under its worker, be deleted by another worker that    *)
(* failed, and be taken again while the first one still has the message: so *)
(* the argument counts.  Every send that happened, and every send a claim   *)
(* still allows, is paid for by the first claim or by a slip.               *)
(*                                                                          *)
(* Of the rankings, that a run that looked and has not saved holds counts   *)
(* that are as true as the rows; of a vehicle, that its point never         *)
(* outlives its entry in the seen set; of a store, that what a request      *)
(* checked is still so when it writes, or that it is known to have been     *)
(* overtaken.                                                               *)
(*                                                                          *)
(* The argument about settlements has two layers.  SettlementTypeOK with    *)
(* RequestsConsistent (what a request in progress knows is still true of    *)
(* the rows it read) is inductive.  On top of it, RefundsCovered counts the *)
(* refunds that were answered and not yet recorded together with the        *)
(* recorded ones: that sum never exceeds what the provider sent, although   *)
(* the recorded number alone says nothing about the next step.              *)
(***************************************************************************)
EXTENDS EventBus, ViewRankings, LiveFleet, StoreApproval, SettlementLedger,
        SumTheorems, FiniteSetTheorems, TLAPS

-----------------------------------------------------------------------------
Places == {"unsent", "dropped", "queue", "hidden", "gone", "dlq"}
WorkerState ==
    [mode : {"running", "stopping", "stopped"},
     mailPc : {"idle", "received", "sending", "sent", "handled", "failed"},
     mail : Mails \cup {Nothing}, claimed : BOOLEAN,
     batchPc : {"idle", "written"}, buffer : SUBSET Facts]

\* The workers that hold a claim on a mail and have not sent it ...
Sending(m) == {w \in Workers : /\ worker[w].mailPc = "sending"
                               /\ worker[w].claimed /\ worker[w].mail = m}

\* ... or have not recorded that they did.
Holding(m) == {w \in Workers : /\ worker[w].mailPc \in {"sending", "sent"}
                               /\ worker[w].claimed /\ worker[w].mail = m}

\* The key pays for one send once it is done, or while a claim on it is alive.
KeyPays(m) ==
    IF onceKey[m] = "done" \/ (onceKey[m] = "running" /\ Holding(m) # {}) THEN 1 ELSE 0

SendsArePaidFor ==
    \A m \in Mails : outbox[m] + Cardinality(Sending(m)) <= slips[m] + KeyPays(m)

DoneMeansSent == \A m \in Mails : onceKey[m] = "done" => outbox[m] > 0

\* A worker: what it does is done to a mail, a claim was taken for it, and it
\* deletes what it has handled.
WorkerSound(w) ==
    /\ worker[w].mode = "stopped" => worker[w].mailPc = "idle" /\ worker[w].buffer = {}
    /\ worker[w].mailPc # "idle" => worker[w].mail \in Mails
    /\ worker[w].claimed => worker[w].mailPc \notin {"idle", "received"}
    /\ worker[w].batchPc = "written" => worker[w].buffer \subseteq factRows
    /\ worker[w].mailPc \in {"sent", "handled"} => outbox[worker[w].mail] > 0

\* MailSentOnce and DeletedMeansHandled do not follow from themselves: what a
\* worker that is about to send or delete has behind it is part of the argument.
BusInv ==
    /\ BusTypeOK /\ DeletedMeansHandled /\ AcceptedFactsAreKept
    /\ \A w \in Workers : WorkerSound(w)
    /\ DoneMeansSent /\ SendsArePaidFor

-----------------------------------------------------------------------------
(* Lemmas about the pieces of a step.                                       *)

\* A message moves to another place.
LEMMA QueueStep ==
    ASSUME BusTypeOK, NEW m \in Messages, NEW place \in Places, Queue(m, place)
    PROVE  /\ queued' \in [Messages -> [at : Places, receives : 0..MaxReceives]]
           /\ queued'[m].at = place
           /\ \A k \in Messages : k # m => queued'[k] = queued[k]
BY DEF BusTypeOK, Queue, Places

\* A message is received: it is hidden, and once more counted.
LEMMA ReceiveStep ==
    ASSUME BusTypeOK, NEW m \in Messages, Available(m), NEW place \in Places,
           queued' = [queued EXCEPT ![m] = [at |-> place, receives |-> @.receives + 1]]
    PROVE  /\ queued' \in [Messages -> [at : Places, receives : 0..MaxReceives]]
           /\ queued'[m].at = place
           /\ \A k \in Messages : k # m => queued'[k] = queued[k]
<1>1. queued[m].receives + 1 \in 0..MaxReceives
  <2>1. queued[m].receives \in 0..MaxReceives /\ queued[m].receives < MaxReceives
    BY DEF BusTypeOK, Available
  <2> QED
    BY <2>1, BusConstants
<1> QED
  BY <1>1 DEF BusTypeOK, Places

\* A deletion takes some of the messages and leaves the others where they are.
LEMMA DeletedStep ==
    ASSUME BusTypeOK, NEW ms, Deleted(ms)
    PROVE  /\ queued' \in [Messages -> [at : Places, receives : 0..MaxReceives]]
           /\ \A k \in Messages : \/ queued'[k] = queued[k]
                                  \/ k \in ms /\ queued'[k].at = "gone"
<1>1. PICK failed \in SUBSET ms :
         queued' = [m \in Messages |->
            IF m \in ms \ failed /\ queued[m].at \in {"queue", "hidden"}
              THEN [queued[m] EXCEPT !.at = "gone"] ELSE queued[m]]
  BY DEF Deleted
<1>2. \A k \in Messages : /\ queued[k] \in [at : Places, receives : 0..MaxReceives]
                          /\ [queued[k] EXCEPT !.at = "gone"] \in [at : Places, receives : 0..MaxReceives]
                          /\ [queued[k] EXCEPT !.at = "gone"].at = "gone"
  BY DEF BusTypeOK, Places
<1> QED
  BY <1>1, <1>2

\* What was handled stays handled and what was accepted stays kept, if messages
\* leave their queue only to be handled, dead-lettered or written elsewhere.
LEMMA KeptStep ==
    ASSUME DeletedMeansHandled, AcceptedFactsAreKept,
           factRows \subseteq factRows', directRows \subseteq directRows',
           \A m \in Mails : outbox[m] > 0 => outbox'[m] > 0,
           \A k \in Messages :
              \/ queued'[k].at = queued[k].at
              \/ queued'[k].at \in {"queue", "hidden", "dlq"}
              \/ /\ queued'[k].at = "gone"
                 /\ k \in Mails => outbox[k] > 0
                 /\ k \in Facts => k \in factRows
              \/ /\ queued'[k].at = "dropped"
                 /\ k \in Facts => k \in directRows'
    PROVE  (DeletedMeansHandled /\ AcceptedFactsAreKept)'
<1>1. \A m \in Mails : queued'[m].at = "gone" => outbox'[m] > 0
  BY BusConstants DEF DeletedMeansHandled
<1>2. \A m \in Facts : queued'[m].at = "gone" => m \in factRows'
  BY BusConstants DEF DeletedMeansHandled
<1>3. \A m \in Facts :
        queued'[m].at = "unsent" \/ m \in factRows' \cup directRows'
          \/ queued'[m].at \in {"queue", "hidden", "dlq"}
  <2> TAKE m \in Facts
  <2>1. m \in Messages
    BY BusConstants
  <2>2. CASE queued'[m].at = queued[m].at
    BY <2>2 DEF AcceptedFactsAreKept
  <2>3. CASE queued'[m].at # queued[m].at
    BY <2>1, <2>3
  <2> QED
    BY <2>2, <2>3
<1> QED
  BY <1>1, <1>2, <1>3 DEF DeletedMeansHandled, AcceptedFactsAreKept

\* A worker that takes no step stays sound.
LEMMA SoundStep ==
    ASSUME NEW w \in Workers, WorkerSound(w), worker'[w] = worker[w],
           factRows \subseteq factRows',
           \A m \in Mails : outbox[m] > 0 => outbox'[m] > 0
    PROVE  WorkerSound(w)'
BY DEF WorkerSound

\* The sends a worker's step can add to or take from those under way.
LEMMA CountStep ==
    ASSUME NEW w \in Workers, NEW m \in Mails,
           \A v \in Workers : v # w => worker'[v] = worker[v]
    PROVE  /\ \E n \in Nat :
                /\ Cardinality(Sending(m)) = n + (IF w \in Sending(m) THEN 1 ELSE 0)
                /\ Cardinality(Sending(m))' = n + (IF w \in Sending(m)' THEN 1 ELSE 0)
           /\ Holding(m)' \ {w} = Holding(m) \ {w}
<1>1. Sending(m)' \ {w} = Sending(m) \ {w} /\ Holding(m)' \ {w} = Holding(m) \ {w}
  BY DEF Sending, Holding
<1> DEFINE R == Sending(m) \ {w}
<1>2. IsFiniteSet(Sending(m)) /\ IsFiniteSet(Sending(m)') /\ IsFiniteSet(R)
  <2>1. Sending(m) \subseteq Workers /\ Sending(m)' \subseteq Workers /\ R \subseteq Workers
    BY DEF Sending
  <2> QED
    BY <2>1, BusConstants, FS_Subset
<1>3. Cardinality(R) \in Nat
  BY <1>2, FS_CardinalityType
<1>4. Cardinality(Sending(m)) = Cardinality(R) + (IF w \in Sending(m) THEN 1 ELSE 0)
  <2>1. CASE w \in Sending(m)
    <3>1. Cardinality(R) = Cardinality(Sending(m)) - 1 /\ Cardinality(Sending(m)) \in Nat
      BY <1>2, <2>1, FS_RemoveElement, FS_CardinalityType
    <3> QED
      BY <2>1, <3>1, <1>3
  <2>2. CASE w \notin Sending(m)
    <3>1. R = Sending(m)
      BY <2>2
    <3> QED
      BY <2>2, <3>1, <1>3
  <2> QED
    BY <2>1, <2>2
<1>5. Cardinality(Sending(m)') = Cardinality(R) + (IF w \in Sending(m)' THEN 1 ELSE 0)
  <2>0. R = Sending(m)' \ {w}
    BY <1>1
  <2>1. CASE w \in Sending(m)'
    <3>1. Cardinality(R) = Cardinality(Sending(m)') - 1 /\ Cardinality(Sending(m)') \in Nat
      BY <1>2, <2>0, <2>1, FS_RemoveElement, FS_CardinalityType
    <3> QED
      BY <2>1, <3>1, <1>3
  <2>2. CASE w \notin Sending(m)'
    <3>1. R = Sending(m)'
      BY <2>0, <2>2
    <3> QED
      BY <2>2, <3>1, <1>3
  <2> QED
    BY <2>1, <2>2
<1>6. Cardinality(Sending(m))' = Cardinality(Sending(m)')
  OBVIOUS
<1> HIDE DEF R
<1> QED
  BY <1>1, <1>3, <1>4, <1>5, <1>6

\* The sends under way are a number.
LEMMA SendingIsNat == \A m : Cardinality(Sending(m)) \in Nat
<1> TAKE m
<1>1. IsFiniteSet(Sending(m))
  <2>1. Sending(m) \subseteq Workers
    BY DEF Sending
  <2> QED
    BY <2>1, BusConstants, FS_Subset
<1> QED
  BY <1>1, FS_CardinalityType

\* A step of a worker that neither is in the middle of a send nor comes to be, and
\* records nothing, changes nothing that is paid for.
LEMMA PaidStep ==
    ASSUME SendsArePaidFor, NEW w \in Workers,
           \A v \in Workers : v # w => worker'[v] = worker[v],
           \A m \in Mails : (w \in Sending(m)' <=> w \in Sending(m))
                            /\ (w \in Holding(m)' <=> w \in Holding(m)),
           UNCHANGED <<onceKey, outbox, slips>>
    PROVE  SendsArePaidFor'
<1> SUFFICES ASSUME NEW m \in Mails
             PROVE  outbox[m] + Cardinality(Sending(m))' <= slips[m] + KeyPays(m)'
  BY DEF SendsArePaidFor
<1>1. Cardinality(Sending(m))' = Cardinality(Sending(m))
  BY CountStep
<1>2. Holding(m)' = Holding(m)
  <2>1. Holding(m)' \ {w} = Holding(m) \ {w}
    BY CountStep
  <2> QED
    BY <2>1
<1>3. KeyPays(m)' = KeyPays(m)
  BY <1>2 DEF KeyPays
<1> QED
  BY <1>1, <1>3 DEF SendsArePaidFor

-----------------------------------------------------------------------------
(* Steps outside the workers.                                               *)

\* Publishing, timeouts, redrives and dropped messages move messages only.
LEMMA BrokerSteps ==
    ASSUME BusInv, NEW m \in Messages,
           \/ Publish(m) \/ RecordFacts(m) \/ VisibilityTimeout(m) \/ Redrive(m)
           \/ \E w \in Workers : DropUnhandled(w, m)
    PROVE  BusInv'
<1> USE BusConstants DEF BusInv
<1>1. PICK place \in Places :
         /\ queued' \in [Messages -> [at : Places, receives : 0..MaxReceives]]
         /\ queued'[m].at = place
         /\ \A k \in Messages : k # m => queued'[k] = queued[k]
         /\ \/ place \in {"queue", "hidden", "dlq"}
            \/ place = "gone" /\ m \notin Mails \cup Facts
            \/ place = "dropped" /\ (m \in Facts => m \in directRows')
         /\ directRows \subseteq directRows' /\ directRows' \subseteq Facts
  <2>1. ASSUME Publish(m)
        PROVE  /\ m \notin Facts /\ directRows' = directRows
               /\ \E place \in {"queue", "dropped"} : Queue(m, place)
    BY <2>1 DEF Publish
  <2>2. ASSUME RecordFacts(m)
        PROVE  /\ m \in Facts
               /\ \/ Queue(m, "queue") /\ directRows' = directRows \cup {f \in {m} : FALSE}
                  \/ /\ \E place \in {"queue", "dropped"} : Queue(m, place)
                     /\ directRows' = directRows \cup {f \in {m} : TRUE}
    <3>1. PICK reported \in {"published", "failed"} :
             /\ PublishMany(m, reported)
             /\ directRows' = directRows \cup {f \in {m} : reported = "failed"}
      BY <2>2 DEF RecordFacts
    <3>2. CASE reported = "published"
      BY <2>2, <3>1, <3>2 DEF RecordFacts, PublishMany
    <3>3. CASE reported = "failed"
      BY <2>2, <3>1, <3>3 DEF RecordFacts, PublishMany
    <3> QED
      BY <3>2, <3>3
  <2>3. CASE Publish(m)
    <3>1. PICK place \in {"queue", "dropped"} : Queue(m, place)
      BY <2>1, <2>3
    <3>2. place \in Places
      BY DEF Places
    <3> QED
      BY <2>1, <2>3, <3>1, <3>2, QueueStep DEF BusTypeOK
  <2>4. CASE RecordFacts(m)
    <3>1. PICK place \in {"queue", "dropped"} :
             Queue(m, place) /\ (place = "dropped" => m \in directRows')
      BY <2>2, <2>4
    <3>2. place \in Places /\ directRows \subseteq directRows' /\ directRows' \subseteq Facts
      BY <2>2, <2>4 DEF Places, BusTypeOK
    <3> QED
      BY <3>1, <3>2, QueueStep
  <2>5. CASE VisibilityTimeout(m) \/ Redrive(m)
    <3>1. PICK place \in {"queue", "dlq"} : Queue(m, place) /\ directRows' = directRows
      BY <2>5 DEF VisibilityTimeout, Redrive
    <3>2. place \in Places
      BY DEF Places
    <3> QED
      BY <3>1, <3>2, QueueStep DEF BusTypeOK
  <2>6. CASE \E w \in Workers : DropUnhandled(w, m)
    <3>1. PICK place \in {"gone", "hidden"} :
             queued' = [queued EXCEPT ![m] = [at |-> place, receives |-> @.receives + 1]]
      BY <2>6 DEF DropUnhandled
    <3>2. /\ place \in Places /\ Available(m) /\ m \notin Mails \cup Facts
          /\ directRows' = directRows
      BY <2>6 DEF DropUnhandled, Places
    <3> QED
      BY <3>1, <3>2, ReceiveStep DEF BusTypeOK
  <2> QED
    BY <2>3, <2>4, <2>5, <2>6
<1>2. UNCHANGED <<stops, onceKey, redis, outbox, factRows, worker, slips>>
  BY DEF Publish, RecordFacts, VisibilityTimeout, Redrive, DropUnhandled
<1>3. BusTypeOK'
  BY <1>1, <1>2 DEF BusTypeOK, Places
<1>4. (DeletedMeansHandled /\ AcceptedFactsAreKept)'
  BY <1>1, <1>2, KeptStep
<1>5. \A w \in Workers : WorkerSound(w)'
  BY <1>2, SoundStep
<1>6. DoneMeansSent'
  BY <1>2 DEF DoneMeansSent
<1>7. SendsArePaidFor'
  BY <1>2 DEF SendsArePaidFor, KeyPays, Sending, Holding
<1> QED
  BY <1>3, <1>4, <1>5, <1>6, <1>7

\* Redis goes away and comes back; a claim runs out. It costs a slip when a worker
\* still relied on it, and only then was the claim still paying for a send.
LEMMA RedisSteps ==
    ASSUME BusInv, RedisDrops \/ RedisReconnects \/ \E m \in Mails : ClaimLapses(m)
    PROVE  BusInv'
<1> USE BusConstants DEF BusInv
<1>1. CASE RedisDrops \/ RedisReconnects
  <2>1. UNCHANGED <<queued, stops, onceKey, outbox, factRows, directRows, worker, slips>>
    BY <1>1 DEF RedisDrops, RedisReconnects, brokerVars
  <2>2. redis' \in [up : BOOLEAN, outages : 0..MaxOutages]
    <3>1. CASE RedisDrops
      <4>1. redis.outages + 1 \in 0..MaxOutages
        <5>1. redis.outages \in 0..MaxOutages /\ redis.outages < MaxOutages
          BY <3>1 DEF RedisDrops, BusTypeOK
        <5> QED
          BY <5>1
      <4> QED
        BY <3>1, <4>1 DEF RedisDrops
    <3>2. CASE RedisReconnects
      BY <3>2 DEF RedisReconnects, BusTypeOK
    <3> QED
      BY <1>1, <3>1, <3>2
  <2> QED
    BY <2>1, <2>2 DEF BusTypeOK, DeletedMeansHandled, AcceptedFactsAreKept, WorkerSound,
         DoneMeansSent, SendsArePaidFor, KeyPays, Sending, Holding
<1>2. ASSUME NEW m \in Mails, ClaimLapses(m) PROVE BusInv'
  <2>1. /\ onceKey[m] = "running" /\ onceKey' = [onceKey EXCEPT ![m] = "none"]
        /\ UNCHANGED <<queued, stops, redis, outbox, factRows, directRows, worker>>
        /\ slips' = IF \E w \in Workers : worker[w].mail = m /\ worker[w].claimed
                    THEN [slips EXCEPT ![m] = @ + 1] ELSE slips
    BY <1>2 DEF ClaimLapses, Slip, brokerVars
  <2>2. /\ onceKey' \in [Mails -> {"none", "running", "done"}]
        /\ onceKey'[m] = "none" /\ \A k \in Mails : k # m => onceKey'[k] = onceKey[k]
    BY <2>1 DEF BusTypeOK
  <2>3. /\ slips' \in [Mails -> Nat] /\ \A k \in Mails : k # m => slips'[k] = slips[k]
        /\ slips'[m] = IF \E w \in Workers : worker[w].mail = m /\ worker[w].claimed
                       THEN slips[m] + 1 ELSE slips[m]
    BY <2>1 DEF BusTypeOK
  <2>4. BusTypeOK'
    BY <2>1, <2>2, <2>3 DEF BusTypeOK
  <2>5. (DeletedMeansHandled /\ AcceptedFactsAreKept)'
    BY <2>1 DEF DeletedMeansHandled, AcceptedFactsAreKept
  <2>6. (\A w \in Workers : WorkerSound(w))' /\ DoneMeansSent'
    BY <2>1, <2>2 DEF WorkerSound, DoneMeansSent
  <2>7. SendsArePaidFor'
    <3> SUFFICES ASSUME NEW k \in Mails
                 PROVE  outbox[k] + Cardinality(Sending(k)) <= slips'[k] + KeyPays(k)'
      BY <2>1 DEF SendsArePaidFor, Sending
    <3>1. Holding(k)' = Holding(k)
      BY <2>1 DEF Holding
    <3>2. outbox[k] + Cardinality(Sending(k)) <= slips[k] + KeyPays(k)
      BY DEF SendsArePaidFor
    <3>3. CASE k # m
      <4>1. KeyPays(k)' = KeyPays(k)
        BY <2>2, <3>1, <3>3 DEF KeyPays
      <4> QED
        BY <2>3, <3>2, <3>3, <4>1
    <3>4. CASE k = m
      <4>1. KeyPays(k)' = 0
        BY <2>2, <3>4 DEF KeyPays
      <4>2. KeyPays(k) = IF Holding(k) # {} THEN 1 ELSE 0
        BY <2>1, <3>4 DEF KeyPays
      <4>3. Holding(k) # {} => \E w \in Workers : worker[w].mail = m /\ worker[w].claimed
        BY <3>4 DEF Holding
      <4>4. slips[k] \in Nat /\ outbox[k] \in Nat /\ Cardinality(Sending(k)) \in Nat
        BY SendingIsNat DEF BusTypeOK
      <4>5. slips'[k] >= slips[k] + KeyPays(k)
        BY <2>3, <3>4, <4>2, <4>3, <4>4
      <4>6. KeyPays(k) \in {0, 1} /\ slips'[k] \in Nat
        BY <2>3, <4>2
      <4> QED
        BY <3>2, <4>1, <4>4, <4>5, <4>6
    <3> QED
      BY <3>3, <3>4
  <2> QED
    BY <2>4, <2>5, <2>6, <2>7
<1> QED
  BY <1>1, <1>2

-----------------------------------------------------------------------------
(* Steps of a worker that send nothing.                                     *)

\* A worker that changes its mode or its batch, or has nothing to do with a mail
\* that is being sent, leaves what is sent and paid for alone.
LEMMA QuietStep ==
    ASSUME BusInv, NEW w \in Workers, NEW x \in WorkerState,
           worker' = [worker EXCEPT ![w] = x],
           \/ x.mailPc \notin {"sending", "sent"} /\ worker[w].mailPc \notin {"sending", "sent"}
           \/ /\ x.mailPc = worker[w].mailPc /\ x.mail = worker[w].mail
              /\ x.claimed = worker[w].claimed,
           queued' \in [Messages -> [at : Places, receives : 0..MaxReceives]],
           \A k \in Messages :
              \/ queued'[k].at = queued[k].at
              \/ queued'[k].at \in {"queue", "hidden", "dlq"}
              \/ /\ queued'[k].at = "gone"
                 /\ k \in Mails => outbox[k] > 0
                 /\ k \in Facts => k \in factRows,
           factRows \subseteq factRows', factRows' \subseteq Facts,
           UNCHANGED <<onceKey, redis, outbox, directRows, slips>>,
           x.mode = "stopped" => x.mailPc = "idle" /\ x.buffer = {},
           x.mailPc # "idle" => x.mail \in Mails,
           x.claimed => x.mailPc \notin {"idle", "received"},
           x.batchPc = "written" => x.buffer \subseteq factRows',
           x.mailPc \in {"sent", "handled"} => outbox[x.mail] > 0
    PROVE  BusInv'
<1> USE BusConstants DEF BusInv
<1>1. /\ worker' \in [Workers -> WorkerState] /\ worker'[w] = x
      /\ \A v \in Workers : v # w => worker'[v] = worker[v]
  BY DEF BusTypeOK, WorkerState
<1>2. BusTypeOK'
  BY <1>1 DEF BusTypeOK, WorkerState, Places
<1>3. (DeletedMeansHandled /\ AcceptedFactsAreKept)'
  BY KeptStep
<1>4. WorkerSound(w)'
  BY <1>1 DEF WorkerSound
<1>5. \A v \in Workers : WorkerSound(v)'
  BY <1>1, <1>4, SoundStep
<1>6. DoneMeansSent'
  BY DEF DoneMeansSent
<1>7. SendsArePaidFor'
  <2>1. \A m \in Mails : (w \in Sending(m)' <=> w \in Sending(m))
                         /\ (w \in Holding(m)' <=> w \in Holding(m))
    BY <1>1 DEF Sending, Holding
  <2> QED
    BY <1>1, <2>1, PaidStep
<1> QED
  BY <1>2, <1>3, <1>5, <1>6, <1>7

\* The analytics consumer: messages are taken, written, deleted or handed back.
LEMMA BatchSteps ==
    ASSUME BusInv, NEW w \in Workers,
           BatchStep(w) \/ \E m \in Messages : BatchReceive(w, m)
    PROVE  BusInv'
<1> USE BusConstants DEF BusInv
<1>0. worker[w] \in WorkerState /\ WorkerSound(w)
  BY DEF BusTypeOK, WorkerState
<1>1. ASSUME NEW m \in Messages, BatchReceive(w, m) PROVE BusInv'
  <2> DEFINE x == [worker[w] EXCEPT !.buffer = @ \cup {m}]
  <2>1. /\ worker[w].mode = "running" /\ worker[w].batchPc = "idle" /\ m \in Facts
        /\ Available(m)
        /\ queued' = [queued EXCEPT ![m] = [at |-> "hidden", receives |-> @.receives + 1]]
        /\ UNCHANGED <<onceKey, redis, outbox, factRows, directRows, slips>>
    BY <1>1 DEF BatchReceive, Received
  <2>2. worker' = [worker EXCEPT ![w] = x]
    BY <1>1 DEF BatchReceive
  <2>3. /\ x \in WorkerState
        /\ x.mode = worker[w].mode /\ x.mailPc = worker[w].mailPc /\ x.mail = worker[w].mail
        /\ x.claimed = worker[w].claimed /\ x.batchPc = "idle"
    BY <1>0, <2>1 DEF WorkerState
  <2>4. "hidden" \in Places
    BY DEF Places
  <2>5. /\ queued' \in [Messages -> [at : Places, receives : 0..MaxReceives]]
        /\ queued'[m].at = "hidden"
        /\ \A k \in Messages : k # m => queued'[k] = queued[k]
    BY <2>1, <2>4, ReceiveStep
  <2>6. factRows \subseteq Facts
    BY DEF BusTypeOK
  <2> HIDE DEF x
  <2> QED
    BY <1>0, <2>1, <2>2, <2>3, <2>5, <2>6, QuietStep DEF WorkerSound
<1>2. CASE BatchWrite(w)
  <2> DEFINE x == [worker[w] EXCEPT !.batchPc = "written"]
  <2>1. /\ factRows' = factRows \cup worker[w].buffer
        /\ UNCHANGED <<queued, onceKey, redis, outbox, directRows, slips>>
        /\ worker[w].buffer # {}
    BY <1>2 DEF BatchWrite, brokerVars
  <2>2. worker' = [worker EXCEPT ![w] = x]
    BY <1>2 DEF BatchWrite
  <2>3. /\ x \in WorkerState /\ x.buffer = worker[w].buffer
        /\ x.mode = worker[w].mode /\ x.mailPc = worker[w].mailPc /\ x.mail = worker[w].mail
        /\ x.claimed = worker[w].claimed
    BY <1>0 DEF WorkerState
  <2>4. queued' \in [Messages -> [at : Places, receives : 0..MaxReceives]]
    BY <2>1 DEF BusTypeOK, Places
  <2>5. worker[w].buffer \subseteq Facts /\ factRows \subseteq Facts
    BY <1>0 DEF BusTypeOK, WorkerState
  <2> HIDE DEF x
  <2> QED
    BY <1>0, <2>1, <2>2, <2>3, <2>4, <2>5, QuietStep DEF WorkerSound
<1>3. CASE BatchFails(w)
  <2> DEFINE x == [worker[w] EXCEPT !.buffer = {}]
  <2>1. /\ queued' = [m \in Messages |->
              IF m \in worker[w].buffer /\ queued[m].at = "hidden"
                THEN [queued[m] EXCEPT !.at = "queue"] ELSE queued[m]]
        /\ UNCHANGED <<onceKey, redis, outbox, factRows, directRows, slips>>
    BY <1>3 DEF BatchFails
  <2>2. worker' = [worker EXCEPT ![w] = x]
    BY <1>3 DEF BatchFails
  <2>3. /\ x \in WorkerState /\ x.buffer = {}
        /\ x.mode = worker[w].mode /\ x.mailPc = worker[w].mailPc /\ x.mail = worker[w].mail
        /\ x.claimed = worker[w].claimed
    BY <1>0 DEF WorkerState
  <2>4. /\ queued' \in [Messages -> [at : Places, receives : 0..MaxReceives]]
        /\ \A k \in Messages : queued'[k].at = queued[k].at \/ queued'[k].at = "queue"
    <3>1. \A k \in Messages :
             /\ queued[k] \in [at : Places, receives : 0..MaxReceives]
             /\ [queued[k] EXCEPT !.at = "queue"] \in [at : Places, receives : 0..MaxReceives]
             /\ [queued[k] EXCEPT !.at = "queue"].at = "queue"
      BY DEF BusTypeOK, Places
    <3> QED
      BY <2>1, <3>1
  <2>5. factRows \subseteq Facts
    BY DEF BusTypeOK
  <2> HIDE DEF x
  <2> QED
    BY <1>0, <2>1, <2>2, <2>3, <2>4, <2>5, QuietStep DEF WorkerSound
<1>4. CASE BatchDelete(w)
  <2> DEFINE x == [worker[w] EXCEPT !.batchPc = "idle", !.buffer = {}]
  <2>1. /\ worker[w].batchPc = "written" /\ Deleted(worker[w].buffer)
        /\ UNCHANGED <<onceKey, redis, outbox, factRows, directRows, slips>>
    BY <1>4 DEF BatchDelete
  <2>2. worker' = [worker EXCEPT ![w] = x]
    BY <1>4 DEF BatchDelete
  <2>3. /\ x \in WorkerState /\ x.buffer = {} /\ x.batchPc = "idle"
        /\ x.mode = worker[w].mode /\ x.mailPc = worker[w].mailPc /\ x.mail = worker[w].mail
        /\ x.claimed = worker[w].claimed
    BY <1>0 DEF WorkerState
  <2>4. /\ queued' \in [Messages -> [at : Places, receives : 0..MaxReceives]]
        /\ \A k \in Messages : \/ queued'[k] = queued[k]
                               \/ k \in worker[w].buffer /\ queued'[k].at = "gone"
    BY <2>1, DeletedStep
  <2>5. worker[w].buffer \subseteq factRows /\ worker[w].buffer \subseteq Facts
    BY <1>0, <2>1 DEF WorkerSound, WorkerState
  <2>6. \A k \in Messages :
           \/ queued'[k].at = queued[k].at
           \/ queued'[k].at = "gone" /\ (k \in Mails => outbox[k] > 0)
                                     /\ (k \in Facts => k \in factRows)
    BY <2>4, <2>5
  <2>7. factRows \subseteq Facts
    BY DEF BusTypeOK
  <2> HIDE DEF x
  <2> QED
    BY <1>0, <2>1, <2>2, <2>3, <2>4, <2>6, <2>7, QuietStep DEF WorkerSound
<1> QED
  BY <1>1, <1>2, <1>3, <1>4 DEF BatchStep

\* Signals, a graceful end and a new start; only a worker with nothing in hand ends
\* so.
LEMMA ProcessSteps ==
    ASSUME BusInv, NEW w \in Workers, SigTerm(w) \/ ShutdownEnds(w) \/ StartWorker(w)
    PROVE  BusInv'
<1> USE BusConstants DEF BusInv
<1>0. worker[w] \in WorkerState /\ WorkerSound(w)
  BY DEF BusTypeOK, WorkerState
<1>1. /\ UNCHANGED <<queued, onceKey, redis, outbox, factRows, directRows, slips>>
      /\ queued' \in [Messages -> [at : Places, receives : 0..MaxReceives]]
      /\ factRows \subseteq Facts
  BY DEF SigTerm, ShutdownEnds, StartWorker, brokerVars, BusTypeOK, Places
<1>2. CASE SigTerm(w)
  <2> DEFINE x == [worker[w] EXCEPT !.mode = "stopping"]
  <2>1. worker' = [worker EXCEPT ![w] = x]
    BY <1>2 DEF SigTerm
  <2>2. /\ x \in WorkerState /\ x.mode = "stopping" /\ x.mailPc = worker[w].mailPc
        /\ x.mail = worker[w].mail /\ x.claimed = worker[w].claimed
        /\ x.batchPc = worker[w].batchPc /\ x.buffer = worker[w].buffer
    BY <1>0 DEF WorkerState
  <2> HIDE DEF x
  <2> QED
    BY <1>0, <1>1, <2>1, <2>2, QuietStep DEF WorkerSound
<1>3. CASE ShutdownEnds(w)
  <2> DEFINE x == [worker[w] EXCEPT !.mode = "stopped"]
  <2>1. /\ worker' = [worker EXCEPT ![w] = x]
        /\ worker[w].mailPc = "idle" /\ worker[w].buffer = {}
    BY <1>3 DEF ShutdownEnds, Busy
  <2>2. /\ x \in WorkerState /\ x.mode = "stopped" /\ x.mailPc = worker[w].mailPc
        /\ x.mail = worker[w].mail /\ x.claimed = worker[w].claimed
        /\ x.batchPc = worker[w].batchPc /\ x.buffer = worker[w].buffer
    BY <1>0 DEF WorkerState
  <2> HIDE DEF x
  <2> QED
    BY <1>0, <1>1, <2>1, <2>2, QuietStep DEF WorkerSound
<1>4. CASE StartWorker(w)
  <2>1. worker' = [worker EXCEPT ![w] = Awake] /\ worker[w].mailPc = "idle"
    BY <1>0, <1>4 DEF StartWorker, WorkerSound
  <2>2. /\ Awake \in WorkerState /\ Awake.mode = "running" /\ Awake.mailPc = "idle"
        /\ ~Awake.claimed /\ Awake.batchPc = "idle"
    BY DEF WorkerState, Awake
  <2> QED
    BY <1>0, <1>1, <2>1, <2>2, QuietStep
<1> QED
  BY <1>2, <1>3, <1>4

-----------------------------------------------------------------------------
(* Steps of the email consumer.                                             *)

\* Receiving a mail, handing it back and finishing with it.
LEMMA MailEdges ==
    ASSUME BusInv, NEW w \in Workers,
           \/ \E m \in Messages : MailReceive(w, m)
           \/ MailRelease(w) \/ MailDone(w)
    PROVE  BusInv'
<1> USE BusConstants DEF BusInv
<1>0. worker[w] \in WorkerState /\ WorkerSound(w) /\ factRows \subseteq Facts
  BY DEF BusTypeOK, WorkerState
<1>1. ASSUME NEW m \in Messages, MailReceive(w, m) PROVE BusInv'
  <2> DEFINE x == [worker[w] EXCEPT !.mailPc = "received", !.mail = m]
  <2>1. /\ worker[w].mode = "running" /\ worker[w].mailPc = "idle" /\ m \in Mails
        /\ Available(m)
        /\ queued' = [queued EXCEPT ![m] = [at |-> "hidden", receives |-> @.receives + 1]]
        /\ UNCHANGED <<onceKey, redis, outbox, factRows, directRows, slips>>
    BY <1>1 DEF MailReceive, Received
  <2>2. worker' = [worker EXCEPT ![w] = x]
    BY <1>1 DEF MailReceive
  <2>3. /\ x \in WorkerState /\ x.mailPc = "received" /\ x.mail = m
        /\ x.mode = worker[w].mode /\ x.claimed = worker[w].claimed
        /\ x.batchPc = worker[w].batchPc /\ x.buffer = worker[w].buffer
    BY <1>0, <2>1 DEF WorkerState
  <2>4. "hidden" \in Places
    BY DEF Places
  <2>5. /\ queued' \in [Messages -> [at : Places, receives : 0..MaxReceives]]
        /\ queued'[m].at = "hidden"
        /\ \A k \in Messages : k # m => queued'[k] = queued[k]
    BY <2>1, <2>4, ReceiveStep
  <2> HIDE DEF x
  <2> QED
    BY <1>0, <2>1, <2>2, <2>3, <2>5, QuietStep DEF WorkerSound
<1>2. CASE MailRelease(w)
  <2> DEFINE x == [worker[w] EXCEPT !.mailPc = "idle", !.mail = Nothing]
  <2>1. /\ worker[w].mode = "stopping" /\ worker[w].mailPc = "received"
        /\ UNCHANGED <<onceKey, redis, outbox, factRows, directRows, slips>>
    BY <1>2 DEF MailRelease
  <2>2. worker' = [worker EXCEPT ![w] = x]
    BY <1>2 DEF MailRelease
  <2>3. /\ x \in WorkerState /\ x.mailPc = "idle"
        /\ x.mode = worker[w].mode /\ x.claimed = worker[w].claimed
        /\ x.batchPc = worker[w].batchPc /\ x.buffer = worker[w].buffer
    BY <1>0, <2>1 DEF WorkerState
  <2>4. PICK m \in Mails : m = worker[w].mail
    BY <1>0, <2>1 DEF WorkerSound
  <2>5. PICK place \in Places : /\ place = IF queued[m].at = "hidden" THEN "queue"
                                           ELSE queued[m].at
                                /\ Queue(m, place)
    BY <1>2, <2>4 DEF MailRelease, BusTypeOK, Places
  <2>6. /\ queued' \in [Messages -> [at : Places, receives : 0..MaxReceives]]
        /\ \A k \in Messages : queued'[k].at = queued[k].at \/ queued'[k].at = "queue"
    BY <2>5, QueueStep
  <2> HIDE DEF x
  <2> QED
    BY <1>0, <2>1, <2>2, <2>3, <2>6, QuietStep DEF WorkerSound
<1>3. CASE MailDone(w)
  <2> DEFINE x == [worker[w] EXCEPT !.mailPc = "idle", !.mail = Nothing, !.claimed = FALSE]
  <2>1. /\ worker[w].mailPc \in {"handled", "failed"}
        /\ UNCHANGED <<onceKey, redis, outbox, factRows, directRows, slips>>
    BY <1>3 DEF MailDone
  <2>2. worker' = [worker EXCEPT ![w] = x]
    BY <1>3 DEF MailDone
  <2>3. /\ x \in WorkerState /\ x.mailPc = "idle" /\ ~x.claimed
        /\ x.mode = worker[w].mode
        /\ x.batchPc = worker[w].batchPc /\ x.buffer = worker[w].buffer
    BY <1>0, <2>1 DEF WorkerState
  <2>4. PICK m \in Mails : m = worker[w].mail
    BY <1>0, <2>1 DEF WorkerSound
  <2>5. /\ queued' \in [Messages -> [at : Places, receives : 0..MaxReceives]]
        /\ \A k \in Messages :
             \/ queued'[k].at = queued[k].at
             \/ queued'[k].at = "queue"
             \/ queued'[k].at = "gone" /\ k = m /\ worker[w].mailPc = "handled"
    <3>1. CASE worker[w].mailPc = "handled"
      <4>1. Deleted({m})
        BY <1>3, <2>4, <3>1 DEF MailDone
      <4> QED
        BY <3>1, <4>1, DeletedStep
    <3>2. CASE worker[w].mailPc = "failed"
      <4>1. PICK place \in Places : /\ place = IF queued[m].at = "hidden" THEN "queue"
                                               ELSE queued[m].at
                                    /\ Queue(m, place)
        BY <1>3, <2>4, <3>2 DEF MailDone, BusTypeOK, Places
      <4> QED
        BY <4>1, QueueStep
    <3> QED
      BY <2>1, <3>1, <3>2
  <2>6. worker[w].mailPc = "handled" => outbox[m] > 0 /\ m \notin Facts
    BY <1>0, <2>4 DEF WorkerSound
  <2>7. \A k \in Messages :
           \/ queued'[k].at = queued[k].at
           \/ queued'[k].at \in {"queue", "hidden", "dlq"}
           \/ queued'[k].at = "gone" /\ (k \in Mails => outbox[k] > 0)
                                     /\ (k \in Facts => k \in factRows)
    BY <2>5, <2>6
  <2> HIDE DEF x
  <2> QED
    BY <1>0, <2>1, <2>2, <2>3, <2>5, <2>7, QuietStep DEF WorkerSound
<1> QED
  BY <1>1, <1>2, <1>3

\* What a step at a mail that is received or being sent leaves alone, and when its
\* worker is sound afterwards.
LEMMA MailFrame ==
    ASSUME BusInv, NEW w \in Workers, NEW x \in WorkerState,
           worker' = [worker EXCEPT ![w] = x],
           UNCHANGED <<queued, redis, factRows, directRows>>,
           onceKey' \in [Mails -> {"none", "running", "done"}],
           outbox' \in [Mails -> Nat], slips' \in [Mails -> Nat],
           \A m \in Mails : outbox[m] > 0 => outbox'[m] > 0,
           \A m \in Mails : onceKey'[m] = "done" => outbox'[m] > 0,
           x.batchPc = worker[w].batchPc \/ x.batchPc = "idle",
           x.buffer = worker[w].buffer \/ x.batchPc = "idle",
           x.mode = "stopped" => x.mailPc = "idle" /\ x.buffer = {},
           x.mailPc # "idle" => x.mail \in Mails,
           x.claimed => x.mailPc \notin {"idle", "received"},
           x.mailPc \in {"sent", "handled"} => outbox'[x.mail] > 0,
           SendsArePaidFor'
    PROVE  BusInv'
<1> USE BusConstants DEF BusInv
<1>1. /\ worker' \in [Workers -> WorkerState] /\ worker'[w] = x
      /\ \A v \in Workers : v # w => worker'[v] = worker[v]
  BY DEF BusTypeOK, WorkerState
<1>2. BusTypeOK'
  BY <1>1 DEF BusTypeOK, WorkerState
<1>3. (DeletedMeansHandled /\ AcceptedFactsAreKept)'
  BY KeptStep
<1>4. WorkerSound(w)'
  BY <1>1 DEF WorkerSound
<1>5. \A v \in Workers : WorkerSound(v)'
  BY <1>1, <1>4, SoundStep
<1>6. DoneMeansSent'
  BY DEF DoneMeansSent
<1> QED
  BY <1>2, <1>3, <1>5, <1>6

\* The sends of the other mails are as much paid for as before.
LEMMA OthersPaid ==
    ASSUME BusInv, NEW w \in Workers, NEW m \in Mails, worker[w].mail = m,
           \A v \in Workers : v # w => worker'[v] = worker[v],
           worker'[w].mail = m \/ worker'[w].mailPc = "idle",
           NEW k \in Mails, k # m,
           onceKey'[k] = onceKey[k], outbox'[k] = outbox[k], slips'[k] = slips[k]
    PROVE  outbox'[k] + Cardinality(Sending(k))' <= slips'[k] + KeyPays(k)'
<1>1. w \notin Sending(k) /\ w \notin Sending(k)' /\ w \notin Holding(k) /\ w \notin Holding(k)'
  BY DEF Sending, Holding
<1>2. Cardinality(Sending(k))' = Cardinality(Sending(k))
  BY <1>1, CountStep
<1>3. Holding(k)' = Holding(k)
  <2>1. Holding(k)' \ {w} = Holding(k) \ {w}
    BY CountStep
  <2> QED
    BY <1>1, <2>1, SMTT(30)
<1>4. KeyPays(k)' = KeyPays(k)
  BY <1>3 DEF KeyPays
<1>5. outbox[k] + Cardinality(Sending(k)) <= slips[k] + KeyPays(k)
  BY DEF BusInv, SendsArePaidFor
<1> QED
  BY <1>2, <1>4, <1>5

\* runOnce's claim: a new claim comes with the send it pays for; without Redis, or
\* with a claim of another, none does.
LEMMA ClaimSteps ==
    ASSUME BusInv, NEW w \in Workers, Claim(w)
    PROVE  BusInv'
<1> USE BusConstants
<1>0. /\ worker[w] \in WorkerState /\ WorkerSound(w) /\ worker[w].mailPc = "received"
      /\ UNCHANGED <<queued, redis, outbox, factRows, directRows, slips>>
      /\ outbox \in [Mails -> Nat] /\ slips \in [Mails -> Nat]
      /\ onceKey \in [Mails -> {"none", "running", "done"}] /\ DoneMeansSent
      /\ SendsArePaidFor
  BY DEF BusInv, BusTypeOK, WorkerState, Claim, brokerVars
<1>1. PICK m \in Mails : m = worker[w].mail
  BY <1>0 DEF WorkerSound
<1>2. ~worker[w].claimed /\ worker[w].mode # "stopped"
  BY <1>0 DEF WorkerSound, WorkerState
<1>3. ASSUME NEW pc \in {"sending", "handled", "failed"}, MailGoes(w, pc), UNCHANGED onceKey,
             pc = "handled" => onceKey[m] = "done"
      PROVE  BusInv'
  <2> DEFINE x == [worker[w] EXCEPT !.mailPc = pc]
  <2>1. worker' = [worker EXCEPT ![w] = x]
    BY <1>3 DEF MailGoes
  <2>2. /\ x \in WorkerState /\ x.mailPc = pc /\ x.mail = m /\ ~x.claimed
        /\ x.mode = worker[w].mode
        /\ x.batchPc = worker[w].batchPc /\ x.buffer = worker[w].buffer
    BY <1>0, <1>1, <1>2 DEF WorkerState
  <2> HIDE DEF x
  <2>3. worker'[w] = x /\ \A v \in Workers : v # w => worker'[v] = worker[v]
    BY <2>1 DEF BusInv, BusTypeOK
  <2>4. \A k \in Mails : (w \in Sending(k)' <=> w \in Sending(k))
                         /\ (w \in Holding(k)' <=> w \in Holding(k))
    BY <1>0, <2>2, <2>3 DEF Sending, Holding
  <2>5. SendsArePaidFor'
    BY <1>0, <1>3, <2>3, <2>4, PaidStep
  <2>6. pc = "handled" => outbox[m] > 0
    BY <1>0, <1>3 DEF DoneMeansSent
  <2>7. \A k \in Mails : onceKey'[k] = "done" => outbox'[k] > 0
    BY <1>0, <1>3 DEF DoneMeansSent
  <2>8. onceKey' \in [Mails -> {"none", "running", "done"}]
    BY <1>0, <1>3
  <2> QED
    BY <1>0, <1>2, <1>3, <2>1, <2>2, <2>5, <2>6, <2>7, <2>8, MailFrame
<1>4. ASSUME onceKey[m] = "none", onceKey' = [onceKey EXCEPT ![m] = "running"],
             worker' = [worker EXCEPT ![w].mailPc = "sending", ![w].claimed = TRUE]
      PROVE  BusInv'
  <2> DEFINE x == [worker[w] EXCEPT !.mailPc = "sending", !.claimed = TRUE]
  <2>1. worker' = [worker EXCEPT ![w] = x]
    BY <1>4
  <2>2. /\ x \in WorkerState /\ x.mailPc = "sending" /\ x.mail = m /\ x.claimed
        /\ x.mode = worker[w].mode
        /\ x.batchPc = worker[w].batchPc /\ x.buffer = worker[w].buffer
    BY <1>0, <1>1 DEF WorkerState
  <2> HIDE DEF x
  <2>3. worker'[w] = x /\ \A v \in Workers : v # w => worker'[v] = worker[v]
    BY <2>1 DEF BusInv, BusTypeOK
  <2>4. /\ onceKey' \in [Mails -> {"none", "running", "done"}] /\ onceKey'[m] = "running"
        /\ \A k \in Mails : k # m => onceKey'[k] = onceKey[k]
    BY <1>0, <1>4
  <2>5. SendsArePaidFor'
    <3> SUFFICES ASSUME NEW k \in Mails
                 PROVE  outbox'[k] + Cardinality(Sending(k))' <= slips'[k] + KeyPays(k)'
      BY DEF SendsArePaidFor
    <3>1. CASE k # m
      BY <1>0, <1>1, <2>2, <2>3, <2>4, <3>1, OthersPaid
    <3>2. CASE k = m
      <4>1. w \notin Sending(m) /\ w \in Sending(m)' /\ w \in Holding(m)'
        BY <1>0, <2>2, <2>3 DEF Sending, Holding
      <4>2. PICK n \in Nat :
              /\ Cardinality(Sending(m)) = n + (IF w \in Sending(m) THEN 1 ELSE 0)
              /\ Cardinality(Sending(m))' = n + (IF w \in Sending(m)' THEN 1 ELSE 0)
        BY <2>3, CountStep
      <4>3. Cardinality(Sending(m)) = n /\ Cardinality(Sending(m))' = n + 1
        BY <4>1, <4>2
      <4>4. KeyPays(m) = 0 /\ KeyPays(m)' = 1
        BY <1>4, <2>4, <4>1 DEF KeyPays
      <4>5. outbox[m] + n <= slips[m]
        BY <1>0, <4>3, <4>4 DEF SendsArePaidFor
      <4>6. outbox'[m] = outbox[m] /\ slips'[m] = slips[m] /\ outbox[m] \in Nat /\ slips[m] \in Nat
        BY <1>0
      <4> QED
        BY <3>2, <4>3, <4>4, <4>5, <4>6
    <3> QED
      BY <3>1, <3>2
  <2>6. \A k \in Mails : onceKey'[k] = "done" => outbox'[k] > 0
    BY <1>0, <2>4 DEF DoneMeansSent
  <2> QED
    BY <1>0, <1>2, <2>1, <2>2, <2>4, <2>5, <2>6, MailFrame
<1>5. \/ MailGoes(w, "sending") /\ UNCHANGED onceKey
      \/ /\ onceKey[m] = "none" /\ onceKey' = [onceKey EXCEPT ![m] = "running"]
         /\ worker' = [worker EXCEPT ![w].mailPc = "sending", ![w].claimed = TRUE]
      \/ /\ MailGoes(w, IF onceKey[m] = "done" THEN "handled" ELSE "failed")
         /\ UNCHANGED onceKey
  BY <1>1 DEF Claim
<1>6. CASE MailGoes(w, "sending") /\ UNCHANGED onceKey
  BY <1>3, <1>6
<1>7. CASE /\ MailGoes(w, IF onceKey[m] = "done" THEN "handled" ELSE "failed")
           /\ UNCHANGED onceKey
  <2>1. CASE onceKey[m] = "done"
    BY <1>3, <1>7, <2>1
  <2>2. CASE onceKey[m] # "done"
    BY <1>3, <1>7, <2>2
  <2> QED
    BY <2>1, <2>2
<1> QED
  BY <1>4, <1>5, <1>6, <1>7

\* The mail goes out: a claimed send moves from those under way to those done, one
\* without a claim costs a slip.
LEMMA SendSteps ==
    ASSUME BusInv, NEW w \in Workers, SendMail(w)
    PROVE  BusInv'
<1> USE BusConstants
<1>0. /\ worker[w] \in WorkerState /\ WorkerSound(w) /\ worker[w].mailPc = "sending"
      /\ UNCHANGED <<queued, redis, onceKey, factRows, directRows>>
      /\ outbox \in [Mails -> Nat] /\ slips \in [Mails -> Nat]
      /\ onceKey \in [Mails -> {"none", "running", "done"}] /\ DoneMeansSent
      /\ SendsArePaidFor
  BY DEF BusInv, BusTypeOK, WorkerState, SendMail, brokerVars
<1>1. PICK m \in Mails : m = worker[w].mail
  BY <1>0 DEF WorkerSound
<1>2. worker[w].mode # "stopped"
  BY <1>0 DEF WorkerSound
<1>3. PICK pc \in {"sent", "handled"} : /\ pc = IF worker[w].claimed THEN "sent" ELSE "handled"
                                        /\ MailGoes(w, pc)
  BY DEF SendMail
<1>4. /\ outbox' = [outbox EXCEPT ![m] = @ + 1]
      /\ slips' = IF worker[w].claimed THEN slips ELSE [slips EXCEPT ![m] = @ + 1]
  BY <1>1 DEF SendMail, Slip
<1>5. /\ outbox' \in [Mails -> Nat] /\ outbox'[m] = outbox[m] + 1 /\ outbox[m] \in Nat
      /\ \A k \in Mails : k # m => outbox'[k] = outbox[k]
      /\ slips' \in [Mails -> Nat] /\ slips[m] \in Nat
      /\ slips'[m] = slips[m] + IF worker[w].claimed THEN 0 ELSE 1
      /\ \A k \in Mails : k # m => slips'[k] = slips[k]
  BY <1>0, <1>4
<1> DEFINE x == [worker[w] EXCEPT !.mailPc = pc]
<1>6. worker' = [worker EXCEPT ![w] = x]
  BY <1>3 DEF MailGoes
<1>7. /\ x \in WorkerState /\ x.mailPc = pc /\ x.mail = m /\ x.claimed = worker[w].claimed
      /\ x.mode = worker[w].mode
      /\ x.batchPc = worker[w].batchPc /\ x.buffer = worker[w].buffer
  BY <1>0, <1>1, <1>3 DEF WorkerState
<1> HIDE DEF x
<1>8. worker'[w] = x /\ \A v \in Workers : v # w => worker'[v] = worker[v]
  BY <1>6 DEF BusInv, BusTypeOK
<1>9. SendsArePaidFor'
  <2> SUFFICES ASSUME NEW k \in Mails
               PROVE  outbox'[k] + Cardinality(Sending(k))' <= slips'[k] + KeyPays(k)'
    BY DEF SendsArePaidFor
  <2>1. CASE k # m
    BY <1>0, <1>1, <1>5, <1>7, <1>8, <2>1, OthersPaid
  <2>2. CASE k = m
    <3>1. PICK n \in Nat :
            /\ Cardinality(Sending(m)) = n + (IF w \in Sending(m) THEN 1 ELSE 0)
            /\ Cardinality(Sending(m))' = n + (IF w \in Sending(m)' THEN 1 ELSE 0)
      BY <1>8, CountStep
    <3>2. /\ w \in Sending(m) <=> worker[w].claimed
          /\ w \notin Sending(m)'
          /\ w \in Holding(m) <=> worker[w].claimed
          /\ w \in Holding(m)' <=> worker[w].claimed
      BY <1>0, <1>1, <1>3, <1>7, <1>8 DEF Sending, Holding
    <3>3. Holding(m)' = Holding(m)
      <4>1. Holding(m)' \ {w} = Holding(m) \ {w}
        BY <1>8, CountStep
      <4> QED
        BY <3>2, <4>1
    <3>4. KeyPays(m)' = KeyPays(m) /\ KeyPays(m) \in {0, 1}
      BY <1>0, <3>3 DEF KeyPays
    <3>5. outbox[m] + Cardinality(Sending(m)) <= slips[m] + KeyPays(m)
      BY <1>0 DEF SendsArePaidFor
    <3>6. CASE worker[w].claimed
      <4>1. Cardinality(Sending(m)) = n + 1 /\ Cardinality(Sending(m))' = n
        BY <3>1, <3>2, <3>6
      <4>2. slips'[m] = slips[m]
        BY <1>5, <3>6
      <4> QED
        BY <1>5, <2>2, <3>4, <3>5, <4>1, <4>2
    <3>7. CASE ~worker[w].claimed
      <4>1. Cardinality(Sending(m)) = n /\ Cardinality(Sending(m))' = n
        BY <3>1, <3>2, <3>7
      <4>2. slips'[m] = slips[m] + 1
        BY <1>5, <3>7
      <4> QED
        BY <1>5, <2>2, <3>4, <3>5, <4>1, <4>2
    <3> QED
      BY <3>6, <3>7
  <2> QED
    BY <2>1, <2>2
<1>10. \A k \in Mails : outbox[k] > 0 => outbox'[k] > 0
  BY <1>0, <1>5
<1>11. \A k \in Mails : onceKey'[k] = "done" => outbox'[k] > 0
  BY <1>0, <1>10 DEF DoneMeansSent
<1>12. outbox'[m] > 0
  BY <1>5
<1>13. pc # "idle" /\ pc # "received" /\ onceKey' \in [Mails -> {"none", "running", "done"}]
  BY <1>0, <1>3
<1> QED
  BY <1>0, <1>2, <1>5, <1>6, <1>7, <1>9, <1>10, <1>11, <1>12, <1>13, MailFrame

\* The transport throws: the send that was under way is given up, and with it the
\* claim, unless Redis is away and the key has to run out.
LEMMA FailSteps ==
    ASSUME BusInv, NEW w \in Workers, SendFails(w)
    PROVE  BusInv'
<1> USE BusConstants
<1>0. /\ worker[w] \in WorkerState /\ WorkerSound(w) /\ worker[w].mailPc = "sending"
      /\ UNCHANGED <<queued, redis, outbox, slips, factRows, directRows>>
      /\ outbox \in [Mails -> Nat] /\ slips \in [Mails -> Nat]
      /\ onceKey \in [Mails -> {"none", "running", "done"}] /\ DoneMeansSent
      /\ SendsArePaidFor
  BY DEF BusInv, BusTypeOK, WorkerState, SendFails, brokerVars
<1>1. PICK m \in Mails : m = worker[w].mail
  BY <1>0 DEF WorkerSound
<1>2. worker[w].mode # "stopped"
  BY <1>0 DEF WorkerSound
<1>3. /\ MailGoes(w, "failed")
      /\ onceKey' = [onceKey EXCEPT ![m] =
            IF worker[w].claimed /\ redis.up THEN "none" ELSE @]
  BY <1>1 DEF SendFails
<1>4. /\ onceKey' \in [Mails -> {"none", "running", "done"}]
      /\ onceKey'[m] = onceKey[m] \/ (onceKey'[m] = "none" /\ worker[w].claimed)
      /\ \A k \in Mails : k # m => onceKey'[k] = onceKey[k]
  BY <1>0, <1>3
<1> DEFINE x == [worker[w] EXCEPT !.mailPc = "failed"]
<1>5. worker' = [worker EXCEPT ![w] = x]
  BY <1>3 DEF MailGoes
<1>6. /\ x \in WorkerState /\ x.mailPc = "failed" /\ x.mail = m /\ x.claimed = worker[w].claimed
      /\ x.mode = worker[w].mode
      /\ x.batchPc = worker[w].batchPc /\ x.buffer = worker[w].buffer
  BY <1>0, <1>1 DEF WorkerState
<1> HIDE DEF x
<1>7. worker'[w] = x /\ \A v \in Workers : v # w => worker'[v] = worker[v]
  BY <1>5 DEF BusInv, BusTypeOK
<1>8. SendsArePaidFor'
  <2> SUFFICES ASSUME NEW k \in Mails
               PROVE  outbox'[k] + Cardinality(Sending(k))' <= slips'[k] + KeyPays(k)'
    BY DEF SendsArePaidFor
  <2>1. CASE k # m
    BY <1>0, <1>1, <1>4, <1>6, <1>7, <2>1, OthersPaid
  <2>2. CASE k = m
    <3>1. PICK n \in Nat :
            /\ Cardinality(Sending(m)) = n + (IF w \in Sending(m) THEN 1 ELSE 0)
            /\ Cardinality(Sending(m))' = n + (IF w \in Sending(m)' THEN 1 ELSE 0)
      BY <1>7, CountStep
    <3>2. /\ w \in Sending(m) <=> worker[w].claimed
          /\ w \notin Sending(m)'
          /\ w \in Holding(m) <=> worker[w].claimed
          /\ w \notin Holding(m)'
      BY <1>0, <1>1, <1>6, <1>7 DEF Sending, Holding
    <3>3. outbox[m] + Cardinality(Sending(m)) <= slips[m] + KeyPays(m)
      BY <1>0 DEF SendsArePaidFor
    <3>4. KeyPays(m) \in {0, 1} /\ KeyPays(m)' \in {0, 1}
      BY DEF KeyPays
    <3>5. outbox'[m] = outbox[m] /\ slips'[m] = slips[m] /\ outbox[m] \in Nat /\ slips[m] \in Nat
      BY <1>0
    <3>6. CASE worker[w].claimed
      <4>1. Cardinality(Sending(m)) = n + 1 /\ Cardinality(Sending(m))' = n
        BY <3>1, <3>2, <3>6
      <4> QED
        BY <2>2, <3>3, <3>4, <3>5, <4>1
    <3>7. CASE ~worker[w].claimed
      <4>1. Cardinality(Sending(m)) = n /\ Cardinality(Sending(m))' = n
        BY <3>1, <3>2, <3>7
      <4>2. Holding(m)' = Holding(m)
        <5>1. Holding(m)' \ {w} = Holding(m) \ {w}
          BY <1>7, CountStep
        <5> QED
          BY <3>2, <3>7, <5>1
      <4>3. KeyPays(m)' = KeyPays(m)
        BY <1>4, <3>7, <4>2 DEF KeyPays
      <4> QED
        BY <2>2, <3>3, <3>4, <3>5, <4>1, <4>3
    <3> QED
      BY <3>6, <3>7
  <2> QED
    BY <2>1, <2>2
<1>9. \A k \in Mails : onceKey'[k] = "done" => outbox'[k] > 0
  BY <1>0, <1>4 DEF DoneMeansSent
<1> QED
  BY <1>0, <1>2, <1>4, <1>5, <1>6, <1>8, <1>9, MailFrame

\* The send is recorded in the key, or Redis is away and that costs a slip.
LEMMA MarkSteps ==
    ASSUME BusInv, NEW w \in Workers, MarkDone(w)
    PROVE  BusInv'
<1> USE BusConstants
<1>0. /\ worker[w] \in WorkerState /\ WorkerSound(w) /\ worker[w].mailPc = "sent"
      /\ UNCHANGED <<queued, redis, outbox, factRows, directRows>>
      /\ outbox \in [Mails -> Nat] /\ slips \in [Mails -> Nat]
      /\ onceKey \in [Mails -> {"none", "running", "done"}] /\ DoneMeansSent
      /\ SendsArePaidFor
  BY DEF BusInv, BusTypeOK, WorkerState, MarkDone, brokerVars
<1>1. PICK m \in Mails : m = worker[w].mail
  BY <1>0 DEF WorkerSound
<1>2. worker[w].mode # "stopped" /\ outbox[m] > 0
  BY <1>0, <1>1 DEF WorkerSound
<1>3. /\ MailGoes(w, "handled")
      /\ \/ onceKey' = [onceKey EXCEPT ![m] = "done"] /\ slips' = slips
         \/ onceKey' = onceKey /\ slips' = [slips EXCEPT ![m] = @ + 1]
  BY <1>1 DEF MarkDone, Slip
<1>4. /\ onceKey' \in [Mails -> {"none", "running", "done"}]
      /\ slips' \in [Mails -> Nat] /\ slips[m] \in Nat
      /\ \/ onceKey'[m] = "done" /\ slips'[m] = slips[m]
         \/ onceKey'[m] = onceKey[m] /\ slips'[m] = slips[m] + 1
      /\ \A k \in Mails : k # m => onceKey'[k] = onceKey[k] /\ slips'[k] = slips[k]
  BY <1>0, <1>3
<1> DEFINE x == [worker[w] EXCEPT !.mailPc = "handled"]
<1>5. worker' = [worker EXCEPT ![w] = x]
  BY <1>3 DEF MailGoes
<1>6. /\ x \in WorkerState /\ x.mailPc = "handled" /\ x.mail = m /\ x.claimed = worker[w].claimed
      /\ x.mode = worker[w].mode
      /\ x.batchPc = worker[w].batchPc /\ x.buffer = worker[w].buffer
  BY <1>0, <1>1 DEF WorkerState
<1> HIDE DEF x
<1>7. worker'[w] = x /\ \A v \in Workers : v # w => worker'[v] = worker[v]
  BY <1>5 DEF BusInv, BusTypeOK
<1>8. SendsArePaidFor'
  <2> SUFFICES ASSUME NEW k \in Mails
               PROVE  outbox'[k] + Cardinality(Sending(k))' <= slips'[k] + KeyPays(k)'
    BY DEF SendsArePaidFor
  <2>1. CASE k # m
    BY <1>0, <1>1, <1>4, <1>6, <1>7, <2>1, OthersPaid
  <2>2. CASE k = m
    <3>1. PICK n \in Nat :
            /\ Cardinality(Sending(m)) = n + (IF w \in Sending(m) THEN 1 ELSE 0)
            /\ Cardinality(Sending(m))' = n + (IF w \in Sending(m)' THEN 1 ELSE 0)
      BY <1>7, CountStep
    <3>2. w \notin Sending(m) /\ w \notin Sending(m)'
      BY <1>0, <1>1, <1>6, <1>7 DEF Sending
    <3>3. Cardinality(Sending(m)) = n /\ Cardinality(Sending(m))' = n
      BY <3>1, <3>2
    <3>4. outbox[m] + Cardinality(Sending(m)) <= slips[m] + KeyPays(m)
      BY <1>0 DEF SendsArePaidFor
    <3>5. /\ KeyPays(m) \in {0, 1} /\ KeyPays(m)' \in {0, 1}
          /\ onceKey'[m] = "done" => KeyPays(m)' = 1
      BY DEF KeyPays
    <3>6. outbox'[m] = outbox[m] /\ outbox[m] \in Nat
      BY <1>0
    <3> QED
      BY <1>4, <2>2, <3>3, <3>4, <3>5, <3>6
  <2> QED
    BY <2>1, <2>2
<1>9. \A k \in Mails : onceKey'[k] = "done" => outbox'[k] > 0
  <2> TAKE k \in Mails
  <2> QED
    BY <1>0, <1>2, <1>4 DEF DoneMeansSent
<1>10. outbox'[m] > 0
  BY <1>0, <1>2
<1> QED
  BY <1>0, <1>2, <1>4, <1>5, <1>6, <1>8, <1>9, <1>10, MailFrame

\* A worker that dies gives up the send it was about to make; one that had sent
\* and not recorded it costs a slip.
LEMMA DeathSteps ==
    ASSUME BusInv, NEW w \in Workers, WorkerDies(w)
    PROVE  BusInv'
<1> USE BusConstants
<1>0. /\ worker[w] \in WorkerState /\ WorkerSound(w)
      /\ UNCHANGED <<queued, onceKey, redis, outbox, factRows, directRows>>
      /\ outbox \in [Mails -> Nat] /\ slips \in [Mails -> Nat]
      /\ onceKey \in [Mails -> {"none", "running", "done"}] /\ DoneMeansSent
      /\ SendsArePaidFor
  BY DEF BusInv, BusTypeOK, WorkerState, WorkerDies, brokerVars
<1> DEFINE x == [Awake EXCEPT !.mode = "stopped"]
<1>1. worker' = [worker EXCEPT ![w] = x]
  BY DEF WorkerDies
<1>2. /\ x \in WorkerState /\ x.mode = "stopped" /\ x.mailPc = "idle" /\ ~x.claimed
      /\ x.batchPc = "idle" /\ x.buffer = {}
  BY DEF WorkerState, Awake
<1> HIDE DEF x
<1>3. worker'[w] = x /\ \A v \in Workers : v # w => worker'[v] = worker[v]
  BY <1>1 DEF BusInv, BusTypeOK
<1>4. \A k \in Mails : w \notin Sending(k)' /\ w \notin Holding(k)'
  BY <1>2, <1>3 DEF Sending, Holding
<1>5. slips' \in [Mails -> Nat] /\ SendsArePaidFor'
  <2>1. CASE worker[w].mailPc \notin {"sending", "sent"}
    <3>1. slips' = slips
      BY <2>1 DEF WorkerDies
    <3>2. \A k \in Mails : w \notin Sending(k) /\ w \notin Holding(k)
      BY <2>1 DEF Sending, Holding
    <3> QED
      BY <1>0, <1>3, <1>4, <3>1, <3>2, PaidStep
  <2>2. CASE worker[w].mailPc \in {"sending", "sent"}
    <3>1. PICK m \in Mails : m = worker[w].mail
      BY <1>0, <2>2 DEF WorkerSound
    <3>2. slips' = IF worker[w].mailPc = "sent" THEN [slips EXCEPT ![m] = @ + 1] ELSE slips
      BY <3>1 DEF WorkerDies, Slip
    <3>3. /\ slips' \in [Mails -> Nat] /\ slips[m] \in Nat
          /\ slips'[m] = slips[m] + (IF worker[w].mailPc = "sent" THEN 1 ELSE 0)
          /\ \A k \in Mails : k # m => slips'[k] = slips[k]
      BY <1>0, <3>2
    <3>4. ASSUME NEW k \in Mails
          PROVE  outbox'[k] + Cardinality(Sending(k))' <= slips'[k] + KeyPays(k)'
      <4>1. CASE k # m
        BY <1>0, <1>2, <1>3, <3>1, <3>3, <4>1, OthersPaid
      <4>2. CASE k = m
        <5>1. PICK n \in Nat :
                /\ Cardinality(Sending(m)) = n + (IF w \in Sending(m) THEN 1 ELSE 0)
                /\ Cardinality(Sending(m))' = n + (IF w \in Sending(m)' THEN 1 ELSE 0)
          BY <1>3, CountStep
        <5>2. /\ w \in Sending(m) <=> (worker[w].claimed /\ worker[w].mailPc = "sending")
              /\ w \in Holding(m) <=> worker[w].claimed
          BY <2>2, <3>1 DEF Sending, Holding
        <5>3. outbox[m] + Cardinality(Sending(m)) <= slips[m] + KeyPays(m)
          BY <1>0 DEF SendsArePaidFor
        <5>4. KeyPays(m) \in {0, 1} /\ KeyPays(m)' \in {0, 1}
          BY DEF KeyPays
        <5>5. Cardinality(Sending(m))' = n /\ outbox'[m] = outbox[m] /\ outbox[m] \in Nat
          BY <1>0, <1>4, <5>1
        <5>6. CASE worker[w].mailPc = "sent"
          <6>1. Cardinality(Sending(m)) = n /\ slips'[m] = slips[m] + 1
            BY <3>3, <5>1, <5>2, <5>6
          <6> QED
            BY <3>3, <4>2, <5>3, <5>4, <5>5, <6>1
        <5>7. CASE worker[w].mailPc = "sending" /\ worker[w].claimed
          <6>1. Cardinality(Sending(m)) = n + 1 /\ slips'[m] = slips[m]
            BY <3>3, <5>1, <5>2, <5>7
          <6> QED
            BY <3>3, <4>2, <5>3, <5>4, <5>5, <6>1
        <5>8. CASE worker[w].mailPc = "sending" /\ ~worker[w].claimed
          <6>1. Cardinality(Sending(m)) = n /\ slips'[m] = slips[m]
            BY <3>3, <5>1, <5>2, <5>8
          <6>2. Holding(m)' = Holding(m)
            <7>1. Holding(m)' \ {w} = Holding(m) \ {w}
              BY <1>3, CountStep
            <7>2. w \notin Holding(m) /\ w \notin Holding(m)'
              BY <1>4, <5>2, <5>8
            <7>3. \A v : v \in Holding(m)' <=> v \in Holding(m)
              BY <7>1, <7>2, Zenon
            <7> QED
              BY <7>3
          <6>3. KeyPays(m)' = KeyPays(m)
            BY <1>0, <6>2 DEF KeyPays
          <6> QED
            BY <3>3, <4>2, <5>3, <5>4, <5>5, <6>1, <6>3
        <5> QED
          BY <2>2, <5>6, <5>7, <5>8
      <4> QED
        BY <4>1, <4>2
    <3> QED
      BY <3>3, <3>4 DEF SendsArePaidFor
  <2> QED
    BY <2>1, <2>2
<1>6. \A k \in Mails : onceKey'[k] = "done" => outbox'[k] > 0
  BY <1>0 DEF DoneMeansSent
<1>7. /\ \A k \in Mails : outbox[k] > 0 => outbox'[k] > 0
      /\ outbox' \in [Mails -> Nat] /\ onceKey' \in [Mails -> {"none", "running", "done"}]
  BY <1>0
<1> QED
  BY <1>0, <1>1, <1>2, <1>5, <1>6, <1>7, MailFrame

-----------------------------------------------------------------------------
\* Every step of publishers, queues, workers and Redis keeps the invariant.
LEMMA BusInvStep == BusInv /\ [BusNext]_busVars => BusInv'
<1> SUFFICES ASSUME BusInv, [BusNext]_busVars PROVE BusInv'
  OBVIOUS
<1>1. ASSUME NEW m \in Messages, Publish(m) \/ RecordFacts(m) PROVE BusInv'
  BY <1>1, BrokerSteps
<1>2. ASSUME NEW m \in Messages, VisibilityTimeout(m) \/ Redrive(m) PROVE BusInv'
  BY <1>2, BrokerSteps
<1>3. ASSUME NEW w \in Workers, NEW m \in Messages, Take(w, m) PROVE BusInv'
  BY <1>3, BrokerSteps, MailEdges, BatchSteps DEF Take
<1>4. ASSUME NEW w \in Workers, MailStep(w) PROVE BusInv'
  BY <1>4, MailEdges, ClaimSteps, SendSteps, FailSteps, MarkSteps DEF MailStep
<1>5. ASSUME NEW w \in Workers, BatchStep(w) PROVE BusInv'
  BY <1>5, BatchSteps
<1>6. ASSUME NEW w \in Workers,
             WorkerDies(w) \/ SigTerm(w) \/ ShutdownEnds(w) \/ StartWorker(w)
      PROVE  BusInv'
  BY <1>6, DeathSteps, ProcessSteps
<1>7. ASSUME RedisDrops \/ RedisReconnects \/ \E m \in Mails : ClaimLapses(m) PROVE BusInv'
  BY <1>7, RedisSteps
<1>8. CASE UNCHANGED busVars
  BY <1>8 DEF busVars, brokerVars, BusInv, BusTypeOK, DeletedMeansHandled, AcceptedFactsAreKept,
         WorkerSound, DoneMeansSent, SendsArePaidFor, KeyPays, Sending, Holding
<1> QED
  BY <1>1, <1>2, <1>3, <1>4, <1>5, <1>6, <1>7, <1>8 DEF BusNext, BusStep

\* Nothing was sent, received or deleted at the start.
LEMMA BusInvInit == BusInit => BusInv
<1> SUFFICES ASSUME BusInit PROVE BusInv
  OBVIOUS
<1> USE BusConstants
<1>1. /\ worker = [w \in Workers |-> Awake] /\ Awake \in WorkerState
      /\ Awake.mode = "running" /\ Awake.mailPc = "idle" /\ ~Awake.claimed
      /\ Awake.batchPc = "idle"
  BY DEF BusInit, Awake, WorkerState
<1>2. 0 \in 0..MaxReceives /\ 0 \in 0..MaxOutages
  OBVIOUS
<1>3. BusTypeOK
  <2>1. worker \in [Workers -> WorkerState]
    BY <1>1
  <2>2. queued \in [Messages -> [at : Places, receives : 0..MaxReceives]]
    BY <1>2 DEF BusInit, Places
  <2>3. redis \in [up : BOOLEAN, outages : 0..MaxOutages]
    BY <1>2 DEF BusInit
  <2> QED
    BY <2>1, <2>2, <2>3 DEF BusInit, BusTypeOK, WorkerState, Places
<1>4. DeletedMeansHandled /\ AcceptedFactsAreKept /\ DoneMeansSent
  BY DEF BusInit, DeletedMeansHandled, AcceptedFactsAreKept, DoneMeansSent
<1>5. \A w \in Workers : WorkerSound(w)
  BY <1>1 DEF WorkerSound
<1>6. SendsArePaidFor
  <2> SUFFICES ASSUME NEW m \in Mails
               PROVE  outbox[m] + Cardinality(Sending(m)) <= slips[m] + KeyPays(m)
    BY DEF SendsArePaidFor
  <2>1. Sending(m) = {} /\ Holding(m) = {}
    BY <1>1 DEF Sending, Holding
  <2>2. Cardinality(Sending(m)) = 0
    BY <2>1, FS_EmptySet
  <2>3. KeyPays(m) = 0 /\ outbox[m] = 0 /\ slips[m] = 0
    BY <2>1 DEF BusInit, KeyPays
  <2> QED
    BY <2>2, <2>3
<1> QED
  BY <1>3, <1>4, <1>5, <1>6 DEF BusInv

\* The count of sends is the bound on them.
LEMMA BusInvSafe == BusInv => DeliveryIsSafe
<1> SUFFICES ASSUME BusInv PROVE DeliveryIsSafe
  OBVIOUS
<1> USE DEF BusInv
<1>1. MailSentOnce
  <2> SUFFICES ASSUME NEW m \in Mails PROVE outbox[m] <= 1 + slips[m]
    BY DEF MailSentOnce
  <2>1. outbox[m] + Cardinality(Sending(m)) <= slips[m] + KeyPays(m)
    BY DEF SendsArePaidFor
  <2>2. Cardinality(Sending(m)) \in Nat /\ KeyPays(m) \in {0, 1}
    BY SendingIsNat DEF KeyPays
  <2>3. outbox[m] \in Nat /\ slips[m] \in Nat
    BY DEF BusTypeOK
  <2> QED
    BY <2>1, <2>2, <2>3
<1>2. StoppedWorkersHoldNothing
  BY DEF StoppedWorkersHoldNothing, WorkerSound, Busy
<1> QED
  BY <1>1, <1>2 DEF DeliveryIsSafe

\* No message is deleted before it was handled, every accepted fact is stored or
\* still queued, a worker that stopped holds nothing, and a mail is sent once, and
\* again only for each time something cost runOnce its record.
THEOREM EventsDeliveredSafely == BusSpec => []DeliveryIsSafe
<1> QED
  BY BusInvInit, BusInvSafe, BusInvStep, PTL DEF BusSpec

-----------------------------------------------------------------------------
(* Rankings: the invariant                                                 *)

\* What the service can have stamped.
SightingRow ==
    {Unreported} \cup
    {[type |-> x.type, targets |-> x.targets, session |-> x.session, hour |-> h] :
        x \in EventShapes, h \in 0 .. MaxHour}

RollupCounts == [views : Nat, clicks : Int]

\* Everything reported on a day, whether its row has been written or not.
SeenOn(d) == {e \in Sightings : DayOf(sighting[e].hour) = d}

\* A count of a target for a day, whoever holds it, says no more than what was seen,
\* and what the table says if nothing came in after it was made.
CountIsTrue(d, t, c) ==
    c # NoCounts =>
       /\ c.views \in Nat /\ c.views <= Cardinality(Visits(SeenOn(d), t))
       /\ d \notin cameLate => c = Aggregate(d, t)

RankingShape ==
    /\ hourNow \in 0 .. MaxHour
    /\ sighting \in [Sightings -> SightingRow]
    /\ inQueue \subseteq Sightings
    /\ eventRows \in [Sightings -> [bus : {0, 1}, direct : {0, 1}]]
    /\ rollup \in [Days -> [Targets -> RollupCounts \cup {NoCounts}]]
    /\ rolling \in [RollupRuns -> [day : Days \cup {-1}, counts : [Targets -> RollupCounts \cup {NoCounts}]]]
    /\ \A e \in Sightings :
          /\ sighting[e].hour <= hourNow
          /\ e \in inQueue \/ Stored(e) => sighting[e].type # "NONE"
    /\ \A d \in Days, t \in Targets : rollup[d][t] # NoCounts => d < DayOf(hourNow)
    /\ \A j \in RollupRuns :
          rolling[j] # NotRolling => rolling[j].day \in Days /\ rolling[j].day < DayOf(hourNow)

\* The rows and what a run has aggregated and not saved are held to the same.
CountsAreTrue ==
    /\ \A d \in Days, t \in Targets : CountIsTrue(d, t, rollup[d][t])
    /\ \A j \in RollupRuns, t \in Targets :
          rolling[j] # NotRolling => CountIsTrue(rolling[j].day, t, rolling[j].counts[t])

RankingInv == RankingShape /\ CountsAreTrue

-----------------------------------------------------------------------------
(* Rankings: hours, days and visits                                        *)

\* Days pass with the hours, and an hour lies in its day.
LEMMA HoursAndDays ==
    /\ \A h \in Nat : DayOf(h) \in Nat /\ DayOf(h) * DayHours <= h
    /\ \A h, k \in Nat : h <= k => DayOf(h) <= DayOf(k)
    /\ \A h \in 0 .. MaxHour : DayOf(h) \in Days
<1>1. PICK D \in Nat \ {0} : D = DayHours
  BY RankingConstants
<1>2. PICK M \in Nat : M = MaxHour
  BY RankingConstants
<1>3. \A h \in Nat : h \div D \in Nat /\ (h \div D) * D <= h
  OBVIOUS
<1>4. \A h, k \in Nat : h <= k => h \div D <= k \div D
  OBVIOUS
<1> QED
  BY <1>1, <1>2, <1>3, <1>4 DEF DayOf, Days

LEMMA SightingTyped ==
    ASSUME RankingShape, NEW e \in Sightings
    PROVE  /\ sighting[e].hour \in Nat /\ sighting[e].hour <= hourNow /\ hourNow \in Nat
           /\ sighting[e].targets \subseteq Targets
           /\ DayOf(sighting[e].hour) \in Days
<1>1. sighting[e] \in SightingRow /\ hourNow \in 0 .. MaxHour /\ sighting[e].hour <= hourNow
  BY DEF RankingShape
<1>2. sighting[e].hour \in 0 .. MaxHour /\ sighting[e].targets \subseteq Targets
  BY <1>1, RankingConstants DEF SightingRow, Unreported
<1> QED
  BY <1>1, <1>2, HoursAndDays, RankingConstants

\* The visits among the events es if s is what was reported.
VisitsIn(s, es, t) ==
    {<<s[e].session, s[e].hour>> : e \in {x \in es : s[x].type = ViewType(t) /\ t \in s[x].targets}}

\* The visits of finitely many events are finitely many.
LEMMA VisitsAreFinite ==
    ASSUME NEW s, NEW es \in SUBSET Sightings, NEW t
    PROVE  IsFiniteSet(VisitsIn(s, es, t)) /\ Cardinality(VisitsIn(s, es, t)) \in Nat
<1> DEFINE S == {x \in es : s[x].type = ViewType(t) /\ t \in s[x].targets}
           f == [e \in S |-> <<s[e].session, s[e].hour>>]
<1>1. IsFiniteSet(S)
  BY RankingConstants, FS_Subset
<1>2. f \in Surjection(S, VisitsIn(s, es, t))
  BY DEF VisitsIn, Surjection
<1>3. IsFiniteSet(VisitsIn(s, es, t))
  <2> HIDE DEF S, f
  <2> QED
    BY <1>1, <1>2, FS_Surjection
<1> QED
  BY <1>3, FS_CardinalityType

\* A smaller set of visits has fewer of them.
LEMMA FewerVisits ==
    ASSUME NEW s, NEW es \in SUBSET Sightings, NEW t,
           NEW V \in SUBSET VisitsIn(s, es, t)
    PROVE  IsFiniteSet(V) /\ Cardinality(V) \in Nat /\ Cardinality(V) <= Cardinality(VisitsIn(s, es, t))
BY VisitsAreFinite, FS_Subset, FS_CardinalityType

\* A rollup has the types of its columns.
LEMMA AggregateTyped ==
    ASSUME RankingShape, NEW d, NEW t
    PROVE  /\ Aggregate(d, t) \in RollupCounts \cup {NoCounts}
           /\ Aggregate(d, t) # NoCounts =>
                 /\ Aggregate(d, t).views \in Nat
                 /\ Aggregate(d, t).views <= Cardinality(Visits(SeenOn(d), t))
<1> DEFINE f == [e \in Sightings |-> eventRows[e].bus + eventRows[e].direct]
           S == {e \in StoredOn(d) : sighting[e].type = "PRODUCT_CLICK" /\ t \in sighting[e].targets}
<1>1. f \in [Sightings -> Int]
  BY DEF RankingShape
<1>2. S \in SUBSET Sightings /\ IsFiniteSet(S)
  BY RankingConstants, FS_Subset DEF StoredOn
<1>3. Clicks(StoredOn(d), t) \in Int
  <2>1. SumFunctionOnSet(f, S) \in Int
    <3> HIDE DEF f, S
    <3> QED
      BY <1>1, <1>2, SumInt
  <2> QED
    BY <2>1 DEF Clicks
<1>4. StoredOn(d) \in SUBSET Sightings /\ SeenOn(d) \in SUBSET Sightings
  BY DEF StoredOn, SeenOn
<1>5. Visits(StoredOn(d), t) \subseteq Visits(SeenOn(d), t)
  BY DEF Visits, StoredOn, SeenOn
<1>6. /\ Cardinality(Visits(StoredOn(d), t)) \in Nat
      /\ Cardinality(Visits(StoredOn(d), t)) <= Cardinality(Visits(SeenOn(d), t))
  <2>1. /\ Visits(StoredOn(d), t) \subseteq VisitsIn(sighting, SeenOn(d), t)
        /\ Visits(SeenOn(d), t) = VisitsIn(sighting, SeenOn(d), t)
    BY <1>5 DEF Visits, VisitsIn
  <2> QED
    BY <1>4, <2>1, FewerVisits
<1>7. CASE \E e \in StoredOn(d) : t \in sighting[e].targets
  BY <1>3, <1>6, <1>7 DEF Aggregate, RollupCounts
<1>8. CASE ~ \E e \in StoredOn(d) : t \in sighting[e].targets
  BY <1>8 DEF Aggregate
<1> QED
  BY <1>7, <1>8

\* A count that was just made is true.
LEMMA FreshCountIsTrue ==
    ASSUME RankingShape, NEW d, NEW t
    PROVE  CountIsTrue(d, t, Aggregate(d, t))
BY AggregateTyped DEF CountIsTrue

\* The aggregate of a day stays the same while its rows do.
LEMMA AggregateStays ==
    ASSUME NEW d, NEW t, StoredOn(d)' = StoredOn(d),
           \A e \in StoredOn(d) : sighting'[e] = sighting[e] /\ eventRows'[e] = eventRows[e]
    PROVE  Aggregate(d, t)' = Aggregate(d, t)
<1>1. Visits(StoredOn(d), t)' = Visits(StoredOn(d), t)
  BY DEF Visits
<1>2. Clicks(StoredOn(d), t)' = Clicks(StoredOn(d), t)
  <2> DEFINE f == [e \in Sightings |-> eventRows[e].bus + eventRows[e].direct]
             g == [e \in Sightings |-> eventRows'[e].bus + eventRows'[e].direct]
             S == {e \in StoredOn(d) : sighting[e].type = "PRODUCT_CLICK" /\ t \in sighting[e].targets}
  <2>1. IsFiniteSet(S) /\ \A e \in S : f[e] = g[e]
    BY RankingConstants, FS_Subset DEF StoredOn
  <2>2. S = {e \in StoredOn(d)' : sighting'[e].type = "PRODUCT_CLICK" /\ t \in sighting'[e].targets}
    OBVIOUS
  <2>3. Clicks(StoredOn(d), t) = SumFunctionOnSet(f, S)
    BY DEF Clicks
  <2>4. Clicks(StoredOn(d), t)' = SumFunctionOnSet(g, S)
    BY <2>2 DEF Clicks
  <2> HIDE DEF f, g, S
  <2> QED
    BY <2>1, <2>3, <2>4, SumSame
<1>3. (\E e \in StoredOn(d) : t \in sighting[e].targets)
      <=> (\E e \in StoredOn(d)' : t \in sighting'[e].targets)
  OBVIOUS
<1> QED
  BY <1>1, <1>2, <1>3 DEF Aggregate

-----------------------------------------------------------------------------
(* Rankings: the steps                                                     *)

\* A count stays true while its day sees no fewer visits and, unless it is noted as
\* late, keeps its rows.
LEMMA CountStays ==
    ASSUME NEW d, NEW t, NEW c, CountIsTrue(d, t, c),
           cameLate \subseteq cameLate',
           Visits(SeenOn(d), t) \subseteq Visits(SeenOn(d), t)',
           c # NoCounts /\ d \notin cameLate' => Aggregate(d, t)' = Aggregate(d, t)
    PROVE  CountIsTrue(d, t, c)'
<1>1. /\ Visits(SeenOn(d), t)' = VisitsIn(sighting', SeenOn(d)', t)
      /\ SeenOn(d)' \in SUBSET Sightings
  BY DEF Visits, VisitsIn, SeenOn
<1>2. /\ Cardinality(Visits(SeenOn(d), t)) \in Nat /\ Cardinality(Visits(SeenOn(d), t)') \in Nat
      /\ Cardinality(Visits(SeenOn(d), t)) <= Cardinality(Visits(SeenOn(d), t)')
  BY <1>1, VisitsAreFinite, FewerVisits
<1> QED
  BY <1>2 DEF CountIsTrue

\* Some count of the day was made.
Counted(d) ==
    \/ \E t \in Targets : rollup[d][t] # NoCounts
    \/ \E j \in RollupRuns : rolling[j].day = d

\* An event is reported, or its row is written, and no count is touched: a day whose
\* rows change is noted as late if any count of it was made.
LEMMA CountsArrive ==
    ASSUME RankingShape, CountsAreTrue, UNCHANGED <<rollup, rolling>>,
           cameLate \subseteq cameLate',
           \A d \in Days, t \in Targets : Visits(SeenOn(d), t) \subseteq Visits(SeenOn(d), t)',
           \A d \in Days, t \in Targets :
              Counted(d) /\ d \notin cameLate' => Aggregate(d, t)' = Aggregate(d, t)
    PROVE  CountsAreTrue'
<1>1. ASSUME NEW d \in Days, NEW t \in Targets, NEW c, CountIsTrue(d, t, c), Counted(d)
      PROVE  CountIsTrue(d, t, c)'
  BY <1>1, CountStays
<1>2. ASSUME NEW d \in Days, NEW t \in Targets PROVE CountIsTrue(d, t, rollup[d][t])'
  <2>1. PICK c : c = rollup[d][t]
    OBVIOUS
  <2>2. CountIsTrue(d, t, c)'
    <3>1. CASE c = NoCounts
      BY <3>1 DEF CountIsTrue
    <3>2. CASE c # NoCounts
      BY <1>1, <2>1, <3>2 DEF CountsAreTrue, Counted
    <3> QED
      BY <3>1, <3>2
  <2> QED
    BY <2>1, <2>2 DEF CountIsTrue
<1>3. ASSUME NEW j \in RollupRuns, NEW t \in Targets, rolling[j] # NotRolling
      PROVE  CountIsTrue(rolling[j].day, t, rolling[j].counts[t])'
  <2>1. PICK c, d : c = rolling[j].counts[t] /\ d = rolling[j].day
    OBVIOUS
  <2>2. d \in Days
    BY <1>3, <2>1 DEF RankingShape
  <2>3. CountIsTrue(d, t, c)'
    BY <1>1, <1>3, <2>1, <2>2 DEF CountsAreTrue, Counted
  <2> QED
    BY <2>1, <2>3 DEF CountIsTrue
<1> QED
  BY <1>2, <1>3 DEF CountsAreTrue

\* Rows of one day change, those of the others do not.
LEMMA DayArrives ==
    ASSUME RankingShape, NEW e \in Sightings, NEW day \in Days,
           DayOf(sighting'[e].hour) = day, Stored(e) => DayOf(sighting[e].hour) = day,
           \A x \in Sightings \ {e} : sighting'[x] = sighting[x] /\ eventRows'[x] = eventRows[x],
           NEW d \in Days, d # day, NEW t
    PROVE  Aggregate(d, t)' = Aggregate(d, t)
<1>1. StoredOn(d)' = StoredOn(d)
  BY DEF StoredOn, Stored
<1>2. e \notin StoredOn(d)
  BY DEF StoredOn
<1> QED
  BY <1>1, <1>2, AggregateStays DEF StoredOn

\* A client reports an event.
LEMMA RecordStep ==
    ASSUME RankingInv, NEW e \in Sightings, NEW shape \in EventShapes, NEW supplied \in 0 .. MaxHour,
           RecordSighting(e, shape, supplied)
    PROVE  RankingInv'
<1> USE DEF RankingInv
<1>1. PICK h : h = StampedHour(supplied)
  OBVIOUS
<1>2. PICK row : row = [type |-> shape.type, targets |-> shape.targets, session |-> shape.session, hour |-> h]
  OBVIOUS
<1>3. hourNow \in 0 .. MaxHour /\ MaxHour \in Nat /\ h \in 0 .. MaxHour /\ h <= hourNow
  BY <1>1, RankingConstants DEF RankingShape, StampedHour
<1>4. row \in SightingRow /\ row.hour = h /\ row.type # "NONE"
  BY <1>2, <1>3, RankingConstants DEF SightingRow
<1>5. /\ sighting[e].type = "NONE" /\ ~Stored(e)
      /\ sighting' = [sighting EXCEPT ![e] = row]
      /\ inQueue \subseteq inQueue' /\ inQueue' \subseteq inQueue \cup {e}
      /\ UNCHANGED <<hourNow, rollup, rolling>>
  BY <1>1, <1>2 DEF RecordSighting, RankingShape
<1>6. sighting'[e] = row /\ \A x \in Sightings \ {e} : sighting'[x] = sighting[x]
  BY <1>5 DEF RankingShape
<1>7. \/ UNCHANGED <<eventRows, cameLate>>
      \/ eventRows' = [eventRows EXCEPT ![e].direct = 1] /\ NoteArrival(DayOf(h))
  BY <1>1 DEF RecordSighting
<1>8. /\ eventRows' \in [Sightings -> [bus : {0, 1}, direct : {0, 1}]]
      /\ cameLate \subseteq cameLate'
      /\ \A x \in Sightings \ {e} : eventRows'[x] = eventRows[x]
  BY <1>7 DEF RankingShape, NoteArrival
<1>9. RankingShape'
  <2>1. \A x \in Sightings : sighting'[x].hour <= hourNow'
    BY <1>3, <1>4, <1>5, <1>6 DEF RankingShape
  <2>2. \A x \in Sightings : x \in inQueue' \/ Stored(x)' => sighting'[x].type # "NONE"
    BY <1>4, <1>5, <1>6, <1>8 DEF RankingShape, Stored
  <2> QED
    BY <1>4, <1>5, <1>8, <2>1, <2>2 DEF RankingShape
<1>10. \A d \in Days, t \in Targets : Visits(SeenOn(d), t) \subseteq Visits(SeenOn(d), t)'
  <2>1. \A t : ViewType(t) # "NONE"
    BY DEF ViewType
  <2>2. \A t : \A x \in Sightings : sighting[x].type = ViewType(t) => sighting'[x] = sighting[x]
    BY <1>5, <1>6, <2>1
  <2> QED
    BY <2>2 DEF Visits, SeenOn
<1>11. ASSUME NEW d \in Days, NEW t \in Targets, Counted(d), d \notin cameLate'
       PROVE  Aggregate(d, t)' = Aggregate(d, t)
  <2>1. CASE UNCHANGED <<eventRows, cameLate>>
    <3>1. StoredOn(d)' = StoredOn(d) /\ e \notin StoredOn(d)
      BY <1>5, <1>6, <2>1 DEF StoredOn, Stored
    <3> QED
      BY <1>6, <2>1, <3>1, AggregateStays DEF StoredOn
  <2>2. CASE NoteArrival(DayOf(h))
    <3>1. d # DayOf(h) /\ DayOf(h) \in Days
      BY <1>3, <1>11, <2>2, HoursAndDays DEF NoteArrival, Counted
    <3> QED
      BY <1>4, <1>5, <1>6, <1>8, <3>1, DayArrives
  <2> QED
    BY <1>7, <2>1, <2>2
<1> QED
  BY <1>5, <1>8, <1>9, <1>10, <1>11, CountsArrive

\* The consumer writes its row.
LEMMA DeliverStep ==
    ASSUME RankingInv, NEW e \in Sightings, DeliverSighting(e)
    PROVE  RankingInv'
<1> USE DEF RankingInv
<1>1. PICK day \in Days : day = DayOf(sighting[e].hour)
  BY SightingTyped
<1>2. /\ e \in inQueue /\ sighting[e].type # "NONE"
      /\ inQueue' \subseteq inQueue
      /\ UNCHANGED <<hourNow, sighting, rollup, rolling>>
  BY DEF DeliverSighting, RankingShape
<1>3. \/ UNCHANGED <<eventRows, cameLate>>
      \/ eventRows' = [eventRows EXCEPT ![e].bus = 1] /\ NoteArrival(day)
  BY <1>1 DEF DeliverSighting
<1>4. /\ eventRows' \in [Sightings -> [bus : {0, 1}, direct : {0, 1}]]
      /\ cameLate \subseteq cameLate'
      /\ \A x \in Sightings \ {e} : eventRows'[x] = eventRows[x]
  BY <1>3 DEF RankingShape, NoteArrival
<1>5. RankingShape'
  <2>1. \A x \in Sightings : x \in inQueue' \/ Stored(x)' => sighting'[x].type # "NONE"
    BY <1>2, <1>4 DEF RankingShape, Stored
  <2> QED
    BY <1>2, <1>4, <2>1 DEF RankingShape
<1>6. \A d \in Days, t \in Targets : Visits(SeenOn(d), t) \subseteq Visits(SeenOn(d), t)'
  BY <1>2 DEF Visits, SeenOn
<1>7. ASSUME NEW d \in Days, NEW t \in Targets, Counted(d), d \notin cameLate'
      PROVE  Aggregate(d, t)' = Aggregate(d, t)
  <2>1. CASE UNCHANGED <<eventRows, cameLate>>
    <3>1. StoredOn(d)' = StoredOn(d)
      BY <1>2, <2>1 DEF StoredOn, Stored
    <3> QED
      BY <1>2, <2>1, <3>1, AggregateStays
  <2>2. CASE NoteArrival(day)
    <3>1. d # day
      BY <1>7, <2>2 DEF NoteArrival, Counted
    <3> QED
      BY <1>1, <1>2, <1>4, <3>1, DayArrives
  <2> QED
    BY <1>3, <2>1, <2>2
<1> QED
  BY <1>2, <1>4, <1>5, <1>6, <1>7, CountsArrive

\* No row changes, nor what is counted: hours pass, messages are lost, runs end.
LEMMA TrueWhileUntouched ==
    ASSUME UNCHANGED <<sighting, eventRows, cameLate>>, NEW d, NEW t, NEW c, CountIsTrue(d, t, c)
    PROVE  CountIsTrue(d, t, c)'
<1>1. Visits(SeenOn(d), t)' = Visits(SeenOn(d), t)
  BY DEF Visits, SeenOn
<1>2. Aggregate(d, t)' = Aggregate(d, t)
  <2>1. StoredOn(d)' = StoredOn(d)
    BY DEF StoredOn, Stored
  <2>2. \A e \in StoredOn(d) : sighting'[e] = sighting[e] /\ eventRows'[e] = eventRows[e]
    OBVIOUS
  <2> QED
    BY <2>1, <2>2, AggregateStays
<1> QED
  BY <1>1, <1>2 DEF CountIsTrue

\* The counts stay true while each is one that was held before or was just made.
LEMMA CountsHeld ==
    ASSUME CountsAreTrue, UNCHANGED <<sighting, eventRows, cameLate>>,
           \A d \in Days, t \in Targets : CountIsTrue(d, t, rollup'[d][t]),
           \A j \in RollupRuns, t \in Targets :
              rolling'[j] # NotRolling => CountIsTrue(rolling'[j].day, t, rolling'[j].counts[t])
    PROVE  CountsAreTrue'
<1>1. ASSUME NEW d \in Days, NEW t \in Targets PROVE CountIsTrue(d, t, rollup[d][t])'
  <2>1. PICK c : c = rollup'[d][t]
    OBVIOUS
  <2>2. CountIsTrue(d, t, c)'
    BY <2>1, TrueWhileUntouched
  <2> QED
    BY <2>1, <2>2 DEF CountIsTrue
<1>2. ASSUME NEW j \in RollupRuns, NEW t \in Targets, rolling'[j] # NotRolling
      PROVE  CountIsTrue(rolling[j].day, t, rolling[j].counts[t])'
  <2>1. PICK c, d : c = rolling'[j].counts[t] /\ d = rolling'[j].day
    OBVIOUS
  <2>2. CountIsTrue(d, t, c)'
    BY <1>2, <2>1, TrueWhileUntouched
  <2> QED
    BY <2>1, <2>2 DEF CountIsTrue
<1> QED
  BY <1>1, <1>2 DEF CountsAreTrue

\* A run aggregates yesterday.
LEMMA RollupReadStep ==
    ASSUME RankingInv, NEW j \in RollupRuns, RollupRead(j)
    PROVE  RankingInv'
<1> USE DEF RankingInv
<1>1. PICK day : day = DayOf(hourNow) - 1
  OBVIOUS
<1>2. PICK run : run = [day |-> day, counts |-> [t \in Targets |-> Aggregate(day, t)]]
  OBVIOUS
<1>3. /\ DayOf(hourNow) > 0 /\ rolling' = [rolling EXCEPT ![j] = run]
      /\ UNCHANGED <<hourNow, sighting, inQueue, eventRows, rollup, cameLate>>
  BY <1>1, <1>2 DEF RollupRead
<1>4. day \in Days /\ day < DayOf(hourNow)
  <2>1. DayOf(hourNow) \in Days /\ DayOf(hourNow) \in Int
    BY HoursAndDays, RankingConstants DEF RankingShape
  <2>2. \A d \in Days : d - 1 \in Days \/ d <= 0
    <3>1. PICK n \in Int : Days = 0 .. n
      BY RankingConstants DEF Days
    <3> QED
      BY <3>1
  <2> QED
    BY <1>1, <1>3, <2>1, <2>2
<1>5. run \in [day : Days \cup {-1}, counts : [Targets -> RollupCounts \cup {NoCounts}]]
  <2>1. \A t \in Targets : Aggregate(day, t) \in RollupCounts \cup {NoCounts}
    BY AggregateTyped
  <2> QED
    BY <1>2, <1>4, <2>1
<1>6. rolling'[j] = run /\ \A i \in RollupRuns \ {j} : rolling'[i] = rolling[i]
  BY <1>3 DEF RankingShape
<1>7. RankingShape'
  <2>1. rolling' \in [RollupRuns -> [day : Days \cup {-1}, counts : [Targets -> RollupCounts \cup {NoCounts}]]]
    BY <1>3, <1>5 DEF RankingShape
  <2>2. \A i \in RollupRuns :
           rolling'[i] # NotRolling => rolling'[i].day \in Days /\ rolling'[i].day < DayOf(hourNow)'
    BY <1>2, <1>3, <1>4, <1>6 DEF RankingShape, DayOf
  <2> QED
    BY <1>3, <2>1, <2>2 DEF RankingShape, Stored, DayOf
<1>8. ASSUME NEW i \in RollupRuns, NEW t \in Targets, rolling'[i] # NotRolling
      PROVE  CountIsTrue(rolling'[i].day, t, rolling'[i].counts[t])
  <2>1. CASE i = j
    <3>1. rolling'[i].day = day /\ rolling'[i].counts[t] = Aggregate(day, t)
      BY <1>2, <1>6, <2>1
    <3> QED
      BY <3>1, FreshCountIsTrue
  <2>2. CASE i # j
    BY <1>6, <1>8, <2>2 DEF CountsAreTrue
  <2> QED
    BY <2>1, <2>2
<1> QED
  BY <1>3, <1>7, <1>8, CountsHeld DEF CountsAreTrue

\* A run saves the rows that are not there, or dies.
LEMMA RollupEndStep ==
    ASSUME RankingInv, NEW j \in RollupRuns, RollupSave(j) \/ RollupDies(j)
    PROVE  RankingInv'
<1> USE DEF RankingInv
<1>1. /\ rolling[j] # NotRolling /\ rolling' = [rolling EXCEPT ![j] = NotRolling]
      /\ UNCHANGED <<hourNow, sighting, inQueue, eventRows, cameLate>>
  BY DEF RollupSave, RollupDies
<1>2. PICK day \in Days : day = rolling[j].day /\ day < DayOf(hourNow)
  BY <1>1 DEF RankingShape
<1>3. PICK counts \in [Targets -> RollupCounts \cup {NoCounts}] : counts = rolling[j].counts
  BY DEF RankingShape
<1>4. \A t \in Targets : CountIsTrue(day, t, counts[t])
  BY <1>1, <1>2, <1>3 DEF CountsAreTrue
<1>5. \/ rollup' = rollup
      \/ rollup' = [rollup EXCEPT ![day] = [t \in Targets |-> IF @[t] = NoCounts THEN counts[t] ELSE @[t]]]
  BY <1>2, <1>3 DEF RollupSave, RollupDies
<1>6. /\ rollup' \in [Days -> [Targets -> RollupCounts \cup {NoCounts}]]
      /\ \A d \in Days, t \in Targets :
            rollup'[d][t] = rollup[d][t] \/ (d = day /\ rollup'[d][t] = counts[t])
  BY <1>3, <1>5 DEF RankingShape
<1>7. /\ rolling'[j] = NotRolling /\ \A i \in RollupRuns \ {j} : rolling'[i] = rolling[i]
      /\ rolling' \in [RollupRuns -> [day : Days \cup {-1}, counts : [Targets -> RollupCounts \cup {NoCounts}]]]
  BY <1>1 DEF RankingShape, NotRolling
<1>8. RankingShape'
  <2>1. \A d \in Days, t \in Targets : rollup'[d][t] # NoCounts => d < DayOf(hourNow)'
    BY <1>1, <1>2, <1>6 DEF RankingShape, DayOf
  <2>2. \A i \in RollupRuns :
           rolling'[i] # NotRolling => rolling'[i].day \in Days /\ rolling'[i].day < DayOf(hourNow)'
    BY <1>1, <1>7 DEF RankingShape, DayOf
  <2> QED
    BY <1>1, <1>6, <1>7, <2>1, <2>2 DEF RankingShape, Stored
<1>9. \A d \in Days, t \in Targets : CountIsTrue(d, t, rollup'[d][t])
  <2> TAKE d \in Days, t \in Targets
  <2>1. CASE rollup'[d][t] = rollup[d][t]
    BY <2>1 DEF CountsAreTrue
  <2>2. CASE d = day /\ rollup'[d][t] = counts[t]
    BY <1>4, <2>2
  <2> QED
    BY <1>6, <2>1, <2>2
<1>10. ASSUME NEW i \in RollupRuns, NEW t \in Targets, rolling'[i] # NotRolling
       PROVE  CountIsTrue(rolling'[i].day, t, rolling'[i].counts[t])
  BY <1>7, <1>10 DEF CountsAreTrue
<1> QED
  BY <1>1, <1>8, <1>9, <1>10, CountsHeld

LEMMA RankingInvStep == RankingInv /\ [RankingNext]_rankingVars => RankingInv'
<1> SUFFICES ASSUME RankingInv, [RankingNext]_rankingVars PROVE RankingInv'
  OBVIOUS
<1>1. ASSUME UNCHANGED <<sighting, eventRows, rollup, rolling, cameLate>>,
             inQueue' \subseteq inQueue,
             hourNow' = hourNow \/ (hourNow < MaxHour /\ hourNow' = hourNow + 1)
      PROVE  RankingInv'
  <2>1. /\ hourNow \in Nat /\ hourNow' \in 0 .. MaxHour /\ hourNow <= hourNow'
        /\ DayOf(hourNow) \in Nat /\ DayOf(hourNow') \in Nat /\ DayOf(hourNow) <= DayOf(hourNow')
    <3>1. hourNow \in 0 .. MaxHour /\ MaxHour \in Nat
      BY RankingConstants DEF RankingInv, RankingShape
    <3>2. hourNow \in Nat /\ hourNow' \in 0 .. MaxHour /\ hourNow' \in Nat /\ hourNow <= hourNow'
      BY <1>1, <3>1
    <3> QED
      BY <3>2, HoursAndDays
  <2>2. \A e \in Sightings : sighting[e].hour <= hourNow'
    <3> TAKE e \in Sightings
    <3> QED
      BY <2>1, SightingTyped DEF RankingInv
  <2>3. \A d \in Days : d \in Int
    BY DEF Days
  <2>4. \A d \in Days : d < DayOf(hourNow) => d < DayOf(hourNow')
    BY <2>1, <2>3
  <2>5. DayOf(hourNow)' = DayOf(hourNow')
    BY DEF DayOf
  <2>6. RankingShape'
    BY <1>1, <2>1, <2>2, <2>4, <2>5 DEF RankingInv, RankingShape, Stored
  <2>7. CountsAreTrue'
    BY <1>1, CountsHeld DEF RankingInv, CountsAreTrue
  <2> QED
    BY <2>6, <2>7 DEF RankingInv
<1>2. ASSUME HourPasses PROVE RankingInv'
  BY <1>1, <1>2 DEF HourPasses
<1>3. ASSUME NEW e \in Sightings, DeliverSighting(e) PROVE RankingInv'
  BY <1>3, DeliverStep
<1>4. ASSUME NEW e \in Sightings, LoseSighting(e) PROVE RankingInv'
  BY <1>1, <1>4 DEF LoseSighting
<1>5. ASSUME NEW e \in Sightings, NEW shape \in EventShapes, NEW supplied \in 0 .. MaxHour,
             RecordSighting(e, shape, supplied)
      PROVE  RankingInv'
  BY <1>5, RecordStep
<1>6. ASSUME NEW j \in RollupRuns, RollupRead(j) PROVE RankingInv'
  BY <1>6, RollupReadStep
<1>7. ASSUME NEW j \in RollupRuns, RollupSave(j) \/ RollupDies(j) PROVE RankingInv'
  BY <1>7, RollupEndStep
<1>8. ASSUME UNCHANGED rankingVars PROVE RankingInv'
  BY <1>1, <1>8 DEF rankingVars
<1> QED
  BY <1>2, <1>3, <1>4, <1>5, <1>6, <1>7, <1>8 DEF RankingNext

LEMMA RankingInvInit == RankingInit => RankingInv
<1> SUFFICES ASSUME RankingInit PROVE RankingInv
  OBVIOUS
<1> USE DEF RankingInit
<1>1. 0 \in 0 .. MaxHour
  BY RankingConstants
<1>2. sighting \in [Sightings -> SightingRow]
  BY DEF SightingRow
<1>3. \A e \in Sightings : sighting[e].hour <= hourNow /\ ~ (e \in inQueue \/ Stored(e))
  BY DEF Unreported, Stored
<1>4. RankingShape
  BY <1>1, <1>2, <1>3 DEF RankingShape, NotRolling
<1>5. CountsAreTrue
  BY DEF CountsAreTrue, CountIsTrue
<1> QED
  BY <1>4, <1>5 DEF RankingInv

-----------------------------------------------------------------------------
(* Rankings: what follows                                                  *)

\* The visits of different days are different visits.
LEMMA DaysShareNoVisit ==
    ASSUME NEW d, NEW e, d # e, NEW t
    PROVE  Visits(SeenOn(d), t) \cap Visits(SeenOn(e), t) = {}
BY DEF Visits, SeenOn

\* The rollups of a period are about visits of the period.
LEMMA RolledUpInPeriod ==
    ASSUME RankingInv, NEW t \in Targets,
           NEW S, S = {d \in Days : d * DayHours >= Since /\ rollup[d][t] # NoCounts}
    PROVE  SumFunctionOnSet([d \in S |-> rollup[d][t].views], S)
              <= Cardinality(Visits({e \in Sightings : sighting[e].hour >= Since}, t))
<1> DEFINE f == [d \in S |-> rollup[d][t].views]
           V == [d \in S |-> Visits(SeenOn(d), t)]
           U == Visits({e \in Sightings : sighting[e].hour >= Since}, t)
<1>1. S \subseteq Days /\ IsFiniteSet(S)
  <2>1. MaxHour \div DayHours \in Int /\ 0 \in Int
    BY RankingConstants
  <2>2. IsFiniteSet(Days)
    BY <2>1, FS_Interval DEF Days
  <2> QED
    BY <2>2, FS_Subset
<1>2. \A d \in S : CountIsTrue(d, t, rollup[d][t]) /\ rollup[d][t] # NoCounts
  BY <1>1 DEF RankingInv, CountsAreTrue
<1>3. \A d \in S : /\ rollup[d][t].views \in Nat
                   /\ rollup[d][t].views <= Cardinality(Visits(SeenOn(d), t))
  BY <1>2 DEF CountIsTrue
<1>4. IsFiniteSet(U)
  BY VisitsAreFinite DEF Visits, VisitsIn
<1>5. \A d \in S : Visits(SeenOn(d), t) \subseteq U
  <2> SUFFICES ASSUME NEW d \in S, NEW e \in SeenOn(d) PROVE sighting[e].hour >= Since
    BY DEF Visits, SeenOn
  <2>1. e \in Sightings /\ DayOf(sighting[e].hour) = d
    BY DEF SeenOn
  <2>2. sighting[e].hour \in Nat /\ d * DayHours <= sighting[e].hour
    BY <2>1, SightingTyped, HoursAndDays DEF RankingInv
  <2>3. Since \in Int /\ d * DayHours \in Int
    <3>1. d \in Int /\ hourNow \in Int /\ DayHours \in Int /\ RankingHours \in Int
      BY <1>1, RankingConstants DEF Days, RankingInv, RankingShape
    <3> QED
      BY <3>1 DEF Since
  <2> QED
    BY <2>2, <2>3
<1>6. f \in [S -> Int]
  BY <1>3
<1>7. \A d \in S : V[d] \subseteq U /\ f[d] <= Cardinality(V[d])
  BY <1>3, <1>5
<1>8. \A d, e \in S : d # e => V[d] \cap V[e] = {}
  BY DaysShareNoVisit
<1> HIDE DEF f, V, U
<1>9. SumFunctionOnSet(f, S) <= Cardinality(U)
  BY <1>1, <1>4, <1>6, <1>7, <1>8, SumOfDisjoint
<1> QED
  BY <1>9 DEF f, U

LEMMA RankingInvSafe == RankingInv => RankingsAreTrue
<1> SUFFICES ASSUME RankingInv PROVE RankingsAreTrue
  OBVIOUS
<1>1. RankingTypeOK
  BY DEF RankingInv, RankingShape, RankingTypeOK
<1>2. RollupsMatchEvents
  BY DEF RankingInv, CountsAreTrue, CountIsTrue, RollupsMatchEvents
<1>3. ASSUME NEW t \in Targets
      PROVE  TrendingScore(t) <= Cardinality(Visits({e \in Sightings : sighting[e].hour >= Since}, t))
  <2> DEFINE es == {e \in Sightings : Stored(e) /\ sighting[e].hour >= Since}
             fs == {e \in Sightings : sighting[e].hour >= Since}
  <2>1. Visits(es, t) \subseteq VisitsIn(sighting, fs, t) /\ Visits(fs, t) = VisitsIn(sighting, fs, t)
    BY DEF Visits, VisitsIn
  <2> QED
    BY <2>1, FewerVisits DEF TrendingScore
<1>4. ASSUME NEW t \in Targets
      PROVE  MostViewedScore(t) <= Cardinality(Visits({e \in Sightings : sighting[e].hour >= Since}, t))
  <2>1. PICK S : S = {d \in Days : d * DayHours >= Since /\ rollup[d][t] # NoCounts}
    OBVIOUS
  <2>2. MostViewedScore(t) \in {TrendingScore(t), SumFunctionOnSet([d \in S |-> rollup[d][t].views], S)}
    BY <2>1 DEF MostViewedScore
  <2> QED
    BY <1>3, <2>1, <2>2, RolledUpInPeriod
<1> QED
  BY <1>1, <1>2, <1>3, <1>4 DEF RankingsAreTrue, ScoresAreVisits

\* Whichever events arrive twice, late or never and whichever runs of the rollup
\* overlap, repeat or die, a rollup is the count of the events of its day unless one
\* came in later, and no ranking shows more than the visits of its period.
THEOREM RankingsTrue == RankingSpec => []RankingsAreTrue
<1> QED
  BY RankingInvInit, RankingInvStep, RankingInvSafe, PTL DEF RankingSpec

-----------------------------------------------------------------------------
(* Live vehicles                                                           *)

PingState ==
    [pc : {"idle", "lookup", "found", "absent", "resolved", "checked"},
     driver : Drivers \cup {NoDriver}, ts : 0 .. MaxStamp]

FleetShape ==
    /\ vehicle \in [driver : Drivers \cup {NoDriver}, enabled : BOOLEAN]
    /\ driverCache \in [Drivers -> [of : BOOLEAN, ttl : 0 .. Ttl]]
    /\ point \in [ttl : 0 .. Ttl, ts : 0 .. MaxStamp]
    /\ indexed \in BOOLEAN /\ seenAge \in -1 .. Ttl
    /\ ping \in [Pings -> PingState]
    /\ sweep \in [FleetSweepers -> {"idle", "listed"}]

\* A point outlives its entry in the seen set by nothing, and a sweeper whose list was
\* not overtaken by a refresh has seen the entry lapse.
IndexFollowsPoint ==
    /\ indexed <=> seenAge # -1
    /\ point.ttl > 0 => seenAge # -1 /\ point.ttl + seenAge <= Ttl
    /\ \A s \in FleetSweepers :
          sweep[s] = "listed" /\ s \notin overtook => seenAge = -1 \/ seenAge = Ttl

\* A ping that was alone when it compared its fix is alone when it writes it.
FixesAreNewer ==
    ~fleetRaced =>
       /\ \A p, q \in Pings : ping[p].pc # "idle" /\ ping[q].pc # "idle" => p = q
       /\ \A p \in Pings : ping[p].pc = "checked" /\ point.ttl > 0 => ping[p].ts > point.ts

FleetInv == FleetShape /\ IndexFollowsPoint /\ FixesAreNewer

LEMMA FleetInvInit == FleetInit => FleetInv
<1> SUFFICES ASSUME FleetInit PROVE FleetInv
  OBVIOUS
<1> USE DEF FleetInit
<1>1. FleetShape
  <2>1. 0 \in 0 .. Ttl /\ 0 \in 0 .. MaxStamp /\ -1 \in -1 .. Ttl
    BY FleetConstants
  <2> QED
    BY <2>1 DEF FleetShape, PingState, NoPing
<1>2. IndexFollowsPoint
  BY DEF IndexFollowsPoint
<1>3. FixesAreNewer
  BY DEF FixesAreNewer, NoPing
<1> QED
  BY <1>1, <1>2, <1>3 DEF FleetInv

\* Only the fix of a ping replaces that of the point.
LEMMA PingPutStep ==
    ASSUME FleetInv, NEW p \in Pings, PingPut(p)
    PROVE  /\ FleetInv'
           /\ ~fleetRaced /\ point.ttl > 0 => point'.ts > point.ts
<1> USE DEF FleetInv, PingPut
<1>0. Ttl \in Nat \ {0} /\ ping[p] \in PingState /\ ping[p].pc = "checked"
  BY FleetConstants DEF FleetShape
<1>1. /\ ping'[p].pc = "idle" /\ \A q \in Pings \ {p} : ping'[q] = ping[q]
      /\ ping' \in [Pings -> PingState]
  BY <1>0 DEF PingsAs, FleetShape, PingState
<1>2. FleetShape'
  BY <1>0, <1>1 DEF FleetShape, PingState
<1>3. IndexFollowsPoint'
  BY <1>0 DEF IndexFollowsPoint, FleetShape
<1>4. FixesAreNewer'
  BY <1>0, <1>1 DEF FixesAreNewer
<1>5. ~fleetRaced /\ point.ttl > 0 => point'.ts > point.ts
  BY <1>0 DEF FixesAreNewer
<1> QED
  BY <1>2, <1>3, <1>4, <1>5

\* The other steps of a ping change nothing in Redis but the cache of the driver.
LEMMA PingMoves ==
    ASSUME FleetInv, NEW p \in Pings,
           UNCHANGED <<vehicle, point, indexed, seenAge, sweep, overtook>>,
           driverCache' \in [Drivers -> [of : BOOLEAN, ttl : 0 .. Ttl]],
           NEW to \in PingState, ping' = [ping EXCEPT ![p] = to],
           fleetRaced' \in BOOLEAN, fleetRaced => fleetRaced',
           ~fleetRaced' => \A q \in Pings \ {p} : to.pc # "idle" => ping[q].pc = "idle",
           to.pc = "checked" /\ point.ttl > 0 => to.ts > point.ts
    PROVE  FleetInv'
<1> USE DEF FleetInv
<1>1. ping'[p] = to /\ \A q \in Pings \ {p} : ping'[q] = ping[q]
  BY DEF FleetShape
<1>2. FleetShape'
  BY DEF FleetShape
<1>3. IndexFollowsPoint'
  BY DEF IndexFollowsPoint
<1>4. FixesAreNewer'
  BY <1>1 DEF FixesAreNewer
<1> QED
  BY <1>2, <1>3, <1>4

LEMMA PingStartStep ==
    ASSUME FleetInv, NEW p \in Pings, NEW d \in Drivers, NEW ts \in 1 .. MaxStamp, PingStart(p, d, ts)
    PROVE  FleetInv'
<1> USE DEF FleetInv
<1>1. PICK pc \in {"lookup", "resolved", "idle"} :
         ping' = [ping EXCEPT ![p] = [pc |-> pc, driver |-> d, ts |-> ts]]
  BY DEF PingStart
<1>2. PICK to : to = [pc |-> pc, driver |-> d, ts |-> ts]
  OBVIOUS
<1>3. to \in PingState /\ to.pc # "checked"
  BY <1>2, FleetConstants DEF PingState
<1>4. /\ UNCHANGED <<vehicle, driverCache, point, indexed, seenAge, sweep, overtook>>
      /\ fleetRaced' = (fleetRaced \/ \E q \in Pings \ {p} : ping[q].pc # "idle")
  BY DEF PingStart
<1>5. driverCache' \in [Drivers -> [of : BOOLEAN, ttl : 0 .. Ttl]]
  BY <1>4 DEF FleetShape
<1> QED
  BY <1>1, <1>2, <1>3, <1>4, <1>5, PingMoves

LEMMA PingGoesOnStep ==
    ASSUME FleetInv, NEW p \in Pings, PingLookup(p) \/ PingCache(p) \/ PingRead(p)
    PROVE  FleetInv'
<1> USE DEF FleetInv
<1>1. PICK pc \in {"found", "absent", "resolved", "idle", "checked"} :
         /\ ping' = [ping EXCEPT ![p].pc = pc]
         /\ pc = "checked" => PingRead(p) /\ (point.ttl = 0 \/ ping[p].ts > point.ts)
  BY DEF PingLookup, PingCache, PingRead, PingsAs, Plausible
<1>2. PICK to : to = [ping[p] EXCEPT !.pc = pc]
  OBVIOUS
<1>3. ping[p] \in PingState /\ ping[p].pc # "idle"
  BY DEF FleetShape, PingLookup, PingCache, PingRead
<1>4. to \in PingState /\ to.pc = pc /\ to.ts = ping[p].ts
  BY <1>2, <1>3 DEF PingState
<1>5. ping' = [ping EXCEPT ![p] = to]
  BY <1>1, <1>2
<1>6. UNCHANGED <<vehicle, point, indexed, seenAge, sweep, overtook, fleetRaced>>
  BY DEF PingLookup, PingCache, PingRead
<1>7. driverCache' \in [Drivers -> [of : BOOLEAN, ttl : 0 .. Ttl]]
  <2>1. PICK row : row = [of |-> ping[p].pc = "found", ttl |-> Ttl]
    OBVIOUS
  <2>2. row \in [of : BOOLEAN, ttl : 0 .. Ttl]
    <3>1. Ttl \in 0 .. Ttl /\ (ping[p].pc = "found") \in BOOLEAN
      BY FleetConstants
    <3> QED
      BY <2>1, <3>1
  <2>3. driverCache' = driverCache \/ driverCache' = [driverCache EXCEPT ![ping[p].driver] = row]
    BY <2>1 DEF PingLookup, PingCache, PingRead
  <2> QED
    BY <2>2, <2>3 DEF FleetShape
<1>8. \A q \in Pings \ {p} : ~fleetRaced => ping[q].pc = "idle"
  BY <1>3 DEF FixesAreNewer
<1> QED
  <2>1. fleetRaced' = fleetRaced
    BY <1>6
  <2>2. to.pc = "checked" /\ point.ttl > 0 => to.ts > point.ts
    BY <1>1, <1>4, FleetConstants DEF FleetShape
  <2>3. ~fleetRaced' => \A q \in Pings \ {p} : to.pc # "idle" => ping[q].pc = "idle"
    BY <1>8, <2>1
  <2>4. FleetShape' /\ IndexFollowsPoint'
    BY <1>4, <1>5, <1>6, <1>7 DEF FleetShape, IndexFollowsPoint
  <2>5. ping'[p] = to /\ \A q \in Pings \ {p} : ping'[q] = ping[q]
    BY <1>5 DEF FleetShape
  <2>6. FixesAreNewer'
    BY <1>6, <2>1, <2>2, <2>3, <2>5 DEF FixesAreNewer
  <2> QED
    BY <2>4, <2>6

\* The other steps leave the pings where they are and the fix as it is.
LEMMA PingsRest ==
    ASSUME FleetInv, UNCHANGED <<ping, fleetRaced>>,
           point'.ttl > 0 => point.ttl > 0 /\ point'.ts = point.ts
    PROVE  FixesAreNewer'
BY DEF FleetInv, FixesAreNewer

\* Whatever the step, the index, the seen set and the pings stay as they should.
LEMMA FleetInvStep == FleetInv /\ [FleetNext]_fleetVars => FleetInv'
<1> SUFFICES ASSUME FleetInv, [FleetNext]_fleetVars PROVE FleetInv'
  OBVIOUS
<1>a. Ttl \in Nat \ {0} /\ 0 \in 0 .. Ttl /\ -1 \in -1 .. Ttl
  BY FleetConstants
<1>b. /\ point \in [ttl : 0 .. Ttl, ts : 0 .. MaxStamp] /\ point.ttl \in 0 .. Ttl
      /\ seenAge \in -1 .. Ttl
  BY DEF FleetInv, FleetShape
<1>1. ASSUME NEW p \in Pings, NEW d \in Drivers, NEW ts \in 1 .. MaxStamp, PingStart(p, d, ts)
      PROVE  FleetInv'
  BY <1>1, PingStartStep
<1>2. ASSUME NEW p \in Pings, PingStep(p) PROVE FleetInv'
  BY <1>2, PingGoesOnStep, PingPutStep DEF PingStep
<1>3. ASSUME NEW a \in FleetAdmins, Invalidate(a) \/ SkipRedis(a) PROVE FleetInv'
  <2>1. UNCHANGED <<vehicle, point, indexed, seenAge, ping, sweep, overtook, fleetRaced>>
    BY <1>3 DEF Invalidate, SkipRedis
  <2>2. driverCache' \in [Drivers -> [of : BOOLEAN, ttl : 0 .. Ttl]]
    <3>1. PICK miss : miss = [of |-> FALSE, ttl |-> 0]
      OBVIOUS
    <3>2. miss \in [of : BOOLEAN, ttl : 0 .. Ttl]
      BY <1>a, <3>1
    <3>3. \/ driverCache' = driverCache
          \/ driverCache' = [d \in Drivers |-> IF d \in admin[a].drivers THEN miss ELSE driverCache[d]]
      BY <1>3, <3>1 DEF Invalidate, SkipRedis
    <3> QED
      BY <3>2, <3>3 DEF FleetInv, FleetShape
  <2> QED
    BY <2>1, <2>2, PingsRest DEF FleetInv, FleetShape, IndexFollowsPoint
<1>4. ASSUME RemoveLive, UNCHANGED <<vehicle, driverCache, ping, sweep, overtook, fleetRaced>>
      PROVE  FleetInv'
  <2>1. point' \in [ttl : 0 .. Ttl, ts : 0 .. MaxStamp] /\ point'.ttl = 0
    BY <1>4, <1>a, <1>b DEF RemoveLive
  <2>2. FleetShape'
    BY <1>4, <1>a, <2>1 DEF FleetInv, FleetShape, RemoveLive
  <2>3. IndexFollowsPoint'
    BY <1>4, <2>1 DEF IndexFollowsPoint, RemoveLive
  <2> QED
    BY <1>4, <2>1, <2>2, <2>3, PingsRest DEF FleetInv
<1>5. ASSUME NEW a \in FleetAdmins, DropLive(a) PROVE FleetInv'
  BY <1>4, <1>5 DEF DropLive
<1>6. ASSUME NEW a \in FleetAdmins, NEW d \in Drivers \cup {NoDriver}, NEW e \in BOOLEAN,
             FleetEdit(a, d, e)
      PROVE  FleetInv'
  BY <1>6, PingsRest DEF FleetEdit, FleetInv, FleetShape, IndexFollowsPoint
<1>7. ASSUME NEW d \in Drivers, StopTracking(d) PROVE FleetInv'
  BY <1>4, <1>7 DEF StopTracking
<1>8. ASSUME NEW s \in FleetSweepers, SweepList(s) PROVE FleetInv'
  <2>1. sweep' \in [FleetSweepers -> {"idle", "listed"}]
    BY <1>8 DEF SweepList, FleetInv, FleetShape
  <2>2. FleetShape'
    BY <1>8, <2>1 DEF SweepList, FleetInv, FleetShape
  <2>3. IndexFollowsPoint'
    BY <1>8 DEF SweepList, FleetInv, FleetShape, IndexFollowsPoint
  <2> QED
    BY <1>8, <2>2, <2>3, PingsRest DEF SweepList, FleetInv
<1>9. ASSUME NEW s \in FleetSweepers, SweepVehicle(s) PROVE FleetInv'
  <2>1. /\ sweep' = [sweep EXCEPT ![s] = "idle"] /\ sweep[s] = "listed"
        /\ UNCHANGED <<vehicle, driverCache, point, ping, overtook, fleetRaced>>
    BY <1>9 DEF SweepVehicle
  <2>2. \A r \in FleetSweepers : sweep'[r] = "listed" => sweep[r] = "listed"
    BY <2>1 DEF FleetInv, FleetShape
  <2>3. CASE StillExpired(s)
    <3>1. indexed' = FALSE /\ seenAge' = -1
      BY <1>9, <2>3 DEF SweepVehicle
    <3>2. seenAge = Ttl
      BY <2>1, <2>3 DEF StillExpired, FleetInv, IndexFollowsPoint
    <3>3. ~(point.ttl > 0)
      BY <1>a, <1>b, <3>2 DEF FleetInv, IndexFollowsPoint
    <3>4. FleetShape'
      BY <1>a, <2>1, <3>1 DEF FleetInv, FleetShape
    <3>5. IndexFollowsPoint'
      BY <2>1, <3>1, <3>3 DEF IndexFollowsPoint
    <3> QED
      BY <2>1, <3>4, <3>5, PingsRest DEF FleetInv
  <2>4. CASE ~StillExpired(s)
    <3>1. indexed' = indexed /\ seenAge' = seenAge
      BY <1>9, <2>4 DEF SweepVehicle, FleetInv, FleetShape
    <3>2. FleetShape'
      BY <2>1, <3>1 DEF FleetInv, FleetShape
    <3>3. IndexFollowsPoint'
      BY <2>1, <2>2, <3>1 DEF FleetInv, IndexFollowsPoint
    <3> QED
      BY <2>1, <3>2, <3>3, PingsRest DEF FleetInv
  <2> QED
    BY <2>3, <2>4
<1>10. ASSUME FleetTick PROVE FleetInv'
  <2>1. /\ point' = [point EXCEPT !.ttl = IF @ > 0 THEN @ - 1 ELSE 0]
        /\ seenAge' = IF seenAge \in 0 .. (Ttl - 1) THEN seenAge + 1 ELSE seenAge
        /\ UNCHANGED <<vehicle, indexed, ping, sweep, overtook, fleetRaced>>
    BY <1>10 DEF FleetTick
  <2>2. driverCache' \in [Drivers -> [of : BOOLEAN, ttl : 0 .. Ttl]]
    <3>1. \A d \in Drivers : driverCache[d] \in [of : BOOLEAN, ttl : 0 .. Ttl]
      BY DEF FleetInv, FleetShape
    <3>2. \A k \in 0 .. Ttl : (IF k > 0 THEN k - 1 ELSE 0) \in 0 .. Ttl
      BY <1>a
    <3>3. \A d \in Drivers : AgeCache(d) \in [of : BOOLEAN, ttl : 0 .. Ttl]
      BY <3>1, <3>2 DEF AgeCache
    <3> QED
      BY <1>10, <3>3 DEF FleetTick
  <2>3. /\ point'.ts = point.ts /\ point'.ttl = (IF point.ttl > 0 THEN point.ttl - 1 ELSE 0)
        /\ point' \in [ttl : 0 .. Ttl, ts : 0 .. MaxStamp]
    BY <1>a, <1>b, <2>1
  <2>4. FleetShape'
    BY <1>a, <1>b, <2>1, <2>2, <2>3 DEF FleetInv, FleetShape
  <2>5. IndexFollowsPoint'
    BY <1>a, <1>b, <2>1, <2>3 DEF FleetInv, IndexFollowsPoint
  <2> QED
    BY <1>b, <2>1, <2>3, <2>4, <2>5, PingsRest DEF FleetInv
<1>11. CASE UNCHANGED fleetVars
  BY <1>11 DEF fleetVars, FleetInv, FleetShape, IndexFollowsPoint, FixesAreNewer
<1> QED
  BY <1>1, <1>2, <1>3, <1>5, <1>6, <1>7, <1>8, <1>9, <1>10, <1>11 DEF FleetNext, FleetStep

\* A step that replaces a live fix is that of a ping which compared it.
LEMMA FixesAdvance ==
    FleetInv /\ [FleetNext]_fleetVars =>
       [~fleetRaced /\ point.ttl > 0 /\ point'.ts # point.ts => point'.ts > point.ts]_fleetVars
<1> SUFFICES ASSUME FleetInv, [FleetNext]_fleetVars, ~fleetRaced, point.ttl > 0,
                    point'.ts # point.ts
             PROVE  point'.ts > point.ts
  OBVIOUS
<1>1. ASSUME NEW p \in Pings, PingPut(p) PROVE point'.ts > point.ts
  BY <1>1, PingPutStep
<1>2. ASSUME point' = point \/ RemoveLive \/ FleetTick PROVE FALSE
  <2>1. point \in [ttl : 0 .. Ttl, ts : 0 .. MaxStamp]
    BY DEF FleetInv, FleetShape
  <2> QED
    BY <1>2, <2>1 DEF RemoveLive, FleetTick
<1>3. (\E p \in Pings : PingPut(p)) \/ point' = point \/ RemoveLive \/ FleetTick
  BY DEF FleetNext, FleetStep, PingStart, PingStep, PingLookup, PingCache, PingRead, FleetEdit,
         Invalidate, SkipRedis, DropLive, StopTracking, SweepList, SweepVehicle, fleetVars
<1> QED
  BY <1>1, <1>2, <1>3

LEMMA FleetInvSafe == FleetInv => FleetTypeOK /\ LiveVehiclesAreFound
BY DEF FleetInv, FleetShape, PingState, IndexFollowsPoint, FleetTypeOK, LiveVehiclesAreFound

\* Whichever pings, sweeps of several replicas and changes of the vehicle overlap: a live
\* vehicle is in the index, the index and the seen set have the same members, and a
\* live fix is replaced by a newer one only, unless two pings overlapped.
THEOREM FleetTracked == FleetSpec => FleetIsTracked
<1>1. FleetSpec => []FleetInv
  BY FleetInvInit, FleetInvStep, PTL DEF FleetSpec
<1>2. FleetSpec => FixesMoveForward
  BY <1>1, FixesAdvance, PTL DEF FleetSpec, FixesMoveForward
<1> QED
  BY <1>1, <1>2, FleetInvSafe, PTL DEF FleetIsTracked

-----------------------------------------------------------------------------
(* The review of stores                                                    *)

ShopRow ==
    [status : Statuses \cup {"NONE"}, active : BOOLEAN,
     parked : {"unset", "open", "closed"}, claimedBy : Admins \cup {Nobody},
     stale : BOOLEAN, window : {"none", "open", "over"}, deleted : BOOLEAN, content : Nat]

ShopCallState ==
    [pc : {"idle", "deciding", "claiming", "editing"}, shop : Shops \cup {Nobody},
     admin : Admins \cup {Nobody}, from : Statuses \cup {"NONE"}, to : Statuses \cup {"NONE"},
     active : BOOLEAN, parked : {"unset", "open", "closed"}]

\* A request under way is about a store, and was allowed when it was checked.
CallAllowed(c) ==
    /\ shopCall[c].pc # "idle" => shopCall[c].shop \in Shops
    /\ shopCall[c].pc = "deciding" =>
          /\ shopCall[c].admin \in Admins /\ shopCall[c].from \in Statuses
          /\ shopCall[c].to \in AllowedTransitions[shopCall[c].from]
    /\ shopCall[c].pc = "claiming" => shopCall[c].admin \in Admins
    /\ shopCall[c].pc = "editing" => shopCall[c].from \in EditableStatuses

ShopShape ==
    /\ shop \in [Shops -> ShopRow]
    /\ shopDocs \in [Shops -> {"NONE", "PENDING", "APPROVED", "REJECTED"}]
    /\ shopLog \in [Shops -> [last : Statuses, gaps : {0, 1}, deletions : Nat]]
    /\ shopCall \in [Decisions \cup ShopEdits -> ShopCallState]
    /\ \A c \in Decisions \cup ShopEdits : CallAllowed(c)
    /\ purge \in [Purgers -> SUBSET Shops]
    /\ judged \in [Shops -> Nat]
    /\ liveToggle \in [Shops -> {"unset", "open", "closed"}]
    /\ DOMAIN shopRaced = Shops

\* What is true of a store at every moment: a live one was approved and nobody has it,
\* the audit log ends in its status, a review is of the content it began with, the
\* toggle of a store pulled into review is parked, and what was deleted or is about to
\* be was rejected, unless a check was overtaken.
ShopSound(s) ==
    /\ shop[s].status = "ACTIVE" => shopDocs[s] = "APPROVED" /\ shop[s].claimedBy = Nobody
    /\ shopLog[s].gaps = 0
    /\ shopLog[s].last = IF shop[s].status = "NONE" THEN "PENDING" ELSE shop[s].status
    /\ shop[s].status = "NONE" => ~shop[s].deleted
    /\ shop[s].status = "UNDER_REVIEW" /\ "edit" \notin shopRaced[s] => shop[s].content = judged[s]
    /\ liveToggle[s] # "unset" /\ "toggle" \notin shopRaced[s] => shop[s].parked = liveToggle[s]
    /\ shop[s].deleted => shop[s].status = "REJECTED" \/ "reopen" \in shopRaced[s]
    /\ shopLog[s].deletions > 0 /\ "sweep" \notin shopRaced[s] => shop[s].deleted
    /\ (\E w \in Purgers : s \in purge[w]) /\ "sweep" \notin shopRaced[s]
          => shop[s].status = "REJECTED"

ShopInv == ShopShape /\ \A s \in Shops : ShopSound(s)

LEMMA AllowedFacts ==
    /\ \A from \in Statuses : AllowedTransitions[from] \subseteq Statuses
    /\ \A from \in Statuses : "ACTIVE" \in AllowedTransitions[from] => from = "UNDER_REVIEW"
    /\ EditableStatuses \subseteq Statuses /\ "UNDER_REVIEW" \notin EditableStatuses
BY DEF AllowedTransitions, Statuses, EditableStatuses

LEMMA ShopIdleFits == ShopIdle \in ShopCallState /\ ShopIdle.pc = "idle"
BY DEF ShopIdle, ShopCallState

LEMMA ShopInvInit == ShopInit => ShopInv
<1> SUFFICES ASSUME ShopInit PROVE ShopInv
  OBVIOUS
<1> USE DEF ShopInit
<1>1. NoShop \in ShopRow /\ "PENDING" \in Statuses
  BY DEF NoShop, ShopRow, Statuses
<1>2. ShopShape
  BY <1>1, ShopIdleFits DEF ShopShape, CallAllowed
<1>3. ASSUME NEW s \in Shops PROVE ShopSound(s)
  BY DEF ShopSound, NoShop
<1> QED
  BY <1>2, <1>3 DEF ShopInv

\* One request moves, or none; the others stay as allowed as they were.
LEMMA ShopCallMoves ==
    ASSUME ShopShape, NEW c \in Decisions \cup ShopEdits, NEW to \in ShopCallState,
           shopCall' = [shopCall EXCEPT ![c] = to],
           to.pc # "idle" => to.shop \in Shops,
           to.pc = "deciding" => /\ to.admin \in Admins /\ to.from \in Statuses
                                 /\ to.to \in AllowedTransitions[to.from],
           to.pc = "claiming" => to.admin \in Admins,
           to.pc = "editing" => to.from \in EditableStatuses
    PROVE  /\ shopCall' \in [Decisions \cup ShopEdits -> ShopCallState]
           /\ \A d \in Decisions \cup ShopEdits : CallAllowed(d)'
<1>1. shopCall'[c] = to /\ \A d \in (Decisions \cup ShopEdits) \ {c} : shopCall'[d] = shopCall[d]
  BY DEF ShopShape
<1> QED
  BY <1>1 DEF ShopShape, CallAllowed

LEMMA ShopCallEnds ==
    ASSUME ShopShape, NEW c \in Decisions \cup ShopEdits, EndCall(c)
    PROVE  /\ shopCall' \in [Decisions \cup ShopEdits -> ShopCallState]
           /\ \A d \in Decisions \cup ShopEdits : CallAllowed(d)'
BY ShopIdleFits, ShopCallMoves DEF EndCall

\* Nothing is said of the calls by the tables.
LEMMA ShopsRest ==
    ASSUME ShopInv, UNCHANGED <<shopRows, purge, shopGhosts>>,
           shopCall' \in [Decisions \cup ShopEdits -> ShopCallState],
           \A d \in Decisions \cup ShopEdits : CallAllowed(d)'
    PROVE  ShopInv'
<1>1. ShopShape'
  BY DEF ShopInv, ShopShape, shopRows, shopGhosts
<1>2. \A s \in Shops : ShopSound(s)'
  BY DEF ShopInv, ShopSound, shopRows, shopGhosts
<1> QED
  BY <1>1, <1>2 DEF ShopInv

\* A store about which nothing changes.
LEMMA ShopUntouched ==
    ASSUME ShopInv, NEW s \in Shops,
           shop'[s] = shop[s], shopDocs'[s] = shopDocs[s], shopLog'[s] = shopLog[s],
           judged'[s] = judged[s], liveToggle'[s] = liveToggle[s], shopRaced'[s] = shopRaced[s],
           \A w \in Purgers : s \in purge'[w] => s \in purge[w]
    PROVE  ShopSound(s)'
BY DEF ShopInv, ShopSound

-----------------------------------------------------------------------------
(* The review of stores: decisions                                         *)

\* What a transition leaves in the row of the store.
LEMMA DataWritten ==
    ASSUME NEW row \in ShopRow, NEW asked \in ShopCallState,
           asked.admin \in Admins, asked.from \in Statuses, asked.to \in AllowedTransitions[asked.from]
    PROVE  /\ DataFor(row, asked) \in ShopRow
           /\ DataFor(row, asked).status = asked.to
           /\ DataFor(row, asked).deleted = row.deleted /\ DataFor(row, asked).content = row.content
           /\ asked.to # "UNDER_REVIEW" => DataFor(row, asked).claimedBy = Nobody
           /\ asked.to = "UNDER_REVIEW" /\ asked.from = "ACTIVE" =>
                 DataFor(row, asked).parked = Toggle(asked.active)
           /\ asked.to = "UNDER_REVIEW" /\ asked.from # "ACTIVE" => DataFor(row, asked).parked = row.parked
           /\ asked.to = "PENDING" => DataFor(row, asked).parked = row.parked
           /\ asked.to = "ACTIVE" => DataFor(row, asked).active = (asked.parked # "closed")
<1>1. asked.to \in Statuses /\ asked.active \in BOOLEAN /\ asked.parked \in {"unset", "open", "closed"}
  BY AllowedFacts DEF ShopCallState
<1>2. Toggle(asked.active) \in {"unset", "open", "closed"}
  BY DEF Toggle
<1>3. PICK u : u = [row EXCEPT !.status = asked.to, !.claimedBy = Nobody, !.stale = FALSE, !.window = "none"]
  OBVIOUS
<1>4. /\ u \in ShopRow /\ u.status = asked.to /\ u.claimedBy = Nobody
      /\ u.deleted = row.deleted /\ u.content = row.content
      /\ u.parked = row.parked /\ u.active = row.active
  BY <1>1, <1>3 DEF ShopRow
<1>5. CASE asked.to = "UNDER_REVIEW"
  <2>1. DataFor(row, asked) =
          [u EXCEPT !.claimedBy = asked.admin,
             !.active = IF asked.from = "ACTIVE" THEN FALSE ELSE @,
             !.parked = IF asked.from = "ACTIVE" THEN Toggle(asked.active) ELSE @]
    BY <1>3, <1>5 DEF DataFor
  <2> QED
    BY <1>2, <1>4, <1>5, <2>1 DEF ShopRow
<1>6. CASE asked.to = "PENDING"
  <2>1. DataFor(row, asked) = u
    BY <1>3, <1>6 DEF DataFor
  <2> QED
    BY <1>4, <1>6, <2>1
<1>7. CASE asked.to = "ACTIVE"
  <2>1. DataFor(row, asked) = [u EXCEPT !.active = asked.parked # "closed", !.parked = "unset"]
    BY <1>3, <1>7 DEF DataFor
  <2>2. (asked.parked # "closed") \in BOOLEAN
    OBVIOUS
  <2> QED
    BY <1>4, <1>7, <2>1, <2>2 DEF ShopRow
<1>8. CASE asked.to \in {"NEEDS_REVISION", "REJECTED"}
  <2>1. PICK w \in {"open", "none"} :
          DataFor(row, asked) = [u EXCEPT !.active = FALSE, !.parked = "unset", !.window = w]
    BY <1>3, <1>8 DEF DataFor
  <2> QED
    BY <1>4, <1>8, <2>1 DEF ShopRow
<1> QED
  BY <1>1, <1>5, <1>6, <1>7, <1>8 DEF Statuses

\* A decision lands on the store it was about.
LEMMA TransitionWriteStep ==
    ASSUME ShopInv, NEW c \in Decisions, TransitionWrite(c)
    PROVE  ShopInv'
<1> USE DEF ShopInv
<1>1. PICK asked \in ShopCallState : asked = shopCall[c]
  BY DEF ShopShape
<1>2. /\ asked.pc = "deciding" /\ asked.shop \in Shops
      /\ asked.admin \in Admins /\ asked.from \in Statuses
      /\ asked.to \in AllowedTransitions[asked.from] /\ asked.to \in Statuses
  BY <1>1, AllowedFacts DEF TransitionWrite, ShopShape, CallAllowed
<1>3. PICK s \in Shops : s = asked.shop
  BY <1>2
<1>4. /\ EndCall(c) /\ UNCHANGED purge
      /\ \/ UNCHANGED <<shopRows, shopGhosts>>
         \/ shop[s].status = asked.from /\ Committed(s, asked)
  BY <1>1, <1>3 DEF TransitionWrite
<1>5. /\ shopCall' \in [Decisions \cup ShopEdits -> ShopCallState]
      /\ \A d \in Decisions \cup ShopEdits : CallAllowed(d)'
  BY <1>4, ShopCallEnds
<1>6. CASE UNCHANGED <<shopRows, shopGhosts>>
  BY <1>4, <1>5, <1>6, ShopsRest
<1>7. CASE shop[s].status = asked.from /\ Committed(s, asked)
  <2>1. PICK row \in ShopRow : row = DataFor(shop[s], asked)
    BY <1>2, DataWritten DEF ShopShape
  <2>2. /\ shop' = [shop EXCEPT ![s] = row]
        /\ shopDocs' = [shopDocs EXCEPT ![s] = DocsAfter(s, asked.to)]
        /\ shopLog' = [shopLog EXCEPT ![s] =
              [last |-> asked.to, deletions |-> shopLog[s].deletions,
               gaps |-> IF shopLog[s].gaps > 0 \/ asked.from # shopLog[s].last THEN 1 ELSE 0]]
    BY <1>7, <2>1 DEF Committed, Logged
  <2>3. PICK log \in [last : Statuses, gaps : {0, 1}, deletions : Nat] :
          /\ shopLog' = [shopLog EXCEPT ![s] = log]
          /\ log.last = asked.to /\ log.deletions = shopLog[s].deletions /\ log.gaps = 0
    <3>1. shopLog[s] \in [last : Statuses, gaps : {0, 1}, deletions : Nat]
      BY DEF ShopShape
    <3>2. shopLog[s].gaps = 0 /\ asked.from = shopLog[s].last
      BY <1>2, <1>7 DEF ShopSound, Statuses
    <3>3. PICK log : log = [last |-> asked.to, deletions |-> shopLog[s].deletions, gaps |-> 0]
      OBVIOUS
    <3>4. shopLog' = [shopLog EXCEPT ![s] = log]
      BY <2>2, <3>2, <3>3
    <3>5. shopLog[s].deletions \in Nat
      BY <3>1
    <3>6. log \in [last : Statuses, gaps : {0, 1}, deletions : Nat]
      BY <1>2, <3>3, <3>5
    <3>7. log.last = asked.to /\ log.deletions = shopLog[s].deletions /\ log.gaps = 0
      BY <3>3
    <3> QED
      BY <3>4, <3>6, <3>7
  <2>4. /\ judged' = [judged EXCEPT ![s] = IF asked.to = "UNDER_REVIEW" THEN shop[s].content ELSE judged[s]]
        /\ judged' \in [Shops -> Nat]
    <3>1. judged' = [judged EXCEPT ![s] = IF asked.to = "UNDER_REVIEW" THEN shop[s].content ELSE judged[s]]
      BY <1>7 DEF Committed
    <3>2. shop[s].content \in Nat /\ judged[s] \in Nat
      BY DEF ShopShape, ShopRow
    <3> QED
      BY <3>1, <3>2 DEF ShopShape
  <2>5. PICK toggle \in {"unset", "open", "closed"} :
          /\ liveToggle' = [liveToggle EXCEPT ![s] = toggle]
          /\ asked.to = "UNDER_REVIEW" /\ asked.from = "ACTIVE" => toggle = Toggle(shop[s].active)
          /\ asked.to = "UNDER_REVIEW" /\ asked.from # "ACTIVE" => toggle = liveToggle[s]
          /\ asked.to = "PENDING" => toggle = liveToggle[s]
          /\ asked.to \notin {"UNDER_REVIEW", "PENDING"} => toggle = "unset"
    <3>1. Toggle(shop[s].active) \in {"unset", "open", "closed"} /\ liveToggle[s] \in {"unset", "open", "closed"}
      BY DEF ShopShape, Toggle
    <3>2. PICK toggle : toggle = IF asked.to = "UNDER_REVIEW" /\ asked.from = "ACTIVE" THEN Toggle(shop[s].active)
                                ELSE IF asked.to \in {"UNDER_REVIEW", "PENDING"} THEN liveToggle[s] ELSE "unset"
      OBVIOUS
    <3>3. liveToggle' = [liveToggle EXCEPT ![s] = toggle]
      BY <1>7, <3>2 DEF Committed
    <3>4. CASE asked.to = "UNDER_REVIEW" /\ asked.from = "ACTIVE"
      BY <3>1, <3>2, <3>3, <3>4
    <3>5. CASE asked.to = "UNDER_REVIEW" /\ asked.from # "ACTIVE"
      BY <3>1, <3>2, <3>3, <3>5
    <3>6. CASE asked.to = "PENDING"
      BY <3>1, <3>2, <3>3, <3>6
    <3>7. CASE asked.to \notin {"UNDER_REVIEW", "PENDING"}
      BY <3>1, <3>2, <3>3, <3>7
    <3> QED
      BY <3>4, <3>5, <3>6, <3>7
  <2>6. PICK raced :
          /\ shopRaced' = [shopRaced EXCEPT ![s] = raced]
          /\ shopRaced[s] \subseteq raced
          /\ "toggle" \notin raced => asked.active = shop[s].active /\ asked.parked = shop[s].parked
          /\ shop[s].deleted => "reopen" \in raced
          /\ (\E w \in Purgers : s \in purge[w]) => "sweep" \in raced
    <3>1. PICK raced : raced = shopRaced[s]
                \cup {t \in {"toggle"} : asked.active # shop[s].active \/ asked.parked # shop[s].parked}
                \cup {t \in {"reopen"} : shop[s].deleted}
                \cup {t \in {"sweep"} : \E w \in Purgers : s \in purge[w]}
      OBVIOUS
    <3>2. shopRaced' = [shopRaced EXCEPT ![s] = raced]
      BY <1>7, <3>1 DEF Committed
    <3>3. /\ shopRaced[s] \subseteq raced
          /\ "toggle" \notin raced => asked.active = shop[s].active /\ asked.parked = shop[s].parked
          /\ shop[s].deleted => "reopen" \in raced
          /\ (\E w \in Purgers : s \in purge[w]) => "sweep" \in raced
      BY <3>1
    <3> QED
      BY <3>2, <3>3
  <2>7. /\ shop'[s] = row /\ shopLog'[s] = log /\ liveToggle'[s] = toggle /\ shopRaced'[s] = raced
        /\ shopDocs'[s] = DocsAfter(s, asked.to)
        /\ judged'[s] = IF asked.to = "UNDER_REVIEW" THEN shop[s].content ELSE judged[s]
    BY <2>2, <2>3, <2>4, <2>5, <2>6 DEF ShopShape
  <2>8. DocsAfter(s, asked.to) \in {"NONE", "PENDING", "APPROVED", "REJECTED"}
    BY DEF DocsAfter, ShopShape
  <2>9. ShopShape'
    BY <1>4, <1>5, <2>2, <2>3, <2>4, <2>5, <2>6, <2>8 DEF ShopShape
  <2>10. ASSUME NEW t \in Shops, t # s PROVE ShopSound(t)'
    <3>1. /\ shop'[t] = shop[t] /\ shopDocs'[t] = shopDocs[t] /\ shopLog'[t] = shopLog[t]
          /\ judged'[t] = judged[t] /\ liveToggle'[t] = liveToggle[t] /\ shopRaced'[t] = shopRaced[t]
      BY <2>2, <2>3, <2>4, <2>5, <2>6, <2>10 DEF ShopShape
    <3> QED
      BY <1>4, <3>1, ShopUntouched
  <2>11. ShopSound(s)'
    <3>1. /\ row.status = asked.to /\ row.deleted = shop[s].deleted /\ row.content = shop[s].content
          /\ asked.to # "UNDER_REVIEW" => row.claimedBy = Nobody
          /\ asked.to = "UNDER_REVIEW" /\ asked.from = "ACTIVE" => row.parked = Toggle(asked.active)
          /\ asked.to = "UNDER_REVIEW" /\ asked.from # "ACTIVE" => row.parked = shop[s].parked
          /\ asked.to = "PENDING" => row.parked = shop[s].parked
      BY <1>2, <2>1, DataWritten DEF ShopShape
    <3>2. asked.to # "NONE"
      BY <1>2 DEF Statuses
    <3>3. asked.to = "ACTIVE" => DocsAfter(s, asked.to) = "APPROVED"
      BY DEF DocsAfter
    <3>4. toggle # "unset" /\ "toggle" \notin raced => row.parked = toggle
      BY <2>5, <2>6, <3>1 DEF ShopSound
    <3>5. row.deleted => "reopen" \in raced
      BY <2>6, <3>1
    <3>6. log.deletions > 0 /\ "sweep" \notin raced => row.deleted
      BY <2>3, <2>6, <3>1 DEF ShopSound
    <3>7. (\E w \in Purgers : s \in purge'[w]) => "sweep" \in raced
      BY <1>4, <2>6
    <3> QED
      BY <2>3, <2>7, <3>1, <3>2, <3>3, <3>4, <3>5, <3>6, <3>7 DEF ShopSound
  <2> QED
    BY <2>9, <2>10, <2>11
<1> QED
  BY <1>4, <1>6, <1>7

-----------------------------------------------------------------------------
(* The review of stores: everything else                                   *)

\* A claim of a store under review logs the status it has.
LEMMA ShopClaimWriteStep ==
    ASSUME ShopInv, NEW c \in Decisions, ShopClaimWrite(c)
    PROVE  ShopInv'
<1> USE DEF ShopInv
<1>1. PICK s \in Shops : s = shopCall[c].shop
  BY DEF ShopClaimWrite, ShopShape, CallAllowed
<1>2. shopCall[c].admin \in Admins
  BY DEF ShopClaimWrite, ShopShape, CallAllowed
<1>3. /\ EndCall(c) /\ UNCHANGED <<shopDocs, purge, shopGhosts>>
      /\ \/ UNCHANGED <<shop, shopLog>>
         \/ /\ shop[s].status = "UNDER_REVIEW"
            /\ shop' = [shop EXCEPT ![s].claimedBy = shopCall[c].admin, ![s].stale = FALSE]
            /\ Logged(s, "UNDER_REVIEW", "UNDER_REVIEW")
  BY <1>1 DEF ShopClaimWrite
<1>4. /\ shopCall' \in [Decisions \cup ShopEdits -> ShopCallState]
      /\ \A d \in Decisions \cup ShopEdits : CallAllowed(d)'
  BY <1>3, ShopCallEnds
<1>5. CASE UNCHANGED <<shop, shopLog>>
  BY <1>3, <1>4, <1>5, ShopsRest DEF shopRows
<1>6. CASE /\ shop[s].status = "UNDER_REVIEW"
           /\ shop' = [shop EXCEPT ![s].claimedBy = shopCall[c].admin, ![s].stale = FALSE]
           /\ Logged(s, "UNDER_REVIEW", "UNDER_REVIEW")
  <2>1. shop[s] \in ShopRow /\ shopLog[s] \in [last : Statuses, gaps : {0, 1}, deletions : Nat]
    BY DEF ShopShape
  <2>2. PICK row : row = [shop[s] EXCEPT !.claimedBy = shopCall[c].admin, !.stale = FALSE]
    OBVIOUS
  <2>3. /\ row \in ShopRow /\ row.status = shop[s].status /\ row.deleted = shop[s].deleted
        /\ row.content = shop[s].content /\ row.parked = shop[s].parked
    BY <1>2, <2>1, <2>2 DEF ShopRow
  <2>4. shop' = [shop EXCEPT ![s] = row]
    BY <1>6, <2>2 DEF ShopShape
  <2>5. shopLog[s].gaps = 0 /\ shopLog[s].last = "UNDER_REVIEW"
    BY <1>6 DEF ShopSound
  <2>6. PICK log : log = [last |-> "UNDER_REVIEW", deletions |-> shopLog[s].deletions, gaps |-> 0]
    OBVIOUS
  <2>7. shopLog' = [shopLog EXCEPT ![s] = log]
    BY <1>6, <2>5, <2>6 DEF Logged
  <2>8. shopLog[s].deletions \in Nat
    BY <2>1
  <2>9. /\ log \in [last : Statuses, gaps : {0, 1}, deletions : Nat]
        /\ log.last = "UNDER_REVIEW" /\ log.gaps = 0 /\ log.deletions = shopLog[s].deletions
    BY <2>6, <2>8 DEF Statuses
  <2>10. ShopShape'
    BY <1>3, <1>4, <2>3, <2>4, <2>7, <2>9 DEF ShopShape, shopGhosts
  <2>11. ASSUME NEW t \in Shops, t # s PROVE ShopSound(t)'
    <3>1. shop'[t] = shop[t] /\ shopLog'[t] = shopLog[t]
      BY <2>4, <2>7, <2>11 DEF ShopShape
    <3> QED
      BY <1>3, <3>1, ShopUntouched DEF shopGhosts
  <2>12. ShopSound(s)'
    <3>1. shop'[s] = row /\ shopLog'[s] = log
      BY <2>4, <2>7 DEF ShopShape
    <3> QED
      BY <1>3, <1>6, <2>3, <2>9, <3>1 DEF ShopSound, shopGhosts
  <2> QED
    BY <2>10, <2>11, <2>12
<1> QED
  BY <1>3, <1>5, <1>6

\* A check of any request changes the request alone.
LEMMA ShopReadStep ==
    ASSUME ShopInv, NEW c \in Decisions \cup ShopEdits, NEW s \in Shops,
           \/ \E a \in Admins, to \in Statuses : TransitionRead(c, s, a, to)
           \/ \E a \in Admins, f \in BOOLEAN : ShopClaimRead(c, s, a, f)
           \/ ShopEditRead(c, s)
    PROVE  ShopInv'
<1>1. shop[s] \in ShopRow
  BY DEF ShopInv, ShopShape
<1> DEFINE Fits(to) == /\ to.pc # "idle" => to.shop \in Shops
                       /\ to.pc = "deciding" => /\ to.admin \in Admins /\ to.from \in Statuses
                                                /\ to.to \in AllowedTransitions[to.from]
                       /\ to.pc = "claiming" => to.admin \in Admins
                       /\ to.pc = "editing" => to.from \in EditableStatuses
<1>2. PICK to \in ShopCallState : shopCall' = [shopCall EXCEPT ![c] = to] /\ Fits(to)
  <2>1. ASSUME NEW a \in Admins, NEW move \in Statuses, TransitionRead(c, s, a, move)
          PROVE  \E to \in ShopCallState : shopCall' = [shopCall EXCEPT ![c] = to] /\ Fits(to)
    <3>1. PICK to : to = [pc |-> "deciding", shop |-> s, admin |-> a, from |-> shop[s].status,
                          to |-> move, active |-> shop[s].active, parked |-> shop[s].parked]
      OBVIOUS
    <3>2. /\ shopCall' = [shopCall EXCEPT ![c] = to]
          /\ shop[s].status \in Statuses /\ move \in AllowedTransitions[shop[s].status]
      BY <2>1, <3>1 DEF TransitionRead
    <3>3. shop[s].active \in BOOLEAN /\ shop[s].parked \in {"unset", "open", "closed"}
      BY <1>1 DEF ShopRow
    <3>4. to \in ShopCallState
      BY <3>1, <3>2, <3>3 DEF ShopCallState
    <3>5. /\ to.pc = "deciding" /\ to.shop = s /\ to.admin = a /\ to.from = shop[s].status
          /\ to.to = move
      BY <3>1
    <3> QED
      BY <3>2, <3>4, <3>5
  <2>2. ASSUME NEW a \in Admins, NEW f \in BOOLEAN, ShopClaimRead(c, s, a, f)
          PROVE  \E to \in ShopCallState : shopCall' = [shopCall EXCEPT ![c] = to] /\ Fits(to)
    <3>1. PICK to : to = [ShopIdle EXCEPT !.pc = "claiming", !.shop = s, !.admin = a]
      OBVIOUS
    <3>2. to \in ShopCallState /\ to.pc = "claiming" /\ to.shop = s /\ to.admin = a
      BY <3>1 DEF ShopIdle, ShopCallState
    <3> QED
      BY <2>2, <3>1, <3>2 DEF ShopClaimRead
  <2>3. ASSUME ShopEditRead(c, s)
          PROVE  \E to \in ShopCallState : shopCall' = [shopCall EXCEPT ![c] = to] /\ Fits(to)
    <3>1. PICK to : to = [ShopIdle EXCEPT !.pc = "editing", !.shop = s, !.from = shop[s].status]
      OBVIOUS
    <3>2. /\ to \in ShopCallState /\ to.pc = "editing" /\ to.shop = s /\ to.from = shop[s].status
      BY <1>1, <3>1 DEF ShopIdle, ShopCallState, ShopRow
    <3> QED
      BY <2>3, <3>1, <3>2 DEF ShopEditRead
  <2> QED
    BY <2>1, <2>2, <2>3
<1>3. /\ shopCall' \in [Decisions \cup ShopEdits -> ShopCallState]
      /\ \A d \in Decisions \cup ShopEdits : CallAllowed(d)'
  BY <1>2, ShopCallMoves DEF ShopInv
<1>4. UNCHANGED <<shopRows, purge, shopGhosts>>
  BY DEF TransitionRead, ShopClaimRead, ShopEditRead
<1> QED
  BY <1>3, <1>4, ShopsRest

\* An edit that lands on a store under review was checked before the review began.
LEMMA ShopEditWriteStep ==
    ASSUME ShopInv, NEW c \in ShopEdits, NEW active \in BOOLEAN, ShopEditWrite(c, active)
    PROVE  ShopInv'
<1> USE DEF ShopInv
<1>1. PICK s \in Shops : s = shopCall[c].shop
  BY DEF ShopEditWrite, ShopShape, CallAllowed
<1>2. shopCall[c].from \in EditableStatuses
  BY DEF ShopEditWrite, ShopShape, CallAllowed
<1>3. /\ shop' = [shop EXCEPT ![s].content = @ + 1, ![s].active = active]
      /\ Overtaken(s, "edit", shopCall[c].from # shop[s].status)
      /\ EndCall(c) /\ UNCHANGED <<shopDocs, shopLog, purge, judged, liveToggle>>
  BY <1>1 DEF ShopEditWrite
<1>4. /\ shopCall' \in [Decisions \cup ShopEdits -> ShopCallState]
      /\ \A d \in Decisions \cup ShopEdits : CallAllowed(d)'
  BY <1>3, ShopCallEnds
<1>5. shop[s] \in ShopRow
  BY DEF ShopShape
<1>6. PICK row : row = [shop[s] EXCEPT !.content = shop[s].content + 1, !.active = active]
  OBVIOUS
<1>7. /\ row \in ShopRow /\ row.status = shop[s].status /\ row.deleted = shop[s].deleted
      /\ row.parked = shop[s].parked /\ row.claimedBy = shop[s].claimedBy
  <2>1. PICK n \in Nat : n = shop[s].content + 1
    BY <1>5 DEF ShopRow
  <2>2. row = [shop[s] EXCEPT !.content = n, !.active = active]
    BY <1>6, <2>1
  <2> QED
    BY <1>5, <2>2 DEF ShopRow
<1>8. shop' = [shop EXCEPT ![s] = row]
  BY <1>3, <1>6 DEF ShopShape
<1>9. PICK raced : /\ shopRaced' = [shopRaced EXCEPT ![s] = raced]
                   /\ shopRaced[s] \subseteq raced
                   /\ shop[s].status = "UNDER_REVIEW" => "edit" \in raced
  <2>1. PICK raced : raced = shopRaced[s] \cup {t \in {"edit"} : shopCall[c].from # shop[s].status}
    OBVIOUS
  <2>2. shopRaced' = [shopRaced EXCEPT ![s] = raced]
    BY <1>3, <2>1 DEF Overtaken
  <2>3. shop[s].status = "UNDER_REVIEW" => "edit" \in raced
    BY <1>2, <2>1, AllowedFacts
  <2> QED
    BY <2>1, <2>2, <2>3
<1>10. shop'[s] = row /\ shopRaced'[s] = raced
  BY <1>8, <1>9 DEF ShopShape
<1>11. ShopShape'
  <2>1. UNCHANGED <<shopDocs, shopLog, purge, judged, liveToggle>>
    BY <1>3
  <2> QED
    BY <1>4, <1>7, <1>8, <1>9, <2>1 DEF ShopShape
<1>12. ASSUME NEW t \in Shops, t # s PROVE ShopSound(t)'
  <2>1. shop'[t] = shop[t] /\ shopRaced'[t] = shopRaced[t]
    BY <1>8, <1>9, <1>12 DEF ShopShape
  <2> QED
    BY <1>3, <2>1, ShopUntouched
<1>13. ShopSound(s)'
  BY <1>3, <1>7, <1>9, <1>10 DEF ShopSound
<1> QED
  BY <1>11, <1>12, <1>13

\* Creation, deletion by the seller, and time.
LEMMA ShopRowStep ==
    ASSUME ShopInv, NEW s \in Shops,
           CreateShop(s) \/ DeleteShop(s) \/ WindowEnds(s) \/ ClaimGoesStale(s)
    PROVE  ShopInv'
<1> USE DEF ShopInv
<1>1. shop[s] \in ShopRow /\ shopLog[s] \in [last : Statuses, gaps : {0, 1}, deletions : Nat]
  BY DEF ShopShape
<1>2. UNCHANGED <<shopCall, purge, shopGhosts>>
  BY DEF CreateShop, DeleteShop, WindowEnds, ClaimGoesStale
<1>3. \A d \in Decisions \cup ShopEdits : CallAllowed(d)'
  BY <1>2 DEF ShopShape, CallAllowed
<1>4. CASE CreateShop(s)
  <2>1. PICK row : row = [shop[s] EXCEPT !.status = "PENDING"]
    OBVIOUS
  <2>2. /\ row \in ShopRow /\ row.status = "PENDING" /\ row.deleted = shop[s].deleted
        /\ row.parked = shop[s].parked
    BY <1>1, <2>1 DEF ShopRow, Statuses
  <2>3. /\ shop' = [shop EXCEPT ![s] = row] /\ shop[s].status = "NONE"
        /\ shopDocs' = [shopDocs EXCEPT ![s] = "PENDING"] /\ UNCHANGED shopLog
    BY <1>4, <2>1 DEF CreateShop, ShopShape
  <2>4. ShopShape'
    BY <1>2, <1>3, <2>2, <2>3 DEF ShopShape, shopGhosts
  <2>5. ASSUME NEW t \in Shops, t # s PROVE ShopSound(t)'
    <3>1. shop'[t] = shop[t] /\ shopDocs'[t] = shopDocs[t]
      BY <2>3, <2>5 DEF ShopShape
    <3> QED
      BY <1>2, <2>3, <3>1, ShopUntouched DEF shopGhosts
  <2>6. shop'[s] = row
    BY <2>3 DEF ShopShape
  <2>7. ShopSound(s)'
    BY <1>2, <2>2, <2>3, <2>6 DEF ShopSound, shopGhosts
  <2> QED
    BY <2>4, <2>5, <2>7
<1>5. CASE DeleteShop(s)
  <2>1. PICK row : row = [shop[s] EXCEPT !.deleted = TRUE, !.active = FALSE]
    OBVIOUS
  <2>2. /\ row \in ShopRow /\ row.status = shop[s].status /\ row.deleted = TRUE
        /\ row.parked = shop[s].parked
    BY <1>1, <2>1 DEF ShopRow
  <2>3. PICK log : log = [shopLog[s] EXCEPT !.deletions = shopLog[s].deletions + 1]
    OBVIOUS
  <2>4. /\ log \in [last : Statuses, gaps : {0, 1}, deletions : Nat]
        /\ log.last = shopLog[s].last /\ log.gaps = shopLog[s].gaps
    BY <1>1, <2>3
  <2>5. /\ shop' = [shop EXCEPT ![s] = row] /\ shop[s].status = "REJECTED"
        /\ shopLog' = [shopLog EXCEPT ![s] = log] /\ UNCHANGED shopDocs
    BY <1>5, <2>1, <2>3 DEF DeleteShop, ShopShape
  <2>6. ShopShape'
    BY <1>2, <1>3, <2>2, <2>4, <2>5 DEF ShopShape, shopGhosts
  <2>7. ASSUME NEW t \in Shops, t # s PROVE ShopSound(t)'
    <3>1. shop'[t] = shop[t] /\ shopLog'[t] = shopLog[t]
      BY <2>5, <2>7 DEF ShopShape
    <3> QED
      BY <1>2, <2>5, <3>1, ShopUntouched DEF shopGhosts
  <2>8. shop'[s] = row /\ shopLog'[s] = log
    BY <2>5 DEF ShopShape
  <2>9. ShopSound(s)'
    BY <1>2, <2>2, <2>4, <2>5, <2>8 DEF ShopSound, shopGhosts
  <2> QED
    BY <2>6, <2>7, <2>9
<1>6. CASE WindowEnds(s) \/ ClaimGoesStale(s)
  <2>1. PICK row : /\ shop' = [shop EXCEPT ![s] = row]
                   /\ row \in ShopRow /\ row.status = shop[s].status
                   /\ row.deleted = shop[s].deleted /\ row.content = shop[s].content
                   /\ row.parked = shop[s].parked /\ row.claimedBy = shop[s].claimedBy
    <3>1. CASE WindowEnds(s)
      <4>1. PICK row : row = [shop[s] EXCEPT !.window = "over"]
        OBVIOUS
      <4>2. shop' = [shop EXCEPT ![s] = row]
        BY <3>1, <4>1 DEF WindowEnds, ShopShape
      <4>3. /\ row \in ShopRow /\ row.status = shop[s].status
            /\ row.deleted = shop[s].deleted /\ row.content = shop[s].content
            /\ row.parked = shop[s].parked /\ row.claimedBy = shop[s].claimedBy
        BY <1>1, <4>1 DEF ShopRow
      <4> QED
        BY <4>2, <4>3
    <3>2. CASE ClaimGoesStale(s)
      <4>1. PICK row : row = [shop[s] EXCEPT !.stale = TRUE]
        OBVIOUS
      <4>2. shop' = [shop EXCEPT ![s] = row]
        BY <3>2, <4>1 DEF ClaimGoesStale, ShopShape
      <4>3. /\ row \in ShopRow /\ row.status = shop[s].status
            /\ row.deleted = shop[s].deleted /\ row.content = shop[s].content
            /\ row.parked = shop[s].parked /\ row.claimedBy = shop[s].claimedBy
        BY <1>1, <4>1 DEF ShopRow
      <4> QED
        BY <4>2, <4>3
    <3> QED
      BY <1>6, <3>1, <3>2
  <2>2. UNCHANGED <<shopDocs, shopLog>>
    BY <1>6 DEF WindowEnds, ClaimGoesStale
  <2>3. ShopShape'
    BY <1>2, <1>3, <2>1, <2>2 DEF ShopShape, shopGhosts
  <2>4. ASSUME NEW t \in Shops, t # s PROVE ShopSound(t)'
    <3>1. shop'[t] = shop[t]
      BY <2>1, <2>4 DEF ShopShape
    <3> QED
      BY <1>2, <2>2, <3>1, ShopUntouched DEF shopGhosts
  <2>5. shop'[s] = row
    BY <2>1 DEF ShopShape
  <2>6. ShopSound(s)'
    BY <1>2, <2>1, <2>2, <2>5 DEF ShopSound, shopGhosts
  <2> QED
    BY <2>3, <2>4, <2>6
<1> QED
  BY <1>4, <1>5, <1>6

\* A sweep holds rejected stores, but for those that moved on in the meantime.
LEMMA PurgeReadStep ==
    ASSUME ShopInv, NEW w \in Purgers, PurgeRead(w)
    PROVE  ShopInv'
<1> USE DEF ShopInv
<1>1. PICK lapsing \in SUBSET Shops :
        /\ purge' = [purge EXCEPT ![w] = lapsing]
        /\ \A s \in lapsing : shop[s].status = "REJECTED"
  BY DEF PurgeRead
<1>2. UNCHANGED <<shopRows, shopCall, shopGhosts>>
  BY DEF PurgeRead
<1>3. ShopShape'
  BY <1>1, <1>2 DEF ShopShape, CallAllowed, shopRows, shopGhosts
<1>4. ASSUME NEW s \in Shops PROVE ShopSound(s)'
  <2>1. (\E x \in Purgers : s \in purge'[x]) => shop[s].status = "REJECTED" \/ \E x \in Purgers : s \in purge[x]
    BY <1>1 DEF ShopShape
  <2> QED
    BY <1>2, <2>1 DEF ShopSound, shopRows, shopGhosts
<1> QED
  BY <1>3, <1>4

\* What the sweep logs as deleted is deleted, or the store moved on under it.
LEMMA PurgeWriteStep ==
    ASSUME ShopInv, NEW w \in Purgers, PurgeWrite(w)
    PROVE  ShopInv'
<1> USE DEF ShopInv
<1>1. PICK hit \in SUBSET Shops :
        /\ hit = {s \in purge[w] : StillRejected(s)}
        /\ shop' = [s \in Shops |-> IF s \in hit
              THEN [shop[s] EXCEPT !.deleted = TRUE, !.active = FALSE] ELSE shop[s]]
        /\ shopLog' = [s \in Shops |-> IF hit # {} /\ s \in purge[w]
              THEN [shopLog[s] EXCEPT !.deletions = @ + 1] ELSE shopLog[s]]
        /\ shopRaced' = [s \in Shops |-> shopRaced[s] \cup
              {t \in {"sweep"} : s \in purge[w] /\ (shop[s].deleted \/ shop[s].window # "over")}]
        /\ purge' = [purge EXCEPT ![w] = {}]
        /\ UNCHANGED <<shopDocs, shopCall, judged, liveToggle>>
  <2>1. {s \in purge[w] : StillRejected(s)} \in SUBSET Shops
    BY DEF ShopShape
  <2> QED
    BY <2>1 DEF PurgeWrite
<1>2. ASSUME NEW s \in Shops
      PROVE  /\ shop'[s] \in ShopRow /\ shop'[s].status = shop[s].status
             /\ shop'[s].content = shop[s].content /\ shop'[s].parked = shop[s].parked
             /\ shop'[s].claimedBy = shop[s].claimedBy
             /\ s \in hit => shop'[s].deleted
             /\ s \notin hit => shop'[s].deleted = shop[s].deleted
  <2>1. shop[s] \in ShopRow
    BY DEF ShopShape
  <2>2. shop'[s] = IF s \in hit THEN [shop[s] EXCEPT !.deleted = TRUE, !.active = FALSE] ELSE shop[s]
    BY <1>1
  <2> QED
    BY <2>1, <2>2 DEF ShopRow
<1>3. ASSUME NEW s \in Shops
      PROVE  /\ shopLog'[s] \in [last : Statuses, gaps : {0, 1}, deletions : Nat]
             /\ shopLog'[s].last = shopLog[s].last /\ shopLog'[s].gaps = shopLog[s].gaps
             /\ s \notin purge[w] => shopLog'[s] = shopLog[s]
  <2>1. shopLog[s] \in [last : Statuses, gaps : {0, 1}, deletions : Nat]
    BY DEF ShopShape
  <2>2. shopLog'[s] = IF hit # {} /\ s \in purge[w]
                        THEN [shopLog[s] EXCEPT !.deletions = @ + 1] ELSE shopLog[s]
    BY <1>1
  <2> QED
    BY <2>1, <2>2
<1>4. ShopShape'
  <2>1. shop' \in [Shops -> ShopRow]
    BY <1>1, <1>2
  <2>2. shopLog' \in [Shops -> [last : Statuses, gaps : {0, 1}, deletions : Nat]]
    BY <1>1, <1>3
  <2> QED
    BY <1>1, <2>1, <2>2 DEF ShopShape, CallAllowed
<1>5. ASSUME NEW s \in Shops PROVE ShopSound(s)'
  <2>1. /\ shopRaced[s] \subseteq shopRaced'[s]
        /\ s \in purge[w] /\ shop[s].deleted => "sweep" \in shopRaced'[s]
    BY <1>1
  <2>2. \A x \in Purgers : s \in purge'[x] => s \in purge[x]
    BY <1>1 DEF ShopShape
  <2>3. s \in hit => shop[s].status = "REJECTED"
    BY <1>1 DEF StillRejected
  <2>4. s \in purge[w] /\ s \notin hit => shop[s].status # "REJECTED" \/ shop[s].deleted
    BY <1>1 DEF StillRejected
  <2>5. s \in purge[w] /\ "sweep" \notin shopRaced'[s] => s \in hit
    BY <2>1, <2>4 DEF ShopSound
  <2>6. ShopSound(s) /\ UNCHANGED <<shopDocs, judged, liveToggle>>
    BY <1>1
  <2>7. CASE s \notin purge[w]
    <3>1. s \notin hit
      BY <1>1, <2>7
    <3> QED
      BY <1>2, <1>3, <2>1, <2>2, <2>6, <2>7, <3>1 DEF ShopSound
  <2>8. CASE s \in hit
    BY <1>2, <1>3, <2>1, <2>2, <2>3, <2>6, <2>8 DEF ShopSound
  <2>9. CASE s \in purge[w] /\ s \notin hit
    <3>1. "sweep" \in shopRaced'[s]
      BY <2>5, <2>9
    <3> QED
      BY <1>2, <1>3, <2>1, <2>2, <2>6, <2>9, <3>1 DEF ShopSound
  <2> QED
    BY <2>7, <2>8, <2>9
<1> QED
  BY <1>4, <1>5

LEMMA ShopInvStep == ShopInv /\ [ShopNext]_shopVars => ShopInv'
<1> SUFFICES ASSUME ShopInv, [ShopNext]_shopVars PROVE ShopInv'
  OBVIOUS
<1>1. CASE UNCHANGED shopVars
  BY <1>1 DEF ShopInv, ShopShape, ShopSound, CallAllowed, shopVars, shopRows, shopGhosts
<1>2. CASE ShopNext
  BY <1>2, ShopRowStep, ShopReadStep, TransitionWriteStep, ShopClaimWriteStep, ShopEditWriteStep,
     PurgeReadStep, PurgeWriteStep DEF ShopNext, ShopStep
<1> QED
  BY <1>1, <1>2

\* A store goes live by a decision, which opens it as it was when it was read.
LEMMA ToggleRestored ==
    ShopInv /\ [ShopNext]_shopVars =>
      [\A s \in Shops :
         shop[s].status = "UNDER_REVIEW" /\ shop'[s].status = "ACTIVE"
           /\ liveToggle[s] # "unset" /\ "toggle" \notin shopRaced'[s]
         => Toggle(shop'[s].active) = liveToggle[s]]_shopVars
<1> SUFFICES ASSUME ShopInv, [ShopNext]_shopVars, NEW s \in Shops,
                    shop[s].status = "UNDER_REVIEW", shop'[s].status = "ACTIVE",
                    liveToggle[s] # "unset", "toggle" \notin shopRaced'[s]
             PROVE  Toggle(shop'[s].active) = liveToggle[s]
  OBVIOUS
<1> USE DEF ShopInv
<1>a. shop \in [Shops -> ShopRow]
  BY DEF ShopShape
<1>1. ASSUME NEW c \in Decisions, TransitionWrite(c)
      PROVE  Toggle(shop'[s].active) = liveToggle[s]
  <2>1. PICK asked \in ShopCallState : asked = shopCall[c]
    BY DEF ShopShape
  <2>2. /\ asked.shop \in Shops /\ asked.admin \in Admins /\ asked.from \in Statuses
        /\ asked.to \in AllowedTransitions[asked.from]
    BY <1>1, <2>1 DEF TransitionWrite, ShopShape, CallAllowed
  <2>3. Committed(asked.shop, asked)
    BY <1>1, <2>1 DEF TransitionWrite, shopRows
  <2>4. asked.shop = s
    BY <1>a, <2>2, <2>3 DEF Committed
  <2>5. shop'[s] = DataFor(shop[s], asked) /\ shop[s] \in ShopRow
    BY <1>a, <2>3, <2>4 DEF Committed
  <2>6. asked.to = "ACTIVE" /\ shop'[s].active = (asked.parked # "closed")
    BY <2>2, <2>5, DataWritten
  <2>7. asked.parked = shop[s].parked /\ shopRaced[s] \subseteq shopRaced'[s]
    BY <2>3, <2>4 DEF Committed, ShopShape
  <2>8. shop[s].parked = liveToggle[s]
    BY <2>7 DEF ShopSound
  <2> QED
    BY <2>6, <2>7, <2>8 DEF Toggle, ShopShape
<1>2. ASSUME NEW t \in Shops, CreateShop(t) \/ DeleteShop(t) \/ WindowEnds(t) \/ ClaimGoesStale(t)
      PROVE  FALSE
  BY <1>2, <1>a DEF CreateShop, DeleteShop, WindowEnds, ClaimGoesStale, ShopRow
<1>3. ASSUME NEW c \in Decisions, ShopClaimWrite(c) PROVE FALSE
  BY <1>3, <1>a DEF ShopClaimWrite, ShopRow
<1>4. ASSUME NEW c \in ShopEdits, NEW active \in BOOLEAN, ShopEditWrite(c, active) PROVE FALSE
  BY <1>4, <1>a DEF ShopEditWrite, ShopRow
<1>5. ASSUME NEW w \in Purgers, PurgeWrite(w) PROVE FALSE
  BY <1>5, <1>a DEF PurgeWrite, ShopRow
<1>6. ASSUME shop' = shop PROVE FALSE
  BY <1>6
<1> QED
  BY <1>1, <1>2, <1>3, <1>4, <1>5, <1>6
     DEF ShopNext, ShopStep, TransitionRead, ShopClaimRead, ShopEditRead, PurgeRead, shopVars, shopRows

LEMMA ShopInvSafe ==
    ShopInv => /\ ShopTypeOK /\ VisibleShopsAreVetted /\ HistoryIsAChain
               /\ ReviewedContentIsFrozen /\ DeletionsAreOfRejectedShops
<1> SUFFICES ASSUME ShopInv PROVE /\ ShopTypeOK /\ VisibleShopsAreVetted /\ HistoryIsAChain
                                  /\ ReviewedContentIsFrozen /\ DeletionsAreOfRejectedShops
  OBVIOUS
<1>1. ShopTypeOK
  BY DEF ShopInv, ShopShape, ShopTypeOK, ShopRow
<1>2. VisibleShopsAreVetted
  BY DEF ShopInv, ShopSound, VisibleShopsAreVetted, MapView, SitemapView, DetailView, ShelfView, Present
<1>3. HistoryIsAChain /\ ReviewedContentIsFrozen /\ DeletionsAreOfRejectedShops
  BY DEF ShopInv, ShopSound, HistoryIsAChain, ReviewedContentIsFrozen, DeletionsAreOfRejectedShops
<1> QED
  BY <1>1, <1>2, <1>3

\* However decisions, claims, edits, deletions and sweeps interleave: what buyers find
\* was vetted and nobody is reviewing it, the audit log is a chain that ends in the
\* status, a review is of the content it began with, deletions are of rejected stores,
\* and a live store that is approved again is open or closed as it was, but for checks
\* that were overtaken.
THEOREM ShopsReviewed == ShopSpec => ReviewIsSound
<1>1. ShopSpec => []ShopInv
  BY ShopInvInit, ShopInvStep, PTL DEF ShopSpec
<1>2. ShopSpec => ToggleComesBack
  BY <1>1, ToggleRestored, PTL DEF ShopSpec, ToggleComesBack
<1> QED
  BY <1>1, <1>2, ShopInvSafe, PTL DEF ReviewIsSound

-----------------------------------------------------------------------------
(* Settlements, returns and payouts                                         *)

\* The steps of a decision.
Deciding == {"holding", "writing", "freeing", "loading", "marking", "refunding",
             "refunded", "refused"}

\* What a request in progress relies on.
Consistent(c) ==
    /\ call[c].pc \in Deciding =>
          /\ call[c].return \in Returns
          /\ returns[call[c].return].order = call[c].order
          /\ returns[call[c].return].status # "NONE"
    /\ call[c].pc = "holding" => call[c].to = "APPROVED"
    /\ call[c].pc = "writing" => call[c].to \in {"APPROVED", "REJECTED", "ITEM_RECEIVED"}
    /\ call[c].pc = "editing" => call[c].to \in SettlementStatus
    /\ call[c].pc = "paying" => NetOf(call[c].found) > 0

RequestsConsistent == \A c \in Requests : Consistent(c)

LedgerInv == SettlementTypeOK /\ RequestsConsistent

\* The requests whose refund the provider answered and no row shows yet.
InFlight(o) == {c \in Requests : call[c].pc = "refunded" /\ call[c].order = o}

RefundsCovered ==
    \A o \in Orders : method[o] = "GATEWAY" =>
       restocks[o] + Cardinality(InFlight(o)) <= refundsSent[o]

-----------------------------------------------------------------------------
(* Amounts and requests                                                    *)

\* What a set of settlements is worth is a number.
LEMMA NetIsInt ==
    ASSUME NEW S \in SUBSET Orders
    PROVE  NetOf(S) \in Int
<1> DEFINE G == {o \in S : method[o] = "GATEWAY"}
           C == {o \in S : method[o] = "CASH"}
<1>1. IsFiniteSet(G) /\ IsFiniteSet(C)
  BY SettlementConstants, FS_Subset
<1>2. Cardinality(G) \in Nat /\ Cardinality(C) \in Nat
  BY <1>1, FS_CardinalityType
<1> HIDE DEF G, C
<1>3. SellerNet * Cardinality(G) - Commission * Cardinality(C) \in Int
  BY <1>2, SettlementConstants
<1> QED
  BY <1>3 DEF NetOf, G, C

\* Goto and Finish lead to well-typed requests.
LEMMA GotoTyped ==
    ASSUME call \in [Requests -> RequestState], NEW c, NEW pc,
           pc \in {"freeing", "writing", "marking", "refunding", "refunded", "refused"},
           Goto(c, pc)
    PROVE  call' \in [Requests -> RequestState]
BY ZenonT(60) DEF Goto, RequestState

\* A finished request is idle, and well typed.
LEMMA FinishTyped ==
    ASSUME call \in [Requests -> RequestState], NEW c, Finish(c)
    PROVE  call' \in [Requests -> RequestState]
<1>1. Idle \in RequestState
  BY DEF Idle, RequestState, ReturnStatus, SettlementStatus
<1> QED
  BY <1>1 DEF Finish

\* When one request finishes and the returns stay, the others rely on what they
\* relied on.
LEMMA FinishConsistent ==
    ASSUME LedgerInv, NEW c, Finish(c), UNCHANGED <<method, returns>>
    PROVE  RequestsConsistent'
<1> SUFFICES ASSUME NEW x \in Requests PROVE Consistent(x)'
  BY DEF RequestsConsistent
<1>1. CASE x = c
  BY <1>1 DEF Finish, Idle, Consistent, Deciding, LedgerInv, SettlementTypeOK
<1>2. CASE x # c
  <2>1. call'[x] = call[x]
    BY <1>2 DEF Finish, LedgerInv, SettlementTypeOK
  <2>2. Consistent(x)
    BY DEF LedgerInv, RequestsConsistent
  <2> QED
    BY <2>1, <2>2 DEF Consistent, NetOf
<1> QED
  BY <1>1, <1>2

\* A decision that goes on relies on the return it read.
LEMMA GotoConsistent ==
    ASSUME LedgerInv, NEW c \in Requests, NEW pc, Goto(c, pc), call[c].pc \in Deciding,
           pc \in Deciding, pc # "holding",
           pc = "writing" => call[c].to \in {"APPROVED", "REJECTED", "ITEM_RECEIVED"},
           UNCHANGED <<method, returns>>
    PROVE  RequestsConsistent'
<1> SUFFICES ASSUME NEW x \in Requests PROVE Consistent(x)'
  BY DEF RequestsConsistent
<1>0. Consistent(x)
  BY DEF LedgerInv, RequestsConsistent
<1>1. CASE x = c
  <2>1. call'[c] = [call[c] EXCEPT !.pc = pc]
    BY DEF Goto, LedgerInv, SettlementTypeOK
  <2>2. /\ call'[c].pc = pc /\ call'[c].to = call[c].to
        /\ call'[c].return = call[c].return /\ call'[c].order = call[c].order
    BY <2>1 DEF LedgerInv, SettlementTypeOK, RequestState
  <2> QED
    BY <1>0, <1>1, <2>2 DEF Consistent, Deciding
<1>2. CASE x # c
  <2>1. call'[x] = call[x]
    BY <1>2 DEF Goto, LedgerInv, SettlementTypeOK
  <2> QED
    BY <1>0, <2>1 DEF Consistent, NetOf
<1> QED
  BY <1>1, <1>2

-----------------------------------------------------------------------------
(* Types, and what requests rely on                                        *)

\* A fresh ledger is well typed and no request is in progress.
LEMMA LedgerInvInit == SettlementInit => LedgerInv
<1> SUFFICES ASSUME SettlementInit PROVE LedgerInv
  OBVIOUS
<1>1. call \in [Requests -> RequestState]
  BY DEF SettlementInit, Idle, RequestState, ReturnStatus, SettlementStatus
<1>2. SettlementTypeOK
  BY <1>1, SettlementConstants DEF SettlementInit, SettlementTypeOK, ReturnStatus, SettlementStatus
<1>3. RequestsConsistent
  BY DEF SettlementInit, RequestsConsistent, Consistent, Idle, Deciding
<1> QED
  BY <1>2, <1>3 DEF LedgerInv

\* Every operation on settlements, returns and payouts keeps both.
LEMMA LedgerInvStep == LedgerInv /\ [SettlementNext]_vars => LedgerInv'
<1> SUFFICES ASSUME LedgerInv, [SettlementNext]_vars PROVE LedgerInv'
  OBVIOUS
<1> USE DEF LedgerInv
<1> DEFINE Rest == /\ now' \in 0..MaxDay
                   /\ method' \in [Orders -> {"CASH", "GATEWAY"}]
                   /\ completions' \in [Orders -> 0..MaxCompletions]
                   /\ completedAt' \in [Orders -> 0..MaxDay]
                   /\ payment' \in [Orders -> {"PENDING", "COMPLETED", "REFUND_PENDING", "REFUNDED"}]
                   /\ refunded' \in [Orders -> BOOLEAN]
                   /\ feeKept' \in [Orders -> BOOLEAN]
                   /\ settlement' \in [Orders -> SettlementStatus]
                   /\ eligibleAt' \in [Orders -> Nat]
                   /\ returns' \in [Returns -> [order : Orders \cup {NoOrder}, status : ReturnStatus]]
                   /\ payouts' \in [Payouts -> [items : SUBSET Orders, total : Nat]]
                   /\ restocks' \in [Orders -> Nat]
                   /\ refundsSent' \in [Orders -> Nat]
                   /\ due' \in [Releasers -> SUBSET Orders]
<1>0. ASSUME Rest, call' \in [Requests -> RequestState], RequestsConsistent'
      PROVE  LedgerInv'
  BY <1>0 DEF SettlementTypeOK
<1>a. call \in [Requests -> RequestState]
  BY DEF SettlementTypeOK
<1>b. ASSUME UNCHANGED <<method, returns, call>>
      PROVE  call' \in [Requests -> RequestState] /\ RequestsConsistent'
  BY <1>a, <1>b DEF RequestsConsistent, Consistent, NetOf
<1>1. CASE Tick
  <2>1. Rest
    BY <1>1, SettlementConstants DEF Tick, SettlementTypeOK, saleVars, moneyVars, ledgerVars
  <2> QED
    BY <1>0, <1>1, <1>b, <2>1 DEF Tick, saleVars
<1>2. ASSUME NEW o \in Orders, CompleteOrder(o) PROVE LedgerInv'
  <2>1. now + SettlementHold \in Nat
    <3>1. now \in 0..MaxDay /\ MaxDay \in Nat /\ SettlementHold \in Nat
      BY SettlementConstants DEF SettlementTypeOK
    <3> QED
      BY <3>1
  <2>2. Rest
    <3>1. settlement' \in [Orders -> SettlementStatus] /\ eligibleAt' \in [Orders -> Nat]
      <4>1. settlement \in [Orders -> SettlementStatus] /\ eligibleAt \in [Orders -> Nat]
        BY DEF SettlementTypeOK
      <4>2. "PENDING" \in SettlementStatus
        BY DEF SettlementStatus
      <4> QED
        BY <1>2, <2>1, <4>1, <4>2 DEF CompleteOrder, ledgerVars
    <3>2. completions[o] + 1 \in 0..MaxCompletions
      BY <1>2, SettlementConstants DEF CompleteOrder, SettlementTypeOK
    <3>3. completions' \in [Orders -> 0..MaxCompletions]
      BY <1>2, <3>2 DEF CompleteOrder, SettlementTypeOK
    <3>4. completedAt' \in [Orders -> 0..MaxDay]
      BY <1>2 DEF CompleteOrder, SettlementTypeOK
    <3> QED
      BY <1>2, <3>1, <3>3, <3>4 DEF CompleteOrder, SettlementTypeOK
  <2> QED
    BY <1>0, <1>2, <1>b, <2>2 DEF CompleteOrder
<1>3. ASSUME NEW b \in Openers, NEW o \in Orders, OpenRead(b, o) PROVE LedgerInv'
  <2>1. Rest
    BY <1>3 DEF OpenRead, SettlementTypeOK, saleVars, moneyVars, ledgerVars
  <2>2. call' \in [Requests -> RequestState]
    <3>1. b \in Requests /\ call[b] \in RequestState
      BY <1>a DEF Requests
    <3>2. [call[b] EXCEPT !.pc = "opening", !.order = o] \in RequestState
      BY <3>1 DEF RequestState
    <3> QED
      BY <1>3, <1>a, <3>1, <3>2 DEF OpenRead
  <2>3. ASSUME NEW x \in Requests PROVE Consistent(x)'
    <3>1. Consistent(x)
      BY DEF RequestsConsistent
    <3>2. CASE x = b
      BY <1>3, <1>a, <3>2 DEF OpenRead, RequestState, Consistent, Deciding
    <3>3. CASE x # b
      BY <1>3, <1>a, <3>1, <3>3 DEF OpenRead, Consistent, NetOf, saleVars
    <3> QED
      BY <3>2, <3>3
  <2> QED
    BY <1>0, <2>1, <2>2, <2>3 DEF RequestsConsistent
<1>4. ASSUME NEW b \in Openers, NEW r \in Returns, OpenWrite(b, r) PROVE LedgerInv'
  <2>1. call[b].order \in Orders \cup {NoOrder}
    BY <1>a DEF RequestState, Requests
  <2>2. Rest
    BY <1>4, <2>1 DEF OpenWrite, SettlementTypeOK, saleVars, moneyVars, ledgerVars, ReturnStatus
  <2>3. call' \in [Requests -> RequestState]
    BY <1>4, <1>a, FinishTyped DEF OpenWrite
  <2>4. ASSUME NEW x \in Requests PROVE Consistent(x)'
    <3>1. Consistent(x)
      BY DEF RequestsConsistent
    <3>2. CASE x = b
      BY <1>4, <1>a, <3>2 DEF OpenWrite, Finish, Idle, Consistent, Deciding
    <3>3. CASE x # b
      <4>1. call'[x] = call[x]
        BY <1>4, <1>a, <3>3 DEF OpenWrite, Finish
      <4>2. \A y \in Returns : returns[y].status # "NONE" => returns'[y] = returns[y]
        BY <1>4 DEF OpenWrite, SettlementTypeOK
      <4> QED
        BY <1>4, <3>1, <4>1, <4>2 DEF OpenWrite, Consistent, NetOf, saleVars
    <3> QED
      BY <3>2, <3>3
  <2> QED
    BY <1>0, <2>2, <2>3, <2>4 DEF RequestsConsistent
<1>5. ASSUME NEW d \in Deciders, NEW r \in Returns, NEW to \in ReturnStatus,
             DecideRead(d, r, to) PROVE LedgerInv'
  <2>1. Rest
    BY <1>5 DEF DecideRead, SettlementTypeOK, saleVars, moneyVars, ledgerVars
  <2>2. returns[r].order \in Orders \cup {NoOrder}
    BY DEF SettlementTypeOK
  <2>3. returns[r].status \in ReturnStatus /\ to \in {"APPROVED", "REJECTED", "ITEM_RECEIVED", "REFUNDED"}
    BY <1>5 DEF DecideRead, AllowedReturnTransitions, SettlementTypeOK, ReturnStatus
  <2>4. /\ FirstStep(to) \in {"holding", "loading", "writing"}
        /\ FirstStep(to) = "holding" => to = "APPROVED"
        /\ FirstStep(to) = "writing" => to \in {"APPROVED", "REJECTED", "ITEM_RECEIVED"}
    BY <2>3 DEF FirstStep
  <2>5. call' = [call EXCEPT ![d] = [pc |-> FirstStep(to), order |-> returns[r].order,
                                     return |-> r, to |-> to, found |-> {}]]
    BY <1>5 DEF DecideRead
  <2>6. [pc |-> FirstStep(to), order |-> returns[r].order,
         return |-> r, to |-> to, found |-> {}] \in RequestState
    BY <2>2, <2>4 DEF RequestState
  <2>7. call' \in [Requests -> RequestState]
    BY <1>a, <2>5, <2>6
  <2>8. ASSUME NEW x \in Requests PROVE Consistent(x)'
    <3>1. Consistent(x)
      BY DEF RequestsConsistent
    <3>2. CASE x = d
      <4>1. call'[d] = [pc |-> FirstStep(to), order |-> returns[r].order,
                        return |-> r, to |-> to, found |-> {}]
        BY <1>a, <2>5, <3>2
      <4>2. returns' = returns /\ returns[r].status # "NONE"
        BY <1>5 DEF DecideRead
      <4> QED
        BY <2>4, <3>2, <4>1, <4>2 DEF Consistent, Deciding
    <3>3. CASE x # d
      BY <1>5, <1>a, <3>1, <3>3 DEF DecideRead, Consistent, NetOf, saleVars
    <3> QED
      BY <3>2, <3>3
  <2> QED
    BY <1>0, <2>1, <2>7, <2>8 DEF RequestsConsistent
<1>6. ASSUME NEW d \in Deciders, DecideHold(d) PROVE LedgerInv'
  <2>1. Rest
    BY <1>6 DEF DecideHold, SettlementTypeOK, SettlementStatus, saleVars, moneyVars
  <2>2. d \in Requests /\ Goto(d, "writing") /\ call[d].pc \in Deciding /\ call[d].to = "APPROVED"
    BY <1>6 DEF DecideHold, Requests, Deciding, RequestsConsistent, Consistent
  <2>3. call' \in [Requests -> RequestState]
    BY <1>a, <2>2, GotoTyped
  <2>4. RequestsConsistent'
    BY <1>6, <2>2, GotoConsistent DEF DecideHold, Deciding, saleVars
  <2> QED
    BY <1>0, <2>1, <2>3, <2>4
<1>7. ASSUME NEW d \in Deciders, DecideWrite(d) PROVE LedgerInv'
  <2>1. /\ d \in Requests /\ call[d].pc \in Deciding
        /\ call[d].to \in {"APPROVED", "REJECTED", "ITEM_RECEIVED"}
    BY <1>7 DEF DecideWrite, Requests, Deciding, RequestsConsistent, Consistent
  <2>2. Rest
    <3>1. call[d].to \in ReturnStatus
      BY <2>1 DEF ReturnStatus
    <3>2. returns' \in [Returns -> [order : Orders \cup {NoOrder}, status : ReturnStatus]]
      <4> DEFINE r == call[d].return
                 to == call[d].to
      <4>1. returns \in [Returns -> [order : Orders \cup {NoOrder}, status : ReturnStatus]]
        BY DEF SettlementTypeOK
      <4>2. returns' = [returns EXCEPT ![r].status = to]
        BY <1>7 DEF DecideWrite
      <4>3. to \in ReturnStatus
        BY <3>1
      <4> HIDE DEF r, to
      <4> QED
        BY <4>1, <4>2, <4>3
    <3> QED
      BY <1>7, <3>2 DEF DecideWrite, SettlementTypeOK, saleVars, moneyVars, ledgerVars
  <2>3. \A y \in Returns : /\ returns'[y].order = returns[y].order
                           /\ returns[y].status # "NONE" => returns'[y].status # "NONE"
    BY <1>7, <2>1 DEF DecideWrite, SettlementTypeOK
  <2>4. call' = [call EXCEPT ![d].pc = "freeing"] \/ call' = [call EXCEPT ![d] = Idle]
    BY <1>7 DEF DecideWrite, Goto, Finish
  <2>5. call' \in [Requests -> RequestState]
    BY <1>7, <1>a, GotoTyped, FinishTyped DEF DecideWrite
  <2>6. ASSUME NEW x \in Requests PROVE Consistent(x)'
    <3>1. Consistent(x)
      BY DEF RequestsConsistent
    <3>2. CASE x = d
      <4>1. CASE call' = [call EXCEPT ![d].pc = "freeing"]
        <5>1. /\ call'[d].pc = "freeing" /\ call'[d].return = call[d].return
              /\ call'[d].order = call[d].order
          BY <1>a, <2>1, <4>1 DEF RequestState
        <5>2. /\ call[d].return \in Returns /\ returns[call[d].return].order = call[d].order
              /\ returns[call[d].return].status # "NONE"
          BY <2>1, <3>1, <3>2 DEF Consistent
        <5>3. /\ returns'[call[d].return].order = call[d].order
              /\ returns'[call[d].return].status # "NONE"
          BY <2>3, <5>2
        <5> QED
          BY <3>2, <5>1, <5>2, <5>3 DEF Consistent
      <4>2. CASE call' = [call EXCEPT ![d] = Idle]
        BY <1>a, <3>2, <4>2 DEF Idle, Consistent, Deciding
      <4> QED
        BY <2>4, <4>1, <4>2
    <3>3. CASE x # d
      <4>1. call'[x] = call[x]
        BY <1>a, <2>4, <3>3
      <4> QED
        BY <1>7, <2>3, <3>1, <4>1 DEF DecideWrite, Consistent, NetOf, saleVars
    <3> QED
      BY <3>2, <3>3
  <2> QED
    BY <1>0, <2>2, <2>5, <2>6 DEF RequestsConsistent
<1>8. ASSUME NEW d \in Deciders, DecideFree(d) PROVE LedgerInv'
  <2>1. Rest
    BY <1>8 DEF DecideFree, SettlementTypeOK, SettlementStatus, saleVars, moneyVars
  <2> QED
    BY <1>0, <1>8, <1>a, <2>1, FinishTyped, FinishConsistent DEF DecideFree, saleVars
<1>9. ASSUME NEW d \in Deciders, RefundLoad(d) PROVE LedgerInv'
  <2>1. Rest
    BY <1>9 DEF RefundLoad, SettlementTypeOK, saleVars, moneyVars, ledgerVars
  <2>2. d \in Requests /\ call[d].pc \in Deciding /\ UNCHANGED <<method, returns>>
    BY <1>9 DEF RefundLoad, Requests, Deciding, saleVars
  <2>3. Finish(d) \/ Goto(d, "refunded") \/ Goto(d, "marking")
    BY <1>9 DEF RefundLoad
  <2>4. call' \in [Requests -> RequestState]
    BY <1>a, <2>3, GotoTyped, FinishTyped
  <2>5. RequestsConsistent'
    BY <2>2, <2>3, GotoConsistent, FinishConsistent DEF Deciding
  <2> QED
    BY <1>0, <2>1, <2>4, <2>5
<1>10. ASSUME NEW d \in Deciders, RefundMark(d) PROVE LedgerInv'
  <2>1. Rest
    BY <1>10 DEF RefundMark, SettlementTypeOK, saleVars, ledgerVars
  <2>2. /\ d \in Requests /\ call[d].pc \in Deciding /\ UNCHANGED <<method, returns>>
        /\ Goto(d, "refunding")
    BY <1>10 DEF RefundMark, Requests, Deciding, saleVars
  <2>3. call' \in [Requests -> RequestState]
    BY <1>a, <2>2, GotoTyped
  <2>4. RequestsConsistent'
    BY <2>2, GotoConsistent DEF Deciding
  <2> QED
    BY <1>0, <2>1, <2>3, <2>4
<1>11. ASSUME NEW d \in Deciders, NEW outcome \in RefundOutcomes, GatewayRefund(d, outcome)
       PROVE  LedgerInv'
  <2>1. Rest
    <3>1. refundsSent' \in [Orders -> Nat]
      <4> DEFINE o == call[d].order
      <4>1. refundsSent \in [Orders -> Nat]
        BY DEF SettlementTypeOK
      <4>2. refundsSent' = refundsSent \/ refundsSent' = [refundsSent EXCEPT ![o] = @ + 1]
        BY <1>11 DEF GatewayRefund
      <4> HIDE DEF o
      <4>3. \A x \in Orders : refundsSent[x] + 1 \in Nat
        BY <4>1
      <4> QED
        BY <4>1, <4>2, <4>3
    <3> QED
      BY <1>11, <3>1 DEF GatewayRefund, SettlementTypeOK, saleVars, ledgerVars
  <2>2. /\ d \in Requests /\ call[d].pc \in Deciding /\ UNCHANGED <<method, returns>>
        /\ Goto(d, "refunded") \/ Goto(d, "refused")
    BY <1>11 DEF GatewayRefund, Requests, Deciding, saleVars
  <2>3. call' \in [Requests -> RequestState]
    BY <1>a, <2>2, GotoTyped
  <2>4. RequestsConsistent'
    BY <2>2, GotoConsistent DEF Deciding
  <2> QED
    BY <1>0, <2>1, <2>3, <2>4
<1>12. ASSUME NEW d \in Deciders, RefundRestore(d) PROVE LedgerInv'
  <2>1. Rest
    BY <1>12 DEF RefundRestore, SettlementTypeOK, saleVars, ledgerVars
  <2> QED
    BY <1>0, <1>12, <1>a, <2>1, FinishTyped, FinishConsistent DEF RefundRestore, saleVars
<1>13. ASSUME NEW d \in Deciders, RefundCommit(d) PROVE LedgerInv'
  <2>1. Rest
    <3>1. settlement' \in [Orders -> SettlementStatus]
      BY <1>13 DEF RefundCommit, MarkRefundedForOrder, SettlementTypeOK, SettlementStatus
    <3>6. restocks' \in [Orders -> Nat]
      <4> DEFINE o == call[d].order
      <4>1. restocks \in [Orders -> Nat]
        BY DEF SettlementTypeOK
      <4>2. restocks' = [restocks EXCEPT ![o] = @ + 1]
        BY <1>13 DEF RefundCommit
      <4> HIDE DEF o
      <4>3. \A x \in Orders : restocks[x] + 1 \in Nat
        BY <4>1
      <4> QED
        BY <4>1, <4>2, <4>3
    <3>2. returns' \in [Returns -> [order : Orders \cup {NoOrder}, status : ReturnStatus]]
      <4> DEFINE r == call[d].return
      <4>1. returns \in [Returns -> [order : Orders \cup {NoOrder}, status : ReturnStatus]]
        BY DEF SettlementTypeOK
      <4>2. returns' = [returns EXCEPT ![r].status = "REFUNDED"]
        BY <1>13 DEF RefundCommit
      <4>3. "REFUNDED" \in ReturnStatus
        BY DEF ReturnStatus
      <4> HIDE DEF r
      <4> QED
        BY <4>1, <4>2, <4>3
    <3>3. payment' \in [Orders -> {"PENDING", "COMPLETED", "REFUND_PENDING", "REFUNDED"}]
      BY <1>13 DEF RefundCommit, SettlementTypeOK
    <3>4. refunded' \in [Orders -> BOOLEAN]
      BY <1>13 DEF RefundCommit, SettlementTypeOK
    <3>5. feeKept' \in [Orders -> BOOLEAN]
      BY <1>13, Zenon DEF RefundCommit, SettlementTypeOK
    <3> QED
      BY <1>13, <3>1, <3>2, <3>3, <3>4, <3>5, <3>6 DEF RefundCommit, SettlementTypeOK, saleVars
  <2>2. \A y \in Returns : /\ returns'[y].order = returns[y].order
                           /\ returns[y].status # "NONE" => returns'[y].status # "NONE"
    BY <1>13 DEF RefundCommit, SettlementTypeOK
  <2>3. call' \in [Requests -> RequestState]
    BY <1>13, <1>a, FinishTyped DEF RefundCommit
  <2>4. ASSUME NEW x \in Requests PROVE Consistent(x)'
    <3>1. Consistent(x)
      BY DEF RequestsConsistent
    <3>2. CASE x = d
      BY <1>13, <1>a, <3>2 DEF RefundCommit, Finish, Idle, Consistent, Deciding
    <3>3. CASE x # d
      <4>1. call'[x] = call[x]
        BY <1>13, <1>a, <3>3 DEF RefundCommit, Finish
      <4> QED
        BY <1>13, <2>2, <3>1, <4>1 DEF RefundCommit, Consistent, NetOf, saleVars
    <3> QED
      BY <3>2, <3>3
  <2> QED
    BY <1>0, <2>1, <2>3, <2>4 DEF RequestsConsistent
<1>14. ASSUME NEW d \in Deciders, DecideCrash(d) PROVE LedgerInv'
  <2>1. Rest
    BY <1>14 DEF DecideCrash, SettlementTypeOK, saleVars, moneyVars, ledgerVars
  <2> QED
    BY <1>0, <1>14, <1>a, <2>1, FinishTyped, FinishConsistent DEF DecideCrash, saleVars
<1>15. ASSUME NEW p \in Payouts, NEW named \in SUBSET Orders, PayoutRead(p, named)
       PROVE  LedgerInv'
  <2> DEFINE S == {o \in named : settlement[o] = "RELEASED" /\ o \notin PaidOut}
  <2>1. Rest
    BY <1>15 DEF PayoutRead, SettlementTypeOK, saleVars, moneyVars, ledgerVars
  <2>2. /\ call' = [call EXCEPT ![p] = [@ EXCEPT !.pc = "paying", !.found = S]]
        /\ S \in SUBSET Orders /\ NetOf(S) > 0 /\ UNCHANGED <<method, returns>>
        /\ p \in Requests
    BY <1>15 DEF PayoutRead, saleVars, Requests
  <2> HIDE DEF S
  <2>3. call' \in [Requests -> RequestState]
    <3>1. call[p] \in RequestState
      BY <1>a, <2>2
    <3>2. [call[p] EXCEPT !.pc = "paying", !.found = S] \in RequestState
      BY <2>2, <3>1 DEF RequestState
    <3> QED
      BY <1>a, <2>2, <3>1, <3>2
  <2>4. ASSUME NEW x \in Requests PROVE Consistent(x)'
    <3>1. Consistent(x)
      BY DEF RequestsConsistent
    <3>2. CASE x = p
      <4>1. call'[p].pc = "paying" /\ call'[p].found = S
        BY <1>a, <2>2 DEF RequestState
      <4>2. NetOf(call[p].found)' = NetOf(S)
        BY <2>2, <4>1 DEF NetOf
      <4> QED
        BY <2>2, <3>2, <4>1, <4>2 DEF Consistent, Deciding
    <3>3. CASE x # p
      BY <1>a, <2>2, <3>1, <3>3 DEF Consistent, NetOf
    <3> QED
      BY <3>2, <3>3
  <2> QED
    BY <1>0, <2>1, <2>3, <2>4 DEF RequestsConsistent
<1>16. ASSUME NEW p \in Payouts, PayoutWrite(p) PROVE LedgerInv'
  <2>1. p \in Requests /\ call[p].found \in SUBSET Orders
    BY <1>a DEF Requests, RequestState
  <2>2. NetOf(call[p].found) > 0
    BY <1>16, <2>1 DEF PayoutWrite, RequestsConsistent, Consistent
  <2>3. NetOf(call[p].found) \in Nat
    BY <2>1, <2>2, NetIsInt
  <2>4. Rest
    BY <1>16, <2>1, <2>3 DEF PayoutWrite, SettlementTypeOK, saleVars, moneyVars, ledgerVars
  <2> QED
    BY <1>0, <1>16, <1>a, <2>4, FinishTyped, FinishConsistent DEF PayoutWrite, saleVars
<1>17. ASSUME NEW e \in SettlementEdits, NEW o \in Orders, NEW to \in SettlementStatus \ {"NONE"},
              SettlementEditRead(e, o, to)
       PROVE  LedgerInv'
  <2>1. Rest
    BY <1>17 DEF SettlementEditRead, SettlementTypeOK, saleVars, moneyVars, ledgerVars
  <2>2. /\ call' = [call EXCEPT ![e] = [@ EXCEPT !.pc = "editing", !.order = o, !.to = to]]
        /\ UNCHANGED <<method, returns>> /\ e \in Requests
    BY <1>17 DEF SettlementEditRead, saleVars, Requests
  <2>3. call' \in [Requests -> RequestState]
    <3>1. call[e] \in RequestState
      BY <1>a, <2>2
    <3>2. [call[e] EXCEPT !.pc = "editing", !.order = o, !.to = to] \in RequestState
      BY <3>1 DEF RequestState
    <3> QED
      BY <1>a, <2>2, <3>1, <3>2
  <2>4. ASSUME NEW x \in Requests PROVE Consistent(x)'
    <3>1. Consistent(x)
      BY DEF RequestsConsistent
    <3>2. CASE x = e
      BY <1>a, <2>2, <3>2 DEF RequestState, Consistent, Deciding
    <3>3. CASE x # e
      BY <1>a, <2>2, <3>1, <3>3 DEF Consistent, NetOf
    <3> QED
      BY <3>2, <3>3
  <2> QED
    BY <1>0, <2>1, <2>3, <2>4 DEF RequestsConsistent
<1>18. ASSUME NEW e \in SettlementEdits, SettlementEditWrite(e) PROVE LedgerInv'
  <2>1. call[e].to \in SettlementStatus
    BY <1>18 DEF SettlementEditWrite, Requests, RequestsConsistent, Consistent
  <2>2. Rest
    BY <1>18, <2>1 DEF SettlementEditWrite, SettlementTypeOK, saleVars, moneyVars
  <2> QED
    BY <1>0, <1>18, <1>a, <2>2, FinishTyped, FinishConsistent DEF SettlementEditWrite, saleVars
<1>19. ASSUME NEW j \in Releasers, ReleaseNext(j) PROVE LedgerInv'
  <2>1. Rest
    BY <1>19 DEF ReleaseNext, ReleaseRead, ReleaseWrite, DueSettlements, SettlementTypeOK,
                 SettlementStatus, saleVars, moneyVars, ledgerVars
  <2> QED
    BY <1>0, <1>19, <1>b, <2>1 DEF ReleaseNext, ReleaseRead, ReleaseWrite, saleVars
<1>20. CASE UNCHANGED vars
  <2>1. Rest
    BY <1>20 DEF vars, SettlementTypeOK, saleVars, moneyVars, ledgerVars
  <2> QED
    BY <1>0, <1>20, <1>b, <2>1 DEF vars, saleVars
<1> HIDE DEF Rest, LedgerInv
<1> QED
  BY <1>1, <1>2, <1>3, <1>4, <1>5, <1>6, <1>7, <1>8, <1>9, <1>10, <1>11, <1>12, <1>13,
     <1>14, <1>15, <1>16, <1>17, <1>18, <1>19, <1>20
  DEF SettlementNext, OpenNext, DecideNext, PayoutNext, SettlementEditNext

-----------------------------------------------------------------------------
(* Payouts                                                                 *)

\* Two payout runs that read the same settlements: the unique index lets one in.
LEMMA PayoutsStep ==
    LedgerInv /\ NoDoublePayout /\ [SettlementNext]_vars => NoDoublePayout'
<1> SUFFICES ASSUME LedgerInv, NoDoublePayout, [SettlementNext]_vars PROVE NoDoublePayout'
  OBVIOUS
<1>1. ASSUME NEW p \in Payouts, PayoutWrite(p) PROVE NoDoublePayout'
  <2>1. payouts \in [Payouts -> [items : SUBSET Orders, total : Nat]]
    BY DEF LedgerInv, SettlementTypeOK
  <2> DEFINE S == call[p].found
             total == NetOf(S)
  <2>2. CASE payouts' = payouts
    BY <2>2 DEF NoDoublePayout
  <2>3. CASE /\ S \cap PaidOut = {}
             /\ payouts' = [payouts EXCEPT ![p] = [items |-> S, total |-> total]]
    <3> HIDE DEF total, S
    <3>1. \A q \in Payouts \ {p} : payouts'[q] = payouts[q] /\ S \cap payouts[q].items = {}
      BY <2>1, <2>3 DEF PaidOut
    <3>2. payouts'[p].items = S
      BY <2>1, <2>3
    <3> QED
      BY <3>1, <3>2 DEF NoDoublePayout
  <2> QED
    BY <1>1, <2>2, <2>3 DEF PayoutWrite
<1>2. CASE UNCHANGED payouts
  BY <1>2, SMTT(30) DEF NoDoublePayout
<1>3. (\E p \in Payouts : PayoutWrite(p)) \/ UNCHANGED payouts
  BY DEF SettlementNext, OpenNext, DecideNext, PayoutNext, SettlementEditNext, ReleaseNext,
         vars, Tick, CompleteOrder, OpenRead, OpenWrite, DecideRead, DecideHold, DecideWrite,
         DecideFree, RefundLoad, RefundMark, GatewayRefund, RefundRestore, RefundCommit, MarkRefundedForOrder,
         DecideCrash, PayoutRead, SettlementEditRead, SettlementEditWrite, ReleaseRead,
         ReleaseWrite
<1> QED
  BY <1>1, <1>2, <1>3

-----------------------------------------------------------------------------
(* Refunds                                                                 *)

\* Finitely many refunds are in flight.
LEMMA InFlightFinite ==
    ASSUME NEW o
    PROVE  IsFiniteSet(InFlight(o)) /\ Cardinality(InFlight(o)) \in Nat
<1>1. IsFiniteSet(InFlight(o))
  BY SettlementConstants, FS_Subset DEF InFlight, Requests
<1> QED
  BY <1>1, FS_CardinalityType

\* A step that sends nothing, records nothing and puts no refund of a gateway
\* order in flight keeps the count covered.
LEMMA CoveredWhenNoneStarts ==
    ASSUME LedgerInv, RefundsCovered, UNCHANGED <<method, restocks>>,
           refundsSent' \in [Orders -> Nat],
           \A o \in Orders : refundsSent'[o] >= refundsSent[o],
           \A c \in Requests : \/ call'[c] = call[c]
                               \/ call'[c].pc # "refunded"
                               \/ method[call'[c].order] = "CASH"
    PROVE  RefundsCovered'
<1> SUFFICES ASSUME NEW o \in Orders, method[o] = "GATEWAY"
             PROVE  restocks[o] + Cardinality(InFlight(o)') <= refundsSent'[o]
  BY DEF RefundsCovered
<1>1. InFlight(o)' \subseteq InFlight(o)
  BY DEF InFlight
<1>2. Cardinality(InFlight(o)') <= Cardinality(InFlight(o)) /\ Cardinality(InFlight(o)') \in Nat
  BY <1>1, InFlightFinite, FS_Subset, FS_CardinalityType
<1>3. restocks[o] + Cardinality(InFlight(o)) <= refundsSent[o]
  BY DEF RefundsCovered
<1> DEFINE m == Cardinality(InFlight(o))
           n == Cardinality(InFlight(o)')
<1>4. /\ m \in Nat /\ n \in Nat /\ n <= m /\ restocks[o] + m <= refundsSent[o]
      /\ refundsSent'[o] >= refundsSent[o]
      /\ restocks[o] \in Nat /\ refundsSent[o] \in Nat /\ refundsSent'[o] \in Nat
  BY <1>2, <1>3, InFlightFinite DEF LedgerInv, SettlementTypeOK
<1> HIDE DEF m, n
<1>5. restocks[o] + n <= refundsSent'[o]
  BY <1>4
<1> QED
  BY <1>5 DEF n

\* What the database shows as REFUNDED stays sent when no row becomes REFUNDED.
LEMMA RecordedWhenNoneCommits ==
    ASSUME LedgerInv, RefundsCovered', RecordedRefundsWereSent, method' = method,
           restocks' \in [Orders -> Nat], refundsSent' \in [Orders -> Nat],
           \A o \in Orders : refundsSent'[o] >= refundsSent[o],
           \A o \in Orders : payment'[o] = "REFUNDED" => payment[o] = "REFUNDED",
           \A r \in Returns : returns'[r].status = "REFUNDED" => returns'[r] = returns[r]
    PROVE  RecordedRefundsWereSent'
<1> SUFFICES ASSUME NEW o \in Orders, method[o] = "GATEWAY"
             PROVE  /\ restocks'[o] <= refundsSent'[o]
                    /\ payment'[o] = "REFUNDED" => refundsSent'[o] > 0
                    /\ \A r \in ReturnsOf(o)' : returns'[r].status = "REFUNDED" => refundsSent'[o] > 0
  BY DEF RecordedRefundsWereSent
<1>1. Cardinality(InFlight(o)') \in Nat
  <2>1. IsFiniteSet(InFlight(o)')
    BY SettlementConstants, FS_Subset DEF InFlight, Requests
  <2> QED
    BY <2>1, FS_CardinalityType
<1> DEFINE n == Cardinality(InFlight(o)')
<1>2. restocks'[o] + n <= refundsSent'[o] /\ n \in Nat /\ restocks'[o] \in Nat /\ refundsSent'[o] \in Nat
  BY <1>1 DEF RefundsCovered
<1> HIDE DEF n
<1>3. restocks'[o] <= refundsSent'[o]
  BY <1>2
<1>4. refundsSent[o] \in Nat /\ (refundsSent[o] > 0 => refundsSent'[o] > 0)
  BY <1>2 DEF LedgerInv, SettlementTypeOK
<1>5. payment'[o] = "REFUNDED" => refundsSent'[o] > 0
  BY <1>4 DEF RecordedRefundsWereSent
<1>6. ASSUME NEW r \in ReturnsOf(o)', returns'[r].status = "REFUNDED"
      PROVE  refundsSent'[o] > 0
  <2>1. r \in Returns /\ returns'[r] = returns[r] /\ returns'[r].order = o
    BY <1>6 DEF ReturnsOf
  <2>2. r \in ReturnsOf(o) /\ returns[r].status = "REFUNDED"
    BY <1>6, <2>1 DEF ReturnsOf
  <2> QED
    BY <1>4, <2>2 DEF RecordedRefundsWereSent
<1> QED
  BY <1>3, <1>5, <1>6

RefundInv == RefundsCovered /\ RecordedRefundsWereSent

\* No decision, crash, retry or completion breaks the count of refunds.
LEMMA RefundsStep ==
    LedgerInv /\ RefundInv /\ [SettlementNext]_vars => RefundInv'
<1> SUFFICES ASSUME LedgerInv, RefundInv, [SettlementNext]_vars PROVE RefundInv'
  OBVIOUS
<1> USE DEF RefundInv
<1>a. /\ call \in [Requests -> RequestState]
      /\ returns \in [Returns -> [order : Orders \cup {NoOrder}, status : ReturnStatus]]
      /\ payment \in [Orders -> {"PENDING", "COMPLETED", "REFUND_PENDING", "REFUNDED"}]
      /\ restocks \in [Orders -> Nat] /\ refundsSent \in [Orders -> Nat]
  BY DEF LedgerInv, SettlementTypeOK
<1>b. \A o \in Orders : refundsSent[o] >= refundsSent[o]
  BY <1>a
<1> DEFINE Quiet == \A c \in Requests : \/ call'[c] = call[c]
                                        \/ call'[c].pc # "refunded"
                                        \/ method[call'[c].order] = "CASH"
           Rows == /\ \A o \in Orders : payment'[o] = "REFUNDED" => payment[o] = "REFUNDED"
                   /\ \A r \in Returns : returns'[r].status = "REFUNDED" => returns'[r] = returns[r]
<1>c. ASSUME UNCHANGED <<method, restocks, refundsSent>>, Quiet, Rows PROVE RefundInv'
  <2>1. RefundsCovered'
    BY <1>a, <1>b, <1>c, CoveredWhenNoneStarts
  <2> QED
    BY <1>a, <1>b, <1>c, <2>1, RecordedWhenNoneCommits
<1>d. ASSUME NEW c, Finish(c) PROVE Quiet
  BY <1>a, <1>d DEF Finish, Idle
<1>e. ASSUME NEW c, NEW pc, pc # "refunded", Goto(c, pc) PROVE Quiet
  BY <1>a, <1>e DEF Goto, RequestState
<1>1. ASSUME NEW o \in Orders, CompleteOrder(o)
      PROVE  RefundInv'
  <2>1. Quiet
    BY <1>1, <1>a DEF CompleteOrder, ledgerVars
  <2>2. Rows /\ UNCHANGED <<method, restocks, refundsSent>>
    BY <1>1, <1>a DEF CompleteOrder, ledgerVars
  <2> QED
    BY <1>c, <2>1, <2>2
<1>2. ASSUME NEW b \in Openers, NEW o \in Orders, OpenRead(b, o)
      PROVE  RefundInv'
  <2>1. Quiet
    BY <1>2, <1>a DEF OpenRead, saleVars, moneyVars, RequestState
  <2>2. Rows /\ UNCHANGED <<method, restocks, refundsSent>>
    BY <1>2, <1>a DEF OpenRead, saleVars, moneyVars, RequestState
  <2> QED
    BY <1>c, <2>1, <2>2
<1>3. ASSUME NEW b \in Openers, NEW r \in Returns, OpenWrite(b, r)
      PROVE  RefundInv'
  <2>1. Quiet
    BY <1>3, <1>d DEF OpenWrite, saleVars, moneyVars
  <2>2. Rows /\ UNCHANGED <<method, restocks, refundsSent>>
    BY <1>3, <1>a DEF OpenWrite, saleVars, moneyVars
  <2> QED
    BY <1>c, <2>1, <2>2
<1>4. ASSUME NEW d \in Deciders, NEW r \in Returns, NEW to \in ReturnStatus, DecideRead(d, r, to)
      PROVE  RefundInv'
  <2>1. Quiet
    BY <1>4, <1>a DEF DecideRead, FirstStep, saleVars, moneyVars
  <2>2. Rows /\ UNCHANGED <<method, restocks, refundsSent>>
    BY <1>4, <1>a DEF DecideRead, FirstStep, saleVars, moneyVars
  <2> QED
    BY <1>c, <2>1, <2>2
<1>5. ASSUME NEW d \in Deciders, DecideHold(d)
      PROVE  RefundInv'
  <2>1. Quiet
    BY <1>5, <1>e DEF DecideHold, saleVars, moneyVars
  <2>2. Rows /\ UNCHANGED <<method, restocks, refundsSent>>
    BY <1>5, <1>a DEF DecideHold, saleVars, moneyVars
  <2> QED
    BY <1>c, <2>1, <2>2
<1>6. ASSUME NEW d \in Deciders, DecideFree(d)
      PROVE  RefundInv'
  <2>1. Quiet
    BY <1>6, <1>d DEF DecideFree, saleVars, moneyVars
  <2>2. Rows /\ UNCHANGED <<method, restocks, refundsSent>>
    BY <1>6, <1>a DEF DecideFree, saleVars, moneyVars
  <2> QED
    BY <1>c, <2>1, <2>2
<1>7. ASSUME NEW d \in Deciders, RefundMark(d)
      PROVE  RefundInv'
  <2>1. Quiet
    BY <1>7, <1>e DEF RefundMark, saleVars
  <2>2. Rows /\ UNCHANGED <<method, restocks, refundsSent>>
    BY <1>7, <1>a DEF RefundMark, saleVars
  <2> QED
    BY <1>c, <2>1, <2>2
<1>8. ASSUME NEW d \in Deciders, RefundRestore(d)
      PROVE  RefundInv'
  <2>1. Quiet
    BY <1>8, <1>d DEF RefundRestore, saleVars
  <2>2. Rows /\ UNCHANGED <<method, restocks, refundsSent>>
    BY <1>8, <1>a DEF RefundRestore, saleVars
  <2> QED
    BY <1>c, <2>1, <2>2
<1>9. ASSUME NEW d \in Deciders, DecideCrash(d)
      PROVE  RefundInv'
  <2>1. Quiet
    BY <1>9, <1>d DEF DecideCrash, saleVars, moneyVars
  <2>2. Rows /\ UNCHANGED <<method, restocks, refundsSent>>
    BY <1>9, <1>a DEF DecideCrash, saleVars, moneyVars
  <2> QED
    BY <1>c, <2>1, <2>2
<1>10. ASSUME NEW p \in Payouts, NEW named \in SUBSET Orders, PayoutRead(p, named)
      PROVE  RefundInv'
  <2>1. Quiet
    BY <1>10, <1>a DEF PayoutRead, saleVars, moneyVars, RequestState
  <2>2. Rows /\ UNCHANGED <<method, restocks, refundsSent>>
    BY <1>10, <1>a DEF PayoutRead, saleVars, moneyVars, RequestState
  <2> QED
    BY <1>c, <2>1, <2>2
<1>11. ASSUME NEW p \in Payouts, PayoutWrite(p)
      PROVE  RefundInv'
  <2>1. Quiet
    BY <1>11, <1>d DEF PayoutWrite, saleVars, moneyVars
  <2>2. Rows /\ UNCHANGED <<method, restocks, refundsSent>>
    BY <1>11, <1>a DEF PayoutWrite, saleVars, moneyVars
  <2> QED
    BY <1>c, <2>1, <2>2
<1>12. ASSUME NEW e \in SettlementEdits, NEW o \in Orders, NEW to \in SettlementStatus \ {"NONE"}, SettlementEditRead(e, o, to)
      PROVE  RefundInv'
  <2>1. Quiet
    BY <1>12, <1>a DEF SettlementEditRead, saleVars, moneyVars, RequestState
  <2>2. Rows /\ UNCHANGED <<method, restocks, refundsSent>>
    BY <1>12, <1>a DEF SettlementEditRead, saleVars, moneyVars, RequestState
  <2> QED
    BY <1>c, <2>1, <2>2
<1>13. ASSUME NEW e \in SettlementEdits, SettlementEditWrite(e)
      PROVE  RefundInv'
  <2>1. Quiet
    BY <1>13, <1>d DEF SettlementEditWrite, saleVars, moneyVars
  <2>2. Rows /\ UNCHANGED <<method, restocks, refundsSent>>
    BY <1>13, <1>a DEF SettlementEditWrite, saleVars, moneyVars
  <2> QED
    BY <1>c, <2>1, <2>2
<1>14. ASSUME NEW j \in Releasers, ReleaseNext(j)
      PROVE  RefundInv'
  <2>1. Quiet
    BY <1>14, <1>a DEF ReleaseNext, ReleaseRead, ReleaseWrite, saleVars, moneyVars
  <2>2. Rows /\ UNCHANGED <<method, restocks, refundsSent>>
    BY <1>14, <1>a DEF ReleaseNext, ReleaseRead, ReleaseWrite, saleVars, moneyVars
  <2> QED
    BY <1>c, <2>1, <2>2
<1>15. ASSUME NEW d \in Deciders, DecideWrite(d) PROVE RefundInv'
  <2>1. call[d].to # "REFUNDED"
    BY <1>15 DEF DecideWrite, LedgerInv, RequestsConsistent, Consistent, Requests
  <2>2. Goto(d, "freeing") \/ Finish(d)
    BY <1>15 DEF DecideWrite
  <2>3. Quiet
    BY <1>d, <1>e, <2>2
  <2>4. Rows /\ UNCHANGED <<method, restocks, refundsSent>>
    BY <1>15, <1>a, <2>1 DEF DecideWrite, saleVars, moneyVars
  <2> QED
    BY <1>c, <2>3, <2>4
<1>16. ASSUME NEW d \in Deciders, RefundLoad(d) PROVE RefundInv'
  <2>1. \/ Finish(d) \/ Goto(d, "marking")
        \/ Goto(d, "refunded") /\ method[call[d].order] = "CASH"
    BY <1>16 DEF RefundLoad
  <2>2. ASSUME Goto(d, "refunded"), method[call[d].order] = "CASH" PROVE Quiet
    BY <1>a, <2>2 DEF Goto, RequestState
  <2>3. Quiet
    BY <1>d, <1>e, <2>1, <2>2
  <2>4. Rows /\ UNCHANGED <<method, restocks, refundsSent>>
    BY <1>16, <1>a DEF RefundLoad, saleVars, moneyVars
  <2> QED
    BY <1>c, <2>3, <2>4
<1>17. ASSUME NEW d \in Deciders, NEW outcome \in RefundOutcomes, GatewayRefund(d, outcome)
       PROVE  RefundInv'
  <2> DEFINE t == call[d].order
  <2>1. UNCHANGED <<method, restocks, payment, returns>>
    BY <1>17 DEF GatewayRefund, saleVars
  <2>2. refundsSent' = refundsSent \/ refundsSent' = [refundsSent EXCEPT ![t] = @ + 1]
    BY <1>17 DEF GatewayRefund
  <2> HIDE DEF t
  <2>3. refundsSent' \in [Orders -> Nat] /\ \A o \in Orders : refundsSent'[o] >= refundsSent[o]
    <3>1. \A x \in Orders : refundsSent[x] + 1 \in Nat
      BY <1>a
    <3> QED
      BY <1>a, <2>2, <3>1
  <2>4. RefundsCovered'
    <3>1. CASE outcome # "ok"
      <4>1. Goto(d, "refused")
        BY <1>17, <3>1 DEF GatewayRefund
      <4> QED
        BY <1>e, <2>1, <2>3, <4>1, CoveredWhenNoneStarts
    <3>2. CASE outcome = "ok"
      <4>1. Goto(d, "refunded") /\ refundsSent' = [refundsSent EXCEPT ![t] = @ + 1]
        BY <1>17, <3>2 DEF GatewayRefund, t
      <4>2. SUFFICES ASSUME NEW o \in Orders, method[o] = "GATEWAY"
                     PROVE  restocks[o] + Cardinality(InFlight(o)') <= refundsSent'[o]
        BY <2>1 DEF RefundsCovered
      <4>3. restocks[o] + Cardinality(InFlight(o)) <= refundsSent[o]
        BY <4>2 DEF RefundsCovered
      <4>4. CASE o = t
        <5>1. InFlight(o)' \subseteq InFlight(o) \cup {d}
          BY <1>a, <4>1 DEF InFlight, Goto
        <5>2. /\ IsFiniteSet(InFlight(o) \cup {d})
              /\ \/ Cardinality(InFlight(o) \cup {d}) = Cardinality(InFlight(o))
                 \/ Cardinality(InFlight(o) \cup {d}) = Cardinality(InFlight(o)) + 1
          BY InFlightFinite, FS_AddElement
        <5>3. /\ Cardinality(InFlight(o)') <= Cardinality(InFlight(o) \cup {d})
              /\ Cardinality(InFlight(o)') \in Nat
          BY <5>1, <5>2, FS_Subset, FS_CardinalityType
        <5> DEFINE m == Cardinality(InFlight(o))
                   k == Cardinality(InFlight(o) \cup {d})
                   n == Cardinality(InFlight(o)')
        <5>4. /\ m \in Nat /\ n \in Nat /\ n <= k /\ (k = m \/ k = m + 1)
              /\ restocks[o] + m <= refundsSent[o] /\ refundsSent'[o] = refundsSent[o] + 1
              /\ restocks[o] \in Nat /\ refundsSent[o] \in Nat
          BY <1>a, <4>1, <4>3, <4>4, <5>2, <5>3, InFlightFinite
        <5> HIDE DEF m, k, n
        <5>5. restocks[o] + n <= refundsSent'[o]
          BY <5>4
        <5> QED
          BY <5>5 DEF n
      <4>5. CASE o # t
        <5>1. InFlight(o)' \subseteq InFlight(o)
          <6>1. ASSUME NEW c \in Requests, call'[c].pc = "refunded", call'[c].order = o
                PROVE  c \in InFlight(o)
            <7>1. CASE c = d
              <8>1. call'[d].order = t
                BY <1>a, <4>1, <7>1 DEF Goto, RequestState, t
              <8> QED
                BY <4>5, <6>1, <7>1, <8>1
            <7>2. CASE c # d
              BY <1>a, <4>1, <6>1, <7>2 DEF Goto, InFlight
            <7> QED
              BY <7>1, <7>2
          <6> QED
            BY <6>1 DEF InFlight
        <5>2. Cardinality(InFlight(o)') <= Cardinality(InFlight(o)) /\ Cardinality(InFlight(o)') \in Nat
          BY <5>1, InFlightFinite, FS_Subset, FS_CardinalityType
        <5> DEFINE m == Cardinality(InFlight(o))
                   n == Cardinality(InFlight(o)')
        <5>3. /\ m \in Nat /\ n \in Nat /\ n <= m
              /\ restocks[o] + m <= refundsSent[o] /\ refundsSent'[o] = refundsSent[o]
              /\ restocks[o] \in Nat /\ refundsSent[o] \in Nat
          BY <1>a, <4>1, <4>3, <4>5, <5>2, InFlightFinite
        <5> HIDE DEF m, n
        <5>4. restocks[o] + n <= refundsSent'[o]
          BY <5>3
        <5> QED
          BY <5>4 DEF n
      <4> QED
        BY <4>4, <4>5
    <3> QED
      BY <3>1, <3>2
  <2> QED
    BY <1>a, <2>1, <2>3, <2>4, RecordedWhenNoneCommits
<1>18. ASSUME NEW d \in Deciders, RefundCommit(d) PROVE RefundInv'
  <2> DEFINE t == call[d].order
             ret == call[d].return
  <2>1. /\ UNCHANGED <<method, refundsSent>> /\ Finish(d) /\ call[d].pc = "refunded"
        /\ restocks' = [restocks EXCEPT ![t] = @ + 1]
        /\ payment' = [payment EXCEPT ![t] = "REFUNDED"]
        /\ returns' = [returns EXCEPT ![ret].status = "REFUNDED"]
    BY <1>18 DEF RefundCommit, saleVars
  <2>2. /\ ret \in Returns /\ returns[ret].order = t /\ d \in Requests
    BY <2>1 DEF LedgerInv, RequestsConsistent, Consistent, Deciding, Requests
  <2>3. \A o \in Orders : method[o] = "GATEWAY" =>
             restocks[o] + Cardinality(InFlight(o)) <= refundsSent[o]
    BY DEF RefundsCovered
  <2>4. ASSUME NEW o \in Orders, method[o] = "GATEWAY", o = t
        PROVE  /\ restocks'[o] + Cardinality(InFlight(o)') <= refundsSent[o]
               /\ restocks'[o] <= refundsSent[o] /\ refundsSent[o] > 0
    <3>1. d \in InFlight(o)
      BY <2>1, <2>2, <2>4 DEF InFlight
    <3>2. InFlight(o)' = InFlight(o) \ {d}
      BY <1>a, <2>1 DEF InFlight, Finish, Idle
    <3>3. Cardinality(InFlight(o) \ {d}) = Cardinality(InFlight(o)) - 1
      BY <3>1, InFlightFinite, FS_RemoveElement
    <3>4. Cardinality(InFlight(o) \ {d}) \in Nat
      BY InFlightFinite, FS_Subset, FS_CardinalityType
    <3> DEFINE m == Cardinality(InFlight(o))
               n == Cardinality(InFlight(o)')
    <3>5. /\ m \in Nat /\ n \in Nat /\ n = m - 1 /\ restocks[o] + m <= refundsSent[o]
          /\ restocks'[o] = restocks[o] + 1 /\ restocks[o] \in Nat /\ refundsSent[o] \in Nat
      BY <1>a, <2>1, <2>3, <2>4, <3>2, <3>3, <3>4, InFlightFinite
    <3> HIDE DEF m, n
    <3>6. restocks'[o] + n <= refundsSent[o] /\ restocks'[o] <= refundsSent[o] /\ refundsSent[o] > 0
      BY <3>5
    <3> QED
      BY <3>6 DEF n
  <2>5. ASSUME NEW o \in Orders, method[o] = "GATEWAY", o # t
        PROVE  restocks'[o] + Cardinality(InFlight(o)') <= refundsSent[o]
    <3>1. InFlight(o)' = InFlight(o)
      BY <1>a, <2>1, <2>5 DEF InFlight, Finish, Idle
    <3> QED
      BY <1>a, <2>1, <2>3, <2>5, <3>1
  <2>6. RefundsCovered'
    BY <2>1, <2>4, <2>5 DEF RefundsCovered
  <2>7. RecordedRefundsWereSent'
    <3> SUFFICES ASSUME NEW o \in Orders, method[o] = "GATEWAY"
                 PROVE  /\ restocks'[o] <= refundsSent[o]
                        /\ payment'[o] = "REFUNDED" => refundsSent[o] > 0
                        /\ \A r \in ReturnsOf(o)' : returns'[r].status = "REFUNDED" => refundsSent[o] > 0
      BY <2>1 DEF RecordedRefundsWereSent
    <3>1. CASE o = t
      BY <2>4, <3>1
    <3>2. CASE o # t
      <4>1. restocks'[o] = restocks[o] /\ payment'[o] = payment[o]
        BY <1>a, <2>1, <3>2
      <4>2. ASSUME NEW r \in ReturnsOf(o)' PROVE r \in ReturnsOf(o) /\ returns'[r] = returns[r]
        <5>1. r \in Returns /\ returns'[r].order = o
          BY <4>2 DEF ReturnsOf
        <5>2. r # ret
          BY <1>a, <2>1, <2>2, <3>2, <5>1
        <5>3. returns'[r] = returns[r]
          BY <1>a, <2>1, <5>1, <5>2
        <5> QED
          BY <5>1, <5>3 DEF ReturnsOf
      <4> QED
        BY <4>1, <4>2 DEF RecordedRefundsWereSent
    <3> QED
      BY <3>1, <3>2
  <2> QED
    BY <2>6, <2>7
<1>19. CASE Tick \/ UNCHANGED vars
  <2>1. Quiet /\ Rows /\ UNCHANGED <<method, restocks, refundsSent>>
    BY <1>19 DEF Tick, vars, saleVars, moneyVars
  <2> QED
    BY <1>c, <2>1
<1> HIDE DEF Quiet, Rows, RefundInv
<1> QED
  BY <1>1, <1>2, <1>3, <1>4, <1>5, <1>6, <1>7, <1>8, <1>9,
     <1>10, <1>11, <1>12, <1>13, <1>14, <1>15, <1>16, <1>17, <1>18, <1>19
  DEF SettlementNext, OpenNext, DecideNext, PayoutNext, SettlementEditNext

-----------------------------------------------------------------------------
(* The theorems                                                            *)

\* The ledger is well typed and every request in progress relies on what is
\* still so, throughout.
THEOREM LedgerInvariant == SettlementSafety => []LedgerInv
BY LedgerInvInit, LedgerInvStep, PTL DEF SettlementSafety

\* Type correctness of settlements, returns and payouts; in particular the total
\* of a payout is never negative, cash commissions netted off.
THEOREM SettlementTypeCorrect == SettlementSafety => []SettlementTypeOK
<1>1. LedgerInv => SettlementTypeOK
  BY DEF LedgerInv
<1> QED
  BY <1>1, LedgerInvariant, PTL

\* A seller is never paid twice for one settlement, whatever number of payout
\* runs sweep at once.
THEOREM PaidOnce == SettlementSafety => []NoDoublePayout
<1>1. SettlementInit => NoDoublePayout
  BY DEF SettlementInit, NoDoublePayout
<1> QED
  BY <1>1, PayoutsStep, LedgerInvariant, PTL DEF SettlementSafety

\* A refund that the database shows was sent by the provider, and the goods of a
\* gateway order return to the shelf no more often than its money went back.
THEOREM RefundsRecordedWereSent == SettlementSafety => []RecordedRefundsWereSent
<1>1. SettlementInit => RefundInv
  <2> SUFFICES ASSUME SettlementInit PROVE RefundInv
    OBVIOUS
  <2>1. \A o \in Orders : InFlight(o) = {}
    BY DEF SettlementInit, InFlight, Idle
  <2>2. Cardinality({}) = 0
    BY FS_EmptySet
  <2>3. \A o \in Orders : restocks[o] = 0 /\ refundsSent[o] = 0
    BY DEF SettlementInit
  <2>4. RefundsCovered
    BY <2>1, <2>2, <2>3 DEF RefundsCovered
  <2>5. RecordedRefundsWereSent
    BY <2>3 DEF SettlementInit, RecordedRefundsWereSent, ReturnsOf
  <2> QED
    BY <2>4, <2>5 DEF RefundInv
<1>2. RefundInv => RecordedRefundsWereSent
  BY DEF RefundInv
<1> QED
  BY <1>1, <1>2, RefundsStep, LedgerInvariant, PTL DEF SettlementSafety

\* A REFUNDED settlement is made payable again by an admin's edit only.
THEOREM RefundedStays == SettlementSafety => RefundedSettlementStays
<1> DEFINE Edited == \E e \in SettlementEdits : call[e].pc = "editing" /\ call'[e].pc = "idle"
           Kept == \A o \in Orders :
                      settlement[o] = "REFUNDED" /\ settlement'[o] # "REFUNDED" => Edited
<1>1. LedgerInv /\ [SettlementNext]_vars => [Kept]_vars
  <2> SUFFICES ASSUME LedgerInv, SettlementNext, NEW o \in Orders,
                      settlement[o] = "REFUNDED", settlement'[o] # "REFUNDED"
               PROVE  Edited
    OBVIOUS
  <2>1. settlement \in [Orders -> SettlementStatus] /\ call \in [Requests -> RequestState]
    BY DEF LedgerInv, SettlementTypeOK
  <2>2. \A x \in Orders : ~CompleteOrder(x)
    BY <2>1 DEF CompleteOrder, ledgerVars
  <2>3. \A d \in Deciders : ~DecideHold(d) /\ ~DecideFree(d) /\ ~RefundCommit(d)
    BY <2>1 DEF DecideHold, DecideFree, RefundCommit, MarkRefundedForOrder
  <2>4. \A j \in Releasers : ~ReleaseNext(j)
    BY <2>1 DEF ReleaseNext, ReleaseRead, ReleaseWrite, ledgerVars
  <2>5. ASSUME NEW e \in SettlementEdits, SettlementEditWrite(e) PROVE Edited
    BY <2>1, <2>5 DEF SettlementEditWrite, Finish, Idle, Requests
  <2>6. settlement' # settlement
    OBVIOUS
  <2> QED
    BY <2>2, <2>3, <2>4, <2>5, <2>6
    DEF SettlementNext, OpenNext, DecideNext, PayoutNext, SettlementEditNext, Tick, OpenRead,
        OpenWrite, DecideRead, DecideWrite, RefundLoad, RefundMark, GatewayRefund,
        RefundRestore, DecideCrash, PayoutRead, PayoutWrite, SettlementEditRead, ledgerVars
<1> QED
  BY <1>1, LedgerInvariant, PTL DEF SettlementSafety, RefundedSettlementStays
=================================================================================
