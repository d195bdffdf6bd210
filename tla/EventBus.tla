------------------------------ MODULE EventBus ------------------------------
(***************************************************************************)
(* Domain events from publish() to their consumers in the worker processes: *)
(* the email consumer takes one message at a time and sends each mail       *)
(* through runOnce, the analytics consumer writes messages in batches.      *)
(*                                                                          *)
(* SNS and SQS are the environment: a message is delivered at least once,   *)
(* is hidden while a consumer has it, comes back when its visibility        *)
(* timeout runs out, and goes to the dead-letter queue when it was received *)
(* MaxReceives times.  The heartbeat that renews the timeout ignores its    *)
(* errors, so a message can come back while it is being handled.  What a    *)
(* receipt handle of an earlier delivery still deletes is up to SQS.        *)
(***************************************************************************)
EXTENDS Integers, FiniteSets

CONSTANTS
    Messages,       \* events, by eventId
    Mails,          \* email.send.requested
    Facts,          \* analytics.event.recorded; the rest no consumer can handle
    Workers,        \* worker processes
    BatchSize,      \* ANALYTICS_BATCH_SIZE
    MaxReceives,    \* maxReceiveCount of the redrive policy
    MaxOutages,     \* bound on losses of the Redis connection
    MaxStops,       \* bound on SIGTERMs
    MaxPublished,   \* bound on the events published
    Nothing

ASSUME BusConstants ==
    /\ IsFiniteSet(Messages) /\ IsFiniteSet(Workers)
    /\ Mails \subseteq Messages /\ Facts \subseteq Messages
    /\ Mails \cap Facts = {}
    /\ BatchSize \in Nat \ {0} /\ MaxReceives \in Nat \ {0}
    /\ MaxOutages \in Nat /\ MaxStops \in Nat /\ MaxPublished \in Nat
    /\ Nothing \notin Messages \cup Workers

VARIABLES
    queued,     \* where a message is, and how often it was received
    onceKey,    \* eventbus:once:email:<eventId> in Redis
    redis,      \* whether Redis answers, and how often it went away
    outbox,     \* how often the mail of an event was sent
    factRows,   \* AnalyticsEvents rows that carry an eventId
    directRows, \* AnalyticsEvents rows written by the request itself
    worker,     \* worker processes
    stops,      \* SIGTERMs so far
    slips       \* ghost: the times something cost runOnce its record of an event

brokerVars == <<queued, stops>>
busVars == <<brokerVars, onceKey, redis, outbox, factRows, directRows, worker, slips>>

-----------------------------------------------------------------------------
Awake == [mode |-> "running", mailPc |-> "idle", mail |-> Nothing,
          claimed |-> FALSE, batchPc |-> "idle", buffer |-> {}]

Queue(m, place) == queued' = [queued EXCEPT ![m].at = place]

Slip(m) == slips' = [slips EXCEPT ![m] = @ + 1]

BusInit ==
    /\ queued = [m \in Messages |-> [at |-> "unsent", receives |-> 0]]
    /\ onceKey = [m \in Mails |-> "none"]
    /\ redis = [up |-> TRUE, outages |-> 0]
    /\ outbox = [m \in Mails |-> 0]
    /\ factRows = {} /\ directRows = {}
    /\ worker = [w \in Workers |-> Awake]
    /\ stops = 0
    /\ slips = [m \in Mails |-> 0]

-----------------------------------------------------------------------------
(* Publishing. *)

MayPublish(m) ==
    /\ queued[m].at = "unsent"
    /\ Cardinality({n \in Messages : queued[n].at # "unsent"}) < MaxPublished

\* publish() never throws; nobody looks at what it returns, so a mail that
\* cannot be published is dropped.
Publish(m) ==
    /\ m \notin Facts /\ MayPublish(m)
    /\ \E place \in {"queue", "dropped"} : Queue(m, place)
    /\ UNCHANGED <<stops, onceKey, redis, outbox, factRows, directRows, worker, slips>>

\* publishMany reports, payload by payload, what it could not publish; a call
\* that SNS took and whose answer was lost is reported as failed as well.
PublishMany(m, reported) ==
    \E place \in IF reported = "published" THEN {"queue"} ELSE {"queue", "dropped"} :
      Queue(m, place)

\* AnalyticsService.record writes directly what publishMany reports as failed.
RecordFacts(m) ==
    /\ m \in Facts /\ MayPublish(m)
    /\ \E reported \in {"published", "failed"} :
          /\ PublishMany(m, reported)
          /\ directRows' = directRows \cup {f \in {m} : reported = "failed"}
    /\ UNCHANGED <<stops, onceKey, redis, outbox, factRows, worker, slips>>

-----------------------------------------------------------------------------
(* The queues. *)

Received(m) ==
    queued' = [queued EXCEPT ![m] = [at |-> "hidden", receives |-> @.receives + 1]]

VisibilityTimeout(m) ==
    /\ queued[m].at = "hidden"
    /\ Queue(m, "queue")
    /\ UNCHANGED <<stops, onceKey, redis, outbox, factRows, directRows, worker, slips>>

Redrive(m) ==
    /\ queued[m].at = "queue" /\ queued[m].receives >= MaxReceives
    /\ Queue(m, "dlq")
    /\ UNCHANGED <<stops, onceKey, redis, outbox, factRows, directRows, worker, slips>>

Available(m) == queued[m].at = "queue" /\ queued[m].receives < MaxReceives

\* What is left of the messages ms when a worker deletes them and some calls fail.
Deleted(ms) ==
    \E failed \in SUBSET ms :
      queued' = [m \in Messages |->
        IF m \in ms \ failed /\ queued[m].at \in {"queue", "hidden"}
          THEN [queued[m] EXCEPT !.at = "gone"] ELSE queued[m]]

-----------------------------------------------------------------------------
(* consume: the email consumer. *)

MailGoes(w, pc) == worker' = [worker EXCEPT ![w].mailPc = pc]

MailReceive(w, m) ==
    /\ worker[w].mode = "running" /\ worker[w].mailPc = "idle"
    /\ m \in Mails /\ Available(m)
    /\ Received(m)
    /\ worker' = [worker EXCEPT ![w].mailPc = "received", ![w].mail = m]
    /\ UNCHANGED <<stops, onceKey, redis, outbox, factRows, directRows, slips>>

\* A message received while stopping is handed back.
MailRelease(w) ==
    /\ worker[w].mode = "stopping" /\ worker[w].mailPc = "received"
    /\ Queue(worker[w].mail, IF queued[worker[w].mail].at = "hidden" THEN "queue"
                             ELSE queued[worker[w].mail].at)
    /\ worker' = [worker EXCEPT ![w].mailPc = "idle", ![w].mail = Nothing]
    /\ UNCHANGED <<stops, onceKey, redis, outbox, factRows, directRows, slips>>

\* runOnce claims the key with SET NX; without Redis it runs unclaimed.
Claim(w) ==
    LET m == worker[w].mail
    IN  /\ worker[w].mailPc = "received"
        /\ \/ /\ ~redis.up
              /\ MailGoes(w, "sending") /\ UNCHANGED onceKey
           \/ /\ redis.up /\ onceKey[m] = "none"
              /\ onceKey' = [onceKey EXCEPT ![m] = "running"]
              /\ worker' = [worker EXCEPT ![w].mailPc = "sending", ![w].claimed = TRUE]
           \/ /\ redis.up /\ onceKey[m] # "none"
              /\ MailGoes(w, IF onceKey[m] = "done" THEN "handled" ELSE "failed")
              /\ UNCHANGED onceKey
        /\ UNCHANGED <<brokerVars, redis, outbox, factRows, directRows, slips>>

SendMail(w) ==
    LET m == worker[w].mail
    IN  /\ worker[w].mailPc = "sending"
        /\ outbox' = [outbox EXCEPT ![m] = @ + 1]
        /\ MailGoes(w, IF worker[w].claimed THEN "sent" ELSE "handled")
        /\ IF worker[w].claimed THEN UNCHANGED slips ELSE Slip(m)
        /\ UNCHANGED <<brokerVars, onceKey, redis, factRows, directRows>>

\* The mail transport throws: the claim is released and the message retried.
SendFails(w) ==
    LET m == worker[w].mail
    IN  /\ worker[w].mailPc = "sending"
        /\ onceKey' = [onceKey EXCEPT ![m] =
              IF worker[w].claimed /\ redis.up THEN "none" ELSE @]
        /\ MailGoes(w, "failed")
        /\ UNCHANGED <<brokerVars, redis, outbox, factRows, directRows, slips>>

MarkDone(w) ==
    LET m == worker[w].mail
    IN  /\ worker[w].mailPc = "sent"
        /\ IF redis.up
             THEN onceKey' = [onceKey EXCEPT ![m] = "done"] /\ UNCHANGED slips
             ELSE Slip(m) /\ UNCHANGED onceKey
        /\ MailGoes(w, "handled")
        /\ UNCHANGED <<brokerVars, redis, outbox, factRows, directRows>>

\* A handled message is deleted; a failed one is made visible again.
MailDone(w) ==
    LET m == worker[w].mail
    IN  /\ worker[w].mailPc \in {"handled", "failed"}
        /\ IF worker[w].mailPc = "handled" THEN Deleted({m})
             ELSE Queue(m, IF queued[m].at = "hidden" THEN "queue" ELSE queued[m].at)
        /\ worker' = [worker EXCEPT ![w].mailPc = "idle", ![w].mail = Nothing,
                                    ![w].claimed = FALSE]
        /\ UNCHANGED <<stops, onceKey, redis, outbox, factRows, directRows, slips>>

\* dropUnhandled, and a body that cannot be parsed.
DropUnhandled(w, m) ==
    /\ worker[w].mode = "running"
    /\ m \notin Mails \cup Facts /\ Available(m)
    /\ \E place \in {"gone", "hidden"} :
          queued' = [queued EXCEPT ![m] = [at |-> place, receives |-> @.receives + 1]]
    /\ UNCHANGED <<stops, onceKey, redis, outbox, factRows, directRows, worker, slips>>

-----------------------------------------------------------------------------
(* consumeBatch: the analytics consumer. *)

BatchReceive(w, m) ==
    /\ worker[w].mode = "running" /\ worker[w].batchPc = "idle"
    /\ Cardinality(worker[w].buffer) < BatchSize
    /\ m \in Facts /\ Available(m)
    /\ Received(m)
    /\ worker' = [worker EXCEPT ![w].buffer = @ \cup {m}]
    /\ UNCHANGED <<stops, onceKey, redis, outbox, factRows, directRows, slips>>

\* Variant of BatchWrite: the messages are deleted before they are written.
BatchWrite_DeleteFirst(w) ==
    /\ worker[w].batchPc = "idle" /\ worker[w].buffer # {}
    /\ Deleted(worker[w].buffer)
    /\ worker' = [worker EXCEPT ![w].batchPc = "written"]
    /\ UNCHANGED <<stops, onceKey, redis, outbox, factRows, directRows, slips>>

\* flush() writes a full batch, one whose deadline passed, or what is left when
\* stopping; a row whose eventId is stored is skipped.
BatchWrite(w) ==
    /\ worker[w].batchPc = "idle" /\ worker[w].buffer # {}
    /\ factRows' = factRows \cup worker[w].buffer
    /\ worker' = [worker EXCEPT ![w].batchPc = "written"]
    /\ UNCHANGED <<brokerVars, onceKey, redis, outbox, directRows, slips>>

\* The write throws: the whole batch is made visible again.
BatchFails(w) ==
    /\ worker[w].batchPc = "idle" /\ worker[w].buffer # {}
    /\ queued' = [m \in Messages |->
          IF m \in worker[w].buffer /\ queued[m].at = "hidden"
            THEN [queued[m] EXCEPT !.at = "queue"] ELSE queued[m]]
    /\ worker' = [worker EXCEPT ![w].buffer = {}]
    /\ UNCHANGED <<stops, onceKey, redis, outbox, factRows, directRows, slips>>

BatchDelete(w) ==
    /\ worker[w].batchPc = "written"
    /\ Deleted(worker[w].buffer)
    /\ worker' = [worker EXCEPT ![w].batchPc = "idle", ![w].buffer = {}]
    /\ UNCHANGED <<stops, onceKey, redis, outbox, factRows, directRows, slips>>

-----------------------------------------------------------------------------
(* The worker process. *)

Busy(w) == worker[w].mailPc # "idle" \/ worker[w].buffer # {}

\* A crash, or a second signal, in the middle of something.
WorkerDies(w) ==
    /\ worker[w].mode # "stopped" /\ Busy(w)
    /\ worker' = [worker EXCEPT ![w] = [Awake EXCEPT !.mode = "stopped"]]
    /\ IF worker[w].mailPc = "sent" THEN Slip(worker[w].mail) ELSE UNCHANGED slips
    /\ UNCHANGED <<brokerVars, onceKey, redis, outbox, factRows, directRows>>

SigTerm(w) ==
    /\ worker[w].mode = "running" /\ stops < MaxStops
    /\ stops' = stops + 1
    /\ worker' = [worker EXCEPT ![w].mode = "stopping"]
    /\ UNCHANGED <<queued, onceKey, redis, outbox, factRows, directRows, slips>>

\* gracefulShutdown exits when both loops ended.
ShutdownEnds(w) ==
    /\ worker[w].mode = "stopping" /\ ~Busy(w)
    /\ worker' = [worker EXCEPT ![w].mode = "stopped"]
    /\ UNCHANGED <<brokerVars, onceKey, redis, outbox, factRows, directRows, slips>>

\* Variant of StartWorker that starts its loops as already stopped.
StartWorker_NoLoops(w) ==
    /\ worker[w].mode = "stopped"
    /\ worker' = [worker EXCEPT ![w] = [Awake EXCEPT !.mode = "stopping"]]
    /\ UNCHANGED <<brokerVars, onceKey, redis, outbox, factRows, directRows, slips>>

StartWorker(w) ==
    /\ worker[w].mode = "stopped"
    /\ worker' = [worker EXCEPT ![w] = Awake]
    /\ UNCHANGED <<brokerVars, onceKey, redis, outbox, factRows, directRows, slips>>

-----------------------------------------------------------------------------
(* Redis. *)

\* CLAIM_SECONDS run out; nothing renews a claim.
ClaimLapses(m) ==
    /\ onceKey[m] = "running"
    /\ onceKey' = [onceKey EXCEPT ![m] = "none"]
    /\ IF \E w \in Workers : worker[w].mail = m /\ worker[w].claimed
         THEN Slip(m) ELSE UNCHANGED slips
    /\ UNCHANGED <<brokerVars, redis, outbox, factRows, directRows, worker>>

RedisDrops ==
    /\ redis.up /\ redis.outages < MaxOutages
    /\ redis' = [up |-> FALSE, outages |-> redis.outages + 1]
    /\ UNCHANGED <<brokerVars, onceKey, outbox, factRows, directRows, worker, slips>>

RedisReconnects ==
    /\ ~redis.up
    /\ redis' = [redis EXCEPT !.up = TRUE]
    /\ UNCHANGED <<brokerVars, onceKey, outbox, factRows, directRows, worker, slips>>

MailStep(w) ==
    \/ MailRelease(w) \/ Claim(w) \/ SendMail(w) \/ SendFails(w)
    \/ MarkDone(w) \/ MailDone(w)

BatchStep(w) == BatchWrite(w) \/ BatchFails(w) \/ BatchDelete(w)

Take(w, m) == MailReceive(w, m) \/ BatchReceive(w, m) \/ DropUnhandled(w, m)

\* What may happen while the API raises the events `raised`; Redis matters to mails.
BusStep(raised) ==
    \/ \E m \in raised : Publish(m) \/ RecordFacts(m)
    \/ \E m \in Messages : VisibilityTimeout(m) \/ Redrive(m)
    \/ \E w \in Workers, m \in Messages : Take(w, m)
    \/ \E w \in Workers :
          \/ MailStep(w) \/ BatchStep(w)
          \/ WorkerDies(w) \/ SigTerm(w) \/ ShutdownEnds(w) \/ StartWorker(w)
    \/ \E m \in Mails : ClaimLapses(m)
    \/ raised \cap Mails # {} /\ (RedisDrops \/ RedisReconnects)

BusNext == BusStep(Messages)

\* Both loops poll for ever, SQS hides nothing for ever, and the platform
\* starts a worker that exited.
BusFairness ==
    /\ \A w \in Workers :
          /\ WF_busVars(MailStep(w)) /\ WF_busVars(BatchStep(w))
          /\ WF_busVars(ShutdownEnds(w)) /\ WF_busVars(StartWorker(w))
    /\ \A m \in Messages :
          /\ WF_busVars(VisibilityTimeout(m)) /\ WF_busVars(Redrive(m))
          /\ WF_busVars(\E w \in Workers : Take(w, m))

BusSpec == BusInit /\ [][BusNext]_busVars /\ BusFairness

-----------------------------------------------------------------------------
(* Properties. *)

\* Messages, keys and workers keep their types.
BusTypeOK ==
    /\ queued \in [Messages -> [at : {"unsent", "dropped", "queue", "hidden", "gone", "dlq"},
                                receives : 0..MaxReceives]]
    /\ onceKey \in [Mails -> {"none", "running", "done"}]
    /\ redis \in [up : BOOLEAN, outages : 0..MaxOutages]
    /\ outbox \in [Mails -> Nat] /\ slips \in [Mails -> Nat]
    /\ factRows \subseteq Facts /\ directRows \subseteq Facts
    /\ worker \in [Workers -> [mode : {"running", "stopping", "stopped"},
          mailPc : {"idle", "received", "sending", "sent", "handled", "failed"},
          mail : Mails \cup {Nothing}, claimed : BOOLEAN,
          batchPc : {"idle", "written"}, buffer : SUBSET Facts]]

\* "A crash mid-batch redelivers rather than loses" (batch-consumer.ts:65), and
\* so for mails: nothing leaves a queue but by being handled or dead-lettered.
DeletedMeansHandled ==
    /\ \A m \in Mails : queued[m].at = "gone" => outbox[m] > 0
    /\ \A m \in Facts : queued[m].at = "gone" => m \in factRows

\* Every analytics event the API accepted is stored, or still in a queue.
AcceptedFactsAreKept ==
    \A m \in Facts :
      queued[m].at = "unsent" \/ m \in factRows \cup directRows
        \/ queued[m].at \in {"queue", "hidden", "dlq"}

\* runOnce: however often a mail event is delivered, to however many workers,
\* it is sent once, and again only for each time Redis was away, a claim ran
\* out under its worker or a worker died between sending and recording.
MailSentOnce == \A m \in Mails : outbox[m] <= 1 + slips[m]

\* A worker that stopped gracefully left nothing to wait out its timeout with it.
StoppedWorkersHoldNothing ==
    \A w \in Workers : worker[w].mode = "stopped" => ~Busy(w)

\* Every published event is in the end handled or dead-lettered, through
\* crashes, failed handlers, lost deletes and Redis outages.
EventsSettle ==
    <>[](\A m \in Messages : queued[m].at \notin {"queue", "hidden"})

\* Nothing that was published is lost, sent twice without a cause, or held by a
\* worker that has stopped (consumer, batch-consumer, runOnce).
DeliveryIsSafe ==
    BusTypeOK /\ DeletedMeansHandled /\ AcceptedFactsAreKept /\ MailSentOnce
    /\ StoppedWorkersHoldNothing
=============================================================================
