------------------------------- MODULE Delivery -------------------------------
(****************************************************************************)
(* The path of a message: HTTP handlers create it and enqueue it, the        *)
(* orchestrator's workers dequeue it, push it to the target and ack it, all  *)
(* through the switchable queue, whose backend an HTTP request may replace   *)
(* at any moment.  Composes the four backends with                           *)
(*   app/repositories/queue/switchable, app/usecases/consumemessage,         *)
(*   app/usecases/createmessage and the workers of app/orchestrator.         *)
(*                                                                           *)
(* The rate limiter only decides when a worker starts a cycle, so here a     *)
(* worker may start one at any time; RateLimiter models the waiting.         *)
(****************************************************************************)
EXTENDS Integers, Sequences, FiniteSets

CONSTANTS
    Workers,       \* cfg.Orchestrator.Workers goroutines
    Producers,     \* HTTP handlers and flood goroutines that create messages
    Messages,      \* identities of created messages
    Poison,        \* those of Messages that an external producer wrote and
                   \* that do not unmarshal
    NoMsg,         \* no message in hand
    Types,         \* the backends an instance of the program can use
    Capacity,      \* room of the in-memory channel
    MaxMessages,   \* batch size of one SQS receive
    Queries, NoQuery,
    MaxSwitches,   \* bound: switches of the backend in one life of the process
    MaxFailures,   \* bound: pushes, acks, receives and publishes that fail
    MaxRestarts    \* bound: crashes followed by a restart

AllTypes == {"kafka", "inmemory", "constant", "sqs"}

(* The message of the constant queue has no identity to track: Generated     *)
(* stands for every such message that has a body, EmptyBody for one without. *)
Generated == "generated"
EmptyBody == "empty"

ASSUME DeliveryAssumption ==
    /\ Types # {} /\ Types \subseteq AllTypes
    /\ IsFiniteSet(Workers) /\ IsFiniteSet(Producers)
    /\ Poison \subseteq Messages
    /\ {NoMsg, Generated, EmptyBody} \cap Messages = {}
    /\ NoMsg \notin {Generated, EmptyBody}
    /\ MaxSwitches \in Nat /\ MaxFailures \in Nat /\ MaxRestarts \in Nat

ASSUME BackendAssumption ==
    /\ Capacity \in Nat \ {0}
    /\ MaxMessages \in Nat \ {0}
    /\ NoQuery \notin Queries

VARIABLES
    \* the switchable queue
    active,      \* activeType; the instance is the backend of that name
    epoch,       \* how many `switched` channels have been closed: the channel
                 \* a Dequeue took in epoch e is closed once epoch > e
    built,       \* the types whose instance is cached
    \* the workers
    pc, src, ep, \* position in the cycle; the snapshot of Dequeue
    msg, off,    \* the message in hand and, from Kafka, its offset
    run,         \* orchestrator: "running", "stopping" (ctx cancelled),
                 \* "stopped" (Stop returned)
    \* the producers
    ppc, pdst, pmsg,
    fresh,       \* messages not created yet
    discarded,   \* created messages that no queue kept: enqueued on the
                 \* constant queue, refused, or cut off by a crash
    \* the target
    pushes,      \* how often each message was confirmed by the target
    \* the backends
    log, committed, fetch, marked, ch, size, query, ready, closing, status,
    \* bounds
    failures, restarts

Kafka  == INSTANCE KafkaQueue
Memory == INSTANCE InMemoryQueue
Const  == INSTANCE ConstantQueue
Sqs    == INSTANCE SqsQueue

switchVars   == <<active, epoch, built>>
workerVars   == <<pc, src, ep, msg, off>>
producerVars == <<ppc, pdst, pmsg, fresh, discarded>>
kafkaVars    == <<log, committed, fetch, marked>>
memoryVars   == <<ch, size>>
constVars    == <<query, ready, closing>>
backendVars  == <<log, committed, fetch, marked, ch, size, query, ready, closing, status>>
boundVars    == <<failures, restarts>>
vars == <<switchVars, workerVars, run, producerVars, pushes, backendVars, boundVars>>

(* A worker is "idle" between cycles, "snap" at the top of Dequeue's loop,    *)
(* "recv" inside the backend's Dequeue, "await" in the constant queue's      *)
(* select, "cancelled" or "failed" when the backend returned ctx.Err() or    *)
(* another error, "push" and "ack" in Consume.                               *)
WorkerPcs   == {"idle", "snap", "recv", "await", "cancelled", "failed", "push", "ack", "exited"}

(* A producer is "idle", has picked the queue ("enqueue"), or is in the two  *)
(* halves of the in-memory Enqueue ("send", "count").                        *)
ProducerPcs == {"idle", "enqueue", "send", "count"}

(* What a worker may have in hand.                                           *)
Held == Messages \cup {NoMsg, Generated, EmptyBody}

Init ==
    /\ active \in Types
    /\ epoch = 0
    /\ built = {active}
    /\ pc = [w \in Workers |-> "idle"]
    /\ src = [w \in Workers |-> active]
    /\ ep = [w \in Workers |-> 0]
    /\ msg = [w \in Workers |-> NoMsg]
    /\ off = [w \in Workers |-> 0]
    /\ run = "running"
    /\ ppc = [p \in Producers |-> "idle"]
    /\ pdst = [p \in Producers |-> active]
    /\ pmsg = [p \in Producers |-> NoMsg]
    /\ fresh = Messages
    /\ discarded = {}
    /\ pushes = [m \in Messages |-> 0]
    /\ Kafka!Init /\ Memory!Init /\ Const!Init /\ Sqs!Init
    /\ failures = 0 /\ restarts = 0

Elements(f) == {f[x] : x \in DOMAIN f}

-----------------------------------------------------------------------------
(* Conditions the code tests.                                                *)

CtxDone == run # "running"

(* isClosed(switched), for the channel of w's snapshot.                      *)
Switched(w) == epoch > ep[w]

(* childCtx of dequeueUntilSwitch is done.                                   *)
ChildDone(w) == CtxDone \/ Switched(w)

Fail ==
    /\ failures < MaxFailures
    /\ failures' = failures + 1

(* Every way a worker's step may go on.                                      *)
Go(w, label) == pc' = [pc EXCEPT ![w] = label]

Take(w, m, o) ==
    /\ Go(w, "push")
    /\ msg' = [msg EXCEPT ![w] = m]
    /\ off' = [off EXCEPT ![w] = o]
    /\ UNCHANGED <<src, ep>>

Drop(w) ==
    /\ Go(w, "idle")
    /\ msg' = [msg EXCEPT ![w] = NoMsg]
    /\ UNCHANGED <<src, ep, off>>

Stay(w, label) == Go(w, label) /\ UNCHANGED <<src, ep, msg, off>>

-----------------------------------------------------------------------------
(* The worker loop.                                                          *)

(* worker: ctx is live and awaitToken granted a token.                       *)
StartCycle(w) ==
    /\ pc[w] = "idle"
    /\ ~CtxDone
    /\ Stay(w, "snap")
    /\ UNCHANGED <<switchVars, run, producerVars, pushes, backendVars, boundVars>>

Exit(w) ==
    /\ pc[w] = "idle"
    /\ CtxDone
    /\ Stay(w, "exited")
    /\ UNCHANGED <<switchVars, run, producerVars, pushes, backendVars, boundVars>>

(* Dequeue: the active queue and its channel, read under one lock.           *)
Snapshot(w) ==
    /\ pc[w] = "snap"
    /\ Go(w, "recv")
    /\ src' = [src EXCEPT ![w] = active]
    /\ ep' = [ep EXCEPT ![w] = epoch]
    /\ UNCHANGED <<switchVars, msg, off, run, producerVars, pushes, backendVars, boundVars>>

(* active.Dequeue(childCtx), one action per backend.  A select with both     *)
(* cases ready picks either, so a message may be received although childCtx  *)
(* is done.                                                                  *)
KafkaReceive(w) ==
    /\ pc[w] = "recv" /\ src[w] = "kafka"
    /\ Kafka!Receive
    /\ IF Kafka!Record \in Poison
         THEN Stay(w, "failed")
         ELSE Take(w, Kafka!Record, fetch)
    /\ UNCHANGED <<switchVars, run, producerVars, pushes, memoryVars, constVars, status, boundVars>>

MemoryReceive(w) ==
    /\ pc[w] = "recv" /\ src[w] = "inmemory"
    /\ Memory!Receive
    /\ Take(w, Head(ch), 0)
    /\ UNCHANGED <<switchVars, run, producerVars, pushes, kafkaVars, constVars, status, boundVars>>

(* constant: the query is read once; if it is empty, the worker waits for    *)
(* `ready` and reads it again.                                               *)
Body(q) == IF q = NoQuery THEN EmptyBody ELSE Generated

ConstReceive(w) ==
    /\ pc[w] = "recv" /\ src[w] = "constant"
    /\ IF query = NoQuery
         THEN Stay(w, "await")
         ELSE Take(w, Body(query), 0)
    /\ UNCHANGED <<switchVars, run, producerVars, pushes, backendVars, boundVars>>

ConstReady(w) ==
    /\ pc[w] = "await"
    /\ ready
    /\ Take(w, Body(query), 0)
    /\ UNCHANGED <<switchVars, run, producerVars, pushes, backendVars, boundVars>>

(* sqs: of the received batch only the first message is used.                *)
SqsReceive(w) ==
    /\ pc[w] = "recv" /\ src[w] = "sqs"
    /\ \E S \in Sqs!Batches :
         /\ Sqs!Receive(S)
         /\ \E m \in S : IF m \in Poison THEN Stay(w, "failed") ELSE Take(w, m, 0)
    /\ UNCHANGED <<switchVars, run, producerVars, pushes, kafkaVars, memoryVars, constVars, boundVars>>

(* sqs: ReceiveMessage fails; the service may have handed out a batch whose  *)
(* answer is lost.                                                           *)
SqsReceiveFails(w) ==
    /\ pc[w] = "recv" /\ src[w] = "sqs"
    /\ \/ ChildDone(w) /\ Stay(w, "cancelled") /\ UNCHANGED failures
       \/ Fail /\ Stay(w, "failed")
    /\ UNCHANGED status \/ \E S \in Sqs!Batches : Sqs!Receive(S)
    /\ UNCHANGED <<switchVars, run, producerVars, pushes, kafkaVars, memoryVars, constVars, restarts>>

(* Mutant: the constant queue's select leaves out <-ctx.Done().              *)
CancelledUnlessAwaiting(w) ==
    /\ pc[w] = "recv" /\ src[w] \in {"kafka", "inmemory"}
    /\ ChildDone(w)
    /\ Stay(w, "cancelled")
    /\ UNCHANGED <<switchVars, run, producerVars, pushes, backendVars, boundVars>>

(* The select takes <-ctx.Done().                                            *)
Cancelled(w) ==
    /\ \/ pc[w] = "recv" /\ src[w] \in {"kafka", "inmemory"}
       \/ pc[w] = "await"
    /\ ChildDone(w)
    /\ Stay(w, "cancelled")
    /\ UNCHANGED <<switchVars, run, producerVars, pushes, backendVars, boundVars>>

(* Dequeue has an error in hand: return it (and Consume returns it), or, if  *)
(* the backend was switched meanwhile, start over.                           *)
Retry(w) ==
    /\ pc[w] \in {"cancelled", "failed"}
    /\ ~CtxDone /\ Switched(w)
    /\ Stay(w, "snap")
    /\ UNCHANGED <<switchVars, run, producerVars, pushes, backendVars, boundVars>>

(* Mutant: Dequeue does not look at `switched` before it returns an error.   *)
ReturnAnyError(w) ==
    /\ pc[w] \in {"cancelled", "failed"}
    /\ Stay(w, "idle")
    /\ UNCHANGED <<switchVars, run, producerVars, pushes, backendVars, boundVars>>

ReturnError(w) ==
    /\ pc[w] \in {"cancelled", "failed"}
    /\ CtxDone \/ ~Switched(w)
    /\ Stay(w, "idle")
    /\ UNCHANGED <<switchVars, run, producerVars, pushes, backendVars, boundVars>>

-----------------------------------------------------------------------------
(* Consume, after Dequeue.                                                   *)

(* Counting confirmed pushes stops at PushCap.                               *)
PushCap == MaxRestarts + 2

(* target.Push confirms.                                                     *)
PushOk(w) ==
    /\ pc[w] = "push"
    /\ Stay(w, "ack")
    /\ IF msg[w] \in Messages /\ pushes[msg[w]] < PushCap
         THEN pushes' = [pushes EXCEPT ![msg[w]] = @ + 1]
         ELSE UNCHANGED pushes
    /\ UNCHANGED <<switchVars, run, producerVars, backendVars, boundVars>>

(* Mutant: Consume acks although the push failed.                            *)
PushFailsThenAck(w) ==
    /\ pc[w] = "push"
    /\ Fail
    /\ Stay(w, "ack")
    /\ UNCHANGED <<switchVars, run, producerVars, pushes, backendVars, restarts>>

(* target.Push fails, at the latest because ctx is done: Consume returns and *)
(* the worker forgets the message.                                           *)
PushFails(w) ==
    /\ pc[w] = "push"
    /\ \/ CtxDone /\ UNCHANGED failures
       \/ Fail
    /\ Drop(w)
    /\ UNCHANGED <<switchVars, run, producerVars, pushes, backendVars, restarts>>

(* Mutant: the active queue acks the message, whichever queue it came from.  *)
AckOfActive(w) ==
    CASE active = "kafka" -> Kafka!MarkOffset(off[w]) /\ UNCHANGED status
      [] active = "sqs" /\ msg[w] \in Messages -> Sqs!Delete(msg[w]) /\ UNCHANGED kafkaVars
      [] OTHER            -> UNCHANGED <<kafkaVars, status>>

(* The message's own Ack closure, which Kafka's and SQS's Ack both call:     *)
(* messages of the other two backends carry none.                            *)
AckClosure(w) ==
    CASE src[w] = "kafka" -> Kafka!MarkOffset(off[w]) /\ UNCHANGED status
      [] src[w] = "sqs"   -> Sqs!Delete(msg[w]) /\ UNCHANGED kafkaVars
      [] OTHER            -> UNCHANGED <<kafkaVars, status>>

(* Queue.Ack: the call goes to the queue that is active now, which need not  *)
(* be the one the message came from.                                         *)
Ack(w) ==
    /\ pc[w] = "ack"
    /\ CASE active \in {"kafka", "sqs"} -> AckClosure(w) /\ UNCHANGED memoryVars
         [] active = "inmemory"         -> Memory!Ack /\ UNCHANGED <<kafkaVars, status>>
         [] active = "constant"         -> UNCHANGED <<kafkaVars, memoryVars, status>>
    /\ Drop(w)
    /\ UNCHANGED <<switchVars, run, producerVars, pushes, constVars, boundVars>>

(* DeleteMessage returns an error; it may have deleted the message.          *)
AckFails(w) ==
    /\ pc[w] = "ack"
    /\ active \in {"kafka", "sqs"} /\ src[w] = "sqs"
    /\ Fail
    /\ Sqs!Delete(msg[w]) \/ UNCHANGED status
    /\ Drop(w)
    /\ UNCHANGED <<switchVars, run, producerVars, pushes, kafkaVars, memoryVars, constVars, restarts>>

-----------------------------------------------------------------------------
(* Create and Enqueue.                                                       *)

(* Create draws a new id; Queue.Enqueue reads the active queue.              *)
Create(p, m) ==
    /\ ppc[p] = "idle"
    /\ m \in fresh \ Poison
    /\ fresh' = fresh \ {m}
    /\ ppc' = [ppc EXCEPT ![p] = IF active = "inmemory" THEN "send" ELSE "enqueue"]
    /\ pdst' = [pdst EXCEPT ![p] = active]
    /\ pmsg' = [pmsg EXCEPT ![p] = m]
    /\ UNCHANGED <<switchVars, workerVars, run, discarded, pushes, backendVars, boundVars>>

Enqueued(p) ==
    /\ ppc' = [ppc EXCEPT ![p] = "idle"]
    /\ pmsg' = [pmsg EXCEPT ![p] = NoMsg]
    /\ UNCHANGED <<pdst, fresh>>

(* Publish or SendMessage; when it returns an error the broker may still     *)
(* have stored the message.                                                  *)
EnqueueRemote(p) ==
    /\ ppc[p] = "enqueue"
    /\ CASE pdst[p] = "kafka"    -> /\ Kafka!Publish(pmsg[p])
                                    /\ UNCHANGED <<memoryVars, constVars, status>>
         [] pdst[p] = "sqs"      -> /\ Sqs!Send(pmsg[p])
                                    /\ UNCHANGED <<kafkaVars, memoryVars, constVars>>
         [] OTHER                -> FALSE
    /\ failures' = failures \/ Fail
    /\ Enqueued(p)
    /\ UNCHANGED <<switchVars, workerVars, run, discarded, pushes, restarts>>

EnqueueRemoteFails(p) ==
    /\ ppc[p] = "enqueue" /\ pdst[p] \in {"kafka", "sqs"}
    /\ Fail
    /\ discarded' = discarded \cup {pmsg[p]}
    /\ Enqueued(p)
    /\ UNCHANGED <<switchVars, workerVars, run, pushes, backendVars, restarts>>

(* constant.Enqueue answers with the id and keeps nothing.                   *)
EnqueueConst(p) ==
    /\ ppc[p] = "enqueue" /\ pdst[p] = "constant"
    /\ discarded' = discarded \cup {pmsg[p]}
    /\ Enqueued(p)
    /\ UNCHANGED <<switchVars, workerVars, run, pushes, backendVars, boundVars>>

MemorySend(p) ==
    /\ ppc[p] = "send"
    /\ Memory!Send(pmsg[p])
    /\ ppc' = [ppc EXCEPT ![p] = "count"]
    /\ pmsg' = [pmsg EXCEPT ![p] = NoMsg]
    /\ UNCHANGED <<switchVars, workerVars, run, pdst, fresh, discarded, pushes>>
    /\ UNCHANGED <<kafkaVars, constVars, status, boundVars>>

MemoryCount(p) ==
    /\ ppc[p] = "count"
    /\ Memory!Count
    /\ Enqueued(p)
    /\ UNCHANGED <<switchVars, workerVars, run, discarded, pushes>>
    /\ UNCHANGED <<kafkaVars, constVars, status, boundVars>>

(* Another program writes a record this one cannot unmarshal.                *)
ExternalWrite(m) ==
    /\ m \in fresh \cap Poison
    /\ fresh' = fresh \ {m}
    /\ \/ "kafka" \in Types /\ Kafka!Publish(m) /\ UNCHANGED status
       \/ "sqs" \in Types /\ Sqs!Send(m) /\ UNCHANGED kafkaVars
    /\ UNCHANGED <<switchVars, workerVars, run, ppc, pdst, pmsg, discarded, pushes>>
    /\ UNCHANGED <<memoryVars, constVars, boundVars>>

-----------------------------------------------------------------------------
(* SetType and SetQuery, from the HTTP handlers.                             *)

(* Mutant: every request builds a new instance, nothing is cached.           *)
BuildUncached(t) ==
    /\ t \in Types \ {active}
    /\ built' = built \cup {t}
    /\ IF t = "kafka" THEN Kafka!Open ELSE UNCHANGED kafkaVars
    /\ IF t = "inmemory" THEN Memory!New ELSE UNCHANGED memoryVars
    /\ UNCHANGED <<active, epoch, workerVars, run, producerVars, pushes, constVars, status, boundVars>>

(* instance: the first request for a type builds its backend and caches it.  *)
(* A constructor that fails changes nothing.                                 *)
Build(t) ==
    /\ t \in Types \ built
    /\ built' = built \cup {t}
    /\ IF t = "kafka" THEN Kafka!Open ELSE UNCHANGED kafkaVars
    /\ IF t = "inmemory" THEN Memory!New ELSE UNCHANGED memoryVars
    /\ UNCHANGED <<active, epoch, workerVars, run, producerVars, pushes, constVars, status, boundVars>>

(* Mutant: the old `switched` channel is replaced but never closed.          *)
SwapSilently(t) ==
    /\ t \in built
    /\ t # active
    /\ active' = t
    /\ UNCHANGED <<epoch, built, workerVars, run, producerVars, pushes, backendVars, boundVars>>

(* The rest of SetType, under the lock; the current type is left alone.      *)
Swap(t) ==
    /\ t \in built
    /\ t # active
    /\ epoch < MaxSwitches
    /\ active' = t
    /\ epoch' = epoch + 1
    /\ UNCHANGED <<built, workerVars, run, producerVars, pushes, backendVars, boundVars>>

StoreQuery(q) ==
    /\ "constant" \in Types
    /\ Const!StoreQuery(q)
    /\ q # query
    /\ UNCHANGED <<switchVars, workerVars, run, producerVars, pushes>>
    /\ UNCHANGED <<kafkaVars, memoryVars, status, boundVars>>

CloseReady ==
    /\ Const!CloseReady
    /\ UNCHANGED <<switchVars, workerVars, run, producerVars, pushes>>
    /\ UNCHANGED <<kafkaVars, memoryVars, status, boundVars>>

-----------------------------------------------------------------------------
(* The service's side of SQS, and the life of the process.                   *)

Expire(m) ==
    /\ Sqs!Expire(m)
    /\ UNCHANGED <<switchVars, workerVars, run, producerVars, pushes>>
    /\ UNCHANGED <<kafkaVars, memoryVars, constVars, boundVars>>

StopBegins ==
    /\ run = "running"
    /\ run' = "stopping"
    /\ UNCHANGED <<switchVars, workerVars, producerVars, pushes, backendVars, boundVars>>

(* wg.Wait returned: every worker has left its loop.                         *)
StopReturns ==
    /\ run = "stopping"
    /\ \A w \in Workers : pc[w] = "exited"
    /\ run' = "stopped"
    /\ UNCHANGED <<switchVars, workerVars, producerVars, pushes, backendVars, boundVars>>

(* The process dies, after Stop or in the middle of anything, and a new one  *)
(* starts with the queue its config names.  What only memory held is gone.   *)
Restart ==
    /\ restarts < MaxRestarts
    /\ restarts' = restarts + 1
    /\ active' \in Types
    /\ epoch' = 0
    /\ built' = {active'}
    /\ pc' = [w \in Workers |-> "idle"]
    /\ msg' = [w \in Workers |-> NoMsg]
    /\ src' = [w \in Workers |-> active']
    /\ ep' = [w \in Workers |-> 0]
    /\ off' = [w \in Workers |-> 0]
    /\ run' = "running"
    /\ ppc' = [p \in Producers |-> "idle"]
    /\ pmsg' = [p \in Producers |-> NoMsg]
    /\ pdst' = [p \in Producers |-> active']
    /\ discarded' = discarded \cup (Elements(pmsg) \ {NoMsg})
    /\ Kafka!Open /\ Memory!New /\ Const!New
    /\ UNCHANGED <<fresh, pushes, status, failures>>

-----------------------------------------------------------------------------
Receive(w) ==
    KafkaReceive(w) \/ MemoryReceive(w) \/ ConstReceive(w) \/ SqsReceive(w)

CycleStep(w) ==
    \/ StartCycle(w) \/ Exit(w) \/ Snapshot(w)
    \/ Receive(w) \/ ConstReady(w) \/ SqsReceiveFails(w) \/ Cancelled(w)
    \/ Retry(w) \/ ReturnError(w)
    \/ PushOk(w) \/ PushFails(w) \/ Ack(w) \/ AckFails(w)

EnqueueStep(p) ==
    \/ EnqueueRemote(p) \/ EnqueueRemoteFails(p) \/ EnqueueConst(p)
    \/ MemorySend(p) \/ MemoryCount(p)

Next ==
    \/ \E w \in Workers : CycleStep(w)
    \/ \E p \in Producers : EnqueueStep(p) \/ \E m \in Messages : Create(p, m)
    \/ \E m \in Messages : ExternalWrite(m) \/ Expire(m)
    \/ \E t \in Types : Build(t) \/ Swap(t)
    \/ \E q \in Queries : StoreQuery(q)
    \/ CloseReady \/ StopBegins \/ StopReturns \/ Restart

Spec == Init /\ [][Next]_vars

(* The scheduler runs every goroutine that can run, the limiter keeps        *)
(* granting tokens and the target answers every push, one way or the other;  *)
(* nobody has to create messages, switch, stop or restart.                   *)
FairSpec ==
    /\ Spec
    /\ \A w \in Workers : WF_vars(CycleStep(w))
    /\ \A p \in Producers : WF_vars(EnqueueStep(p))
    /\ WF_vars(CloseReady) /\ WF_vars(StopReturns)

-----------------------------------------------------------------------------
(* Properties.                                                               *)

Confirmed == {m \in Messages : pushes[m] > 0}

SwitchTypeOK ==
    /\ active \in Types
    /\ epoch \in 0..MaxSwitches
    /\ built \subseteq Types /\ active \in built

WorkerTypeOK ==
    /\ pc \in [Workers -> WorkerPcs]
    /\ src \in [Workers -> Types]
    /\ ep \in [Workers -> 0..MaxSwitches]
    /\ msg \in [Workers -> Held]
    /\ off \in [Workers -> Nat]
    /\ run \in {"running", "stopping", "stopped"}

ProducerTypeOK ==
    /\ ppc \in [Producers -> ProducerPcs]
    /\ pdst \in [Producers -> Types]
    /\ pmsg \in [Producers -> Messages \cup {NoMsg}]
    /\ fresh \subseteq Messages
    /\ discarded \subseteq Messages

BoundTypeOK ==
    /\ pushes \in [Messages -> 0..PushCap]
    /\ failures \in 0..MaxFailures
    /\ restarts \in 0..MaxRestarts

TypeOK ==
    /\ SwitchTypeOK /\ WorkerTypeOK /\ ProducerTypeOK /\ BoundTypeOK
    /\ Kafka!TypeOK /\ Memory!TypeOK /\ Const!TypeOK /\ Sqs!TypeOK

(* Records that Kafka handed to a worker which neither has them any more nor *)
(* got them confirmed, though they can be read.                              *)
HandedOut == {log[i] : i \in 1..fetch}
GivenUp   == HandedOut \ (Confirmed \cup Poison \cup Elements(msg))

(* Workers that Stop may have cut off in the middle of a push.               *)
Leaving == {w \in Workers : CtxDone /\ pc[w] \in {"idle", "exited"}}

(* What a backend is told to forget.  SQS deletes a message only after the   *)
(* target confirmed it.  A Kafka offset settles every earlier record too:    *)
(* the last one, which the offset was marked for, is confirmed, and none is  *)
(* settled before it was handed to a worker.  So what an offset settles is   *)
(* confirmed, or cannot be read, or is still in a worker's hands, or was     *)
(* given up by one; and no more are given up than pushes failed, workers     *)
(* stop, and workers were at work when an earlier process ended.  All of it  *)
(* across switches between Dequeue and Ack, lost answers, expired visibility *)
(* timeouts and restarts.                                                    *)
SettledOrGivenUp ==
    /\ Sqs!InStatus("deleted") \subseteq Confirmed
    /\ \A x \in {marked, committed} : x <= fetch /\ (x > 0 => log[x] \in Confirmed)
    /\ Cardinality(GivenUp) <=
          failures + restarts * Cardinality(Workers) + Cardinality(Leaving)

(* Where a message that still has to be pushed can be.                       *)
InHand       == Elements(msg) \cup Elements(pmsg)
KafkaBacklog == {log[i] : i \in fetch + 1 .. Len(log)}
SqsBacklog   == Sqs!InStatus("visible") \cup Sqs!InStatus("inflight")
Backlog      == Elements(ch) \cup KafkaBacklog \cup SqsBacklog

(* While nothing fails and nothing is shut down, every message created is    *)
(* in somebody's hands, in a backend that will deliver it, or confirmed,     *)
(* however often the queue is switched away and back: only the constant      *)
(* queue discards what is enqueued on it.                                    *)
NothingLostWithoutFailure ==
    failures = 0 /\ restarts = 0 /\ run = "running" =>
        Messages \ Poison \subseteq
            fresh \cup discarded \cup InHand \cup Backlog \cup Confirmed

(* No message is lost for good: each is in somebody's hands, will be handed  *)
(* out (after a restart, from Kafka's committed offset), or is confirmed.    *)
(* The README promises it of every queue when a push or an ack fails.  It    *)
(* holds for SQS, and for Kafka with one worker whose pushes all succeed.    *)
Recoverable == Elements(ch) \cup {log[i] : i \in Kafka!Larger(committed, 0) + 1 .. Len(log)}
                            \cup SqsBacklog
NoMessageLost ==
    Messages \ Poison \subseteq
        fresh \cup discarded \cup InHand \cup Recoverable \cup Confirmed

(* The same promise as a contract: what is settled, the deleted SQS messages *)
(* and the whole committed prefix of Kafka's log, only ever grows by         *)
(* confirmed messages.                                                       *)
Settled == (Sqs!InStatus("deleted") \cup {log[i] : i \in 1..committed}) \ Poison
Contract == INSTANCE AtLeastOnce
                WITH accepted <- Messages \ (fresh \cup Poison),
                     confirmed <- Confirmed, settled <- Settled
ImplementsAtLeastOnce == Contract!Spec

(* What the lag poller publishes as the size of the active queue follows what *)
(* is still to be pushed, until a switch, a failure, a restart or Stop.  The  *)
(* counter of the in-memory queue and its channel differ by what is in hand   *)
(* and by the sends still to be counted.  Kafka's lag differs from the        *)
(* records neither confirmed nor unreadable by what is in hand, by the        *)
(* unreadable ones, and by the one that the missing offset adds while nothing *)
(* is acked.  (All of it matters: a message whose push failed stays counted,  *)
(* after a switch Ack lowers the counter for another backend's message, and a *)
(* later record's offset hides an earlier one that failed.)                   *)
Carrying == Cardinality({w \in Workers : msg[w] # NoMsg})
Unpushed == Cardinality({i \in 1..Len(log) : log[i] \notin Confirmed \cup Poison})
Unreadable == Cardinality({i \in 1..Len(log) : log[i] \in Poison})
NothingMarked == IF marked = Kafka!NoOffset THEN 1 ELSE 0

SizeAgrees ==
    epoch = 0 /\ failures = 0 /\ restarts = 0 /\ run = "running" =>
        /\ active = "inmemory" =>
             size = Len(ch) + Carrying - Cardinality({p \in Producers : ppc[p] = "count"})
        /\ active = "kafka" =>
             /\ Kafka!Size >= Unpushed - Carrying + NothingMarked
             /\ Kafka!Size <= Unpushed + Carrying + Unreadable + NothingMarked

(* A process delivers a message at most once, whatever is switched, unless   *)
(* SQS makes it visible again: more often than the process was started, no   *)
(* Kafka or in-memory message is confirmed.                                  *)
OncePerProcess ==
    \A m \in Messages : status[m] = "absent" => pushes[m] <= restarts + 1

(* The constant queue never hands out a message without a query, although    *)
(* the query is stored before, and outside the lock of, the close of `ready`.*)
ConstantHasBody == \A w \in Workers : msg[w] # EmptyBody

(* The cancellation that a switch sends to a parked Dequeue stays inside     *)
(* Dequeue: a caller sees a cancellation error only when its own context is  *)
(* done.                                                                     *)
SwitchIsInvisible ==
    [][\A w \in Workers :
         pc[w] = "cancelled" /\ pc'[w] = "idle" /\ restarts' = restarts => CtxDone]_vars

(* Stop ends: every worker, wherever it is parked, sees the cancelled        *)
(* context, and none is left when Stop returns.                              *)
StopQuiesces == run = "stopping" ~> run # "stopping"

(* A message waiting in the active Kafka or in-memory queue is pushed and    *)
(* confirmed, as long as nothing fails and that queue stays active.          *)
Waiting(t) == IF t = "kafka" THEN KafkaBacklog \ Poison ELSE Elements(ch)
Undisturbed(t) == active = t /\ failures = 0 /\ restarts = 0 /\ run = "running"
EventuallyPushed ==
    \A m \in Messages : \A t \in Types \cap {"kafka", "inmemory"} :
        m \in Waiting(t) /\ Undisturbed(t) ~> m \in Confirmed \/ ~Undisturbed(t)

(* A producer blocked on the full in-memory channel gets through while the   *)
(* workers drain it.                                                         *)
EnqueueReturns ==
    \A p \in Producers :
        ppc[p] = "send" ~> ppc[p] # "send" \/ ~Undisturbed("inmemory")
=============================================================================
