---------------------------- MODULE Delivery_proofs ----------------------------
(****************************************************************************)
(* Proofs about Delivery, for any number of workers, producers and messages, *)
(* any set of backends and any bounds, unless a theorem says so: types, what *)
(* a backend may be told to forget, what becomes of every message, and that  *)
(* the contract of AtLeastOnce is kept.                                      *)
(****************************************************************************)
EXTENDS Delivery, SequenceTheorems, FiniteSetTheorems, TLAPS

(* The message in the hands of a worker that pushes or acks, and of a        *)
(* producer that has not handed it over, is what the step that follows       *)
(* needs; TypeOK alone does not say so and is not inductive.                 *)
Holding(w) == pc[w] \in {"push", "ack"}
HeldOK(w) ==
    /\ pc[w] = "await" => src[w] = "constant"
    /\ Holding(w) =>
        /\ src[w] = "sqs" => msg[w] \in Messages
        /\ src[w] = "kafka" => /\ msg[w] \in Messages
                               /\ off[w] < Len(log)
                               /\ log[off[w] + 1] = msg[w]
WorkersHold   == \A w \in Workers : HeldOK(w)
ProducersHold == \A p \in Producers : ppc[p] \in {"enqueue", "send"} => pmsg[p] \in Messages

USE DeliveryAssumption, BackendAssumption

-----------------------------------------------------------------------------
(* Frames: what each group of steps leaves alone.                            *)

(* The steps that belong to neither a worker nor a producer.                 *)
OtherStep ==
    \/ \E m \in Messages : ExternalWrite(m) \/ Expire(m)
    \/ \E t \in Types : Build(t) \/ Swap(t)
    \/ \E q \in Queries : StoreQuery(q)
    \/ CloseReady \/ StopBegins \/ StopReturns

CreateStep(p) == \E m \in Messages : Create(p, m)

LEMMA NextCases ==
    ASSUME [Next]_vars
    PROVE  \/ \E w \in Workers : CycleStep(w)
           \/ \E p \in Producers : EnqueueStep(p) \/ CreateStep(p)
           \/ OtherStep \/ Restart \/ UNCHANGED vars
BY DEF Next, OtherStep, CreateStep

LEMMA CycleFrame ==
    ASSUME SwitchTypeOK, NEW w \in Workers, CycleStep(w)
    PROVE  UNCHANGED <<switchVars, run, producerVars, query, ready, closing, log, restarts>>
<1> USE DEF kafkaVars, memoryVars, constVars, backendVars, boundVars, producerVars
<1>1. CASE StartCycle(w) \/ Exit(w) \/ Snapshot(w) \/ Cancelled(w) \/ Retry(w) \/ ReturnError(w)
  BY <1>1, Zenon DEF StartCycle, Exit, Snapshot, Cancelled, Retry, ReturnError
<1>2. CASE KafkaReceive(w)
  BY <1>2 DEF KafkaReceive, Kafka!Receive
<1>3. CASE MemoryReceive(w) \/ ConstReceive(w) \/ ConstReady(w)
  BY <1>3 DEF MemoryReceive, ConstReceive, ConstReady
<1>4. CASE SqsReceive(w) \/ SqsReceiveFails(w)
  BY <1>4, Zenon DEF SqsReceive, SqsReceiveFails
<1>5. CASE PushOk(w) \/ PushFails(w) \/ AckFails(w)
  BY <1>5, Zenon DEF PushOk, PushFails, AckFails
<1>6. CASE Ack(w)
  <2>1. UNCHANGED <<switchVars, run, producerVars, constVars, boundVars>>
    BY <1>6, Zenon DEF Ack
  <2>2. log' = log
    BY <1>6 DEF SwitchTypeOK, AllTypes, Ack, AckClosure, Kafka!MarkOffset
  <2> QED
    BY <2>1, <2>2
<1> QED
  BY <1>1, <1>2, <1>3, <1>4, <1>5, <1>6 DEF CycleStep, Receive

LEMMA EnqueueFrame ==
    ASSUME NEW p \in Producers, EnqueueStep(p) \/ CreateStep(p)
    PROVE  UNCHANGED <<switchVars, workerVars, run, pushes, constVars, restarts>>
BY DEF EnqueueStep, CreateStep, EnqueueRemote, EnqueueRemoteFails, EnqueueConst, MemorySend,
   MemoryCount, Create, constVars, backendVars, boundVars

LEMMA OtherFrame ==
    ASSUME OtherStep
    PROVE  UNCHANGED <<workerVars, ppc, pdst, pmsg, discarded, pushes, boundVars>>
BY DEF OtherStep, ExternalWrite, Expire, Build, Swap, StoreQuery, CloseReady, StopBegins,
   StopReturns, producerVars

-----------------------------------------------------------------------------
(* The switch: only Build, Swap and Restart touch it.                        *)
LEMMA SwitchTyped ==
    ASSUME SwitchTypeOK, [Next]_vars
    PROVE  SwitchTypeOK'
<1> USE DEF SwitchTypeOK, switchVars
<1>1. CASE OtherStep
  BY <1>1 DEF OtherStep, ExternalWrite, Expire, Build, Swap, StoreQuery, CloseReady,
     StopBegins, StopReturns
<1>2. CASE Restart
  BY <1>2 DEF Restart
<1>3. CASE UNCHANGED switchVars
  BY <1>3
<1> QED
  BY <1>1, <1>2, <1>3, NextCases, CycleFrame, EnqueueFrame DEF vars

(* The workers.                                                              *)
LEMMA WorkersTyped ==
    ASSUME SwitchTypeOK, WorkerTypeOK, Kafka!TypeOK, Memory!TypeOK, [Next]_vars
    PROVE  WorkerTypeOK'
<1> USE DEF SwitchTypeOK, WorkerTypeOK, WorkerPcs, Held, Stay, Go, Take, Drop, workerVars
<1>1. ASSUME NEW w \in Workers,
             StartCycle(w) \/ Exit(w) \/ Cancelled(w) \/ Retry(w) \/ ReturnError(w)
                \/ PushOk(w) \/ PushFails(w) \/ Ack(w) \/ AckFails(w) \/ SqsReceiveFails(w)
      PROVE  WorkerTypeOK'
  BY <1>1 DEF StartCycle, Exit, Cancelled, Retry, ReturnError, PushOk, PushFails, Ack, AckFails,
     SqsReceiveFails
<1>2. ASSUME NEW w \in Workers, Snapshot(w) PROVE WorkerTypeOK'
  BY <1>2 DEF Snapshot
<1>3. ASSUME NEW w \in Workers, KafkaReceive(w) PROVE WorkerTypeOK'
  <2>1. Kafka!Record \in Messages /\ fetch \in Nat
    BY <1>3 DEF KafkaReceive, Kafka!Receive, Kafka!HasRecord, Kafka!Record, Kafka!TypeOK
  <2> QED
    BY <1>3, <2>1 DEF KafkaReceive
<1>4. ASSUME NEW w \in Workers, MemoryReceive(w) PROVE WorkerTypeOK'
  <2>1. Head(ch) \in Messages
    BY <1>4 DEF MemoryReceive, Memory!Receive, Memory!HasMessage, Memory!TypeOK
  <2> QED
    BY <1>4, <2>1 DEF MemoryReceive
<1>5. ASSUME NEW w \in Workers, ConstReceive(w) \/ ConstReady(w) PROVE WorkerTypeOK'
  BY <1>5 DEF ConstReceive, ConstReady, Body
<1>6. ASSUME NEW w \in Workers, SqsReceive(w) PROVE WorkerTypeOK'
  <2>1. PICK m \in Messages : Stay(w, "failed") \/ Take(w, m, 0)
    BY <1>6 DEF SqsReceive, Sqs!Batches, Sqs!InStatus
  <2> QED
    BY <1>6, <2>1 DEF SqsReceive
<1>7. CASE Restart
  BY <1>7 DEF Restart
<1>8. CASE OtherStep
  BY <1>8, OtherFrame DEF OtherStep, ExternalWrite, Expire, Build, Swap, StoreQuery, CloseReady,
     StopBegins, StopReturns
<1>9. CASE UNCHANGED <<workerVars, run>>
  BY <1>9
<1> QED
  BY <1>1, <1>2, <1>3, <1>4, <1>5, <1>6, <1>7, <1>8, <1>9, NextCases, EnqueueFrame
  DEF CycleStep, Receive, vars

-----------------------------------------------------------------------------
(* Each backend moves by its own operations only.                            *)

AckOfKafka(w) == pc[w] = "ack" /\ src[w] = "kafka" /\ Kafka!MarkOffset(off[w])
AckOfSqs(w)   == pc[w] = "ack" /\ src[w] = "sqs" /\ Sqs!Delete(msg[w])

KafkaStep ==
    \/ Kafka!Receive \/ Kafka!Open
    \/ \E m \in Messages : Kafka!Publish(m)
    \/ \E w \in Workers : AckOfKafka(w)
    \/ UNCHANGED kafkaVars

MemoryStep ==
    \/ Memory!Receive \/ Memory!Count \/ Memory!Ack \/ Memory!New
    \/ \E m \in Messages : Memory!Send(m)
    \/ UNCHANGED memoryVars

SqsStep ==
    \/ \E m \in Messages : Sqs!Send(m) \/ Sqs!Expire(m)
    \/ \E S \in Sqs!Batches : Sqs!Receive(S)
    \/ \E w \in Workers : AckOfSqs(w)
    \/ UNCHANGED status

(* The step of every action, seen by the three stateful backends.            *)
LEMMA CycleOnBackends ==
    ASSUME SwitchTypeOK, NEW w \in Workers, CycleStep(w)
    PROVE  KafkaStep /\ MemoryStep /\ SqsStep
<1> USE DEF KafkaStep, MemoryStep, SqsStep, kafkaVars, memoryVars, backendVars
<1>1. CASE StartCycle(w) \/ Exit(w) \/ Snapshot(w) \/ Cancelled(w) \/ Retry(w) \/ ReturnError(w)
  BY <1>1, Zenon DEF StartCycle, Exit, Snapshot, Cancelled, Retry, ReturnError
<1>2. CASE KafkaReceive(w)
  BY <1>2, Zenon DEF KafkaReceive
<1>3. CASE MemoryReceive(w)
  BY <1>3, Zenon DEF MemoryReceive
<1>4. CASE ConstReceive(w) \/ ConstReady(w) \/ PushOk(w) \/ PushFails(w)
  BY <1>4, Zenon DEF ConstReceive, ConstReady, PushOk, PushFails
<1>5. CASE SqsReceive(w) \/ SqsReceiveFails(w)
  BY <1>5, Zenon DEF SqsReceive, SqsReceiveFails
<1>6. CASE AckFails(w)
  BY <1>6, Zenon DEF AckFails, AckOfSqs
<1>7. CASE Ack(w)
  <2> USE <1>7 DEF Ack
  <2>1. CASE active \in {"kafka", "sqs"}
    <3>1. AckClosure(w) /\ UNCHANGED memoryVars /\ pc[w] = "ack"
      BY <2>1
    <3>2. CASE src[w] = "kafka"
      BY <3>1, <3>2, Zenon DEF AckClosure, AckOfKafka
    <3>3. CASE src[w] = "sqs"
      BY <3>1, <3>3 DEF AckClosure, AckOfSqs
    <3>4. CASE src[w] \notin {"kafka", "sqs"}
      BY <3>1, <3>4 DEF AckClosure
    <3> QED
      BY <3>2, <3>3, <3>4
  <2>2. CASE active = "inmemory"
    BY <2>2
  <2>3. CASE active = "constant"
    BY <2>3
  <2> QED
    BY <2>1, <2>2, <2>3 DEF SwitchTypeOK, AllTypes
<1> QED
  BY <1>1, <1>2, <1>3, <1>4, <1>5, <1>6, <1>7 DEF CycleStep, Receive

LEMMA EnqueueOnBackends ==
    ASSUME ProducersHold, NEW p \in Producers, EnqueueStep(p) \/ CreateStep(p)
    PROVE  KafkaStep /\ MemoryStep /\ SqsStep
<1> USE DEF KafkaStep, MemoryStep, SqsStep, kafkaVars, memoryVars, backendVars
<1>1. CASE EnqueueRemote(p)
  <2>1. pmsg[p] \in Messages
    BY <1>1 DEF EnqueueRemote, ProducersHold
  <2>2. CASE pdst[p] = "kafka"
    BY <1>1, <2>1, <2>2 DEF EnqueueRemote
  <2>3. CASE pdst[p] = "sqs"
    BY <1>1, <2>1, <2>3 DEF EnqueueRemote
  <2> QED
    BY <1>1, <2>2, <2>3 DEF EnqueueRemote
<1>2. CASE EnqueueRemoteFails(p) \/ EnqueueConst(p)
  BY <1>2, Zenon DEF EnqueueRemoteFails, EnqueueConst
<1>3. CASE MemorySend(p)
  BY <1>3, Zenon DEF MemorySend, ProducersHold
<1>4. CASE MemoryCount(p)
  BY <1>4, Zenon DEF MemoryCount
<1>5. CASE CreateStep(p)
  BY <1>5, Zenon DEF CreateStep, Create
<1> QED
  BY <1>1, <1>2, <1>3, <1>4, <1>5 DEF EnqueueStep

LEMMA OtherOnBackends ==
    ASSUME OtherStep \/ Restart
    PROVE  KafkaStep /\ MemoryStep /\ SqsStep
<1> USE DEF KafkaStep, MemoryStep, SqsStep, kafkaVars, memoryVars, backendVars
<1>1. ASSUME NEW m \in Messages, ExternalWrite(m) \/ Expire(m)
      PROVE  KafkaStep /\ MemoryStep /\ SqsStep
  BY <1>1, Zenon DEF ExternalWrite, Expire
<1>2. ASSUME NEW t \in Types, Build(t)
      PROVE  KafkaStep /\ MemoryStep /\ SqsStep
  BY <1>2 DEF Build
<1>3. ASSUME NEW t \in Types, Swap(t)
      PROVE  KafkaStep /\ MemoryStep /\ SqsStep
  BY <1>3, Zenon DEF Swap
<1>4. ASSUME NEW q \in Queries, StoreQuery(q)
      PROVE  KafkaStep /\ MemoryStep /\ SqsStep
  BY <1>4, Zenon DEF StoreQuery
<1>5. CASE CloseReady \/ StopBegins \/ StopReturns
  BY <1>5, Zenon DEF CloseReady, StopBegins, StopReturns
<1>6. CASE Restart
  BY <1>6, Zenon DEF Restart
<1> QED
  BY <1>1, <1>2, <1>3, <1>4, <1>5, <1>6 DEF OtherStep

LEMMA BackendSteps ==
    ASSUME SwitchTypeOK, ProducersHold, [Next]_vars
    PROVE  KafkaStep /\ MemoryStep /\ SqsStep
<1>1. CASE UNCHANGED vars
  BY <1>1 DEF vars, backendVars, kafkaVars, memoryVars, KafkaStep, MemoryStep, SqsStep
<1> QED
  BY <1>1, NextCases, CycleOnBackends, EnqueueOnBackends, OtherOnBackends

-----------------------------------------------------------------------------
(* The backends' types, from their own steps.                                *)

(* What Append and Tail keep of a queue's type.                              *)
LEMMA AppendTyped ==
    ASSUME NEW s \in Seq(Messages), NEW m \in Messages
    PROVE  /\ Append(s, m) \in Seq(Messages)
           /\ Len(Append(s, m)) = Len(s) + 1
           /\ \A i \in 1..Len(s) : Append(s, m)[i] = s[i]
BY AppendProperties

LEMMA TailTyped ==
    ASSUME NEW s \in Seq(Messages), s # <<>>
    PROVE  /\ Tail(s) \in Seq(Messages)
           /\ Len(Tail(s)) = Len(s) - 1
BY HeadTailProperties

(* The broker's log only grows at its end.                                   *)
LogKept == Len(log) <= Len(log') /\ \A i \in 1..Len(log) : log'[i] = log[i]

LEMMA KafkaTyped ==
    ASSUME Kafka!TypeOK, WorkerTypeOK, WorkersHold, KafkaStep
    PROVE  Kafka!TypeOK' /\ LogKept
<1> USE DEF Kafka!TypeOK, Kafka!NoOffset, LogKept
<1>0. Len(log) \in Nat
  BY LenProperties
<1>1. CASE Kafka!Receive
  BY <1>0, <1>1 DEF Kafka!Receive, Kafka!HasRecord
<1>2. CASE Kafka!Open
  BY <1>0, <1>2 DEF Kafka!Open, Kafka!durableVars, Kafka!StartOffset, Kafka!Larger
<1>3. ASSUME NEW m \in Messages, Kafka!Publish(m)
      PROVE  Kafka!TypeOK' /\ LogKept
  <2>1. log' \in Seq(Messages) /\ Len(log') = Len(log) + 1 /\ \A i \in 1..Len(log) : log'[i] = log[i]
    BY <1>3, AppendTyped DEF Kafka!Publish
  <2> QED
    BY <1>0, <1>3, <2>1 DEF Kafka!Publish
<1>4. ASSUME NEW w \in Workers, AckOfKafka(w)
      PROVE  Kafka!TypeOK' /\ LogKept
  <2>1. off[w] \in Nat /\ off[w] < Len(log)
    BY <1>4 DEF AckOfKafka, WorkerTypeOK, WorkersHold, HeldOK, Holding
  <2>2. marked' \in Kafka!NoOffset..Len(log) /\ committed' \in {committed, marked'} /\ UNCHANGED <<log, fetch>>
    BY <1>0, <1>4, <2>1 DEF AckOfKafka, Kafka!MarkOffset, Kafka!Larger
  <2> QED
    BY <1>0, <2>2
<1>5. CASE UNCHANGED kafkaVars
  BY <1>0, <1>5 DEF kafkaVars
<1> QED
  BY <1>1, <1>2, <1>3, <1>4, <1>5 DEF KafkaStep

LEMMA MemoryTyped ==
    ASSUME Memory!TypeOK, MemoryStep
    PROVE  Memory!TypeOK'
<1> USE DEF Memory!TypeOK
<1>0. Len(ch) \in Nat
  BY LenProperties
<1>1. CASE Memory!Receive
  <2>1. ch' \in Seq(Messages) /\ Len(ch') = Len(ch) - 1
    BY <1>1, TailTyped DEF Memory!Receive, Memory!HasMessage
  <2> QED
    BY <1>0, <1>1, <2>1 DEF Memory!Receive
<1>2. CASE Memory!Count \/ Memory!Ack
  BY <1>2 DEF Memory!Count, Memory!Ack
<1>3. CASE Memory!New
  BY <1>3 DEF Memory!New
<1>4. ASSUME NEW m \in Messages, Memory!Send(m) PROVE Memory!TypeOK'
  <2>1. ch' \in Seq(Messages) /\ Len(ch') = Len(ch) + 1
    BY <1>4, AppendTyped DEF Memory!Send
  <2> QED
    BY <1>0, <1>4, <2>1 DEF Memory!Send
<1>5. CASE UNCHANGED memoryVars
  BY <1>5 DEF memoryVars
<1> QED
  BY <1>1, <1>2, <1>3, <1>4, <1>5 DEF MemoryStep

LEMMA SqsTyped ==
    ASSUME Sqs!TypeOK, SqsStep
    PROVE  Sqs!TypeOK'
BY DEF SqsStep, AckOfSqs, Sqs!TypeOK, Sqs!Statuses, Sqs!Send, Sqs!Expire, Sqs!Receive, Sqs!Delete

LEMMA ConstTyped ==
    ASSUME Const!TypeOK, SwitchTypeOK, [Next]_vars
    PROVE  Const!TypeOK'
<1> USE DEF Const!TypeOK
<1>1. ASSUME NEW q \in Queries, StoreQuery(q) PROVE Const!TypeOK'
  BY <1>1 DEF StoreQuery, Const!StoreQuery
<1>2. CASE CloseReady
  BY <1>2 DEF CloseReady, Const!CloseReady
<1>3. CASE Restart
  BY <1>3 DEF Restart, Const!New
<1>4. CASE UNCHANGED <<query, ready, closing>>
  BY <1>4
<1>5. ASSUME OtherStep, ~\E q \in Queries : StoreQuery(q), ~CloseReady
      PROVE  UNCHANGED <<query, ready, closing>>
  BY <1>5, Zenon DEF OtherStep, ExternalWrite, Expire, Build, Swap, StopBegins, StopReturns,
     constVars, backendVars
<1> QED
  BY <1>1, <1>2, <1>3, <1>4, <1>5, NextCases, CycleFrame, EnqueueFrame DEF vars, backendVars, constVars

-----------------------------------------------------------------------------
(* The producers, the bounds, and what workers and producers hold.           *)

LEMMA ProducersTyped ==
    ASSUME SwitchTypeOK, ProducerTypeOK, ProducersHold, [Next]_vars
    PROVE  ProducerTypeOK' /\ ProducersHold'
<1> USE DEF ProducerTypeOK, ProducersHold, ProducerPcs
<1>1. ASSUME NEW p \in Producers, EnqueueStep(p)
      PROVE  ProducerTypeOK' /\ ProducersHold'
  <2>1. CASE EnqueueRemote(p)
    BY <1>1, <2>1 DEF EnqueueRemote, Enqueued
  <2>2. CASE EnqueueRemoteFails(p) \/ EnqueueConst(p)
    BY <1>1, <2>2 DEF EnqueueRemoteFails, EnqueueConst, Enqueued
  <2>3. CASE MemorySend(p)
    BY <1>1, <2>3 DEF MemorySend
  <2>4. CASE MemoryCount(p)
    BY <1>1, <2>4 DEF MemoryCount, Enqueued
  <2> QED
    BY <1>1, <2>1, <2>2, <2>3, <2>4 DEF EnqueueStep
<1>2. ASSUME NEW p \in Producers, NEW m \in Messages, Create(p, m)
      PROVE  ProducerTypeOK' /\ ProducersHold'
  BY <1>2 DEF Create, SwitchTypeOK
<1>3. CASE OtherStep
  <2>1. UNCHANGED <<ppc, pdst, pmsg, discarded>>
    BY <1>3, OtherFrame
  <2>2. fresh' \subseteq fresh
    BY <1>3 DEF OtherStep, ExternalWrite, Expire, Build, Swap, StoreQuery, CloseReady,
       StopBegins, StopReturns, producerVars
  <2> QED
    BY <2>1, <2>2
<1>4. CASE Restart
  BY <1>4 DEF Restart, Elements
<1>5. CASE UNCHANGED producerVars
  BY <1>5 DEF producerVars
<1> QED
  BY <1>1, <1>2, <1>3, <1>4, <1>5, NextCases, CycleFrame DEF CreateStep, vars

LEMMA BoundsTyped ==
    ASSUME SwitchTypeOK, BoundTypeOK, [Next]_vars
    PROVE  /\ BoundTypeOK'
           /\ \A m \in Messages : pushes[m] <= pushes'[m]
<1> USE DEF BoundTypeOK, boundVars
<1>0. PushCap \in Nat
  BY DEF PushCap
<1>1. ASSUME NEW w \in Workers, CycleStep(w)
      PROVE  /\ failures' \in 0..MaxFailures
             /\ pushes' = pushes \/ \E m \in Messages : pushes[m] < PushCap
                                      /\ pushes' = [pushes EXCEPT ![m] = @ + 1]
  <2>1. CASE PushOk(w)
    BY <2>1 DEF PushOk
  <2>2. CASE PushFails(w) \/ AckFails(w) \/ SqsReceiveFails(w)
    BY <2>2 DEF PushFails, AckFails, SqsReceiveFails, Fail
  <2>3. CASE ~(PushOk(w) \/ PushFails(w) \/ AckFails(w) \/ SqsReceiveFails(w))
    BY <1>1, <2>3, Zenon DEF CycleStep, Receive, StartCycle, Exit, Snapshot, KafkaReceive, MemoryReceive,
       ConstReceive, SqsReceive, ConstReady, Cancelled, Retry, ReturnError, Ack
  <2> QED
    BY <2>1, <2>2, <2>3
<1>2. ASSUME NEW p \in Producers, EnqueueStep(p) \/ CreateStep(p)
      PROVE  failures' \in 0..MaxFailures
  BY <1>2 DEF EnqueueStep, CreateStep, EnqueueRemote, EnqueueRemoteFails, EnqueueConst, MemorySend,
     MemoryCount, Create, Fail
<1>3. CASE Restart
  BY <1>3 DEF Restart
<1>4. CASE UNCHANGED <<pushes, boundVars>>
  BY <1>4
<1>5. CASE \E w \in Workers : CycleStep(w)
  BY <1>0, <1>1, <1>5, CycleFrame
<1>6. CASE \E p \in Producers : EnqueueStep(p) \/ CreateStep(p)
  BY <1>2, <1>6, EnqueueFrame
<1> QED
  BY <1>3, <1>4, <1>5, <1>6, NextCases, OtherFrame DEF vars

(* A worker whose fields a step leaves alone still holds what it held.       *)
LEMMA HeldKept ==
    ASSUME NEW w \in Workers, HeldOK(w), WorkerTypeOK, Kafka!TypeOK, Kafka!TypeOK', LogKept,
           pc[w] = pc'[w], src[w] = src'[w], msg[w] = msg'[w], off[w] = off'[w]
    PROVE  HeldOK(w)'
<1>1. Len(log) \in Nat /\ Len(log') \in Nat /\ off[w] \in Nat
  BY LenProperties DEF Kafka!TypeOK, WorkerTypeOK
<1> QED
  BY <1>1 DEF HeldOK, Holding, LogKept

(* What its own step leaves in a worker's hands.                             *)
LEMMA OwnHold ==
    ASSUME SwitchTypeOK, WorkerTypeOK, Kafka!TypeOK, LogKept, WorkersHold, NEW w \in Workers, CycleStep(w)
    PROVE  HeldOK(w)'
<1> USE DEF WorkerTypeOK, WorkersHold, HeldOK, Holding, Stay, Go, Take, Drop
<1>1. CASE StartCycle(w) \/ Exit(w) \/ Snapshot(w) \/ Cancelled(w) \/ Retry(w) \/ ReturnError(w)
  BY <1>1 DEF StartCycle, Exit, Snapshot, Cancelled, Retry, ReturnError
<1>2. CASE KafkaReceive(w)
  <2>1. fetch \in Nat /\ fetch < Len(log) /\ log[fetch + 1] \in Messages /\ log' = log
    BY <1>2 DEF KafkaReceive, Kafka!Receive, Kafka!HasRecord, Kafka!TypeOK
  <2> QED
    BY <1>2, <2>1 DEF KafkaReceive, Kafka!Record
<1>3. CASE MemoryReceive(w) \/ ConstReceive(w)
  BY <1>3 DEF MemoryReceive, ConstReceive
<1>4. CASE SqsReceive(w)
  <2>1. PICK m \in Messages : Stay(w, "failed") \/ Take(w, m, 0)
    BY <1>4 DEF SqsReceive, Sqs!Batches, Sqs!InStatus
  <2> QED
    BY <1>4, <2>1 DEF SqsReceive
<1>5. CASE PushFails(w) \/ Ack(w) \/ AckFails(w) \/ SqsReceiveFails(w)
  BY <1>5 DEF PushFails, Ack, AckFails, SqsReceiveFails
<1>6. CASE PushOk(w)
  <2>1. UNCHANGED <<src, msg, off, log>> /\ pc[w] = "push" /\ pc'[w] = "ack"
    BY <1>6, CycleFrame DEF PushOk
  <2> QED
    BY <2>1
<1>7. CASE ConstReady(w)
  BY <1>7 DEF ConstReady
<1> QED
  BY <1>1, <1>2, <1>3, <1>4, <1>5, <1>6, <1>7 DEF CycleStep, Receive

(* A worker's step moves no other worker.                                    *)
LEMMA OthersKept ==
    ASSUME WorkerTypeOK, NEW w \in Workers, CycleStep(w), NEW v \in Workers, v # w
    PROVE  pc[v] = pc'[v] /\ src[v] = src'[v] /\ msg[v] = msg'[v] /\ off[v] = off'[v]
<1> USE DEF WorkerTypeOK, Stay, Go, Take, Drop
<1>1. CASE StartCycle(w) \/ Exit(w) \/ Snapshot(w) \/ Cancelled(w) \/ Retry(w) \/ ReturnError(w)
  BY <1>1 DEF StartCycle, Exit, Snapshot, Cancelled, Retry, ReturnError
<1>2. CASE KafkaReceive(w) \/ MemoryReceive(w) \/ ConstReceive(w) \/ ConstReady(w)
  BY <1>2 DEF KafkaReceive, MemoryReceive, ConstReceive, ConstReady
<1>3. CASE SqsReceive(w)
  <2>1. PICK m : Stay(w, "failed") \/ Take(w, m, 0)
    BY <1>3 DEF SqsReceive
  <2> QED
    BY <1>3, <2>1 DEF SqsReceive
<1>4. CASE PushOk(w) \/ PushFails(w) \/ Ack(w) \/ AckFails(w) \/ SqsReceiveFails(w)
  BY <1>4 DEF PushOk, PushFails, Ack, AckFails, SqsReceiveFails
<1> QED
  BY <1>1, <1>2, <1>3, <1>4 DEF CycleStep, Receive

LEMMA WorkersHeld ==
    ASSUME SwitchTypeOK, WorkerTypeOK, Kafka!TypeOK, Kafka!TypeOK', LogKept, WorkersHold, [Next]_vars
    PROVE  WorkersHold'
<1> SUFFICES ASSUME NEW v \in Workers PROVE HeldOK(v)'
  BY DEF WorkersHold
<1>0. HeldOK(v)
  BY DEF WorkersHold
<1>1. ASSUME NEW w \in Workers, CycleStep(w) PROVE HeldOK(v)'
  <2>1. CASE v = w
    BY <1>1, <2>1, OwnHold
  <2>2. CASE v # w
    <3>1. pc[v] = pc'[v] /\ src[v] = src'[v] /\ msg[v] = msg'[v] /\ off[v] = off'[v]
      BY <1>1, <2>2, OthersKept
    <3> QED
      BY <1>0, <3>1, HeldKept
  <2> QED
    BY <2>1, <2>2
<1>2. CASE UNCHANGED workerVars
  BY <1>0, <1>2, HeldKept DEF workerVars
<1>3. CASE Restart
  BY <1>3 DEF Restart, HeldOK, Holding
<1> QED
  BY <1>1, <1>2, <1>3, NextCases, EnqueueFrame, OtherFrame DEF vars

-----------------------------------------------------------------------------
(* Type correctness.                                                         *)

TypeInv == TypeOK /\ WorkersHold /\ ProducersHold

LEMMA TypeInvInit == Init => TypeInv
<1> SUFFICES ASSUME Init PROVE TypeInv
  OBVIOUS
<1> USE DEF Init
<1>1. SwitchTypeOK /\ WorkerTypeOK
  BY DEF SwitchTypeOK, WorkerTypeOK, WorkerPcs, Held
<1>2. ProducerTypeOK /\ BoundTypeOK
  BY DEF ProducerTypeOK, ProducerPcs, BoundTypeOK, PushCap
<1>3. Kafka!TypeOK /\ Memory!TypeOK
  BY DEF Kafka!Init, Kafka!TypeOK, Kafka!NoOffset, Memory!Init, Memory!TypeOK
<1>4. Const!TypeOK /\ Sqs!TypeOK
  BY DEF Const!Init, Const!TypeOK, Sqs!Init, Sqs!TypeOK, Sqs!Statuses
<1>5. WorkersHold /\ ProducersHold
  BY DEF WorkersHold, HeldOK, Holding, ProducersHold
<1> QED
  BY <1>1, <1>2, <1>3, <1>4, <1>5 DEF TypeInv, TypeOK

LEMMA TypeInvStep == TypeInv /\ [Next]_vars => TypeInv' /\ LogKept
<1> SUFFICES ASSUME TypeInv, [Next]_vars PROVE TypeInv' /\ LogKept
  OBVIOUS
<1> USE DEF TypeInv, TypeOK
<1>1. KafkaStep /\ MemoryStep /\ SqsStep
  BY BackendSteps
<1>2. Kafka!TypeOK' /\ LogKept /\ Memory!TypeOK' /\ Sqs!TypeOK' /\ Const!TypeOK'
  BY <1>1, KafkaTyped, MemoryTyped, SqsTyped, ConstTyped
<1>3. SwitchTypeOK' /\ WorkerTypeOK' /\ BoundTypeOK'
  BY SwitchTyped, WorkersTyped, BoundsTyped
<1>4. ProducerTypeOK' /\ ProducersHold'
  BY ProducersTyped
<1>5. WorkersHold'
  BY <1>2, WorkersHeld
<1> QED
  BY <1>2, <1>3, <1>4, <1>5

LEMMA TypeInvAlways == Spec => []TypeInv
<1>1. TypeInv /\ [Next]_vars => TypeInv'
  BY TypeInvStep
<1> QED
  BY TypeInvInit, <1>1, PTL DEF Spec

(* Every variable of the delivery path keeps its type; in particular Kafka's *)
(* position, mark and committed offset never pass the end of the log, and    *)
(* the in-memory channel never holds more than its capacity.                 *)
THEOREM TypeCorrect == Spec => []TypeOK
<1>1. TypeInv => TypeOK
  BY DEF TypeInv
<1> QED
  BY <1>1, TypeInvAlways, PTL

-----------------------------------------------------------------------------
(* What a backend is told to forget: the message itself was confirmed.       *)

(* What SQS deleted, and the record right before every offset that the Kafka *)
(* group committed or is about to commit.                                    *)
LastConfirmed ==
    /\ Sqs!InStatus("deleted") \subseteq Confirmed
    /\ \A x \in {marked, committed} : x > 0 => log[x] \in Confirmed

(* Between the confirmation and the ack, the worker is the only one to know. *)
AckConfirmed == \A w \in Workers : pc[w] = "ack" /\ msg[w] \in Messages => msg[w] \in Confirmed

SettledInv == TypeInv /\ AckConfirmed /\ LastConfirmed

LEMMA SettledInvInit == Init => SettledInv
<1> SUFFICES ASSUME Init PROVE SettledInv
  OBVIOUS
<1>1. AckConfirmed
  BY DEF Init, AckConfirmed
<1>2. LastConfirmed
  BY DEF Init, LastConfirmed, Kafka!Init, Kafka!NoOffset, Sqs!Init, Sqs!InStatus
<1> QED
  BY <1>1, <1>2, TypeInvInit DEF SettledInv

LEMMA ConfirmedGrows ==
    ASSUME SwitchTypeOK, BoundTypeOK, [Next]_vars
    PROVE  Confirmed \subseteq Confirmed'
<1>1. BoundTypeOK' /\ \A m \in Messages : pushes[m] <= pushes'[m]
  BY BoundsTyped
<1> QED
  BY <1>1 DEF Confirmed, BoundTypeOK, PushCap

(* Only a confirmation brings a worker to its ack.                           *)
LEMMA OnlyPushLeadsToAck ==
    ASSUME WorkerTypeOK, NEW w \in Workers, CycleStep(w), pc'[w] = "ack"
    PROVE  PushOk(w)
<1> USE DEF WorkerTypeOK, Stay, Go, Take, Drop
<1>1. ~(StartCycle(w) \/ Exit(w) \/ Snapshot(w) \/ Cancelled(w) \/ Retry(w) \/ ReturnError(w))
  BY DEF StartCycle, Exit, Snapshot, Cancelled, Retry, ReturnError
<1>2. ~(KafkaReceive(w) \/ MemoryReceive(w) \/ ConstReceive(w) \/ ConstReady(w) \/ SqsReceive(w))
  BY DEF KafkaReceive, MemoryReceive, ConstReceive, ConstReady, SqsReceive
<1>3. ~(PushFails(w) \/ Ack(w) \/ AckFails(w) \/ SqsReceiveFails(w))
  BY DEF PushFails, Ack, AckFails, SqsReceiveFails
<1> QED
  BY <1>1, <1>2, <1>3 DEF CycleStep, Receive

LEMMA AckConfirmedStep ==
    ASSUME SwitchTypeOK, WorkerTypeOK, BoundTypeOK, AckConfirmed, [Next]_vars
    PROVE  AckConfirmed'
<1> SUFFICES ASSUME NEW v \in Workers, pc'[v] = "ack", msg'[v] \in Messages
             PROVE  msg'[v] \in Confirmed'
  BY DEF AckConfirmed
<1>1. ASSUME NEW w \in Workers, CycleStep(w), v = w
      PROVE  msg'[v] \in Confirmed'
  <2>1. PushOk(v)
    BY <1>1, OnlyPushLeadsToAck
  <2>2. msg'[v] = msg[v]
    BY <2>1 DEF PushOk, Stay
  <2> QED
    BY <2>1, <2>2 DEF PushOk, Confirmed, BoundTypeOK, PushCap
<1>2. ASSUME NEW w \in Workers, CycleStep(w), v # w
      PROVE  msg'[v] \in Confirmed'
  BY <1>2, OthersKept, ConfirmedGrows DEF AckConfirmed
<1>3. CASE UNCHANGED workerVars
  BY <1>3, ConfirmedGrows DEF workerVars, AckConfirmed
<1>4. CASE Restart
  BY <1>4 DEF Restart
<1> QED
  BY <1>1, <1>2, <1>3, <1>4, NextCases, EnqueueFrame, OtherFrame DEF vars

LEMMA SettledStep ==
    ASSUME TypeInv, AckConfirmed, LastConfirmed, [Next]_vars
    PROVE  LastConfirmed'
<1> USE DEF TypeInv, TypeOK
<1>1. Confirmed \subseteq Confirmed'
  BY ConfirmedGrows
<1>2. KafkaStep /\ SqsStep
  BY BackendSteps
<1>3. Sqs!InStatus("deleted")' \subseteq Confirmed'
  <2>1. Sqs!InStatus("deleted")' \subseteq
            Sqs!InStatus("deleted") \cup {msg[w] : w \in {v \in Workers : pc[v] = "ack" /\ src[v] = "sqs"}}
    BY <1>2 DEF SqsStep, AckOfSqs, Sqs!TypeOK, Sqs!Statuses, Sqs!InStatus, Sqs!Send, Sqs!Expire,
       Sqs!Receive, Sqs!Delete
  <2>2. ASSUME NEW w \in Workers, pc[w] = "ack", src[w] = "sqs" PROVE msg[w] \in Confirmed
    BY <2>2 DEF AckConfirmed, WorkersHold, HeldOK, Holding
  <2> QED
    BY <1>1, <2>1, <2>2 DEF LastConfirmed
<1>4. LogKept /\ Len(log) \in Nat
  BY TypeInvStep, LenProperties DEF Kafka!TypeOK
<1>5. marked \in Int /\ committed \in Int /\ marked <= Len(log) /\ committed <= Len(log)
  BY <1>4 DEF Kafka!TypeOK, Kafka!NoOffset
<1>6. ASSUME NEW x \in Int, x <= Len(log), x > 0 => log[x] \in Confirmed, x > 0
      PROVE  log'[x] \in Confirmed'
  BY <1>1, <1>4, <1>6 DEF LogKept
<1>7. \A x \in {marked', committed'} :
        \/ x \in {marked, committed}
        \/ x \in Int /\ x <= Len(log) /\ (x > 0 => log[x] \in Confirmed)
  <2>1. CASE Kafka!Receive \/ Kafka!Open \/ UNCHANGED kafkaVars
    BY <2>1 DEF Kafka!Receive, Kafka!Open, Kafka!durableVars, kafkaVars
  <2>2. ASSUME NEW m \in Messages, Kafka!Publish(m)
        PROVE  marked' = marked /\ committed' = committed
    BY <2>2 DEF Kafka!Publish
  <2>3. ASSUME NEW w \in Workers, AckOfKafka(w)
        PROVE  \A x \in {marked', committed'} : x \in {marked, committed, off[w] + 1}
    BY <2>3 DEF AckOfKafka, Kafka!MarkOffset, Kafka!Larger
  <2>4. ASSUME NEW w \in Workers, AckOfKafka(w)
        PROVE  off[w] \in Nat /\ off[w] < Len(log) /\ log[off[w] + 1] \in Confirmed
    BY <2>4 DEF AckOfKafka, AckConfirmed, WorkersHold, HeldOK, Holding, WorkerTypeOK
  <2> QED
    BY <1>2, <1>4, <2>1, <2>2, <2>3, <2>4 DEF KafkaStep
<1>8. \A x \in {marked', committed'} : x > 0 => log'[x] \in Confirmed'
  BY <1>5, <1>6, <1>7 DEF LastConfirmed
<1> QED
  BY <1>3, <1>8 DEF LastConfirmed

LEMMA LastConfirmedAlways == Spec => []LastConfirmed
<1>1. SettledInv /\ [Next]_vars => SettledInv'
  BY TypeInvStep, AckConfirmedStep, SettledStep DEF SettledInv, TypeInv, TypeOK
<1>2. SettledInv => LastConfirmed
  BY DEF SettledInv
<1> QED
  BY SettledInvInit, <1>1, <1>2, PTL DEF Spec

-----------------------------------------------------------------------------
(****************************************************************************)
(* Where a message can be, that none is lost and none is pushed twice by one *)
(* process, and that the program keeps the contract of AtLeastOnce.          *)
(****************************************************************************)
USE DeliveryAssumption, BackendAssumption

-----------------------------------------------------------------------------
(* What workers and producers hold, and what a backend is before it is used. *)

(* The hands of a worker are empty unless it pushes or acks, and those of a  *)
(* producer unless it has a message to enqueue.                              *)
WorkersEmpty   == \A w \in Workers : ~Holding(w) => msg[w] = NoMsg
ProducersEmpty == \A p \in Producers : ppc[p] \notin {"enqueue", "send"} => pmsg[p] = NoMsg

(* A backend that this process has not built is as the process found it, and *)
(* nobody comes from it or goes to it.                                       *)
UsedIsBuilt ==
    /\ \A w \in Workers : src[w] \in built
    /\ \A p \in Producers :
          pdst[p] \in built /\ (ppc[p] \in {"send", "count"} => pdst[p] = "inmemory")

UnbuiltIsNew ==
    /\ "kafka" \notin built => fetch = Kafka!StartOffset(committed) /\ marked = committed
    /\ "inmemory" \notin built => ch = <<>> /\ size = 0

HandsInv == TypeInv /\ WorkersEmpty /\ ProducersEmpty /\ UsedIsBuilt /\ UnbuiltIsNew

LEMMA WorkersEmptyStep ==
    ASSUME WorkerTypeOK, WorkersEmpty, [Next]_vars
    PROVE  WorkersEmpty'
<1> USE DEF WorkerTypeOK, WorkersEmpty, Holding
<1>1. ASSUME NEW w \in Workers, CycleStep(w), ~Holding(w)' PROVE msg'[w] = NoMsg
  <2> USE DEF Stay, Go, Take, Drop
  <2>1. CASE StartCycle(w) \/ Exit(w) \/ Snapshot(w) \/ Cancelled(w) \/ Retry(w) \/ ReturnError(w)
    BY <2>1 DEF StartCycle, Exit, Snapshot, Cancelled, Retry, ReturnError
  <2>2. CASE KafkaReceive(w) \/ MemoryReceive(w) \/ ConstReceive(w) \/ ConstReady(w)
    BY <1>1, <2>2 DEF KafkaReceive, MemoryReceive, ConstReceive, ConstReady
  <2>3. CASE SqsReceive(w)
    <3>1. PICK m : Stay(w, "failed") \/ Take(w, m, 0)
      BY <2>3 DEF SqsReceive
    <3> QED
      BY <1>1, <2>3, <3>1 DEF SqsReceive
  <2>4. CASE PushFails(w) \/ Ack(w) \/ AckFails(w)
    BY <2>4 DEF PushFails, Ack, AckFails
  <2>5. CASE PushOk(w) \/ SqsReceiveFails(w)
    BY <1>1, <2>5 DEF PushOk, SqsReceiveFails
  <2> QED
    BY <1>1, <2>1, <2>2, <2>3, <2>4, <2>5 DEF CycleStep, Receive
<1>2. ASSUME NEW w \in Workers, CycleStep(w) PROVE WorkersEmpty'
  BY <1>1, <1>2, OthersKept
<1>3. CASE UNCHANGED workerVars
  BY <1>3 DEF workerVars
<1>4. CASE Restart
  BY <1>4 DEF Restart
<1> QED
  BY <1>2, <1>3, <1>4, NextCases, EnqueueFrame, OtherFrame DEF vars

LEMMA ProducersEmptyStep ==
    ASSUME SwitchTypeOK, ProducerTypeOK, ProducersEmpty, [Next]_vars
    PROVE  ProducersEmpty'
<1> USE DEF ProducerTypeOK, ProducersEmpty
<1>1. ASSUME NEW p \in Producers, EnqueueStep(p) \/ CreateStep(p) PROVE ProducersEmpty'
  BY <1>1 DEF EnqueueStep, CreateStep, EnqueueRemote, EnqueueRemoteFails, EnqueueConst, MemorySend,
     MemoryCount, Create, Enqueued
<1>2. CASE Restart
  BY <1>2 DEF Restart
<1>3. CASE UNCHANGED <<ppc, pmsg>>
  BY <1>3
<1> QED
  BY <1>1, <1>2, <1>3, NextCases, CycleFrame, OtherFrame DEF producerVars, vars

LEMMA UsedIsBuiltStep ==
    ASSUME SwitchTypeOK, WorkerTypeOK, ProducerTypeOK, UsedIsBuilt, [Next]_vars
    PROVE  UsedIsBuilt'
<1> USE DEF SwitchTypeOK, WorkerTypeOK, ProducerTypeOK, UsedIsBuilt
<1>1. ASSUME NEW w \in Workers, CycleStep(w) PROVE UsedIsBuilt'
  <2>1. CASE Snapshot(w)
    BY <2>1 DEF Snapshot, switchVars, producerVars
  <2>2. CASE ~Snapshot(w)
    <3>1. src' = src
      BY <1>1, <2>2, Zenon DEF CycleStep, Receive, StartCycle, Exit, KafkaReceive, MemoryReceive,
         ConstReceive, SqsReceive, ConstReady, SqsReceiveFails, Cancelled, Retry, ReturnError, PushOk,
         PushFails, Ack, AckFails, Stay, Take, Drop
    <3> QED
      BY <1>1, <3>1, CycleFrame DEF switchVars, producerVars
  <2> QED
    BY <2>1, <2>2
<1>2. ASSUME NEW p \in Producers, EnqueueStep(p) \/ CreateStep(p) PROVE UsedIsBuilt'
  <2>1. UNCHANGED <<switchVars, workerVars>>
    BY <1>2, EnqueueFrame
  <2>2. CASE CreateStep(p)
    BY <2>1, <2>2 DEF CreateStep, Create, switchVars, workerVars
  <2>3. CASE MemorySend(p)
    BY <2>1, <2>3 DEF MemorySend, switchVars, workerVars
  <2>4. CASE EnqueueRemote(p) \/ EnqueueRemoteFails(p) \/ EnqueueConst(p) \/ MemoryCount(p)
    BY <2>1, <2>4 DEF EnqueueRemote, EnqueueRemoteFails, EnqueueConst, MemoryCount, Enqueued, switchVars, workerVars
  <2> QED
    BY <1>2, <2>2, <2>3, <2>4 DEF EnqueueStep
<1>3. CASE OtherStep
  <2>1. built \subseteq built'
    BY <1>3 DEF OtherStep, ExternalWrite, Expire, Build, Swap, StoreQuery, CloseReady, StopBegins, StopReturns,
       switchVars
  <2> QED
    BY <1>3, <2>1, OtherFrame DEF workerVars
<1>4. CASE Restart
  BY <1>4 DEF Restart
<1>5. CASE UNCHANGED vars
  BY <1>5 DEF vars, switchVars, workerVars, producerVars
<1> QED
  BY <1>1, <1>2, <1>3, <1>4, <1>5, NextCases

LEMMA UnbuiltIsNewStep ==
    ASSUME SwitchTypeOK, UsedIsBuilt, UnbuiltIsNew, [Next]_vars
    PROVE  UnbuiltIsNew'
<1> USE DEF SwitchTypeOK, UsedIsBuilt, UnbuiltIsNew, kafkaVars, memoryVars, backendVars
<1>1. ASSUME NEW w \in Workers, CycleStep(w) PROVE UnbuiltIsNew'
  <2>1. built' = built
    BY <1>1, CycleFrame DEF switchVars
  <2>2. CASE KafkaReceive(w) \/ MemoryReceive(w)
    BY <2>1, <2>2 DEF KafkaReceive, MemoryReceive
  <2>3. CASE StartCycle(w) \/ Exit(w) \/ Snapshot(w) \/ Cancelled(w) \/ Retry(w) \/ ReturnError(w)
             \/ ConstReceive(w) \/ ConstReady(w) \/ PushOk(w) \/ PushFails(w)
    <3>1. UNCHANGED <<kafkaVars, memoryVars>>
      BY <2>3, Zenon DEF StartCycle, Exit, Snapshot, Cancelled, Retry, ReturnError, ConstReceive, ConstReady,
         PushOk, PushFails
    <3> QED
      BY <2>1, <3>1
  <2>4. CASE SqsReceive(w) \/ SqsReceiveFails(w) \/ AckFails(w)
    <3>1. UNCHANGED <<kafkaVars, memoryVars>>
      BY <2>4, Zenon DEF SqsReceive, SqsReceiveFails, AckFails
    <3> QED
      BY <2>1, <3>1
  <2>5. CASE Ack(w)
    <3>1. active = "inmemory" \/ UNCHANGED memoryVars
      BY <2>5 DEF Ack, AllTypes
    <3>2. src[w] = "kafka" \/ UNCHANGED kafkaVars
      BY <2>5 DEF Ack, AckClosure, AllTypes
    <3> QED
      BY <2>1, <3>1, <3>2
  <2> QED
    BY <1>1, <2>2, <2>3, <2>4, <2>5 DEF CycleStep, Receive
<1>2. ASSUME NEW p \in Producers, EnqueueStep(p) \/ CreateStep(p) PROVE UnbuiltIsNew'
  <2>1. built' = built
    BY <1>2, EnqueueFrame DEF switchVars
  <2>2. CASE EnqueueRemote(p)
    <3>1. UNCHANGED <<fetch, marked, committed, ch, size>>
      BY <2>2 DEF EnqueueRemote, Kafka!Publish
    <3> QED
      BY <2>1, <3>1
  <2>3. CASE MemorySend(p) \/ MemoryCount(p)
    BY <2>1, <2>3 DEF MemorySend, MemoryCount
  <2>4. CASE EnqueueRemoteFails(p) \/ EnqueueConst(p) \/ CreateStep(p)
    BY <2>1, <2>4, Zenon DEF EnqueueRemoteFails, EnqueueConst, CreateStep, Create
  <2> QED
    BY <1>2, <2>2, <2>3, <2>4 DEF EnqueueStep
<1>3. ASSUME NEW t \in Types, Build(t) PROVE UnbuiltIsNew'
  BY <1>3 DEF Build
<1>4. CASE Restart
  BY <1>4 DEF Restart, Kafka!Open, Kafka!durableVars, Memory!New, Kafka!StartOffset
<1>5. CASE OtherStep /\ ~\E t \in Types : Build(t)
  <2>1. UNCHANGED <<fetch, marked, committed, ch, size, built>>
    BY <1>5 DEF OtherStep, ExternalWrite, Expire, Swap, StoreQuery, CloseReady, StopBegins, StopReturns,
       Kafka!Publish, switchVars
  <2> QED
    BY <2>1
<1>6. CASE UNCHANGED vars
  BY <1>6 DEF vars, switchVars
<1> QED
  BY <1>1, <1>2, <1>3, <1>4, <1>5, <1>6, NextCases

(* To build a backend is to change nothing but the list of those built.      *)
LEMMA BuildKeeps ==
    ASSUME UnbuiltIsNew, NEW t \in Types, Build(t)
    PROVE  UNCHANGED <<kafkaVars, memoryVars>>
BY DEF UnbuiltIsNew, Build, Kafka!Open, Kafka!durableVars, Memory!New, kafkaVars, memoryVars

LEMMA HandsInvInit == Init => HandsInv
<1> SUFFICES ASSUME Init PROVE HandsInv
  OBVIOUS
<1>1. TypeInv
  BY TypeInvInit
<1>2. WorkersEmpty /\ ProducersEmpty /\ UsedIsBuilt
  BY DEF Init, WorkersEmpty, ProducersEmpty, UsedIsBuilt
<1>3. UnbuiltIsNew
  BY DEF Init, UnbuiltIsNew, Kafka!Init, Memory!Init, Kafka!NoOffset, Kafka!StartOffset, Kafka!Larger
<1> QED
  BY <1>1, <1>2, <1>3 DEF HandsInv

LEMMA HandsInvStep == HandsInv /\ [Next]_vars => HandsInv'
BY TypeInvStep, WorkersEmptyStep, ProducersEmptyStep, UsedIsBuiltStep, UnbuiltIsNewStep
DEF HandsInv, TypeInv, TypeOK

LEMMA HandsInvAlways == Spec => []HandsInv
<1>1. HandsInv /\ [Next]_vars => HandsInv'
  BY HandsInvStep
<1> QED
  BY HandsInvInit, <1>1, PTL DEF Spec

-----------------------------------------------------------------------------
(* What else an offset settles.                                              *)

(* Kafka has marked no offset past the records that this process received or *)
(* an earlier one committed.                                                 *)
Received ==
    /\ marked <= fetch /\ committed <= fetch
    /\ \A w \in Workers : Holding(w) /\ src[w] = "kafka" => off[w] < fetch

Losses == failures + restarts * Cardinality(Workers) + Cardinality(Leaving)

LossInv ==
    /\ HandsInv /\ AckConfirmed /\ Received
    /\ IsFiniteSet(GivenUp) /\ Cardinality(GivenUp) <= Losses

LEMMA UnionAtMost ==
    ASSUME NEW S, IsFiniteSet(S), NEW T, IsFiniteSet(T), NEW R, R \subseteq S \cup T
    PROVE  IsFiniteSet(R) /\ Cardinality(R) <= Cardinality(S) + Cardinality(T)
<1>1. IsFiniteSet(S \cup T) /\ Cardinality(S \cup T) = Cardinality(S) + Cardinality(T) - Cardinality(S \cap T)
  BY FS_Union
<1>2. Cardinality(S) \in Nat /\ Cardinality(T) \in Nat /\ Cardinality(S \cup T) \in Nat
  BY <1>1, FS_CardinalityType
<1>3. Cardinality(S \cap T) \in Nat
  BY FS_Intersection, FS_CardinalityType
<1>4. IsFiniteSet(R) /\ Cardinality(R) <= Cardinality(S \cup T) /\ Cardinality(R) \in Nat
  BY <1>1, FS_Subset, FS_CardinalityType
<1> QED
  BY <1>1, <1>2, <1>3, <1>4

LEMMA LossTypes ==
    ASSUME HandsInv
    PROVE  /\ WorkerTypeOK /\ SwitchTypeOK /\ BoundTypeOK /\ Kafka!TypeOK
           /\ Len(log) \in Nat /\ fetch \in Nat /\ fetch <= Len(log)
           /\ marked \in Int /\ committed \in Int /\ failures \in Nat /\ restarts \in Nat
           /\ \A i \in 1..Len(log) : log[i] \in Messages
           /\ \A w \in Workers : off[w] \in Nat
           /\ DOMAIN msg = Workers
BY LenProperties
DEF HandsInv, TypeInv, TypeOK, WorkerTypeOK, BoundTypeOK, Kafka!TypeOK, Kafka!NoOffset

LEMMA LossTypesStep ==
    ASSUME HandsInv, [Next]_vars
    PROVE  /\ WorkerTypeOK' /\ fetch' \in Nat /\ failures' \in Nat /\ restarts' \in Nat
           /\ DOMAIN msg' = Workers
<1>1. HandsInv'
  BY HandsInvStep
<1>2. WorkerTypeOK' /\ BoundTypeOK' /\ Kafka!TypeOK'
  BY <1>1 DEF HandsInv, TypeInv, TypeOK
<1>3. Len(log') \in Nat
  BY <1>2, LenProperties DEF Kafka!TypeOK
<1> QED
  BY <1>2, <1>3 DEF WorkerTypeOK, BoundTypeOK, Kafka!TypeOK

(* Only a receive, and the start of a process, moves the position.           *)
LEMMA FetchMoves ==
    ASSUME HandsInv, [Next]_vars, ~Restart
    PROVE  \/ fetch' = fetch
           \/ \E w \in Workers : KafkaReceive(w)
<1>1. ASSUME NEW w \in Workers, CycleStep(w), ~KafkaReceive(w) PROVE fetch' = fetch
  <2>1. CASE Ack(w)
    BY <2>1, LossTypes DEF Ack, AckClosure, Kafka!MarkOffset, kafkaVars, SwitchTypeOK, AllTypes
  <2>2. CASE ~Ack(w)
    BY <1>1, <2>2, Zenon DEF CycleStep, Receive, StartCycle, Exit, Snapshot, MemoryReceive, ConstReceive,
       SqsReceive, ConstReady, SqsReceiveFails, Cancelled, Retry, ReturnError, PushOk, PushFails,
       AckFails, kafkaVars, backendVars
  <2> QED
    BY <2>1, <2>2
<1>2. ASSUME NEW p \in Producers, EnqueueStep(p) \/ CreateStep(p) PROVE fetch' = fetch
  BY <1>2 DEF EnqueueStep, CreateStep, EnqueueRemote, EnqueueRemoteFails, EnqueueConst, MemorySend,
     MemoryCount, Create, Kafka!Publish, kafkaVars, backendVars
<1>3. ASSUME NEW t \in Types, Build(t) PROVE fetch' = fetch
  BY <1>3, BuildKeeps DEF HandsInv, kafkaVars
<1>4. CASE OtherStep /\ ~\E t \in Types : Build(t)
  BY <1>4 DEF OtherStep, ExternalWrite, Expire, Swap, StoreQuery, CloseReady, StopBegins, StopReturns,
     Kafka!Publish, kafkaVars, backendVars
<1>5. CASE UNCHANGED vars
  BY <1>5 DEF vars, backendVars
<1> QED
  BY <1>1, <1>2, <1>3, <1>4, <1>5, NextCases

LEMMA ReceivedStep ==
    ASSUME HandsInv, Received, [Next]_vars
    PROVE  Received'
<1>2. /\ fetch \in Nat /\ marked \in Int /\ committed \in Int /\ fetch' \in Nat
      /\ WorkerTypeOK /\ \A w \in Workers : off[w] \in Nat
  BY LossTypes, LossTypesStep
<1>3. CASE Restart
  BY <1>2, <1>3 DEF Restart, Received, Holding, Kafka!Open, Kafka!StartOffset, Kafka!Larger, Kafka!durableVars
<1>4. CASE ~Restart
  <2>1. fetch' >= fetch
    <3>1. ASSUME NEW w \in Workers, KafkaReceive(w) PROVE fetch' = fetch + 1
      BY <3>1 DEF KafkaReceive, Kafka!Receive
    <3> QED
      BY <1>2, <1>4, <3>1, FetchMoves
  <2>2. \A x \in {marked', committed'} :
           x \in {marked, committed} \/ \E w \in Workers : AckOfKafka(w) /\ x = off[w] + 1
    <3>1. KafkaStep
      BY BackendSteps DEF HandsInv, TypeInv, TypeOK
    <3> QED
      BY <3>1 DEF KafkaStep, AckOfKafka, Kafka!Receive, Kafka!Open, Kafka!durableVars, Kafka!Publish,
         Kafka!MarkOffset, Kafka!Larger, kafkaVars
  <2>3. \A x \in {marked', committed'} : x <= fetch'
    <3>1. \A w \in Workers : AckOfKafka(w) => off[w] + 1 <= fetch
      BY <1>2 DEF AckOfKafka, Received, Holding
    <3> QED
      BY <1>2, <2>1, <2>2, <3>1 DEF Received
  <2>4. ASSUME NEW v \in Workers, Holding(v)', src'[v] = "kafka" PROVE off'[v] < fetch'
    <3>1. CASE pc'[v] = pc[v] /\ src'[v] = src[v] /\ off'[v] = off[v]
      BY <1>2, <2>1, <2>4, <3>1 DEF Received, Holding
    <3>2. ASSUME CycleStep(v) PROVE off'[v] < fetch'
      <4>1. CASE KafkaReceive(v)
        <5>1. pc' = [pc EXCEPT ![v] = "failed"] \/ off' = [off EXCEPT ![v] = fetch]
          BY <4>1 DEF KafkaReceive, Take, Stay, Go
        <5>2. fetch' = fetch + 1
          BY <4>1 DEF KafkaReceive, Kafka!Receive
        <5> QED
          BY <1>2, <2>4, <5>1, <5>2 DEF Holding, WorkerTypeOK
      <4>2. CASE PushOk(v)
        BY <1>2, <2>1, <2>4, <4>2 DEF PushOk, Stay, Go, Received, Holding
      <4>3. CASE StartCycle(v) \/ Exit(v) \/ Snapshot(v) \/ Cancelled(v) \/ Retry(v) \/ ReturnError(v)
                 \/ SqsReceiveFails(v) \/ PushFails(v) \/ Ack(v) \/ AckFails(v)
        <5>1. ~Holding(v)'
          BY <1>2, <4>3 DEF StartCycle, Exit, Snapshot, Cancelled, Retry, ReturnError, SqsReceiveFails,
             PushFails, Ack, AckFails, Stay, Go, Drop, Holding, WorkerTypeOK
        <5> QED
          BY <2>4, <5>1
      <4>4. CASE MemoryReceive(v) \/ ConstReceive(v) \/ ConstReady(v) \/ SqsReceive(v)
        <5>1. pc[v] = "await" => src[v] = "constant"
          BY DEF HandsInv, TypeInv, WorkersHold, HeldOK
        <5>2. src[v] # "kafka" /\ src' = src
          BY <4>4, <5>1 DEF MemoryReceive, ConstReceive, ConstReady, SqsReceive, Take, Stay
        <5> QED
          BY <2>4, <5>2
      <4> QED
        BY <3>2, <4>1, <4>2, <4>3, <4>4 DEF CycleStep, Receive
    <3>3. ASSUME NEW w \in Workers, CycleStep(w), v # w PROVE off'[v] < fetch'
      BY <1>2, <3>1, <3>3, OthersKept
    <3>4. CASE UNCHANGED workerVars
      BY <3>1, <3>4 DEF workerVars
    <3> QED
      BY <1>4, <3>2, <3>3, <3>4, NextCases, EnqueueFrame, OtherFrame DEF vars
  <2> QED
    BY <2>3, <2>4 DEF Received
<1> QED
  BY <1>3, <1>4

(* A process that goes on gives up a record only where a push fails.         *)
LEMMA GivenUpGrows ==
    ASSUME HandsInv, AckConfirmed, [Next]_vars, ~Restart, NEW m \in GivenUp', m \notin GivenUp
    PROVE  \E w \in Workers : PushFails(w) /\ m = msg[w]
<1>1. /\ WorkerTypeOK /\ Len(log) \in Nat /\ fetch \in Nat /\ fetch <= Len(log)
      /\ fetch' \in Nat /\ DOMAIN msg = Workers /\ DOMAIN msg' = Workers
      /\ \A i \in 1..Len(log) : log[i] \in Messages
  BY LossTypes, LossTypesStep
<1>2. Confirmed \subseteq Confirmed' /\ LogKept
  BY ConfirmedGrows, TypeInvStep DEF HandsInv, TypeInv, TypeOK
<1>3. PICK i \in 1..fetch' : m = log'[i]
  BY DEF GivenUp, HandedOut
<1>4. m \notin Confirmed /\ m \notin Poison /\ \A v \in Workers : msg'[v] # m
  BY <1>1, <1>2 DEF GivenUp, Elements
<1>5. i <= fetch => log'[i] = log[i] /\ m \in Messages
  BY <1>1, <1>2, <1>3 DEF LogKept
<1>6. i <= fetch => \E v \in Workers : msg[v] = m
  <2>1. i <= fetch => m \in HandedOut
    BY <1>1, <1>3, <1>5 DEF HandedOut
  <2> QED
    BY <1>1, <1>4, <2>1 DEF GivenUp, Elements
<1>7. CASE \E w \in Workers : CycleStep(w)
  <2>1. PICK w \in Workers : CycleStep(w)
    BY <1>7
  <2>2. ASSUME NEW v \in Workers, msg[v] = m, m \in Messages PROVE PushFails(w) /\ v = w
    <3>1. v = w
      BY <1>1, <1>4, <2>1, <2>2, OthersKept
    <3>2. Holding(w)
      BY <2>2, <3>1 DEF HandsInv, WorkersEmpty
    <3>3. pc[w] # "ack"
      BY <1>4, <2>2, <3>1 DEF AckConfirmed
    <3>4. pc[w] = "push"
      BY <3>2, <3>3 DEF Holding
    <3>5. PushOk(w) \/ PushFails(w)
      BY <2>1, <3>4 DEF CycleStep, Receive, StartCycle, Exit, Snapshot, KafkaReceive, MemoryReceive,
         ConstReceive, SqsReceive, ConstReady, SqsReceiveFails, Cancelled, Retry, ReturnError, Ack, AckFails
    <3>6. PushOk(w) => msg' = msg
      BY DEF PushOk, Stay
    <3> QED
      BY <1>4, <2>2, <3>1, <3>5, <3>6
  <2>3. CASE i <= fetch
    BY <1>5, <1>6, <2>2, <2>3
  <2>4. CASE ~(i <= fetch)
    <3>1. PICK v \in Workers : KafkaReceive(v)
      BY <1>1, <1>3, <2>4, FetchMoves
    <3>2. fetch' = fetch + 1 /\ log' = log
      BY <3>1 DEF KafkaReceive, Kafka!Receive
    <3>3. m = Kafka!Record
      BY <1>1, <1>3, <2>4, <3>2 DEF Kafka!Record
    <3>4. msg'[v] = m
      BY <1>1, <1>4, <3>1, <3>3 DEF KafkaReceive, Take, WorkerTypeOK
    <3> QED
      BY <1>4, <3>4
  <2> QED
    BY <2>3, <2>4
<1>8. CASE ~\E w \in Workers : CycleStep(w)
  <2>1. UNCHANGED workerVars
    BY <1>8, NextCases, EnqueueFrame, OtherFrame DEF vars
  <2>2. fetch' = fetch
    BY <1>8, FetchMoves DEF CycleStep, Receive
  <2>3. \A v \in Workers : msg[v] # m
    BY <1>4, <2>1 DEF workerVars
  <2> QED
    BY <1>1, <1>3, <1>6, <2>2, <2>3
<1> QED
  BY <1>7, <1>8

(* A worker that Stop is about to let go does not come back.                 *)
LEMMA LeavingStays ==
    ASSUME WorkerTypeOK, [Next]_vars, ~Restart
    PROVE  Leaving \subseteq Leaving'
<1> SUFFICES ASSUME NEW v \in Leaving PROVE v \in Leaving'
  OBVIOUS
<1>1. v \in Workers /\ CtxDone /\ pc[v] \in {"idle", "exited"}
  BY DEF Leaving
<1>2. CtxDone'
  <2>1. ASSUME NEW w \in Workers, CycleStep(w) PROVE run' = run
    BY <2>1, Zenon DEF CycleStep, Receive, StartCycle, Exit, Snapshot, KafkaReceive, MemoryReceive,
       ConstReceive, SqsReceive, ConstReady, SqsReceiveFails, Cancelled, Retry, ReturnError, PushOk,
       PushFails, Ack, AckFails
  <2>2. CASE OtherStep
    BY <1>1, <2>2 DEF OtherStep, ExternalWrite, Expire, Build, Swap, StoreQuery, CloseReady, StopBegins,
       StopReturns, CtxDone
  <2> QED
    BY <1>1, <2>1, <2>2, NextCases, EnqueueFrame DEF CtxDone, vars
<1>3. pc'[v] \in {"idle", "exited"}
  <2>1. ASSUME CycleStep(v) PROVE pc'[v] \in {"idle", "exited"}
    <3>1. Exit(v)
      BY <1>1, <2>1 DEF CycleStep, Receive, StartCycle, Snapshot, KafkaReceive, MemoryReceive,
         ConstReceive, SqsReceive, ConstReady, SqsReceiveFails, Cancelled, Retry, ReturnError, PushOk,
         PushFails, Ack, AckFails
    <3> QED
      BY <1>1, <3>1 DEF Exit, Stay, Go, WorkerTypeOK
  <2>2. ASSUME NEW w \in Workers, CycleStep(w), v # w PROVE pc'[v] = pc[v]
    BY <1>1, <2>2, OthersKept
  <2> QED
    BY <1>1, <2>1, <2>2, NextCases, EnqueueFrame, OtherFrame DEF workerVars, vars
<1> QED
  BY <1>1, <1>2, <1>3 DEF Leaving

(* When a process ends, what its workers had in hand may be given up.        *)
LEMMA GivenUpRestart ==
    ASSUME HandsInv, Received, Restart
    PROVE  GivenUp' \subseteq GivenUp \cup {msg[w] : w \in {v \in Workers : Holding(v)}}
<1>1. /\ Len(log) \in Nat /\ fetch \in Nat /\ committed \in Int /\ DOMAIN msg = Workers
      /\ \A i \in 1..Len(log) : log[i] \in Messages
      /\ fetch <= Len(log)
  BY LossTypes
<1>2. fetch' <= fetch /\ fetch' \in Nat /\ log' = log /\ pushes' = pushes
  BY <1>1 DEF Received, Restart, Kafka!Open, Kafka!StartOffset, Kafka!Larger, Kafka!durableVars
<1>3. HandedOut' \subseteq HandedOut
  BY <1>1, <1>2 DEF HandedOut
<1>4. Confirmed' = Confirmed
  BY <1>2 DEF Confirmed
<1>5. ASSUME NEW m \in GivenUp', m \notin GivenUp PROVE \E w \in Workers : Holding(w) /\ m = msg[w]
  <2>1. m \in HandedOut /\ m \notin Confirmed \cup Poison
    BY <1>3, <1>4, <1>5 DEF GivenUp
  <2>2. m \in Messages
    BY <1>1, <2>1 DEF HandedOut
  <2>3. PICK w \in Workers : msg[w] = m
    BY <1>1, <1>5, <2>1 DEF GivenUp, Elements
  <2> QED
    BY <2>2, <2>3 DEF HandsInv, WorkersEmpty
<1> QED
  BY <1>5

LEMMA Product ==
    ASSUME NEW a \in Nat, NEW b \in Nat
    PROVE  a * b \in Nat /\ (a + 1) * b = a * b + b
OBVIOUS

LEMMA LeavingFinite ==
    /\ IsFiniteSet(Leaving) /\ Cardinality(Leaving) \in Nat
    /\ Cardinality(Workers) \in Nat
<1>1. Leaving \in SUBSET Workers
  BY DEF Leaving
<1> QED
  BY <1>1, FS_Subset, FS_CardinalityType

LEMMA LossesStep ==
    ASSUME LossInv, [Next]_vars
    PROVE  IsFiniteSet(GivenUp') /\ Cardinality(GivenUp') <= Losses'
<1> DEFINE N == Cardinality(Workers)
           G == Cardinality(GivenUp)
           L == Cardinality(Leaving)
           M == Cardinality(Leaving')
<1>1. /\ N \in Nat /\ G \in Nat /\ L \in Nat /\ IsFiniteSet(GivenUp)
      /\ IsFiniteSet(Leaving) /\ restarts \in Nat /\ failures \in Nat
      /\ restarts' \in Nat /\ failures' \in Nat /\ HandsInv /\ WorkerTypeOK /\ WorkerTypeOK'
  BY LossTypes, LossTypesStep, LeavingFinite, FS_CardinalityType DEF LossInv
<1>2. M \in Nat /\ IsFiniteSet(Leaving')
  <2>1. Leaving' \in SUBSET Workers
    BY DEF Leaving
  <2> QED
    BY <2>1, FS_Subset, FS_CardinalityType
<1>3. G <= failures + restarts * N + L
  BY DEF LossInv, Losses
<1>4. restarts * N \in Nat /\ restarts' * N \in Nat /\ (restarts + 1) * N = restarts * N + N
  <2> HIDE DEF N
  <2> QED
    BY <1>1, Product
<1>5. SUFFICES IsFiniteSet(GivenUp') /\ Cardinality(GivenUp') <= failures' + restarts' * N + M
  BY Zenon DEF Losses
<1>6. CASE Restart
  <2> DEFINE H == {v \in Workers : Holding(v)}
             Hand == {msg[w] : w \in H}
             hold == [w \in H |-> msg[w]]
  <2>1. IsFiniteSet(H) /\ Cardinality(H) + L <= N /\ Cardinality(H) \in Nat
    <3>1. H \in SUBSET Workers /\ H \cap Leaving = {} /\ H \cup Leaving \in SUBSET Workers
      BY DEF Leaving, Holding
    <3>2. IsFiniteSet(H) /\ Cardinality(H) \in Nat
      BY <3>1, FS_Subset, FS_CardinalityType
    <3>3. Cardinality(H \cup Leaving) = Cardinality(H) + L - Cardinality(H \cap Leaving)
      BY <1>1, <3>2, FS_Union
    <3>4. Cardinality(H \cap Leaving) = 0
      BY <3>1, FS_EmptySet
    <3>5. Cardinality(H \cup Leaving) <= N
      BY <3>1, FS_Subset
    <3> HIDE DEF H, L, N
    <3> QED
      BY <1>1, <3>2, <3>3, <3>4, <3>5
  <2>2. hold \in Surjection(H, Hand)
    BY DEF Surjection
  <2>3. IsFiniteSet(Hand) /\ Cardinality(Hand) <= Cardinality(H)
    <3> HIDE DEF H, Hand, hold
    <3> QED
      BY <2>1, <2>2, FS_Surjection
  <2>4. GivenUp' \subseteq GivenUp \cup Hand
    BY <1>1, <1>6, GivenUpRestart DEF LossInv
  <2>5. IsFiniteSet(GivenUp') /\ Cardinality(GivenUp') <= G + Cardinality(Hand)
    <3> HIDE DEF Hand
    <3> QED
      BY <1>1, <2>3, <2>4, UnionAtMost
  <2>6. restarts' = restarts + 1 /\ failures' = failures
    BY <1>6 DEF Restart
  <2>7. restarts' * N = restarts * N + N
    <3> HIDE DEF N
    <3> QED
      BY <1>4, <2>6
  <2>8. Cardinality(GivenUp') \in Nat /\ Cardinality(Hand) \in Nat
    BY <2>3, <2>5, FS_CardinalityType
  <2> HIDE DEF N, G, L, M, H, Hand
  <2> QED
    BY <1>1, <1>2, <1>3, <1>4, <2>1, <2>3, <2>5, <2>6, <2>7, <2>8
<1>7. ASSUME ~Restart PROVE restarts' = restarts /\ failures' >= failures /\ L <= M
  <2>1. L <= M
    BY <1>1, <1>2, <1>7, LeavingStays, FS_Subset
  <2>2. restarts' = restarts
    <3>1. SwitchTypeOK
      BY <1>1 DEF HandsInv, TypeInv, TypeOK
    <3> HIDE DEF N, G, L, M
    <3> QED
      BY <1>7, <3>1, NextCases, CycleFrame, EnqueueFrame, OtherFrame DEF boundVars, vars
  <2>3. failures' >= failures
    <3>1. ASSUME NEW w \in Workers, CycleStep(w) PROVE failures' >= failures
      <4>1. CASE SqsReceiveFails(w) \/ PushFails(w) \/ AckFails(w)
        BY <1>1, <4>1 DEF SqsReceiveFails, PushFails, AckFails, Fail
      <4>2. CASE ~(SqsReceiveFails(w) \/ PushFails(w) \/ AckFails(w))
        <5>1. UNCHANGED boundVars
          BY <3>1, <4>2, Zenon DEF CycleStep, Receive, StartCycle, Exit, Snapshot, KafkaReceive,
             MemoryReceive, ConstReceive, SqsReceive, ConstReady, Cancelled, Retry, ReturnError, PushOk, Ack
        <5> QED
          BY <1>1, <5>1 DEF boundVars
      <4> QED
        BY <4>1, <4>2
    <3>2. ASSUME NEW p \in Producers, EnqueueStep(p) \/ CreateStep(p) PROVE failures' >= failures
      BY <1>1, <3>2 DEF EnqueueStep, CreateStep, EnqueueRemote, EnqueueRemoteFails, EnqueueConst, MemorySend,
         MemoryCount, Create, Fail, boundVars
    <3> QED
      BY <1>1, <1>7, <3>1, <3>2, NextCases, OtherFrame DEF boundVars, vars
  <2> QED
    BY <2>1, <2>2, <2>3
<1>8. CASE ~Restart /\ GivenUp' \subseteq GivenUp
  <2>1. IsFiniteSet(GivenUp') /\ Cardinality(GivenUp') <= G /\ Cardinality(GivenUp') \in Nat
    BY <1>1, <1>8, FS_Subset, FS_CardinalityType
  <2>2. restarts' = restarts /\ failures' >= failures /\ L <= M
    BY <1>7, <1>8
  <2> HIDE DEF N, G, L, M
  <2> QED
    BY <1>1, <1>2, <1>3, <1>4, <2>1, <2>2
<1>9. CASE ~Restart /\ ~(GivenUp' \subseteq GivenUp)
  <2>1. PICK w \in Workers : PushFails(w) /\ GivenUp' \subseteq GivenUp \cup {msg[w]}
    <3>1. PICK n \in GivenUp' : n \notin GivenUp
      BY <1>9
    <3>2. PICK w \in Workers : PushFails(w)
      BY <1>1, <1>9, <3>1, GivenUpGrows DEF LossInv
    <3>3. \A v \in Workers : PushFails(v) => v = w
      BY <1>1, <3>2 DEF PushFails, Drop, Go, WorkerTypeOK
    <3>4. \A m \in GivenUp' : m \notin GivenUp => m = msg[w]
      BY <1>1, <1>9, <3>3, GivenUpGrows DEF LossInv
    <3> QED
      BY <3>2, <3>4
  <2>2. /\ IsFiniteSet(GivenUp') /\ Cardinality(GivenUp') <= G + 1 /\ Cardinality(GivenUp') \in Nat
    <3>1. IsFiniteSet({msg[w]}) /\ Cardinality({msg[w]}) = 1
      BY FS_Singleton
    <3>2. IsFiniteSet(GivenUp') /\ Cardinality(GivenUp') <= G + Cardinality({msg[w]})
      BY <1>1, <2>1, <3>1, UnionAtMost
    <3> QED
      BY <3>1, <3>2, FS_CardinalityType
  <2>3. failures' = failures + 1 \/ M >= L + 1
    <3>1. CASE failures' = failures + 1
      BY <3>1
    <3>2. CASE CtxDone
      <4>1. w \notin Leaving /\ w \in Leaving'
        BY <1>1, <2>1, <3>2 DEF PushFails, Drop, Go, WorkerTypeOK, Leaving, CtxDone
      <4>2. Leaving \cup {w} \in SUBSET Leaving'
        BY <1>1, <1>9, <4>1, LeavingStays
      <4>3. Cardinality(Leaving \cup {w}) = L + 1
        BY <1>1, <4>1, FS_AddElement
      <4> QED
        BY <1>2, <4>2, <4>3, FS_Subset
    <3> QED
      BY <2>1, <3>1, <3>2 DEF PushFails, Fail
  <2>4. restarts' = restarts /\ failures' >= failures /\ L <= M
    BY <1>7, <1>9
  <2> HIDE DEF N, G, L, M
  <2> QED
    BY <1>1, <1>2, <1>3, <1>4, <2>2, <2>3, <2>4
<1> QED
  BY <1>6, <1>8, <1>9

(* What is settled was confirmed, or else is one of a bounded number of      *)
(* records: an offset settles no record that was not handed to a worker, and *)
(* of those it settles that were not confirmed and can be read, all that are *)
(* not in a worker's hands come from a push that failed, a worker that Stop  *)
(* lets go, or the end of an earlier process.  For any number of workers,    *)
(* messages, switches, failures and restarts.                                *)
THEOREM SettledAccounted == Spec => []SettledOrGivenUp
<1>1. Init => LossInv
  <2> SUFFICES ASSUME Init PROVE LossInv
    OBVIOUS
  <2>1. HandsInv /\ AckConfirmed
    BY HandsInvInit, SettledInvInit DEF SettledInv
  <2>2. Received
    BY DEF Init, Kafka!Init, Kafka!NoOffset, Received, Holding
  <2>3. GivenUp = {}
    BY DEF Init, Kafka!Init, GivenUp, HandedOut
  <2>4. failures = 0 /\ restarts = 0
    BY DEF Init
  <2>5. IsFiniteSet(GivenUp) /\ Cardinality(GivenUp) = 0 /\ 0 * Cardinality(Workers) = 0
    BY <2>3, LeavingFinite, FS_EmptySet
  <2>6. Cardinality(GivenUp) <= Losses
    BY <2>4, <2>5, LeavingFinite DEF Losses
  <2> QED
    BY <2>1, <2>2, <2>5, <2>6 DEF LossInv
<1>2. LossInv /\ [Next]_vars => LossInv'
  <2> SUFFICES ASSUME LossInv, [Next]_vars PROVE LossInv'
    OBVIOUS
  <2>1. HandsInv' /\ Received'
    BY HandsInvStep, ReceivedStep DEF LossInv
  <2>2. AckConfirmed'
    BY AckConfirmedStep DEF LossInv, HandsInv, TypeInv, TypeOK
  <2>3. IsFiniteSet(GivenUp') /\ Cardinality(GivenUp') <= Losses'
    BY LossesStep
  <2> QED
    BY <2>1, <2>2, <2>3 DEF LossInv
<1>3. LossInv /\ LastConfirmed => SettledOrGivenUp
  BY DEF LossInv, Received, LastConfirmed, SettledOrGivenUp, Losses
<1> QED
  BY <1>1, <1>2, <1>3, LastConfirmedAlways, PTL DEF Spec

-----------------------------------------------------------------------------
(* A switch stays inside Dequeue.                                            *)

(* A Dequeue that was cancelled was so by the end of its worker's context,   *)
(* or by a switch that Dequeue can still see.                                *)
CancelledSaw == \A w \in Workers : pc[w] = "cancelled" => ChildDone(w)

LEMMA CancelledSawStep ==
    ASSUME SwitchTypeOK, WorkerTypeOK, CancelledSaw, [Next]_vars
    PROVE  CancelledSaw'
<1> USE DEF SwitchTypeOK, WorkerTypeOK, CancelledSaw, ChildDone, CtxDone, Switched
<1>1. ASSUME NEW w \in Workers, CycleStep(w), NEW v \in Workers, pc'[v] = "cancelled"
      PROVE  ChildDone(v)'
  <2>1. UNCHANGED <<run, epoch>>
    BY <1>1, CycleFrame DEF switchVars
  <2>2. pc[v] = "cancelled" => ChildDone(v)
    OBVIOUS
  <2> USE DEF Stay, Go, Take, Drop
  <2>3. CASE Cancelled(w) \/ SqsReceiveFails(w)
    BY <1>1, <2>1, <2>2, <2>3 DEF Cancelled, SqsReceiveFails
  <2>4. CASE SqsReceive(w)
    <3>1. PICK m : Stay(w, "failed") \/ Take(w, m, 0)
      BY <2>4 DEF SqsReceive
    <3> QED
      BY <1>1, <2>1, <2>2, <2>4, <3>1 DEF SqsReceive
  <2>5. CASE StartCycle(w) \/ Exit(w) \/ Snapshot(w) \/ Retry(w) \/ ReturnError(w)
    BY <1>1, <2>1, <2>2, <2>5 DEF StartCycle, Exit, Snapshot, Retry, ReturnError
  <2>6. CASE KafkaReceive(w) \/ MemoryReceive(w) \/ ConstReceive(w) \/ ConstReady(w)
    BY <1>1, <2>1, <2>2, <2>6 DEF KafkaReceive, MemoryReceive, ConstReceive, ConstReady
  <2>7. CASE PushOk(w) \/ PushFails(w) \/ Ack(w) \/ AckFails(w)
    BY <1>1, <2>1, <2>2, <2>7 DEF PushOk, PushFails, Ack, AckFails
  <2> QED
    BY <1>1, <2>3, <2>4, <2>5, <2>6, <2>7 DEF CycleStep, Receive
<1>2. CASE OtherStep
  <2>1. epoch \in Nat /\ epoch' \in Nat /\ epoch <= epoch' /\ (run # "running" => run' # "running")
    BY <1>2 DEF OtherStep, ExternalWrite, Expire, Build, Swap, StoreQuery, CloseReady, StopBegins,
       StopReturns, switchVars
  <2> QED
    BY <1>2, <2>1, OtherFrame DEF workerVars
<1>3. CASE Restart
  BY <1>3 DEF Restart
<1>4. CASE UNCHANGED <<switchVars, workerVars, run>>
  BY <1>4 DEF switchVars, workerVars
<1> QED
  BY <1>1, <1>2, <1>3, <1>4, NextCases, EnqueueFrame DEF vars

(* Only ReturnError brings a worker back whose Dequeue was cancelled.        *)
LEMMA CancelledReturns ==
    ASSUME WorkerTypeOK, NEW w \in Workers, CycleStep(w), pc[w] = "cancelled", pc'[w] = "idle"
    PROVE  ReturnError(w)
<1> USE DEF WorkerTypeOK
<1>1. ~(StartCycle(w) \/ Exit(w) \/ Snapshot(w) \/ Cancelled(w) \/ Retry(w))
  BY DEF StartCycle, Exit, Snapshot, Cancelled, Retry, Stay, Go
<1>2. ~(Receive(w) \/ ConstReady(w) \/ SqsReceiveFails(w))
  BY DEF Receive, KafkaReceive, MemoryReceive, ConstReceive, SqsReceive, ConstReady, SqsReceiveFails
<1>3. ~(PushOk(w) \/ PushFails(w) \/ Ack(w) \/ AckFails(w))
  BY DEF PushOk, PushFails, Ack, AckFails
<1> QED
  BY <1>1, <1>2, <1>3 DEF CycleStep

(* No caller of Dequeue sees the cancellation that a switch sends: an error  *)
(* of that kind comes only from the caller's own context, however the switch *)
(* races with what the backend answers.                                      *)
THEOREM SwitchUnseen == Spec => SwitchIsInvisible
<1> DEFINE Unseen ==
      \A w \in Workers : pc[w] = "cancelled" /\ pc'[w] = "idle" /\ restarts' = restarts => CtxDone
<1>1. Init => CancelledSaw
  BY DEF Init, CancelledSaw
<1>2. HandsInv /\ CancelledSaw /\ [Next]_vars => CancelledSaw'
  BY CancelledSawStep DEF HandsInv, TypeInv, TypeOK
<1>3. HandsInv /\ CancelledSaw /\ [Next]_vars => [Unseen]_vars
  <2> SUFFICES ASSUME HandsInv, CancelledSaw, Next,
                      NEW v \in Workers, pc[v] = "cancelled", pc'[v] = "idle", restarts' = restarts
               PROVE  CtxDone
    OBVIOUS
  <2> USE DEF HandsInv, TypeInv, TypeOK, WorkerTypeOK
  <2>1. ASSUME NEW w \in Workers, CycleStep(w) PROVE CtxDone
    <3>1. w = v
      BY <2>1, OthersKept
    <3> QED
      BY <2>1, <3>1, CancelledReturns DEF CancelledSaw, ChildDone, ReturnError
  <2>2. ~Restart
    BY DEF Restart, BoundTypeOK
  <2>3. ~UNCHANGED workerVars
    BY DEF workerVars
  <2> QED
    BY <2>1, <2>2, <2>3, NextCases, EnqueueFrame, OtherFrame DEF vars
<1> QED
  BY <1>1, <1>2, <1>3, HandsInvAlways, PTL DEF Spec, SwitchIsInvisible

-----------------------------------------------------------------------------
(* The constant queue's messages have a body.                                *)

(* Whoever closes `ready` has stored a query, and none is ever removed.      *)
QueryStored == ready \/ closing => query # NoQuery

LEMMA QueryStoredStep ==
    ASSUME SwitchTypeOK, QueryStored, [Next]_vars
    PROVE  QueryStored'
<1> USE DEF QueryStored
<1>1. ASSUME NEW q \in Queries, StoreQuery(q) PROVE QueryStored'
  BY <1>1 DEF StoreQuery, Const!StoreQuery
<1>2. CASE CloseReady
  BY <1>2 DEF CloseReady, Const!CloseReady
<1>3. CASE Restart
  BY <1>3 DEF Restart, Const!New
<1>4. CASE UNCHANGED constVars
  BY <1>4 DEF constVars
<1>5. ASSUME OtherStep, ~\E q \in Queries : StoreQuery(q), ~CloseReady
      PROVE  UNCHANGED constVars
  BY <1>5, Zenon DEF OtherStep, ExternalWrite, Expire, Build, Swap, StopBegins, StopReturns,
     constVars, backendVars
<1> QED
  BY <1>1, <1>2, <1>3, <1>4, <1>5, NextCases, CycleFrame, EnqueueFrame DEF vars, backendVars, constVars

LEMMA HasBodyStep ==
    ASSUME TypeInv, QueryStored, ConstantHasBody, [Next]_vars
    PROVE  ConstantHasBody'
<1> USE DEF TypeInv, TypeOK, WorkerTypeOK, ConstantHasBody
<1>1. ASSUME NEW w \in Workers, CycleStep(w) PROVE msg'[w] # EmptyBody
  <2> USE DEF Stay, Go, Take, Drop
  <2>1. CASE KafkaReceive(w)
    <3>1. Kafka!Record \in Messages
      BY <2>1 DEF KafkaReceive, Kafka!Receive, Kafka!HasRecord, Kafka!Record, Kafka!TypeOK
    <3> QED
      BY <2>1, <3>1 DEF KafkaReceive
  <2>2. CASE MemoryReceive(w)
    <3>1. Head(ch) \in Messages
      BY <2>2 DEF MemoryReceive, Memory!Receive, Memory!HasMessage, Memory!TypeOK
    <3> QED
      BY <2>2, <3>1 DEF MemoryReceive
  <2>3. CASE SqsReceive(w)
    <3>1. PICK m \in Messages : Stay(w, "failed") \/ Take(w, m, 0)
      BY <2>3 DEF SqsReceive, Sqs!Batches, Sqs!InStatus
    <3> QED
      BY <2>3, <3>1 DEF SqsReceive
  <2>4. CASE ConstReceive(w) \/ ConstReady(w)
    <3>1. (query # NoQuery => Body(query) # EmptyBody) /\ (ready => query # NoQuery)
      BY DEF Body, Generated, EmptyBody, QueryStored
    <3> QED
      BY <2>4, <3>1 DEF ConstReceive, ConstReady
  <2>5. CASE StartCycle(w) \/ Exit(w) \/ Snapshot(w) \/ Cancelled(w) \/ Retry(w) \/ ReturnError(w)
             \/ SqsReceiveFails(w) \/ PushOk(w)
    BY <2>5 DEF StartCycle, Exit, Snapshot, Cancelled, Retry, ReturnError, SqsReceiveFails, PushOk
  <2>6. CASE PushFails(w) \/ Ack(w) \/ AckFails(w)
    BY <2>6 DEF PushFails, Ack, AckFails
  <2> QED
    BY <1>1, <2>1, <2>2, <2>3, <2>4, <2>5, <2>6 DEF CycleStep, Receive
<1>2. ASSUME NEW w \in Workers, CycleStep(w) PROVE ConstantHasBody'
  BY <1>1, <1>2, OthersKept
<1>3. CASE UNCHANGED workerVars
  BY <1>3 DEF workerVars
<1>4. CASE Restart
  BY <1>4 DEF Restart
<1> QED
  BY <1>2, <1>3, <1>4, NextCases, EnqueueFrame, OtherFrame DEF vars

(* No worker is handed a constant message before there is a query to put in  *)
(* it: not by the read that finds one, nor by the wait for `ready`, which is *)
(* closed outside the lock under which the query is stored.                  *)
THEOREM BodyPresent == Spec => []ConstantHasBody
<1>1. Init => QueryStored /\ ConstantHasBody
  BY DEF Init, Const!Init, QueryStored, ConstantHasBody
<1>2. HandsInv /\ QueryStored /\ ConstantHasBody /\ [Next]_vars => (QueryStored /\ ConstantHasBody)'
  BY QueryStoredStep, HasBodyStep DEF HandsInv, TypeInv, TypeOK
<1> QED
  BY <1>1, <1>2, HandsInvAlways, PTL DEF Spec

-----------------------------------------------------------------------------
(* Where a message can be.                                                   *)

AtWorker(m)   == \E w \in Workers : msg[w] = m
AtProducer(m) == \E p \in Producers : pmsg[p] = m
InChannel(m)  == \E i \in 1..Len(ch) : ch[i] = m
InLog(m)      == \E i \in 1..Len(log) : log[i] = m

(* A message is in one place at a time ...                                   *)
OnePlace(m) ==
    /\ m \in fresh => ~(AtProducer(m) \/ InChannel(m) \/ InLog(m) \/ AtWorker(m)) /\ status[m] = "absent"
    /\ AtProducer(m) => ~(InChannel(m) \/ InLog(m) \/ AtWorker(m)) /\ status[m] = "absent"
    /\ InChannel(m) => ~(InLog(m) \/ AtWorker(m)) /\ status[m] = "absent"
    /\ InLog(m) => status[m] = "absent"

(* ... and there it is once, but for what SQS hands out again; the broker's  *)
(* log keeps what it has handed out, behind the position of the consumer.    *)
OnceThere(m) ==
    /\ \A p, q \in Producers : pmsg[p] = m /\ pmsg[q] = m => p = q
    /\ \A i, j \in 1..Len(ch) : ch[i] = m /\ ch[j] = m => i = j
    /\ \A i, j \in 1..Len(log) : log[i] = m /\ log[j] = m => i = j
    /\ \A i \in 1..Len(log) : i > fetch /\ log[i] = m => ~AtWorker(m)
    /\ status[m] = "absent" =>
         /\ \A v, w \in Workers : msg[v] = m /\ msg[w] = m => v = w
         /\ \A w \in Workers : msg[w] = m => src[w] # "sqs"

(* What does not unmarshal gets no further than its broker.                  *)
Readable(m) == m \in Poison => ~(AtProducer(m) \/ InChannel(m) \/ AtWorker(m))

PlaceOK(m) == OnePlace(m) /\ OnceThere(m) /\ Readable(m)
Places == \A m \in Messages : PlaceOK(m)

LEMMA AppendElements ==
    ASSUME NEW s \in Seq(Messages), NEW m \in Messages
    PROVE  /\ Len(s) \in Nat /\ Len(Append(s, m)) = Len(s) + 1
           /\ \A i \in 1..Len(s) : Append(s, m)[i] = s[i]
           /\ Append(s, m)[Len(s) + 1] = m
BY AppendProperties, LenProperties

LEMMA TailElements ==
    ASSUME NEW s \in Seq(Messages), s # <<>>
    PROVE  /\ Len(s) \in Nat \ {0} /\ Len(Tail(s)) = Len(s) - 1 /\ Head(s) = s[1]
           /\ \A i \in 1..Len(s) - 1 : Tail(s)[i] = s[i + 1]
BY HeadTailProperties, LenProperties, EmptySeq

(* An ack touches the status of no message but the one it is for.            *)
Deleted(m) == [status EXCEPT ![m] = "deleted"]

LEMMA AckOnStatus ==
    ASSUME SwitchTypeOK, NEW w \in Workers, Ack(w) \/ AckFails(w)
    PROVE  status' = status \/ (src[w] = "sqs" /\ status' = Deleted(msg[w]))
<1>1. Sqs!Delete(msg[w]) => status' = status \/ status' = Deleted(msg[w])
  BY Zenon DEF Sqs!Delete, Deleted
<1>2. CASE Ack(w)
  <2>1. CASE active \in {"kafka", "sqs"}
    <3>1. AckClosure(w)
      BY <1>2, <2>1 DEF Ack
    <3>2. CASE src[w] = "sqs"
      BY <1>1, <3>1, <3>2 DEF AckClosure
    <3>3. CASE src[w] = "kafka"
      BY <3>1, <3>3, Zenon DEF AckClosure
    <3>4. CASE src[w] \notin {"kafka", "sqs"}
      BY <3>1, <3>4 DEF AckClosure
    <3> QED
      BY <3>2, <3>3, <3>4
  <2>2. CASE active = "inmemory"
    BY <1>2, <2>2 DEF Ack
  <2>3. CASE active = "constant"
    BY <1>2, <2>3 DEF Ack
  <2> QED
    BY <2>1, <2>2, <2>3 DEF SwitchTypeOK, AllTypes
<1>3. CASE AckFails(w)
  BY <1>1, <1>3, Zenon DEF AckFails
<1> QED
  BY <1>2, <1>3

LEMMA CyclePlaces ==
    ASSUME HandsInv, Places, NEW w \in Workers, CycleStep(w), NEW m \in Messages
    PROVE  PlaceOK(m)'
<1>1. PlaceOK(m) /\ WorkerTypeOK /\ SwitchTypeOK /\ NoMsg # m /\ Len(log) \in Nat /\ fetch \in Nat
      /\ fetch <= Len(log)
  BY LenProperties DEF Places, HandsInv, TypeInv, TypeOK, Kafka!TypeOK
<1>2. UNCHANGED <<fresh, pmsg, log>>
  BY CycleFrame DEF producerVars, HandsInv, TypeInv, TypeOK
<1>3. ~Holding(w) => msg[w] = NoMsg
  BY DEF HandsInv, WorkersEmpty
<1> USE <1>1, <1>2, <1>3 DEF PlaceOK, OnePlace, OnceThere, Readable, AtWorker, AtProducer, InChannel, InLog
<1>4. CASE StartCycle(w) \/ Exit(w) \/ Snapshot(w) \/ Cancelled(w) \/ Retry(w) \/ ReturnError(w) \/ PushOk(w)
  <2>1. UNCHANGED <<msg, ch, fetch, status>>
    BY <1>4, Zenon DEF StartCycle, Exit, Snapshot, Cancelled, Retry, ReturnError, PushOk, backendVars, Stay
  <2>2. \A v \in Workers : msg[v] = m => src'[v] = src[v]
    BY <1>4 DEF StartCycle, Exit, Snapshot, Cancelled, Retry, ReturnError, PushOk, Stay, Holding, WorkerTypeOK
  <2> QED
    BY <2>1, <2>2
<1>5. CASE KafkaReceive(w)
  <2>1. /\ msg[w] = NoMsg /\ fetch < Len(log) /\ fetch' = fetch + 1 /\ src[w] = "kafka"
        /\ UNCHANGED <<ch, status, src>>
    BY <1>5 DEF KafkaReceive, Kafka!Receive, Kafka!HasRecord, memoryVars, Holding, Stay, Take
  <2>2. CASE log[fetch + 1] \in Poison
    <3>1. msg' = msg
      BY <1>5, <2>2 DEF KafkaReceive, Kafka!Record, Stay
    <3> QED
      BY <2>1, <3>1
  <2>3. CASE log[fetch + 1] \notin Poison
    <3>1. msg' = [msg EXCEPT ![w] = log[fetch + 1]] /\ msg \in [Workers -> Held]
      BY <1>5, <2>3 DEF KafkaReceive, Kafka!Record, Take, WorkerTypeOK
    <3>2. CASE m = log[fetch + 1]
      BY <2>1, <2>3, <3>1, <3>2
    <3>3. CASE m # log[fetch + 1]
      BY <2>1, <2>3, <3>1, <3>3
    <3> QED
      BY <3>2, <3>3
  <2> QED
    BY <2>2, <2>3
<1>6. CASE MemoryReceive(w)
  <2>1. /\ msg[w] = NoMsg /\ ch # <<>> /\ ch' = Tail(ch) /\ msg' = [msg EXCEPT ![w] = Head(ch)]
        /\ src[w] = "inmemory" /\ UNCHANGED <<fetch, status, src>>
        /\ ch \in Seq(Messages) /\ msg \in [Workers -> Held]
    BY <1>6 DEF MemoryReceive, Memory!Receive, Memory!HasMessage, kafkaVars, HandsInv, Holding,
       TypeInv, TypeOK, Memory!TypeOK, Take, WorkerTypeOK
  <2>2. /\ Len(ch) \in Nat \ {0} /\ Len(ch') = Len(ch) - 1 /\ Head(ch) = ch[1]
        /\ \A i \in 1..Len(ch) - 1 : ch'[i] = ch[i + 1]
    BY <2>1, TailElements
  <2>3. CASE m = ch[1]
    BY <2>1, <2>2, <2>3
  <2>4. CASE m # ch[1]
    BY <2>1, <2>2, <2>4
  <2> QED
    BY <2>3, <2>4
<1>7. CASE ConstReceive(w) \/ ConstReady(w)
  <2>1. UNCHANGED <<ch, fetch, status, src>> /\ \A v \in Workers : msg'[v] # m \/ msg'[v] = msg[v]
    BY <1>7 DEF ConstReceive, ConstReady, Body, backendVars, Stay, Take, WorkerTypeOK
  <2>2. \A v \in Workers : msg'[v] = m => msg[v] = m
    BY <2>1
  <2> QED
    BY <2>1, <2>2
<1>8. CASE SqsReceive(w)
  <2>0. PICK S \in Sqs!Batches :
          Sqs!Receive(S) /\ \E n \in S : IF n \in Poison THEN Stay(w, "failed") ELSE Take(w, n, 0)
    BY <1>8, Zenon DEF SqsReceive
  <2>1. PICK n \in S : IF n \in Poison THEN Stay(w, "failed") ELSE Take(w, n, 0)
    BY <2>0
  <2>2. UNCHANGED <<ch, fetch, src>> /\ msg[w] = NoMsg /\ msg \in [Workers -> Held]
    BY <1>8, <2>1 DEF SqsReceive, kafkaVars, memoryVars, Holding, Stay, Take, WorkerTypeOK
  <2>3. n \in Messages /\ status[n] # "absent"
        /\ \A k \in Messages : status'[k] = "absent" <=> status[k] = "absent"
    BY <2>0 DEF Sqs!Batches, Sqs!InStatus, Sqs!Receive
  <2>4. msg' = IF n \in Poison THEN msg ELSE [msg EXCEPT ![w] = n]
    BY <2>1 DEF Stay, Take
  <2>5. CASE m = n
    BY <2>2, <2>3, <2>4, <2>5
  <2>6. CASE m # n
    <3>1. \A v \in Workers : msg'[v] = m => msg[v] = m
      BY <2>2, <2>4, <2>6
    <3> QED
      BY <2>2, <2>3, <3>1
  <2> QED
    BY <2>5, <2>6
<1>9. CASE SqsReceiveFails(w)
  <2>1. UNCHANGED <<ch, fetch, msg, src>>
    BY <1>9 DEF SqsReceiveFails, kafkaVars, memoryVars, Stay
  <2>2. status'[m] = "absent" <=> status[m] = "absent"
    BY <1>9 DEF SqsReceiveFails, Sqs!Batches, Sqs!InStatus, Sqs!Receive
  <2> QED
    BY <2>1, <2>2
<1>10. CASE PushFails(w) \/ Ack(w) \/ AckFails(w)
  <2>1. UNCHANGED <<fetch, src>> /\ msg' = [msg EXCEPT ![w] = NoMsg] /\ msg \in [Workers -> Held]
    <3>1. CASE Ack(w)
      BY <3>1 DEF Ack, AckClosure, Kafka!MarkOffset, kafkaVars, SwitchTypeOK, AllTypes, Drop, WorkerTypeOK
    <3>2. CASE PushFails(w) \/ AckFails(w)
      BY <3>2 DEF PushFails, AckFails, kafkaVars, backendVars, Drop, WorkerTypeOK
    <3> QED
      BY <1>10, <3>1, <3>2
  <2>2. ch' = ch
    <3>1. CASE Ack(w)
      BY <3>1 DEF Ack, Memory!Ack, memoryVars, SwitchTypeOK, AllTypes
    <3>2. CASE PushFails(w) \/ AckFails(w)
      BY <3>2 DEF PushFails, AckFails, memoryVars, backendVars
    <3> QED
      BY <1>10, <3>1, <3>2
  <2>3. status' = status \/ (src[w] = "sqs" /\ status' = Deleted(msg[w]))
    <3>1. CASE Ack(w) \/ AckFails(w)
      BY <3>1, AckOnStatus
    <3>2. CASE PushFails(w)
      BY <3>2 DEF PushFails, backendVars
    <3> QED
      BY <1>10, <3>1, <3>2
  <2>4. status \in [Messages -> Sqs!Statuses]
    BY DEF HandsInv, TypeInv, TypeOK, Sqs!TypeOK
  <2>5. \/ status'[m] = status[m]
        \/ status'[m] = "deleted" /\ msg[w] = m /\ src[w] = "sqs"
    BY <2>3, <2>4 DEF Deleted
  <2>6. \A v \in Workers : msg'[v] = m => msg[v] = m
    BY <2>1
  <2> HIDE DEF OnceThere
  <2>7. OnceThere(m)'
    BY <2>1, <2>2, <2>5, <2>6 DEF OnceThere
  <2> QED
    BY <2>1, <2>2, <2>5, <2>6, <2>7 DEF OnceThere
<1> QED
  BY <1>4, <1>5, <1>6, <1>7, <1>8, <1>9, <1>10 DEF CycleStep, Receive

LEMMA EnqueuePlaces ==
    ASSUME HandsInv, Places, NEW p \in Producers, EnqueueStep(p) \/ CreateStep(p), NEW m \in Messages
    PROVE  PlaceOK(m)'
<1>1. /\ PlaceOK(m) /\ NoMsg # m /\ fetch \in Nat /\ fetch <= Len(log)
      /\ log \in Seq(Messages) /\ Len(log) \in Nat /\ ch \in Seq(Messages) /\ Len(ch) \in Nat
      /\ pmsg \in [Producers -> Messages \cup {NoMsg}] /\ status \in [Messages -> Sqs!Statuses]
  BY LenProperties DEF Places, HandsInv, TypeInv, TypeOK, Kafka!TypeOK, Memory!TypeOK, ProducerTypeOK, Sqs!TypeOK
<1>2. UNCHANGED <<msg, src>>
  BY EnqueueFrame DEF workerVars
<1>3. ppc[p] \in {"enqueue", "send"} => pmsg[p] \in Messages
  BY DEF HandsInv, TypeInv, ProducersHold
<1>4. ppc[p] \notin {"enqueue", "send"} => pmsg[p] = NoMsg
  BY DEF HandsInv, ProducersEmpty
<1> USE <1>1, <1>2 DEF PlaceOK, OnePlace, OnceThere, Readable, AtWorker, AtProducer, InChannel, InLog
<1>5. CASE CreateStep(p)
  <2>1. PICK n \in fresh \ Poison : fresh' = fresh \ {n} /\ pmsg' = [pmsg EXCEPT ![p] = n]
    BY <1>5 DEF CreateStep, Create
  <2>2. UNCHANGED <<ch, log, fetch, status>> /\ pmsg[p] = NoMsg
    BY <1>4, <1>5 DEF CreateStep, Create, backendVars
  <2>3. CASE m = n
    BY <2>1, <2>2, <2>3
  <2>4. CASE m # n
    BY <2>1, <2>2, <2>4
  <2> QED
    BY <2>3, <2>4
<1>6. CASE EnqueueRemote(p) /\ pdst[p] = "kafka"
  <2>1. /\ log' = Append(log, pmsg[p]) /\ pmsg' = [pmsg EXCEPT ![p] = NoMsg] /\ pmsg[p] \in Messages
        /\ UNCHANGED <<fresh, ch, fetch, status>>
    BY <1>3, <1>6 DEF EnqueueRemote, Kafka!Publish, Enqueued, memoryVars
  <2>2. /\ Len(log') = Len(log) + 1 /\ log'[Len(log) + 1] = pmsg[p]
        /\ \A i \in 1..Len(log) : log'[i] = log[i]
    BY <2>1, AppendElements
  <2>3. CASE m = pmsg[p]
    BY <2>1, <2>2, <2>3
  <2>4. CASE m # pmsg[p]
    BY <2>1, <2>2, <2>4
  <2> QED
    BY <2>3, <2>4
<1>7. CASE EnqueueRemote(p) /\ pdst[p] = "sqs"
  <2>1. /\ status' = [status EXCEPT ![pmsg[p]] = "visible"] /\ pmsg' = [pmsg EXCEPT ![p] = NoMsg]
        /\ pmsg[p] \in Messages /\ UNCHANGED <<fresh, ch, fetch, log>>
    BY <1>3, <1>7 DEF EnqueueRemote, Sqs!Send, Enqueued, memoryVars, kafkaVars
  <2>2. CASE m = pmsg[p]
    BY <2>1, <2>2
  <2>3. CASE m # pmsg[p]
    BY <2>1, <2>3
  <2> QED
    BY <2>2, <2>3
<1>8. CASE EnqueueRemoteFails(p) \/ EnqueueConst(p)
  <2>1. pmsg' = [pmsg EXCEPT ![p] = NoMsg] /\ UNCHANGED <<fresh, ch, fetch, log, status>>
    BY <1>8 DEF EnqueueRemoteFails, EnqueueConst, Enqueued, backendVars
  <2> QED
    BY <2>1
<1>9. CASE MemorySend(p)
  <2>1. /\ ch' = Append(ch, pmsg[p]) /\ pmsg' = [pmsg EXCEPT ![p] = NoMsg] /\ pmsg[p] \in Messages
        /\ UNCHANGED <<fresh, log, fetch, status>>
    BY <1>3, <1>9 DEF MemorySend, Memory!Send, kafkaVars
  <2>2. /\ Len(ch') = Len(ch) + 1 /\ ch'[Len(ch) + 1] = pmsg[p]
        /\ \A i \in 1..Len(ch) : ch'[i] = ch[i]
    BY <2>1, AppendElements
  <2>3. CASE m = pmsg[p]
    BY <2>1, <2>2, <2>3
  <2>4. CASE m # pmsg[p]
    BY <2>1, <2>2, <2>4
  <2> QED
    BY <2>3, <2>4
<1>10. CASE MemoryCount(p)
  <2>1. pmsg' = [pmsg EXCEPT ![p] = NoMsg] /\ UNCHANGED <<fresh, ch, fetch, log, status>>
    BY <1>10 DEF MemoryCount, Memory!Count, Enqueued, kafkaVars
  <2> QED
    BY <2>1
<1>11. EnqueueRemote(p) => pdst[p] \in {"kafka", "sqs"}
  BY DEF EnqueueRemote
<1> QED
  BY <1>5, <1>6, <1>7, <1>8, <1>9, <1>10, <1>11 DEF EnqueueStep

LEMMA OtherPlaces ==
    ASSUME HandsInv, Places, OtherStep, NEW m \in Messages
    PROVE  PlaceOK(m)'
<1>1. /\ PlaceOK(m) /\ NoMsg # m /\ fetch \in Nat /\ fetch <= Len(log)
      /\ log \in Seq(Messages) /\ Len(log) \in Nat /\ status \in [Messages -> Sqs!Statuses]
  BY LenProperties DEF Places, HandsInv, TypeInv, TypeOK, Kafka!TypeOK, Sqs!TypeOK
<1>2. UNCHANGED <<msg, src, pmsg>>
  BY OtherFrame DEF workerVars
<1> USE <1>1, <1>2 DEF PlaceOK, OnePlace, OnceThere, Readable, AtWorker, AtProducer, InChannel, InLog
<1>3. ASSUME NEW n \in Messages, ExternalWrite(n) PROVE PlaceOK(m)'
  <2>1. n \in fresh /\ fresh' = fresh \ {n} /\ UNCHANGED <<ch, fetch>>
    BY <1>3 DEF ExternalWrite, Kafka!Publish, kafkaVars, memoryVars
  <2>2. CASE log' = Append(log, n) /\ UNCHANGED status
    <3>1. /\ Len(log') = Len(log) + 1 /\ log'[Len(log) + 1] = n
          /\ \A i \in 1..Len(log) : log'[i] = log[i]
      BY <2>2, AppendElements
    <3>2. CASE m = n
      BY <2>1, <2>2, <3>1, <3>2
    <3>3. CASE m # n
      BY <2>1, <2>2, <3>1, <3>3
    <3> QED
      BY <3>2, <3>3
  <2>3. CASE status' = [status EXCEPT ![n] = "visible"] /\ UNCHANGED log
    BY <2>1, <2>3
  <2> QED
    BY <1>3, <2>2, <2>3 DEF ExternalWrite, Kafka!Publish, Sqs!Send, kafkaVars
<1>4. ASSUME NEW n \in Messages, Expire(n) PROVE PlaceOK(m)'
  <2>1. /\ status[n] = "inflight" /\ status' = [status EXCEPT ![n] = "visible"]
        /\ UNCHANGED <<fresh, ch, fetch, log>>
    BY <1>4 DEF Expire, Sqs!Expire, kafkaVars, memoryVars, producerVars
  <2> QED
    BY <2>1
<1>5. CASE UNCHANGED <<fresh, ch, fetch, log, status>>
  BY <1>5
<1>6. ASSUME NEW t \in Types, Build(t) PROVE UNCHANGED <<fresh, ch, fetch, log, status>>
  BY <1>6, BuildKeeps DEF HandsInv, kafkaVars, memoryVars, Build, producerVars
<1>7. (\E t \in Types : Swap(t)) \/ (\E q \in Queries : StoreQuery(q)) \/ CloseReady \/ StopBegins \/ StopReturns
        => UNCHANGED <<fresh, ch, fetch, log, status>>
  BY DEF Swap, StoreQuery, CloseReady, StopBegins, StopReturns, producerVars, kafkaVars, memoryVars, backendVars
<1> QED
  BY <1>3, <1>4, <1>5, <1>6, <1>7 DEF OtherStep

LEMMA PlacesInit == Init => Places
<1> SUFFICES ASSUME Init, NEW m \in Messages PROVE PlaceOK(m)
  BY DEF Places
<1>1. /\ log = <<>> /\ ch = <<>> /\ status[m] = "absent" /\ \A w \in Workers : msg[w] # m
      /\ \A p \in Producers : pmsg[p] # m
  BY DEF Init, Kafka!Init, Memory!Init, Sqs!Init
<1> QED
  BY <1>1 DEF PlaceOK, OnePlace, OnceThere, Readable, AtWorker, AtProducer, InChannel, InLog

LEMMA PlacesStep == HandsInv /\ Places /\ [Next]_vars => Places'
<1> SUFFICES ASSUME HandsInv, Places, [Next]_vars, NEW m \in Messages PROVE PlaceOK(m)'
  BY DEF Places
<1>1. CASE Restart
  <2>1. /\ \A w \in Workers : msg'[w] # m
        /\ \A p \in Producers : pmsg'[p] # m
        /\ ch' = <<>> /\ UNCHANGED <<fresh, log, status>>
    BY <1>1 DEF Restart, Memory!New, Kafka!Open, Kafka!durableVars
  <2>2. ~AtWorker(m)' /\ ~AtProducer(m)'
    BY <2>1 DEF AtWorker, AtProducer
  <2>3. Len(ch') = 0 /\ ~InChannel(m)'
    BY <2>1 DEF InChannel
  <2>4. InLog(m)' <=> InLog(m)
    BY <2>1 DEF InLog
  <2>5. PlaceOK(m)
    BY DEF Places
  <2>6. OnceThere(m)'
    <3>1. \A i, j \in 1..Len(log') : log'[i] = m /\ log'[j] = m => i = j
      BY <2>1, <2>5 DEF PlaceOK, OnceThere
    <3> QED
      BY <2>1, <2>2, <2>3, <3>1 DEF OnceThere
  <2> QED
    BY <2>1, <2>2, <2>3, <2>4, <2>5, <2>6 DEF PlaceOK, OnePlace, Readable
<1>2. CASE UNCHANGED vars
  BY <1>2 DEF vars, workerVars, producerVars, backendVars, Places, PlaceOK, OnePlace, OnceThere, Readable,
     AtWorker, AtProducer, InChannel, InLog
<1> QED
  BY <1>1, <1>2, NextCases, CyclePlaces, EnqueuePlaces, OtherPlaces

PlacesInv == HandsInv /\ Places

LEMMA PlacesAlways == Spec => []PlacesInv
<1>1. PlacesInv /\ [Next]_vars => PlacesInv'
  BY HandsInvStep, PlacesStep DEF PlacesInv
<1>2. Init => PlacesInv
  BY HandsInvInit, PlacesInit DEF PlacesInv
<1> QED
  BY <1>1, <1>2, PTL DEF Spec

-----------------------------------------------------------------------------
(* One process pushes a message once.                                        *)

(* Where a message can be pushed from without a restart, if SQS does not hand *)
(* it out.                                                                    *)
InPlay(m) ==
    \/ m \in fresh \/ AtProducer(m) \/ InChannel(m)
    \/ \E i \in 1..Len(log) : i > fetch /\ log[i] = m
    \/ \E w \in Workers : pc[w] = "push" /\ msg[w] = m

(* A message still in play was confirmed by earlier processes only.          *)
Budget == \A m \in Messages : status[m] = "absent" /\ InPlay(m) => pushes[m] <= restarts

LEMMA AbsentFrom ==
    ASSUME TypeInv, [Next]_vars, NEW m \in Messages, status'[m] = "absent"
    PROVE  status[m] = "absent"
<1>1. SqsStep /\ status \in [Messages -> Sqs!Statuses]
  BY BackendSteps DEF TypeInv, TypeOK, Sqs!TypeOK
<1> QED
  BY <1>1 DEF SqsStep, AckOfSqs, Sqs!Statuses, Sqs!Send, Sqs!Expire, Sqs!Receive, Sqs!Delete

LEMMA CycleInPlay ==
    ASSUME PlacesInv, NEW w \in Workers, CycleStep(w), NEW m \in Messages, status'[m] = "absent", InPlay(m)'
    PROVE  InPlay(m)
<1>1. /\ WorkerTypeOK /\ SwitchTypeOK /\ NoMsg # m /\ Len(log) \in Nat /\ fetch \in Nat /\ fetch <= Len(log)
      /\ ch \in Seq(Messages)
  BY LenProperties DEF PlacesInv, HandsInv, TypeInv, TypeOK, Kafka!TypeOK, Memory!TypeOK
<1>2. UNCHANGED <<fresh, pmsg, log>>
  BY <1>1, CycleFrame DEF producerVars
<1> USE <1>1, <1>2 DEF InPlay, AtProducer, InChannel
<1>3. CASE pc'[w] # "push" /\ fetch' \in {fetch, fetch + 1} /\ (ch' = ch \/ (ch # <<>> /\ ch' = Tail(ch)))
  <2>1. \A v \in Workers : pc'[v] = "push" /\ msg'[v] = m => pc[v] = "push" /\ msg[v] = m
    BY <1>3, OthersKept
  <2>2. InChannel(m)' => InChannel(m)
    <3>1. CASE ch' = ch
      BY <3>1
    <3>2. CASE ch # <<>> /\ ch' = Tail(ch)
      <4>1. /\ Len(ch) \in Nat /\ Len(ch') = Len(ch) - 1
            /\ \A i \in 1..Len(ch) - 1 : ch'[i] = ch[i + 1]
        BY <1>1, <3>2, TailElements
      <4> QED
        BY <4>1
    <3> QED
      BY <1>3, <3>1, <3>2
  <2>3. ASSUME NEW i \in 1..Len(log), i > fetch', log[i] = m
        PROVE  i > fetch /\ log[i] = m
    BY <1>3, <2>3
  <2>4. AtProducer(m)' => AtProducer(m)
    OBVIOUS
  <2> QED
    BY <2>1, <2>2, <2>3, <2>4
<1>4. CASE KafkaReceive(w)
  <2>1. fetch < Len(log) /\ fetch' = fetch + 1 /\ ch' = ch
    BY <1>4 DEF KafkaReceive, Kafka!Receive, Kafka!HasRecord, memoryVars
  <2>2. pc'[w] = "push" => msg'[w] = log[fetch + 1]
    BY <1>4 DEF KafkaReceive, Kafka!Record, Stay, Go, Take, WorkerTypeOK
  <2> QED
    BY <2>1, <2>2, OthersKept
<1>5. CASE MemoryReceive(w)
  <2>1. ch # <<>> /\ ch' = Tail(ch) /\ msg'[w] = Head(ch) /\ fetch' = fetch
    BY <1>5 DEF MemoryReceive, Memory!Receive, Memory!HasMessage, kafkaVars, Take, WorkerTypeOK
  <2>2. InChannel(m)' \/ m = Head(ch) => InChannel(m)
    BY <2>1, TailElements
  <2> QED
    BY <2>1, <2>2, OthersKept
<1>6. CASE ConstReceive(w) \/ ConstReady(w)
  <2>1. UNCHANGED <<ch, fetch>>
    BY <1>6 DEF ConstReceive, ConstReady, backendVars
  <2>2. pc'[w] = "push" => msg'[w] # m
    BY <1>6 DEF ConstReceive, ConstReady, Stay, Go, Take, Body, WorkerTypeOK
  <2> QED
    BY <2>1, <2>2, OthersKept
<1>7. CASE SqsReceive(w)
  <2>1. PICK S \in Sqs!Batches :
          Sqs!Receive(S) /\ \E n \in S : IF n \in Poison THEN Stay(w, "failed") ELSE Take(w, n, 0)
    BY <1>7, Zenon DEF SqsReceive
  <2>2. PICK n \in S : IF n \in Poison THEN Stay(w, "failed") ELSE Take(w, n, 0)
    BY <2>1
  <2>3. status'[n] # "absent" /\ n \in Messages
    BY <2>1 DEF Sqs!Receive, Sqs!Batches, Sqs!InStatus
  <2>4. UNCHANGED <<ch, fetch>>
    BY <1>7 DEF SqsReceive, kafkaVars, memoryVars
  <2>5. pc'[w] = "push" => msg'[w] # m
    BY <2>2, <2>3 DEF Stay, Go, Take, WorkerTypeOK
  <2> QED
    BY <2>4, <2>5, OthersKept
<1>8. CASE StartCycle(w) \/ Exit(w) \/ Snapshot(w) \/ Cancelled(w) \/ Retry(w) \/ ReturnError(w) \/ PushOk(w)
           \/ PushFails(w) \/ SqsReceiveFails(w) \/ Ack(w) \/ AckFails(w)
  <2>1. pc'[w] # "push"
    BY <1>8 DEF StartCycle, Exit, Snapshot, Cancelled, Retry, ReturnError, PushOk, PushFails, SqsReceiveFails, Ack,
       AckFails, Stay, Go, Drop, WorkerTypeOK
  <2>2. CASE Ack(w)
    <3>1. fetch' = fetch
      BY <2>2 DEF Ack, AckClosure, Kafka!MarkOffset, kafkaVars, SwitchTypeOK, AllTypes
    <3>2. ch' = ch
      BY <2>2 DEF Ack, Memory!Ack, memoryVars, SwitchTypeOK, AllTypes
    <3> QED
      BY <1>3, <2>1, <3>1, <3>2
  <2>3. CASE ~Ack(w)
    <3>1. UNCHANGED <<ch, fetch>>
      BY <1>8, <2>3 DEF StartCycle, Exit, Snapshot, Cancelled, Retry, ReturnError, PushOk, PushFails, SqsReceiveFails,
         AckFails, kafkaVars, memoryVars, backendVars
    <3> QED
      BY <1>3, <2>1, <3>1
  <2> QED
    BY <2>2, <2>3
<1> QED
  BY <1>4, <1>5, <1>6, <1>7, <1>8 DEF CycleStep, Receive

LEMMA EnqueueInPlay ==
    ASSUME PlacesInv, NEW p \in Producers, EnqueueStep(p) \/ CreateStep(p), NEW m \in Messages,
           status'[m] = "absent", InPlay(m)'
    PROVE  InPlay(m)
<1>1. /\ NoMsg # m /\ fetch \in Nat /\ log \in Seq(Messages) /\ ch \in Seq(Messages) /\ Len(log) \in Nat
      /\ Len(ch) \in Nat /\ fetch <= Len(log) /\ pmsg \in [Producers -> Messages \cup {NoMsg}]
  BY LenProperties DEF PlacesInv, HandsInv, TypeInv, TypeOK, Kafka!TypeOK, Memory!TypeOK, ProducerTypeOK
<1>2. UNCHANGED <<pc, msg>>
  BY EnqueueFrame DEF workerVars
<1>3. ppc[p] \in {"enqueue", "send"} => pmsg[p] \in Messages
  BY DEF PlacesInv, HandsInv, TypeInv, ProducersHold
<1> USE <1>1, <1>2 DEF InPlay, AtProducer, InChannel
<1>4. CASE CreateStep(p)
  <2>1. PICK n \in fresh : fresh' = fresh \ {n} /\ pmsg' = [pmsg EXCEPT ![p] = n]
    BY <1>4 DEF CreateStep, Create
  <2>2. UNCHANGED <<ch, log, fetch>>
    BY <1>4 DEF CreateStep, Create, backendVars
  <2> QED
    BY <2>1, <2>2
<1>5. CASE EnqueueRemote(p) /\ pdst[p] = "kafka"
  <2>1. /\ log' = Append(log, pmsg[p]) /\ pmsg' = [pmsg EXCEPT ![p] = NoMsg] /\ pmsg[p] \in Messages
        /\ UNCHANGED <<fresh, ch, fetch>>
    BY <1>3, <1>5 DEF EnqueueRemote, Kafka!Publish, Enqueued, memoryVars
  <2> QED
    BY <2>1, AppendElements
<1>6. CASE MemorySend(p)
  <2>1. /\ ch' = Append(ch, pmsg[p]) /\ pmsg' = [pmsg EXCEPT ![p] = NoMsg] /\ pmsg[p] \in Messages
        /\ UNCHANGED <<fresh, log, fetch>>
    BY <1>3, <1>6 DEF MemorySend, Memory!Send, kafkaVars
  <2> QED
    BY <2>1, AppendElements
<1>7. CASE (EnqueueRemote(p) /\ pdst[p] = "sqs") \/ EnqueueRemoteFails(p) \/ EnqueueConst(p) \/ MemoryCount(p)
  <2>1. pmsg' = [pmsg EXCEPT ![p] = NoMsg] /\ UNCHANGED <<fresh, ch, fetch, log>>
    BY <1>7 DEF EnqueueRemote, EnqueueRemoteFails, EnqueueConst, MemoryCount, Memory!Count, Enqueued, memoryVars,
       kafkaVars, backendVars
  <2> QED
    BY <2>1
<1>8. EnqueueRemote(p) => pdst[p] \in {"kafka", "sqs"}
  BY DEF EnqueueRemote
<1> QED
  BY <1>4, <1>5, <1>6, <1>7, <1>8 DEF EnqueueStep

LEMMA OtherInPlay ==
    ASSUME PlacesInv, OtherStep, NEW m \in Messages, InPlay(m)'
    PROVE  InPlay(m)
<1>1. fetch \in Nat /\ log \in Seq(Messages) /\ Len(log) \in Nat /\ fetch <= Len(log)
  BY LenProperties DEF PlacesInv, HandsInv, TypeInv, TypeOK, Kafka!TypeOK
<1>2. UNCHANGED <<pc, msg, pmsg>>
  BY OtherFrame DEF workerVars
<1> USE <1>1, <1>2 DEF InPlay, AtProducer, InChannel
<1>3. ASSUME NEW n \in Messages, ExternalWrite(n) PROVE InPlay(m)
  <2>1. n \in fresh /\ fresh' = fresh \ {n} /\ UNCHANGED <<ch, fetch>> /\ log' \in {log, Append(log, n)}
    BY <1>3 DEF ExternalWrite, Kafka!Publish, kafkaVars, memoryVars
  <2> QED
    BY <2>1, AppendElements
<1>4. CASE UNCHANGED <<fresh, ch, fetch, log>>
  BY <1>4
<1>5. ASSUME NEW t \in Types, Build(t) PROVE UNCHANGED <<fresh, ch, fetch, log>>
  BY <1>5, BuildKeeps DEF PlacesInv, HandsInv, kafkaVars, memoryVars, Build, producerVars
<1>6. (\E n \in Messages : Expire(n)) \/ (\E t \in Types : Swap(t)) \/ (\E q \in Queries : StoreQuery(q))
      \/ CloseReady \/ StopBegins \/ StopReturns => UNCHANGED <<fresh, ch, fetch, log>>
  BY DEF Expire, Swap, StoreQuery, CloseReady, StopBegins, StopReturns, producerVars, kafkaVars, memoryVars,
     backendVars
<1> QED
  BY <1>3, <1>4, <1>5, <1>6 DEF OtherStep

(* Only PushOk confirms, and only the message in its worker's hands.         *)
LEMMA PushesStep ==
    ASSUME TypeInv, [Next]_vars, NEW m \in Messages, pushes'[m] # pushes[m]
    PROVE  /\ \E w \in Workers : PushOk(w) /\ msg[w] = m
           /\ pushes'[m] = pushes[m] + 1
<1> USE DEF TypeInv, TypeOK, BoundTypeOK
<1>1. ASSUME NEW w \in Workers, CycleStep(w) PROVE PushOk(w)
  BY <1>1, Zenon DEF CycleStep, Receive, StartCycle, Exit, Snapshot, KafkaReceive, MemoryReceive, ConstReceive,
     SqsReceive, ConstReady, SqsReceiveFails, Cancelled, Retry, ReturnError, PushFails, Ack, AckFails
<1>2. PICK w \in Workers : PushOk(w)
  <2>1. ~Restart /\ ~OtherStep /\ ~UNCHANGED vars
    BY OtherFrame DEF Restart, vars
  <2> QED
    BY <1>1, <2>1, NextCases, EnqueueFrame
<1> QED
  BY <1>2 DEF PushOk

LEMMA BudgetStep ==
    ASSUME PlacesInv, Budget, OncePerProcess, [Next]_vars
    PROVE  Budget' /\ OncePerProcess'
<1> SUFFICES ASSUME NEW m \in Messages, status'[m] = "absent"
             PROVE  (InPlay(m)' => pushes'[m] <= restarts') /\ pushes'[m] <= restarts' + 1
  BY DEF Budget, OncePerProcess
<1> USE DEF PlacesInv, HandsInv, TypeInv, TypeOK, BoundTypeOK
<1>1. /\ status[m] = "absent" /\ pushes[m] <= restarts + 1 /\ (InPlay(m) => pushes[m] <= restarts)
      /\ pushes[m] \in Nat /\ restarts \in Nat
  BY AbsentFrom DEF Budget, OncePerProcess, PushCap
<1>2. CASE Restart
  BY <1>1, <1>2 DEF Restart
<1>3. CASE ~Restart /\ pushes'[m] = pushes[m]
  <2>1. InPlay(m)' => InPlay(m)
    <3>1. UNCHANGED vars => (InPlay(m)' <=> InPlay(m))
      BY DEF vars, workerVars, producerVars, backendVars, InPlay, AtProducer, InChannel
    <3> QED
      BY <1>3, <3>1, NextCases, CycleInPlay, EnqueueInPlay, OtherInPlay
  <2>2. restarts' = restarts
    BY <1>3, NextCases, CycleFrame, EnqueueFrame, OtherFrame DEF vars, boundVars
  <2> QED
    BY <1>1, <1>3, <2>1, <2>2
<1>4. CASE pushes'[m] # pushes[m]
  <2>1. PICK w \in Workers : PushOk(w) /\ msg[w] = m
    BY <1>4, PushesStep
  <2>2. pushes'[m] = pushes[m] + 1
    BY <1>4, PushesStep
  <2>3. pc[w] = "push" /\ pc' = [pc EXCEPT ![w] = "ack"] /\ UNCHANGED <<msg, restarts, fresh, pmsg, ch, log, fetch>>
    BY <2>1 DEF PushOk, Stay, Go, boundVars, producerVars, backendVars
  <2>4. InPlay(m)
    BY <2>1, <2>3 DEF InPlay
  <2>5. PlaceOK(m)
    BY DEF Places
  <2>6. ~InPlay(m)'
    BY <1>1, <2>1, <2>3, <2>5 DEF InPlay, PlaceOK, OnePlace, OnceThere, AtWorker, AtProducer, InChannel,
       WorkerTypeOK
  <2> QED
    BY <1>1, <2>2, <2>3, <2>4, <2>6
<1> QED
  BY <1>2, <1>3, <1>4

(* A process delivers a message at most once, unless SQS makes it visible    *)
(* again: what another worker, a switch back or a full channel could repeat  *)
(* is in one place at a time, and leaves it for good.                        *)
THEOREM PushedOnce == Spec => []OncePerProcess
<1>1. Init => Budget /\ OncePerProcess
  BY DEF Init, Budget, OncePerProcess
<1>2. PlacesInv /\ Budget /\ OncePerProcess /\ [Next]_vars => (Budget /\ OncePerProcess)'
  BY BudgetStep
<1> QED
  BY <1>1, <1>2, PlacesAlways, PTL DEF Spec

-----------------------------------------------------------------------------
(* Without a failure, no message is lost.                                    *)

Undelivered(m) ==
    \/ m \in fresh \/ m \in discarded \/ AtWorker(m) \/ AtProducer(m) \/ InChannel(m)
    \/ \E i \in 1..Len(log) : i > fetch /\ log[i] = m
    \/ status[m] \in {"visible", "inflight"}
Accounted(m) == Undelivered(m) \/ m \in Confirmed
Calm == failures = 0 /\ restarts = 0 /\ run = "running"

LEMMA CalmBefore ==
    ASSUME TypeInv, [Next]_vars, Calm'
    PROVE  Calm /\ failures' = failures /\ ~Restart
<1> USE DEF TypeInv, TypeOK, BoundTypeOK, Calm, Fail
<1>1. ~Restart
  BY DEF Restart
<1>2. restarts' = restarts
  BY <1>1, NextCases, CycleFrame, EnqueueFrame, OtherFrame DEF vars, boundVars
<1>3. run' = run \/ run' # "running"
  <2>1. CASE OtherStep
    BY <2>1 DEF OtherStep, ExternalWrite, Expire, Build, Swap, StoreQuery, CloseReady, StopBegins, StopReturns
  <2> QED
    BY <1>1, <2>1, NextCases, CycleFrame, EnqueueFrame DEF vars
<1>4. failures' = failures \/ failures' = failures + 1
  <2>1. ASSUME NEW w \in Workers, CycleStep(w) PROVE failures' = failures \/ failures' = failures + 1
    <3>1. CASE PushFails(w) \/ AckFails(w) \/ SqsReceiveFails(w)
      BY <3>1 DEF PushFails, AckFails, SqsReceiveFails
    <3>2. CASE ~(PushFails(w) \/ AckFails(w) \/ SqsReceiveFails(w))
      BY <2>1, <3>2, Zenon DEF CycleStep, Receive, StartCycle, Exit, Snapshot, KafkaReceive, MemoryReceive,
         ConstReceive, SqsReceive, ConstReady, Cancelled, Retry, ReturnError, PushOk, Ack, boundVars
    <3> QED
      BY <3>1, <3>2
  <2>2. ASSUME NEW p \in Producers, EnqueueStep(p) \/ CreateStep(p)
        PROVE  failures' = failures \/ failures' = failures + 1
    BY <2>2 DEF EnqueueStep, CreateStep, EnqueueRemote, EnqueueRemoteFails, EnqueueConst, MemorySend, MemoryCount,
       Create, boundVars
  <2> QED
    BY <1>1, <2>1, <2>2, NextCases, OtherFrame DEF vars, boundVars
<1> QED
  BY <1>1, <1>2, <1>3, <1>4

LEMMA CycleAccounts ==
    ASSUME PlacesInv, AckConfirmed, NEW w \in Workers, CycleStep(w), Calm, failures' = failures,
           NEW m \in Messages \ Poison, Undelivered(m)
    PROVE  Undelivered(m)' \/ m \in Confirmed
<1>1. /\ WorkerTypeOK /\ SwitchTypeOK /\ NoMsg # m /\ Len(log) \in Nat /\ fetch \in Nat /\ ch \in Seq(Messages)
      /\ status \in [Messages -> Sqs!Statuses] /\ failures \in Nat
  BY LenProperties DEF PlacesInv, HandsInv, TypeInv, TypeOK, Kafka!TypeOK, Memory!TypeOK, Sqs!TypeOK, Calm
<1>2. UNCHANGED <<fresh, discarded, pmsg, log>>
  BY <1>1, CycleFrame DEF producerVars
<1>3. ~Holding(w) => msg[w] = NoMsg
  BY DEF PlacesInv, HandsInv, WorkersEmpty
<1>4. ~CtxDone /\ ~Fail
  BY <1>1 DEF Calm, CtxDone, Fail
<1> USE <1>1, <1>2, <1>3 DEF Undelivered, AtWorker, AtProducer, InChannel
<1>5. CASE StartCycle(w) \/ Exit(w) \/ Snapshot(w) \/ Cancelled(w) \/ Retry(w) \/ ReturnError(w) \/ PushOk(w)
  <2>1. UNCHANGED <<msg, ch, fetch, status>>
    BY <1>5, Zenon DEF StartCycle, Exit, Snapshot, Cancelled, Retry, ReturnError, PushOk, backendVars, Stay
  <2> QED
    BY <2>1
<1>6. CASE KafkaReceive(w)
  <2>1. msg[w] = NoMsg /\ fetch < Len(log) /\ fetch' = fetch + 1 /\ UNCHANGED <<ch, status>>
    BY <1>6 DEF KafkaReceive, Kafka!Receive, Kafka!HasRecord, memoryVars, Holding
  <2>2. msg' = IF log[fetch + 1] \in Poison THEN msg ELSE [msg EXCEPT ![w] = log[fetch + 1]]
    BY <1>6 DEF KafkaReceive, Kafka!Record, Stay, Take
  <2>3. CASE m = log[fetch + 1]
    <3>1. msg'[w] = m
      BY <2>2, <2>3 DEF WorkerTypeOK
    <3> QED
      BY <3>1
  <2>4. CASE m # log[fetch + 1]
    <3>1. \A v \in Workers : msg[v] = m => msg'[v] = m
      BY <2>1, <2>2 DEF WorkerTypeOK
    <3> QED
      BY <2>1, <2>4, <3>1
  <2> QED
    BY <2>3, <2>4
<1>7. CASE MemoryReceive(w)
  <2>1. /\ msg[w] = NoMsg /\ ch # <<>> /\ ch' = Tail(ch) /\ msg' = [msg EXCEPT ![w] = Head(ch)]
        /\ UNCHANGED <<fetch, status>>
    BY <1>7 DEF MemoryReceive, Memory!Receive, Memory!HasMessage, kafkaVars, Holding, Take
  <2>2. \A v \in Workers : msg[v] = m => msg'[v] = m
    BY <2>1 DEF WorkerTypeOK
  <2>3. /\ Len(ch) \in Nat \ {0} /\ Len(ch') = Len(ch) - 1 /\ Head(ch) = ch[1]
        /\ \A i \in 1..Len(ch) - 1 : ch'[i] = ch[i + 1]
    BY <2>1, TailElements
  <2>4. ASSUME NEW i \in 1..Len(ch), ch[i] = m PROVE InChannel(m)' \/ AtWorker(m)'
    <3>1. CASE i = 1
      BY <2>1, <2>3, <2>4, <3>1 DEF WorkerTypeOK
    <3>2. CASE i # 1
      <4>1. i - 1 \in 1..Len(ch') /\ ch'[i - 1] = m
        BY <2>3, <2>4, <3>2
      <4> QED
        BY <4>1
    <3> QED
      BY <3>1, <3>2
  <2> QED
    BY <2>1, <2>2, <2>4
<1>8. CASE ConstReceive(w) \/ ConstReady(w)
  <2>1. UNCHANGED <<ch, fetch, status>>
    BY <1>8 DEF ConstReceive, ConstReady, backendVars
  <2>2. \A v \in Workers : msg[v] = m => msg'[v] = m
    BY <1>8 DEF ConstReceive, ConstReady, Stay, Take, WorkerTypeOK, Holding
  <2> QED
    BY <2>1, <2>2
<1>9. CASE SqsReceive(w)
  <2>1. PICK S \in Sqs!Batches :
          Sqs!Receive(S) /\ \E n \in S : IF n \in Poison THEN Stay(w, "failed") ELSE Take(w, n, 0)
    BY <1>9, Zenon DEF SqsReceive
  <2>2. status'[m] \in {status[m], "inflight"}
    BY <2>1 DEF Sqs!Receive
  <2>3. \A v \in Workers : msg[v] = m => msg'[v] = m
    BY <1>9, <2>1 DEF SqsReceive, Stay, Take, WorkerTypeOK, Holding
  <2>4. UNCHANGED <<ch, fetch>>
    BY <1>9 DEF SqsReceive, kafkaVars, memoryVars
  <2> QED
    BY <2>2, <2>3, <2>4
<1>10. CASE SqsReceiveFails(w)
  <2>1. UNCHANGED <<ch, fetch, msg>>
    BY <1>10 DEF SqsReceiveFails, kafkaVars, memoryVars, Stay
  <2>2. status'[m] \in {status[m], "inflight"}
    BY <1>10 DEF SqsReceiveFails, Sqs!Receive
  <2> QED
    BY <2>1, <2>2
<1>11. ~PushFails(w) /\ ~AckFails(w)
  BY <1>4 DEF PushFails, AckFails
<1>12. CASE Ack(w)
  <2>1. msg[w] \in Messages => msg[w] \in Confirmed
    BY <1>12 DEF Ack, AckConfirmed
  <2>2. \A v \in Workers : msg[v] # msg[w] => msg'[v] = msg[v]
    BY <1>12 DEF Ack, Drop, WorkerTypeOK
  <2>3. fetch' = fetch
    BY <1>12 DEF Ack, AckClosure, Kafka!MarkOffset, kafkaVars, SwitchTypeOK, AllTypes
  <2>4. ch' = ch
    BY <1>12 DEF Ack, Memory!Ack, memoryVars, SwitchTypeOK, AllTypes
  <2>5. status'[m] = status[m] \/ msg[w] = m
    BY <1>12, AckOnStatus DEF Deleted
  <2> QED
    BY <2>1, <2>2, <2>3, <2>4, <2>5
<1> QED
  BY <1>5, <1>6, <1>7, <1>8, <1>9, <1>10, <1>11, <1>12 DEF CycleStep, Receive

LEMMA EnqueueAccounts ==
    ASSUME PlacesInv, NEW p \in Producers, EnqueueStep(p) \/ CreateStep(p),
           NEW m \in Messages \ Poison, Undelivered(m)
    PROVE  Undelivered(m)'
<1>1. /\ NoMsg # m /\ fetch \in Nat /\ log \in Seq(Messages) /\ ch \in Seq(Messages) /\ Len(log) \in Nat
      /\ Len(ch) \in Nat /\ fetch <= Len(log) /\ pmsg \in [Producers -> Messages \cup {NoMsg}]
      /\ status \in [Messages -> Sqs!Statuses]
  BY LenProperties DEF PlacesInv, HandsInv, TypeInv, TypeOK, Kafka!TypeOK, Memory!TypeOK, ProducerTypeOK, Sqs!TypeOK
<1>2. msg' = msg
  BY EnqueueFrame DEF workerVars
<1>3. ppc[p] \in {"enqueue", "send"} => pmsg[p] \in Messages
  BY DEF PlacesInv, HandsInv, TypeInv, ProducersHold
<1>4. ppc[p] \notin {"enqueue", "send"} => pmsg[p] = NoMsg
  BY DEF PlacesInv, HandsInv, ProducersEmpty
<1> USE <1>1, <1>2 DEF Undelivered, AtWorker, AtProducer, InChannel
<1>5. CASE CreateStep(p)
  <2>1. PICK n \in fresh : fresh' = fresh \ {n} /\ pmsg' = [pmsg EXCEPT ![p] = n]
    BY <1>5 DEF CreateStep, Create
  <2>2. UNCHANGED <<ch, log, fetch, status, discarded>> /\ pmsg[p] = NoMsg
    BY <1>4, <1>5 DEF CreateStep, Create, backendVars
  <2> QED
    BY <2>1, <2>2
<1>6. CASE EnqueueRemote(p) /\ pdst[p] = "kafka"
  <2>1. /\ log' = Append(log, pmsg[p]) /\ pmsg' = [pmsg EXCEPT ![p] = NoMsg] /\ pmsg[p] \in Messages
        /\ UNCHANGED <<fresh, ch, fetch, status, discarded>>
    BY <1>3, <1>6 DEF EnqueueRemote, Kafka!Publish, Enqueued, memoryVars
  <2>2. /\ Len(log') = Len(log) + 1 /\ log'[Len(log) + 1] = pmsg[p]
        /\ \A i \in 1..Len(log) : log'[i] = log[i]
    BY <2>1, AppendElements
  <2>3. CASE m = pmsg[p]
    BY <2>1, <2>2, <2>3
  <2>4. CASE m # pmsg[p]
    BY <2>1, <2>2, <2>4
  <2> QED
    BY <2>3, <2>4
<1>7. CASE EnqueueRemote(p) /\ pdst[p] = "sqs"
  <2>1. /\ status' = [status EXCEPT ![pmsg[p]] = "visible"] /\ pmsg' = [pmsg EXCEPT ![p] = NoMsg]
        /\ pmsg[p] \in Messages /\ UNCHANGED <<fresh, ch, fetch, log, discarded>>
    BY <1>3, <1>7 DEF EnqueueRemote, Sqs!Send, Enqueued, memoryVars, kafkaVars
  <2> QED
    BY <2>1
<1>8. CASE EnqueueRemoteFails(p) \/ EnqueueConst(p)
  <2>1. /\ pmsg' = [pmsg EXCEPT ![p] = NoMsg] /\ discarded' = discarded \cup {pmsg[p]}
        /\ UNCHANGED <<fresh, ch, fetch, log, status>>
    BY <1>8 DEF EnqueueRemoteFails, EnqueueConst, Enqueued, backendVars
  <2> QED
    BY <2>1
<1>9. CASE MemorySend(p)
  <2>1. /\ ch' = Append(ch, pmsg[p]) /\ pmsg' = [pmsg EXCEPT ![p] = NoMsg] /\ pmsg[p] \in Messages
        /\ UNCHANGED <<fresh, log, fetch, status, discarded>>
    BY <1>3, <1>9 DEF MemorySend, Memory!Send, kafkaVars
  <2>2. /\ Len(ch') = Len(ch) + 1 /\ ch'[Len(ch) + 1] = pmsg[p]
        /\ \A i \in 1..Len(ch) : ch'[i] = ch[i]
    BY <2>1, AppendElements
  <2>3. CASE m = pmsg[p]
    BY <2>1, <2>2, <2>3
  <2>4. CASE m # pmsg[p]
    BY <2>1, <2>2, <2>4
  <2> QED
    BY <2>3, <2>4
<1>10. CASE MemoryCount(p)
  <2>1. UNCHANGED <<fresh, ch, fetch, log, status, discarded>> /\ pmsg' = [pmsg EXCEPT ![p] = NoMsg]
        /\ pmsg[p] = NoMsg
    BY <1>4, <1>10 DEF MemoryCount, Memory!Count, Enqueued, kafkaVars
  <2> QED
    BY <2>1
<1>11. EnqueueRemote(p) => pdst[p] \in {"kafka", "sqs"}
  BY DEF EnqueueRemote
<1> QED
  BY <1>5, <1>6, <1>7, <1>8, <1>9, <1>10, <1>11 DEF EnqueueStep

LEMMA OtherAccounts ==
    ASSUME PlacesInv, OtherStep, NEW m \in Messages \ Poison, Undelivered(m)
    PROVE  Undelivered(m)'
<1>1. /\ fetch \in Nat /\ log \in Seq(Messages) /\ Len(log) \in Nat /\ fetch <= Len(log)
      /\ status \in [Messages -> Sqs!Statuses]
  BY LenProperties DEF PlacesInv, HandsInv, TypeInv, TypeOK, Kafka!TypeOK, Sqs!TypeOK
<1>2. UNCHANGED <<msg, pmsg, discarded>>
  BY OtherFrame DEF workerVars
<1> USE <1>1, <1>2 DEF Undelivered, AtProducer, AtWorker, InChannel
<1>3. ASSUME NEW n \in Messages, ExternalWrite(n) PROVE Undelivered(m)'
  <2>1. n \in Poison /\ fresh' = fresh \ {n} /\ UNCHANGED <<ch, fetch>>
        /\ log' \in {log, Append(log, n)}
    BY <1>3 DEF ExternalWrite, Kafka!Publish, kafkaVars, memoryVars
  <2>2. status'[m] = status[m]
    BY <1>3, <2>1 DEF ExternalWrite, Sqs!Send
  <2>3. Len(log) <= Len(log') /\ \A i \in 1..Len(log) : log'[i] = log[i]
    BY <1>3, <2>1, AppendElements
  <2>4. Len(log') \in Nat
    BY <1>3, <2>1, AppendElements
  <2> QED
    BY <2>1, <2>2, <2>3, <2>4
<1>4. CASE UNCHANGED <<fresh, ch, fetch, log, status>>
  BY <1>4
<1>5. ASSUME NEW t \in Types, Build(t) PROVE UNCHANGED <<fresh, ch, fetch, log, status>>
  BY <1>5, BuildKeeps DEF PlacesInv, HandsInv, kafkaVars, memoryVars, Build, producerVars
<1>6. ASSUME NEW n \in Messages, Expire(n) PROVE Undelivered(m)'
  <2>1. status[n] = "inflight" /\ status' = [status EXCEPT ![n] = "visible"] /\ UNCHANGED <<fresh, ch, fetch, log>>
    BY <1>6 DEF Expire, Sqs!Expire, producerVars, kafkaVars, memoryVars
  <2> QED
    BY <2>1
<1>7. (\E t \in Types : Swap(t)) \/ (\E q \in Queries : StoreQuery(q)) \/ CloseReady \/ StopBegins \/ StopReturns
        => UNCHANGED <<fresh, ch, fetch, log, status>>
  BY DEF Swap, StoreQuery, CloseReady, StopBegins, StopReturns, producerVars, kafkaVars, memoryVars, backendVars
<1> QED
  BY <1>3, <1>4, <1>5, <1>6, <1>7 DEF OtherStep

AllAccounted == Calm => \A m \in Messages \ Poison : Accounted(m)

LEMMA AccountedStep ==
    ASSUME PlacesInv, AckConfirmed, AllAccounted, [Next]_vars
    PROVE  AllAccounted'
<1> SUFFICES ASSUME Calm', NEW m \in Messages \ Poison PROVE Accounted(m)'
  BY DEF AllAccounted
<1> USE DEF PlacesInv, HandsInv, TypeInv, TypeOK
<1>1. Calm /\ failures' = failures /\ ~Restart
  BY CalmBefore
<1>2. Accounted(m) /\ Confirmed \subseteq Confirmed'
  BY <1>1, ConfirmedGrows DEF AllAccounted
<1>3. CASE Undelivered(m) /\ ~UNCHANGED vars
  <2>1. Undelivered(m)' \/ m \in Confirmed
    BY <1>1, <1>3, NextCases, CycleAccounts, EnqueueAccounts, OtherAccounts
  <2> QED
    BY <1>2, <2>1 DEF Accounted
<1>4. CASE Undelivered(m) /\ UNCHANGED vars
  BY <1>4 DEF vars, workerVars, producerVars, backendVars, Accounted, Undelivered, AtWorker, AtProducer, InChannel
<1>5. CASE m \in Confirmed
  BY <1>2, <1>5 DEF Accounted
<1> QED
  BY <1>2, <1>3, <1>4, <1>5 DEF Accounted

(* While nothing fails and nothing is shut down, every created message is in *)
(* somebody's hands, in a backend that will deliver it, or confirmed: a      *)
(* switch away from a queue and back loses none, for all four backends.      *)
THEOREM NothingLost == Spec => []NothingLostWithoutFailure
<1>1. Init => AllAccounted
  BY DEF Init, AllAccounted, Accounted, Undelivered
<1>2. PlacesInv /\ AckConfirmed /\ AllAccounted /\ [Next]_vars => AllAccounted'
  BY AccountedStep
<1>3. Init => AckConfirmed
  BY SettledInvInit DEF SettledInv
<1>4. PlacesInv /\ AckConfirmed /\ [Next]_vars => AckConfirmed'
  BY AckConfirmedStep DEF PlacesInv, HandsInv, TypeInv, TypeOK
<1>5. PlacesInv /\ AllAccounted => NothingLostWithoutFailure
  <2> SUFFICES ASSUME PlacesInv, NEW m \in Messages, Undelivered(m)
               PROVE  m \in fresh \cup discarded \cup InHand \cup Backlog
    BY DEF AllAccounted, Accounted, Calm, NothingLostWithoutFailure
  <2>1. /\ DOMAIN msg = Workers /\ DOMAIN pmsg = Producers /\ DOMAIN ch = 1..Len(ch) /\ fetch \in Nat
        /\ Len(log) \in Nat
    BY LenProperties DEF PlacesInv, HandsInv, TypeInv, TypeOK, WorkerTypeOK, ProducerTypeOK, Memory!TypeOK, Kafka!TypeOK
  <2>2. AtWorker(m) \/ AtProducer(m) => m \in InHand
    BY <2>1 DEF AtWorker, AtProducer, InHand, Elements
  <2>3. InChannel(m) => m \in Backlog
    BY <2>1 DEF InChannel, Backlog, Elements
  <2>4. (\E i \in 1..Len(log) : i > fetch /\ log[i] = m) => m \in Backlog
    BY <2>1 DEF Backlog, KafkaBacklog
  <2>5. status[m] \in {"visible", "inflight"} => m \in Backlog
    BY DEF Backlog, SqsBacklog, Sqs!InStatus
  <2> QED
    BY <2>2, <2>3, <2>4, <2>5 DEF Undelivered
<1> QED
  BY <1>1, <1>2, <1>3, <1>4, <1>5, PlacesAlways, PTL DEF Spec

-----------------------------------------------------------------------------
(* Kafka's offsets, when one worker reads and no push, ack or publish fails. *)

OneByOne == (\A v, w \in Workers : v = w) /\ MaxFailures = 0

Done(i) == log[i] \in Confirmed \cup Poison
HoldsRecord(w) == Holding(w) /\ src[w] = "kafka"

(* What the group has committed or is about to commit is a prefix that was   *)
(* confirmed, or cannot be read.                                             *)
PrefixDone == committed <= marked /\ \A i \in 1..Len(log) : i <= marked => Done(i)

(* So is what was received, but for the record the worker holds, or let go   *)
(* of because the process ends; and all that precedes the one it holds.      *)
ReceivedDone ==
    /\ \A i \in 1..Len(log) : i <= fetch =>
          \/ Done(i)
          \/ \E w \in Workers : \/ HoldsRecord(w) /\ off[w] + 1 = i
                                \/ CtxDone /\ pc[w] \in {"idle", "exited"}
    /\ \A w \in Workers : HoldsRecord(w) => \A i \in 1..Len(log) : i <= off[w] => Done(i)

Ordered == PrefixDone /\ ReceivedDone

LEMMA KafkaFacts ==
    ASSUME TypeInv
    PROVE  /\ WorkerTypeOK /\ SwitchTypeOK /\ log \in Seq(Messages) /\ Len(log) \in Nat /\ fetch \in Nat
           /\ marked \in Int /\ committed \in Int /\ fetch <= Len(log) /\ marked <= Len(log) /\ committed <= Len(log)
           /\ \A w \in Workers : off[w] \in Nat
BY LenProperties DEF TypeInv, TypeOK, Kafka!TypeOK, Kafka!NoOffset, WorkerTypeOK

(* What is done stays done.                                                  *)
LEMMA DoneStays ==
    ASSUME TypeInv, [Next]_vars, NEW i \in 1..Len(log), Done(i)
    PROVE  Done(i)'
BY ConfirmedGrows, TypeInvStep DEF TypeInv, TypeOK, Done, LogKept

LEMMA OrderedCycle ==
    ASSUME OneByOne, PlacesInv, AckConfirmed, Ordered, NEW w \in Workers, CycleStep(w), [Next]_vars
    PROVE  Ordered'
<1>1. /\ WorkerTypeOK /\ SwitchTypeOK /\ Len(log) \in Nat /\ fetch \in Nat /\ marked \in Int /\ committed \in Int
      /\ off[w] \in Nat /\ off'[w] \in Nat /\ TypeInv
  BY KafkaFacts, TypeInvStep DEF PlacesInv, HandsInv, TypeInv, TypeOK, WorkerTypeOK
<1>2. log' = log /\ run' = run
  BY <1>1, CycleFrame
<1>3. \A i \in 1..Len(log) : Done(i) => Done(i)'
  BY <1>1, DoneStays
<1>4. /\ \A v \in Workers : v = w
      /\ ~Fail
  BY DEF OneByOne, Fail, PlacesInv, HandsInv, TypeInv, TypeOK, BoundTypeOK
<1> USE <1>1, <1>2, <1>3, <1>4 DEF Ordered, PrefixDone, ReceivedDone, HoldsRecord, Holding, CtxDone
<1> HIDE DEF Done
<1>5. CASE pc[w] \notin {"push", "ack"} /\ UNCHANGED <<fetch, marked, committed>>
           /\ (pc'[w] \in {"push", "ack"} => src'[w] # "kafka")
           /\ (pc[w] \in {"idle", "exited"} /\ CtxDone => pc'[w] \in {"idle", "exited"})
  BY <1>5
<1>6. CASE StartCycle(w) \/ Exit(w) \/ Snapshot(w) \/ Cancelled(w) \/ Retry(w) \/ ReturnError(w) \/ SqsReceiveFails(w)
  <2>1. UNCHANGED <<fetch, marked, committed>>
    BY <1>6, Zenon DEF StartCycle, Exit, Snapshot, Cancelled, Retry, ReturnError, SqsReceiveFails, backendVars, kafkaVars
  <2>2. pc[w] \notin {"push", "ack"} /\ pc'[w] \notin {"push", "ack"}
        /\ (pc[w] \in {"idle", "exited"} /\ CtxDone => pc'[w] \in {"idle", "exited"})
    BY <1>6 DEF StartCycle, Exit, Snapshot, Cancelled, Retry, ReturnError, SqsReceiveFails, Stay, Go, WorkerTypeOK
  <2> QED
    BY <1>5, <2>1, <2>2
<1>7. CASE MemoryReceive(w) \/ ConstReceive(w) \/ ConstReady(w) \/ SqsReceive(w)
  <2>1. UNCHANGED <<fetch, marked, committed>>
    BY <1>7 DEF MemoryReceive, ConstReceive, ConstReady, SqsReceive, backendVars, kafkaVars
  <2>2. pc[w] \in {"recv", "await"} /\ src[w] # "kafka"
    BY <1>7 DEF MemoryReceive, ConstReceive, ConstReady, SqsReceive, PlacesInv, HandsInv, TypeInv, WorkersHold, HeldOK
  <2>3. src' = src
    BY <1>7 DEF MemoryReceive, ConstReceive, ConstReady, SqsReceive, Stay, Take
  <2> QED
    BY <1>5, <2>1, <2>2, <2>3
<1>8. CASE KafkaReceive(w)
  <2>1. pc[w] = "recv" /\ src'[w] = "kafka" /\ fetch < Len(log) /\ fetch' = fetch + 1 /\ UNCHANGED <<marked, committed>>
    BY <1>8 DEF KafkaReceive, Kafka!Receive, Kafka!HasRecord, Stay, Take
  <2>2. \A i \in 1..Len(log) : i <= fetch => Done(i)
    BY <2>1
  <2>3. CASE log[fetch + 1] \in Poison
    <3>1. pc'[w] = "failed"
      BY <1>8, <2>3 DEF KafkaReceive, Kafka!Record, Stay, Go, WorkerTypeOK
    <3>2. Done(fetch + 1)
      BY <2>3 DEF Done
    <3> QED
      BY <2>1, <2>2, <3>1, <3>2
  <2>4. CASE log[fetch + 1] \notin Poison
    <3>1. pc'[w] = "push" /\ off'[w] = fetch
      BY <1>8, <2>4 DEF KafkaReceive, Kafka!Record, Take, Go, WorkerTypeOK
    <3> QED
      BY <2>1, <2>2, <3>1
  <2> QED
    BY <2>3, <2>4
<1>9. CASE PushOk(w)
  <2>1. pc[w] = "push" /\ pc'[w] = "ack" /\ UNCHANGED <<src, off, fetch, marked, committed>>
    BY <1>9 DEF PushOk, Stay, Go, WorkerTypeOK, backendVars
  <2> QED
    BY <2>1
<1>10. CASE PushFails(w)
  <2>1. pc'[w] = "idle" /\ CtxDone /\ UNCHANGED <<fetch, marked, committed>>
    BY <1>10 DEF PushFails, Drop, Go, WorkerTypeOK, backendVars
  <2> QED
    BY <2>1
<1>11. CASE Ack(w)
  <2>1. pc[w] = "ack" /\ pc'[w] = "idle"
    BY <1>11 DEF Ack, Drop, Go, WorkerTypeOK
  <2>2. fetch' = fetch
    BY <1>11 DEF Ack, AckClosure, Kafka!MarkOffset, kafkaVars, SwitchTypeOK, AllTypes
  <2>3. src[w] = "kafka" => off[w] < Len(log) /\ Done(off[w] + 1)
    BY <2>1 DEF PlacesInv, HandsInv, TypeInv, WorkersHold, HeldOK, AckConfirmed, Done
  <2>4. \A i \in 1..Len(log) : i <= fetch => Done(i)
    BY <2>1, <2>3
  <2>5. src[w] = "kafka" => \A i \in 1..Len(log) : i <= off[w] + 1 => Done(i)
    BY <2>1, <2>3
  <2>6. \/ UNCHANGED <<marked, committed>>
        \/ src[w] = "kafka" /\ marked' = Kafka!Larger(marked, off[w] + 1) /\ committed' \in {committed, marked'}
    BY <1>11 DEF Ack, AckClosure, Kafka!MarkOffset, kafkaVars, SwitchTypeOK, AllTypes
  <2>7. PrefixDone'
    BY <2>5, <2>6 DEF Kafka!Larger
  <2> QED
    BY <2>1, <2>2, <2>4, <2>7
<1>12. ~AckFails(w)
  BY DEF AckFails
<1> QED
  BY <1>6, <1>7, <1>8, <1>9, <1>10, <1>11, <1>12 DEF CycleStep, Receive

LEMMA OrderedStep ==
    ASSUME OneByOne, PlacesInv, AckConfirmed, Ordered, [Next]_vars
    PROVE  Ordered'
<1>1. /\ WorkerTypeOK /\ SwitchTypeOK /\ Len(log) \in Nat /\ fetch \in Nat /\ marked \in Int /\ committed \in Int
      /\ fetch <= Len(log) /\ marked <= Len(log) /\ committed <= Len(log)
      /\ log \in Seq(Messages) /\ (\A w \in Workers : off[w] \in Nat) /\ TypeInv
  BY KafkaFacts DEF PlacesInv, HandsInv
<1>2. \A i \in 1..Len(log) : Done(i) => Done(i)'
  BY <1>1, DoneStays
<1> USE <1>1, <1>2 DEF Ordered, PrefixDone, ReceivedDone, HoldsRecord, Holding, CtxDone
<1> HIDE DEF Done
<1>3. CASE /\ UNCHANGED <<workerVars, fetch, marked, committed>> /\ (run # "running" => run' # "running")
           /\ (log' = log \/ \E m \in Messages : log' = Append(log, m))
  <2>1. Len(log) <= Len(log') /\ Len(log') \in Nat
    BY <1>3, AppendElements
  <2>2. \A i \in 1..Len(log') : i <= Len(log) => i \in 1..Len(log)
    BY <2>1
  <2>3. \A w \in Workers : HoldsRecord(w) => off[w] < Len(log)
    BY DEF TypeInv, WorkersHold, HeldOK
  <2>4. UNCHANGED <<pc, src, off>>
    BY <1>3 DEF workerVars
  <2>5. PrefixDone'
    BY <1>3, <2>1, <2>2
  <2>6. ASSUME NEW w \in Workers, HoldsRecord(w)', NEW i \in 1..Len(log'), i <= off'[w] PROVE Done(i)'
    <3>1. HoldsRecord(w) /\ off'[w] = off[w]
      BY <2>4, <2>6
    <3> QED
      BY <2>2, <2>3, <2>6, <3>1
  <2>7. ASSUME NEW i \in 1..Len(log'), i <= fetch'
        PROVE  \/ Done(i)'
               \/ \E w \in Workers : \/ HoldsRecord(w)' /\ off'[w] + 1 = i
                                     \/ run' # "running" /\ pc'[w] \in {"idle", "exited"}
    BY <1>3, <2>2, <2>4, <2>7
  <2> QED
    BY <2>5, <2>6, <2>7
<1>4. ASSUME NEW p \in Producers, EnqueueStep(p) \/ CreateStep(p) PROVE Ordered'
  <2>1. UNCHANGED <<workerVars, run>>
    BY <1>4, EnqueueFrame
  <2>2. UNCHANGED <<fetch, marked, committed>>
    BY <1>4 DEF EnqueueStep, CreateStep, EnqueueRemote, EnqueueRemoteFails, EnqueueConst, MemorySend, MemoryCount,
       Create, Kafka!Publish, kafkaVars, backendVars
  <2>3. log' = log \/ (pmsg[p] \in Messages /\ log' = Append(log, pmsg[p]))
    BY <1>4 DEF EnqueueStep, CreateStep, EnqueueRemote, EnqueueRemoteFails, EnqueueConst, MemorySend, MemoryCount,
       Create, Kafka!Publish, kafkaVars, backendVars, PlacesInv, HandsInv, TypeInv, ProducersHold
  <2> QED
    BY <1>3, <2>1, <2>2, <2>3
<1>5. ASSUME NEW t \in Types, Build(t) PROVE Ordered'
  <2>1. UNCHANGED <<log, fetch, marked, committed, workerVars, run>>
    BY <1>5, BuildKeeps DEF Build, kafkaVars, PlacesInv, HandsInv
  <2> QED
    BY <1>3, <2>1
<1>6. CASE OtherStep /\ ~\E t \in Types : Build(t)
  <2>1. UNCHANGED <<workerVars, fetch, marked, committed>> /\ (run # "running" => run' # "running")
    BY <1>6, OtherFrame DEF OtherStep, ExternalWrite, Expire, Swap, StoreQuery, CloseReady, StopBegins, StopReturns,
       Kafka!Publish, kafkaVars, backendVars
  <2>2. log' = log \/ \E m \in Messages : log' = Append(log, m)
    BY <1>6 DEF OtherStep, ExternalWrite, Expire, Swap, StoreQuery, CloseReady, StopBegins, StopReturns,
       Kafka!Publish, kafkaVars, backendVars
  <2> QED
    BY <1>3, <2>1, <2>2
<1>7. CASE Restart
  <2>1. /\ log' = log /\ committed' = committed /\ marked' = committed /\ fetch' = Kafka!Larger(committed, 0)
        /\ \A w \in Workers : pc'[w] = "idle"
    BY <1>7 DEF Restart, Kafka!Open, Kafka!StartOffset, Kafka!durableVars
  <2>2. \A i \in 1..Len(log) : i <= fetch' => Done(i)
    BY <2>1 DEF Kafka!Larger
  <2> QED
    BY <2>1, <2>2
<1>8. CASE UNCHANGED vars
  BY <1>3, <1>8 DEF vars, backendVars
<1> QED
  BY <1>4, <1>5, <1>6, <1>7, <1>8, NextCases, OrderedCycle DEF OtherStep

LEMMA OrderedInit == Init => Ordered
BY DEF Init, Kafka!Init, Kafka!NoOffset, Ordered, PrefixDone, ReceivedDone, HoldsRecord, Holding

(* A program that never uses Kafka leaves the partition empty.               *)
Unwritten == log = <<>> /\ fetch = 0 /\ marked = -1 /\ committed = -1

LEMMA UnwrittenStep ==
    ASSUME "kafka" \notin Types, HandsInv, Unwritten, [Next]_vars
    PROVE  Unwritten'
<1> USE DEF HandsInv, TypeInv, TypeOK, SwitchTypeOK, WorkerTypeOK, ProducerTypeOK
<1>1. ASSUME NEW m \in Messages, Kafka!Publish(m) PROVE log' # <<>>
  <2>1. log' = Append(log, m) /\ log \in Seq(Messages)
    BY <1>1 DEF Kafka!Publish, Kafka!TypeOK
  <2>2. Len(log') = Len(log) + 1 /\ Len(log) \in Nat
    BY <2>1, AppendElements
  <2> QED
    BY <2>2
<1>2. ASSUME log' = <<>> PROVE Unwritten'
  <2>1. KafkaStep
    BY BackendSteps
  <2>2. ~Kafka!Receive /\ ~\E w \in Workers : AckOfKafka(w)
    BY DEF Unwritten, Kafka!Receive, Kafka!HasRecord, AckOfKafka
  <2> QED
    BY <1>1, <1>2, <2>1, <2>2 DEF KafkaStep, Unwritten, Kafka!Open, Kafka!durableVars, Kafka!StartOffset,
       Kafka!Larger, kafkaVars
<1>3. log' = log
  <2>1. ASSUME NEW p \in Producers, EnqueueStep(p) \/ CreateStep(p) PROVE log' = log
    BY <2>1 DEF EnqueueStep, CreateStep, EnqueueRemote, EnqueueRemoteFails, EnqueueConst, MemorySend, MemoryCount,
       Create, kafkaVars, backendVars
  <2>2. CASE OtherStep
    <3>1. ASSUME NEW t \in Types, Build(t) PROVE log' = log
      BY <3>1, BuildKeeps DEF kafkaVars
    <3>2. (\E m \in Messages : ExternalWrite(m)) => log' = log
      BY DEF ExternalWrite, kafkaVars
    <3>3. (\E m \in Messages : Expire(m)) \/ (\E t \in Types : Swap(t)) \/ (\E q \in Queries : StoreQuery(q))
          \/ CloseReady \/ StopBegins \/ StopReturns => log' = log
      BY DEF Expire, Swap, StoreQuery, CloseReady, StopBegins, StopReturns, kafkaVars, backendVars
    <3> QED
      BY <2>2, <3>1, <3>2, <3>3 DEF OtherStep
  <2>3. Restart \/ UNCHANGED vars => log' = log
    BY DEF Restart, Kafka!Open, Kafka!durableVars, vars, backendVars
  <2> QED
    BY <2>1, <2>2, <2>3, NextCases, CycleFrame
<1> QED
  BY <1>2, <1>3 DEF Unwritten

LEMMA PrefixAlways ==
    ASSUME "kafka" \notin Types \/ OneByOne
    PROVE  Spec => [](PlacesInv /\ AckConfirmed /\ PrefixDone)
<1>1. Init => AckConfirmed
  BY SettledInvInit DEF SettledInv
<1>2. PlacesInv /\ AckConfirmed /\ [Next]_vars => AckConfirmed'
  BY AckConfirmedStep DEF PlacesInv, HandsInv, TypeInv, TypeOK
<1>3. CASE "kafka" \notin Types
  <2>1. Init => Unwritten
    BY DEF Init, Kafka!Init, Kafka!NoOffset, Unwritten
  <2>2. PlacesInv /\ Unwritten /\ [Next]_vars => Unwritten'
    BY <1>3, UnwrittenStep DEF PlacesInv
  <2>3. Unwritten => PrefixDone
    BY DEF Unwritten, PrefixDone
  <2> QED
    BY <1>1, <1>2, <2>1, <2>2, <2>3, PlacesAlways, PTL DEF Spec
<1>4. CASE OneByOne
  <2>1. PlacesInv /\ AckConfirmed /\ Ordered /\ [Next]_vars => Ordered'
    BY <1>4, OrderedStep
  <2>2. Ordered => PrefixDone
    BY DEF Ordered
  <2> QED
    BY <1>1, <1>2, <2>1, <2>2, OrderedInit, PlacesAlways, PTL DEF Spec
<1> QED
  BY <1>3, <1>4

-----------------------------------------------------------------------------
(* No message is lost for good, where the queue keeps it.                    *)

(* Every created message was discarded on purpose, is still with the handler *)
(* that created it, or was written to a broker, which forgets none.          *)
Written(m) == InLog(m) \/ status[m] # "absent"
AllWritten == \A m \in Messages \ Poison : m \in fresh \/ m \in discarded \/ AtProducer(m) \/ Written(m)

LEMMA AllWrittenStep ==
    ASSUME "inmemory" \notin Types, PlacesInv, AllWritten, [Next]_vars
    PROVE  AllWritten'
<1> SUFFICES ASSUME NEW m \in Messages \ Poison
             PROVE  (m \in fresh \/ m \in discarded \/ AtProducer(m) \/ Written(m))'
  BY DEF AllWritten
<1>1. /\ NoMsg # m /\ log \in Seq(Messages) /\ Len(log) \in Nat /\ ProducerTypeOK /\ SwitchTypeOK
      /\ Len(log') \in Nat /\ LogKept /\ TypeInv
  BY TypeInvStep, LenProperties DEF PlacesInv, HandsInv, TypeInv, TypeOK, Kafka!TypeOK
<1>2. m \in fresh \/ m \in discarded \/ AtProducer(m) \/ Written(m)
  BY DEF AllWritten
<1>3. Written(m) => Written(m)'
  BY <1>1, AbsentFrom DEF Written, InLog, LogKept
<1> USE <1>1, <1>2, <1>3 DEF AtProducer
<1>4. CASE UNCHANGED <<fresh, discarded, pmsg>>
  BY <1>4
<1>5. ASSUME NEW p \in Producers, CreateStep(p) PROVE (m \in fresh \/ m \in discarded \/ AtProducer(m) \/ Written(m))'
  <2>1. PICK n \in fresh : fresh' = fresh \ {n} /\ pmsg' = [pmsg EXCEPT ![p] = n]
    BY <1>5 DEF CreateStep, Create
  <2>2. discarded' = discarded /\ pmsg[p] = NoMsg
    BY <1>5 DEF CreateStep, Create, PlacesInv, HandsInv, ProducersEmpty
  <2> QED
    BY <2>1, <2>2 DEF ProducerTypeOK
<1>6. ASSUME NEW p \in Producers, EnqueueStep(p) PROVE (m \in fresh \/ m \in discarded \/ AtProducer(m) \/ Written(m))'
  <2>1. pmsg' = [pmsg EXCEPT ![p] = NoMsg] /\ fresh' = fresh /\ discarded \subseteq discarded'
    BY <1>6 DEF EnqueueStep, EnqueueRemote, EnqueueRemoteFails, EnqueueConst, MemorySend, MemoryCount, Enqueued
  <2>2. CASE pmsg[p] # m
    BY <2>1, <2>2 DEF ProducerTypeOK
  <2>3. CASE pmsg[p] = m /\ EnqueueRemote(p)
    <3>1. CASE pdst[p] = "kafka"
      <4>1. log' = Append(log, m)
        BY <2>3, <3>1 DEF EnqueueRemote, Kafka!Publish
      <4>2. Len(log) + 1 \in 1..Len(log') /\ log'[Len(log) + 1] = m
        BY <4>1, AppendElements
      <4> QED
        BY <4>2 DEF Written, InLog
    <3>2. CASE pdst[p] = "sqs"
      <4>1. status'[m] = "visible"
        BY <2>3, <3>2 DEF EnqueueRemote, Sqs!Send, TypeInv, TypeOK, Sqs!TypeOK
      <4> QED
        BY <4>1 DEF Written
    <3> QED
      BY <2>3, <3>1, <3>2 DEF EnqueueRemote
  <2>4. CASE EnqueueRemoteFails(p) \/ EnqueueConst(p)
    BY <2>1, <2>4 DEF EnqueueRemoteFails, EnqueueConst, ProducerTypeOK
  <2>5. ~MemorySend(p) /\ ~MemoryCount(p)
    BY DEF MemorySend, MemoryCount, PlacesInv, HandsInv, UsedIsBuilt, ProducerTypeOK
  <2> QED
    BY <1>6, <2>2, <2>3, <2>4, <2>5 DEF EnqueueStep
<1>7. CASE OtherStep
  <2>1. UNCHANGED <<discarded, pmsg>>
    BY <1>7, OtherFrame
  <2>2. m \in fresh => m \in fresh'
    BY <1>7 DEF OtherStep, ExternalWrite, Expire, Build, Swap, StoreQuery, CloseReady, StopBegins, StopReturns,
       producerVars
  <2> QED
    BY <2>1, <2>2
<1>8. CASE Restart
  BY <1>8 DEF Restart, Elements, ProducerTypeOK
<1> QED
  BY <1>4, <1>5, <1>6, <1>7, <1>8, NextCases, CycleFrame DEF producerVars, vars

(* No failure, crash, redelivery or switch loses a message for good, in a    *)
(* program that uses SQS and the constant queue, and in one that also uses   *)
(* Kafka if one worker reads and no push, ack or publish fails; Stop, which  *)
(* cuts off a push, and any number of restarts are allowed in both.  (Where  *)
(* these hypotheses fail so does the property: the runs show it for Kafka,   *)
(* and what the in-memory channel holds does not survive a crash.)           *)
THEOREM MessagesKept ==
    ASSUME "inmemory" \notin Types, "kafka" \notin Types \/ OneByOne
    PROVE  Spec => []NoMessageLost
<1>1. Init => AllWritten
  BY DEF Init, AllWritten
<1>2. PlacesInv /\ AllWritten /\ [Next]_vars => AllWritten'
  BY AllWrittenStep
<1>3. HandsInv /\ AllWritten /\ PrefixDone /\ LastConfirmed => NoMessageLost
  <2> SUFFICES ASSUME HandsInv, AllWritten, PrefixDone, LastConfirmed, NEW m \in Messages \ Poison
               PROVE  m \in fresh \cup discarded \cup InHand \cup Recoverable \cup Confirmed
    BY DEF NoMessageLost
  <2>1. /\ DOMAIN pmsg = Producers /\ Len(log) \in Nat /\ committed \in Int /\ marked \in Int
        /\ status \in [Messages -> Sqs!Statuses]
    BY KafkaFacts DEF HandsInv, TypeInv, TypeOK, ProducerTypeOK, Sqs!TypeOK
  <2>2. AtProducer(m) => m \in InHand
    BY <2>1 DEF AtProducer, InHand, Elements
  <2>3. ASSUME NEW i \in 1..Len(log), log[i] = m PROVE m \in Recoverable \cup Confirmed
    <3>1. CASE i <= committed
      BY <2>1, <2>3, <3>1 DEF PrefixDone, Done
    <3>2. CASE ~(i <= committed)
      <4>1. i \in Kafka!Larger(committed, 0) + 1 .. Len(log)
        BY <2>1, <3>2 DEF Kafka!Larger
      <4> QED
        BY <2>3, <4>1 DEF Recoverable
    <3> QED
      BY <3>1, <3>2
  <2>4. status[m] # "absent" => m \in Recoverable \cup Confirmed
    BY <2>1 DEF Recoverable, SqsBacklog, Sqs!InStatus, Sqs!Statuses, LastConfirmed
  <2> QED
    BY <2>2, <2>3, <2>4 DEF AllWritten, Written, InLog
<1>4. PlacesInv => HandsInv
  BY DEF PlacesInv
<1> QED
  BY <1>1, <1>2, <1>3, <1>4, PrefixAlways, LastConfirmedAlways, PTL DEF Spec

-----------------------------------------------------------------------------
(* The contract.                                                             *)

LEMMA SettledGrows ==
    ASSUME PlacesInv, PrefixDone, PrefixDone', LastConfirmed', [Next]_vars
    PROVE  Settled \subseteq Settled' /\ Settled' \subseteq Confirmed' /\ Settled' \subseteq Messages
<1>1. /\ log \in Seq(Messages) /\ Len(log) \in Nat /\ Len(log') \in Nat /\ marked \in Int /\ committed \in Int
      /\ committed <= Len(log) /\ committed' \in Int /\ committed' <= Len(log') /\ LogKept /\ TypeInv /\ TypeInv'
      /\ marked' \in Int /\ log' \in Seq(Messages)
  BY TypeInvStep, KafkaFacts, LenProperties DEF PlacesInv, HandsInv, TypeInv, TypeOK, Kafka!TypeOK, Kafka!NoOffset
<1>2. KafkaStep /\ SqsStep
  BY <1>1, BackendSteps DEF TypeInv, TypeOK
<1>3. committed <= committed'
  BY <1>1, <1>2 DEF PrefixDone, KafkaStep, Kafka!Receive, Kafka!Open, Kafka!durableVars, Kafka!Publish, AckOfKafka,
     Kafka!MarkOffset, Kafka!Larger, kafkaVars
<1>4. \A m \in Messages : status[m] = "deleted" => status'[m] = "deleted"
  BY <1>1, <1>2 DEF SqsStep, AckOfSqs, Sqs!Send, Sqs!Expire, Sqs!Receive, Sqs!Delete, Sqs!Batches, Sqs!InStatus,
     TypeInv, TypeOK, Sqs!TypeOK
<1>5. \A i \in 1..committed : i \in 1..committed' /\ log'[i] = log[i]
  BY <1>1, <1>3 DEF LogKept
<1>6. \A i \in 1..committed' : log'[i] \in Confirmed' \cup Poison /\ log'[i] \in Messages
  BY <1>1 DEF PrefixDone, Done
<1> QED
  BY <1>4, <1>5, <1>6 DEF Settled, Sqs!InStatus, LastConfirmed

(* Who takes a message from those to be created, and who confirms one,       *)
(* settles nothing by it.                                                    *)
LEMMA OnlyOneThing ==
    ASSUME PlacesInv, [Next]_vars
    PROVE  \/ UNCHANGED <<fresh, pushes>>
           \/ \E m \in fresh : fresh' = fresh \ {m} /\ UNCHANGED <<pushes, Settled>>
           \/ \E w \in Workers : PushOk(w) /\ UNCHANGED <<fresh, Settled>>
<1>1. log \in Seq(Messages) /\ Len(log) \in Nat /\ committed \in Int /\ committed <= Len(log) /\ TypeInv
  BY KafkaFacts DEF PlacesInv, HandsInv
<1>2. ASSUME NEW w \in Workers, CycleStep(w), pushes' # pushes PROVE PushOk(w)
  BY <1>2, Zenon DEF CycleStep, Receive, StartCycle, Exit, Snapshot, KafkaReceive, MemoryReceive, ConstReceive,
     SqsReceive, ConstReady, SqsReceiveFails, Cancelled, Retry, ReturnError, PushFails, Ack, AckFails
<1>3. ASSUME NEW w \in Workers, PushOk(w) PROVE UNCHANGED <<fresh, Settled>>
  BY <1>3 DEF PushOk, producerVars, backendVars, Settled, Sqs!InStatus
<1>4. ASSUME NEW p \in Producers, NEW m \in Messages, Create(p, m)
      PROVE  m \in fresh /\ fresh' = fresh \ {m} /\ UNCHANGED <<pushes, Settled>>
  BY <1>4 DEF Create, backendVars, Settled, Sqs!InStatus
<1>5. ASSUME NEW m \in Messages, ExternalWrite(m)
      PROVE  m \in fresh /\ fresh' = fresh \ {m} /\ UNCHANGED <<pushes, Settled>>
  <2>1. m \in Poison /\ m \in fresh /\ fresh' = fresh \ {m} /\ UNCHANGED <<pushes, committed>>
    BY <1>5 DEF ExternalWrite, Kafka!Publish, kafkaVars
  <2>2. log' = log \/ log' = Append(log, m)
    BY <1>5 DEF ExternalWrite, Kafka!Publish, kafkaVars
  <2>3. \A i \in 1..committed : log'[i] = log[i]
    BY <1>1, <2>2, AppendElements
  <2>4. Sqs!InStatus("deleted")' = Sqs!InStatus("deleted")
    BY <1>1, <1>5 DEF ExternalWrite, Sqs!Send, Sqs!InStatus, TypeInv, TypeOK, Sqs!TypeOK
  <2>5. {log[i] : i \in 1..committed}' = {log[i] : i \in 1..committed}
    BY <2>1, <2>3
  <2> QED
    BY <2>1, <2>4, <2>5 DEF Settled
<1>6. ASSUME OtherStep, ~\E m \in Messages : ExternalWrite(m) PROVE UNCHANGED <<fresh, pushes>>
  BY <1>6 DEF OtherStep, Expire, Build, Swap, StoreQuery, CloseReady, StopBegins, StopReturns, producerVars
<1>7. ASSUME NEW p \in Producers, EnqueueStep(p) PROVE UNCHANGED <<fresh, pushes>>
  BY <1>7 DEF EnqueueStep, EnqueueRemote, EnqueueRemoteFails, EnqueueConst, MemorySend, MemoryCount, Enqueued
<1>8. CASE Restart \/ UNCHANGED vars
  BY <1>8 DEF Restart, vars, producerVars
<1>9. ASSUME NEW w \in Workers, CycleStep(w) PROVE fresh' = fresh
  BY <1>1, <1>9, CycleFrame DEF producerVars, TypeInv, TypeOK
<1> QED
  BY <1>2, <1>3, <1>4, <1>5, <1>6, <1>7, <1>8, <1>9, NextCases DEF CreateStep

(* Every step accepts, confirms or settles as the contract allows, or is     *)
(* none of its business.                                                     *)
LEMMA ContractStep ==
    ASSUME PlacesInv, PrefixDone, PrefixDone', LastConfirmed', [Next]_vars
    PROVE  [Contract!Next]_(Contract!vars)
<1> USE DEF Contract!Next, Contract!vars, Contract!Accept, Contract!Confirm, Contract!Settle
<1>1. /\ Settled \subseteq Settled' /\ Settled' \subseteq Confirmed' /\ Settled' \subseteq Messages
      /\ fresh \subseteq Messages /\ BoundTypeOK
  BY SettledGrows DEF PlacesInv, HandsInv, TypeInv, TypeOK, ProducerTypeOK
<1>2. CASE UNCHANGED <<fresh, pushes>>
  <2>1. Confirmed' = Confirmed
    BY <1>2 DEF Confirmed
  <2>2. Contract!Settle(Settled')
    BY <1>1, <1>2, <2>1
  <2> QED
    BY <1>1, <2>2
<1>3. ASSUME NEW m \in fresh, fresh' = fresh \ {m}, UNCHANGED <<pushes, Settled>>
      PROVE  [Contract!Next]_(Contract!vars)
  <2>1. Confirmed' = Confirmed
    BY <1>3 DEF Confirmed
  <2>2. CASE m \in Poison
    BY <1>3, <2>1, <2>2
  <2>3. CASE m \notin Poison
    <3>1. Messages \ (fresh' \cup Poison) = (Messages \ (fresh \cup Poison)) \cup {m} /\ m \in Messages
      BY <1>1, <1>3, <2>3
    <3>2. Contract!Accept(m)
      BY <1>3, <2>1, <3>1
    <3> QED
      BY <3>1, <3>2
  <2> QED
    BY <2>2, <2>3
<1>4. ASSUME NEW w \in Workers, PushOk(w), UNCHANGED <<fresh, Settled>>
      PROVE  [Contract!Next]_(Contract!vars)
  <2>1. CASE msg[w] \in Messages /\ pushes' # pushes
    <3>1. pushes' = [pushes EXCEPT ![msg[w]] = @ + 1] /\ pushes \in [Messages -> 0..PushCap]
      BY <1>1, <1>4, <2>1 DEF PushOk, BoundTypeOK
    <3>2. Confirmed' = Confirmed \cup {msg[w]}
      BY <2>1, <3>1 DEF Confirmed, PushCap
    <3>3. msg[w] \notin fresh \cup Poison
      BY <2>1 DEF PlacesInv, Places, PlaceOK, OnePlace, Readable, AtWorker
    <3>4. Contract!Confirm(msg[w])
      BY <1>4, <2>1, <3>2, <3>3
    <3> QED
      BY <2>1, <3>4
  <2>2. CASE pushes' = pushes
    BY <1>4, <2>2 DEF Confirmed
  <2> QED
    BY <1>4, <2>1, <2>2 DEF PushOk
<1> QED
  BY <1>2, <1>3, <1>4, OnlyOneThing

(* The program keeps the contract of AtLeastOnce: only an accepted message   *)
(* is confirmed, and only a confirmed one is ever settled, be it by the ack  *)
(* of another message whose offset comes later.  (With a second worker, or   *)
(* a push that fails, Kafka's offset passes a record that nobody confirmed.) *)
THEOREM KeepsContract ==
    ASSUME "kafka" \notin Types \/ OneByOne
    PROVE  Spec => ImplementsAtLeastOnce
<1>1. Init => Contract!Init
  BY DEF Init, Contract!Init, Confirmed, Settled, Kafka!Init, Kafka!NoOffset, Sqs!Init, Sqs!InStatus
<1>2. PlacesInv /\ PrefixDone /\ PrefixDone' /\ LastConfirmed' /\ [Next]_vars
        => [Contract!Next]_(Contract!vars)
  BY ContractStep
<1> QED
  BY <1>1, <1>2, PrefixAlways, LastConfirmedAlways, PTL DEF Spec, ImplementsAtLeastOnce, Contract!Spec

-----------------------------------------------------------------------------
(* The published size.                                                       *)

(* Who pushes or acks has something in hand.                                 *)
Laden == \A w \in Workers : Holding(w) => msg[w] # NoMsg

LEMMA LadenStep ==
    ASSUME TypeInv, Laden, [Next]_vars
    PROVE  Laden'
<1> USE DEF TypeInv, TypeOK, WorkerTypeOK, Laden, Holding
<1>1. ASSUME NEW w \in Workers, CycleStep(w), Holding(w)' PROVE msg'[w] # NoMsg
  <2> USE DEF Stay, Go, Take, Drop
  <2>1. CASE KafkaReceive(w)
    <3>1. Kafka!Record \in Messages
      BY <2>1 DEF KafkaReceive, Kafka!Receive, Kafka!HasRecord, Kafka!Record, Kafka!TypeOK
    <3> QED
      BY <1>1, <2>1, <3>1 DEF KafkaReceive
  <2>2. CASE MemoryReceive(w)
    <3>1. Head(ch) \in Messages
      BY <2>2 DEF MemoryReceive, Memory!Receive, Memory!HasMessage, Memory!TypeOK
    <3> QED
      BY <2>2, <3>1 DEF MemoryReceive
  <2>3. CASE SqsReceive(w)
    <3>1. PICK m \in Messages : Stay(w, "failed") \/ Take(w, m, 0)
      BY <2>3 DEF SqsReceive, Sqs!Batches, Sqs!InStatus
    <3> QED
      BY <1>1, <2>3, <3>1 DEF SqsReceive
  <2>4. CASE ConstReceive(w) \/ ConstReady(w)
    BY <1>1, <2>4 DEF ConstReceive, ConstReady, Body
  <2>5. CASE StartCycle(w) \/ Exit(w) \/ Snapshot(w) \/ Cancelled(w) \/ Retry(w) \/ ReturnError(w)
             \/ SqsReceiveFails(w) \/ PushFails(w) \/ Ack(w) \/ AckFails(w)
    BY <1>1, <2>5 DEF StartCycle, Exit, Snapshot, Cancelled, Retry, ReturnError, SqsReceiveFails, PushFails,
       Ack, AckFails
  <2>6. CASE PushOk(w)
    BY <2>6 DEF PushOk
  <2> QED
    BY <1>1, <2>1, <2>2, <2>3, <2>4, <2>5, <2>6 DEF CycleStep, Receive
<1>2. ASSUME NEW w \in Workers, CycleStep(w) PROVE Laden'
  BY <1>1, <1>2, OthersKept
<1>3. CASE UNCHANGED workerVars
  BY <1>3 DEF workerVars
<1>4. CASE Restart
  BY <1>4 DEF Restart
<1> QED
  BY <1>2, <1>3, <1>4, NextCases, EnqueueFrame, OtherFrame DEF vars

Steady == Calm /\ epoch = 0

LEMMA SteadyBefore ==
    ASSUME TypeInv, [Next]_vars, Steady'
    PROVE  Steady /\ active' = active /\ failures' = failures /\ ~Restart
<1> USE DEF TypeInv, TypeOK, SwitchTypeOK, Steady
<1>1. Calm /\ failures' = failures /\ ~Restart
  BY CalmBefore
<1>2. CASE OtherStep
  <2>1. UNCHANGED <<active, epoch>> \/ \E t \in Types : Swap(t)
    BY <1>2 DEF OtherStep, ExternalWrite, Expire, Build, StoreQuery, CloseReady, StopBegins, StopReturns, switchVars
  <2>2. ~\E t \in Types : Swap(t)
    BY DEF Swap
  <2> QED
    BY <1>1, <2>1, <2>2
<1>3. CASE UNCHANGED switchVars
  BY <1>1, <1>3 DEF switchVars
<1> QED
  BY <1>1, <1>2, <1>3, NextCases, CycleFrame, EnqueueFrame DEF vars

(* Before the first switch everybody deals with the one backend.             *)
AtHome == (\A w \in Workers : src[w] = active) /\ (\A p \in Producers : pdst[p] = active)

LEMMA AtHomeStep ==
    ASSUME TypeInv, AtHome, [Next]_vars, active' = active, ~Restart
    PROVE  AtHome'
<1> USE DEF TypeInv, TypeOK, SwitchTypeOK, WorkerTypeOK, ProducerTypeOK, AtHome
<1>1. ASSUME NEW w \in Workers, CycleStep(w) PROVE AtHome'
  <2>1. CASE Snapshot(w)
    BY <2>1 DEF Snapshot, producerVars
  <2>2. CASE ~Snapshot(w)
    <3>1. src' = src
      BY <1>1, <2>2, Zenon DEF CycleStep, Receive, StartCycle, Exit, KafkaReceive, MemoryReceive,
         ConstReceive, SqsReceive, ConstReady, SqsReceiveFails, Cancelled, Retry, ReturnError, PushOk,
         PushFails, Ack, AckFails, Stay, Take, Drop
    <3> QED
      BY <1>1, <3>1, CycleFrame DEF producerVars
  <2> QED
    BY <2>1, <2>2
<1>2. ASSUME NEW p \in Producers, EnqueueStep(p) PROVE AtHome'
  <2>1. pdst' = pdst
    BY <1>2 DEF EnqueueStep, EnqueueRemote, EnqueueRemoteFails, EnqueueConst, MemorySend, MemoryCount, Enqueued
  <2> QED
    BY <1>2, <2>1, EnqueueFrame DEF workerVars
<1>3. ASSUME NEW p \in Producers, CreateStep(p) PROVE AtHome'
  BY <1>3 DEF CreateStep, Create, workerVars
<1>4. CASE OtherStep
  BY <1>4, OtherFrame DEF workerVars
<1>5. CASE UNCHANGED vars
  BY <1>5 DEF vars, workerVars, producerVars
<1> QED
  BY <1>1, <1>2, <1>3, <1>4, <1>5, NextCases

(* The counter of the in-memory queue.                                       *)
Carriers  == {w \in Workers : msg[w] # NoMsg}
Counters  == {p \in Producers : ppc[p] = "count"}
Counted   == size = Len(ch) + Cardinality(Carriers) - Cardinality(Counters)

LEMMA CountsFinite ==
    /\ IsFiniteSet(Carriers) /\ Cardinality(Carriers) \in Nat
    /\ IsFiniteSet(Counters) /\ Cardinality(Counters) \in Nat
<1>1. Carriers \in SUBSET Workers /\ Counters \in SUBSET Producers
  BY DEF Carriers, Counters
<1>2. IsFiniteSet(Carriers) /\ IsFiniteSet(Counters)
  BY <1>1, FS_Subset
<1> QED
  BY <1>2, FS_CardinalityType

LEMMA CountedStep ==
    ASSUME PlacesInv, Laden, AtHome, active = "inmemory", active' = active, Counted, Calm,
           failures' = failures, ~Restart, [Next]_vars
    PROVE  Counted'
<1>1. /\ WorkerTypeOK /\ SwitchTypeOK /\ ProducerTypeOK /\ ch \in Seq(Messages) /\ Len(ch) \in Nat /\ size \in Int
      /\ failures \in Nat
  BY LenProperties DEF PlacesInv, HandsInv, TypeInv, TypeOK, Memory!TypeOK, Calm
<1>2. Cardinality(Carriers) \in Nat /\ Cardinality(Counters) \in Nat
  BY CountsFinite
<1>3. ~CtxDone /\ ~Fail
  BY <1>1 DEF Calm, CtxDone, Fail
<1> USE <1>1, <1>2 DEF Counted
<1>4. CASE UNCHANGED <<ch, size, msg, ppc>>
  BY <1>4 DEF Carriers, Counters
<1>5. ASSUME NEW w \in Workers, CycleStep(w) PROVE Counted'
  <2>1. ppc' = ppc /\ Counters' = Counters
    BY <1>5, CycleFrame DEF producerVars, Counters
  <2>2. src[w] = "inmemory"
    BY DEF AtHome
  <2>3. CASE MemoryReceive(w)
    <3>1. /\ msg[w] = NoMsg /\ ch # <<>> /\ ch' = Tail(ch) /\ msg' = [msg EXCEPT ![w] = Head(ch)] /\ size' = size
      BY <2>3 DEF MemoryReceive, Memory!Receive, Memory!HasMessage, Take, PlacesInv, HandsInv, WorkersEmpty, Holding
    <3>2. Len(ch') = Len(ch) - 1 /\ Head(ch) # NoMsg
      BY <3>1, TailElements
    <3>3. Carriers' = Carriers \cup {w} /\ w \notin Carriers
      BY <3>1, <3>2 DEF Carriers, WorkerTypeOK
    <3>4. Cardinality(Carriers') = Cardinality(Carriers) + 1
      BY <3>3, FS_AddElement, CountsFinite, Zenon
    <3> QED
      BY <2>1, <3>1, <3>2, <3>3, <3>4
  <2>4. CASE Ack(w)
    <3>1. msg' = [msg EXCEPT ![w] = NoMsg] /\ size' = size - 1 /\ ch' = ch /\ msg[w] # NoMsg
      BY <2>4 DEF Ack, Memory!Ack, Drop, Laden, Holding
    <3>2. Carriers' = Carriers \ {w} /\ w \in Carriers
      BY <3>1 DEF Carriers, WorkerTypeOK
    <3>4. Cardinality(Carriers') = Cardinality(Carriers) - 1
      BY <3>2, FS_RemoveElement, CountsFinite, Zenon
    <3> QED
      BY <2>1, <3>1, <3>2, <3>4
  <2>5. CASE StartCycle(w) \/ Exit(w) \/ Snapshot(w) \/ Cancelled(w) \/ Retry(w) \/ ReturnError(w) \/ PushOk(w)
    <3>1. UNCHANGED <<msg, ch, size>>
      BY <2>5, Zenon DEF StartCycle, Exit, Snapshot, Cancelled, Retry, ReturnError, PushOk, Stay, backendVars
    <3> QED
      BY <1>4, <2>1, <3>1
  <2>6. ~KafkaReceive(w) /\ ~ConstReceive(w) /\ ~SqsReceive(w) /\ ~SqsReceiveFails(w) /\ ~AckFails(w)
    BY <2>2 DEF KafkaReceive, ConstReceive, SqsReceive, SqsReceiveFails, AckFails
  <2>7. ~ConstReady(w) /\ ~PushFails(w)
    BY <1>3, <2>2 DEF ConstReady, PushFails, PlacesInv, HandsInv, TypeInv, WorkersHold, HeldOK
  <2> QED
    BY <1>5, <2>3, <2>4, <2>5, <2>6, <2>7 DEF CycleStep, Receive
<1>6. ASSUME NEW p \in Producers, EnqueueStep(p) \/ CreateStep(p) PROVE Counted'
  <2>1. msg' = msg /\ Carriers' = Carriers
    BY <1>6, EnqueueFrame DEF workerVars, Carriers
  <2>2. pdst[p] = "inmemory"
    BY DEF AtHome
  <2>3. CASE MemorySend(p)
    <3>1. ppc[p] = "send" /\ ppc' = [ppc EXCEPT ![p] = "count"] /\ ch' = Append(ch, pmsg[p]) /\ size' = size
          /\ pmsg[p] \in Messages
      BY <2>3 DEF MemorySend, Memory!Send, PlacesInv, HandsInv, TypeInv, ProducersHold
    <3>2. Len(ch') = Len(ch) + 1
      BY <3>1, AppendElements
    <3>3. Counters' = Counters \cup {p} /\ p \notin Counters
      BY <3>1 DEF Counters, ProducerTypeOK
    <3>4. Cardinality(Counters') = Cardinality(Counters) + 1
      BY <3>3, FS_AddElement, CountsFinite, Zenon
    <3>5. size' = size
      BY <3>1
    <3> QED
      BY <2>1, <3>2, <3>4, <3>5
  <2>4. CASE MemoryCount(p)
    <3>1. ppc[p] = "count" /\ ppc' = [ppc EXCEPT ![p] = "idle"] /\ ch' = ch /\ size' = size + 1
      BY <2>4 DEF MemoryCount, Memory!Count, Enqueued
    <3>2. Counters' = Counters \ {p} /\ p \in Counters
      BY <3>1 DEF Counters, ProducerTypeOK
    <3>4. Cardinality(Counters') = Cardinality(Counters) - 1
      BY <3>2, FS_RemoveElement, CountsFinite, Zenon
    <3> QED
      BY <2>1, <3>1, <3>2, <3>4
  <2>5. CASE CreateStep(p)
    <3>1. UNCHANGED <<ch, size>>
      BY <2>5 DEF CreateStep, Create, backendVars
    <3>2. Counters' = Counters
      BY <2>5 DEF CreateStep, Create, Counters, ProducerTypeOK
    <3> QED
      BY <2>1, <3>1, <3>2
  <2>6. ~EnqueueRemote(p) /\ ~EnqueueRemoteFails(p) /\ ~EnqueueConst(p)
    BY <2>2 DEF EnqueueRemote, EnqueueRemoteFails, EnqueueConst
  <2> QED
    BY <1>6, <2>3, <2>4, <2>5, <2>6 DEF EnqueueStep
<1>7. CASE OtherStep
  <2>1. UNCHANGED <<msg, ppc>>
    BY <1>7, OtherFrame DEF workerVars
  <2>2. UNCHANGED <<ch, size>>
    <3>1. ASSUME NEW t \in Types, Build(t) PROVE UNCHANGED <<ch, size>>
      BY <3>1, BuildKeeps DEF PlacesInv, HandsInv, memoryVars
    <3>2. ASSUME ~\E t \in Types : Build(t) PROVE UNCHANGED <<ch, size>>
      BY <1>7, <3>2 DEF OtherStep, ExternalWrite, Expire, Swap, StoreQuery, CloseReady, StopBegins, StopReturns,
         memoryVars, backendVars
    <3> QED
      BY <3>1, <3>2
  <2> QED
    BY <1>4, <2>1, <2>2
<1>8. CASE UNCHANGED vars
  BY <1>4, <1>8 DEF vars, workerVars, producerVars, backendVars
<1> QED
  BY <1>5, <1>6, <1>7, <1>8, NextCases

(* The records behind the consumer's position are done or held, and those    *)
(* that the mark has not passed but are confirmed are still to be acked.     *)
HeldAt(i) == \E w \in Workers : HoldsRecord(w) /\ off[w] + 1 = i
Lagging ==
    /\ marked <= fetch
    /\ \A w \in Workers : HoldsRecord(w) => off[w] < fetch
    /\ \A i \in 1..Len(log) : i <= fetch => Done(i) \/ HeldAt(i)
    /\ \A i \in 1..Len(log) : i > marked /\ log[i] \in Confirmed => HeldAt(i)

LEMMA LaggingCycle ==
    ASSUME PlacesInv, AckConfirmed, AtHome, active = "kafka", Lagging, Calm,
           failures' = failures, NEW w \in Workers, CycleStep(w), [Next]_vars
    PROVE  Lagging'
<1>1. /\ WorkerTypeOK /\ SwitchTypeOK /\ log \in Seq(Messages) /\ Len(log) \in Nat /\ fetch \in Nat /\ marked \in Int
      /\ \A v \in Workers : off[v] \in Nat
  BY KafkaFacts DEF PlacesInv, HandsInv
<1>2. ~CtxDone /\ ~Fail
  BY DEF Calm, CtxDone, Fail, PlacesInv, HandsInv, TypeInv, TypeOK, BoundTypeOK
<1>3. log' = log /\ src[w] = "kafka"
  BY <1>1, CycleFrame DEF AtHome
<1>4. \A i \in 1..Len(log) : Done(i) => Done(i)'
  BY DoneStays DEF PlacesInv, HandsInv
<1>5. \A v \in Workers : v # w => (HoldsRecord(v)' <=> HoldsRecord(v)) /\ off'[v] = off[v]
  BY <1>1, OthersKept DEF HoldsRecord, Holding
<1> USE <1>1, <1>3, <1>4, <1>5 DEF Lagging, HeldAt
<1> HIDE DEF Done, HoldsRecord
<1>6. CASE UNCHANGED <<fetch, marked, pushes>> /\ (HoldsRecord(w)' <=> HoldsRecord(w)) /\ (HoldsRecord(w) => off'[w] = off[w])
  BY <1>6 DEF Confirmed
<1>7. CASE StartCycle(w) \/ Exit(w) \/ Snapshot(w) \/ Cancelled(w) \/ Retry(w) \/ ReturnError(w)
  <2>1. UNCHANGED <<fetch, marked, pushes>>
    BY <1>7, Zenon DEF StartCycle, Exit, Snapshot, Cancelled, Retry, ReturnError, backendVars
  <2>2. ~HoldsRecord(w) /\ ~HoldsRecord(w)'
    BY <1>7 DEF StartCycle, Exit, Snapshot, Cancelled, Retry, ReturnError, Stay, Go, WorkerTypeOK, HoldsRecord, Holding
  <2> QED
    BY <1>6, <2>1, <2>2
<1>8. CASE KafkaReceive(w)
  <2>1. fetch < Len(log) /\ fetch' = fetch + 1 /\ UNCHANGED <<marked, pushes>> /\ ~HoldsRecord(w)
    BY <1>8 DEF KafkaReceive, Kafka!Receive, Kafka!HasRecord, HoldsRecord, Holding
  <2>2. Confirmed' = Confirmed
    BY <2>1 DEF Confirmed
  <2>3. CASE log[fetch + 1] \in Poison
    <3>1. ~HoldsRecord(w)'
      BY <1>8, <2>3 DEF KafkaReceive, Kafka!Record, Stay, Go, WorkerTypeOK, HoldsRecord, Holding
    <3>2. Done(fetch + 1)
      BY <2>3 DEF Done
    <3>3. \A v \in Workers : (HoldsRecord(v)' <=> HoldsRecord(v)) /\ (HoldsRecord(v) => off'[v] = off[v])
      BY <2>1, <3>1
    <3>4. \A i \in 1..Len(log) : HeldAt(i) => HeldAt(i)'
      BY <3>3
    <3>5. marked' <= fetch' /\ \A v \in Workers : HoldsRecord(v)' => off'[v] < fetch'
      BY <2>1, <3>3
    <3>6. ASSUME NEW i \in 1..Len(log), i <= fetch' PROVE Done(i)' \/ HeldAt(i)'
      <4>1. i <= fetch \/ i = fetch + 1
        BY <2>1, <3>6
      <4>2. i <= fetch => Done(i) \/ HeldAt(i)
        OBVIOUS
      <4> QED
        BY <3>2, <3>4, <4>1, <4>2, Zenon
    <3>7. ASSUME NEW i \in 1..Len(log), i > marked', log[i] \in Confirmed' PROVE HeldAt(i)'
      BY <2>1, <2>2, <3>4, <3>7
    <3> QED
      BY <3>5, <3>6, <3>7
  <2>4. CASE log[fetch + 1] \notin Poison
    <3>1. HoldsRecord(w)' /\ off'[w] = fetch
      BY <1>8, <2>4 DEF KafkaReceive, Kafka!Record, Take, Go, WorkerTypeOK, HoldsRecord, Holding
    <3>2. \A v \in Workers : HoldsRecord(v) => HoldsRecord(v)' /\ off'[v] = off[v]
      BY <2>1
    <3>3. \A i \in 1..Len(log) : HeldAt(i) => HeldAt(i)'
      BY <3>2
    <3>4. \A i \in 1..Len(log) : i = fetch + 1 => HeldAt(i)'
      BY <3>1
    <3>5. marked' <= fetch' /\ \A v \in Workers : HoldsRecord(v)' => off'[v] < fetch'
      <4>1. ASSUME NEW v \in Workers, HoldsRecord(v)' PROVE off'[v] < fetch'
        <5>1. CASE v = w
          BY <2>1, <3>1, <5>1
        <5>2. CASE v # w
          BY <2>1, <4>1, <5>2
        <5> QED
          BY <5>1, <5>2
      <4> QED
        BY <2>1, <4>1
    <3>6. ASSUME NEW i \in 1..Len(log), i <= fetch' PROVE Done(i)' \/ HeldAt(i)'
      <4>1. i <= fetch \/ i = fetch + 1
        BY <2>1, <3>6
      <4>2. i <= fetch => Done(i) \/ HeldAt(i)
        OBVIOUS
      <4> QED
        BY <3>3, <3>4, <4>1, <4>2, Zenon
    <3>7. ASSUME NEW i \in 1..Len(log), i > marked', log[i] \in Confirmed' PROVE HeldAt(i)'
      BY <2>1, <2>2, <3>3, <3>7
    <3> QED
      BY <3>5, <3>6, <3>7
  <2> QED
    BY <2>3, <2>4
<1>9. CASE PushOk(w)
  <2>1. HoldsRecord(w) /\ HoldsRecord(w)' /\ UNCHANGED <<off, fetch, marked>>
    BY <1>9 DEF PushOk, Stay, Go, WorkerTypeOK, backendVars, HoldsRecord, Holding
  <2>2. msg[w] \in Messages /\ off[w] + 1 \in 1..Len(log) /\ log[off[w] + 1] = msg[w]
    BY <2>1 DEF HoldsRecord, PlacesInv, HandsInv, TypeInv, WorkersHold, HeldOK
  <2>3. Confirmed' \subseteq Confirmed \cup {msg[w]}
    BY <1>9 DEF PushOk, Confirmed, PlacesInv, HandsInv, TypeInv, TypeOK, BoundTypeOK
  <2>4. \A i \in 1..Len(log) : log[i] = msg[w] => i = off[w] + 1
    BY <2>2 DEF PlacesInv, Places, PlaceOK, OnceThere
  <2> QED
    BY <2>1, <2>3, <2>4
<1>10. CASE Ack(w)
  <2>1. HoldsRecord(w) /\ ~HoldsRecord(w)' /\ UNCHANGED pushes
    BY <1>10 DEF Ack, Drop, Go, WorkerTypeOK, HoldsRecord, Holding
  <2>2. Done(off[w] + 1)
    BY <1>10, <2>1 DEF Ack, HoldsRecord, Holding, PlacesInv, HandsInv, TypeInv, WorkersHold, HeldOK, AckConfirmed, Done
  <2>3. fetch' = fetch /\ marked' = Kafka!Larger(marked, off[w] + 1)
    BY <1>10 DEF Ack, AckClosure, Kafka!MarkOffset
  <2>4. marked' >= marked /\ marked' >= off[w] + 1 /\ marked' \in {marked, off[w] + 1}
    BY <2>3 DEF Kafka!Larger
  <2>5. Confirmed' = Confirmed
    BY <2>1 DEF Confirmed
  <2>6. ASSUME NEW i \in 1..Len(log), HeldAt(i), i # off[w] + 1 PROVE HeldAt(i)'
    BY <2>6
  <2>7. \A i \in 1..Len(log) : i <= fetch => Done(i)' \/ HeldAt(i)'
    BY <2>2, <2>6
  <2>8. ASSUME NEW i \in 1..Len(log), i > marked', log[i] \in Confirmed PROVE HeldAt(i)'
    <3>1. i > marked /\ i # off[w] + 1
      BY <2>4, <2>8
    <3>2. HeldAt(i)
      BY <2>8, <3>1
    <3> QED
      BY <2>6, <3>1, <3>2
  <2>9. marked' <= fetch /\ \A v \in Workers : HoldsRecord(v)' => off'[v] < fetch
    BY <2>1, <2>4
  <2> QED
    BY <2>3, <2>5, <2>7, <2>8, <2>9
<1>11. ~MemoryReceive(w) /\ ~ConstReceive(w) /\ ~SqsReceive(w) /\ ~SqsReceiveFails(w)
  BY DEF MemoryReceive, ConstReceive, SqsReceive, SqsReceiveFails
<1>12. ~AckFails(w) /\ ~PushFails(w) /\ ~ConstReady(w)
  BY <1>2 DEF AckFails, PushFails, ConstReady, PlacesInv, HandsInv, TypeInv, WorkersHold, HeldOK
<1> QED
  BY <1>7, <1>8, <1>9, <1>10, <1>11, <1>12 DEF CycleStep, Receive

LEMMA LaggingStep ==
    ASSUME PlacesInv, AckConfirmed, Budget, AtHome, active = "kafka", active' = active, Lagging, Calm,
           failures' = failures, ~Restart, [Next]_vars
    PROVE  Lagging'
<1>1. /\ WorkerTypeOK /\ SwitchTypeOK /\ log \in Seq(Messages) /\ Len(log) \in Nat /\ fetch \in Nat /\ marked \in Int
      /\ fetch <= Len(log) /\ marked <= Len(log) /\ (\A v \in Workers : off[v] \in Nat) /\ TypeInv
  BY KafkaFacts DEF PlacesInv, HandsInv
<1>2. ASSUME NEW m \in Messages, m \in fresh \/ AtProducer(m) PROVE m \notin Confirmed
  <2>1. status[m] = "absent" /\ InPlay(m) /\ pushes[m] \in Nat
    BY <1>1, <1>2 DEF PlacesInv, Places, PlaceOK, OnePlace, InPlay, TypeInv, TypeOK, BoundTypeOK, PushCap
  <2> QED
    BY <2>1 DEF Budget, Calm, Confirmed
<1>3. CASE /\ UNCHANGED <<workerVars, fetch, marked, pushes>>
           /\ (log' = log \/ \E m \in Messages : (m \in fresh \/ AtProducer(m)) /\ log' = Append(log, m))
  <2>1. UNCHANGED <<pc, src, off>> /\ Confirmed' = Confirmed
    BY <1>3 DEF workerVars, Confirmed
  <2>2. \A i : HeldAt(i)' <=> HeldAt(i)
    BY <2>1 DEF HeldAt, HoldsRecord, Holding
  <2>3. CASE log' = log
    BY <1>3, <2>1, <2>2, <2>3 DEF Lagging, HoldsRecord, Holding, Done
  <2>4. ASSUME NEW m \in Messages, m \in fresh \/ AtProducer(m), log' = Append(log, m) PROVE Lagging'
    <3>1. /\ Len(log') = Len(log) + 1 /\ log'[Len(log) + 1] = m
          /\ \A i \in 1..Len(log) : log'[i] = log[i]
      BY <1>1, <2>4, AppendElements
    <3>2. m \notin Confirmed
      BY <1>2, <2>4
    <3>3. \A i \in 1..Len(log') : i = Len(log) + 1 \/ i \in 1..Len(log)
      BY <1>1, <3>1
    <3>4. \A w \in Workers : HoldsRecord(w)' => off'[w] < fetch'
      BY <1>3, <2>1 DEF Lagging, HoldsRecord, Holding
    <3>5. ASSUME NEW i \in 1..Len(log'), i <= fetch' PROVE Done(i)' \/ HeldAt(i)'
      <4>1. i \in 1..Len(log) /\ i <= fetch
        BY <1>1, <1>3, <3>3, <3>5
      <4> QED
        BY <2>1, <2>2, <3>1, <4>1 DEF Lagging, Done
    <3>6. ASSUME NEW i \in 1..Len(log'), i > marked', log'[i] \in Confirmed' PROVE HeldAt(i)'
      <4>1. i \in 1..Len(log) /\ i > marked /\ log[i] \in Confirmed
        BY <1>3, <2>1, <3>1, <3>2, <3>3, <3>6
      <4> QED
        BY <2>2, <4>1 DEF Lagging
    <3> QED
      BY <1>3, <3>4, <3>5, <3>6 DEF Lagging
  <2> QED
    BY <1>3, <2>3, <2>4
<1>4. ASSUME NEW p \in Producers, EnqueueStep(p) \/ CreateStep(p) PROVE Lagging'
  <2>1. UNCHANGED <<workerVars, pushes>>
    BY <1>4, EnqueueFrame
  <2>2. UNCHANGED <<fetch, marked>>
    BY <1>4 DEF EnqueueStep, CreateStep, EnqueueRemote, EnqueueRemoteFails, EnqueueConst, MemorySend, MemoryCount,
       Create, Kafka!Publish, kafkaVars, backendVars
  <2>3. log' = log \/ (pmsg[p] \in Messages /\ AtProducer(pmsg[p]) /\ log' = Append(log, pmsg[p]))
    BY <1>4 DEF EnqueueStep, CreateStep, EnqueueRemote, EnqueueRemoteFails, EnqueueConst, MemorySend, MemoryCount,
       Create, Kafka!Publish, kafkaVars, backendVars, TypeInv, PlacesInv, HandsInv, ProducersHold, AtProducer
  <2> QED
    BY <1>3, <2>1, <2>2, <2>3
<1>5. ASSUME NEW t \in Types, Build(t) PROVE Lagging'
  <2>1. UNCHANGED <<log, fetch, marked, workerVars, pushes>>
    BY <1>5, BuildKeeps DEF Build, kafkaVars, PlacesInv, HandsInv
  <2> QED
    BY <1>3, <2>1
<1>6. CASE OtherStep /\ ~\E t \in Types : Build(t)
  <2>1. UNCHANGED <<workerVars, fetch, marked, pushes>>
    BY <1>6, OtherFrame DEF OtherStep, ExternalWrite, Expire, Swap, StoreQuery, CloseReady, StopBegins, StopReturns,
       Kafka!Publish, kafkaVars, backendVars
  <2>2. log' = log \/ \E m \in Messages : m \in fresh /\ log' = Append(log, m)
    BY <1>6 DEF OtherStep, ExternalWrite, Expire, Swap, StoreQuery, CloseReady, StopBegins, StopReturns,
       Kafka!Publish, kafkaVars, backendVars
  <2> QED
    BY <1>3, <2>1, <2>2
<1>7. CASE UNCHANGED vars
  BY <1>3, <1>7 DEF vars, backendVars
<1> QED
  BY <1>4, <1>5, <1>6, <1>7, NextCases, LaggingCycle DEF OtherStep

(* No two records are held by the same worker.                               *)
LEMMA HeldAtMost ==
    ASSUME TypeInv
    PROVE  /\ IsFiniteSet({i \in 1..Len(log) : HeldAt(i)})
           /\ Cardinality({i \in 1..Len(log) : HeldAt(i)}) <= Carrying
<1> DEFINE H == {i \in 1..Len(log) : HeldAt(i)}
           holder == [i \in H |-> CHOOSE w \in Workers : HoldsRecord(w) /\ off[w] + 1 = i]
<1>1. \A i \in H : holder[i] \in Workers /\ HoldsRecord(holder[i]) /\ off[holder[i]] + 1 = i
  BY DEF HeldAt
<1>2. \A i \in H : holder[i] \in Carriers
  BY <1>1 DEF TypeInv, WorkersHold, HeldOK, HoldsRecord, Carriers
<1>3. \A i, j \in H : holder[i] = holder[j] => i = j
  BY <1>1
<1>4. holder \in Injection(H, Carriers)
  BY <1>2, <1>3 DEF Injection, IsInjective
<1>5. Carrying = Cardinality(Carriers)
  BY DEF Carrying, Carriers
<1> HIDE DEF H, holder
<1>6. IsFiniteSet(H) /\ Cardinality(H) <= Cardinality(Carriers)
  BY <1>4, CountsFinite, FS_Injection
<1> QED
  BY <1>5, <1>6 DEF H

LEMMA LagBounds ==
    ASSUME TypeInv, Lagging
    PROVE  /\ Kafka!Size >= Unpushed - Carrying + NothingMarked
           /\ Kafka!Size <= Unpushed + Carrying + Unreadable + NothingMarked
<1> DEFINE First == IF marked = -1 THEN 1 ELSE marked + 1
           Rest  == First..Len(log)
           U     == {i \in 1..Len(log) : log[i] \notin Confirmed \cup Poison}
           R     == {i \in 1..Len(log) : log[i] \in Poison}
           H     == {i \in 1..Len(log) : HeldAt(i)}
<1>1. Len(log) \in Nat /\ marked \in Int /\ marked <= Len(log) /\ marked >= -1 /\ fetch \in Nat
  BY KafkaFacts DEF TypeInv, TypeOK, Kafka!TypeOK, Kafka!NoOffset
<1>2. First \in Nat \ {0} /\ First <= Len(log) + 1
  BY <1>1
<1> HIDE DEF First
<1>3. IsFiniteSet(Rest) /\ Cardinality(Rest) = Len(log) - First + 1
  <2>1. First \in Int /\ Len(log) \in Int
    BY <1>1, <1>2
  <2>2. /\ IsFiniteSet(First..Len(log))
        /\ Cardinality(First..Len(log)) = IF First > Len(log) THEN 0 ELSE Len(log) - First + 1
    BY <2>1, FS_Interval, Zenon
  <2> QED
    BY <1>1, <1>2, <2>2
<1>4. Kafka!Size = Cardinality(Rest) + NothingMarked
  BY <1>1, <1>3 DEF First, Kafka!Size, Kafka!Larger, NothingMarked, Kafka!NoOffset
<1>5. IsFiniteSet(H) /\ Cardinality(H) <= Carrying
  BY HeldAtMost
<1>6. IsFiniteSet(1..Len(log))
  BY <1>1, FS_Interval
<1>7. IsFiniteSet(U) /\ IsFiniteSet(R)
  BY <1>6, FS_Subset
<1>8. Unpushed = Cardinality(U) /\ Unreadable = Cardinality(R)
  BY DEF Unpushed, Unreadable
<1>9. U \subseteq Rest \cup H
  BY <1>1 DEF First, Lagging, Done
<1>10. Rest \subseteq (U \cup R) \cup H
  BY <1>1 DEF First, Lagging
<1> HIDE DEF Rest, U, R, H
<1>11. Cardinality(U) <= Cardinality(Rest) + Cardinality(H)
  BY <1>3, <1>5, <1>9, UnionAtMost
<1>12. IsFiniteSet(U \cup R) /\ Cardinality(U \cup R) <= Cardinality(U) + Cardinality(R)
  BY <1>7, UnionAtMost
<1>13. Cardinality(Rest) <= Cardinality(U \cup R) + Cardinality(H)
  BY <1>5, <1>10, <1>12, UnionAtMost
<1>14. Cardinality(U) \in Nat /\ Cardinality(R) \in Nat /\ Cardinality(H) \in Nat /\ Cardinality(Rest) \in Nat
       /\ Cardinality(U \cup R) \in Nat /\ Cardinality(Carriers) \in Nat
  BY <1>3, <1>5, <1>7, <1>12, FS_CardinalityType, CountsFinite
<1>15. Carrying = Cardinality(Carriers) /\ NothingMarked \in Nat
  BY DEF Carrying, Carriers, NothingMarked
<1> QED
  BY <1>4, <1>5, <1>8, <1>11, <1>12, <1>13, <1>14, <1>15

SizeInv ==
    Steady => /\ AtHome
              /\ active = "inmemory" => Counted
              /\ active = "kafka" => Lagging

LEMMA SizeInvInit == Init => SizeInv
<1> SUFFICES ASSUME Init PROVE AtHome /\ Counted /\ Lagging
  BY DEF SizeInv
<1>1. Carriers = {} /\ Counters = {}
  BY DEF Init, Carriers, Counters
<1>2. Cardinality(Carriers) = 0 /\ Cardinality(Counters) = 0
  BY <1>1, FS_EmptySet
<1>3. Counted
  BY <1>2 DEF Init, Counted, Memory!Init
<1> QED
  BY <1>3 DEF Init, AtHome, Lagging, HoldsRecord, Holding, Kafka!Init, Kafka!NoOffset

LEMMA SizeInvStep ==
    ASSUME PlacesInv, AckConfirmed, Budget, Laden, SizeInv, [Next]_vars
    PROVE  SizeInv'
<1> SUFFICES ASSUME Steady'
             PROVE  AtHome' /\ (active' = "inmemory" => Counted') /\ (active' = "kafka" => Lagging')
  BY DEF SizeInv
<1>1. TypeInv
  BY DEF PlacesInv, HandsInv
<1>2. Steady /\ active' = active /\ failures' = failures /\ ~Restart
  BY <1>1, SteadyBefore
<1>3. AtHome /\ (active = "inmemory" => Counted) /\ (active = "kafka" => Lagging) /\ Calm
  BY <1>2 DEF SizeInv, Steady
<1>4. AtHome'
  BY <1>1, <1>2, <1>3, AtHomeStep
<1>5. active' = "inmemory" => Counted'
  BY <1>2, <1>3, CountedStep
<1>6. active' = "kafka" => Lagging'
  BY <1>2, <1>3, LaggingStep
<1> QED
  BY <1>4, <1>5, <1>6

(* The size that the lag poller publishes is what is still to be pushed, up  *)
(* to what the workers carry: exactly so for the in-memory queue, whose      *)
(* counter and channel move apart, and within bounds for Kafka, whose lag is *)
(* read off the offsets; until the first switch, failure, restart or Stop.   *)
THEOREM SizeFollows == Spec => []SizeAgrees
<1>1. Init => AckConfirmed /\ Laden /\ Budget /\ OncePerProcess
  BY SettledInvInit DEF SettledInv, Init, Laden, Holding, Budget, OncePerProcess
<1>2. PlacesInv /\ AckConfirmed /\ [Next]_vars => AckConfirmed'
  BY AckConfirmedStep DEF PlacesInv, HandsInv, TypeInv, TypeOK
<1>3. PlacesInv /\ Laden /\ [Next]_vars => Laden'
  BY LadenStep DEF PlacesInv, HandsInv
<1>4. PlacesInv /\ Budget /\ OncePerProcess /\ [Next]_vars => (Budget /\ OncePerProcess)'
  BY BudgetStep
<1>5. PlacesInv /\ AckConfirmed /\ Budget /\ Laden /\ SizeInv /\ [Next]_vars => SizeInv'
  BY SizeInvStep
<1>6. PlacesInv /\ SizeInv => SizeAgrees
  <2> SUFFICES ASSUME PlacesInv, SizeInv, Steady
               PROVE  /\ active = "inmemory" =>
                           size = Len(ch) + Carrying - Cardinality({p \in Producers : ppc[p] = "count"})
                      /\ active = "kafka" =>
                           /\ Kafka!Size >= Unpushed - Carrying + NothingMarked
                           /\ Kafka!Size <= Unpushed + Carrying + Unreadable + NothingMarked
    BY DEF SizeAgrees, Steady, Calm
  <2>1. active = "inmemory" => Counted
    BY DEF SizeInv
  <2>2. active = "kafka" => Lagging
    BY DEF SizeInv
  <2>3. TypeInv
    BY DEF PlacesInv, HandsInv
  <2> QED
    BY <2>1, <2>2, <2>3, LagBounds DEF Counted, Carriers, Counters, Carrying
<1> QED
  BY <1>1, <1>2, <1>3, <1>4, <1>5, <1>6, SizeInvInit, PlacesAlways, PTL DEF Spec
=============================================================================
