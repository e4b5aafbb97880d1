------------------------------ MODULE Program_proofs ------------------------------
(****************************************************************************)
(* Proofs about the processes of the program: the control loop (ControlLoop), *)
(* for any controllers, mappings and samples, the hooks and goroutines that   *)
(* start and end with it (Program), for any number of workers, and the        *)
(* metrics recorder that outlives them all (AsyncRecorder), for any number of *)
(* senders that never cease, any number of stoppers and any buffer.           *)
(****************************************************************************)
EXTENDS Program, AsyncRecorder, SequenceTheorems, TLAPS

-----------------------------------------------------------------------------
(* Every step of the program is a step of the control loop or leaves it      *)
(* alone: the program runs the loop that ControlLoop specifies.              *)
LEMMA ProgramStep == Next => [LoopNext]_loopVars
<1> SUFFICES ASSUME Next PROVE [LoopNext]_loopVars
  OBVIOUS
<1>1. CASE StartUp
  BY <1>1 DEF StartUp, StartPassive, StartPoller, StartOrchestrator, LoopNext
<1>2. CASE PollSilently \/ PollAndReport
  <2>1. Poll
    BY <1>2 DEF PollSilently, PollAndReport, Poll
  <2> QED
    BY <2>1 DEF LoopNext
<1>3. ASSUME NEW t \in Types, Serve(t)
      PROVE  [LoopNext]_loopVars
  BY <1>3 DEF Serve, LoopNext
<1>4. ASSUME NEW w \in Workers, BeginWork(w) \/ EndWork(w)
      PROVE  [LoopNext]_loopVars
  BY <1>4 DEF BeginWork, EndWork
<1>5. ASSUME NEW c \in Crew, Leave(c)
      PROVE  [LoopNext]_loopVars
  BY <1>5 DEF Leave
<1>6. CASE PublishLag \/ Signalled \/ Exit
  BY <1>6 DEF PublishLag, Signalled, Exit
<1>7. CASE Expire
  BY <1>7 DEF Expire, LoopNext
<1>8. CASE StopStep
  BY <1>8 DEF StopStep, Dismiss, StopOrchestrator, StopPassive, TellPoller, StopPoller,
              StopRecorder, LoopNext
<1> QED
  BY <1>1, <1>2, <1>3, <1>4, <1>5, <1>6, <1>7, <1>8 DEF Next

THEOREM RunsControlLoop == Spec => LoopSpec
<1>1. Init => LoopInit
  BY DEF Init
<1>2. [Next]_vars => [LoopNext]_loopVars
  BY ProgramStep DEF vars
<1> QED
  BY <1>1, <1>2, PTL DEF Spec, LoopSpec

-----------------------------------------------------------------------------
(* A stale rate is set by a poll that picked its controller before the last  *)
(* switch; a poll that picks one afterwards picks the active one.            *)
StaleInv ==
    /\ stale \in {0, 1}
    /\ stale = 1 /\ poller \in {"picked", "computed"} => picked = active

LEMMA StaleInvInit == LoopInit => StaleInv
BY DEF LoopInit, StaleInv

LEMMA StaleInvStep == StaleInv /\ [LoopNext]_loopVars => StaleInv'
<1> SUFFICES ASSUME StaleInv, [LoopNext]_loopVars PROVE StaleInv'
  OBVIOUS
<1> USE DEF StaleInv, rateVars, controlVars
<1>1. CASE Start \/ Tick \/ Quit \/ QueriesDone \/ Measure
  BY <1>1 DEF Start, Tick, Quit, QueriesDone, Measure
<1>2. ASSUME NEW page \in Pages, NEW now \in Times, ReadPage(page, now)
      PROVE  StaleInv'
  BY <1>2 DEF ReadPage
<1>3. ASSUME NEW source \in Sources, NEW answer \in Answers, ReadQuery(source, answer)
      PROVE  StaleInv'
  BY <1>3 DEF ReadQuery, pollVars
<1>4. CASE ReadFails \/ NoCpu \/ Refuse
  BY <1>4 DEF ReadFails, NoCpu, Refuse, EndPoll
<1>5. CASE Pick
  BY <1>5 DEF Pick
<1>6. CASE Compute
  BY <1>6 DEF Compute, ComputePid, ComputeSmith, ComputeStep, Timed
<1>7. CASE SetDrainRate
  BY <1>7 DEF SetDrainRate, EndPoll
<1>8. ASSUME NEW t \in Types, SetType(t)
      PROVE  StaleInv'
  BY <1>8 DEF SetType
<1>9. CASE Stop \/ StopReturns \/ StopExpires
  BY <1>9 DEF Stop, StopReturns, StopExpires
<1>10. CASE UNCHANGED loopVars
  BY <1>10 DEF loopVars, pollVars
<1> QED
  BY <1>1, <1>2, <1>3, <1>4, <1>5, <1>6, <1>7, <1>8, <1>9, <1>10 DEF LoopNext, Poll, Reading

(* A controller that was switched away from sets the drain rate once more at *)
(* most, for any controllers, samples and switches ...                       *)
THEOREM StaleOnce == LoopSpec => []StaleRateOnce
<1>1. StaleInv => StaleRateOnce
  BY DEF StaleInv, StaleRateOnce
<1> QED
  BY StaleInvInit, StaleInvStep, <1>1, PTL DEF LoopSpec

(* ... and in the program that the loop is a part of.                        *)
THEOREM ProgramStaleOnce == Spec => []StaleRateOnce
BY RunsControlLoop, StaleOnce, PTL

-----------------------------------------------------------------------------
(* A poller that was never started stays off once Stop was called, and one   *)
(* that Stop waited for has ended.                                           *)
QuietInv == stopper = "returned" => poller \in {"off", "ended"}

LEMMA QuietInvStep == QuietInv /\ [LoopNext]_loopVars => QuietInv'
<1> SUFFICES ASSUME QuietInv, [LoopNext]_loopVars PROVE QuietInv'
  OBVIOUS
<1> USE DEF QuietInv
<1>1. CASE Start \/ Tick \/ Quit \/ QueriesDone \/ Measure \/ Pick
  BY <1>1 DEF Start, Tick, Quit, QueriesDone, Measure, Pick
<1>2. ASSUME NEW page \in Pages, NEW now \in Times, ReadPage(page, now)
      PROVE  QuietInv'
  BY <1>2 DEF ReadPage
<1>3. ASSUME NEW source \in Sources, NEW answer \in Answers, ReadQuery(source, answer)
      PROVE  QuietInv'
  BY <1>3 DEF ReadQuery, pollVars
<1>4. CASE ReadFails \/ NoCpu \/ Refuse \/ SetDrainRate
  BY <1>4 DEF ReadFails, NoCpu, Refuse, SetDrainRate, EndPoll
<1>5. CASE Compute
  BY <1>5 DEF Compute, ComputePid, ComputeSmith, ComputeStep, Timed
<1>6. ASSUME NEW t \in Types, SetType(t)
      PROVE  QuietInv'
  BY <1>6 DEF SetType, pollVars
<1>7. CASE Stop \/ StopReturns \/ StopExpires
  BY <1>7 DEF Stop, StopReturns, StopExpires
<1>8. CASE UNCHANGED loopVars
  BY <1>8 DEF loopVars, pollVars
<1> QED
  BY <1>1, <1>2, <1>3, <1>4, <1>5, <1>6, <1>7, <1>8 DEF LoopNext, Poll, Reading

LEMMA QuietStep ==
  QuietInv /\ [LoopNext]_loopVars =>
    [stopper = "returned" => UNCHANGED <<rate, pvFilter>>]_loopVars
<1> SUFFICES ASSUME QuietInv, LoopNext, stopper = "returned"
             PROVE  UNCHANGED <<rate, pvFilter>>
  OBVIOUS
<1>1. poller \in {"off", "ended"}
  BY DEF QuietInv
<1>2. ~Poll
  BY <1>1 DEF Poll, Tick, Quit, Reading, ReadPage, ReadQuery, QueriesDone, ReadFails, NoCpu,
              Measure, Pick, Refuse, Compute, ComputePid, ComputeSmith, ComputeStep, SetDrainRate
<1>3. ~Start /\ ~Stop /\ ~StopReturns /\ ~StopExpires
  BY DEF Start, Stop, StopReturns, StopExpires
<1>4. ASSUME NEW t \in Types, SetType(t)
      PROVE  UNCHANGED <<rate, pvFilter>>
  BY <1>4 DEF SetType, sampleVars
<1> QED
  BY <1>2, <1>3, <1>4 DEF LoopNext

(* Once the poller's Stop has returned, neither drain rate nor filter        *)
(* changes.                                                                  *)
THEOREM Quiet == LoopSpec => QuietAfterStop
<1>1. LoopInit => QuietInv
  BY DEF LoopInit, QuietInv
<1> QED
  BY <1>1, QuietInvStep, QuietStep, PTL DEF LoopSpec, QuietAfterStop

-----------------------------------------------------------------------------
(* The hooks are stopped one by one, so that how many are left tells which   *)
(* parts have ended.                                                         *)
Ending == phase \in {"stopping", "exited"}

GracefulInv ==
    /\ hooked \in 0 .. 5
    /\ phase = "starting" => hooked < 5
    /\ phase = "running" => hooked = 5
    /\ expired => phase = "exited"
    /\ phase = "exited" /\ ~expired => hooked = 0
    /\ protocol = "none" => poller = "off"
    /\ crew = [c \in Crew |-> crew[c]]
    /\ Ending /\ hooked < 5 => \A c \in Crew : crew[c] = "ended"
    /\ Ending /\ hooked < 3 => poller \in {"off", "ended"}
    /\ recorder = "closed" => Ending /\ hooked = 0
    /\ ~lost

(* The places of the hooks.                                                  *)
LEMMA HookPlaces ==
  /\ Len(Hooks) = 5
  /\ Hooks[1] = "recorder" /\ Hooks[2] = "queueType" /\ Hooks[3] = "poller"
  /\ Hooks[4] = "server" /\ Hooks[5] = "orchestrator"
BY DEF Hooks

LEMMA GracefulInvInit == Init => GracefulInv
BY DEF Init, LoopInit, GracefulInv, Ending

(* A step of the poller or of a worker reports to an open recorder.          *)
LEMMA ReportsArrive ==
  ASSUME GracefulInv, Report,
         poller \notin {"off", "ended"} \/ \E c \in Crew : crew[c] # "ended"
  PROVE  ~lost'
<1>1. recorder # "closed"
  <2> SUFFICES ASSUME recorder = "closed" PROVE FALSE
    OBVIOUS
  <2>1. Ending /\ hooked = 0
    BY DEF GracefulInv
  <2> QED
    BY <2>1 DEF GracefulInv
<1>2. ~lost
  BY DEF GracefulInv
<1> QED
  BY <1>1, <1>2, Zenon DEF Report

LEMMA GracefulInvStep == GracefulInv /\ [Next]_vars => GracefulInv'
<1> SUFFICES ASSUME GracefulInv, [Next]_vars PROVE GracefulInv'
  OBVIOUS
<1> USE DEF GracefulInv, Ending, programVars, stageVars, crewVars
<1>1. CASE StartPassive
  <2>1. PICK h \in {"recorder", "queueType", "server"} : StartHook(h)
    BY <1>1 DEF StartPassive
  <2> QED
    BY <1>1, <2>1, HookPlaces DEF StartPassive, StartHook, loopVars, pollVars, readVars
<1>2. CASE StartPoller
  <2>1. poller' = poller \/ protocol # "none"
    BY <1>2 DEF StartPoller, Start, loopVars, pollVars
  <2>2. protocol' = protocol
    BY <1>2 DEF StartPoller, Start, loopVars, readVars
  <2>3. phase' = "starting" /\ hooked' = hooked + 1 /\ hooked < 4 /\ UNCHANGED expired
    BY <1>2, HookPlaces DEF StartPoller, StartHook
  <2>4. UNCHANGED <<recorder, crew, dismissed, lost>> /\ phase = "starting"
    BY <1>2 DEF StartPoller, StartHook
  <2> QED
    BY <2>1, <2>2, <2>3, <2>4
<1>3. CASE StartOrchestrator
  BY <1>3, HookPlaces DEF StartOrchestrator, StartHook, loopVars, pollVars, readVars
<1>4. CASE PollSilently \/ PollAndReport
  <2>1. poller \notin {"off", "ended"} /\ UNCHANGED protocol
    BY <1>4 DEF PollSilently, PollAndReport, Tick, Quit, Reading, ReadPage, ReadQuery,
                QueriesDone, ReadFails, NoCpu, Measure, Pick, Refuse, Compute, ComputePid,
                ComputeSmith, ComputeStep, Timed, SetDrainRate, EndPoll, EndRead, BeginRead,
                Scrape, Query, readVars
  <2>2. ~lost' /\ UNCHANGED <<stageVars, recorder, crewVars>>
    BY <1>4, <2>1, ReportsArrive DEF PollSilently, PollAndReport
  <2> QED
    BY <2>1, <2>2
<1>5. ASSUME NEW t \in Types, Serve(t)
      PROVE  GracefulInv'
  BY <1>5 DEF Serve, SetType, pollVars, readVars
<1>6. ASSUME NEW w \in Workers, BeginWork(w)
      PROVE  GracefulInv'
  BY <1>6 DEF BeginWork, Crew, loopVars, pollVars, readVars
<1>7. ASSUME NEW w \in Workers, EndWork(w)
      PROVE  GracefulInv'
  <2>1. ~lost'
    BY <1>7, ReportsArrive DEF EndWork, Crew
  <2> QED
    BY <1>7, <2>1 DEF EndWork, Crew, loopVars, pollVars, readVars
<1>8. CASE PublishLag
  <2>1. ~lost'
    BY <1>8, ReportsArrive DEF PublishLag, Crew
  <2> QED
    BY <1>8, <2>1 DEF PublishLag, loopVars, pollVars, readVars
<1>9. ASSUME NEW c \in Crew, Leave(c)
      PROVE  GracefulInv'
  BY <1>9 DEF Leave, loopVars, pollVars, readVars
<1>10. CASE Signalled
  BY <1>10 DEF Signalled, loopVars, pollVars, readVars
<1>11. CASE Dismiss \/ StopOrchestrator
  BY <1>11, HookPlaces DEF Dismiss, StopOrchestrator, Stopping, HookDone, loopVars, pollVars,
                           readVars
<1>12. CASE StopPassive
  <2>1. PICK h \in {"server", "queueType"} : Stopping(h)
    BY <1>12 DEF StopPassive
  <2> QED
    BY <1>12, <2>1, HookPlaces DEF StopPassive, Stopping, HookDone, loopVars, pollVars, readVars
<1>13. CASE TellPoller
  BY <1>13, HookPlaces DEF TellPoller, Stopping, HookDone, Stop, loopVars, pollVars, readVars
<1>14. CASE StopPoller
  BY <1>14, HookPlaces DEF StopPoller, Stopping, HookDone, StopReturns, readVars
<1>15. CASE StopRecorder
  BY <1>15, HookPlaces DEF StopRecorder, Stopping, HookDone, loopVars, pollVars, readVars
<1>16. CASE Expire
  BY <1>16 DEF Expire, StopExpires, loopVars, pollVars, readVars
<1>17. CASE Exit
  BY <1>17 DEF Exit, loopVars, pollVars, readVars
<1>18. CASE UNCHANGED vars
  BY <1>18 DEF vars, loopVars, pollVars, readVars
<1> QED
  BY <1>1, <1>2, <1>3, <1>4, <1>5, <1>6, <1>7, <1>8, <1>9, <1>10, <1>11, <1>12, <1>13, <1>14,
     <1>15, <1>16, <1>17, <1>18 DEF Next, StartUp, StopStep

(* For any number of workers, a program that stops within its time loses no  *)
(* metric of its poller or workers and interrupts neither.                   *)
THEOREM StopsGracefully == Spec => []GracefulStop
<1>1. GracefulInv => GracefulStop
  BY DEF GracefulInv, GracefulStop, Ending
<1> QED
  BY GracefulInvInit, GracefulInvStep, <1>1, PTL DEF Spec

-----------------------------------------------------------------------------
(* Facts about sequences: a concatenation grows at its end, a sequence is    *)
(* its head before its tail, and the tail of an element before a sequence is *)
(* that sequence.                                                            *)
LEMMA AppendRight ==
    ASSUME NEW t \in Seq(Events), NEW c \in Seq(Events), NEW e \in Events
    PROVE  Append(t \o c, e) = t \o Append(c, e)
<1>1. t \o c \in Seq(Events) /\ <<e>> \in Seq(Events)
  BY ConcatProperties
<1>2. Append(t \o c, e) = (t \o c) \o <<e>>
  BY <1>1, AppendIsConcat
<1>3. Append(c, e) = c \o <<e>>
  BY AppendIsConcat
<1>4. \A f \in Seq(Events) : (t \o c) \o f = t \o (c \o f)
  BY ConcatAssociative
<1> QED
  BY <1>1, <1>2, <1>3, <1>4

LEMMA TakeHead ==
    ASSUME NEW c \in Seq(Events), c # <<>>
    PROVE  <<>> \o c = <<Head(c)>> \o Tail(c)
<1>1. c = <<Head(c)>> \o Tail(c)
  BY HeadTailProperties
<1> QED
  BY <1>1, ConcatEmptySeq

LEMMA TailOfHead ==
    ASSUME NEW e \in Events, NEW c \in Seq(Events)
    PROVE  Tail(<<e>> \o c) = c /\ Tail(<<e>> \o c) \in Seq(Events)
<1> DEFINE o == <<e>> \o c
<1>1. /\ o \in Seq(Events) /\ Len(o) = 1 + Len(c) /\ Len(c) \in Nat
      /\ \A i \in 1..Len(o) : o[i] = IF i <= 1 THEN <<e>>[i] ELSE c[i - 1]
  BY ConcatProperties, LenProperties
<1>2. /\ Tail(o) \in Seq(Events) /\ Len(Tail(o)) = Len(o) - 1
      /\ \A i \in 1..Len(Tail(o)) : Tail(o)[i] = o[i + 1]
  BY <1>1, HeadTailProperties, EmptySeq
<1>3. \A i \in 1..Len(c) : Tail(o)[i] = c[i]
  BY <1>1, <1>2
<1> QED
  BY <1>1, <1>2, <1>3, SeqEqual

(* The recorder's type correctness.  A sender that is past RLock carries a   *)
(* real event: TypeOK alone does not say so and is not inductive.            *)

CarriedOK == \A s \in Senders : spc[s] # "idle" => carried[s] \in Events

(* The strengthened type invariant holds at the start and every step keeps   *)
(* it, given that the worker records what is owed.                           *)
LEMMA TypeInit == RecorderInit => TypeOK /\ CarriedOK
<1> SUFFICES ASSUME RecorderInit PROVE TypeOK /\ CarriedOK
  OBVIOUS
<1>1. <<>> \in Seq(Events) /\ Len(<<>>) <= BufSize
  BY EmptySeq, RecorderAssumption
<1>2. chClosed \in BOOLEAN /\ closed \in BOOLEAN /\ panicked \in BOOLEAN
  BY DEF RecorderInit
<1>3. spc \in [Senders -> SenderPcs] /\ tpc \in [Stoppers -> StopperPcs]
  BY DEF RecorderInit, SenderPcs, StopperPcs
<1>4. carried \in [Senders -> Events \cup {NoEvent}]
  BY DEF RecorderInit
<1>5. CarriedOK
  BY DEF RecorderInit, CarriedOK
<1>6. event \in IF worker = "record" THEN Events ELSE {NoEvent}
  BY DEF RecorderInit
<1> QED
  BY <1>1, <1>2, <1>3, <1>4, <1>5, <1>6 DEF RecorderInit, TypeOK

LEMMA TypeStep ==
    ASSUME TypeOK, CarriedOK, InOrder, [RecorderNext]_recorderVars
    PROVE  (TypeOK /\ CarriedOK)'
<1> USE RecorderAssumption DEF TypeOK, CarriedOK, SenderPcs, StopperPcs
<1>1. ASSUME NEW s \in Senders, RLock(s) PROVE (TypeOK /\ CarriedOK)'
  BY <1>1 DEF RLock
<1>2. ASSUME NEW s \in Senders, CheckClosed(s) PROVE (TypeOK /\ CarriedOK)'
  BY <1>2 DEF CheckClosed
<1>3. ASSUME NEW s \in Senders, Select(s) PROVE (TypeOK /\ CarriedOK)'
  <2>1. carried[s] \in Events
    BY <1>3 DEF Select
  <2>2. ch' \in Seq(Events) /\ Len(ch') <= BufSize /\ owed' \in Seq(Events)
    <3>1. CASE UNCHANGED <<ch, owed>>
      BY <3>1
    <3>2. CASE /\ Len(ch) < BufSize
               /\ ch' = Append(ch, carried[s])
               /\ owed' = Append(owed, carried[s])
      <4>1. Len(ch') = Len(ch) + 1 /\ Len(ch) \in Nat
        BY <3>2, <2>1, AppendProperties, LenProperties
      <4> QED
        BY <3>2, <2>1, <4>1, AppendProperties
    <3> QED
      BY <1>3, <3>1, <3>2 DEF Select
  <2> QED
    BY <1>3, <2>2 DEF Select
<1>4. ASSUME NEW s \in Senders, RUnlock(s) PROVE (TypeOK /\ CarriedOK)'
  BY <1>4 DEF RUnlock
<1>5. ASSUME NEW t \in Stoppers, CallStop(t) \/ StopperStep(t) PROVE (TypeOK /\ CarriedOK)'
  BY <1>5 DEF CallStop, StopperStep, Announce, Lock, SetClosed, CloseChannel, Unlock, Return, StopperGoes
<1>6. CASE Receive
  BY <1>6 DEF Receive
<1>7. CASE Record
  <2>1. owed = <<event>> \o ch /\ event \in Events
    BY <1>7 DEF Record, InOrder, InWorker
  <2>2. Tail(owed) \in Seq(Events)
    BY <2>1, TailOfHead
  <2> QED
    BY <1>7, <2>2 DEF Record
<1>8. CASE Done
  BY <1>8 DEF Done
<1>9. CASE UNCHANGED recorderVars
  BY <1>9 DEF recorderVars
<1> QED
  BY <1>1, <1>2, <1>3, <1>4, <1>5, <1>6, <1>7, <1>8, <1>9
  DEF RecorderNext, SendStep, WorkerStep

-----------------------------------------------------------------------------
(* Order and completeness of what is recorded.                               *)

LEMMA OrderStep ==
    ASSUME TypeOK, CarriedOK, InOrder, [RecorderNext]_recorderVars
    PROVE  InOrder'
<1>0. InWorker \in Seq(Events) /\ ch \in Seq(Events)
  BY EmptySeq DEF TypeOK, InWorker
<1>1. ASSUME NEW s \in Senders, Select(s) PROVE InOrder'
  <2>1. CASE UNCHANGED <<ch, owed>>
    BY <1>1, <2>1 DEF Select, InOrder, InWorker
  <2>2. CASE /\ ch' = Append(ch, carried[s])
             /\ owed' = Append(owed, carried[s])
    <3>1. carried[s] \in Events
      BY <1>1 DEF Select, CarriedOK
    <3>2. UNCHANGED InWorker
      BY <1>1 DEF Select, InWorker
    <3>3. owed' = InWorker \o Append(ch, carried[s])
      BY <1>0, <2>2, <3>1, AppendRight DEF InOrder
    <3> QED
      BY <2>2, <3>2, <3>3 DEF InOrder
  <2> QED
    BY <1>1, <2>1, <2>2 DEF Select
<1>2. CASE Receive
  <2>1. InWorker = <<>> /\ InWorker' = <<Head(ch)>>
    BY <1>2 DEF Receive, InWorker
  <2> QED
    BY <1>0, <1>2, <2>1, TakeHead DEF Receive, InOrder
<1>3. CASE Record
  <2>1. InWorker = <<event>> /\ InWorker' = <<>> /\ event \in Events
    BY <1>3 DEF Record, InWorker, TypeOK
  <2>2. owed' = ch /\ ch' = ch
    BY <1>0, <1>3, <2>1, TailOfHead DEF Record, InOrder
  <2> QED
    BY <1>0, <2>1, <2>2, ConcatEmptySeq DEF InOrder
<1>4. CASE Done
  BY <1>4 DEF Done, InOrder, InWorker
<1>5. ASSUME NEW s \in Senders, RLock(s) \/ CheckClosed(s) \/ RUnlock(s) PROVE InOrder'
  BY <1>5 DEF RLock, CheckClosed, RUnlock, InOrder, InWorker
<1>6. ASSUME NEW t \in Stoppers, CallStop(t) \/ StopperStep(t) PROVE InOrder'
  BY <1>6 DEF CallStop, StopperStep, Announce, Lock, SetClosed, CloseChannel, Unlock, Return,
              StopperGoes, InOrder, InWorker
<1>7. CASE UNCHANGED recorderVars
  BY <1>7 DEF recorderVars, InOrder, InWorker
<1> QED
  BY <1>1, <1>2, <1>3, <1>4, <1>5, <1>6, <1>7 DEF RecorderNext, SendStep, WorkerStep

RecorderInv == TypeOK /\ CarriedOK /\ InOrder

LEMMA RecorderInvariant == RecorderSpec => []RecorderInv
<1>1. RecorderInit => RecorderInv
  <2>1. RecorderInit => InOrder
    BY DEF RecorderInit, InOrder, InWorker
  <2> QED
    BY <2>1, TypeInit DEF RecorderInv
<1>2. RecorderInv /\ [RecorderNext]_recorderVars => RecorderInv'
  BY TypeStep, OrderStep DEF RecorderInv
<1> QED
  BY <1>1, <1>2, PTL DEF RecorderSpec

(* Type correctness: every variable keeps its type, and the channel never    *)
(* holds more than BufSize events.                                           *)
THEOREM RecorderTypes == RecorderSpec => []TypeOK
<1>1. RecorderInv => TypeOK
  BY DEF RecorderInv
<1> QED
  BY <1>1, RecorderInvariant, PTL

(* Nothing that entered the channel is lost, duplicated or reordered on its  *)
(* way to the inner recorder.                                                *)
THEOREM Ordered == RecorderSpec => []InOrder
<1>1. RecorderInv => InOrder
  BY DEF RecorderInv
<1> QED
  BY <1>1, RecorderInvariant, PTL

-----------------------------------------------------------------------------
(* The lock.  A sender between RLock and RUnlock and a stopper between Lock  *)
(* and Unlock exclude each other, and so do two stoppers from the moment one *)
(* announces itself; the channel is closed by the one stopper   *)
(* that set `closed`, while it still holds the lock.                         *)

LockInv ==
    /\ \A t \in Stoppers : WriteLocked(t) => NoReader
    /\ \A t, u \in Stoppers : Writing(t) /\ Writing(u) => u = t
    /\ \A t \in Stoppers : tpc[t] = "close" => closed /\ ~chClosed
    /\ \A s \in Senders : spc[s] = "select" => ~closed
    /\ chClosed => closed

(* What each step does to the lock, to `closed` and to the channel's end.    *)
LEMMA LockStep ==
    ASSUME TypeOK, LockInv, NeverPanics, [RecorderNext]_recorderVars
    PROVE  (LockInv /\ NeverPanics)'
<1> USE DEF TypeOK, LockInv, NeverPanics, NoReader, ReadLocked, WriteLocked, Writing
<1>1. ASSUME NEW s \in Senders, RLock(s) PROVE (LockInv /\ NeverPanics)'
  BY <1>1 DEF RLock, ReadFree
<1>2. ASSUME NEW s \in Senders, CheckClosed(s) PROVE (LockInv /\ NeverPanics)'
  BY <1>2 DEF CheckClosed
<1>3. ASSUME NEW s \in Senders, Select(s) PROVE (LockInv /\ NeverPanics)'
  <2>1. ~chClosed
    BY <1>3 DEF Select
  <2> QED
    BY <1>3, <2>1 DEF Select
<1>4. ASSUME NEW s \in Senders, RUnlock(s) PROVE (LockInv /\ NeverPanics)'
  BY <1>4 DEF RUnlock
<1>5. ASSUME NEW t \in Stoppers, CallStop(t) PROVE (LockInv /\ NeverPanics)'
  BY <1>5 DEF CallStop, StopperGoes
<1>6. ASSUME NEW t \in Stoppers, Announce(t) \/ Lock(t) PROVE (LockInv /\ NeverPanics)'
  BY <1>6 DEF Announce, Lock, StopperGoes
<1>7. ASSUME NEW t \in Stoppers, SetClosed(t) PROVE (LockInv /\ NeverPanics)'
  BY <1>7 DEF SetClosed, StopperGoes
<1>8. ASSUME NEW t \in Stoppers, CloseChannel(t) PROVE (LockInv /\ NeverPanics)'
  BY <1>8 DEF CloseChannel, StopperGoes
<1>9. ASSUME NEW t \in Stoppers, Unlock(t) \/ Return(t) PROVE (LockInv /\ NeverPanics)'
  BY <1>9 DEF Unlock, Return, StopperGoes
<1>10. CASE WorkerStep
  BY <1>10 DEF WorkerStep, Receive, Record, Done
<1>11. CASE UNCHANGED recorderVars
  BY <1>11 DEF recorderVars
<1> QED
  BY <1>1, <1>2, <1>3, <1>4, <1>5, <1>6, <1>7, <1>8, <1>9, <1>10, <1>11
  DEF RecorderNext, SendStep, StopperStep

(* No sender ever sends on the closed channel, and no second call of stop    *)
(* closes it again.                                                          *)
THEOREM NoPanic == RecorderSpec => []NeverPanics
<1>1. RecorderInit => LockInv /\ NeverPanics
  BY DEF RecorderInit, LockInv, NeverPanics, NoReader, ReadLocked, WriteLocked, Writing
<1>2. TypeOK /\ LockInv /\ NeverPanics /\ [RecorderNext]_recorderVars => (LockInv /\ NeverPanics)'
  BY LockStep
<1> QED
  BY <1>1, <1>2, RecorderTypes, PTL DEF RecorderSpec

-----------------------------------------------------------------------------
(* A stopper returns only after the worker is done, and the worker is done   *)
(* only once the channel is closed and empty, after which it stays empty.    *)
DrainInv ==
    /\ worker = "done" => chClosed /\ ch = <<>>
    /\ \A t \in Stoppers : tpc[t] = "returned" => worker = "done"

LEMMA DrainStep ==
    ASSUME TypeOK, LockInv, DrainInv, [RecorderNext]_recorderVars
    PROVE  DrainInv'
<1> USE DEF TypeOK, DrainInv
<1>1. ASSUME NEW s \in Senders, Select(s) PROVE DrainInv'
  BY <1>1 DEF Select, LockInv
<1>2. ASSUME NEW s \in Senders, RLock(s) \/ CheckClosed(s) \/ RUnlock(s) PROVE DrainInv'
  BY <1>2 DEF RLock, CheckClosed, RUnlock
<1>3. ASSUME NEW t \in Stoppers, CallStop(t) \/ StopperStep(t) PROVE DrainInv'
  BY <1>3 DEF CallStop, StopperStep, Announce, Lock, SetClosed, CloseChannel, Unlock, Return, StopperGoes
<1>4. CASE WorkerStep
  BY <1>4 DEF WorkerStep, Receive, Record, Done
<1>5. CASE UNCHANGED recorderVars
  BY <1>5 DEF recorderVars
<1> QED
  BY <1>1, <1>2, <1>3, <1>4, <1>5 DEF RecorderNext, SendStep

(* When stop has returned to anybody, every accepted event has been recorded *)
(* and no sender is about to send another.                                   *)
THEOREM StopHasDrained == RecorderSpec => []StopDrains
<1>1. RecorderInit => LockInv /\ NeverPanics /\ DrainInv
  BY DEF RecorderInit, LockInv, NeverPanics, NoReader, ReadLocked, WriteLocked, Writing, DrainInv
<1>2. TypeOK /\ LockInv /\ NeverPanics /\ DrainInv /\ [RecorderNext]_recorderVars
        => (LockInv /\ NeverPanics /\ DrainInv)'
  BY LockStep, DrainStep
<1>3. TypeOK /\ LockInv /\ DrainInv /\ InOrder => StopDrains
  <2> SUFFICES ASSUME TypeOK, LockInv, DrainInv, InOrder,
                      NEW t \in Stoppers, tpc[t] = "returned"
               PROVE  owed = <<>> /\ \A s \in Senders : spc[s] # "select"
    BY DEF StopDrains
  <2>1. worker = "done" /\ chClosed /\ ch = <<>>
    BY DEF DrainInv
  <2>2. \A s \in Senders : spc[s] # "select"
    BY <2>1 DEF LockInv
  <2>3. owed = <<>> \o <<>>
    BY <2>1 DEF InOrder, InWorker
  <2> QED
    BY <2>2, <2>3, ConcatEmptySeq DEF TypeOK
<1> QED
  BY <1>1, <1>2, <1>3, RecorderTypes, Ordered, PTL DEF RecorderSpec
=============================================================================
