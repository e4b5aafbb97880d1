----------------------------- MODULE AsyncRecorder -----------------------------
(****************************************************************************)
(* internal/metrics/async.go: any number of goroutines send metric events,   *)
(* without ever blocking, to a bounded channel that one worker drains into   *)
(* the inner recorder; stop closes the channel and waits for the worker.     *)
(****************************************************************************)
EXTENDS Integers, Sequences

CONSTANTS
    Senders,    \* goroutines that call Gauge or Incr
    Stoppers,   \* goroutines that call the stop function
    BufSize,    \* room of the channel
    Events,     \* what a metric event may say
    NoEvent     \* no event in hand

ASSUME RecorderAssumption ==
    /\ BufSize \in Nat \ {0}
    /\ NoEvent \notin Events

VARIABLES
    ch,         \* events in the channel, oldest first
    chClosed,   \* the channel is closed
    closed,     \* the field of that name, guarded by mu
    spc,        \* where each sender is in send
    carried,    \* the event each sender is sending
    tpc,        \* where each stopper is in stop
    worker,     \* the worker: "recv" in the range statement, "record" in the
                \* inner recorder, "done" after wg.Done
    event,      \* the event the worker records
    owed,       \* history: events put in the channel that the inner recorder
                \* has not recorded, in the order they were put there
    panicked    \* a send on, or a close of, a closed channel happened

recorderVars == <<ch, chClosed, closed, spc, carried, tpc, worker, event, owed, panicked>>

SenderPcs  == {"idle", "check", "select", "unlock"}
StopperPcs == {"idle", "lock", "drain", "test", "close", "unlock", "wait", "returned"}

RecorderInit ==
    /\ ch = <<>>
    /\ chClosed = FALSE
    /\ closed = FALSE
    /\ spc = [s \in Senders |-> "idle"]
    /\ carried = [s \in Senders |-> NoEvent]
    /\ tpc = [t \in Stoppers |-> "idle"]
    /\ worker = "recv"
    /\ event = NoEvent
    /\ owed = <<>>
    /\ panicked = FALSE

-----------------------------------------------------------------------------
(* The RWMutex mu: who holds it follows from the program counters.  One      *)
(* writer at a time announces itself, which keeps new readers out, and then  *)
(* waits for the readers that are in to leave.                               *)
ReadLocked(s) == spc[s] \in {"check", "select", "unlock"}
WriteLocked(t) == tpc[t] \in {"test", "close", "unlock"}
Writing(t) == tpc[t] = "drain" \/ WriteLocked(t)

(* Mutant: send takes no lock.                                               *)
UnlockedReadFree == TRUE
(* Mutant: readers go past a writer that waits for the lock.                 *)
BargingReadFree == \A t \in Stoppers : ~WriteLocked(t)
ReadFree == \A t \in Stoppers : ~Writing(t)
NoReader == \A s \in Senders : ~ReadLocked(s)

-----------------------------------------------------------------------------
(* send.                                                                     *)

RLock(s) ==
    /\ spc[s] = "idle"
    /\ ReadFree
    /\ \E e \in Events : carried' = [carried EXCEPT ![s] = e]
    /\ spc' = [spc EXCEPT ![s] = "check"]
    /\ UNCHANGED <<ch, chClosed, closed, tpc, worker, event, owed, panicked>>

CheckClosed(s) ==
    /\ spc[s] = "check"
    /\ spc' = [spc EXCEPT ![s] = IF closed THEN "unlock" ELSE "select"]
    /\ UNCHANGED <<ch, chClosed, closed, carried, tpc, worker, event, owed, panicked>>

(* The select: a full channel drops the event; a closed one would panic.     *)
Select(s) ==
    /\ spc[s] = "select"
    /\ spc' = [spc EXCEPT ![s] = "unlock"]
    /\ \/ chClosed /\ panicked' = TRUE /\ UNCHANGED <<ch, owed>>
       \/ /\ ~chClosed /\ Len(ch) < BufSize
          /\ ch' = Append(ch, carried[s])
          /\ owed' = Append(owed, carried[s])
          /\ UNCHANGED panicked
       \/ ~chClosed /\ Len(ch) >= BufSize /\ UNCHANGED <<ch, owed, panicked>>
    /\ UNCHANGED <<chClosed, closed, carried, tpc, worker, event>>

RUnlock(s) ==
    /\ spc[s] = "unlock"
    /\ spc' = [spc EXCEPT ![s] = "idle"]
    /\ carried' = [carried EXCEPT ![s] = NoEvent]
    /\ UNCHANGED <<ch, chClosed, closed, tpc, worker, event, owed, panicked>>

-----------------------------------------------------------------------------
(* stop.                                                                     *)

StopperGoes(t, from, to) ==
    /\ tpc[t] = from
    /\ tpc' = [tpc EXCEPT ![t] = to]
    /\ UNCHANGED <<spc, carried, worker, event, owed, ch>>

CallStop(t) ==
    /\ StopperGoes(t, "idle", "lock")
    /\ UNCHANGED <<chClosed, closed, panicked>>

(* mu.Lock, whose two halves readers and other writers can tell apart.       *)
Announce(t) ==
    /\ \A u \in Stoppers : ~Writing(u)
    /\ StopperGoes(t, "lock", "drain")
    /\ UNCHANGED <<chClosed, closed, panicked>>

Lock(t) ==
    /\ NoReader
    /\ StopperGoes(t, "drain", "test")
    /\ UNCHANGED <<chClosed, closed, panicked>>

SetClosed(t) ==
    /\ StopperGoes(t, "test", IF closed THEN "unlock" ELSE "close")
    /\ closed' = TRUE
    /\ UNCHANGED <<chClosed, panicked>>

CloseChannel(t) ==
    /\ StopperGoes(t, "close", "unlock")
    /\ panicked' = (panicked \/ chClosed)
    /\ chClosed' = TRUE
    /\ UNCHANGED closed

Unlock(t) ==
    /\ StopperGoes(t, "unlock", "wait")
    /\ UNCHANGED <<chClosed, closed, panicked>>

(* wg.Wait                                                                   *)
Return(t) ==
    /\ worker = "done"
    /\ StopperGoes(t, "wait", "returned")
    /\ UNCHANGED <<chClosed, closed, panicked>>

-----------------------------------------------------------------------------
(* worker.                                                                   *)

(* Mutant: a plain receive, which yields a zero event once the channel is    *)
(* closed and empty.                                                         *)
ReceiveZero ==
    /\ worker = "recv"
    /\ ch # <<>> \/ chClosed
    /\ event' = IF ch = <<>> THEN NoEvent ELSE Head(ch)
    /\ ch' = IF ch = <<>> THEN ch ELSE Tail(ch)
    /\ worker' = "record"
    /\ UNCHANGED <<chClosed, closed, spc, carried, tpc, owed, panicked>>

Receive ==
    /\ worker = "recv"
    /\ ch # <<>>
    /\ event' = Head(ch)
    /\ ch' = Tail(ch)
    /\ worker' = "record"
    /\ UNCHANGED <<chClosed, closed, spc, carried, tpc, owed, panicked>>

Record ==
    /\ worker = "record"
    /\ owed' = Tail(owed)
    /\ event' = NoEvent
    /\ worker' = "recv"
    /\ UNCHANGED <<ch, chClosed, closed, spc, carried, tpc, panicked>>

(* Mutant: the worker leaves as soon as the channel is closed.               *)
DoneWithoutDraining ==
    /\ worker = "recv"
    /\ chClosed
    /\ worker' = "done"
    /\ UNCHANGED <<ch, chClosed, closed, spc, carried, tpc, event, owed, panicked>>

(* The range statement ends when the channel is closed and empty.            *)
Done ==
    /\ worker = "recv"
    /\ chClosed /\ ch = <<>>
    /\ worker' = "done"
    /\ UNCHANGED <<ch, chClosed, closed, spc, carried, tpc, event, owed, panicked>>

-----------------------------------------------------------------------------
SendStep(s) == RLock(s) \/ CheckClosed(s) \/ Select(s) \/ RUnlock(s)

(* The part of stop that follows the call.                                   *)
StopperStep(t) ==
    Announce(t) \/ Lock(t) \/ SetClosed(t) \/ CloseChannel(t) \/ Unlock(t) \/ Return(t)

WorkerStep == Receive \/ Record \/ Done

RecorderNext ==
    \/ \E s \in Senders : SendStep(s)
    \/ \E t \in Stoppers : CallStop(t) \/ StopperStep(t)
    \/ WorkerStep

RecorderSpec == RecorderInit /\ [][RecorderNext]_recorderVars

(* Every goroutine that can run does, and the worker's inner recorder        *)
(* returns; nobody has to send, to cease to send or to call stop.            *)
FairRecorderSpec ==
    /\ RecorderSpec
    /\ \A s \in Senders : WF_recorderVars(CheckClosed(s) \/ Select(s) \/ RUnlock(s))
    /\ \A t \in Stoppers : WF_recorderVars(StopperStep(t))
    /\ WF_recorderVars(WorkerStep)

-----------------------------------------------------------------------------
(* Properties.                                                               *)

TypeOK ==
    /\ ch \in Seq(Events) /\ Len(ch) <= BufSize
    /\ chClosed \in BOOLEAN
    /\ closed \in BOOLEAN
    /\ spc \in [Senders -> SenderPcs]
    /\ carried \in [Senders -> Events \cup {NoEvent}]
    /\ tpc \in [Stoppers -> StopperPcs]
    /\ worker \in {"recv", "record", "done"}
    /\ event \in IF worker = "record" THEN Events ELSE {NoEvent}
    /\ owed \in Seq(Events)
    /\ panicked \in BOOLEAN

(* No sender ever sends on the closed channel and no second stop closes it   *)
(* again: either would panic and take the process down.                      *)
NeverPanics == ~panicked

InWorker == IF worker = "record" THEN <<event>> ELSE <<>>

(* Nothing that entered the channel is lost, duplicated or reordered on its  *)
(* way to the inner recorder: what is still to be recorded is what the       *)
(* worker holds and the channel behind it.                                   *)
InOrder == owed = InWorker \o ch

(* When stop has returned to anybody, every event that was accepted has been *)
(* recorded and no sender is about to put another into the channel.          *)
StopDrains ==
    (\E t \in Stoppers : tpc[t] = "returned") =>
        owed = <<>> /\ \A s \in Senders : spc[s] # "select"

(* Every call of stop returns, although senders arrive without end: it gets  *)
(* the lock among them, and the worker it waits for drains the channel.      *)
EveryStopReturns == \A t \in Stoppers : tpc[t] = "lock" ~> tpc[t] = "returned"
=============================================================================
