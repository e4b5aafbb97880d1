------------------------------- MODULE ControlLoop -------------------------------
(****************************************************************************)
(* From a poll of the metrics to the drain rate: app/handlers/pollmetrics     *)
(* (the poller), app/usecases/processmetrics (filter, compute, set) and the   *)
(* switchable controller, which an HTTP client switches at any moment.        *)
(* What a controller computes is modelled in Pid and Smith; here a drain rate *)
(* is known by the controller it comes from.                                  *)
(****************************************************************************)
EXTENDS Control, Readers

CONSTANTS
    Types,         \* the controllers that can be switched to
    MeasureSpec,   \* the measurement filter: kind and size
    Configured     \* the drain rate of the configuration

ASSUME LoopAssumption ==
    /\ ReaderAssumption
    /\ Types \subseteq {"pid", "pidff", "smith", "step"}
    /\ MeasureSpec \in [kind : FilterKinds, size : Int]
    /\ NaN \notin Int /\ None \notin Int \cup {NaN}
    /\ Configured \notin Types
    /\ Decay[Normalize(MeasureSpec).size] \in 0 .. 100

VARIABLES
    poller,       \* where the polling goroutine is
    cancelled,    \* its context
    stopper,      \* where its Stop is
    pvFilter,     \* the measurement filter
    measured,     \* what it returned
    active,       \* the switchable controller's choice
    picked,       \* the controller that a poll in progress runs on
    clocks,       \* the sample clock of each controller
    rate,         \* the controller whose drain rate is in force
    stale         \* history: rates of other controllers since the last switch
pollVars == <<poller, cancelled, stopper>>
sampleVars == <<pvFilter, measured>>
controlVars == <<active, picked, clocks>>
rateVars == <<rate, stale>>
loopVars == <<pollVars, readVars, sampleVars, controlVars, rateVars>>

LoopInit ==
    /\ ReadersInit
    /\ poller = "off"
    /\ cancelled = FALSE
    /\ stopper = "none"
    /\ pvFilter = NewSignal(MeasureSpec, TRUE)
    /\ measured = None
    /\ active \in Types
    /\ picked = None
    /\ clocks = [t \in Types |-> NewClock]
    /\ rate = Configured
    /\ stale = 0

Start == /\ poller = "off" /\ stopper = "none"
         /\ protocol # "none"
         /\ poller' = "waiting"
         /\ UNCHANGED <<cancelled, stopper, readVars, sampleVars, controlVars, rateVars>>

(* The ticker fires.  select chooses at random where the context is done too.*)
Tick == /\ poller = "waiting"
        /\ poller' = "reading"
        /\ BeginRead
        /\ UNCHANGED <<cancelled, stopper, sampleVars, controlVars, rateVars>>

Quit == /\ poller = "waiting" /\ cancelled
        /\ poller' = "ended"
        /\ UNCHANGED <<cancelled, stopper, readVars, sampleVars, controlVars, rateVars>>

-----------------------------------------------------------------------------
(* A poll: read the metrics and process them.                                *)

(* However a poll ends, the loop goes on to its next tick.                   *)
EndPoll == /\ poller' = "waiting"
           /\ measured' = None /\ picked' = None
           /\ EndRead
           /\ UNCHANGED <<cancelled, stopper>>

ReadPage(page, now) ==
    /\ poller = "reading"
    /\ Scrape(page, now)
    /\ poller' = "read"
    /\ UNCHANGED <<cancelled, stopper, sampleVars, controlVars, rateVars>>

ReadQuery(source, answer) ==
    /\ poller = "reading"
    /\ Query(source, answer)
    /\ UNCHANGED <<pollVars, sampleVars, controlVars, rateVars>>

QueriesDone ==
    /\ poller = "reading" /\ ~Scrapes /\ reading.left = {}
    /\ poller' = "read"
    /\ UNCHANGED <<cancelled, stopper, readVars, sampleVars, controlVars, rateVars>>

(* A request fails, for one because the context is done, or has no answer.   *)
ReadFails ==
    /\ poller = "reading" /\ (Scrapes \/ reading.left # {})
    /\ EndPoll
    /\ UNCHANGED <<pvFilter, active, clocks, rateVars>>

NoCpu ==
    /\ poller = "read" /\ reading.cpu = None
    /\ EndPoll
    /\ UNCHANGED <<pvFilter, active, clocks, rateVars>>

Measure ==
    /\ poller = "read" /\ reading.cpu # None
    /\ poller' = "measured"
    /\ measured' = Output(pvFilter, reading.cpu)
    /\ pvFilter' = Filtered(pvFilter, reading.cpu)
    /\ UNCHANGED <<cancelled, stopper, readVars, controlVars, rateVars>>

(* Mutant: the controller that set the last rate is kept.                    *)
PickLast == /\ poller = "measured"
            /\ poller' = "picked"
            /\ picked' = IF rate = Configured THEN active ELSE rate
            /\ UNCHANGED <<cancelled, stopper, readVars, sampleVars, active, clocks, rateVars>>

(* switchable.Controller.current, under the read lock.                       *)
Pick == /\ poller = "measured"
        /\ poller' = "picked"
        /\ picked' = active
        /\ UNCHANGED <<cancelled, stopper, readVars, sampleVars, active, clocks, rateVars>>

-----------------------------------------------------------------------------
(* Compute, on the controller that was active then.                          *)

(* pid, pidff and smith check the measurement and its time ...               *)
Refused == measured = NaN \/ Outdated(clocks[picked], reading.at)

Refuse ==
    /\ poller = "picked" /\ picked # "step" /\ Refused
    /\ EndPoll
    /\ UNCHANGED <<pvFilter, active, clocks, rateVars>>

Timed ==
    /\ ~Refused
    /\ poller' = "computed"
    /\ clocks' = [clocks EXCEPT ![picked] = Advanced(reading.at)]
    /\ UNCHANGED <<cancelled, stopper, readVars, sampleVars, active, picked, rateVars>>

ComputePid   == poller = "picked" /\ picked \in {"pid", "pidff"} /\ Timed
ComputeSmith == poller = "picked" /\ picked = "smith" /\ Timed

(* ... and step looks at neither.                                            *)
ComputeStep ==
    /\ poller = "picked" /\ picked = "step"
    /\ poller' = "computed"
    /\ UNCHANGED <<cancelled, stopper, readVars, sampleVars, controlVars, rateVars>>

Compute == ComputePid \/ ComputeSmith \/ ComputeStep

SetDrainRate ==
    /\ poller = "computed"
    /\ EndPoll
    /\ rate' = picked
    /\ stale' = IF picked = active THEN stale ELSE stale + 1
    /\ UNCHANGED <<pvFilter, active, clocks>>

-----------------------------------------------------------------------------
(* Mutant: the next controller goes on where it was left.                    *)
SwitchWithoutReset(t) ==
    /\ t # active
    /\ active' = t
    /\ stale' = 0
    /\ UNCHANGED <<pollVars, readVars, sampleVars, clocks, picked, rate>>

(* switchable.Controller.SetType.                                            *)
SetType(t) ==
    /\ t # active
    /\ active' = t
    /\ clocks' = [clocks EXCEPT ![t] = NewClock]
    /\ stale' = 0
    /\ UNCHANGED <<pollVars, readVars, sampleVars, picked, rate>>

(* Mutant: Stop waits for a poller that nobody told to end.                  *)
StopUncancelled ==
    /\ stopper = "none"
    /\ stopper' = IF poller = "off" THEN "returned" ELSE "waiting"
    /\ UNCHANGED <<poller, cancelled, readVars, sampleVars, controlVars, rateVars>>

Stop == /\ stopper = "none"
        /\ cancelled' = (poller # "off")
        /\ stopper' = IF poller = "off" THEN "returned" ELSE "waiting"
        /\ UNCHANGED <<poller, readVars, sampleVars, controlVars, rateVars>>

(* Mutant: Stop does not wait.                                               *)
StopReturnsEarly ==
    /\ stopper = "waiting"
    /\ stopper' = "returned"
    /\ UNCHANGED <<poller, cancelled, readVars, sampleVars, controlVars, rateVars>>

StopReturns == /\ stopper = "waiting" /\ poller = "ended"
               /\ stopper' = "returned"
               /\ UNCHANGED <<poller, cancelled, readVars, sampleVars, controlVars, rateVars>>

StopExpires == /\ stopper = "waiting"
               /\ stopper' = "expired"
               /\ UNCHANGED <<poller, cancelled, readVars, sampleVars, controlVars, rateVars>>

Reading == \/ \E page \in Pages, now \in Times : ReadPage(page, now)
           \/ \E source \in Sources, answer \in Answers : ReadQuery(source, answer)
           \/ QueriesDone

Poll == Tick \/ Quit \/ Reading \/ ReadFails \/ NoCpu \/ Measure \/ Pick \/ Refuse \/ Compute
        \/ SetDrainRate

LoopNext == \/ Start \/ Poll \/ Stop \/ StopReturns \/ StopExpires
            \/ \E t \in Types : SetType(t)
LoopSpec == LoopInit /\ [][LoopNext]_loopVars

(* switchable.go:62 picks the controller under the lock and computes without *)
(* it, and processmetrics.go:54-60 sets the rate later still: a controller   *)
(* that was switched away from may set the drain rate once more, and no more *)
(* than once.                                                                *)
StaleRateOnce == stale <= 1

(* TestPollingHandler_StopExitsLoop: once Stop has returned without an       *)
(* error, the poller touches neither the drain rate nor the filter.          *)
QuietAfterStop == [][stopper = "returned" => UNCHANGED <<rate, pvFilter>>]_loopVars
=============================================================================
