---------------------------------- MODULE Program ----------------------------------
(****************************************************************************)
(* The running program: cmd/api/options and cmd/api/modules.  fx runs the     *)
(* start hooks in the order in which the parts are wired, waits for a signal, *)
(* and runs the stop hooks in reverse, in the time it is given.  The parts    *)
(* are the metrics recorder, the poller with its control loop (ControlLoop),  *)
(* the HTTP server, through which the controller is switched, and the         *)
(* orchestrator's goroutines, of which Delivery and RateLimiter have the      *)
(* detail.                                                                    *)
(****************************************************************************)
EXTENDS ControlLoop

CONSTANTS
    Workers,     \* the orchestrator's worker goroutines
    LagPoller    \* and the one that publishes the queue's length

ASSUME ProgramAssumption == LagPoller \notin Workers

VARIABLES
    phase,       \* "starting", "running", "stopping" or "exited"
    hooked,      \* the hooks that have been started and not yet stopped
    recorder,    \* the metrics recorder: "open" or "closed"
    crew,        \* where each of the orchestrator's goroutines is
    dismissed,   \* their context is done
    expired,     \* the time to stop is over
    lost         \* history: a metric of the poller or the crew came too late
stageVars == <<phase, hooked, expired>>
crewVars  == <<crew, dismissed>>
programVars == <<stageVars, recorder, crewVars, lost>>
vars == <<loopVars, programVars>>

Crew == Workers \cup {LagPoller}

Init ==
    /\ LoopInit
    /\ phase = "starting"
    /\ hooked = 0
    /\ recorder = "open"
    /\ crew = [c \in Crew |-> "off"]
    /\ dismissed = FALSE
    /\ expired = FALSE
    /\ lost = FALSE

(* Mutant: the recorder is the last part to be wired.                        *)
RecorderLast == <<"queueType", "poller", "server", "orchestrator", "recorder">>

(* The hooks in the order of the Invokes of Options.  A poller that is not   *)
(* enabled has none, which is the same as one that Start leaves off.         *)
Hooks == <<"recorder", "queueType", "poller", "server", "orchestrator">>

(* A metric sent after stop has closed the recorder is dropped.              *)
Report == lost' = (lost \/ recorder = "closed")

-----------------------------------------------------------------------------
(* Start.                                                                    *)
StartHook(h) ==
    /\ phase = "starting" /\ Hooks[hooked + 1] = h
    /\ hooked' = hooked + 1
    /\ phase' = IF hooked' = Len(Hooks) THEN "running" ELSE "starting"
    /\ UNCHANGED expired

(* The recorder has no start hook, queueType only sends a metric, and the    *)
(* server's hook only spawns it: a server that cannot listen says so in the  *)
(* log.                                                                      *)
StartPassive ==
    /\ \E h \in {"recorder", "queueType", "server"} : StartHook(h)
    /\ UNCHANGED <<loopVars, recorder, crewVars, lost>>

StartPoller ==
    /\ StartHook("poller")
    /\ IF protocol = "none" THEN UNCHANGED loopVars ELSE Start
    /\ UNCHANGED <<recorder, crewVars, lost>>

StartOrchestrator ==
    /\ StartHook("orchestrator")
    /\ crew' = [c \in Crew |-> "waiting"]
    /\ UNCHANGED <<loopVars, recorder, dismissed, lost>>

-----------------------------------------------------------------------------
(* While it runs.                                                            *)
Running == phase # "exited"

(* The poller: the filter's and the controllers' metrics and the drain rate. *)
PollSilently ==
    /\ Running
    /\ Tick \/ Quit \/ Reading \/ ReadFails \/ NoCpu \/ Pick \/ Refuse
    /\ UNCHANGED programVars

PollAndReport ==
    /\ Running
    /\ Measure \/ Compute \/ SetDrainRate
    /\ Report
    /\ UNCHANGED <<stageVars, recorder, crewVars>>

(* A request is served from the moment the server's hook has run until the   *)
(* process is gone: nothing stops the server.                                *)
Serving == phase = "starting" => \E i \in 1 .. hooked : Hooks[i] = "server"

Serve(t) ==
    /\ Running /\ Serving
    /\ SetType(t)
    /\ UNCHANGED programVars

(* A worker goes for a token and a message ...                               *)
BeginWork(w) ==
    /\ Running
    /\ crew[w] = "waiting" /\ ~dismissed
    /\ crew' = [crew EXCEPT ![w] = "busy"]
    /\ UNCHANGED <<loopVars, stageVars, recorder, dismissed, lost>>

(* ... and consume ends with a metric, with or without a message.            *)
EndWork(w) ==
    /\ Running
    /\ crew[w] = "busy"
    /\ crew' = [crew EXCEPT ![w] = "waiting"]
    /\ Report
    /\ UNCHANGED <<loopVars, stageVars, recorder, dismissed>>

(* The lag poller's ticker fires; its select may choose the tick though the  *)
(* context is done.                                                          *)
PublishLag ==
    /\ Running
    /\ crew[LagPoller] = "waiting"
    /\ Report
    /\ UNCHANGED <<loopVars, stageVars, recorder, crewVars>>

Leave(c) ==
    /\ Running
    /\ crew[c] = "waiting" /\ dismissed
    /\ crew' = [crew EXCEPT ![c] = "ended"]
    /\ UNCHANGED <<loopVars, stageVars, recorder, dismissed, lost>>

-----------------------------------------------------------------------------
(* Stop: on a signal, hook by hook.                                          *)
Signalled ==
    /\ phase = "running"
    /\ phase' = "stopping"
    /\ UNCHANGED <<loopVars, hooked, expired, recorder, crewVars, lost>>

Stopping(h) == phase = "stopping" /\ hooked > 0 /\ Hooks[hooked] = h
HookDone == hooked' = hooked - 1 /\ UNCHANGED <<phase, expired>>

(* Orchestrator.Stop tells its goroutines, and waits for them.               *)
Dismiss ==
    /\ Stopping("orchestrator") /\ ~dismissed
    /\ dismissed' = TRUE
    /\ UNCHANGED <<loopVars, stageVars, recorder, crew, lost>>

StopOrchestrator ==
    /\ Stopping("orchestrator") /\ dismissed
    /\ \A c \in Crew : crew[c] = "ended"
    /\ HookDone
    /\ UNCHANGED <<loopVars, recorder, crewVars, lost>>

StopPassive ==
    /\ \E h \in {"server", "queueType"} : Stopping(h)
    /\ HookDone
    /\ UNCHANGED <<loopVars, recorder, crewVars, lost>>

TellPoller ==
    /\ Stopping("poller")
    /\ IF protocol = "none" THEN HookDone /\ UNCHANGED loopVars
                            ELSE Stop /\ UNCHANGED stageVars
    /\ UNCHANGED <<recorder, crewVars, lost>>

StopPoller ==
    /\ Stopping("poller")
    /\ StopReturns
    /\ HookDone
    /\ UNCHANGED <<recorder, crewVars, lost>>

StopRecorder ==
    /\ Stopping("recorder")
    /\ recorder' = "closed"
    /\ HookDone
    /\ UNCHANGED <<loopVars, crewVars, lost>>

(* The time is over.  A Stop that waits returns an error, fx runs no further *)
(* hook, and the process exits as it is.                                     *)
Expire ==
    /\ phase = "stopping"
    /\ phase' = "exited" /\ expired' = TRUE
    /\ IF stopper = "waiting" THEN StopExpires ELSE UNCHANGED loopVars
    /\ UNCHANGED <<hooked, recorder, crewVars, lost>>

(* After the last hook the process exits, and all its goroutines with it.    *)
Exit ==
    /\ phase = "stopping" /\ hooked = 0
    /\ phase' = "exited"
    /\ UNCHANGED <<loopVars, hooked, expired, recorder, crewVars, lost>>

StartUp == StartPassive \/ StartPoller \/ StartOrchestrator
StopStep == Dismiss \/ StopOrchestrator \/ StopPassive \/ TellPoller \/ StopPoller \/ StopRecorder

Next ==
    \/ StartUp
    \/ PollSilently \/ PollAndReport
    \/ \E t \in Types : Serve(t)
    \/ \E w \in Workers : BeginWork(w) \/ EndWork(w)
    \/ PublishLag
    \/ \E c \in Crew : Leave(c)
    \/ Signalled \/ StopStep \/ Expire \/ Exit
Spec == Init /\ [][Next]_vars

-----------------------------------------------------------------------------
(* Hooks and goroutines run, a message comes to its end and a request to an  *)
(* answer or an error; select takes every branch again and again; and a poll *)
(* often enough finds a number for cpu.  Nothing makes a client switch, a    *)
(* signal come or the time run out.                                          *)
Useful == poller = "read" /\ reading.cpu \in Int

Fairness ==
    /\ WF_vars(StartUp \/ StopStep \/ Exit)
    /\ WF_vars(PollSilently \/ PollAndReport)
    /\ SF_vars(PollSilently /\ Quit)
    /\ \A w \in Workers : WF_vars(EndWork(w))
    /\ \A c \in Crew : SF_vars(Leave(c))
    /\ []<>(Useful \/ phase # "running" \/ protocol = "none")
FairSpec == Spec /\ Fairness

(* Options wires the recorder first, so that it is closed last.  A program   *)
(* that ends within its time has interrupted no poll and no worker with a    *)
(* message in hand, and what the poller, the workers and the lag poller had  *)
(* to report went to an open recorder.  The HTTP server is never stopped:    *)
(* the queue type it reports on a late PUT may be dropped and is not counted. *)
GracefulStop ==
    phase = "exited" /\ ~expired =>
        /\ ~lost
        /\ poller \in {"off", "ended"}
        /\ \A c \in Crew : crew[c] = "ended"

(* PUT /controller/type: a controller that stays selected comes to set the   *)
(* drain rate, whenever it was selected and whatever was being computed,     *)
(* and however old the samples are by its own, earlier clock.                *)
SwitchTakesEffect ==
    \A t \in Types :
      active = t /\ protocol # "none" ~> (rate = t \/ active # t \/ phase # "running")

(* A program that is told to stop comes to its end, even if nothing limits   *)
(* the time: whatever the poller and the workers are waiting for.            *)
ProgramEnds == phase = "stopping" ~> phase = "exited"
=============================================================================
