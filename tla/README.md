# gaardrail in TLA+

This directory is the verification project of gaardrail: TLA+ modules that
follow the Go code, TLC configurations that check them on small instances, and
proofs that TLAPS checks for every instance. `PROJECT.json` lists the
components, the runs, what each property would catch (a mutant of the code for
every property), which lines every definition stands for, the findings, the
hazards and the theorems. Line numbers below are those of the repository.

To check a module: `tlc -config MCDelivery_kafka_memory.cfg MCDelivery.tla`;
to check proofs: `tlapm Delivery_proofs.tla`.

## 1. Inventory

gaardrail takes messages over HTTP, keeps them in a queue, and pushes them to a
target at a rate that a feedback controller sets from metrics it polls. Queue,
controller and most parameters can be changed by HTTP while it runs.

### Components

| component | state it keeps | operations | talks to |
|---|---|---|---|
| orchestrator (`app/orchestrator`) | rate limiter, worker goroutines, their context | `Start`, `Stop`, `SetDrainRate`, the worker loop, lag poller | calls the consume use case |
| consume use case (`app/usecases/consumemessage`) | none | `Consume`: dequeue, push, ack | switchable queue, target |
| switchable queue (`app/repositories/queue/switchable`) | active queue and its type, the `switched` channel, a cache of built queues | `Enqueue`, `Dequeue`, `Ack`, `Size`, `SetType` | the backends |
| in-memory queue | channel of fixed capacity, atomic counter | `Enqueue`, `Dequeue`, `Ack`, `Size` | nobody |
| constant queue | query, `ready` channel, once | `Dequeue`, `SetQuery` (`Enqueue` and `Ack` do nothing) | nobody |
| Kafka queue (with `internal/kafka`) | partition consumer, offset manager | publish, receive, mark and commit, size | broker |
| SQS queue | none; the service keeps the messages' visibility | send, receive a batch, delete, size | SQS |
| create and flood handlers, create use case | none (flood: a goroutine per request) | `Create`, `flood` | switchable queue |
| poller (`app/handlers/pollmetrics`) | a goroutine, its context, `done` | `Start`, `Stop`, `poll` | reader, process use case |
| process use case (`app/usecases/processmetrics`) | measurement filter | `Process`: filter, compute, set the drain rate | switchable controller, orchestrator |
| switchable controller (`app/repositories/controllers/switchable`) | the active controller, one instance per type | `Compute`, `SetParams`, `GetParams`, `SetType` | PID, Smith, step |
| PID (`pkg/control/pid.go`) | params, reference, sample clock, integral, last error | `Compute`, `SetParams`, `SetSetpoint`, `Reset` | filters |
| Smith (`pkg/control/smith.go`, `model.go`) | the same, and the predictor: its output and a delay line | the same | filters |
| filters (`pkg/control/filter`) | ring buffer with running sum, or state of the lag | `Filter`, `Seed`, `Reset` | nobody |
| settings (`switchqueue`, `switchcontroller`, `queuequery`, `controllerparams`, `pkg/config`) | the YAML file, the persister's mutex | change in memory, then persist; `Load` | queue, controllers, file |
| metric recorder (`internal/metrics/async.go`) | buffered channel, closed flag, read-write lock | `Gauge`, `Incr`, `stop`, worker | Prometheus |
| readers (`app/repositories/readers`) | none (the page readers' clock) | `Read`: scrape one page, or one query per mapping | the metrics endpoint, Prometheus, CloudWatch |
| wiring (`cmd/api/options`, `cmd/api/modules`) | fx's list of hooks, the time to stop | start hooks in order, stop hooks in reverse, the HTTP server | recorder, poller, server, orchestrator |
| targets, clients | none that matters here | I/O | the network |

### What is hard, and what makes each part correct

* **Delivery.** Several workers and HTTP goroutines share a queue that may be
  replaced between any two of their steps; pushes and acks fail; the process
  crashes with messages in hand. Correct: SQS forgets a message only after the
  target confirmed it, and what a Kafka offset settles unconfirmed is accounted
  for; nothing is lost (where the code can promise it, see the disagreements); a
  switch is invisible to a caller and neither loses nor repeats a message; whoever
  is parked on a queue leaves it on a switch and on `Stop`; a blocked producer gets
  through when its queue is drained again.
* **Draining.** Workers look at the limiter, reserve, wait, cancel and consume
  in separate steps while the rate changes. Correct: never more messages than
  rate and burst allow; a rate of zero stops the draining, and so does a
  negative one; cancelled reservations do not starve it; workers end when told.
* **Control loop.** A poll in progress overlaps a switch of the controller and
  `Stop`. Correct: a replaced controller's rate does not stay in force; a
  selected one comes to set the rate; nothing is touched after `Stop` returned.
* **The program as a whole.** Its parts are started one after the other and
  stopped in reverse, against a deadline that all hooks share, while the HTTP
  server goes on switching. Correct: in a program that stops in time no poll and
  no worker has been interrupted, and what they had to report went to an open
  recorder; one that is told to stop ends.
* **Controllers and filters.** Limits, gains, filters and setpoints change
  between samples, samples come late, twice or not as numbers. Correct: the
  integral stays within its clamp and does not wind up; the reference arrives
  when documented; the moving average is the mean of the last samples; the
  Smith predictor cancels the dead time.
* **Settings.** Every change is made in memory and in a file, by requests that
  overlap, and the process may end in between; three of the four controllers share
  a section of the file. Correct: when all requests are answered file and program
  agree, but for what overlapping requests, a shared section or a failed write have
  put in doubt; no write undoes another; the file can be loaded again.
* **Metric recorder.** Senders race `stop`. Correct: no send on a closed
  channel, nothing accepted is lost or reordered, `stop` waits and returns.

`PROJECT.json` lists the hazards one by one at the line where they bite, with
the properties that would catch them, and those that no property covers yet
with the reason.

## 2. Plan

Order of work, the most important behaviour first, and where it stands.

| step | modules | state |
|---|---|---|
| delivery: backends, switchable queue, consume, workers | `KafkaQueue`, `InMemoryQueue`, `ConstantQueue`, `SqsQueue` composed by `Delivery`; `MCDelivery` | checked |
| the README's promise as an abstract specification | `AtLeastOnce`, which `Delivery` implements under a refinement mapping | checked |
| the size that the lag poller publishes | `KafkaQueue`, `InMemoryQueue`, `Delivery` | checked |
| its proofs | `Delivery_proofs` | all its safety proved: types, what becomes of a message, the size, and that it implements `AtLeastOnce` (Kafka: with one worker and no failure) |
| metric recorder | `AsyncRecorder`; its proofs in `Program_proofs` | checked, safety proved |
| settings and their file | `Settings`, `Settings_proofs` | checked, safety proved |
| filters | `Signal` (operations), `SignalFilter` (any calls), `SlidingMean` (abstract); `SignalFilter_proofs` | checked, safety and the refinement proved (for samples that are numbers) |
| controllers | `Control` (shared operations), `Pid`, `Smith`, `SmithLoop` (with the target); `Control_proofs`, `Pid_proofs`, `SmithLoop_proofs` | checked, safety proved |
| readers | `Readers`: one page or one query per mapping | checked within the next |
| control loop | `ControlLoop` | checked within the next, `QuietAfterStop` and `StaleRateOnce` proved |
| the program: hooks, orchestrator's goroutines, server, end | `Program`, `Program_proofs` | checked, its safety proved |
| rate limiter and workers' waiting | `Limiter` (x/time/rate), `RateLimiter`, `RateLimiter_proofs` | checked, safety proved (`DrainBounded` after `Stop` only for a burst of one) |
| **left: model** | several workers at low rates; a smaller instance of `Settings` on which it can be checked that every request is answered | planned |
| **left: prove** | `RateLimiter` (`DrainBounded` after `Stop` with a larger burst) | open, see section 5 |

Composition: `Delivery` instantiates the four backends; `SignalFilter`,
`Control` and through it `Pid`, `Smith` and `ControlLoop` extend `Signal`;
`SmithLoop` extends `Smith` with a target; `RateLimiter` extends `Limiter`;
`ControlLoop` extends `Readers`, and `Program` extends `ControlLoop`.
`Delivery` and `RateLimiter` split the orchestrator: a worker's cycle in
`Delivery` may start at any time, which is what `RateLimiter` does to it.
`ControlLoop` and `Pid`/`Smith` split the loop: what a controller computes is in
the latter, and `ControlLoop` only knows a rate by the controller it comes from.
`Program` runs the whole control loop inside the life of the process; of the
orchestrator's goroutines, whose detail is in `Delivery` and `RateLimiter`, it
keeps whether they wait, are busy or have ended. Every step of `Program` is a
step of `ControlLoop` or leaves it alone, which is proved (`RunsControlLoop`).

## 3. Modules and the code

`PROJECT.json` "map" names the lines of every definition. In outline:

**`Delivery`** — one action per step at which another goroutine may interfere.
`Snapshot` is the read of the active queue and its `switched` channel under the
lock (switchable.go:81); a `Dequeue` that parks (`recv`, `await`) leaves with a
message, with an error, or because the epoch it took is over or its context is
done; `Retry` is the loop around it. `PushOk`/`PushFails` is `target.Push`,
`Ack` goes to whatever queue is active then (switchable.go:119). A switch is
`Build` (the cached instance) and `Swap` (pointer and channel). A producer has
its steps too, two of them for the in-memory queue: the channel first, the
counter after it. `epoch` stands for the channels closed so far. `Restart` is a
crash followed by a new process: what was in the process is gone, Kafka starts
at the committed offset, SQS messages become visible when their timeout ends.
The backends are modules of their own: `KafkaQueue` (log, committed offset,
fetch position, marked offset; sarama commits when told to), `SqsQueue`
(visibility), `InMemoryQueue`, `ConstantQueue`. `Kafka!Size` is the lag as
`Client.Size` computes it, with the offset -1 of a group that has committed
nothing (kafka.go:149). A flood is a producer that creates one message after
another: what it has not created is in `fresh`.

**`AtLeastOnce`** — messages are accepted, confirmed by the target, and settled
(never delivered again), and only confirmed ones may be settled. `Delivery`
maps to it: settled is what SQS deleted and Kafka's committed prefix. On Kafka
the program keeps this contract only with one worker whose pushes succeed; what it
keeps with several and with failures is `SettledOrGivenUp`.

**`AsyncRecorder`** — `send` in steps: read lock, look at `closed`, select,
unlock; `stop`: announce the writer, which keeps new readers out, wait for the
readers that are in, set and close, unlock, wait for the worker. A sender that is
done sends again, without end. `owed` is what was put in the channel and not yet
recorded, so nothing has to be counted.

**`Settings`** — a request changes the running program in one step and the
file in others: mutex, read, truncate, write, each of which may fail, and the
process may end between any two. `SwitchController`, `SwitchQueue`, `SetQuery`
and `Patch` are the four endpoints; `PidParamsIn`, `SmithParamsIn` and
`StepParamsIn` what the constructors take from the file. The four controllers
are the ones `buildAll` always builds, and `pid`, `pidff` and `step` share a section.
The file is what `Load` makes of it: a missing key has its default, and an empty
file is `Defaults`. Of a controller's parameters only the pair `min`, `max`, which
is validated together, is kept; `step` has the maximum alone. Two ghosts say what
the code leaves to chance since the program started: `keysInDoubt` has the settings
that two requests were changing at once, `typesInDoubt` the controllers whose
section another one wrote to and, after a PATCH that overlapped another PATCH or a
switch of controllers, all of them; a failed write puts everything in doubt.

**`Signal`**, **`Control`** — every method holds its mutex throughout, so an
operation is an operator from one filter (reference, clock) to the next.
Samples are integers or NaN, quotients are rounded down, e^(-1/n) is a constant
`Decay[n]` in hundredths. `Pid`, `Smith` and `SignalFilter` have one action per
method. A call that is refused changes nothing and is no step. `SmithLoop` adds
the target: a first-order response seen a whole number of samples later.

**`Readers`** — one read: `Scrape` takes the samples that a page has and the
time of now; `Query` answers one mapping after the other, in any order (the
mappings are a Go map), each overwriting the time. Prometheus counts with the
first result, CloudWatch with the newest data point. A mapping may be missing
from a page, a query may fail, and then the poll is given up.

**`ControlLoop`** — one poll in the steps `Tick`, `ReadPage` or `ReadQuery`,
`Measure`, `Pick`, `Compute`, `SetDrainRate`, with `SetType`, `Stop` and its
deadline in between. The controllers differ in what they refuse: `pid`, `pidff`
and `smith` look at the value and, by their own clock, at its time; `step` at
neither. The HTTP client switches between any two steps.

**`Program`** — `Hooks` is the order in which `Options` wires the parts
(options.go:16-46). `StartHook` takes the next, `Stopping` the last that is still
started. Stopping the orchestrator is `Dismiss` (the contexts) and
`StopOrchestrator` (every goroutine has ended); stopping the poller `TellPoller`
and `StopPoller`; the server and the queue type have no stop hook
(`StopPassive`). `Expire` is the deadline, at any moment: fx then leaves the
remaining hooks out and the process exits. `lost` remembers a metric sent to a
recorder that is closed already.

**`Limiter`**, **`RateLimiter`** — time is relative to now: a reservation's
`act` is the ticks until it is due. A message is `Token` units and a rate is in
units per tick, so rates below one message a second are whole numbers.
`awaitToken` is `CheckRate`, `Reserve`, then `DecideToWait`, `DecideToCancel` or
`ConsumeNow`, and `CancelReservation`. A rate that is not positive supplies
nothing (`Supplied`), and a token that is not there is then `Never` due.

Mutants (operators named for the bug, marked `Mutant:`) stand next to the
definition they change and are used by nothing else.

## 4. Runs

| run | what it shows | bounds |
|---|---|---|
| `kafka_memory` | two workers, Kafka and memory: an offset is marked for a confirmed record only, and what it settles unconfirmed is in hand or accounted for; no switch loses or repeats a message or shows as an error; the published size follows what is still to be pushed | 2 messages and a poison record, 2 switches, 1 failure, 1 restart |
| `sqs_constant` | SQS loses nothing and deletes only what was confirmed, the constant queue never yields an empty query | 2 workers, 2 messages, batches of 2, 1 switch, failure, restart |
| `live` | with one worker and pushes that succeed Kafka keeps the promise too; a stop reaches parked workers, waiting messages are pushed, blocked producers return | 1 worker, 2 messages, capacity 1, 2 switches, 1 restart |
| `async_recorder` | no panic, order, drain, `stop` returns | 2 senders that send without end, 2 stops, buffer of 2, 2 kinds of event |
| `settings` | file and program agree but for what is in doubt, nobody undoes another, the file stays loadable until a shared section is changed by two | 2 clients (one patches and sets the queue and its query, one switches controllers), all 4 controllers, 2 values of a limit, one PATCH of the minimum and one of both |
| `filter` | no overshoot for every kind and size; the running sum implements `SlidingMean` | sizes 0 to 3, three sample values |
| `pid` | integral within its clamp, no windup, the output leaves a limit at once; the reference arrives in N samples and stays | 9 configurations, 2 of them refused; 3 times |
| `smith_loop` | dead time cancelled while the model is right | 6 configurations, delays of 0 to 2 samples |
| `program` | from the first hook to the exit: a replaced controller sets the rate at most once more; quiet after `Stop`; a selected controller takes effect; who stops in time loses nothing; the program ends | 3 controllers, 3 kinds of reader, 2 mappings, 2 times, a number and a NaN, 1 worker and the lag poller |
| `limiter` | a steady rate bounds the draining, zero pauses, below zero ends it, one worker drains at half a message a second, workers end | teams of 1 and 2 workers, rates -1/2, 0, 1/2 and 1 a second, burst 2 |

Two more runs have `expect: violation`. They are disagreements between the
code and what the repository says of it:

| run | disagreement |
|---|---|
| `kafka_push_fails` | a failed push is passed by the next record's commit and not redelivered (README.md:156) |
| `filter_nan` | one NaN spoils a moving average for good |

### Other disagreements

The same models show these with other constants than the runs':

* `NoMessageLost` with two workers on Kafka and one restart: the commit of a
  later record settles an earlier one still being pushed. With `Types =
  {"inmemory"}` and one failure: a message whose push failed is gone.
* `SizeAgrees` without its conditions on switches and failures: the in-memory
  size counts failed messages for ever, a switch between dequeue and ack lowers
  it for another backend's message, and leaves it too high when the message was the
  in-memory queue's own (switchable.go:119), and Kafka's lag leaves out a record whose
  push failed once a later one is acked. `SizeAgrees` also allows the time between
  channel and counter, in which an ack makes the in-memory size negative
  (inmemory.go:23).
* An ack that a switch sends to the in-memory or the constant queue (switchable.go:119)
  does not settle the Kafka record or SQS message that it is for: that is pushed again
  after a restart, or when its visibility timeout ends.
* `EnqueueReturns` for a queue that stays switched away or stopped: the send to
  a full channel has no context, and its handler blocks for ever (inmemory.go:23).
* `SettingsPersisted` without `keysInDoubt`, when both clients call `"type"`: the
  switch that lost in the program may be written last (switchcontroller.go:26-31).
* `ParamsPersisted` without `typesInDoubt`. A switch between `SetParams` and the
  reread leaves the accepted parameters out of the file (controllerparams.go:28-32);
  and an accepted PATCH of `pid` alone gives `pidff` and `step`, which share its
  section, other parameters after a restart (controllerparams.go:50).
* `Restartable` without `typesInDoubt`: `pid` accepts a minimum that is within its
  own maximum, then `step`, which knows no minimum, or `pidff`, which has another,
  accepts a lower maximum. The section has `min > max`, with which `buildAll` refuses
  to start. Two overlapping PATCHes of one controller can do the same: each validates
  what the other has set and not yet written, and a crash comes between the two writes.
* A crash or failed write between `Truncate` and `Write` leaves an empty file:
  every setting is back at its default (persist.go:68).

And three that are in the models' definitions: while a group has committed
nothing the Kafka lag is one too many (kafka.go:149, `NothingMarked` in
`SizeAgrees`); the first sample moves the integral when the output saturates
(control.go:61, against README.md:134), which is how `Integrate` is written; and
"a sample older than the previous one returns `ErrOutdatedMeasurement`"
(README.md:134) need not hold with several mappings and a reader that queries
them: the time of the query that was last in the map's order is taken for all
(prometheusapi.go:43-50, cloudwatch.go:51-58), so an old value of cpu may come
with a newer time and the other way round (`Query` in `Readers`).

### Why the bounds are enough

A hazard here needs two of something: two workers (one acks past the other),
two messages (one committed past), two requests, a second switch (back to the
instance left before), one failure, one restart. A channel of capacity 1 is
full with one message and blocks the second. Windows of 2 and 3 samples
wrap, and so do delay lines of 2. Times 0 to 2 give samples out of order,
at once, and one or two steps apart. In `settings` all four controllers are
there, and one client switches them between any two steps of the other's PATCH;
the other patches again and again, so that every controller of the shared section
gets its turn. That a client switches against a client that switches, or patches
against one that patches, is left to the proofs, which have any number of clients of
every endpoint. Queue type and query have one value there, the default: what
can go wrong with them beside the controller's keys is that a write is undone,
which `NoLostUpdate` sees, and two values more would take the run out of
reach. In `async_recorder` nothing bounds what is sent. In `program` the second mapping is there to answer with another time, and
one worker is enough for what the hooks wait for; the theorems of `Program_proofs`
hold for any number. In `limiter` a tick is a second; the rate of half a message a second makes a
worker give up a reservation before its second look, one a second makes it wait. What is bounded only to keep the space
finite is named: `MaxSwitches`, `MaxFailures`, `MaxRestarts`, `PushCap` (counts
of one message's confirmations), `MaxDebt` (how far
reservations may run ahead) and `MaxLate` (how late a goroutine may run; the
bound on draining holds for any lateness within it). `SYMMETRY` is used for
workers and messages where only safety is checked.

### What the properties leave out on purpose

* `DrainBounded` is about a rate that has not changed since the start: a reservation keeps the delay it was
  given when the rate changes, and x/time/rate may then restore more than was
  taken, so no bound in terms of the rates holds across changes. It is also about
  rates that take a whole number of ticks for a token (`Exact`): `Limiter` rounds
  waits up to ticks where the library rounds to nanoseconds, and with a token of 3
  units and a rate of 2 a cancelled reservation restores part of a unit more than
  it took.
* `NegativeRateEnds` allows more than the tokens saved up and those reserved.
  A reservation made at a high rate is measured, when it is given back, against
  those made since, and `CancelAt` may restore up to the whole burst for one token
  (three workers, a burst of 2 and rates 1, 8, -1 consume six messages where five
  were to be expected). The bound counts one such `Refill` for every worker.
* `Drains` is about one worker: with several, a schedule that interrupts every
  worker between `Reserve` and `Cancel` can waste tokens for ever.
* `LeavesLimits` is about a controller without derivative and with a reference
  that stands still, the case in which only the integral can delay it.
* `SettledOrGivenUp` counts the Kafka records that are settled unconfirmed, since
  the program does settle them; that there are none is `NoMessageLost`.
* `SettingsPersisted`, `ParamsPersisted` and `Restartable` excuse what is in doubt
  (`keysInDoubt`, `typesInDoubt`), until the next start: each excuse is a
  disagreement above.
* `GracefulStop` counts what the poller, the workers and the lag poller report. The
  HTTP server is never stopped, and the queue type that it reports on a late PUT
  (switchqueue.go:35) may come to a closed recorder.
* `TypeOK` is checked in `Delivery`, `AsyncRecorder` and `Pid`; in the other modules
  it documents the variables (`SmithLoop`'s is proved all the same).
* `CHECK_DEADLOCK FALSE` stands where the program may rest: everything created
  and pushed, the orchestrator or poller stopped, a file that cannot be loaded.

### Fairness

* Go's scheduler runs every goroutine that can run: weak fairness of every step
  of a worker, producer, handler, sender, stop or poll.
* `select` with several ready cases takes each of them again and again: strong
  fairness of the poller's `Quit` and of `Leave`, by which a worker or the lag
  poller ends.
* Time passes and the ticker ticks: weak fairness of the poller's steps, of
  `Tick` in `RateLimiter`.
* fx runs the hooks: weak fairness of the start and stop hooks and the exit.
  Nothing makes the deadline expire, so `ProgramEnds` does not lean on it.
* The environment: the limiter grants tokens in `Delivery` (`RateLimiter`
  shows when), the target answers every push, a reader's request comes to an
  answer or an error, and again and again a poll finds a number for cpu
  (`[]<>(Useful \/ ...)`), without which no controller could compute. The HTTP
  clients have no timeout of their own, so these are assumptions on the
  network and not on the code.
* Nobody has to create a message, switch, patch, stop or crash.

## 5. Proofs

Checked by TLAPS for all values of the constants under the modules' named
assumptions, and for the hypotheses that a theorem names.

| module | theorems | argument |
|---|---|---|
| `Delivery_proofs` | `TypeCorrect` (`TypeOK`), `SettledAccounted` (`SettledOrGivenUp`), `SwitchUnseen` (`SwitchIsInvisible`), `BodyPresent` (`ConstantHasBody`), `PushedOnce` (`OncePerProcess`), `NothingLost` (`NothingLostWithoutFailure`), `MessagesKept` (`NoMessageLost`), `KeepsContract` (`ImplementsAtLeastOnce`), `SizeFollows` (`SizeAgrees`) | below |
| `Settings_proofs` | `OneWriter`, `WritesNeverLost` (`NoLostUpdate`), `SettingsKept` (`SettingsPersisted`), `ParamsKept` (`ParamsPersisted`), `StartsAgain` (`Restartable`) | below |
| `Program_proofs` | `RunsControlLoop`, `ProgramStaleOnce` (`StaleRateOnce`), `Quiet` (`QuietAfterStop`), `StopsGracefully` (`GracefulStop`) | `RunsControlLoop` maps each step to one of `ControlLoop` or a stutter, so what is proved of the loop carries over. `StaleOnce` rests on what a poll past `Pick` may still set: at most one rate. `QuietAfterStop` on `Stop` having returned only with the poller off or ended. `GracefulStop` on an invariant that tells by the number of hooks left which parts have ended. |
| `Program_proofs`, about `AsyncRecorder` | `RecorderTypes` (`TypeOK`), `NoPanic` (`NeverPanics`), `Ordered` (`InOrder`), `StopHasDrained` (`StopDrains`) | `LockInv` relates lock, positions and `closed`: the channel is only closed by the holder of the write lock, and nobody sends without the read lock. Order is the equation in hand ∘ channel = accepted and not yet recorded. |
| `RateLimiter_proofs` | `ZeroRateStops` (`ZeroRatePauses`), `NegativeRateStops` (`NegativeRateEnds`), `DrainBoundedInOrder` (`DrainBounded` while `Orderly`) | `PauseInv`: a worker past its look at the rate has not consumed since the rate became zero; the lemmas `TokensKept` to `CancelledKept` say that nothing the limiter does with tokens changes its limit. For the other two, below. |
| `Control_proofs` | (lemmas for the next three) | Clamping and integrating; that filters of numbers stay filters of numbers; and `WindowEnds`, the window of a moving average by its running totals: the sum is a function of the window though `Sum` itself would need induction. |
| `SignalFilter_proofs` | `NeverOvershoots` (`NoOvershoot`), `RingIsMean` (`MeanOfLast`) | below |
| `Pid_proofs` | `Invariance`, `TypeCorrect` (`TypeOK`), `IntegralStaysBounded` (`IntegralBounded`), `NeverWindsUp` (`NoWindup`), `OutputLeavesLimits` (`LeavesLimits`), `ReferenceThere` (`ReferenceArrives`) | `IInv`: everything that enters the integral is an integer, the limits in force are valid, and the last terms keep to the limits they were computed with. For `LeavesLimits`, `GainTerms` relates the last sample's terms to its gains, and `FallsFromMax` and `RisesFromMin` are the arithmetic. `ReferenceInv` says that the last `steady` entries of the window are the setpoint, so that a full window of them has it for its mean. |
| `SmithLoop_proofs` | `Invariance`, `TypeCorrect`, `DeadTimeGone` (`DeadTimeCancelled`), `WithinLimits` | `Follows`: while the model is right, the predictor's ring read from its head (`Ahead`) is what is under way from the target, entry by entry. Types say that the ring is as long as the dead time in force and the head within it, whatever params are set between samples. `WithinLimits`, which no run checks, says that the integral is within the clamp in force and that no sample asks for a rate outside `Min` and `Max`: new limits empty the integral. |

**Delivery.** `TypeInv` needs the backends' types and what a position in the
cycle implies of the message in hand; frame lemmas say once which variables a
kind of step leaves alone. On it stand
`AckConfirmed` (who acks holds a confirmed message); `LossInv`, for `SettledOrGivenUp`:
besides it, that a worker holds only what was received (`Received`), and that the
given-up records are at most `Losses`, for which the lemmas say what a step may take
out of a worker's hands unconfirmed: a push that fails or is cut off by `Stop`
one message, the end of the process one for every worker, and any other step nothing;
`CancelledSaw` (a worker that
leaves with a cancellation had a switch or its own context end), `QueryStored`
(`ready` closes after a query is stored) and `Places`: a message is in one place
at a time, be it fresh, at a producer, in a backend or at a worker, and the worker
and backend that hold it know of it. `PushedOnce` adds a budget (what may still be
delivered was pushed no more often than the process restarted), `NothingLost`
that every message is accounted for while nothing has failed. For Kafka, `Ordered`
says that all records up to the marked offset are done with and that what was
received beyond it is in the worker's hands. It needs `OneByOne`, one worker and no failure: with two
workers or a push that fails it is false, and so are `NoMessageLost` and the
contract (see the disagreements). `MessagesKept` leaves the in-memory queue out, as a
crash forgets its channel. `KeepsContract` maps every step to one of `AtLeastOnce`
or to a stutter. `SizeFollows` rests on `SizeInv`: which workers carry (`Laden`), that
before the first switch all deal with one backend (`AtHome`) and how far Kafka's mark lags behind (`Lagging`).

**Settings.** `MutexInv` is the mutual exclusion: whoever is between reading and
writing the file holds the mutex, and what it read is what the file holds. `SettingsInv`
says for every setting where the live value is: in the file, or with the one request
that has changed it and not written it, or else the setting is in doubt. `LimitsInv`
says the same of the limits of every controller that is not in doubt, where the request
may be at any step of its PATCH (`PatchInv`: unless all controllers are in doubt there
is one PATCH at a time and the controller it found is still the active one). `LoadInv`
adds that every write, and the empty file between truncation and write, is one that the
constructors accept: the section is the one of a controller which validated it, since
by then no other of its section has changed. There is no hypothesis about clients,
controllers or limits.

**Negative rates.** `SupplyInv` bounds what may still begin, in units: `Credit` is
what has begun and what is about to, what the limiter's tokens and those owed to it
by reservations without supply come to if that is positive, and a `Refill` for every
reservation made at a positive rate. `Class` sorts the workers' reservations
accordingly, `WorkerSpends` shows that a step of one worker never adds to the credit
(it moves that worker from one class to another, with the limiter's tokens),
and `Fresh` that a change of the rate starts within the bound. `HeldOK` is needed beside it: a
reservation without supply is due at once or never, so it is never waited for.

**Draining.** `DrainInv` keeps a ledger in ticks' worth of supply: z tokens, K ticks for
a token and an allowance a. `Covered` says that the allowance is worth the tokens
and all reservations still held, `Timely` that what falls due within n ticks is never
more than the allowance and the supply of n ticks, and `Queued` that the reservations that
may be given back are due at least a token apart and none after what the limiter
has promised last. From the last follows that a cancelled reservation never
restores more than it took, which is what `Covered` needs. It holds while
`Orderly`: until `Stop`, since before it only a worker that would wait too long gives its
token back, or with a burst of one, where no two are due at once. After `Stop`
reservations taken from saved tokens are given back too, in any order; the
limiter then restores less for some and more than was taken for others.
That the gains never exceed the losses is a sum over reservations that this proof does
not have, so for a burst of two and more the rest of `DrainBounded` stays with the
run `limiter`.

**Filters.** `Ring` tells the ring buffer by its running totals, empty places as zeros, and
`Within` bounds every total of the newest k entries between k times the smallest and
the largest sample since the filter was emptied; the ring's sum is the last total, so
the mean lies between. For the refinement, `SlidingMean` sums the window by a
recursive function `Sums`. `SumsStep` proves its equation from an explicit
witness, and `StepsAgree` that two sequences with the same first value and steps are
equal: by the least place where they would differ (`LeastNumber`, from the
well-foundedness of the naturals), which stands in for the induction that the
provers do not do. `WindowMean`, `PushWindow` and `LevelWindow` relate the ring's totals to
the abstract window before and after a sample and a seed. Both theorems assume that
`NaN` is no sample: one that is not a number spoils the running sum (run `filter_nan`).

Two of the model's own statements were corrected by these proofs, both true on
the small instances and false on larger ones: the bound of `NegativeRateEnds` and
the rates of `DrainBounded` (section 4).

Assumptions: `PidAssumption` says that configurations, samples and times are
integers, that `Decay` is a percentage and `NoParams` no record of params;
`SmithAssumption` the same of Smith's configurations, and that `Persist`, the part of
its output that the model keeps over the time between two samples, is a percentage
too; `SignalAssumption` that samples are integers or `NaN`, 0 is one of them, and `Decay` is a percentage;
`DeliveryAssumption` and `BackendAssumption` that there is a backend, workers
and producers are finitely many, the marker values are no messages, poison is among
the messages, the bounds are numbers, and that there is room in the channel and a positive
batch; `SettingsAssumption` that a PATCH has integers for `min`, `max` or both, `NoHandler`
is no request, and the defaults are one value of its kind for each key and can be
loaded; `LoopAssumption` and
`ProgramAssumption` that times are integers, the marker
values differ from data and the lag poller is no worker; `LimiterAssumption` that
burst, token and second are natural numbers, rates integers, workers finitely many,
and `Never` is longer than a worker can be kept from its decision.
TLC evaluates all of them in the runs.

Only model-checked are:

* the eight properties under fairness: `StopQuiesces`, `EventuallyPushed`, `EnqueueReturns`,
  `EveryStopReturns`, `SwitchTakesEffect`, `ProgramEnds`, `Drains`, `WorkersEnd` (liveness
  needs ENABLED, which TLAPS does not reason about here);
* `DrainBounded` after `Stop` with a burst of more than one token, as said above.

Where a theorem has the hypothesis `OneByOne`, or that samples are numbers, the
property can be false without it, in the model as in the code; the run that expects
it violated or the disagreements of section 4 say how. `Orderly` is what the proof
of `DrainBounded` needs, as said above.

## 6. Not modelled

* Floating point: numbers are integers (or NaN), so rounding drift of the
  running sum, infinities and overflow are out.
* `Settings`: parameters other than `min` and `max`, environment overrides,
  comments and the YAML encoding.
* The legacy `setpoint_filter_tau`, gauges and logging.
* What readers, targets, brokers and clients do on the wire (queries, decoding,
  signatures, TLS, pools, sarama's error channels): they are the environment of
  `Readers` and `Delivery`.
* Routes, dependency injection and configuration structs; of these only the
  order of start and stop matters and is in `Program`. A start hook that fails
  is left out: none of this program's hooks returns an error on start, and a
  constructor that fails (the CloudWatch reader's, an unknown protocol) ends the
  program before the first hook.
* The metric registry (`internal/metrics/prometheus`): one goroutine, the
  recorder's worker, calls it while the program runs.
* A burst of zero, with which nothing is ever consumed (orchestrator.go:93), and a
  polling interval that is not positive, at which `time.NewTicker` panics
  (pollmetrics.go:67): both are configurations that no run takes.
