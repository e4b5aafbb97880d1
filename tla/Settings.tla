-------------------------------- MODULE Settings --------------------------------
(****************************************************************************)
(* The settings an HTTP client changes while the program runs.  Each handler *)
(* first changes the running program and then writes the change into the     *)
(* YAML file, from which a restart takes it:                                 *)
(*   app/usecases/switchqueue, switchcontroller, queuequery and              *)
(*   controllerparams with their handlers, app/repositories/controllers,     *)
(*   pkg/config/persist.go and config.go.                                    *)
(* Of a controller's parameters only `min` and `max` are kept: the pair that *)
(* the code validates together.                                              *)
(****************************************************************************)
EXTENDS Integers, FiniteSets

CONSTANTS
    Handlers,    \* requests in progress, each in a goroutine of its own
    Endpoints,   \* Endpoints[h]: what the client behind h calls, see Kinds
    Patches,     \* what a PATCH may ask: values for min, for max, or both
    Protocols,   \* queue types
    Queries,     \* queries of the constant queue
    Defaults,    \* Defaults[k]: what a key missing from the file stands for
    NoHandler

Types == {"pid", "pidff", "step", "smith"}
Kinds == {"type", "protocol", "query", "params"}

TypeKey     == <<"controller", "type">>
ProtocolKey == <<"queue", "protocol">>
QueryKey    == <<"queue", "query">>
SettingKeys == {TypeKey, ProtocolKey, QueryKey}
ParamKeys   == {"pid", "smith"} \X {"min", "max"}
Keys        == SettingKeys \cup ParamKeys

(* The values a setting may take.                                            *)
Choices(k) == CASE k = TypeKey -> Types [] k = ProtocolKey -> Protocols [] k = QueryKey -> Queries

(* step has no minimum; every other controller has both limits.              *)
Fields(t) == IF t = "step" THEN {"max"} ELSE {"min", "max"}

(* Mutant: every controller writes to one section.                           *)
OneSection(t) == "pid"

(* sectionFor: pid, pidff and step share one section of the file.            *)
SectionFor(t) == IF t = "smith" THEN "smith" ELSE "pid"

Sharers(t) == {u \in Types : SectionFor(u) = SectionFor(t)}

Overlay(u, base) == [k \in DOMAIN base |-> IF k \in DOMAIN u THEN u[k] ELSE base[k]]

(* Limits.validate, which step does not call.                                *)
Valid(t, p) == t # "step" => p["min"] <= p["max"]

(* A file is modelled by what Load makes of it, so that a key missing from   *)
(* it has its default: the empty file is Defaults.  The parameters that the  *)
(* constructors of the controllers take from it.                             *)
EmptyFile == Defaults
PidParamsIn(file)   == [f \in {"min", "max"} |-> file[<<"pid", f>>]]
SmithParamsIn(file) == [f \in {"min", "max"} |-> file[<<"smith", f>>]]
StepParamsIn(file)  == [f \in {"max"} |-> file[<<"pid", f>>]]
ParamsIn(file, t) ==
    CASE t \in {"pid", "pidff"} -> PidParamsIn(file)
      [] t = "smith"            -> SmithParamsIn(file)
      [] t = "step"             -> StepParamsIn(file)

(* buildAll constructs every controller, whichever is selected.              *)
Loadable(file) == \A t \in Types : Valid(t, ParamsIn(file, t))

NoPatch == [f \in {} |-> 0]

ASSUME SettingsAssumption ==
    /\ \A u \in Patches : DOMAIN u \subseteq {"min", "max"} /\ \A f \in DOMAIN u : u[f] \in Int
    /\ NoHandler \notin Handlers
    /\ Endpoints \in [Handlers -> SUBSET Kinds]
    /\ DOMAIN Defaults = Keys
    /\ \A k \in SettingKeys : Defaults[k] \in Choices(k)
    /\ \A k \in ParamKeys : Defaults[k] \in Int
    /\ Loadable(EmptyFile)

VARIABLES
    \* the running program
    up,        \* "up", "down", or "failed": the constructors refused the file
    live,      \* active controller type, active queue type, current query
    params,    \* the parameters of each controller instance
    \* the file, and the Persister's mutex
    disk,
    mutex,
    \* ghosts: what the file need not agree with, after what has happened
    \* since the program started
    keysInDoubt,    \* settings
    typesInDoubt,   \* controllers
    \* the requests
    pc,
    target,    \* controller that SetParams was called on
    asked,     \* the fields of the PATCH
    section,   \* where its fields will be written
    updates,   \* what the handler passes to Set
    buf        \* what Set read from the file

fileVars == <<disk, mutex>>
ghostVars == <<keysInDoubt, typesInDoubt>>
liveVars == <<up, live, params>>
requestVars == <<pc, target, asked, section, updates, buf>>
vars == <<liveVars, fileVars, ghostVars, requestVars>>

Pcs == {"idle", "apply", "section", "reread", "store", "truncate", "write"}

Init ==
    /\ up = "up"
    /\ disk = EmptyFile
    /\ live = [k \in SettingKeys |-> disk[k]]
    /\ params = [t \in Types |-> ParamsIn(disk, t)]
    /\ mutex = NoHandler
    /\ keysInDoubt = {}
    /\ typesInDoubt = {}
    /\ pc = [h \in Handlers |-> "idle"]
    /\ target = [h \in Handlers |-> Defaults[TypeKey]]
    /\ asked = [h \in Handlers |-> NoPatch]
    /\ section = [h \in Handlers |-> "pid"]
    /\ updates = [h \in Handlers |-> NoPatch]
    /\ buf = [h \in Handlers |-> EmptyFile]

Go(h, label) == pc' = [pc EXCEPT ![h] = label]

(* The request is answered; what it held is forgotten.                       *)
Answer(h) ==
    /\ Go(h, "idle")
    /\ target' = [target EXCEPT ![h] = Defaults[TypeKey]]
    /\ asked' = [asked EXCEPT ![h] = NoPatch]
    /\ section' = [section EXCEPT ![h] = "pid"]
    /\ updates' = [updates EXCEPT ![h] = NoPatch]
    /\ buf' = [buf EXCEPT ![h] = EmptyFile]

-----------------------------------------------------------------------------
(* PUT /controller/type, /queue/type and /queue/query: the use case changes  *)
(* the running program, under the lock of what it changes, and has the new   *)
(* value of one key to write.  An unknown type is refused and changes        *)
(* nothing.                                                                  *)
Begins(h, endpoint) ==
    /\ up = "up" /\ pc[h] = "idle"
    /\ endpoint \in Endpoints[h]

ToStore(h, k, v) ==
    /\ updates' = [updates EXCEPT ![h] = [x \in {k} |-> v]]
    /\ keysInDoubt' = IF \E g \in Handlers : k \in DOMAIN updates[g]
                       THEN keysInDoubt \cup {k} ELSE keysInDoubt
    /\ Go(h, "store")
    /\ UNCHANGED <<up, params, fileVars, target, asked, section, buf>>

(* A PATCH is at work on the controllers, or still has to write the file.    *)
Patching(h) == pc[h] \in {"apply", "section", "reread"}
PatchOpen(h) == Patching(h) \/ DOMAIN updates[h] \cap ParamKeys # {}

SwitchController(h, t) ==
    /\ Begins(h, "type")
    /\ live' = [live EXCEPT ![TypeKey] = t]
    /\ typesInDoubt' = IF \E g \in Handlers : Patching(g) THEN Types ELSE typesInDoubt
    /\ ToStore(h, TypeKey, t)

SwitchQueue(h, p) ==
    /\ Begins(h, "protocol")
    /\ live' = [live EXCEPT ![ProtocolKey] = p]
    /\ ToStore(h, ProtocolKey, p)
    /\ UNCHANGED typesInDoubt

SetQuery(h, q) ==
    /\ Begins(h, "query")
    /\ live' = [live EXCEPT ![QueryKey] = q]
    /\ ToStore(h, QueryKey, q)
    /\ UNCHANGED typesInDoubt

(* PATCH /pid: the switchable controller's SetParams picks the active one.   *)
Patch(h, u) ==
    /\ Begins(h, "params")
    /\ target' = [target EXCEPT ![h] = live[TypeKey]]
    /\ asked' = [asked EXCEPT ![h] = u]
    /\ typesInDoubt' = IF \E g \in Handlers : PatchOpen(g) THEN Types ELSE typesInDoubt
    /\ Go(h, "apply")
    /\ UNCHANGED <<liveVars, fileVars, keysInDoubt, section, updates, buf>>

(* The other controllers of t's section will not find their own limits there. *)
Shared(t) ==
    /\ typesInDoubt' = typesInDoubt \cup (Sharers(t) \ {t})
    /\ UNCHANGED keysInDoubt

(* Mutant: the merged parameters are not validated.                          *)
ApplyUnchecked(h) ==
    /\ pc[h] = "apply"
    /\ params' = [params EXCEPT ![target[h]] = Overlay(asked[h], @)]
    /\ Shared(target[h])
    /\ target' = [target EXCEPT ![h] = Defaults[TypeKey]]
    /\ Go(h, "section")
    /\ UNCHANGED <<up, live, fileVars, asked, section, updates, buf>>

(* ... and, under that controller's lock, merges the present fields into its *)
(* parameters; a merge that does not validate is refused as a whole.         *)
Apply(h) ==
    /\ pc[h] = "apply"
    /\ LET merged == Overlay(asked[h], params[target[h]]) IN
         IF Valid(target[h], merged)
           THEN /\ params' = [params EXCEPT ![target[h]] = merged]
                /\ Shared(target[h])
                /\ target' = [target EXCEPT ![h] = Defaults[TypeKey]]
                /\ Go(h, "section")
                /\ UNCHANGED <<asked, section, updates, buf>>
           ELSE Answer(h) /\ UNCHANGED <<params, ghostVars>>
    /\ UNCHANGED <<up, live, fileVars>>

(* Update asks the switchable controller again, for its type ...             *)
PickSection(h) ==
    /\ pc[h] = "section"
    /\ section' = [section EXCEPT ![h] = SectionFor(live[TypeKey])]
    /\ Go(h, "reread")
    /\ UNCHANGED <<liveVars, fileVars, ghostVars, target, asked, updates, buf>>

(* ... and for its parameters, and will write the effective value of every   *)
(* asked field that the controller has.  Nothing to write: done.             *)
Reread(h) ==
    /\ pc[h] = "reread"
    /\ LET t     == live[TypeKey]
           saved == DOMAIN asked[h] \cap Fields(t)
       IN IF saved = {}
            THEN Answer(h)
            ELSE /\ updates' = [updates EXCEPT ![h] =
                                  [k \in {section[h]} \X saved |-> params[t][k[2]]]]
                 /\ asked' = [asked EXCEPT ![h] = NoPatch]
                 /\ section' = [section EXCEPT ![h] = "pid"]
                 /\ Go(h, "store")
                 /\ UNCHANGED <<target, buf>>
    /\ UNCHANGED <<liveVars, fileVars, ghostVars>>

-----------------------------------------------------------------------------
(* Persister.Set, under its mutex.                                           *)

(* Mutant: the file is read without the mutex.                               *)
ReadUnlocked(h) ==
    /\ pc[h] = "store"
    /\ mutex' = h
    /\ buf' = [buf EXCEPT ![h] = disk]
    /\ Go(h, "truncate")
    /\ UNCHANGED <<liveVars, disk, ghostVars, target, asked, section, updates>>

ReadFile(h) ==
    /\ pc[h] = "store"
    /\ mutex = NoHandler
    /\ mutex' = h
    /\ buf' = [buf EXCEPT ![h] = disk]
    /\ Go(h, "truncate")
    /\ UNCHANGED <<liveVars, disk, ghostVars, target, asked, section, updates>>

(* os.WriteFile, first half: the file is opened and truncated.               *)
Truncate(h) ==
    /\ pc[h] = "truncate"
    /\ disk' = EmptyFile
    /\ Go(h, "write")
    /\ UNCHANGED <<liveVars, mutex, ghostVars, target, asked, section, updates, buf>>

(* Mutant: the document that was read is written without the updates.        *)
WriteUnchanged(h) ==
    /\ pc[h] = "write"
    /\ disk' = buf[h]
    /\ mutex' = NoHandler
    /\ Answer(h)
    /\ UNCHANGED <<liveVars, ghostVars>>

(* os.WriteFile, second half: the document that was read, with the updates.  *)
Write(h) ==
    /\ pc[h] = "write"
    /\ disk' = Overlay(updates[h], buf[h])
    /\ mutex' = NoHandler
    /\ Answer(h)
    /\ UNCHANGED <<liveVars, ghostVars>>

(* Reading, opening or writing the file fails.  The handler logs it and      *)
(* answers as if nothing had happened; a file already truncated stays so.    *)
StoreFails(h) ==
    /\ \/ pc[h] = "store" /\ mutex = NoHandler
       \/ pc[h] \in {"truncate", "write"}
    /\ keysInDoubt' = SettingKeys
    /\ typesInDoubt' = Types
    /\ mutex' = NoHandler
    /\ Answer(h)
    /\ UNCHANGED <<liveVars, disk>>

-----------------------------------------------------------------------------
(* The process ends, in the middle of anything: nothing waits for the        *)
(* requests, not even a graceful stop.  Its memory means nothing any more.   *)
Crash ==
    /\ up = "up"
    /\ up' = "down"
    /\ mutex' = NoHandler
    /\ pc' = [h \in Handlers |-> "idle"]
    /\ target' = [h \in Handlers |-> Defaults[TypeKey]]
    /\ asked' = [h \in Handlers |-> NoPatch]
    /\ section' = [h \in Handlers |-> "pid"]
    /\ updates' = [h \in Handlers |-> NoPatch]
    /\ buf' = [h \in Handlers |-> EmptyFile]
    /\ live' = [k \in SettingKeys |-> Defaults[k]]
    /\ params' = [t \in Types |-> ParamsIn(Defaults, t)]
    /\ UNCHANGED <<disk, ghostVars>>

(* Load, and the constructors of queue and controllers.                      *)
Start ==
    /\ up = "down"
    /\ IF Loadable(disk)
         THEN /\ up' = "up"
              /\ live' = [k \in SettingKeys |-> disk[k]]
              /\ params' = [t \in Types |-> ParamsIn(disk, t)]
              /\ keysInDoubt' = {} /\ typesInDoubt' = {}
         ELSE up' = "failed" /\ UNCHANGED <<live, params, ghostVars>>
    /\ UNCHANGED <<disk, mutex, requestVars>>

-----------------------------------------------------------------------------
RequestStep(h) ==
    \/ Apply(h) \/ PickSection(h) \/ Reread(h)
    \/ ReadFile(h) \/ Truncate(h) \/ Write(h) \/ StoreFails(h)

Next ==
    \/ \E h \in Handlers :
         \/ \E t \in Types : SwitchController(h, t)
         \/ \E p \in Protocols : SwitchQueue(h, p)
         \/ \E q \in Queries : SetQuery(h, q)
         \/ \E u \in Patches : Patch(h, u)
         \/ RequestStep(h)
    \/ Crash \/ Start

Spec == Init /\ [][Next]_vars

-----------------------------------------------------------------------------
(* Properties.                                                               *)

(* Every request has been answered.                                          *)
Quiet == up = "up" /\ \A h \in Handlers : pc[h] = "idle"

(* Once the requests are answered, a restart takes up the controller type,   *)
(* the queue type and the query that are live now, unless, since the program *)
(* started, two requests that change it overlapped or a write failed.        *)
SettingsPersisted == Quiet => \A k \in SettingKeys \ keysInDoubt : disk[k] = live[k]

(* A restart gives a controller the parameters it has now, unless another    *)
(* controller of its section accepted a PATCH since the program started, a   *)
(* PATCH overlapped another one or a switch of controllers, or a write       *)
(* failed.                                                                   *)
ParamsPersisted == Quiet => \A t \in Types \ typesInDoubt : ParamsIn(disk, t) = params[t]

(* At every moment, also in the middle of a request or a write, the file can *)
(* be loaded and the program starts again: if of the three controllers that  *)
(* share a section at most one accepted a PATCH since the program started,   *)
(* and one that validates both limits, and no write failed and no PATCH      *)
(* overlapped another or a switch of controllers.                            *)
Restartable ==
    ~({"pid", "pidff"} \subseteq typesInDoubt) => Loadable(disk) /\ up # "failed"

(* Whoever is about to overwrite the file has read what the file holds: no   *)
(* write undoes another's.                                                   *)
NoLostUpdate == \A h \in Handlers : pc[h] = "truncate" => buf[h] = disk
=============================================================================
