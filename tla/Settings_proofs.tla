---------------------------- MODULE Settings_proofs ----------------------------
(****************************************************************************)
(* Proofs about Settings, for any number of requests and any values.         *)
(****************************************************************************)
EXTENDS Settings, TLAPS

(* The Persister's mutex protects a write from its read to its end ...       *)
Writing(h) == pc[h] \in {"truncate", "write"}
Exclusive == \A h \in Handlers : Writing(h) => mutex = h

(* ... where the file is touched by nobody else.                             *)
MutexInv ==
    /\ pc \in [Handlers -> Pcs]
    /\ DOMAIN buf = Handlers /\ buf = [h \in Handlers |-> buf[h]]
    /\ Exclusive
    /\ NoLostUpdate

USE SettingsAssumption

LEMMA MutexInvInit == Init => MutexInv
BY DEF Init, MutexInv, Pcs, Exclusive, Writing, NoLostUpdate

LEMMA MutexInvStep == MutexInv /\ [Next]_vars => MutexInv'
<1> SUFFICES ASSUME MutexInv, [Next]_vars PROVE MutexInv'
  OBVIOUS
<1> USE DEF MutexInv, Pcs, Exclusive, Writing, NoLostUpdate, Go
<1>1. ASSUME NEW h \in Handlers, NEW k, NEW v, ToStore(h, k, v), pc[h] = "idle"
      PROVE  MutexInv'
  BY <1>1 DEF ToStore, fileVars
<1>2. ASSUME NEW h \in Handlers, NEW u \in Patches, Patch(h, u)
      PROVE  MutexInv'
  BY <1>2 DEF Patch, Begins, fileVars
<1>3. ASSUME NEW h \in Handlers, Apply(h)
      PROVE  MutexInv'
  <2>1. /\ pc' = [pc EXCEPT ![h] = "section"] \/ pc' = [pc EXCEPT ![h] = "idle"]
        /\ buf' = buf \/ buf' = [buf EXCEPT ![h] = EmptyFile]
        /\ UNCHANGED <<disk, mutex>>
    BY <1>3 DEF Apply, Answer, fileVars
  <2> QED
    BY <2>1
<1>4. ASSUME NEW h \in Handlers, PickSection(h)
      PROVE  MutexInv'
  BY <1>4 DEF PickSection, fileVars
<1>5. ASSUME NEW h \in Handlers, Reread(h)
      PROVE  MutexInv'
  <2>1. /\ pc' = [pc EXCEPT ![h] = "store"] \/ pc' = [pc EXCEPT ![h] = "idle"]
        /\ buf' = buf \/ buf' = [buf EXCEPT ![h] = EmptyFile]
        /\ UNCHANGED <<disk, mutex>>
    BY <1>5 DEF Reread, Answer, fileVars
  <2> QED
    BY <2>1
<1>6. ASSUME NEW h \in Handlers, ReadFile(h)
      PROVE  MutexInv'
  BY <1>6 DEF ReadFile
<1>7. ASSUME NEW h \in Handlers, Truncate(h)
      PROVE  MutexInv'
  BY <1>7 DEF Truncate
<1>8. ASSUME NEW h \in Handlers, Write(h) \/ StoreFails(h)
      PROVE  MutexInv'
  <2>1. /\ Writing(h) \/ mutex = NoHandler
        /\ pc' = [pc EXCEPT ![h] = "idle"]
        /\ buf' = [buf EXCEPT ![h] = EmptyFile]
        /\ mutex' = NoHandler
    BY <1>8 DEF Write, StoreFails, Answer
  <2>2. \A g \in Handlers : ~Writing(g)'
    BY <2>1
  <2> QED
    BY <2>1, <2>2
<1>9. CASE Crash
  BY <1>9 DEF Crash
<1>10. CASE Start
  BY <1>10 DEF Start, requestVars
<1>11. CASE UNCHANGED vars
  BY <1>11 DEF vars, fileVars, requestVars
<1>12. ASSUME NEW h \in Handlers, NEW v,
              SwitchController(h, v) \/ SwitchQueue(h, v) \/ SetQuery(h, v)
       PROVE  MutexInv'
  <2>1. pc[h] = "idle" /\ \E k : ToStore(h, k, v)
    BY <1>12 DEF SwitchController, SwitchQueue, SetQuery, Begins
  <2> QED
    BY <1>1, <2>1
<1> QED
  BY <1>2, <1>3, <1>4, <1>5, <1>6, <1>7, <1>8, <1>9, <1>10, <1>11, <1>12 DEF Next, RequestStep

(* Between the moment Persister.Set reads the file and the moment it         *)
(* rewrites it, the file does not change: no Set undoes another's, whatever  *)
(* requests run at once and wherever one fails or the process ends.          *)
THEOREM WritesNeverLost == Spec => []NoLostUpdate
<1>1. MutexInv => NoLostUpdate
  BY DEF MutexInv
<1> QED
  BY MutexInvInit, MutexInvStep, <1>1, PTL DEF Spec

(* At most one request is writing the file.                                  *)
THEOREM OneWriter == Spec => []Exclusive
<1>1. MutexInv => Exclusive
  BY DEF MutexInv
<1> QED
  BY MutexInvInit, MutexInvStep, <1>1, PTL DEF Spec

-----------------------------------------------------------------------------
(* What a restart would take up, while requests are on their way.            *)

(* What the file holds, or held before it was truncated: what Set read is    *)
(* what it will write, but for its updates.                                  *)
Content == IF mutex = NoHandler THEN disk ELSE buf[mutex]

Storing(h) == pc[h] \in {"store", "truncate", "write"}

(* The key that holds a limit of a controller.                               *)
KeyOf(t, f) == <<SectionFor(t), f>>

Values(k) == IF k \in SettingKeys THEN Choices(k) ELSE Int

Document(d) ==
    /\ DOMAIN d = Keys
    /\ \A k \in Keys : d[k] \in Values(k)

LEMMA KeyFacts ==
    /\ TypeKey \in SettingKeys /\ SettingKeys \subseteq Keys /\ ParamKeys \subseteq Keys
    /\ \A k \in Keys : k \in SettingKeys \/ k \in ParamKeys
    /\ \A k \in SettingKeys : k \notin ParamKeys
    /\ \A k \in ParamKeys : Values(k) = Int
    /\ \A k \in Keys : Defaults[k] \in Values(k)
    /\ Choices(TypeKey) = Types
<1>1. \A k \in ParamKeys : k[1] \in {"pid", "smith"}
  BY DEF ParamKeys
<1>2. \A k \in SettingKeys : k[1] \in {"controller", "queue"}
  BY DEF SettingKeys, TypeKey, ProtocolKey, QueryKey
<1>3. \A k \in SettingKeys : k \notin ParamKeys
  BY <1>1, <1>2
<1>4. \A k \in ParamKeys : Values(k) = Int
  BY <1>3 DEF Values
<1>5. \A k \in Keys : Defaults[k] \in Values(k)
  <2>1. \A k \in SettingKeys : Defaults[k] \in Values(k)
    BY SettingsAssumption DEF Values
  <2>2. \A k \in ParamKeys : Defaults[k] \in Values(k)
    BY SettingsAssumption, <1>4
  <2> QED
    BY <2>1, <2>2 DEF Keys
<1>6. Choices(TypeKey) = Types
  <2>1. TypeKey # ProtocolKey /\ TypeKey # QueryKey
    BY DEF TypeKey, ProtocolKey, QueryKey
  <2> QED
    BY <2>1 DEF Choices
<1>7. TypeKey \in SettingKeys
  BY DEF SettingKeys
<1>8. /\ SettingKeys \subseteq Keys /\ ParamKeys \subseteq Keys
      /\ \A k \in Keys : k \in SettingKeys \/ k \in ParamKeys
  BY DEF Keys
<1> QED
  BY <1>3, <1>4, <1>5, <1>6, <1>7, <1>8

LEMMA LimitKeys ==
    /\ \A t : \A f \in Fields(t) : KeyOf(t, f) \in ParamKeys
    /\ \A s, t, f, g : KeyOf(s, f) = KeyOf(t, g) => SectionFor(s) = SectionFor(t) /\ f = g
BY DEF KeyOf, SectionFor, Fields, ParamKeys

(* A controller takes each of its limits from the key that holds it.         *)
LEMMA LimitsIn ==
    ASSUME NEW file, NEW t \in Types
    PROVE  ParamsIn(file, t) = [f \in Fields(t) |-> file[KeyOf(t, f)]]
<1>1. CASE t = "step"
  <2>1. ParamsIn(file, t) = StepParamsIn(file)
    BY <1>1 DEF ParamsIn
  <2> QED
    BY <1>1, <2>1 DEF StepParamsIn, KeyOf, SectionFor, Fields
<1>2. CASE t = "smith"
  <2>1. ParamsIn(file, t) = SmithParamsIn(file)
    BY <1>2 DEF ParamsIn
  <2> QED
    BY <1>2, <2>1 DEF SmithParamsIn, KeyOf, SectionFor, Fields
<1>3. CASE t \in {"pid", "pidff"}
  <2>1. ParamsIn(file, t) = PidParamsIn(file)
    BY <1>3 DEF ParamsIn
  <2> QED
    BY <1>3, <2>1 DEF PidParamsIn, KeyOf, SectionFor, Fields
<1> QED
  BY <1>1, <1>2, <1>3 DEF Types

(* The three endpoints that change one setting, as one action.               *)
Switch(h, k, v) ==
    /\ up = "up" /\ pc[h] = "idle"
    /\ live' = [live EXCEPT ![k] = v]
    /\ typesInDoubt' = IF k = TypeKey /\ \E g \in Handlers : Patching(g) THEN Types ELSE typesInDoubt
    /\ ToStore(h, k, v)

LEMMA Switches ==
    ASSUME NEW h \in Handlers,
           \/ \E t \in Types : SwitchController(h, t)
           \/ \E p \in Protocols : SwitchQueue(h, p)
           \/ \E q \in Queries : SetQuery(h, q)
    PROVE  \E k \in SettingKeys : \E v \in Choices(k) : Switch(h, k, v)
<1>1. TypeKey # ProtocolKey /\ TypeKey # QueryKey /\ ProtocolKey # QueryKey
  BY DEF TypeKey, ProtocolKey, QueryKey
<1>2. /\ TypeKey \in SettingKeys /\ ProtocolKey \in SettingKeys /\ QueryKey \in SettingKeys
  BY DEF SettingKeys
<1>3. /\ Choices(TypeKey) = Types /\ Choices(ProtocolKey) = Protocols
      /\ Choices(QueryKey) = Queries
  BY <1>1 DEF Choices
<1>4. ASSUME NEW t \in Types, SwitchController(h, t) PROVE Switch(h, TypeKey, t)
  BY <1>1, <1>4 DEF SwitchController, Switch, Begins
<1>5. ASSUME NEW p \in Protocols, SwitchQueue(h, p) PROVE Switch(h, ProtocolKey, p)
  BY <1>1, <1>5 DEF SwitchQueue, Switch, Begins
<1>6. ASSUME NEW q \in Queries, SetQuery(h, q) PROVE Switch(h, QueryKey, q)
  BY <1>1, <1>6 DEF SetQuery, Switch, Begins
<1> QED
  BY <1>2, <1>3, <1>4, <1>5, <1>6

(* The kinds of steps, one by one.                                           *)
LEMMA Steps ==
    ASSUME [Next]_vars
    PROVE  \/ \E h \in Handlers : \E k \in SettingKeys : \E v \in Choices(k) : Switch(h, k, v)
           \/ \E h \in Handlers : \E u \in Patches : Patch(h, u)
           \/ \E h \in Handlers : RequestStep(h)
           \/ Crash \/ Start \/ UNCHANGED vars
BY Switches DEF Next

-----------------------------------------------------------------------------
(* The shape of the state.                                                   *)
LiveOK ==
    /\ DOMAIN live = SettingKeys /\ live = [k \in SettingKeys |-> live[k]]
    /\ \A k \in SettingKeys : live[k] \in Choices(k)

ParamsOK ==
    /\ DOMAIN params = Types /\ params = [t \in Types |-> params[t]]
    /\ \A t \in Types : params[t] \in [Fields(t) -> Int]

FileOK ==
    /\ Document(disk)
    /\ \A h \in Handlers : Document(buf[h])
    /\ mutex \in Handlers \cup {NoHandler}
    /\ mutex \in Handlers => Writing(mutex)

(* A request has nothing to write before it stores.                          *)
UpdatesOK ==
    /\ DOMAIN updates = Handlers /\ updates = [h \in Handlers |-> updates[h]]
    /\ \A h \in Handlers : \A k \in DOMAIN updates[h] :
         k \in Keys /\ updates[h][k] \in Values(k) /\ Storing(h)

RequestsOK ==
    /\ target \in [Handlers -> Types]
    /\ asked \in [Handlers -> Patches \cup {NoPatch}]
    /\ section \in [Handlers -> {"pid", "smith"}]
    /\ \A h \in Handlers : pc[h] # "idle" => up = "up"

ShapeInv == MutexInv /\ LiveOK /\ ParamsOK /\ FileOK /\ UpdatesOK /\ RequestsOK

LEMMA EmptyPatch == DOMAIN NoPatch = {}
BY DEF NoPatch

LEMMA PatchFields ==
    ASSUME NEW u \in Patches \cup {NoPatch}, NEW f \in DOMAIN u
    PROVE  f \in {"min", "max"} /\ u[f] \in Int
BY EmptyPatch

LEMMA EmptyFileOK == Document(EmptyFile)
BY KeyFacts DEF Document, EmptyFile

LEMMA InitShape == Init => ShapeInv
<1> SUFFICES ASSUME Init PROVE ShapeInv
  OBVIOUS
<1>1. MutexInv
  BY MutexInvInit
<1>2. LiveOK
  BY DEF Init, LiveOK, EmptyFile
<1>3. ParamsOK
  <2>1. DOMAIN params = Types /\ params = [t \in Types |-> params[t]]
    BY DEF Init
  <2>2. ASSUME NEW t \in Types PROVE params[t] \in [Fields(t) -> Int]
    <3>1. params[t] = [f \in Fields(t) |-> Defaults[KeyOf(t, f)]]
      BY LimitsIn DEF Init, EmptyFile
    <3>2. \A f \in Fields(t) : Defaults[KeyOf(t, f)] \in Int
      BY LimitKeys, KeyFacts
    <3> QED
      BY <3>1, <3>2
  <2> QED
    BY <2>1, <2>2 DEF ParamsOK
<1>4. FileOK
  BY EmptyFileOK, KeyFacts DEF Init, FileOK, Document, Writing
<1>5. UpdatesOK
  BY EmptyPatch DEF Init, UpdatesOK
<1>6. RequestsOK
  BY EmptyPatch, KeyFacts DEF Init, RequestsOK
<1> QED
  BY <1>1, <1>2, <1>3, <1>4, <1>5, <1>6 DEF ShapeInv

(* A step of a request that is not writing, which leaves the file alone.     *)
Aside(h) ==
    /\ ~Writing(h)
    /\ \A g \in Handlers \ {h} : pc'[g] = pc[g]
    /\ disk' = disk /\ mutex' = mutex
    /\ buf' = buf \/ buf' = [buf EXCEPT ![h] = EmptyFile]

LEMMA AsideSteps ==
    ASSUME ShapeInv, NEW h \in Handlers,
           \/ \E k \in SettingKeys : \E v \in Choices(k) : Switch(h, k, v)
           \/ \E u \in Patches : Patch(h, u)
           \/ Apply(h) \/ PickSection(h) \/ Reread(h)
    PROVE  Aside(h)
<1> USE DEF ShapeInv, MutexInv, Aside, Writing, Go, fileVars
<1>1. ASSUME NEW k, NEW v, Switch(h, k, v) PROVE Aside(h)
  BY <1>1 DEF Switch, ToStore
<1>2. ASSUME NEW u, Patch(h, u) PROVE Aside(h)
  BY <1>2 DEF Patch, Begins
<1>3. CASE Apply(h)
  <2>1. pc[h] = "apply" /\ \E l : pc' = [pc EXCEPT ![h] = l]
    BY <1>3 DEF Apply, Answer
  <2>2. /\ buf' = buf \/ buf' = [buf EXCEPT ![h] = EmptyFile]
        /\ UNCHANGED <<disk, mutex>>
    BY <1>3 DEF Apply, Answer
  <2> QED
    BY <2>1, <2>2
<1>4. CASE PickSection(h)
  BY <1>4 DEF PickSection
<1>5. CASE Reread(h)
  <2>1. pc[h] = "reread" /\ \E l : pc' = [pc EXCEPT ![h] = l]
    BY <1>5 DEF Reread, Answer
  <2>2. /\ buf' = buf \/ buf' = [buf EXCEPT ![h] = EmptyFile]
        /\ UNCHANGED <<disk, mutex>>
    BY <1>5 DEF Reread, Answer
  <2> QED
    BY <2>1, <2>2
<1> QED
  BY <1>1, <1>2, <1>3, <1>4, <1>5

LEMMA AsideFile ==
    ASSUME ShapeInv, NEW h \in Handlers, Aside(h)
    PROVE  FileOK' /\ Content' = Content
<1>1. mutex \in Handlers => mutex # h
  BY DEF ShapeInv, FileOK, Aside
<1>2. \A g \in Handlers : g # h => buf'[g] = buf[g]
  BY DEF Aside, ShapeInv, MutexInv
<1>3. buf'[h] = buf[h] \/ buf'[h] = EmptyFile
  BY DEF Aside, ShapeInv, MutexInv
<1>4. \A g \in Handlers : Document(buf'[g])
  BY <1>2, <1>3, EmptyFileOK DEF ShapeInv, FileOK
<1>5. mutex \in Handlers => Writing(mutex)'
  BY <1>1 DEF ShapeInv, FileOK, Aside, Writing
<1>6. FileOK'
  BY <1>4, <1>5 DEF ShapeInv, FileOK, Aside, Document
<1>7. Content' = Content
  BY <1>1, <1>2 DEF ShapeInv, FileOK, Aside, Content
<1> QED
  BY <1>6, <1>7

(* What a request holds when it is answered.                                 *)
LEMMA Answered ==
    ASSUME ShapeInv, NEW h \in Handlers, Answer(h)
    PROVE  /\ pc'[h] = "idle" /\ target'[h] = Defaults[TypeKey]
           /\ asked'[h] = NoPatch /\ section'[h] = "pid"
           /\ updates'[h] = NoPatch /\ buf'[h] = EmptyFile
           /\ \A g \in Handlers \ {h} :
                /\ pc'[g] = pc[g] /\ target'[g] = target[g]
                /\ asked'[g] = asked[g] /\ section'[g] = section[g]
                /\ updates'[g] = updates[g] /\ buf'[g] = buf[g]
           /\ UpdatesOK'
           /\ up' = up => RequestsOK'
<1> USE DEF ShapeInv, MutexInv, UpdatesOK, RequestsOK, Storing, Patching
<1>1. /\ pc'[h] = "idle" /\ target'[h] = Defaults[TypeKey]
      /\ asked'[h] = NoPatch /\ section'[h] = "pid"
      /\ updates'[h] = NoPatch /\ buf'[h] = EmptyFile
  BY DEF Answer, Go
<1>2. ASSUME NEW g \in Handlers \ {h}
      PROVE  /\ pc'[g] = pc[g] /\ target'[g] = target[g]
             /\ asked'[g] = asked[g] /\ section'[g] = section[g]
             /\ updates'[g] = updates[g] /\ buf'[g] = buf[g]
  BY DEF Answer, Go
<1>3. UpdatesOK'
  <2>1. DOMAIN updates' = Handlers /\ updates' = [g \in Handlers |-> updates'[g]]
    BY DEF Answer
  <2> QED
    BY <1>1, <1>2, <2>1, EmptyPatch
<1>4. ASSUME up' = up PROVE RequestsOK'
  <2>1. Defaults[TypeKey] \in Types
    BY KeyFacts
  <2>2. /\ target' \in [Handlers -> Types]
        /\ asked' \in [Handlers -> Patches \cup {NoPatch}]
        /\ section' \in [Handlers -> {"pid", "smith"}]
    BY <2>1, EmptyPatch DEF Answer
  <2> QED
    BY <1>1, <1>2, <1>4, <2>2
<1> QED
  BY <1>1, <1>2, <1>3, <1>4

LEMMA ShapeStep == ShapeInv /\ [Next]_vars => ShapeInv'
<1> SUFFICES ASSUME ShapeInv, [Next]_vars PROVE ShapeInv'
  OBVIOUS
<1>0. MutexInv'
  BY MutexInvStep DEF ShapeInv
<1> USE DEF ShapeInv, MutexInv, Go
<1>1. ASSUME NEW h \in Handlers, NEW k \in SettingKeys, NEW v \in Choices(k), Switch(h, k, v)
      PROVE  LiveOK' /\ ParamsOK' /\ FileOK' /\ UpdatesOK' /\ RequestsOK'
  <2> USE <1>1 DEF Switch, ToStore
  <2>1. LiveOK'
    BY DEF LiveOK
  <2>2. ParamsOK'
    BY DEF ParamsOK
  <2>3. FileOK'
    BY AsideSteps, AsideFile
  <2>4. UpdatesOK'
    <3>1. updates'[h] = [x \in {k} |-> v] /\ \A g \in Handlers \ {h} : updates'[g] = updates[g]
      BY DEF UpdatesOK
    <3>2. DOMAIN updates'[h] = {k} /\ updates'[h][k] = v
      BY <3>1
    <3>3. k \in Keys /\ v \in Values(k)
      BY KeyFacts DEF Values
    <3>4. Storing(h)' /\ \A g \in Handlers \ {h} : Storing(g) => Storing(g)'
      BY DEF Storing
    <3>5. DOMAIN updates' = Handlers /\ updates' = [g \in Handlers |-> updates'[g]]
      BY DEF UpdatesOK
    <3> QED
      BY <3>1, <3>2, <3>3, <3>4, <3>5 DEF UpdatesOK
  <2>5. RequestsOK'
    BY DEF RequestsOK
  <2> QED
    BY <2>1, <2>2, <2>3, <2>4, <2>5
<1>2. ASSUME NEW h \in Handlers, NEW u \in Patches, Patch(h, u)
      PROVE  LiveOK' /\ ParamsOK' /\ FileOK' /\ UpdatesOK' /\ RequestsOK'
  <2> USE <1>2 DEF Patch, Begins, liveVars, fileVars
  <2>1. LiveOK' /\ ParamsOK'
    BY DEF LiveOK, ParamsOK
  <2>2. FileOK'
    BY AsideSteps, AsideFile
  <2>3. UpdatesOK'
    BY DEF UpdatesOK, Storing
  <2>4. RequestsOK'
    BY KeyFacts DEF RequestsOK, LiveOK
  <2> QED
    BY <2>1, <2>2, <2>3, <2>4
<1>3. ASSUME NEW h \in Handlers, Apply(h)
      PROVE  LiveOK' /\ ParamsOK' /\ FileOK' /\ UpdatesOK' /\ RequestsOK'
  <2> DEFINE merged == Overlay(asked[h], params[target[h]])
  <2>1. pc[h] = "apply" /\ target[h] \in Types /\ asked[h] \in Patches \cup {NoPatch}
    BY <1>3 DEF Apply, RequestsOK
  <2>2. merged \in [Fields(target[h]) -> Int]
    <3>1. params[target[h]] \in [Fields(target[h]) -> Int]
      BY <2>1 DEF ParamsOK
    <3> QED
      BY <2>1, <3>1, PatchFields DEF Overlay
  <2> HIDE DEF merged
  <2>3. \/ /\ params' = [params EXCEPT ![target[h]] = merged]
           /\ pc' = [pc EXCEPT ![h] = "section"]
           /\ target' = [target EXCEPT ![h] = Defaults[TypeKey]]
           /\ UNCHANGED <<asked, section, updates, buf>>
        \/ Answer(h) /\ UNCHANGED params
    BY <1>3 DEF Apply, merged
  <2>4. UNCHANGED <<up, live>>
    BY <1>3 DEF Apply
  <2>5. LiveOK'
    BY <2>4 DEF LiveOK
  <2>6. ParamsOK'
    BY <2>1, <2>2, <2>3 DEF ParamsOK
  <2>7. FileOK'
    BY <1>3, AsideSteps, AsideFile
  <2>8. CASE Answer(h)
    BY <2>4, <2>5, <2>6, <2>7, <2>8, Answered
  <2>9. CASE /\ pc' = [pc EXCEPT ![h] = "section"]
             /\ target' = [target EXCEPT ![h] = Defaults[TypeKey]]
             /\ UNCHANGED <<asked, section, updates, buf>>
    <3>1. UpdatesOK'
      BY <2>1, <2>9 DEF UpdatesOK, Storing
    <3>2. RequestsOK'
      BY <2>1, <2>4, <2>9, KeyFacts DEF RequestsOK
    <3> QED
      BY <2>5, <2>6, <2>7, <3>1, <3>2
  <2> QED
    BY <2>3, <2>8, <2>9
<1>4. ASSUME NEW h \in Handlers, PickSection(h)
      PROVE  LiveOK' /\ ParamsOK' /\ FileOK' /\ UpdatesOK' /\ RequestsOK'
  <2> USE <1>4 DEF PickSection, liveVars, fileVars
  <2>1. LiveOK' /\ ParamsOK'
    BY DEF LiveOK, ParamsOK
  <2>2. FileOK'
    BY AsideSteps, AsideFile
  <2>3. UpdatesOK'
    BY DEF UpdatesOK, Storing
  <2>4. RequestsOK'
    BY DEF RequestsOK, SectionFor
  <2> QED
    BY <2>1, <2>2, <2>3, <2>4
<1>5. ASSUME NEW h \in Handlers, Reread(h)
      PROVE  LiveOK' /\ ParamsOK' /\ FileOK' /\ UpdatesOK' /\ RequestsOK'
  <2> DEFINE t == live[TypeKey]
             saved == DOMAIN asked[h] \cap Fields(t)
             effective == [k \in {section[h]} \X saved |-> params[t][k[2]]]
  <2>1. pc[h] = "reread" /\ section[h] \in {"pid", "smith"} /\ t \in Types
    BY <1>5, KeyFacts DEF Reread, RequestsOK, LiveOK
  <2>2. UNCHANGED <<up, live, params>>
    BY <1>5 DEF Reread, liveVars
  <2>3. LiveOK' /\ ParamsOK'
    BY <2>2 DEF LiveOK, ParamsOK
  <2>4. FileOK'
    BY <1>5, AsideSteps, AsideFile
  <2>5. CASE Answer(h)
    BY <2>2, <2>3, <2>4, <2>5, Answered
  <2>6. CASE /\ updates' = [updates EXCEPT ![h] = effective]
             /\ pc' = [pc EXCEPT ![h] = "store"]
             /\ asked' = [asked EXCEPT ![h] = NoPatch]
             /\ section' = [section EXCEPT ![h] = "pid"]
             /\ UNCHANGED <<target, buf>>
    <3>1. ASSUME NEW k \in DOMAIN effective
          PROVE  k \in ParamKeys /\ effective[k] \in Int
      <4>1. k[1] = section[h] /\ k[2] \in Fields(t) /\ k = <<k[1], k[2]>>
        OBVIOUS
      <4>2. k \in ParamKeys
        BY <2>1, <4>1 DEF ParamKeys, Fields
      <4>3. params[t][k[2]] \in Int
        BY <2>1, <4>1 DEF ParamsOK
      <4> QED
        BY <4>2, <4>3
    <3> HIDE DEF effective
    <3>2. updates'[h] = effective /\ \A g \in Handlers \ {h} : updates'[g] = updates[g]
      BY <2>6 DEF UpdatesOK
    <3>3. \A k \in DOMAIN effective :
            k \in Keys /\ effective[k] \in Values(k)
      BY <3>1, KeyFacts
    <3>4. Storing(h)' /\ \A g \in Handlers \ {h} : Storing(g) => Storing(g)'
      BY <2>6 DEF Storing
    <3>5. DOMAIN updates' = Handlers /\ updates' = [g \in Handlers |-> updates'[g]]
      BY <2>6 DEF UpdatesOK
    <3>6. UpdatesOK'
      BY <3>2, <3>3, <3>4, <3>5 DEF UpdatesOK
    <3>7. RequestsOK'
      BY <2>1, <2>2, <2>6 DEF RequestsOK
    <3> QED
      BY <2>3, <2>4, <3>6, <3>7
  <2> QED
    BY <1>5, <2>5, <2>6 DEF Reread
<1>6. ASSUME NEW h \in Handlers, ReadFile(h)
      PROVE  LiveOK' /\ ParamsOK' /\ FileOK' /\ UpdatesOK' /\ RequestsOK'
  <2> USE <1>6 DEF ReadFile, liveVars
  <2>1. LiveOK' /\ ParamsOK'
    BY DEF LiveOK, ParamsOK
  <2>2. FileOK'
    BY DEF FileOK, Document, Writing
  <2>3. UpdatesOK'
    BY DEF UpdatesOK, Storing
  <2>4. RequestsOK'
    BY DEF RequestsOK
  <2> QED
    BY <2>1, <2>2, <2>3, <2>4
<1>7. ASSUME NEW h \in Handlers, Truncate(h)
      PROVE  LiveOK' /\ ParamsOK' /\ FileOK' /\ UpdatesOK' /\ RequestsOK'
  <2> USE <1>7 DEF Truncate, liveVars
  <2>1. LiveOK' /\ ParamsOK'
    BY DEF LiveOK, ParamsOK
  <2>2. FileOK'
    BY EmptyFileOK DEF FileOK, Document, Writing
  <2>3. UpdatesOK'
    BY DEF UpdatesOK, Storing
  <2>4. RequestsOK'
    BY DEF RequestsOK
  <2> QED
    BY <2>1, <2>2, <2>3, <2>4
<1>8. ASSUME NEW h \in Handlers, Write(h) \/ StoreFails(h)
      PROVE  LiveOK' /\ ParamsOK' /\ FileOK' /\ UpdatesOK' /\ RequestsOK'
  <2>1. /\ UNCHANGED <<up, live, params>> /\ Answer(h) /\ mutex' = NoHandler
        /\ disk' = disk \/ disk' = Overlay(updates[h], buf[h])
    BY <1>8 DEF Write, StoreFails, liveVars
  <2>2. LiveOK' /\ ParamsOK'
    BY <2>1 DEF LiveOK, ParamsOK
  <2>3. Document(Overlay(updates[h], buf[h]))
    BY DEF Document, Overlay, FileOK, UpdatesOK
  <2>4. Document(disk)'
    BY <2>1, <2>3 DEF FileOK, Document
  <2>5. \A g \in Handlers : Document(buf'[g])
    BY <2>1, Answered, EmptyFileOK DEF FileOK
  <2>6. FileOK'
    BY <2>1, <2>4, <2>5 DEF FileOK, Document
  <2> QED
    BY <2>1, <2>2, <2>6, Answered
<1>9. ASSUME Crash
      PROVE  LiveOK' /\ ParamsOK' /\ FileOK' /\ UpdatesOK' /\ RequestsOK'
  <2> USE <1>9 DEF Crash
  <2>1. LiveOK' /\ ParamsOK'
    <3>1. LiveOK'
      BY KeyFacts DEF LiveOK
    <3>2. ASSUME NEW t \in Types PROVE params'[t] \in [Fields(t) -> Int]
      <4>1. params'[t] = [f \in Fields(t) |-> Defaults[KeyOf(t, f)]]
        BY LimitsIn
      <4> QED
        BY <4>1, LimitKeys, KeyFacts
    <3> QED
      BY <3>1, <3>2 DEF ParamsOK
  <2>2. FileOK'
    BY EmptyFileOK DEF FileOK, Document
  <2>3. UpdatesOK'
    BY EmptyPatch DEF UpdatesOK
  <2>4. RequestsOK'
    BY EmptyPatch, KeyFacts DEF RequestsOK
  <2> QED
    BY <2>1, <2>2, <2>3, <2>4
<1>10. ASSUME Start
       PROVE  LiveOK' /\ ParamsOK' /\ FileOK' /\ UpdatesOK' /\ RequestsOK'
  <2> USE <1>10 DEF Start, requestVars
  <2>0. \A k \in Keys : disk[k] \in Values(k)
    BY DEF FileOK, Document
  <2>1. CASE UNCHANGED <<live, params>>
    BY <2>1 DEF LiveOK, ParamsOK, FileOK, Document, Writing, UpdatesOK, Storing, RequestsOK
  <2>2. CASE /\ live' = [k \in SettingKeys |-> disk[k]]
             /\ params' = [t \in Types |-> ParamsIn(disk, t)]
    <3>1. LiveOK'
      BY <2>0, <2>2, KeyFacts DEF LiveOK, Values
    <3>2. ASSUME NEW t \in Types PROVE params'[t] \in [Fields(t) -> Int]
      <4>1. params'[t] = [f \in Fields(t) |-> disk[KeyOf(t, f)]]
        BY <2>2, LimitsIn
      <4>2. \A f \in Fields(t) : disk[KeyOf(t, f)] \in Int
        BY <2>0, LimitKeys, KeyFacts
      <4> QED
        BY <4>1, <4>2
    <3>3. ParamsOK'
      BY <2>2, <3>2 DEF ParamsOK
    <3> QED
      BY <3>1, <3>3 DEF FileOK, Document, Writing, UpdatesOK, Storing, RequestsOK
  <2> QED
    BY <2>1, <2>2
<1>11. ASSUME UNCHANGED vars
       PROVE  LiveOK' /\ ParamsOK' /\ FileOK' /\ UpdatesOK' /\ RequestsOK'
  BY <1>11 DEF vars, liveVars, fileVars, requestVars, LiveOK, ParamsOK, FileOK, Document,
               Writing, UpdatesOK, Storing, RequestsOK
<1> QED
  BY <1>0, <1>1, <1>2, <1>3, <1>4, <1>5, <1>6, <1>7, <1>8, <1>9, <1>10, <1>11, Steps DEF RequestStep

(* Reading and truncating keep what the file holds, and a write changes just *)
(* the keys it is for.                                                       *)
LEMMA Held ==
    ASSUME ShapeInv, NEW h \in Handlers, ReadFile(h) \/ Truncate(h)
    PROVE  Content' = Content
<1>1. CASE ReadFile(h)
  BY <1>1 DEF ReadFile, Content, ShapeInv, MutexInv
<1>2. CASE Truncate(h)
  <2>1. mutex = h /\ mutex' = mutex /\ buf' = buf
    BY <1>2 DEF Truncate, ShapeInv, MutexInv, Exclusive, Writing
  <2> QED
    BY <2>1 DEF Content
<1> QED
  BY <1>1, <1>2

LEMMA Written ==
    ASSUME ShapeInv, NEW h \in Handlers, Write(h), NEW k \in Keys
    PROVE  Content'[k] = IF k \in DOMAIN updates[h] THEN updates[h][k] ELSE Content[k]
<1>1. mutex = h /\ mutex' = NoHandler
  BY DEF Write, ShapeInv, MutexInv, Exclusive, Writing
<1>2. Content = buf[h] /\ Content' = disk'
  BY <1>1 DEF Content
<1>3. disk'[k] = IF k \in DOMAIN updates[h] THEN updates[h][k] ELSE buf[h][k]
  BY DEF Write, Overlay, ShapeInv, FileOK, Document
<1> QED
  BY <1>2, <1>3

(* The steps of a request that do not write, but for Reread, leave what any  *)
(* request will write as it is, and Reread adds limits of one section.       *)
LEMMA RereadAdds ==
    ASSUME ShapeInv, NEW h \in Handlers, Reread(h)
    PROVE  /\ UNCHANGED <<up, live, params, ghostVars>>
           /\ DOMAIN updates[h] = {}
           /\ \A g \in Handlers \ {h} : updates'[g] = updates[g]
           /\ \A k \in DOMAIN updates'[h] :
                \E f \in DOMAIN asked[h] \cap Fields(live[TypeKey]) :
                   k = <<section[h], f>> /\ updates'[h][k] = params[live[TypeKey]][f]
           /\ \A f \in DOMAIN asked[h] \cap Fields(live[TypeKey]) :
                <<section[h], f>> \in DOMAIN updates'[h]
<1> DEFINE t == live[TypeKey]
           saved == DOMAIN asked[h] \cap Fields(t)
           effective == [k \in {section[h]} \X saved |-> params[t][k[2]]]
<1>1. UNCHANGED <<up, live, params, ghostVars>>
  BY DEF Reread, liveVars
<1>2. DOMAIN updates[h] = {}
  BY DEF Reread, ShapeInv, UpdatesOK, Storing
<1>3. CASE saved = {} /\ Answer(h)
  BY <1>1, <1>2, <1>3, Answered, EmptyPatch
<1>4. CASE updates' = [updates EXCEPT ![h] = effective]
  <2>1. updates'[h] = effective /\ \A g \in Handlers \ {h} : updates'[g] = updates[g]
    BY <1>4 DEF ShapeInv, UpdatesOK
  <2>2. ASSUME NEW k \in DOMAIN effective
        PROVE  \E f \in saved : k = <<section[h], f>> /\ effective[k] = params[t][f]
    <3>1. k[2] \in saved /\ k = <<section[h], k[2]>> /\ effective[k] = params[t][k[2]]
      OBVIOUS
    <3> QED
      BY <3>1
  <2>3. \A f \in saved : <<section[h], f>> \in DOMAIN effective
    OBVIOUS
  <2> HIDE DEF effective, saved
  <2>4. /\ \A k \in DOMAIN updates'[h] :
             \E f \in saved : k = <<section[h], f>> /\ updates'[h][k] = params[t][f]
        /\ \A f \in saved : <<section[h], f>> \in DOMAIN updates'[h]
    BY <2>1, <2>2, <2>3
  <2> QED
    BY <1>1, <1>2, <2>1, <2>4 DEF saved
<1> QED
  BY <1>3, <1>4 DEF Reread

LEMMA OthersAdd ==
    ASSUME ShapeInv, NEW h \in Handlers,
           Apply(h) \/ PickSection(h) \/ \E u \in Patches : Patch(h, u)
    PROVE  /\ UNCHANGED <<up, live, keysInDoubt>>
           /\ DOMAIN updates[h] = {} /\ DOMAIN updates'[h] = {}
           /\ \A g \in Handlers \ {h} : updates'[g] = updates[g]
<1>1. DOMAIN updates[h] = {}
  BY DEF Apply, PickSection, Patch, Begins, ShapeInv, UpdatesOK, Storing
<1>2. UNCHANGED <<up, live, keysInDoubt>>
  BY DEF Apply, Shared, PickSection, Patch, liveVars, ghostVars
<1>3. updates' = updates \/ Answer(h)
  BY DEF Apply, PickSection, Patch
<1> QED
  BY <1>1, <1>2, <1>3, Answered, EmptyPatch

-----------------------------------------------------------------------------
(* The settings.  A setting that is not in doubt is live as the file holds   *)
(* it, or the request that changed it last has still to write it.            *)
SettingKept(k) ==
    k \notin keysInDoubt =>
      /\ \A h \in Handlers : k \in DOMAIN updates[h] => updates[h][k] = live[k]
      /\ up = "up" =>
           \/ Content[k] = live[k]
           \/ \E h \in Handlers : k \in DOMAIN updates[h]

SettingsInv == ShapeInv /\ \A k \in SettingKeys : SettingKept(k)

LEMMA InitSettings == Init => SettingsInv
<1> SUFFICES ASSUME Init PROVE SettingsInv
  OBVIOUS
<1>1. ShapeInv
  BY InitShape
<1>2. ASSUME NEW k \in SettingKeys PROVE SettingKept(k)
  <2>1. Content = disk /\ live[k] = disk[k]
    BY DEF Init, Content
  <2>2. \A h \in Handlers : DOMAIN updates[h] = {}
    BY EmptyPatch DEF Init
  <2> QED
    BY <2>1, <2>2 DEF SettingKept
<1> QED
  BY <1>1, <1>2 DEF SettingsInv

LEMMA SettingsStep == SettingsInv /\ [Next]_vars => SettingsInv'
<1> SUFFICES ASSUME SettingsInv, [Next]_vars PROVE SettingsInv'
  OBVIOUS
<1>0. ShapeInv /\ ShapeInv'
  BY ShapeStep DEF SettingsInv
<1> SUFFICES ASSUME NEW k \in SettingKeys PROVE SettingKept(k)'
  BY <1>0 DEF SettingsInv
<1>a. SettingKept(k) /\ k \in Keys /\ k \notin ParamKeys
  BY KeyFacts DEF SettingsInv
<1>1. ASSUME NEW h \in Handlers, NEW j \in SettingKeys, NEW v \in Choices(j), Switch(h, j, v)
      PROVE  SettingKept(k)'
  <2>1. /\ up' = up /\ Content' = Content
        /\ live'[j] = v /\ (j # k => live'[k] = live[k])
    <3>1. Content' = Content
      BY <1>0, <1>1, AsideSteps, AsideFile
    <3> QED
      BY <1>0, <1>1, <3>1 DEF Switch, ToStore, ShapeInv, LiveOK
  <2>2. /\ DOMAIN updates[h] = {}
        /\ DOMAIN updates'[h] = {j} /\ updates'[h][j] = v
        /\ \A g \in Handlers \ {h} : updates'[g] = updates[g]
    <3>1. updates'[h] = [x \in {j} |-> v] /\ \A g \in Handlers \ {h} : updates'[g] = updates[g]
      BY <1>0, <1>1 DEF Switch, ToStore, ShapeInv, UpdatesOK
    <3>2. DOMAIN updates[h] = {}
      BY <1>0, <1>1 DEF Switch, ShapeInv, UpdatesOK, Storing
    <3> QED
      BY <3>1, <3>2
  <2>3. keysInDoubt' = IF \E g \in Handlers : j \in DOMAIN updates[g]
                       THEN keysInDoubt \cup {j} ELSE keysInDoubt
    BY <1>1 DEF Switch, ToStore
  <2>4. CASE j # k
    BY <1>a, <2>1, <2>2, <2>3, <2>4 DEF SettingKept
  <2>5. CASE j = k
    <3>1. ASSUME k \notin keysInDoubt', NEW g \in Handlers, k \in DOMAIN updates'[g] PROVE g = h
      BY <2>2, <2>3, <2>5, <3>1
    <3> QED
      BY <2>1, <2>2, <2>5, <3>1 DEF SettingKept
  <2> QED
    BY <2>4, <2>5
<1>2. ASSUME NEW h \in Handlers,
             Apply(h) \/ PickSection(h) \/ \E u \in Patches : Patch(h, u)
      PROVE  SettingKept(k)'
  <2>1. Content' = Content
    BY <1>0, <1>2, AsideSteps, AsideFile
  <2> QED
    BY <1>0, <1>2, <1>a, <2>1, OthersAdd DEF SettingKept
<1>3. ASSUME NEW h \in Handlers, Reread(h) PROVE SettingKept(k)'
  <2>1. Content' = Content
    BY <1>0, <1>3, AsideSteps, AsideFile
  <2>2. k \notin DOMAIN updates'[h]
    <3>1. section[h] \in {"pid", "smith"} /\ \A f \in Fields(live[TypeKey]) : f \in {"min", "max"}
      BY <1>0 DEF ShapeInv, RequestsOK, Fields
    <3>2. \A j \in DOMAIN updates'[h] : j \in ParamKeys
      BY <1>0, <1>3, <3>1, RereadAdds DEF ParamKeys
    <3> QED
      BY <1>a, <3>2
  <2> QED
    BY <1>0, <1>3, <1>a, <2>1, <2>2, RereadAdds DEF SettingKept, ghostVars
<1>4. ASSUME NEW h \in Handlers, ReadFile(h) \/ Truncate(h) PROVE SettingKept(k)'
  <2>1. UNCHANGED <<up, live, keysInDoubt, updates>>
    BY <1>4 DEF ReadFile, Truncate, liveVars, ghostVars
  <2> QED
    BY <1>0, <1>4, <1>a, <2>1, Held DEF SettingKept
<1>5. ASSUME NEW h \in Handlers, Write(h) PROVE SettingKept(k)'
  <2>1. UNCHANGED <<up, live, keysInDoubt>> /\ Answer(h)
    BY <1>5 DEF Write, liveVars, ghostVars
  <2>2. DOMAIN updates'[h] = {} /\ \A g \in Handlers \ {h} : updates'[g] = updates[g]
    BY <1>0, <2>1, Answered, EmptyPatch
  <2>3. Content'[k] = IF k \in DOMAIN updates[h] THEN updates[h][k] ELSE Content[k]
    BY <1>0, <1>5, <1>a, Written
  <2> QED
    BY <1>a, <2>1, <2>2, <2>3 DEF SettingKept
<1>6. ASSUME NEW h \in Handlers, StoreFails(h) PROVE SettingKept(k)'
  BY <1>6 DEF StoreFails, SettingKept
<1>7. CASE Crash
  <2>1. \A g \in Handlers : DOMAIN updates'[g] = {}
    BY <1>7, EmptyPatch DEF Crash
  <2> QED
    BY <1>7, <2>1 DEF Crash, SettingKept
<1>8. CASE Start
  <2>1. \A g \in Handlers : DOMAIN updates'[g] = {}
    BY <1>0, <1>8 DEF Start, requestVars, ShapeInv, UpdatesOK, RequestsOK, Storing
  <2>2. mutex = NoHandler /\ mutex' = mutex /\ disk' = disk
    BY <1>0, <1>8 DEF Start, ShapeInv, FileOK, RequestsOK, Writing
  <2>3. up' = "up" => live'[k] = disk[k]
    BY <1>8 DEF Start
  <2> QED
    BY <2>1, <2>2, <2>3 DEF SettingKept, Content
<1>9. CASE UNCHANGED vars
  BY <1>9, <1>a DEF vars, liveVars, fileVars, ghostVars, requestVars, SettingKept, Content
<1> QED
  BY <1>1, <1>2, <1>3, <1>4, <1>5, <1>6, <1>7, <1>8, <1>9, Steps DEF RequestStep

LEMMA QuietContent ==
    ASSUME ShapeInv, Quiet
    PROVE  Content = disk /\ \A h \in Handlers : DOMAIN updates[h] = {}
BY DEF Quiet, Content, ShapeInv, FileOK, UpdatesOK, Writing, Storing

(* When the requests have been answered, a restart takes up the controller   *)
(* type, the queue type and the query that are live: whatever requests ran   *)
(* at once, the crashes in the middle of a write and the restarts before,    *)
(* but for a setting that two requests were changing at once (they can       *)
(* change it in one order and write it in the other) and for failed writes.  *)
THEOREM SettingsKept == Spec => []SettingsPersisted
<1>1. SettingsInv => SettingsPersisted
  <2> SUFFICES ASSUME SettingsInv, Quiet, NEW k \in SettingKeys \ keysInDoubt
               PROVE  disk[k] = live[k]
    BY DEF SettingsPersisted
  <2> QED
    BY QuietContent DEF SettingsInv, SettingKept, Quiet
<1> QED
  BY InitSettings, SettingsStep, <1>1, PTL DEF Spec

-----------------------------------------------------------------------------
(* PATCHes.  As long as some controller is not in doubt, at most one PATCH   *)
(* is open, and while it is at work it finds the same controller active      *)
(* again; once it has changed the limits, the other controllers of the       *)
(* section are in doubt.                                                     *)
Clean == typesInDoubt # Types

DoubtOK ==
    /\ typesInDoubt \subseteq Types
    /\ "smith" \in typesInDoubt => ~Clean
    /\ Clean =>
         /\ \A g, h \in Handlers : PatchOpen(g) /\ PatchOpen(h) => g = h
         /\ \A h \in Handlers :
              /\ pc[h] = "apply" => target[h] = live[TypeKey]
              /\ pc[h] = "reread" => section[h] = SectionFor(live[TypeKey])
              /\ pc[h] \in {"section", "reread"} =>
                   Sharers(live[TypeKey]) \ {live[TypeKey]} \subseteq typesInDoubt

PatchInv == ShapeInv /\ DoubtOK

LEMMA InitPatch == Init => PatchInv
<1> SUFFICES ASSUME Init PROVE PatchInv
  OBVIOUS
<1>1. \A h \in Handlers : ~PatchOpen(h)
  BY EmptyPatch DEF Init, PatchOpen, Patching
<1> QED
  BY <1>1, InitShape DEF Init, PatchInv, DoubtOK

(* smith is alone in its section: only a request in doubt of all controllers *)
(* makes it doubtful.                                                        *)
LEMMA SharersFacts ==
    /\ \A t : Sharers(t) \subseteq Types
    /\ \A t \in Types : "smith" \in Sharers(t) => t = "smith"
    /\ \A s, t \in Types : SectionFor(s) = SectionFor(t) => s \in Sharers(t)
BY DEF Sharers, SectionFor, Types

LEMMA PatchStep == PatchInv /\ [Next]_vars => PatchInv'
<1> SUFFICES ASSUME PatchInv, [Next]_vars PROVE DoubtOK'
  BY ShapeStep DEF PatchInv
<1>0. ShapeInv /\ ShapeInv' /\ DoubtOK
  BY ShapeStep DEF PatchInv
<1> USE DEF Go, Clean
<1>1. ASSUME NEW h \in Handlers, NEW k \in SettingKeys, NEW v \in Choices(k), Switch(h, k, v)
      PROVE  DoubtOK'
  <2>1. /\ updates'[h] = [x \in {k} |-> v] /\ k \notin ParamKeys
        /\ \A g \in Handlers \ {h} : updates'[g] = updates[g] /\ pc'[g] = pc[g]
        /\ pc[h] = "idle" /\ pc'[h] = "store"
        /\ UNCHANGED <<target, section>>
    BY <1>0, <1>1, KeyFacts DEF Switch, ToStore, ShapeInv, MutexInv, UpdatesOK
  <2>2. DOMAIN updates'[h] \cap ParamKeys = {}
    BY <2>1
  <2>3. \A g \in Handlers : PatchOpen(g)' => PatchOpen(g)
    BY <2>1, <2>2 DEF PatchOpen, Patching
  <2>4. typesInDoubt' = typesInDoubt \/ typesInDoubt' = Types
    BY <1>1 DEF Switch
  <2>5. ASSUME Clean', NEW g \in Handlers, Patching(g)' PROVE live'[TypeKey] = live[TypeKey]
    <3>1. Patching(g)
      BY <2>1, <2>5 DEF Patching
    <3>2. k # TypeKey
      BY <1>1, <2>5, <3>1 DEF Switch
    <3> QED
      BY <1>0, <1>1, <3>2 DEF Switch, ShapeInv, LiveOK
  <2>6. ASSUME Clean', NEW g \in Handlers, Patching(g)'
        PROVE  pc'[g] = pc[g] /\ Clean /\ typesInDoubt' = typesInDoubt
    BY <2>1, <2>4, <2>6 DEF Patching
  <2> QED
    BY <1>0, <2>1, <2>3, <2>4, <2>5, <2>6 DEF DoubtOK, Patching
<1>2. ASSUME NEW h \in Handlers, NEW u \in Patches, Patch(h, u)
      PROVE  DoubtOK'
  <2>1. /\ pc[h] = "idle" /\ pc'[h] = "apply" /\ target'[h] = live[TypeKey]
        /\ UNCHANGED <<live, section, updates>>
        /\ \A g \in Handlers \ {h} : pc'[g] = pc[g] /\ target'[g] = target[g]
    BY <1>0, <1>2 DEF Patch, Begins, liveVars, ShapeInv, MutexInv, RequestsOK
  <2>2. typesInDoubt' = IF \E g \in Handlers : PatchOpen(g) THEN Types ELSE typesInDoubt
    BY <1>2 DEF Patch
  <2>3. \A g \in Handlers \ {h} : PatchOpen(g)' => PatchOpen(g)
    BY <2>1 DEF PatchOpen, Patching
  <2> QED
    BY <1>0, <2>1, <2>2, <2>3 DEF DoubtOK
<1>3. ASSUME NEW h \in Handlers, Apply(h) PROVE DoubtOK'
  <2>1. pc[h] = "apply" /\ live' = live /\ target[h] \in Types /\ PatchOpen(h)
    BY <1>0, <1>3 DEF Apply, ShapeInv, RequestsOK, PatchOpen, Patching
  <2>2. CASE Answer(h) /\ UNCHANGED ghostVars
    <3>1. \A g \in Handlers : PatchOpen(g)' => PatchOpen(g)
      BY <1>0, <2>1, <2>2, Answered, EmptyPatch DEF PatchOpen, Patching
    <3> QED
      BY <1>0, <2>1, <2>2, <3>1, Answered DEF DoubtOK, ghostVars
  <2>3. CASE /\ pc' = [pc EXCEPT ![h] = "section"]
             /\ Shared(target[h])
             /\ target' = [target EXCEPT ![h] = Defaults[TypeKey]]
             /\ UNCHANGED <<section, updates>>
    <3>1. /\ pc'[h] = "section"
          /\ \A g \in Handlers \ {h} : pc'[g] = pc[g] /\ target'[g] = target[g]
      BY <1>0, <2>3 DEF ShapeInv, MutexInv, RequestsOK
    <3>2. \A g \in Handlers : PatchOpen(g)' => PatchOpen(g)
      BY <2>1, <2>3, <3>1 DEF PatchOpen, Patching
    <3>3. typesInDoubt' = typesInDoubt \cup (Sharers(target[h]) \ {target[h]})
      BY <2>3 DEF Shared
    <3>4. Clean' => Clean
      BY <1>0, <3>3, SharersFacts DEF DoubtOK
    <3>5. Clean => target[h] = live[TypeKey]
      BY <1>0, <2>1 DEF DoubtOK
    <3>6. "smith" \in typesInDoubt' => "smith" \in typesInDoubt
      BY <2>1, <3>3, SharersFacts
    <3>7. typesInDoubt' \subseteq Types /\ ("smith" \in typesInDoubt' => ~Clean')
      BY <1>0, <3>3, <3>6, SharersFacts DEF DoubtOK
    <3>8. ASSUME Clean', NEW g \in Handlers
          PROVE  /\ pc'[g] = "apply" => target'[g] = live'[TypeKey]
                 /\ pc'[g] = "reread" => section'[g] = SectionFor(live'[TypeKey])
                 /\ pc'[g] \in {"section", "reread"} =>
                      Sharers(live'[TypeKey]) \ {live'[TypeKey]} \subseteq typesInDoubt'
      <4>1. CASE g = h
        BY <2>1, <3>1, <3>3, <3>4, <3>5, <3>8, <4>1
      <4>2. CASE g # h
        BY <1>0, <2>1, <2>3, <3>1, <3>3, <3>4, <3>8, <4>2 DEF DoubtOK
      <4> QED
        BY <4>1, <4>2
    <3> QED
      BY <1>0, <3>2, <3>4, <3>7, <3>8 DEF DoubtOK
  <2> QED
    BY <1>3, <2>2, <2>3 DEF Apply
<1>4. ASSUME NEW h \in Handlers, PickSection(h) PROVE DoubtOK'
  <2>1. /\ pc[h] = "section" /\ pc'[h] = "reread" /\ section'[h] = SectionFor(live[TypeKey])
        /\ \A g \in Handlers \ {h} : pc'[g] = pc[g] /\ section'[g] = section[g]
        /\ UNCHANGED <<live, target, updates, typesInDoubt>>
    BY <1>0, <1>4 DEF PickSection, liveVars, ghostVars, ShapeInv, MutexInv, RequestsOK
  <2>2. \A g \in Handlers : PatchOpen(g)' => PatchOpen(g)
    BY <2>1 DEF PatchOpen, Patching
  <2> QED
    BY <1>0, <2>1, <2>2 DEF DoubtOK
<1>5. ASSUME NEW h \in Handlers, Reread(h) PROVE DoubtOK'
  <2>1. pc[h] = "reread" /\ PatchOpen(h) /\ UNCHANGED <<live, typesInDoubt>>
    BY <1>5 DEF Reread, PatchOpen, Patching, liveVars, ghostVars
  <2>2. /\ pc'[h] \in {"idle", "store"}
        /\ \A g \in Handlers \ {h} : /\ pc'[g] = pc[g] /\ target'[g] = target[g]
                                     /\ section'[g] = section[g] /\ updates'[g] = updates[g]
    <3>1. CASE Answer(h)
      BY <1>0, <3>1, Answered
    <3>2. CASE /\ pc' = [pc EXCEPT ![h] = "store"] /\ UNCHANGED target
               /\ section' = [section EXCEPT ![h] = "pid"]
      BY <1>0, <1>5, <3>2, RereadAdds DEF ShapeInv, MutexInv, RequestsOK
    <3> QED
      BY <1>5, <3>1, <3>2 DEF Reread
  <2>3. \A g \in Handlers : PatchOpen(g)' => PatchOpen(g)
    BY <2>1, <2>2 DEF PatchOpen, Patching
  <2> QED
    BY <1>0, <2>1, <2>2, <2>3 DEF DoubtOK
<1>6. ASSUME NEW h \in Handlers, ReadFile(h) \/ Truncate(h) PROVE DoubtOK'
  <2>1. /\ pc[h] \in {"store", "truncate"} /\ pc'[h] \in {"truncate", "write"}
        /\ \A g \in Handlers \ {h} : pc'[g] = pc[g]
        /\ UNCHANGED <<live, target, section, updates, typesInDoubt>>
    BY <1>0, <1>6 DEF ReadFile, Truncate, liveVars, ghostVars, ShapeInv, MutexInv
  <2>2. \A g \in Handlers : PatchOpen(g)' => PatchOpen(g)
    BY <2>1 DEF PatchOpen, Patching
  <2> QED
    BY <1>0, <2>1, <2>2 DEF DoubtOK
<1>7. ASSUME NEW h \in Handlers, Write(h) PROVE DoubtOK'
  <2>1. Answer(h) /\ UNCHANGED <<live, typesInDoubt>> /\ up' = up
    BY <1>7 DEF Write, liveVars, ghostVars
  <2>2. \A g \in Handlers : PatchOpen(g)' => PatchOpen(g)
    BY <1>0, <2>1, Answered, EmptyPatch DEF PatchOpen, Patching
  <2> QED
    BY <1>0, <2>1, <2>2, Answered DEF DoubtOK
<1>8. ASSUME NEW h \in Handlers, StoreFails(h) PROVE DoubtOK'
  BY <1>8 DEF StoreFails, DoubtOK
<1>9. CASE Crash
  <2>1. \A g \in Handlers : ~PatchOpen(g)' /\ pc'[g] = "idle"
    BY <1>9, EmptyPatch DEF Crash, PatchOpen, Patching
  <2> QED
    BY <1>0, <1>9, <2>1 DEF Crash, ghostVars, DoubtOK
<1>10. CASE Start
  <2>1. \A g \in Handlers : pc'[g] = "idle" /\ ~PatchOpen(g)'
    BY <1>0, <1>10 DEF Start, requestVars, ShapeInv, UpdatesOK, RequestsOK, Storing, PatchOpen, Patching
  <2>2. typesInDoubt' = typesInDoubt \/ typesInDoubt' = {}
    BY <1>10 DEF Start, ghostVars
  <2> QED
    BY <1>0, <2>1, <2>2 DEF DoubtOK
<1>11. CASE UNCHANGED vars
  BY <1>0, <1>11 DEF vars, liveVars, ghostVars, requestVars, DoubtOK, PatchOpen, Patching
<1> QED
  BY <1>1, <1>2, <1>3, <1>4, <1>5, <1>6, <1>7, <1>8, <1>9, <1>10, <1>11, Steps DEF RequestStep

-----------------------------------------------------------------------------
(* The limits.  A request that has changed a limit and has not yet read it   *)
(* again to write it:                                                        *)
Asks(h, t, f) ==
    /\ pc[h] \in {"section", "reread"}
    /\ live[TypeKey] = t /\ f \in DOMAIN asked[h]

(* A controller that is not in doubt has a limit as the file holds it, or a  *)
(* request has still to write it.                                            *)
LimitKept(t, f) ==
    t \notin typesInDoubt =>
      /\ \A h \in Handlers :
           KeyOf(t, f) \in DOMAIN updates[h] => updates[h][KeyOf(t, f)] = params[t][f]
      /\ up = "up" =>
           \/ Content[KeyOf(t, f)] = params[t][f]
           \/ \E h \in Handlers : KeyOf(t, f) \in DOMAIN updates[h] \/ Asks(h, t, f)

LimitsInv ==
    /\ PatchInv
    /\ \A t \in Types : \A f \in Fields(t) : LimitKept(t, f)

LEMMA InitLimits == Init => LimitsInv
<1> SUFFICES ASSUME Init PROVE LimitsInv
  OBVIOUS
<1>1. ASSUME NEW t \in Types, NEW f \in Fields(t) PROVE LimitKept(t, f)
  <2>1. Content = disk
    BY DEF Init, Content
  <2>2. params[t] = [g \in Fields(t) |-> disk[KeyOf(t, g)]]
    BY LimitsIn DEF Init
  <2>3. \A h \in Handlers : DOMAIN updates[h] = {}
    BY EmptyPatch DEF Init
  <2> QED
    BY <2>1, <2>2, <2>3 DEF LimitKept
<1> QED
  BY <1>1, InitPatch DEF LimitsInv

LEMMA LimitStep == LimitsInv /\ [Next]_vars => LimitsInv'
<1> SUFFICES ASSUME LimitsInv, [Next]_vars, NEW t \in Types, NEW f \in Fields(t)
             PROVE  LimitKept(t, f)'
  BY PatchStep DEF LimitsInv
<1>0. ShapeInv /\ ShapeInv' /\ DoubtOK
  BY ShapeStep DEF LimitsInv, PatchInv
<1> DEFINE k == KeyOf(t, f)
<1>a. LimitKept(t, f) /\ k \in ParamKeys /\ k \in Keys
  BY KeyFacts, LimitKeys DEF LimitsInv
<1>b. k \notin SettingKeys
  BY <1>a, KeyFacts
<1> HIDE DEF k
<1>c. KeyOf(t, f) = k
  BY DEF k
<1>d. t \notin typesInDoubt => Clean
  BY DEF Clean
<1> USE <1>c DEF ShapeInv, MutexInv, Go
<1>1. ASSUME NEW h \in Handlers, NEW j \in SettingKeys, NEW v \in Choices(j), Switch(h, j, v)
      PROVE  LimitKept(t, f)'
  <2>1. Content' = Content
    BY <1>0, <1>1, AsideSteps, AsideFile
  <2>2. /\ UNCHANGED <<up, params, asked>>
        /\ pc[h] = "idle" /\ pc' = [pc EXCEPT ![h] = "store"]
        /\ updates' = [updates EXCEPT ![h] = [x \in {j} |-> v]]
    BY <1>1 DEF Switch, ToStore
  <2>3. DOMAIN updates[h] = {} /\ k \notin DOMAIN updates'[h]
    <3>1. DOMAIN updates[h] = {}
      BY <1>0, <2>2 DEF UpdatesOK, Storing
    <3>2. updates'[h] = [x \in {j} |-> v]
      BY <1>0, <2>2 DEF UpdatesOK
    <3> QED
      BY <1>b, <3>1, <3>2
  <2>4. \A g \in Handlers \ {h} : updates'[g] = updates[g]
    BY <1>0, <2>2 DEF UpdatesOK
  <2>5. ASSUME t \notin typesInDoubt'
        PROVE  t \notin typesInDoubt /\ \A g \in Handlers : Asks(g, t, f) => Asks(g, t, f)'
    <3>1. t \notin typesInDoubt /\ (j # TypeKey \/ \A g \in Handlers : ~Patching(g))
      BY <1>1, <2>5 DEF Switch
    <3>2. j # TypeKey => live'[TypeKey] = live[TypeKey]
      BY <1>0, <1>1 DEF Switch, LiveOK
    <3> QED
      BY <1>0, <2>2, <3>1, <3>2 DEF Asks, Patching
  <2> QED
    BY <1>a, <2>1, <2>2, <2>3, <2>4, <2>5 DEF LimitKept
<1>2. ASSUME NEW h \in Handlers, PickSection(h) \/ \E u \in Patches : Patch(h, u)
      PROVE  LimitKept(t, f)'
  <2>1. Content' = Content
    BY <1>0, <1>2, AsideSteps, AsideFile
  <2>2. UNCHANGED <<params, live>> /\ (typesInDoubt' = typesInDoubt \/ typesInDoubt' = Types)
    BY <1>2 DEF PickSection, Patch, liveVars, ghostVars
  <2>3. \A g \in Handlers : Asks(g, t, f) => Asks(g, t, f)'
    <3>1. CASE PickSection(h)
      BY <1>0, <2>2, <3>1 DEF PickSection, Asks
    <3>2. ASSUME NEW u \in Patches, Patch(h, u) PROVE \A g \in Handlers : Asks(g, t, f) => Asks(g, t, f)'
      BY <1>0, <2>2, <3>2 DEF Patch, Begins, RequestsOK, Asks
    <3> QED
      BY <1>2, <3>1, <3>2
  <2> QED
    BY <1>0, <1>2, <1>a, <2>1, <2>2, <2>3, OthersAdd DEF LimitKept
<1>3. ASSUME NEW h \in Handlers, Apply(h) PROVE LimitKept(t, f)'
  <2> DEFINE s == target[h]
             merged == Overlay(asked[h], params[s])
  <2>1. Content' = Content
    BY <1>0, <1>3, AsideSteps, AsideFile
  <2>2. pc[h] = "apply" /\ s \in Types /\ live' = live
    BY <1>0, <1>3 DEF Apply, RequestsOK
  <2>3. ~Asks(h, t, f)
    BY <2>2 DEF Asks
  <2>4. CASE Answer(h) /\ UNCHANGED <<params, ghostVars>>
    <3>1. \A g \in Handlers : Asks(g, t, f) => Asks(g, t, f)'
      BY <1>0, <2>2, <2>3, <2>4, Answered DEF Asks
    <3> QED
      BY <1>0, <1>3, <1>a, <2>1, <2>4, <3>1, OthersAdd DEF LimitKept, ghostVars
  <2>5. CASE /\ params' = [params EXCEPT ![s] = merged]
             /\ Shared(s)
             /\ pc' = [pc EXCEPT ![h] = "section"]
             /\ UNCHANGED <<asked, section, updates, buf>>
    <3> SUFFICES ASSUME t \notin typesInDoubt' PROVE LimitKept(t, f)'
      BY DEF LimitKept
    <3>0. t \notin typesInDoubt
      BY <2>5 DEF Shared
    <3>1. \A g \in Handlers : Asks(g, t, f) => Asks(g, t, f)'
      BY <1>0, <2>2, <2>5 DEF Asks
    <3>2. CASE s = t /\ f \in DOMAIN asked[h]
      <4>0. live[TypeKey] = s
        BY <1>0, <1>d, <2>2, <3>0 DEF DoubtOK
      <4>1. Asks(h, t, f)'
        BY <1>0, <2>2, <2>5, <3>2, <4>0 DEF Asks
      <4>2. \A g \in Handlers : k \notin DOMAIN updates'[g]
        <5>1. ASSUME NEW g \in Handlers, k \in DOMAIN updates'[g] PROVE FALSE
          <6>1. PatchOpen(g) /\ PatchOpen(h)
            BY <1>a, <2>2, <2>5, <5>1 DEF PatchOpen, Patching
          <6>2. g = h
            BY <1>0, <1>d, <3>0, <6>1 DEF DoubtOK
          <6> QED
            BY <1>0, <1>3, <5>1, <6>2, OthersAdd
        <5> QED
          BY <5>1
      <4> QED
        BY <4>1, <4>2 DEF LimitKept
    <3>3. CASE ~(s = t /\ f \in DOMAIN asked[h])
      <4>1. params'[t][f] = params[t][f]
        <5>1. CASE s # t
          BY <1>0, <2>5, <5>1 DEF ParamsOK
        <5>2. CASE s = t /\ f \notin DOMAIN asked[h]
          BY <1>0, <2>5, <5>2 DEF ParamsOK, Overlay
        <5> QED
          BY <3>3, <5>1, <5>2
      <4> QED
        BY <1>0, <1>3, <1>a, <2>1, <2>5, <3>0, <3>1, <4>1, OthersAdd DEF LimitKept
    <3> QED
      BY <3>2, <3>3
  <2> QED
    BY <1>3, <2>4, <2>5 DEF Apply
<1>4. ASSUME NEW h \in Handlers, Reread(h) PROVE LimitKept(t, f)'
  <2> DEFINE s == live[TypeKey]
  <2> SUFFICES ASSUME t \notin typesInDoubt' PROVE LimitKept(t, f)'
    BY DEF LimitKept
  <2>0. t \notin typesInDoubt
    BY <1>0, <1>4, RereadAdds DEF ghostVars
  <2>1. Content' = Content
    BY <1>0, <1>4, AsideSteps, AsideFile
  <2>2. pc[h] = "reread" /\ section[h] = SectionFor(s) /\ s \in Types
    BY <1>0, <1>4, <1>d, <2>0, KeyFacts DEF Reread, DoubtOK, LiveOK
  <2>3. k \in DOMAIN updates'[h] => updates'[h][k] = params[t][f]
    <3>1. SUFFICES ASSUME k \in DOMAIN updates'[h] PROVE updates'[h][k] = params[t][f]
      OBVIOUS
    <3>2. PICK g \in Fields(s) : k = KeyOf(s, g) /\ updates'[h][k] = params[s][g]
      BY <1>0, <1>4, <2>2, <3>1, RereadAdds DEF KeyOf
    <3>3. SectionFor(t) = SectionFor(s) /\ f = g
      BY <3>2, LimitKeys
    <3>4. t \in Sharers(s)
      BY <2>2, <3>3, SharersFacts
    <3>5. t = s
      BY <1>0, <1>d, <2>0, <2>2, <3>4 DEF DoubtOK
    <3> QED
      BY <3>2, <3>3, <3>5
  <2>4. Asks(h, t, f) => k \in DOMAIN updates'[h]
    BY <1>0, <1>4, <2>2, RereadAdds DEF Asks, KeyOf
  <2>5. ASSUME NEW g \in Handlers \ {h} PROVE Asks(g, t, f) <=> Asks(g, t, f)'
    <3>1. pc'[g] = pc[g] /\ asked'[g] = asked[g]
      <4>1. CASE Answer(h)
        BY <1>0, <4>1, Answered
      <4>2. CASE pc' = [pc EXCEPT ![h] = "store"] /\ asked' = [asked EXCEPT ![h] = NoPatch]
        BY <1>0, <4>2 DEF RequestsOK
      <4> QED
        BY <1>4, <4>1, <4>2 DEF Reread
    <3> QED
      BY <1>0, <1>4, <3>1, RereadAdds DEF Asks
  <2> QED
    BY <1>0, <1>4, <1>a, <2>0, <2>1, <2>3, <2>4, <2>5, RereadAdds DEF LimitKept
<1>5. ASSUME NEW h \in Handlers, ReadFile(h) \/ Truncate(h) PROVE LimitKept(t, f)'
  <2>1. UNCHANGED <<up, params, live, typesInDoubt, updates>>
    BY <1>5 DEF ReadFile, Truncate, liveVars, ghostVars
  <2>2. \A g \in Handlers : Asks(g, t, f) <=> Asks(g, t, f)'
    BY <1>0, <1>5, <2>1 DEF ReadFile, Truncate, Asks
  <2> QED
    BY <1>0, <1>5, <1>a, <2>1, <2>2, Held DEF LimitKept
<1>6. ASSUME NEW h \in Handlers, Write(h) PROVE LimitKept(t, f)'
  <2>1. UNCHANGED <<up, live, params, typesInDoubt>> /\ Answer(h) /\ pc[h] = "write"
    BY <1>6 DEF Write, liveVars, ghostVars
  <2>2. DOMAIN updates'[h] = {} /\ \A g \in Handlers \ {h} : updates'[g] = updates[g]
    BY <1>0, <2>1, Answered, EmptyPatch
  <2>3. \A g \in Handlers : Asks(g, t, f) => Asks(g, t, f)'
    BY <1>0, <2>1, Answered DEF Asks
  <2>4. Content'[k] = IF k \in DOMAIN updates[h] THEN updates[h][k] ELSE Content[k]
    BY <1>0, <1>6, <1>a, Written
  <2> QED
    BY <1>a, <2>1, <2>2, <2>3, <2>4 DEF LimitKept
<1>7. ASSUME NEW h \in Handlers, StoreFails(h) PROVE LimitKept(t, f)'
  BY <1>7 DEF StoreFails, LimitKept
<1>8. CASE Crash
  <2>1. \A g \in Handlers : DOMAIN updates'[g] = {}
    BY <1>8, EmptyPatch DEF Crash
  <2> QED
    BY <1>8, <2>1 DEF Crash, LimitKept
<1>9. CASE Start
  <2>1. \A g \in Handlers : DOMAIN updates'[g] = {}
    BY <1>0, <1>9 DEF Start, requestVars, UpdatesOK, RequestsOK, Storing
  <2>2. mutex = NoHandler /\ mutex' = mutex /\ disk' = disk
    BY <1>0, <1>9 DEF Start, FileOK, RequestsOK, Writing
  <2>3. up' = "up" => params'[t][f] = disk[k]
    BY <1>9, LimitsIn DEF Start
  <2> QED
    BY <2>1, <2>2, <2>3 DEF LimitKept, Content
<1>10. CASE UNCHANGED vars
  BY <1>10, <1>a DEF vars, liveVars, fileVars, ghostVars, requestVars, LimitKept, Content, Asks
<1> QED
  BY <1>1, <1>2, <1>3, <1>4, <1>5, <1>6, <1>7, <1>8, <1>9, <1>10, Steps DEF RequestStep

(* When the requests have been answered, a restart gives every controller    *)
(* the limits it has now, unless another controller of its section accepted  *)
(* a PATCH since the program started, a PATCH overlapped another one or a    *)
(* switch of controllers, or a write failed: pid, pidff and step are written *)
(* to one section, and Update finds the controller again between the patch   *)
(* and the write.                                                            *)
THEOREM ParamsKept == Spec => []ParamsPersisted
<1>1. LimitsInv => ParamsPersisted
  <2> SUFFICES ASSUME LimitsInv, Quiet, NEW t \in Types \ typesInDoubt
               PROVE  ParamsIn(disk, t) = params[t]
    BY DEF ParamsPersisted
  <2>0. ShapeInv
    BY DEF LimitsInv, PatchInv
  <2>1. Content = disk /\ \A h \in Handlers : DOMAIN updates[h] = {}
    BY <2>0, QuietContent
  <2>2. \A h \in Handlers, f \in Fields(t) : ~Asks(h, t, f)
    BY DEF Asks, Quiet
  <2>3. \A f \in Fields(t) : disk[KeyOf(t, f)] = params[t][f]
    BY <2>1, <2>2 DEF LimitsInv, LimitKept, Quiet
  <2>4. params[t] \in [Fields(t) -> Int]
    BY <2>0 DEF ShapeInv, ParamsOK
  <2>5. ParamsIn(disk, t) = [f \in Fields(t) |-> disk[KeyOf(t, f)]]
    BY LimitsIn
  <2> QED
    BY <2>3, <2>4, <2>5
<1> QED
  BY InitLimits, LimitStep, <1>1, PTL DEF Spec

-----------------------------------------------------------------------------
(* Starting again.  What the controllers hold is valid, and what the file    *)
(* holds can be loaded, as long as pid or pidff is not in doubt.             *)
Settled == ~({"pid", "pidff"} \subseteq typesInDoubt)

LoadInv ==
    /\ LimitsInv
    /\ \A t \in Types : Valid(t, params[t])
    /\ Settled => Loadable(disk) /\ Loadable(Content) /\ up # "failed"

LEMMA SameLimits ==
    ASSUME NEW d, NEW e, NEW t \in Types,
           \A f \in Fields(t) : d[KeyOf(t, f)] = e[KeyOf(t, f)]
    PROVE  ParamsIn(d, t) = ParamsIn(e, t)
BY LimitsIn

LEMMA InitLoad == Init => LoadInv
<1> SUFFICES ASSUME Init PROVE LoadInv
  OBVIOUS
<1>1. \A t \in Types : Valid(t, params[t])
  BY DEF Init, Loadable
<1>2. disk = EmptyFile /\ Content = EmptyFile /\ up # "failed"
  BY DEF Init, Content
<1> QED
  BY <1>1, <1>2, InitLimits DEF LoadInv

(* A write leaves in the file the limits of a controller that is not in      *)
(* doubt, or none of the limits changes.                                     *)
LEMMA WrittenLimits ==
    ASSUME LimitsInv, up = "up", NEW h \in Handlers, Write(h), PatchOpen(h),
           NEW t \in Types \ typesInDoubt, NEW f \in Fields(t)
    PROVE  Content'[KeyOf(t, f)] = params[t][f]
<1>0. ShapeInv /\ DoubtOK /\ LimitKept(t, f) /\ pc[h] = "write" /\ Clean
  BY DEF LimitsInv, PatchInv, Write, Clean
<1>1. KeyOf(t, f) \in ParamKeys /\ KeyOf(t, f) \in Keys
  BY LimitKeys, KeyFacts
<1>2. Content'[KeyOf(t, f)] =
        IF KeyOf(t, f) \in DOMAIN updates[h] THEN updates[h][KeyOf(t, f)]
        ELSE Content[KeyOf(t, f)]
  BY <1>0, <1>1, Written
<1>3. ASSUME NEW g \in Handlers, KeyOf(t, f) \in DOMAIN updates[g] \/ Asks(g, t, f)
      PROVE  KeyOf(t, f) \in DOMAIN updates[h]
  <2>1. PatchOpen(g)
    BY <1>1, <1>3 DEF PatchOpen, Patching, Asks
  <2>2. g = h
    BY <1>0, <2>1 DEF DoubtOK
  <2> QED
    BY <1>0, <1>3, <2>2 DEF Asks
<1> QED
  BY <1>0, <1>2, <1>3 DEF LimitKept

LEMMA WriteLoadable ==
    ASSUME LoadInv, up = "up", Settled, NEW h \in Handlers, Write(h)
    PROVE  Loadable(Content')
<1>0. ShapeInv /\ DoubtOK /\ LimitsInv /\ Loadable(Content) /\ pc[h] = "write"
  BY DEF LoadInv, LimitsInv, PatchInv, Write
<1> SUFFICES ASSUME NEW s \in Types PROVE Valid(s, ParamsIn(Content', s))
  BY DEF Loadable
<1>1. CASE ~PatchOpen(h)
  <2>1. \A f \in Fields(s) : Content'[KeyOf(s, f)] = Content[KeyOf(s, f)]
    BY <1>0, <1>1, Written, LimitKeys, KeyFacts DEF PatchOpen
  <2>2. ParamsIn(Content', s) = ParamsIn(Content, s)
    BY <2>1, SameLimits
  <2> QED
    BY <1>0, <2>2 DEF Loadable
<1>2. CASE PatchOpen(h)
  <2>1. ASSUME NEW t \in Types \ typesInDoubt PROVE Valid(t, ParamsIn(Content', t))
    <3>1. ParamsIn(Content', t) = [f \in Fields(t) |-> Content'[KeyOf(t, f)]]
      BY LimitsIn
    <3>2. \A f \in Fields(t) : Content'[KeyOf(t, f)] = params[t][f]
      BY <1>0, <1>2, WrittenLimits
    <3>3. params[t] \in [Fields(t) -> Int]
      BY <1>0 DEF ShapeInv, ParamsOK
    <3>4. ParamsIn(Content', t) = params[t]
      BY <3>1, <3>2, <3>3
    <3> QED
      BY <3>4 DEF LoadInv
  <2>2. "pid" \in Types /\ "pidff" \in Types
    BY DEF Types
  <2>3. PICK c \in {"pid", "pidff"} : c \notin typesInDoubt
    BY DEF Settled
  <2>4. CASE s = "step"
    BY <2>4 DEF Valid
  <2>5. CASE s = "smith"
    <3>1. s \notin typesInDoubt
      BY <1>0, <2>2, <2>3, <2>5 DEF DoubtOK, Clean
    <3> QED
      BY <2>1, <3>1
  <2>6. CASE s \in {"pid", "pidff"}
    <3>1. ParamsIn(Content', s) = ParamsIn(Content', c)
      BY <2>6 DEF ParamsIn
    <3>2. Valid(c, ParamsIn(Content', c)) /\ s # "step" /\ c # "step"
      BY <2>1, <2>2, <2>3, <2>6
    <3> QED
      BY <3>1, <3>2 DEF Valid
  <2> QED
    BY <2>4, <2>5, <2>6 DEF Types
<1> QED
  BY <1>1, <1>2

LEMMA LoadStep == LoadInv /\ [Next]_vars => LoadInv'
<1> SUFFICES ASSUME LoadInv, [Next]_vars PROVE LoadInv'
  OBVIOUS
<1> DEFINE Loads == Settled => Loadable(disk) /\ Loadable(Content) /\ up # "failed"
           Valids == \A t \in Types : Valid(t, params[t])
<1>0. ShapeInv /\ LimitsInv /\ LimitsInv'
  BY LimitStep DEF LoadInv, LimitsInv, PatchInv
<1>a. Loads /\ Valids
  BY DEF LoadInv
<1>b. "pid" \in Types /\ "pidff" \in Types
  BY DEF Types
<1> SUFFICES Loads' /\ Valids'
  BY <1>0 DEF LoadInv
<1>1. ASSUME NEW h \in Handlers, NEW j \in SettingKeys, NEW v \in Choices(j), Switch(h, j, v)
      PROVE  Loads' /\ Valids'
  <2>1. Content' = Content
    BY <1>0, <1>1, AsideSteps, AsideFile
  <2>2. UNCHANGED <<up, params, disk>> /\ (typesInDoubt' = typesInDoubt \/ typesInDoubt' = Types)
    BY <1>1 DEF Switch, ToStore, fileVars
  <2>3. Settled' => Settled
    BY <1>b, <2>2 DEF Settled
  <2> QED
    BY <1>a, <2>1, <2>2, <2>3
<1>2. ASSUME NEW h \in Handlers, PickSection(h) \/ \E u \in Patches : Patch(h, u)
      PROVE  Loads' /\ Valids'
  <2>1. Content' = Content
    BY <1>0, <1>2, AsideSteps, AsideFile
  <2>2. UNCHANGED <<up, params, disk>> /\ (typesInDoubt' = typesInDoubt \/ typesInDoubt' = Types)
    BY <1>2 DEF PickSection, Patch, liveVars, fileVars, ghostVars
  <2>3. Settled' => Settled
    BY <1>b, <2>2 DEF Settled
  <2> QED
    BY <1>a, <2>1, <2>2, <2>3
<1>3. ASSUME NEW h \in Handlers, Apply(h) PROVE Loads' /\ Valids'
  <2> DEFINE merged == Overlay(asked[h], params[target[h]])
  <2>1. Content' = Content
    BY <1>0, <1>3, AsideSteps, AsideFile
  <2>2. UNCHANGED <<up, disk>> /\ typesInDoubt \subseteq typesInDoubt'
    BY <1>3 DEF Apply, Shared, fileVars, ghostVars
  <2>3. \/ params' = params
        \/ params' = [params EXCEPT ![target[h]] = merged] /\ Valid(target[h], merged)
    BY <1>3 DEF Apply
  <2> HIDE DEF merged
  <2>4. Valids'
    <3>1. CASE params' = params
      BY <1>a, <3>1
    <3>2. CASE params' = [params EXCEPT ![target[h]] = merged] /\ Valid(target[h], merged)
      <4>1. ASSUME NEW t \in Types PROVE Valid(t, params'[t])
        <5>1. params'[t] = IF t = target[h] THEN merged ELSE params[t]
          BY <1>0, <3>2 DEF ShapeInv, ParamsOK
        <5>2. CASE t = target[h]
          BY <3>2, <5>1, <5>2
        <5>3. CASE t # target[h]
          BY <1>a, <5>1, <5>3
        <5> QED
          BY <5>2, <5>3
      <4> QED
        BY <4>1
    <3> QED
      BY <2>3, <3>1, <3>2
  <2>5. Settled' => Settled
    BY <2>2 DEF Settled
  <2> QED
    BY <1>a, <2>1, <2>2, <2>4, <2>5
<1>4. ASSUME NEW h \in Handlers, Reread(h) PROVE Loads' /\ Valids'
  <2>1. Content' = Content
    BY <1>0, <1>4, AsideSteps, AsideFile
  <2>2. UNCHANGED <<up, params, disk, typesInDoubt>>
    BY <1>4 DEF Reread, liveVars, fileVars, ghostVars
  <2> QED
    BY <1>a, <2>1, <2>2 DEF Settled
<1>5. ASSUME NEW h \in Handlers, ReadFile(h) \/ Truncate(h) PROVE Loads' /\ Valids'
  <2>1. UNCHANGED <<up, params, typesInDoubt>> /\ (disk' = disk \/ disk' = EmptyFile)
    BY <1>5 DEF ReadFile, Truncate, liveVars, ghostVars
  <2>2. Content' = Content
    BY <1>0, <1>5, Held
  <2> QED
    BY <1>a, <2>1, <2>2 DEF Settled
<1>6. ASSUME NEW h \in Handlers, Write(h) PROVE Loads' /\ Valids'
  <2>1. UNCHANGED <<up, params, typesInDoubt>> /\ mutex' = NoHandler /\ up = "up"
    BY <1>0, <1>6 DEF Write, liveVars, ghostVars, ShapeInv, RequestsOK
  <2>2. Content' = disk'
    BY <2>1 DEF Content
  <2>3. Settled' => Loadable(Content')
    BY <1>6, <2>1, WriteLoadable DEF Settled
  <2> QED
    BY <1>a, <2>1, <2>2, <2>3
<1>7. ASSUME NEW h \in Handlers, StoreFails(h) PROVE Loads' /\ Valids'
  <2>1. params' = params /\ ~Settled'
    BY <1>7, <1>b DEF StoreFails, liveVars, Settled
  <2> QED
    BY <1>a, <2>1
<1>8. CASE Crash
  <2>1. UNCHANGED <<disk, typesInDoubt>> /\ up' = "down" /\ Content' = disk
    BY <1>8 DEF Crash, Content, ghostVars
  <2>2. Valids'
    BY <1>8 DEF Crash, Loadable, EmptyFile
  <2> QED
    BY <1>a, <2>1, <2>2 DEF Settled
<1>9. CASE Start
  <2>1. mutex = NoHandler /\ mutex' = mutex /\ disk' = disk
    BY <1>0, <1>9 DEF Start, ShapeInv, FileOK, RequestsOK, Writing
  <2>2. Content' = disk
    BY <2>1 DEF Content
  <2>3. CASE Loadable(disk)
    <3>1. up' = "up" /\ params' = [t \in Types |-> ParamsIn(disk, t)]
      BY <1>9, <2>3 DEF Start
    <3>2. Valids'
      BY <2>3, <3>1 DEF Loadable
    <3> QED
      BY <2>1, <2>2, <2>3, <3>1, <3>2
  <2>4. CASE ~Loadable(disk)
    <3>1. UNCHANGED <<params, typesInDoubt>>
      BY <1>9, <2>4 DEF Start, ghostVars
    <3> QED
      BY <1>a, <2>1, <2>4, <3>1 DEF Settled
  <2> QED
    BY <2>3, <2>4
<1>10. CASE UNCHANGED vars
  BY <1>10, <1>a DEF vars, liveVars, fileVars, ghostVars, requestVars, Content, Settled
<1> QED
  BY <1>1, <1>2, <1>3, <1>4, <1>5, <1>6, <1>7, <1>8, <1>9, <1>10, Steps DEF RequestStep

(* The file can be loaded at every moment, the one between the truncation    *)
(* and the write included, and the program always starts again: what was     *)
(* validated one controller at a time is valid for every constructor that    *)
(* reads the section.  Until, in one life of the program, of pid, pidff and  *)
(* step more than one or step itself accepts a PATCH, a PATCH overlaps       *)
(* another one or a switch of controllers, or a write fails: step, say,      *)
(* changes the maximum of a section whose minimum it does not know.          *)
THEOREM StartsAgain == Spec => []Restartable
<1>1. LoadInv => Restartable
  BY DEF LoadInv, Restartable, Settled
<1> QED
  BY InitLoad, LoadStep, <1>1, PTL DEF Spec
=============================================================================
