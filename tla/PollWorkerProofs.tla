-------------------------- MODULE PollWorkerProofs --------------------------
(***************************************************************************)
(* Invariants of the poll worker for every number of devices, sites,       *)
(* handlers and log entries.                                               *)
(***************************************************************************)
EXTENDS PollWorker, TLAPS

\* A slot works on a device exactly when it is not idle.
SlotsOK == \A w \in Worker : pc[w] = "idle" <=> dev[w] = NoDevice

TypeInv == TypeOK /\ SlotsOK

LEMMA InitTypeInv == Init => TypeInv
  BY NoDeviceAssumption, LogAssumption, BoundAssumption
  DEF Init, TypeInv, TypeOK, SlotsOK, Entry, DeviceStatus, PullStatus,
      Transition, Holding, Step, NoSnapshot, NoPull, NoEvents

\* The ways a transition event can be added are sequences of transitions.
LEMMA StatusChangeType ==
  ASSUME NEW old, NEW new
  PROVE  StatusChange(old, new) \in Seq(Transition)
  BY DEF StatusChange, Transition

SnapshotType == [status : DeviceStatus, cursor : 0..MaxLog, config : 0..MaxEdits]
PullType     == [upto : 0..MaxLog, next : 0..MaxLog, status : PullStatus]

LEMMA EmptyTypes == /\ NoSnapshot \in SnapshotType
                    /\ NoPull \in PullType
                    /\ NoEvents \in [Entry -> Nat]
  BY LogAssumption, BoundAssumption
  DEF NoSnapshot, NoPull, NoEvents, SnapshotType, PullType, DeviceStatus,
      PullStatus

\* Settling a handler's promise keeps the handler variables well typed.
LEMMA FinishType ==
  ASSUME TypeInv, NEW w \in Worker, NEW outcome \in {"completed", "failed"},
         pc[w] # "idle", Finish(w, outcome), dev' = dev
  PROVE  /\ pc' \in [Worker -> Step]
         /\ snap' \in [Worker -> SnapshotType]
         /\ cred' \in [Worker -> 0..MaxEdits]
         /\ pull' \in [Worker -> PullType]
         /\ SlotsOK'
<1> USE DEF TypeInv, TypeOK, Finish, Goto
<1>1. pc' \in [Worker -> Step] /\ SlotsOK'
  BY DEF SlotsOK, Step
<1>2. snap' \in [Worker -> SnapshotType]
  BY EmptyTypes DEF SnapshotType
<1>3. cred' \in [Worker -> 0..MaxEdits]
  BY BoundAssumption
<1>4. pull' \in [Worker -> PullType]
  BY EmptyTypes DEF PullType
<1> QED BY <1>1, <1>2, <1>3, <1>4

LEMMA RemoveType ==
  ASSUME TypeInv, NEW D \in SUBSET Device, Remove(D), sites' \subseteq Site
  PROVE  TypeInv'
  BY LogAssumption
  DEF TypeInv, TypeOK, SlotsOK, Remove, handlerVars, Entry, NoEvents,
      DeviceStatus, Transition

LEMMA NextTypeInv == TypeInv /\ [Next]_vars => TypeInv'
<1> SUFFICES ASSUME TypeInv, [Next]_vars PROVE TypeInv'
  OBVIOUS
<1> USE DEF TypeInv, TypeOK, SlotsOK, SnapshotType, PullType
<1>1. ASSUME NEW w \in Worker, Connect(w) PROVE TypeInv'
  BY <1>1 DEF Connect, Goto, rowVars, eventVars, Step, Holding
<1>2. ASSUME NEW w \in Worker, Handle(w) PROVE TypeInv'
  <2>1. CASE DbError(w)
    BY <2>1, FinishType DEF DbError, rowVars, eventVars
  <2>2. CASE LoadDevice(w)
    <3> DEFINE d == dev[w]
               row == [status |-> status[d], cursor |-> cursor[d],
                       config |-> config[d]]
    <3>1. d \in Device
      BY <2>2 DEF LoadDevice
    <3>2. row \in SnapshotType
      BY <3>1
    <3>3. snap' \in [Worker -> SnapshotType]
      BY <2>2, <3>2 DEF LoadDevice
    <3>4. pc' \in [Worker -> Step] /\ SlotsOK'
      BY <2>2 DEF LoadDevice, Goto, Step, Holding
    <3> QED BY <2>2, <3>3, <3>4 DEF LoadDevice, rowVars, eventVars
  <2>3. CASE ResolveCredential(w)
    <3>1. dev[w] \in Device
      BY <2>3 DEF ResolveCredential
    <3>2. cred' \in [Worker -> 0..MaxEdits]
      BY <2>3, <3>1 DEF ResolveCredential, StoredCredential
    <3>3. pc' \in [Worker -> Step] /\ SlotsOK'
      BY <2>3 DEF ResolveCredential, Goto, Step, Holding
    <3> QED BY <2>3, <3>2, <3>3 DEF ResolveCredential, rowVars, eventVars
  <2>11. CASE NotFound(w)
    BY <2>11, FinishType DEF NotFound, rowVars, eventVars
  <2>12. CASE MarkWithoutRow(w)
    BY <2>12, FinishType DEF MarkWithoutRow, rowVars, eventVars
  <2>4. CASE PullSucceeds(w)
    <3>1. dev[w] \in Device
      BY <2>4 DEF PullSucceeds
    <3>2. PICK upto \in snap[w].cursor .. produced[dev[w]],
               next \in 0..MaxLog, s \in PullStatus :
            /\ next = upto \/ (next = 0 /\ upto = snap[w].cursor)
            /\ pull' = [pull EXCEPT ![w] = [upto |-> upto, next |-> next,
                                            status |-> s]]
      BY <2>4, Zenon DEF PullSucceeds
    <3>3. upto \in 0..MaxLog
      <4>1. produced[dev[w]] \in 0..MaxLog /\ snap[w].cursor \in 0..MaxLog
        BY <3>1
      <4> QED BY <3>2, <4>1, LogAssumption
    <3>4. [upto |-> upto, next |-> next, status |-> s] \in PullType
      BY <3>2, <3>3
    <3>5. pull' \in [Worker -> PullType]
      BY <3>2, <3>4
    <3>6. pc' \in [Worker -> Step] /\ SlotsOK'
      BY <2>4 DEF PullSucceeds, Goto, Step, Holding
    <3> QED BY <2>4, <3>5, <3>6 DEF PullSucceeds, rowVars, eventVars
  <2>5. CASE PullUnavailable(w)
    BY <2>5 DEF PullUnavailable, rowVars, eventVars, Goto, Step, Holding
  <2>6. CASE PullFails(w)
    BY <2>6, FinishType DEF PullFails, rowVars, eventVars
  <2>7. CASE Persist(w)
    <3> DEFINE d      == dev[w]
               change == StatusChange(snap[w].status, pull[w].status)
    <3>1. d \in Device
      BY <2>7 DEF Persist
    <3>2. NextCursor(w) \in 0..MaxLog
      BY DEF NextCursor
    <3>3. cursor' \in [Device -> 0..MaxLog] /\ status' \in [Device -> DeviceStatus]
      BY <2>7, <3>1, <3>2 DEF Persist, PullStatus, DeviceStatus
    <3>4. transitions' \in [Device -> Seq(Transition)]
      <4>1. transitions[d] \o change \in Seq(Transition)
        BY <3>1, StatusChangeType
      <4> QED BY <2>7, <4>1 DEF Persist
    <3>5. ingested' \in [Device -> [Entry -> Nat]]
      BY <2>7, <3>1 DEF Persist
    <3>6. PICK outcome \in {"completed", "failed"} : Finish(w, outcome)
      BY <2>7 DEF Persist
    <3>7. /\ pc' \in [Worker -> Step] /\ snap' \in [Worker -> SnapshotType]
          /\ cred' \in [Worker -> 0..MaxEdits] /\ pull' \in [Worker -> PullType]
          /\ SlotsOK'
      BY <2>7, <3>6, FinishType DEF Persist
    <3> QED BY <2>7, <3>3, <3>4, <3>5, <3>7 DEF Persist
  <2>8. CASE PersistWithoutRow(w)
    BY <2>8, FinishType DEF PersistWithoutRow, rowVars, eventVars
  <2>9. CASE MarkOffline(w)
    <3> DEFINE d == dev[w]
    <3>0. d \in Device
      BY <2>9 DEF MarkOffline
    <3>1. transitions' \in [Device -> Seq(Transition)]
      <4>1. transitions[d] \o StatusChange(snap[w].status, "offline")
              \in Seq(Transition)
        BY <3>0, StatusChangeType
      <4> QED BY <2>9, <4>1 DEF MarkOffline
    <3>2. status' \in [Device -> DeviceStatus]
      BY <2>9 DEF MarkOffline, DeviceStatus
    <3> QED BY <2>9, <3>1, <3>2, FinishType DEF MarkOffline
  <2>10. CASE Settle(w)
    BY <2>10 DEF Settle, rowVars, eventVars, Goto, Step
  <2> QED BY <1>2, <2>1, <2>2, <2>3, <2>4, <2>5, <2>6, <2>7, <2>8, <2>9,
             <2>10, <2>11, <2>12 DEF Handle
<1>3. ASSUME NEW w \in Worker, NEW d \in Device, Take(w, d) PROVE TypeInv'
  BY <1>3, NoDeviceAssumption DEF Take, rowVars, eventVars, Goto, Step
<1>4. CASE Crash
  BY <1>4, LogAssumption, BoundAssumption
  DEF Crash, rowVars, eventVars, Step, NoSnapshot, NoPull, DeviceStatus,
      PullStatus
<1>5. ASSUME NEW d \in Device, CreateDevice(d) PROVE TypeInv'
  BY <1>5 DEF CreateDevice, eventVars, handlerVars
<1>6. ASSUME NEW d \in Device, UpdateDevice(d) PROVE TypeInv'
  BY <1>6, BoundAssumption DEF UpdateDevice, eventVars, handlerVars
<1>7. ASSUME NEW d \in Device, DeleteDevice(d) PROVE TypeInv'
  BY <1>7, RemoveType DEF DeleteDevice
<1>8. ASSUME NEW d \in Device, Produce(d) PROVE TypeInv'
  BY <1>8, LogAssumption DEF Produce, rowVars, eventVars, handlerVars
<1>9. ASSUME NEW s \in Site, DeleteSite(s) PROVE TypeInv'
  <2> DEFINE D == {d \in Device : life[d] = "live" /\ SiteOf[d] = s}
  <2>1. Remove(D) /\ D \in SUBSET Device /\ sites' \subseteq Site
    BY <1>9 DEF DeleteSite
  <2> QED BY <2>1, RemoveType
<1>10. CASE UNCHANGED vars
  BY <1>10 DEF vars, rowVars, eventVars, handlerVars
<1> QED BY <1>1, <1>2, <1>3, <1>4, <1>5, <1>6, <1>7, <1>8, <1>9, <1>10
        DEF Next

LEMMA TypeInvariance == Spec => []TypeInv
<1> QED BY InitTypeInv, NextTypeInv, PTL DEF Spec

\* Every variable stays in its domain; in particular no arithmetic on cursors
\* leaves the device's log.
THEOREM TypeCorrect == Spec => []TypeOK
<1>1. TypeInv => TypeOK
  BY DEF TypeInv
<1> QED BY <1>1, TypeInvariance, PTL

-----------------------------------------------------------------------------
(* What one step can do to a handler and to a row.                         *)

\* The steps of a handler that has a snapshot.
Loaded == {"resolving", "pulling", "persisting", "reconnecting", "marking"}

\* A handler with a snapshot has just loaded it or had it before the step.
LEMMA HandlerSteps ==
  ASSUME TypeInv, [Next]_vars, NEW w \in Worker, pc'[w] \in Loaded
  PROVE  \/ LoadDevice(w)
         \/ /\ pc[w] \in Loaded
            /\ snap'[w] = snap[w]
            /\ dev'[w] = dev[w]
<1> USE DEF TypeInv, TypeOK, Loaded, Goto
<1>1. ASSUME NEW v \in Worker, Connect(v) PROVE pc[w] \in Loaded /\ snap'[w] = snap[w] /\ dev'[w] = dev[w]
  BY <1>1 DEF Connect
<1>2. ASSUME NEW v \in Worker, Handle(v), ~LoadDevice(w)
      PROVE  pc[w] \in Loaded /\ snap'[w] = snap[w] /\ dev'[w] = dev[w]
  <2>1. CASE w # v
    BY <1>2, <2>1
    DEF Handle, DbError, LoadDevice, ResolveCredential, NotFound, PullSucceeds,
        PullUnavailable, PullFails, Persist, PersistWithoutRow, MarkOffline,
        MarkWithoutRow, Settle, Finish
  <2>2. CASE w = v
    BY <1>2, <2>2
    DEF Handle, DbError, ResolveCredential, NotFound, PullSucceeds,
        PullUnavailable, PullFails, Persist, PersistWithoutRow, MarkOffline,
        MarkWithoutRow, Settle, Finish
  <2> QED BY <2>1, <2>2
<1>3. ASSUME NEW v \in Worker, NEW d \in Device, Take(v, d)
      PROVE  pc[w] \in Loaded /\ snap'[w] = snap[w] /\ dev'[w] = dev[w]
  BY <1>3 DEF Take
<1>4. ~Crash
  BY DEF Crash
<1>5. ASSUME handlerVars' = handlerVars
      PROVE  pc[w] \in Loaded /\ snap'[w] = snap[w] /\ dev'[w] = dev[w]
  BY <1>5 DEF handlerVars
<1>6. ASSUME NEW d \in Device,
             CreateDevice(d) \/ UpdateDevice(d) \/ DeleteDevice(d) \/ Produce(d)
      PROVE  handlerVars' = handlerVars
  BY <1>6 DEF CreateDevice, UpdateDevice, DeleteDevice, Produce, Remove
<1>7. ASSUME NEW s \in Site, DeleteSite(s) PROVE handlerVars' = handlerVars
  BY <1>7 DEF DeleteSite, Remove
<1>8. ASSUME UNCHANGED vars PROVE handlerVars' = handlerVars
  BY <1>8 DEF vars
<1> QED BY <1>1, <1>2, <1>3, <1>4, <1>5, <1>6, <1>7, <1>8 DEF Next

\* A busy slot was busy with the same device before, or has just taken it.
LEMMA BusySteps ==
  ASSUME TypeInv, [Next]_vars, NEW w \in Worker, pc'[w] # "idle"
  PROVE  \/ pc[w] # "idle" /\ dev'[w] = dev[w]
         \/ \E d \in Device : Take(w, d)
<1> USE DEF TypeInv, TypeOK, Goto
<1> DEFINE Same == pc[w] # "idle" /\ dev'[w] = dev[w]
<1>1. ASSUME NEW v \in Worker, Connect(v) PROVE Same
  BY <1>1 DEF Connect
<1>2. ASSUME NEW v \in Worker, Handle(v) PROVE Same
  <2>1. CASE w # v
    BY <1>2, <2>1
    DEF Handle, DbError, LoadDevice, ResolveCredential, NotFound, PullSucceeds,
        PullUnavailable, PullFails, Persist, PersistWithoutRow, MarkOffline,
        MarkWithoutRow, Settle, Finish
  <2>2. CASE w = v
    BY <1>2, <2>2
    DEF Handle, DbError, LoadDevice, ResolveCredential, NotFound, PullSucceeds,
        PullUnavailable, PullFails, Persist, PersistWithoutRow, MarkOffline,
        MarkWithoutRow, Settle, Finish
  <2> QED BY <2>1, <2>2
<1>3. ASSUME NEW v \in Worker, NEW d \in Device, Take(v, d), v # w
      PROVE  Same
  BY <1>3 DEF Take
<1>4. ~Crash
  BY DEF Crash
<1>5. ASSUME \/ \E d \in Device : \/ CreateDevice(d) \/ UpdateDevice(d)
                                  \/ DeleteDevice(d) \/ Produce(d)
             \/ \E s \in Site : DeleteSite(s)
             \/ UNCHANGED vars
      PROVE  Same
  BY <1>5 DEF CreateDevice, UpdateDevice, DeleteDevice, Produce, DeleteSite,
              Remove, vars, handlerVars
<1> QED BY <1>1, <1>2, <1>3, <1>4, <1>5 DEF Next

SameRow(d) == /\ life'[d]        = life[d]
              /\ status'[d]      = status[d]
              /\ cursor'[d]      = cursor[d]
              /\ ingested'[d]    = ingested[d]
              /\ transitions'[d] = transitions[d]

Deleted(d) == /\ life'[d]        = "deleted"
              /\ status'[d]      = "unknown"
              /\ cursor'[d]      = 0
              /\ ingested'[d]    = NoEvents
              /\ transitions'[d] = <<>>

\* A row and its events change only when the device is created or deleted, or
\* when a handler working on it commits.
LEMMA RowSteps ==
  ASSUME TypeInv, [Next]_vars, NEW d \in Device
  PROVE  \/ SameRow(d)
         \/ CreateDevice(d)
         \/ Deleted(d)
         \/ \E w \in Worker : dev[w] = d /\ (Persist(w) \/ MarkOffline(w))
<1> USE DEF TypeInv, TypeOK
<1>1. ASSUME UNCHANGED <<rowVars, eventVars>> PROVE SameRow(d)
  BY <1>1 DEF SameRow, rowVars, eventVars
<1>2. ASSUME NEW w \in Worker, Connect(w) PROVE SameRow(d)
  BY <1>1, <1>2 DEF Connect
<1>3. ASSUME NEW w \in Worker, Handle(w)
      PROVE  SameRow(d) \/ (dev[w] = d /\ (Persist(w) \/ MarkOffline(w)))
  <2>1. CASE Persist(w)
    BY <2>1 DEF Persist, SameRow
  <2>2. CASE MarkOffline(w)
    BY <2>2 DEF MarkOffline, SameRow
  <2>3. CASE ~Persist(w) /\ ~MarkOffline(w)
    BY <1>1, <1>3, <2>3
    DEF Handle, DbError, LoadDevice, ResolveCredential, NotFound, PullSucceeds,
        PullUnavailable, PullFails, PersistWithoutRow, MarkWithoutRow, Settle
  <2> QED BY <2>1, <2>2, <2>3
<1>4. ASSUME NEW w \in Worker, NEW e \in Device, Take(w, e) PROVE SameRow(d)
  BY <1>1, <1>4 DEF Take
<1>5. ASSUME Crash PROVE SameRow(d)
  BY <1>1, <1>5 DEF Crash
<1>6. ASSUME NEW e \in Device, CreateDevice(e)
      PROVE  SameRow(d) \/ CreateDevice(d)
  BY <1>6 DEF CreateDevice, SameRow, eventVars
<1>7. ASSUME NEW e \in Device, UpdateDevice(e) \/ Produce(e) PROVE SameRow(d)
  BY <1>7 DEF UpdateDevice, Produce, SameRow, eventVars, rowVars
<1>8. ASSUME NEW D, Remove(D) PROVE SameRow(d) \/ Deleted(d)
  BY <1>8 DEF Remove, SameRow, Deleted
<1>9. ASSUME NEW e \in Device, DeleteDevice(e) PROVE SameRow(d) \/ Deleted(d)
  BY <1>8, <1>9 DEF DeleteDevice
<1>10. ASSUME NEW s \in Site, DeleteSite(s) PROVE SameRow(d) \/ Deleted(d)
  BY <1>8, <1>10 DEF DeleteSite
<1>11. ASSUME UNCHANGED vars PROVE SameRow(d)
  BY <1>1, <1>11 DEF vars
<1> QED BY <1>2, <1>3, <1>4, <1>5, <1>6, <1>7, <1>9, <1>10, <1>11 DEF Next

\* No job runs for a device that was never created.
JobsHaveHadRows == \A w \in Worker : pc[w] # "idle" => life[dev[w]] # "unborn"

LEMMA InitJobs == Init => JobsHaveHadRows
  BY DEF Init, JobsHaveHadRows

LEMMA NextJobs == TypeInv /\ JobsHaveHadRows /\ [Next]_vars => JobsHaveHadRows'
<1> SUFFICES ASSUME TypeInv, JobsHaveHadRows, [Next]_vars,
                    NEW w \in Worker, pc'[w] # "idle"
             PROVE  life'[dev'[w]] # "unborn"
  BY DEF JobsHaveHadRows
<1>1. ASSUME NEW d \in Device, life[d] # "unborn" PROVE life'[d] # "unborn"
  <2>1. ASSUME NEW v \in Worker, Persist(v) \/ MarkOffline(v)
        PROVE  life' = life
    BY <2>1 DEF Persist, MarkOffline
  <2> QED BY <1>1, <2>1, RowSteps DEF SameRow, Deleted, CreateDevice
<1>2. CASE pc[w] # "idle" /\ dev'[w] = dev[w]
  <2>1. dev[w] \in Device /\ life[dev[w]] # "unborn"
    BY <1>2 DEF TypeInv, TypeOK, SlotsOK, JobsHaveHadRows
  <2> QED BY <1>1, <1>2, <2>1
<1>3. ASSUME NEW d \in Device, Take(w, d) PROVE life'[dev'[w]] # "unborn"
  <2>1. life[d] # "unborn" /\ dev'[w] = d
    BY <1>3 DEF Take, TypeInv, TypeOK
  <2> QED BY <1>1, <2>1
<1> QED BY <1>2, <1>3, BusySteps

-----------------------------------------------------------------------------
(* Deletion.                                                               *)

\* What a device without a row has.
RowDefaults ==
  \A d \in Device : life[d] # "live" =>
    /\ status[d] = "unknown"      /\ cursor[d] = 0
    /\ ingested[d] = NoEvents     /\ transitions[d] = <<>>

SitesExist == \A d \in Device : life[d] = "live" => SiteOf[d] \in sites

LEMMA InitRows == Init => RowDefaults /\ SitesExist
  BY SiteAssumption DEF Init, RowDefaults, SitesExist

LEMMA NextRowDefaults ==
  TypeInv /\ RowDefaults /\ [Next]_vars => RowDefaults'
<1> SUFFICES ASSUME TypeInv, RowDefaults, [Next]_vars,
                    NEW d \in Device, life'[d] # "live"
             PROVE  /\ status'[d] = "unknown"    /\ cursor'[d] = 0
                    /\ ingested'[d] = NoEvents   /\ transitions'[d] = <<>>
  BY DEF RowDefaults, NoEvents
<1>1. CASE SameRow(d)
  BY <1>1 DEF SameRow, RowDefaults
<1>2. CASE Deleted(d)
  BY <1>2 DEF Deleted
<1>3. CASE CreateDevice(d)
  BY <1>3 DEF CreateDevice, TypeInv, TypeOK
<1>4. ASSUME NEW w \in Worker, dev[w] = d, Persist(w) \/ MarkOffline(w)
      PROVE  FALSE
  BY <1>4 DEF Persist, MarkOffline
<1> QED BY <1>1, <1>2, <1>3, <1>4, RowSteps

LEMMA NextSitesExist == TypeInv /\ SitesExist /\ [Next]_vars => SitesExist'
<1> SUFFICES ASSUME TypeInv, SitesExist, [Next]_vars PROVE SitesExist'
  OBVIOUS
<1> USE DEF SitesExist, TypeInv, TypeOK
<1>1. ASSUME NEW w \in Worker, Connect(w) PROVE SitesExist'
  BY <1>1 DEF Connect, rowVars
<1>2. ASSUME NEW w \in Worker, Handle(w) PROVE SitesExist'
  BY <1>2
  DEF Handle, DbError, LoadDevice, ResolveCredential, NotFound, PullSucceeds,
      PullUnavailable, PullFails, Persist, PersistWithoutRow, MarkOffline,
      MarkWithoutRow, Settle, rowVars
<1>3. ASSUME NEW w \in Worker, NEW d \in Device, Take(w, d) PROVE SitesExist'
  BY <1>3 DEF Take, rowVars
<1>4. CASE Crash
  BY <1>4 DEF Crash, rowVars
<1>5. ASSUME NEW d \in Device, CreateDevice(d) PROVE SitesExist'
  BY <1>5 DEF CreateDevice
<1>6. ASSUME NEW d \in Device, UpdateDevice(d) \/ Produce(d) PROVE SitesExist'
  BY <1>6 DEF UpdateDevice, Produce, rowVars
<1>7. ASSUME NEW d \in Device, DeleteDevice(d) PROVE SitesExist'
  BY <1>7 DEF DeleteDevice, Remove
<1>8. ASSUME NEW s \in Site, DeleteSite(s) PROVE SitesExist'
  <2> SUFFICES ASSUME NEW d \in Device, life'[d] = "live"
               PROVE  SiteOf[d] \in sites \ {s}
    BY <1>8 DEF DeleteSite
  <2>1. life[d] = "live" /\ SiteOf[d] # s
    BY <1>8 DEF DeleteSite, Remove
  <2> QED BY <2>1
<1>9. CASE UNCHANGED vars
  BY <1>9 DEF vars, rowVars
<1> QED BY <1>1, <1>2, <1>3, <1>4, <1>5, <1>6, <1>7, <1>8, <1>9 DEF Next

\* A handler that is still running when its device or site is deleted leaves
\* nothing behind, however deliveries and deletions interleave.
THEOREM DeletionIsFinal == Spec => []NothingOutlivesItsRow
<1>1. RowDefaults /\ SitesExist => NothingOutlivesItsRow
  BY DEF RowDefaults, SitesExist, NothingOutlivesItsRow
<1> QED BY <1>1, InitRows, NextRowDefaults, NextSitesExist, TypeInvariance, PTL
        DEF Spec

-----------------------------------------------------------------------------
(* No event is lost, under any delivery.                                   *)

\* Every entry up to upto is stored for d, or was dropped by normalize().
StoredUpTo(d, upto) ==
  \A n \in 1..upto : n \in FarFuture \/ ingested[d][n] > 0

\* What a handler believes it has consumed is stored.
SnapshotStored ==
  \A w \in Worker : pc[w] \in Loaded /\ life[dev[w]] = "live"
                      => StoredUpTo(dev[w], snap[w].cursor)

\* What an adapter returned continues the snapshot, within the device's log.
PullInOrder ==
  \A w \in Worker : pc[w] = "persisting" =>
    /\ snap[w].cursor <= pull[w].upto
    /\ pull[w].upto <= produced[dev[w]]
    /\ \/ pull[w].next = pull[w].upto
       \/ pull[w].next = 0 /\ pull[w].upto = snap[w].cursor

LossInv == NoEventLost /\ SnapshotStored /\ PullInOrder

LEMMA InitLoss == Init => LossInv
  BY DEF Init, LossInv, NoEventLost, SnapshotStored, PullInOrder, Loaded

LEMMA ProducedGrows ==
  ASSUME TypeInv, [Next]_vars, NEW d \in Device
  PROVE  produced[d] <= produced'[d]
<1> USE DEF TypeInv, TypeOK
<1>1. ASSUME NEW e \in Device, Produce(e) PROVE produced[d] <= produced'[d]
  BY <1>1, LogAssumption DEF Produce
<1>2. ASSUME UNCHANGED produced PROVE produced[d] <= produced'[d]
  BY <1>2, LogAssumption
<1> QED BY <1>1, <1>2
    DEF Next, vars, Connect, Handle, DbError, LoadDevice, ResolveCredential,
        NotFound, PullSucceeds, PullUnavailable, PullFails, Persist,
        PersistWithoutRow, MarkOffline, MarkWithoutRow, Settle, Take, Crash,
        CreateDevice, UpdateDevice, DeleteDevice, DeleteSite, Remove

\* A handler about to persist has just pulled or was about to persist before.
LEMMA PersistingSteps ==
  ASSUME TypeInv, [Next]_vars, NEW w \in Worker, pc'[w] = "persisting"
  PROVE  /\ snap'[w] = snap[w] /\ dev'[w] = dev[w]
         /\ PullSucceeds(w) \/ (pc[w] = "persisting" /\ pull'[w] = pull[w])
<1> USE DEF TypeInv, TypeOK, Goto
<1>1. snap'[w] = snap[w] /\ dev'[w] = dev[w]
  <2>1. ~LoadDevice(w)
    BY DEF LoadDevice
  <2> QED BY <2>1, HandlerSteps DEF Loaded
<1>2. ASSUME NEW v \in Worker, Connect(v)
      PROVE  pc[w] = "persisting" /\ pull'[w] = pull[w]
  BY <1>2 DEF Connect
<1>3. ASSUME NEW v \in Worker, Handle(v)
      PROVE  PullSucceeds(w) \/ (pc[w] = "persisting" /\ pull'[w] = pull[w])
  <2>1. CASE w # v
    BY <1>3, <2>1
    DEF Handle, DbError, LoadDevice, ResolveCredential, NotFound, PullSucceeds,
        PullUnavailable, PullFails, Persist, PersistWithoutRow, MarkOffline,
        MarkWithoutRow, Settle, Finish
  <2>2. CASE w = v
    BY <1>3, <2>2
    DEF Handle, DbError, LoadDevice, ResolveCredential, NotFound,
        PullUnavailable, PullFails, Persist, PersistWithoutRow, MarkOffline,
        MarkWithoutRow, Settle, Finish
  <2> QED BY <2>1, <2>2
<1>4. ASSUME NEW v \in Worker, NEW d \in Device, Take(v, d)
      PROVE  pc[w] = "persisting" /\ pull'[w] = pull[w]
  BY <1>4 DEF Take
<1>5. ~Crash
  BY DEF Crash
<1>6. ASSUME \/ \E d \in Device : \/ CreateDevice(d) \/ UpdateDevice(d)
                                  \/ DeleteDevice(d) \/ Produce(d)
             \/ \E s \in Site : DeleteSite(s)
             \/ UNCHANGED vars
      PROVE  pc[w] = "persisting" /\ pull'[w] = pull[w]
  BY <1>6 DEF CreateDevice, UpdateDevice, DeleteDevice, Produce, DeleteSite,
              Remove, vars, handlerVars
<1> QED BY <1>1, <1>2, <1>3, <1>4, <1>5, <1>6 DEF Next

LEMMA NextPullInOrder == TypeInv /\ PullInOrder /\ [Next]_vars => PullInOrder'
<1> SUFFICES ASSUME TypeInv, PullInOrder, [Next]_vars,
                    NEW w \in Worker, pc'[w] = "persisting"
             PROVE  /\ snap'[w].cursor <= pull'[w].upto
                    /\ pull'[w].upto <= produced'[dev'[w]]
                    /\ \/ pull'[w].next = pull'[w].upto
                       \/ pull'[w].next = 0 /\ pull'[w].upto = snap'[w].cursor
  BY DEF PullInOrder
<1>1. snap'[w] = snap[w] /\ dev'[w] = dev[w] /\ pc[w] # "idle"
  BY PersistingSteps DEF PullSucceeds
<1>2. dev[w] \in Device
  BY <1>1 DEF TypeInv, TypeOK, SlotsOK
<1>3. /\ produced[dev[w]] <= produced'[dev[w]]
      /\ produced[dev[w]] \in Nat /\ produced'[dev[w]] \in Nat
  <2>1. TypeInv'
    BY NextTypeInv
  <2>2. produced \in [Device -> 0..MaxLog] /\ produced' \in [Device -> 0..MaxLog]
    BY <2>1 DEF TypeInv, TypeOK
  <2> QED BY <1>2, <2>2, ProducedGrows, LogAssumption
<1>4. CASE PullSucceeds(w)
  <2>1. PICK upto \in snap[w].cursor .. produced[dev[w]],
             next \in 0..MaxLog, s \in PullStatus :
          /\ next = upto \/ (next = 0 /\ upto = snap[w].cursor)
          /\ pull' = [pull EXCEPT ![w] = [upto |-> upto, next |-> next,
                                          status |-> s]]
    BY <1>4, Zenon DEF PullSucceeds
  <2>2. pull'[w] = [upto |-> upto, next |-> next, status |-> s]
    BY <2>1 DEF TypeInv, TypeOK
  <2>3. snap[w].cursor \in Nat
    BY LogAssumption DEF TypeInv, TypeOK
  <2> QED BY <1>1, <1>3, <2>1, <2>2, <2>3
<1>5. CASE pc[w] = "persisting" /\ pull'[w] = pull[w]
  <2>1. pull[w].upto \in Nat
    BY LogAssumption DEF TypeInv, TypeOK
  <2> QED BY <1>1, <1>3, <1>5, <2>1 DEF PullInOrder
<1> QED BY <1>4, <1>5, PersistingSteps

\* A commit adds copies and never takes one away.
LEMMA PersistEffect ==
  ASSUME TypeInv, NEW w \in Worker, Persist(w)
  PROVE  /\ dev[w] \in Device /\ life[dev[w]] = "live"
         /\ cursor'[dev[w]] = NextCursor(w)
         /\ status'[dev[w]] = pull[w].status
         /\ transitions'[dev[w]] = transitions[dev[w]]
                                     \o StatusChange(snap[w].status, pull[w].status)
         /\ \A n \in Entry : ingested'[dev[w]][n] =
              IF n \in Accepted(w) THEN ingested[dev[w]][n] + 1
                                   ELSE ingested[dev[w]][n]
  BY DEF Persist, TypeInv, TypeOK, SlotsOK

\* Likewise for the second transaction, which leaves log entries alone.
LEMMA MarkEffect ==
  ASSUME TypeInv, NEW w \in Worker, MarkOffline(w)
  PROVE  /\ dev[w] \in Device /\ life[dev[w]] = "live"
         /\ cursor' = cursor /\ ingested' = ingested
         /\ status'[dev[w]] = "offline"
         /\ transitions'[dev[w]] = transitions[dev[w]]
                                     \o StatusChange(snap[w].status, "offline")
  BY DEF MarkOffline, TypeInv, TypeOK, SlotsOK

\* While a row lives, no copy of an event is ever lost.
LEMMA IngestedGrows ==
  ASSUME TypeInv, RowDefaults, [Next]_vars, NEW d \in Device,
         life'[d] = "live", NEW n \in Entry, ingested[d][n] > 0
  PROVE  ingested'[d][n] > 0
<1>1. CASE SameRow(d)
  BY <1>1 DEF SameRow
<1>2. CASE CreateDevice(d)
  BY <1>2 DEF CreateDevice, eventVars
<1>3. CASE Deleted(d)
  BY <1>3 DEF Deleted
<1>4. ASSUME NEW w \in Worker, dev[w] = d, Persist(w) PROVE ingested'[d][n] > 0
  <2>1. ingested[d][n] \in Nat
    BY DEF TypeInv, TypeOK
  <2>2. ingested'[d][n] = ingested[d][n] + 1 \/ ingested'[d][n] = ingested[d][n]
    BY <1>4, PersistEffect
  <2> QED BY <2>1, <2>2
<1>5. ASSUME NEW w \in Worker, MarkOffline(w) PROVE ingested'[d][n] > 0
  BY <1>5, MarkEffect
<1> QED BY <1>1, <1>2, <1>3, <1>4, <1>5, RowSteps

LEMMA StoredStays ==
  ASSUME TypeInv, RowDefaults, [Next]_vars, NEW d \in Device,
         life'[d] = "live", NEW upto \in 0..MaxLog, StoredUpTo(d, upto)
  PROVE  StoredUpTo(d, upto)'
<1> SUFFICES ASSUME NEW n \in 1..upto, n \notin FarFuture
             PROVE  ingested'[d][n] > 0
  BY DEF StoredUpTo
<1>1. n \in Entry
  BY LogAssumption DEF Entry
<1>2. ingested[d][n] > 0
  BY DEF StoredUpTo
<1> QED BY <1>1, <1>2, IngestedGrows

\* A commit on a live row stores every entry up to the cursor it writes.
LEMMA PersistStores ==
  ASSUME TypeInv, RowDefaults, LossInv, [Next]_vars,
         NEW w \in Worker, Persist(w)
  PROVE  \A n \in 1..NextCursor(w) :
           n \in FarFuture \/ ingested'[dev[w]][n] > 0
<1> DEFINE d == dev[w]
<1>1. d \in Device /\ life[d] = "live" /\ life'[d] = "live" /\ pc[w] = "persisting"
  BY PersistEffect DEF Persist
<1>2. /\ snap[w].cursor \in 0..MaxLog /\ pull[w].upto \in 0..MaxLog
      /\ pull[w].next \in 0..MaxLog
  BY DEF TypeInv, TypeOK
<1>3. NextCursor(w) <= pull[w].upto
  BY <1>1, <1>2, LogAssumption DEF NextCursor, LossInv, PullInOrder
<1>4. NextCursor(w) \in 0..MaxLog
  BY <1>2 DEF NextCursor
<1>5. ASSUME NEW n \in 1..NextCursor(w), n \notin FarFuture
      PROVE  ingested'[d][n] > 0
  <2>1. n \in Entry /\ ingested[d][n] \in Nat
    BY <1>1, <1>4, LogAssumption DEF Entry, TypeInv, TypeOK
  <2>2. CASE n <= snap[w].cursor
    <3>1. ingested[d][n] > 0
      BY <1>1, <1>2, <1>5, <2>1, <2>2, LogAssumption
      DEF LossInv, SnapshotStored, StoredUpTo, Loaded
    <3> QED BY <1>1, <2>1, <3>1, IngestedGrows
  <2>3. CASE n > snap[w].cursor
    <3>1. n \in Accepted(w)
      BY <1>2, <1>3, <1>4, <1>5, <2>3, LogAssumption DEF Accepted
    <3>2. ingested'[d][n] = ingested[d][n] + 1
      BY <2>1, <3>1, PersistEffect
    <3> QED BY <2>1, <3>2
  <2> QED BY <1>2, <2>1, <2>2, <2>3, LogAssumption DEF Entry
<1> QED BY <1>5

LEMMA NextNoEventLost ==
  TypeInv /\ RowDefaults /\ LossInv /\ [Next]_vars => NoEventLost'
<1> SUFFICES ASSUME TypeInv, RowDefaults, LossInv, [Next]_vars,
                    NEW d \in Device, life'[d] = "live",
                    NEW n \in 1..cursor'[d], n \notin FarFuture
             PROVE  ingested'[d][n] > 0
  BY DEF NoEventLost
<1>0. TypeInv'
  BY NextTypeInv
<1>1. n \in Entry
  BY <1>0, LogAssumption DEF TypeInv, TypeOK, Entry
<1>2. ASSUME life[d] = "live", cursor'[d] = cursor[d] PROVE ingested'[d][n] > 0
  <2>1. ingested[d][n] > 0
    BY <1>2 DEF LossInv, NoEventLost
  <2> QED BY <1>1, <2>1, IngestedGrows
<1>3. CASE SameRow(d)
  BY <1>2, <1>3 DEF SameRow
<1>4. CASE CreateDevice(d)
  <2>1. cursor'[d] = 0
    BY <1>4 DEF CreateDevice, RowDefaults
  <2> QED BY <2>1
<1>5. CASE Deleted(d)
  BY <1>5 DEF Deleted
<1>6. ASSUME NEW w \in Worker, dev[w] = d, Persist(w) PROVE ingested'[d][n] > 0
  <2>1. cursor'[d] = NextCursor(w)
    BY <1>6, PersistEffect
  <2> QED BY <1>6, <2>1, PersistStores
<1>7. ASSUME NEW w \in Worker, dev[w] = d, MarkOffline(w)
      PROVE  ingested'[d][n] > 0
  BY <1>2, <1>7, MarkEffect
<1> QED BY <1>3, <1>4, <1>5, <1>6, <1>7, RowSteps

LEMMA NextSnapshotStored ==
  /\ TypeInv /\ JobsHaveHadRows /\ RowDefaults /\ LossInv /\ [Next]_vars
  => SnapshotStored'
<1> SUFFICES ASSUME TypeInv, JobsHaveHadRows, RowDefaults, LossInv, [Next]_vars,
                    NEW w \in Worker, pc'[w] \in Loaded,
                    life'[dev'[w]] = "live"
             PROVE  \A n \in 1..snap'[w].cursor :
                      n \in FarFuture \/ ingested'[dev'[w]][n] > 0
  BY DEF SnapshotStored, StoredUpTo
<1> DEFINE d == dev[w]
<1>1. pc[w] # "idle" /\ dev'[w] = d
  BY HandlerSteps DEF LoadDevice, Loaded
<1>2. d \in Device /\ life[d] # "unborn"
  BY <1>1 DEF TypeInv, TypeOK, SlotsOK, JobsHaveHadRows
<1>3. life[d] = "live"
  <2>1. ASSUME NEW v \in Worker, Persist(v) \/ MarkOffline(v)
        PROVE  life' = life
    BY <2>1 DEF Persist, MarkOffline
  <2> QED BY <1>1, <1>2, <2>1, RowSteps DEF SameRow, Deleted, CreateDevice
<1>4. CASE LoadDevice(w)
  <2>1. snap'[w].cursor = cursor[d]
    BY <1>4 DEF LoadDevice, TypeInv, TypeOK
  <2>2. StoredUpTo(d, cursor[d])
    BY <1>2, <1>3 DEF LossInv, NoEventLost, StoredUpTo
  <2>3. ingested' = ingested
    BY <1>4 DEF LoadDevice, eventVars
  <2> QED BY <1>1, <2>1, <2>2, <2>3 DEF StoredUpTo
<1>5. CASE pc[w] \in Loaded /\ snap'[w] = snap[w]
  <2>1. StoredUpTo(d, snap[w].cursor) /\ snap[w].cursor \in 0..MaxLog
    BY <1>3, <1>5 DEF LossInv, SnapshotStored, TypeInv, TypeOK
  <2>2. ASSUME NEW n \in 1..snap[w].cursor, n \notin FarFuture
        PROVE  ingested'[d][n] > 0
    <3>1. n \in Entry
      BY <2>1, LogAssumption DEF Entry
    <3>2. ingested[d][n] > 0
      BY <2>1, <2>2 DEF StoredUpTo
    <3> QED BY <1>1, <1>2, <3>1, <3>2, IngestedGrows
  <2> QED BY <1>1, <1>5, <2>2
<1> QED BY <1>4, <1>5, HandlerSteps

\* Whatever the deliveries, crashes and lost answers, the cursor of a live
\* device never passes an event that is not in the feed.
THEOREM NoEventIsLost == Spec => []NoEventLost
<1> DEFINE IInv == JobsHaveHadRows /\ RowDefaults /\ LossInv
<1>1. Init => IInv
  BY InitJobs, InitRows, InitLoss
<1>2. TypeInv /\ IInv /\ [Next]_vars => IInv'
  BY NextJobs, NextRowDefaults, NextNoEventLost, NextSnapshotStored,
     NextPullInOrder DEF LossInv
<1>3. IInv => NoEventLost
  BY DEF LossInv
<1> QED BY <1>1, <1>2, <1>3, TypeInvariance, PTL DEF Spec

-----------------------------------------------------------------------------
(* Addresses and credentials.                                              *)

\* Configurations only get newer, and a handler's snapshot is not ahead.
SnapshotNotAhead ==
  \A w \in Worker : pc[w] \in Loaded => snap[w].config <= config[dev[w]]

LEMMA ConfigGrows ==
  ASSUME TypeInv, [Next]_vars, NEW d \in Device
  PROVE  config[d] <= config'[d] /\ config[d] \in Nat /\ config'[d] \in Nat
<1> USE DEF TypeInv, TypeOK
<1>0. config[d] \in Nat
  BY BoundAssumption
<1>1. ASSUME NEW e \in Device, UpdateDevice(e)
      PROVE  config'[d] = config[d] \/ config'[d] = config[d] + 1
  BY <1>1 DEF UpdateDevice
<1>2. (\E e \in Device : UpdateDevice(e)) \/ config' = config
  BY DEF Next, vars, rowVars, Connect, Handle, DbError, LoadDevice,
        ResolveCredential, NotFound, PullSucceeds, PullUnavailable, PullFails,
        Persist, PersistWithoutRow, MarkOffline, MarkWithoutRow, Settle, Take,
        Crash, CreateDevice, Produce, DeleteDevice, DeleteSite, Remove
<1>3. config'[d] = config[d] \/ config'[d] = config[d] + 1
  BY <1>1, <1>2
<1> QED BY <1>0, <1>3

LEMMA NextSnapshotNotAhead ==
  TypeInv /\ SnapshotNotAhead /\ [Next]_vars => SnapshotNotAhead'
<1> SUFFICES ASSUME TypeInv, SnapshotNotAhead, [Next]_vars,
                    NEW w \in Worker, pc'[w] \in Loaded
             PROVE  snap'[w].config <= config'[dev'[w]]
  BY DEF SnapshotNotAhead
<1>1. pc[w] # "idle" /\ dev'[w] = dev[w]
  BY HandlerSteps DEF LoadDevice, Loaded
<1>2. dev[w] \in Device
  BY <1>1 DEF TypeInv, TypeOK, SlotsOK
<1>3. CASE LoadDevice(w)
  <2>1. snap'[w].config = config[dev[w]]
    BY <1>3 DEF LoadDevice, TypeInv, TypeOK
  <2> QED BY <1>1, <1>2, <2>1, ConfigGrows
<1>4. CASE pc[w] \in Loaded /\ snap'[w] = snap[w]
  <2>1. snap[w].config <= config[dev[w]] /\ snap[w].config \in Nat
    BY <1>4, BoundAssumption DEF SnapshotNotAhead, TypeInv, TypeOK
  <2> QED BY <1>1, <1>2, <1>4, <2>1, ConfigGrows
<1> QED BY <1>3, <1>4, HandlerSteps

\* A handler that pulls has just resolved its credential or was pulling.
LEMMA PullingSteps ==
  ASSUME TypeInv, [Next]_vars, NEW w \in Worker, pc'[w] = "pulling"
  PROVE  /\ snap'[w] = snap[w]
         /\ ResolveCredential(w) \/ (pc[w] = "pulling" /\ cred'[w] = cred[w])
<1> USE DEF TypeInv, TypeOK, Goto
<1>1. snap'[w] = snap[w]
  <2>1. ~LoadDevice(w)
    BY DEF LoadDevice
  <2> QED BY <2>1, HandlerSteps DEF Loaded
<1>2. ASSUME NEW v \in Worker, Connect(v)
      PROVE  pc[w] = "pulling" /\ cred'[w] = cred[w]
  BY <1>2 DEF Connect
<1>3. ASSUME NEW v \in Worker, Handle(v)
      PROVE  ResolveCredential(w) \/ (pc[w] = "pulling" /\ cred'[w] = cred[w])
  <2>1. CASE w # v
    BY <1>3, <2>1
    DEF Handle, DbError, LoadDevice, ResolveCredential, NotFound, PullSucceeds,
        PullUnavailable, PullFails, Persist, PersistWithoutRow, MarkOffline,
        MarkWithoutRow, Settle, Finish
  <2>2. CASE w = v
    BY <1>3, <2>2
    DEF Handle, DbError, LoadDevice, NotFound, PullSucceeds,
        PullUnavailable, PullFails, Persist, PersistWithoutRow, MarkOffline,
        MarkWithoutRow, Settle, Finish
  <2> QED BY <2>1, <2>2
<1>4. ASSUME NEW v \in Worker, NEW d \in Device, Take(v, d)
      PROVE  pc[w] = "pulling" /\ cred'[w] = cred[w]
  BY <1>4 DEF Take
<1>5. ~Crash
  BY DEF Crash
<1>6. ASSUME \/ \E d \in Device : \/ CreateDevice(d) \/ UpdateDevice(d)
                                  \/ DeleteDevice(d) \/ Produce(d)
             \/ \E s \in Site : DeleteSite(s)
             \/ UNCHANGED vars
      PROVE  pc[w] = "pulling" /\ cred'[w] = cred[w]
  BY <1>6 DEF CreateDevice, UpdateDevice, DeleteDevice, Produce, DeleteSite,
              Remove, vars, handlerVars
<1> QED BY <1>1, <1>2, <1>3, <1>4, <1>5, <1>6 DEF Next

\* The credential a pull sends is never older than the address it goes to,
\* whatever PATCHes arrive between the two SELECTs.
THEOREM CredentialNeverOlder == Spec => []CredentialAsNewAsAddress
<1>1. Init => SnapshotNotAhead /\ CredentialAsNewAsAddress
  BY DEF Init, SnapshotNotAhead, CredentialAsNewAsAddress, Loaded
<1>2. TypeInv /\ SnapshotNotAhead /\ CredentialAsNewAsAddress /\ [Next]_vars
        => CredentialAsNewAsAddress'
  <2> SUFFICES ASSUME TypeInv, SnapshotNotAhead, CredentialAsNewAsAddress,
                      [Next]_vars, NEW w \in Worker, pc'[w] = "pulling"
               PROVE  snap'[w].config <= cred'[w]
    BY DEF CredentialAsNewAsAddress
  <2>1. CASE ResolveCredential(w)
    <3>1. cred'[w] = config[dev[w]] /\ pc[w] \in Loaded
      BY <2>1 DEF ResolveCredential, StoredCredential, Loaded, TypeInv, TypeOK
    <3> QED BY <3>1, PullingSteps DEF SnapshotNotAhead
  <2>2. CASE pc[w] = "pulling" /\ cred'[w] = cred[w]
    BY <2>2, PullingSteps DEF CredentialAsNewAsAddress
  <2> QED BY <2>1, <2>2, PullingSteps
<1> QED BY <1>1, <1>2, NextSnapshotNotAhead, TypeInvariance, PTL DEF Spec

-----------------------------------------------------------------------------
(***************************************************************************)
(* What holds of the poll worker while the queue delivers the job of a     *)
(* device to one handler at a time: the feed is exact, it agrees with the  *)
(* status of the row, and the worker implements the abstract DeviceFeed.   *)
(***************************************************************************)

\* No two slots work on the same device.
Exclusive == \A v, w \in Worker : v # w /\ pc[v] # "idle" => dev[v] # dev[w]

\* What a handler read of its row is still what the row says.
SnapshotCurrent ==
  \A w \in Worker : pc[w] \in Loaded /\ life[dev[w]] = "live" =>
    snap[w].status = status[dev[w]] /\ snap[w].cursor = cursor[dev[w]]

Common == TypeInv /\ JobsHaveHadRows /\ RowDefaults /\ PullInOrder

LEMMA CommonInvariance == Spec => []Common
  BY InitTypeInv, NextTypeInv, InitJobs, NextJobs, InitRows, NextRowDefaults,
     InitLoss, NextPullInOrder, PTL DEF Spec, Common, LossInv

LEMMA InitSerial ==
  Init => Exclusive /\ SnapshotCurrent /\ ExactlyOnce /\ FeedMatchesStatus
<1> SUFFICES ASSUME Init
             PROVE  Exclusive /\ SnapshotCurrent /\ ExactlyOnce /\ FeedMatchesStatus
  OBVIOUS
<1> QED BY DEF Init, Exclusive, SnapshotCurrent, ExactlyOnce,
               FeedMatchesStatus, Loaded

LEMMA NextExclusive ==
  ASSUME ~Redelivery, Common, Exclusive, [Next]_vars
  PROVE  Exclusive'
<1> SUFFICES ASSUME NEW v \in Worker, NEW w \in Worker, v # w, pc'[v] # "idle"
             PROVE  dev'[v] # dev'[w]
  BY DEF Exclusive
<1> USE DEF Common, TypeInv, TypeOK, SlotsOK
<1>1. ASSUME NEW d \in Device, Take(v, d) PROVE dev'[v] # dev'[w]
  BY <1>1 DEF Take
<1>2. ASSUME pc[v] # "idle", dev'[v] = dev[v], NEW d \in Device, Take(w, d)
      PROVE  dev'[v] # dev'[w]
  BY <1>2 DEF Take
<1>3. ASSUME pc[v] # "idle", dev'[v] = dev[v], pc[w] # "idle", dev'[w] = dev[w]
      PROVE  dev'[v] # dev'[w]
  BY <1>3 DEF Exclusive
<1>4. ASSUME pc'[w] = "idle" PROVE dev'[v] # dev'[w]
  <2>1. SlotsOK'
    BY NextTypeInv
  <2> QED BY <1>4, <2>1
<1> QED BY <1>1, <1>2, <1>3, <1>4, BusySteps

\* The handler that commits is done with its snapshot.
LEMMA CommitEnds ==
  ASSUME TypeInv, NEW w \in Worker, Persist(w) \/ MarkOffline(w)
  PROVE  pc[w] # "idle" /\ pc'[w] \notin Loaded /\ life' = life
  BY DEF Persist, MarkOffline, Finish, Goto, Loaded, TypeInv, TypeOK

LEMMA NextSnapshotCurrent ==
  ASSUME Common, Exclusive, SnapshotCurrent, [Next]_vars
  PROVE  SnapshotCurrent'
<1> SUFFICES ASSUME NEW w \in Worker, pc'[w] \in Loaded, life'[dev'[w]] = "live"
             PROVE  /\ snap'[w].status = status'[dev'[w]]
                    /\ snap'[w].cursor = cursor'[dev'[w]]
  BY DEF SnapshotCurrent
<1> DEFINE d == dev[w]
<1>1. pc[w] # "idle" /\ dev'[w] = d
  BY HandlerSteps DEF LoadDevice, Loaded, Common
<1>2. d \in Device /\ life[d] # "unborn"
  BY <1>1 DEF Common, TypeInv, TypeOK, SlotsOK, JobsHaveHadRows
<1>3. SameRow(d)
  <2>1. ~CreateDevice(d) /\ ~Deleted(d)
    BY <1>1, <1>2 DEF CreateDevice, Deleted
  <2>2. ASSUME NEW v \in Worker, dev[v] = d, Persist(v) \/ MarkOffline(v)
        PROVE  FALSE
    <3>1. pc[v] # "idle" /\ v # w
      BY <2>2, CommitEnds DEF Common
    <3> QED BY <1>1, <2>2, <3>1 DEF Exclusive
  <2> QED BY <1>2, <2>1, <2>2, RowSteps DEF Common
<1>4. CASE LoadDevice(w)
  <2>1. snap'[w].status = status[d] /\ snap'[w].cursor = cursor[d]
    BY <1>4 DEF LoadDevice, Common, TypeInv, TypeOK
  <2> QED BY <1>1, <1>3, <2>1 DEF SameRow
<1>5. CASE pc[w] \in Loaded /\ snap'[w] = snap[w]
  BY <1>1, <1>3, <1>5 DEF SameRow, SnapshotCurrent
<1> QED BY <1>4, <1>5, HandlerSteps DEF Common

\* At its commit, a handler's snapshot is the row, and its next cursor is the
\* last entry it read.
LEMMA AtPersist ==
  ASSUME Common, SnapshotCurrent, NEW w \in Worker, Persist(w)
  PROVE  /\ snap[w].cursor = cursor[dev[w]]
         /\ snap[w].status = status[dev[w]]
         /\ NextCursor(w) = pull[w].upto
         /\ cursor[dev[w]] <= pull[w].upto
         /\ pull[w].upto <= produced[dev[w]]
<1>1. pc[w] = "persisting" /\ life[dev[w]] = "live"
  BY DEF Persist
<1>2. snap[w].cursor = cursor[dev[w]] /\ snap[w].status = status[dev[w]]
  BY <1>1 DEF SnapshotCurrent, Loaded
<1>3. snap[w].cursor \in 0..MaxLog /\ pull[w].upto \in 0..MaxLog
  BY DEF Common, TypeInv, TypeOK
<1>4. /\ snap[w].cursor <= pull[w].upto
      /\ pull[w].upto <= produced[dev[w]]
      /\ \/ pull[w].next = pull[w].upto
         \/ pull[w].next = 0 /\ pull[w].upto = snap[w].cursor
  BY <1>1 DEF Common, PullInOrder
<1>5. NextCursor(w) = pull[w].upto
  BY <1>3, <1>4, LogAssumption DEF NextCursor
<1> QED BY <1>2, <1>4, <1>5

LEMMA NextExactlyOnce ==
  ASSUME Common, SnapshotCurrent, ExactlyOnce, [Next]_vars
  PROVE  ExactlyOnce'
<1> SUFFICES ASSUME NEW d \in Device, life'[d] = "live",
                    NEW n \in Entry \ FarFuture
             PROVE  ingested'[d][n] = IF n <= cursor'[d] THEN 1 ELSE 0
  BY DEF ExactlyOnce, Entry
<1>1. ASSUME life[d] = "live"
      PROVE  ingested[d][n] = IF n <= cursor[d] THEN 1 ELSE 0
  BY <1>1 DEF ExactlyOnce
<1>2. CASE SameRow(d)
  BY <1>1, <1>2 DEF SameRow
<1>3. CASE CreateDevice(d)
  <2>1. ingested'[d][n] = 0 /\ cursor'[d] = 0
    BY <1>3 DEF CreateDevice, eventVars, Common, RowDefaults, NoEvents
  <2> QED BY <2>1 DEF Entry
<1>4. CASE Deleted(d)
  BY <1>4 DEF Deleted
<1>5. ASSUME NEW w \in Worker, dev[w] = d, Persist(w)
      PROVE  ingested'[d][n] = IF n <= cursor'[d] THEN 1 ELSE 0
  <2>1. /\ life[d] = "live" /\ cursor'[d] = pull[w].upto
        /\ n \in Accepted(w) => ingested'[d][n] = ingested[d][n] + 1
        /\ n \notin Accepted(w) => ingested'[d][n] = ingested[d][n]
    BY <1>5, AtPersist, PersistEffect DEF Common
  <2>2. cursor[d] \in Nat /\ pull[w].upto \in Nat /\ n \in Nat
    BY LogAssumption DEF Common, TypeInv, TypeOK, Entry
  <2>3. n \in Accepted(w) <=> cursor[d] < n /\ n <= pull[w].upto
    BY <1>5, <2>2, AtPersist DEF Accepted
  <2>4. cursor[d] <= pull[w].upto
    BY <1>5, AtPersist
  <2> QED BY <1>1, <2>1, <2>2, <2>3, <2>4
<1>6. ASSUME NEW w \in Worker, dev[w] = d, MarkOffline(w)
      PROVE  ingested'[d][n] = IF n <= cursor'[d] THEN 1 ELSE 0
  BY <1>1, <1>6, MarkEffect DEF Common
<1> QED BY <1>2, <1>3, <1>4, <1>5, <1>6, RowSteps DEF Common

\* FeedMatchesStatus for one device.
Agrees(feed, s) ==
  /\ \A i \in 1..Len(feed) :
       feed[i] = IF i % 2 = 1 THEN "device_offline" ELSE "device_online"
  /\ s = "offline" <=> Len(feed) % 2 = 1

\* One more transition, of the kind whose turn it is, keeps the alternation.
LEMMA OneMoreTransition ==
  ASSUME NEW feed \in Seq(Transition), NEW t \in Transition,
         \A i \in 1..Len(feed) :
           feed[i] = IF i % 2 = 1 THEN "device_offline" ELSE "device_online",
         t = "device_offline" <=> Len(feed) % 2 = 0
  PROVE  /\ \A i \in 1..Len(feed \o <<t>>) :
              (feed \o <<t>>)[i] = IF i % 2 = 1 THEN "device_offline"
                                                ELSE "device_online"
         /\ Len(feed \o <<t>>) % 2 = 1 <=> t = "device_offline"
<1> DEFINE n == Len(feed)
           F == feed \o <<t>>
<1>1. n \in Nat /\ Len(F) = n + 1
  OBVIOUS
<1>2. F[n + 1] = t /\ \A i \in 1..n : F[i] = feed[i]
  OBVIOUS
<1>3. (n + 1) % 2 = 1 <=> t = "device_offline"
  BY <1>1
<1>4. t = IF (n + 1) % 2 = 1 THEN "device_offline" ELSE "device_online"
  BY <1>3 DEF Transition
<1> HIDE DEF n, F
<1>5. ASSUME NEW i \in 1..(n + 1)
      PROVE  F[i] = IF i % 2 = 1 THEN "device_offline" ELSE "device_online"
  <2>1. CASE i = n + 1
    BY <1>2, <1>4, <2>1
  <2>2. CASE i \in 1..n
    BY <1>2, <2>2 DEF n
  <2> QED BY <1>1, <2>1, <2>2
<1> QED BY <1>1, <1>3, <1>5 DEF n, F

\* Adding the transition of a status change keeps feed and status in step.
LEMMA StatusChangeAgrees ==
  ASSUME NEW feed \in Seq(Transition), NEW old, NEW new, Agrees(feed, old)
  PROVE  Agrees(feed \o StatusChange(old, new), new)
<1>0. Len(feed) % 2 \in {0, 1}
  OBVIOUS
<1>1. CASE old # new /\ new = "offline"
  <2>1. StatusChange(old, new) = <<"device_offline">>
    BY <1>1 DEF StatusChange
  <2>2. Len(feed) % 2 = 0
    BY <1>0, <1>1 DEF Agrees
  <2>3. "device_offline" \in Transition
    BY DEF Transition
  <2>4. \A i \in 1..Len(feed) :
          feed[i] = IF i % 2 = 1 THEN "device_offline" ELSE "device_online"
    BY DEF Agrees
  <2>5. Agrees(feed \o <<"device_offline">>, new)
    BY <1>1, <2>2, <2>3, <2>4, OneMoreTransition DEF Agrees
  <2> QED BY <2>1, <2>5
<1>2. CASE old # new /\ old = "offline"
  <2>1. StatusChange(old, new) = <<"device_online">>
    BY <1>2 DEF StatusChange
  <2>2. Len(feed) % 2 = 1 /\ new # "offline"
    BY <1>2 DEF Agrees
  <2>3. /\ "device_online" \in Transition
        /\ "device_online" = "device_offline" <=> Len(feed) % 2 = 0
    BY <2>2 DEF Transition
  <2>4. \A i \in 1..Len(feed) :
          feed[i] = IF i % 2 = 1 THEN "device_offline" ELSE "device_online"
    BY DEF Agrees
  <2>5. Agrees(feed \o <<"device_online">>, new)
    BY <2>2, <2>3, <2>4, OneMoreTransition DEF Agrees
  <2> QED BY <2>1, <2>5
<1>3. CASE ~(old # new /\ (new = "offline" \/ old = "offline"))
  <2>1. feed \o StatusChange(old, new) = feed
    BY <1>3 DEF StatusChange
  <2> QED BY <1>3, <2>1 DEF Agrees
<1> QED BY <1>1, <1>2, <1>3

LEMMA NextFeedMatchesStatus ==
  ASSUME Common, SnapshotCurrent, FeedMatchesStatus, [Next]_vars
  PROVE  FeedMatchesStatus'
<1> SUFFICES ASSUME NEW d \in Device, life'[d] = "live"
             PROVE  Agrees(transitions'[d], status'[d])
  BY DEF FeedMatchesStatus, Agrees
<1>1. ASSUME life[d] = "live" PROVE Agrees(transitions[d], status[d])
  BY <1>1 DEF FeedMatchesStatus, Agrees
<1>2. CASE SameRow(d)
  BY <1>1, <1>2 DEF SameRow
<1>3. CASE CreateDevice(d)
  <2>1. transitions'[d] = <<>> /\ status'[d] = "unknown"
    BY <1>3 DEF CreateDevice, eventVars, Common, RowDefaults
  <2> QED BY <2>1 DEF Agrees
<1>4. CASE Deleted(d)
  BY <1>4 DEF Deleted
<1>5. ASSUME NEW w \in Worker, dev[w] = d, Persist(w) \/ MarkOffline(w)
      PROVE  Agrees(transitions'[d], status'[d])
  <2>1. PICK new \in {pull[w].status, "offline"} :
          /\ status'[d] = new
          /\ transitions'[d] = transitions[d] \o StatusChange(snap[w].status, new)
    BY <1>5, PersistEffect, MarkEffect DEF Common
  <2>2. life[d] = "live" /\ pc[w] \in Loaded
    BY <1>5 DEF Persist, MarkOffline, Loaded
  <2>3. snap[w].status = status[d]
    BY <1>5, <2>2 DEF SnapshotCurrent
  <2>4. transitions[d] \in Seq(Transition)
    BY DEF Common, TypeInv, TypeOK
  <2> QED BY <1>1, <2>1, <2>2, <2>3, <2>4, StatusChangeAgrees
<1> QED BY <1>2, <1>3, <1>4, <1>5, RowSteps DEF Common

\* The feed follows the log and never runs ahead of it.
CursorInLog == \A d \in Device : cursor[d] <= produced[d]

LEMMA NextCursorInLog ==
  ASSUME Common, SnapshotCurrent, CursorInLog, [Next]_vars
  PROVE  CursorInLog'
<1> SUFFICES ASSUME NEW d \in Device PROVE cursor'[d] <= produced'[d]
  BY DEF CursorInLog
<1>1. TypeInv'
  BY NextTypeInv DEF Common
<1>2. /\ produced[d] \in Nat /\ produced'[d] \in Nat
      /\ cursor[d] \in Nat /\ cursor'[d] \in Nat
  BY <1>1, LogAssumption DEF Common, TypeInv, TypeOK
<1>3. produced[d] <= produced'[d]
  BY ProducedGrows DEF Common
<1>4. cursor[d] <= produced[d]
  BY DEF CursorInLog
<1>5. CASE SameRow(d) \/ CreateDevice(d)
  BY <1>2, <1>3, <1>4, <1>5 DEF SameRow, CreateDevice
<1>6. CASE Deleted(d)
  BY <1>2, <1>6 DEF Deleted
<1>7. ASSUME NEW w \in Worker, dev[w] = d, Persist(w)
      PROVE  cursor'[d] <= produced'[d]
  <2>1. cursor'[d] = pull[w].upto /\ pull[w].upto <= produced[d]
    BY <1>7, PersistEffect, AtPersist DEF Common
  <2> QED BY <1>2, <1>3, <2>1
<1>8. ASSUME NEW w \in Worker, MarkOffline(w) PROVE cursor'[d] <= produced'[d]
  <2>1. cursor' = cursor
    BY <1>8 DEF MarkOffline
  <2> QED BY <1>2, <1>3, <1>4, <2>1
<1> QED BY <1>5, <1>6, <1>7, <1>8, RowSteps DEF Common

Serial == /\ Exclusive    /\ SnapshotCurrent    /\ CursorInLog
          /\ ExactlyOnce  /\ FeedMatchesStatus

LEMMA SerialInvariance == ASSUME ~Redelivery PROVE Spec => [](Common /\ Serial)
<1>1. Init => Serial
  <2>1. Init => CursorInLog
    BY DEF CursorInLog, Init
  <2> QED BY <2>1, InitSerial DEF Serial
<1>2. Common /\ Serial /\ [Next]_vars => Serial'
  BY NextExclusive, NextSnapshotCurrent, NextCursorInLog,
     NextExactlyOnce, NextFeedMatchesStatus DEF Serial
<1> QED BY <1>1, <1>2, CommonInvariance, PTL DEF Spec

\* With one delivery at a time, every event up to a device's cursor is in the
\* feed once and none past it, across crashes, failed commits and retries.
THEOREM EventsExactlyOnce == ASSUME ~Redelivery PROVE Spec => []ExactlyOnce
<1>1. Serial => ExactlyOnce
  BY DEF Serial
<1> QED BY <1>1, SerialInvariance, PTL

\* With one delivery at a time, transition events alternate and the last one
\* says what the row says.
THEOREM FeedIsTruthful == ASSUME ~Redelivery PROVE Spec => []FeedMatchesStatus
<1>1. Serial => FeedMatchesStatus
  BY DEF Serial
<1> QED BY <1>1, SerialInvariance, PTL

-----------------------------------------------------------------------------
(* The poll worker implements DeviceFeed.                                  *)

LEMMA FeedInit == Init => Feed!Init
  BY DEF Init, Feed!Init, Feed!Empty, Feed!Entry, NoEvents, Entry

\* Steps that touch no row, event or log are invisible in the feed.
LEMMA QuietSteps ==
  ASSUME UNCHANGED <<produced, life, status, cursor, eventVars>>
  PROVE  UNCHANGED Feed!vars
  BY DEF Feed!vars, eventVars

LEMMA AlertIsStatusChange ==
  ASSUME NEW old \in DeviceStatus, NEW new \in DeviceStatus
  PROVE  Feed!Alert(old = "offline", new = "offline") = StatusChange(old, new)
  BY DEF Feed!Alert, StatusChange

LEMMA PersistFollows ==
  ASSUME Common, Serial, NEW w \in Worker, Persist(w)
  PROVE  Feed!Next
<1> DEFINE d    == dev[w]
           upto == pull[w].upto
<1>0. PICK is \in BOOLEAN : is = (pull[w].status = "offline")
  OBVIOUS
<1>1. /\ d \in Device /\ life[d] = "live" /\ pull[w].status \in PullStatus
      /\ status[d] \in DeviceStatus
  BY PersistEffect DEF Common, TypeInv, TypeOK
<1>2. /\ NextCursor(w) = upto /\ snap[w].status = status[d]
      /\ snap[w].cursor = cursor[d]
      /\ cursor[d] <= upto /\ upto <= produced[d]
  BY AtPersist DEF Serial
<1>3. upto \in cursor[d] .. produced[d]
  BY <1>1, <1>2, LogAssumption DEF Common, TypeInv, TypeOK
<1>4. cursor' = [cursor EXCEPT ![d] = upto]
  BY <1>2 DEF Persist
<1>5. ingested' = [ingested EXCEPT ![d] =
        [n \in Entry |-> IF n \in (cursor[d] + 1 .. upto) \ FarFuture
                         THEN 1 ELSE ingested[d][n]]]
  <2>1. ASSUME NEW n \in (cursor[d] + 1 .. upto) \ FarFuture, n \in Entry
        PROVE  ingested[d][n] + 1 = 1
    <3>1. ingested[d][n] = IF n <= cursor[d] THEN 1 ELSE 0
      BY <1>1, <2>1 DEF Serial, ExactlyOnce
    <3>2. ~(n <= cursor[d])
      BY <1>1, <2>1, LogAssumption DEF Common, TypeInv, TypeOK
    <3> QED BY <3>1, <3>2
  <2>2. Accepted(w) = (cursor[d] + 1 .. upto) \ FarFuture
    BY <1>2 DEF Accepted
  <2>3. [n \in Entry |-> IF n \in Accepted(w) THEN ingested[d][n] + 1
                                               ELSE ingested[d][n]]
        = [n \in Entry |-> IF n \in (cursor[d] + 1 .. upto) \ FarFuture
                           THEN 1 ELSE ingested[d][n]]
    BY <2>1, <2>2
  <2> QED BY <2>3 DEF Persist
<1>6. [e \in Device |-> status[e] = "offline"]'
        = [[e \in Device |-> status[e] = "offline"] EXCEPT ![d] = is]
  BY <1>0, <1>1 DEF Persist, Common, TypeInv, TypeOK
<1>7. transitions' = [transitions EXCEPT
                        ![d] = @ \o Feed!Alert(status[d] = "offline", is)]
  <2>1. Feed!Alert(status[d] = "offline", is)
          = StatusChange(snap[w].status, pull[w].status)
    BY <1>0, <1>1, <1>2, AlertIsStatusChange DEF PullStatus, DeviceStatus
  <2> QED BY <2>1 DEF Persist
<1>8. Feed!Follow(d, upto, is)
  <2>1. UNCHANGED <<life, produced>>
    BY DEF Persist
  <2> HIDE DEF upto, d
  <2> QED BY <1>1, <1>4, <1>5, <1>6, <1>7, <2>1
          DEF Feed!Follow, Feed!Entry, Entry
<1> QED BY <1>1, <1>3, <1>8 DEF Feed!Next

LEMMA MarkFollows ==
  ASSUME Common, Serial, NEW w \in Worker, MarkOffline(w)
  PROVE  Feed!Next \/ UNCHANGED Feed!vars
<1> DEFINE d == dev[w]
<1>1. /\ d \in Device /\ life[d] = "live" /\ status[d] \in DeviceStatus
      /\ cursor[d] \in 0..MaxLog /\ produced[d] \in 0..MaxLog
  BY MarkEffect DEF Common, TypeInv, TypeOK
<1>2. snap[w].status = status[d]
  BY <1>1 DEF MarkOffline, Serial, SnapshotCurrent, Loaded
<1>3. cursor' = [cursor EXCEPT ![d] = cursor[d]]
  BY <1>1 DEF MarkOffline, Common, TypeInv, TypeOK
<1>4. ingested' = [ingested EXCEPT ![d] =
        [n \in Entry |-> IF n \in (cursor[d] + 1 .. cursor[d]) \ FarFuture
                         THEN 1 ELSE ingested[d][n]]]
  <2>1. (cursor[d] + 1 .. cursor[d]) = {}
    BY <1>1, LogAssumption
  <2>2. ingested[d] = [n \in Entry |-> ingested[d][n]]
    BY <1>1 DEF Common, TypeInv, TypeOK
  <2>3. [n \in Entry |-> IF n \in (cursor[d] + 1 .. cursor[d]) \ FarFuture
                         THEN 1 ELSE ingested[d][n]] = ingested[d]
    BY <2>1, <2>2
  <2> QED BY <1>1, <2>3 DEF MarkOffline, Common, TypeInv, TypeOK
<1>5. [e \in Device |-> status[e] = "offline"]'
        = [[e \in Device |-> status[e] = "offline"] EXCEPT ![d] = TRUE]
  BY <1>1 DEF MarkOffline, Common, TypeInv, TypeOK
<1>6. transitions' = [transitions EXCEPT
                        ![d] = @ \o Feed!Alert(status[d] = "offline", TRUE)]
  <2>1. Feed!Alert(status[d] = "offline", TRUE)
          = StatusChange(snap[w].status, "offline")
    BY <1>1, <1>2, AlertIsStatusChange DEF DeviceStatus
  <2> QED BY <2>1 DEF MarkOffline
<1>7. Feed!Follow(d, cursor[d], TRUE)
  BY <1>1, <1>3, <1>4, <1>5, <1>6
  DEF Feed!Follow, Feed!Entry, Entry, MarkOffline
<1>8. cursor[d] \in cursor[d]..produced[d]
  <2>1. cursor[d] <= produced[d]
    BY <1>1 DEF Serial, CursorInLog
  <2> QED BY <1>1, <2>1, LogAssumption
<1> QED BY <1>1, <1>7, <1>8 DEF Feed!Next

LEMMA RemoveDrops ==
  ASSUME NEW D \in SUBSET Device, \A d \in D : life[d] = "live", Remove(D)
  PROVE  Feed!Next
<1>1. [e \in Device |-> status[e] = "offline"]'
        = [e \in Device |-> IF e \in D THEN FALSE
                            ELSE [x \in Device |-> status[x] = "offline"][e]]
  BY DEF Remove
<1>2. NoEvents = Feed!Empty
  BY DEF NoEvents, Feed!Empty, Entry, Feed!Entry
<1>3. Feed!Drop(D)
  BY <1>1, <1>2 DEF Remove, Feed!Drop
<1> QED BY <1>3 DEF Feed!Next

LEMMA FeedNext ==
  ASSUME Common, Serial, [Next]_vars
  PROVE  [Feed!Next]_(Feed!vars)
<1>1. ASSUME NEW w \in Worker, Connect(w) PROVE UNCHANGED Feed!vars
  BY <1>1, QuietSteps DEF Connect, rowVars
<1>2. ASSUME NEW w \in Worker, Handle(w)
      PROVE  Feed!Next \/ UNCHANGED Feed!vars
  <2>1. CASE Persist(w)
    BY <2>1, PersistFollows
  <2>2. CASE MarkOffline(w)
    BY <2>2, MarkFollows
  <2>3. CASE ~Persist(w) /\ ~MarkOffline(w)
    BY <1>2, <2>3, QuietSteps
    DEF Handle, DbError, LoadDevice, ResolveCredential, NotFound, PullSucceeds,
        PullUnavailable, PullFails, PersistWithoutRow, MarkWithoutRow, Settle,
        rowVars
  <2> QED BY <2>1, <2>2, <2>3
<1>3. ASSUME NEW w \in Worker, NEW d \in Device, Take(w, d)
      PROVE  UNCHANGED Feed!vars
  BY <1>3, QuietSteps DEF Take, rowVars
<1>4. ASSUME Crash PROVE UNCHANGED Feed!vars
  BY <1>4, QuietSteps DEF Crash, rowVars
<1>5. ASSUME NEW d \in Device, CreateDevice(d) PROVE Feed!Next
  <2>1. Feed!Add(d)
    BY <1>5 DEF CreateDevice, Feed!Add, eventVars
  <2> QED BY <2>1 DEF Feed!Next
<1>6. ASSUME NEW d \in Device, UpdateDevice(d) PROVE UNCHANGED Feed!vars
  BY <1>6, QuietSteps DEF UpdateDevice
<1>7. ASSUME NEW d \in Device, DeleteDevice(d) PROVE Feed!Next
  BY <1>7, RemoveDrops DEF DeleteDevice
<1>8. ASSUME NEW d \in Device, Produce(d) PROVE Feed!Next
  <2>1. Feed!Write(d)
    BY <1>8 DEF Produce, Feed!Write, rowVars, eventVars
  <2> QED BY <2>1 DEF Feed!Next
<1>9. ASSUME NEW s \in Site, DeleteSite(s) PROVE Feed!Next
  <2> DEFINE D == {d \in Device : life[d] = "live" /\ SiteOf[d] = s}
  <2>1. D \in SUBSET Device /\ (\A d \in D : life[d] = "live") /\ Remove(D)
    BY <1>9 DEF DeleteSite
  <2> QED BY <2>1, RemoveDrops
<1>10. ASSUME UNCHANGED vars PROVE UNCHANGED Feed!vars
  BY <1>10, QuietSteps DEF vars, rowVars
<1> QED BY <1>1, <1>2, <1>3, <1>4, <1>5, <1>6, <1>7, <1>8, <1>9, <1>10
        DEF Next

\* With one delivery at a time, the poll worker implements DeviceFeed: every
\* commit is one step that follows the device's log and says whether the
\* device is down, and nothing else a handler does can be seen in the feed.
THEOREM PollWorkerImplementsDeviceFeed ==
  ASSUME ~Redelivery PROVE Spec => ImplementsDeviceFeed
<1> QED BY FeedInit, FeedNext, SerialInvariance, PTL
        DEF Spec, Feed!Spec, ImplementsDeviceFeed

=============================================================================
