----------------------------- MODULE PollWorker -----------------------------
(***************************************************************************)
(* The poll handler of src/polling/scheduler.ts (PollWorker.handle) and    *)
(* the rows it shares with the API: devices, sites and events.             *)
(*                                                                         *)
(* One poll job loads the device row, decrypts its credential, pulls the   *)
(* device's event log from the row's cursor on, and commits the events,    *)
(* the new status and the new cursor in one transaction (withTenantDb).    *)
(* If the device cannot be reached that transaction is rolled back and a   *)
(* second one marks the device offline.  Meanwhile the API creates, edits  *)
(* and deletes devices and sites, the process may crash, a connection may  *)
(* fail at any step, and, when Redelivery is TRUE, the queue may hand the  *)
(* job of a device to a second handler while the first still runs.         *)
(*                                                                         *)
(* Transactions are READ COMMITTED.  The handler's writes do not depend on *)
(* anything read after its two SELECTs, and the row lock its UPDATE (or    *)
(* the foreign-key check of its INSERT) takes is held to the end, so all   *)
(* its writes are one step at COMMIT; the two SELECTs are separate steps.  *)
(***************************************************************************)
EXTENDS Naturals, Sequences, FiniteSets

CONSTANTS
  Device,         \* device ids (UUIDs, never reused)
  Site,           \* site ids
  SiteOf,         \* the site a device is created under (devices.site_id)
  NoDevice,       \* what an idle handler works on
  Worker,         \* the handler slots of one worker process (POLL_CONCURRENCY)
  PoolSize,       \* connections of the pg pool (max: 4)
  Redelivery,     \* may a job be delivered again while its handler still runs?
  FarFuture,      \* log entries whose timestamp normalize() drops
  MaxLog,         \* bound: entries a device writes to its own log
  MaxEdits,       \* bound: PATCHes of a device
  MaxTransitions, \* bound: transition events of a device when a job is taken
  MaxCopies       \* bound: copies of one event when a job is taken

ASSUME NoDeviceAssumption   == NoDevice \notin Device
ASSUME SiteAssumption       == SiteOf \in [Device -> Site]
ASSUME PoolAssumption       == PoolSize \in Nat \ {0}
ASSUME RedeliveryAssumption == Redelivery \in BOOLEAN
ASSUME LogAssumption        == MaxLog \in Nat /\ FarFuture \subseteq 1..MaxLog
ASSUME BoundAssumption      == /\ MaxEdits \in Nat
                               /\ MaxTransitions \in Nat
                               /\ MaxCopies \in Nat

VARIABLES
  produced,     \* entries in the device's own log: 1..produced[d]
  sites,        \* rows of sites
  life,         \* is there a row for the device: "unborn", "live", "deleted"
  status,       \* devices.status
  cursor,       \* devices.poll_cursor: the last entry consumed, 0 for NULL
  config,       \* version of devices.address, vendor_config and credential
  ingested,     \* rows of events: copies stored of each log entry
  transitions,  \* rows of events: the status-change events, oldest first
  pc,           \* where each handler is
  dev,          \* job.data.deviceId
  snap,         \* the Device the handler loaded
  cred,         \* the configuration version its credential comes from
  pull          \* what the adapter returned

rowVars     == <<sites, life, status, cursor, config>>
eventVars   == <<ingested, transitions>>
handlerVars == <<pc, dev, snap, cred, pull>>
vars        == <<produced, rowVars, eventVars, handlerVars>>

-----------------------------------------------------------------------------
Entry        == 1..MaxLog
DeviceStatus == {"unknown", "online", "degraded", "offline"}
PullStatus   == {"online", "degraded", "offline"}
Transition   == {"device_offline", "device_online"}

\* Mutant: the catch block runs inside the first transaction's callback.
NestedTransactions == {"loading", "resolving", "pulling", "persisting",
                       "marking", "reconnecting"}

\* A handler in one of these steps holds a connection of the pool: the whole
\* of withTenantDb's callback, the adapter's HTTP calls included.
Holding == {"loading", "resolving", "pulling", "persisting", "marking"}
Step    == Holding \cup {"idle", "connecting", "reconnecting",
                         "completed", "failed"}

FreeConnection == Cardinality({w \in Worker : pc[w] \in Holding}) < PoolSize

NoSnapshot == [status |-> "unknown", cursor |-> 0, config |-> 0]
NoPull     == [upto |-> 0, next |-> 0, status |-> "online"]
NoEvents   == [n \in Entry |-> 0]

\* Mutants: reading from the cursor on, inclusively; losing the last entry.
AcceptedFromCursor(w) == (snap[w].cursor .. pull[w].upto) \ FarFuture
AcceptedButLast(w) == (snap[w].cursor + 1 .. pull[w].upto - 1) \ FarFuture

\* The entries a handler stores: what it read past its cursor, less what
\* normalize() drops for lying more than five minutes in the future.
Accepted(w) == (snap[w].cursor + 1 .. pull[w].upto) \ FarFuture

\* Mutants: a cursor one past the next entry; a cursor that is never moved.
NextCursorPastIt(w) == pull[w].next + 1
NextCursorKept(w) == snap[w].cursor

\* pull.nextCursor ?? device.pollCursor
NextCursor(w) == IF pull[w].next = 0 THEN snap[w].cursor ELSE pull[w].next

\* Mutant: the guard "and one of the two is offline" dropped.
EveryStatusChange(old, new) ==
  IF old = new THEN <<>>
  ELSE IF new = "offline" THEN <<"device_offline">> ELSE <<"device_online">>

\* The transition event a status change adds to the feed, if any.
StatusChange(old, new) ==
  IF old # new /\ new = "offline" THEN <<"device_offline">>
  ELSE IF old # new /\ old = "offline" THEN <<"device_online">>
  ELSE <<>>

-----------------------------------------------------------------------------
Init ==
  /\ produced    = [d \in Device |-> 0]
  /\ sites       = Site
  /\ life        = [d \in Device |-> "unborn"]
  /\ status      = [d \in Device |-> "unknown"]
  /\ cursor      = [d \in Device |-> 0]
  /\ config      = [d \in Device |-> 0]
  /\ ingested    = [d \in Device |-> NoEvents]
  /\ transitions = [d \in Device |-> <<>>]
  /\ pc          = [w \in Worker |-> "idle"]
  /\ dev         = [w \in Worker |-> NoDevice]
  /\ snap        = [w \in Worker |-> NoSnapshot]
  /\ cred        = [w \in Worker |-> 0]
  /\ pull        = [w \in Worker |-> NoPull]

Goto(w, s) == pc' = [pc EXCEPT ![w] = s]

\* The handler's promise settles; its locals are gone.
Finish(w, outcome) ==
  /\ Goto(w, outcome)
  /\ snap' = [snap EXCEPT ![w] = NoSnapshot]
  /\ cred' = [cred EXCEPT ![w] = 0]
  /\ pull' = [pull EXCEPT ![w] = NoPull]

-----------------------------------------------------------------------------
(* The handler.                                                            *)

\* The queue hands the job of d to slot w.  Jobs of deleted devices linger.
Take(w, d) ==
  /\ pc[w] = "idle"
  /\ life[d] # "unborn"
  /\ Redelivery \/ \A v \in Worker : dev[v] # d
  /\ Len(transitions[d]) < MaxTransitions
  /\ \A n \in Entry : ingested[d][n] < MaxCopies
  /\ Goto(w, "connecting")
  /\ dev' = [dev EXCEPT ![w] = d]
  /\ UNCHANGED <<produced, rowVars, eventVars, snap, cred, pull>>

\* pool.connect() resolves, for the handler's transaction or for the second
\* one that marks the device offline.
Connect(w) ==
  /\ FreeConnection
  /\ \/ pc[w] = "connecting"   /\ Goto(w, "loading")
     \/ pc[w] = "reconnecting" /\ Goto(w, "marking")
  /\ UNCHANGED <<produced, rowVars, eventVars, dev, snap, cred, pull>>

\* A statement, the connection or the COMMIT fails before it takes effect:
\* the transaction is rolled back and the error propagates to BullMQ.
DbError(w) ==
  /\ pc[w] \in {"connecting", "loading", "resolving", "persisting",
                "reconnecting", "marking"}
  /\ Finish(w, "failed")
  /\ UNCHANGED <<produced, rowVars, eventVars, dev>>

\* loadDevice: the row becomes the snapshot both transactions work from.
LoadDevice(w) ==
  LET d == dev[w] IN
  /\ pc[w] = "loading"
  /\ life[d] = "live"
  /\ snap' = [snap EXCEPT ![w] = [status |-> status[d], cursor |-> cursor[d],
                                  config |-> config[d]]]
  /\ Goto(w, "resolving")
  /\ UNCHANGED <<produced, rowVars, eventVars, dev, cred, pull>>

\* Mutant: a credential cached since the device was created.
CachedCredential(w) == 0

\* The configuration whose credential withResolvedCredential reads.
StoredCredential(w) == config[dev[w]]

\* withResolvedCredential: a second SELECT, which may see a later row than
\* the first.  A credential that does not decrypt fails as in DbError.
ResolveCredential(w) ==
  /\ pc[w] = "resolving"
  /\ life[dev[w]] = "live"
  /\ cred' = [cred EXCEPT ![w] = StoredCredential(w)]
  /\ Goto(w, "pulling")
  /\ UNCHANGED <<produced, rowVars, eventVars, dev, snap, pull>>

\* Either SELECT finds no row: NOT_FOUND.
NotFound(w) ==
  /\ pc[w] \in {"loading", "resolving"}
  /\ life[dev[w]] # "live"
  /\ Finish(w, "failed")
  /\ UNCHANGED <<produced, rowVars, eventVars, dev>>

\* adapter.pull as the contract of VendorAdapter has it: some of the entries
\* past the cursor, and a next cursor just past what was returned.  NULL
\* stands only for "nothing new".
PullSucceeds(w) ==
  /\ pc[w] = "pulling"
  /\ \E upto \in snap[w].cursor .. produced[dev[w]], next \in 0..MaxLog,
        s \in PullStatus :
       /\ next = upto \/ (next = 0 /\ upto = snap[w].cursor)
       /\ pull' = [pull EXCEPT ![w] = [upto |-> upto, next |-> next,
                                       status |-> s]]
  /\ Goto(w, "persisting")
  /\ UNCHANGED <<produced, rowVars, eventVars, dev, snap, cred>>

\* ADAPTER_UNAVAILABLE or ADAPTER_TIMEOUT: the first transaction rolls back,
\* its connection goes back to the pool, and the catch block asks for another.
PullUnavailable(w) ==
  /\ pc[w] = "pulling"
  /\ Goto(w, "reconnecting")
  /\ UNCHANGED <<produced, rowVars, eventVars, dev, snap, cred, pull>>

\* Any other error of the adapter propagates without a second transaction.
PullFails(w) ==
  /\ pc[w] = "pulling"
  /\ Finish(w, "failed")
  /\ UNCHANGED <<produced, rowVars, eventVars, dev>>

\* COMMIT of events, status, cursor and transition event.  If the answer to
\* the COMMIT is lost the effect stands and the job counts as failed.
Persist(w) ==
  LET d      == dev[w]
      change == StatusChange(snap[w].status, pull[w].status)
  IN
  /\ pc[w] = "persisting"
  /\ life[d] = "live"
  /\ ingested' = [ingested EXCEPT ![d] =
       [n \in Entry |-> IF n \in Accepted(w) THEN ingested[d][n] + 1
                                             ELSE ingested[d][n]]]
  /\ status' = [status EXCEPT ![d] = pull[w].status]
  /\ cursor' = [cursor EXCEPT ![d] = NextCursor(w)]
  /\ transitions' = [transitions EXCEPT ![d] = @ \o change]
  /\ \E outcome \in {"completed", "failed"} : Finish(w, outcome)
  /\ UNCHANGED <<produced, sites, life, config, dev>>

\* The row went away after it was loaded: an INSERT violates its foreign key
\* and undoes the transaction; with nothing to insert the UPDATE matches no
\* row and the job completes.
PersistWithoutRow(w) ==
  LET change == StatusChange(snap[w].status, pull[w].status) IN
  /\ pc[w] = "persisting"
  /\ life[dev[w]] # "live"
  /\ Finish(w, IF Accepted(w) = {} /\ change = <<>> THEN "completed"
                                                   ELSE "failed")
  /\ UNCHANGED <<produced, rowVars, eventVars, dev>>

\* The second transaction: status offline whatever the row says by now, and a
\* device_offline event if the snapshot was not offline.  The job then fails
\* with ADAPTER_UNAVAILABLE.
MarkOffline(w) ==
  LET d == dev[w] IN
  /\ pc[w] = "marking"
  /\ life[d] = "live"
  /\ status' = [status EXCEPT ![d] = "offline"]
  /\ transitions' = [transitions EXCEPT
       ![d] = @ \o StatusChange(snap[w].status, "offline")]
  /\ Finish(w, "failed")
  /\ UNCHANGED <<produced, sites, life, cursor, config, ingested, dev>>

\* Without a row the UPDATE matches nothing and an INSERT violates its foreign
\* key: no effect, and the job fails either way.
MarkWithoutRow(w) ==
  /\ pc[w] = "marking"
  /\ life[dev[w]] # "live"
  /\ Finish(w, "failed")
  /\ UNCHANGED <<produced, rowVars, eventVars, dev>>

\* BullMQ moves the settled job on and the slot is free for another.
Settle(w) ==
  /\ pc[w] \in {"completed", "failed"}
  /\ Goto(w, "idle")
  /\ dev' = [dev EXCEPT ![w] = NoDevice]
  /\ UNCHANGED <<produced, rowVars, eventVars, snap, cred, pull>>

\* The process dies; the server rolls back what it had open.
Crash ==
  /\ \E w \in Worker : pc[w] # "idle"
  /\ pc'   = [w \in Worker |-> "idle"]
  /\ dev'  = [w \in Worker |-> NoDevice]
  /\ snap' = [w \in Worker |-> NoSnapshot]
  /\ cred' = [w \in Worker |-> 0]
  /\ pull' = [w \in Worker |-> NoPull]
  /\ UNCHANGED <<produced, rowVars, eventVars>>

-----------------------------------------------------------------------------
(* The API and the devices themselves.                                     *)

\* POST /v1/devices; the foreign key wants the site to exist.
CreateDevice(d) ==
  /\ life[d] = "unborn"
  /\ SiteOf[d] \in sites
  /\ life' = [life EXCEPT ![d] = "live"]
  /\ UNCHANGED <<produced, sites, status, cursor, config, eventVars,
                 handlerVars>>

\* PATCH /v1/devices/:id of address, vendorConfig or credentials: one UPDATE,
\* which touches neither status nor poll_cursor.
UpdateDevice(d) ==
  /\ life[d] = "live"
  /\ config[d] < MaxEdits
  /\ config' = [config EXCEPT ![d] = @ + 1]
  /\ UNCHANGED <<produced, sites, life, status, cursor, eventVars,
                 handlerVars>>

\* Mutant: no ON DELETE CASCADE from devices to events.
RemoveWithoutCascade(D) ==
  /\ life'   = [d \in Device |-> IF d \in D THEN "deleted" ELSE life[d]]
  /\ status' = [d \in Device |-> IF d \in D THEN "unknown" ELSE status[d]]
  /\ cursor' = [d \in Device |-> IF d \in D THEN 0 ELSE cursor[d]]
  /\ UNCHANGED <<produced, config, eventVars, handlerVars>>

\* DELETE of the rows of D, and by ON DELETE CASCADE of their events.
Remove(D) ==
  /\ life'        = [d \in Device |-> IF d \in D THEN "deleted" ELSE life[d]]
  /\ status'      = [d \in Device |-> IF d \in D THEN "unknown" ELSE status[d]]
  /\ cursor'      = [d \in Device |-> IF d \in D THEN 0 ELSE cursor[d]]
  /\ ingested'    = [d \in Device |-> IF d \in D THEN NoEvents ELSE ingested[d]]
  /\ transitions' = [d \in Device |-> IF d \in D THEN <<>> ELSE transitions[d]]
  /\ UNCHANGED <<produced, config, handlerVars>>

\* DELETE /v1/devices/:id
DeleteDevice(d) ==
  /\ life[d] = "live"
  /\ Remove({d})
  /\ UNCHANGED sites

\* DELETE /v1/sites/:id; the devices of the site go with it.
DeleteSite(s) ==
  /\ s \in sites
  /\ sites' = sites \ {s}
  /\ Remove({d \in Device : life[d] = "live" /\ SiteOf[d] = s})

\* The device writes an entry to its own log.
Produce(d) ==
  /\ life[d] = "live"
  /\ produced[d] < MaxLog
  /\ produced' = [produced EXCEPT ![d] = @ + 1]
  /\ UNCHANGED <<rowVars, eventVars, handlerVars>>

-----------------------------------------------------------------------------
Handle(w) ==
  \/ DbError(w)      \/ LoadDevice(w)        \/ ResolveCredential(w)
  \/ NotFound(w)     \/ PullSucceeds(w)      \/ PullUnavailable(w)
  \/ PullFails(w)    \/ Persist(w)           \/ PersistWithoutRow(w)
  \/ MarkOffline(w)  \/ MarkWithoutRow(w)    \/ Settle(w)

Next ==
  \/ \E w \in Worker : Connect(w) \/ Handle(w)
  \/ \E w \in Worker, d \in Device : Take(w, d)
  \/ Crash
  \/ \E d \in Device : \/ CreateDevice(d) \/ UpdateDevice(d)
                       \/ DeleteDevice(d) \/ Produce(d)
  \/ \E s \in Site : DeleteSite(s)

Spec == Init /\ [][Next]_vars

\* A handler that does not wait for the pool: its statements and HTTP requests
\* end, in an answer or an error.  Waiting has no time limit (the pool sets no
\* connectionTimeoutMillis), so an error there is possible but never due.
Proceed(w) ==
  /\ pc[w] \notin {"connecting", "reconnecting"}
  /\ Handle(w)

\* The pool serves its waiters in order: none is passed over for ever.
Fairness ==
  \A w \in Worker : WF_vars(Proceed(w)) /\ SF_vars(Connect(w))

FairSpec == Spec /\ Fairness

-----------------------------------------------------------------------------
(* Properties.                                                             *)

TypeOK ==
  /\ produced    \in [Device -> 0..MaxLog]
  /\ sites       \subseteq Site
  /\ life        \in [Device -> {"unborn", "live", "deleted"}]
  /\ status      \in [Device -> DeviceStatus]
  /\ cursor      \in [Device -> 0..MaxLog]
  /\ config      \in [Device -> 0..MaxEdits]
  /\ ingested    \in [Device -> [Entry -> Nat]]
  /\ transitions \in [Device -> Seq(Transition)]
  /\ pc          \in [Worker -> Step]
  /\ dev         \in [Worker -> Device \cup {NoDevice}]
  /\ snap        \in [Worker -> [status : DeviceStatus, cursor : 0..MaxLog,
                                 config : 0..MaxEdits]]
  /\ cred        \in [Worker -> 0..MaxEdits]
  /\ pull        \in [Worker -> [upto : 0..MaxLog, next : 0..MaxLog,
                                 status : PullStatus]]

\* Whatever interleaves with a poll (a crash between any two steps, a failed
\* statement, a lost COMMIT answer, a second handler of the same job), the
\* cursor of a device never passes an event that was not stored, unless
\* normalize() dropped it: the cursor and the events commit together.
NoEventLost ==
  \A d \in Device : life[d] = "live" =>
    \A n \in 1..cursor[d] : n \in FarFuture \/ ingested[d][n] > 0

\* While the queue delivers a job to one handler at a time, every event up to
\* the cursor is stored once and none past it: a retried or crashed poll
\* neither skips nor repeats one.
ExactlyOnce ==
  \A d \in Device : life[d] = "live" =>
    \A n \in Entry \ FarFuture :
      ingested[d][n] = IF n <= cursor[d] THEN 1 ELSE 0

\* The feed tells the truth about the row: transition events alternate,
\* beginning with device_offline, and the last one is device_offline exactly
\* when devices.status is offline (steps 4 and 5 of handle and its catch
\* block, over any mix of the two paths).
FeedMatchesStatus ==
  \A d \in Device : life[d] = "live" =>
    LET feed == transitions[d] IN
    /\ \A i \in 1..Len(feed) :
         feed[i] = IF i % 2 = 1 THEN "device_offline" ELSE "device_online"
    /\ status[d] = "offline" <=> Len(feed) % 2 = 1

\* A poll that is still running when its device or its site is deleted writes
\* nothing afterwards: no event or transition without a device row, and no
\* device row without its site.
NothingOutlivesItsRow ==
  \A d \in Device :
    /\ life[d] # "live" => ingested[d] = NoEvents /\ transitions[d] = <<>>
    /\ life[d] = "live" => SiteOf[d] \in sites

\* The credential a pull sends is at least as new as the address it is sent
\* to, though the two are read by different statements: a PATCH of both never
\* makes the worker try the old password at the new address.
CredentialAsNewAsAddress ==
  \A w \in Worker : pc[w] = "pulling" => snap[w].config <= cred[w]

\* A handler that took a job ends, even when the pool is smaller than the
\* number of handlers: none holds a connection while it waits for another.
HandlersFinish ==
  \A w \in Worker : pc[w] # "idle" ~> pc[w] = "idle"

Feed == INSTANCE DeviceFeed WITH
  present <- life, log <- produced, mark <- cursor, stored <- ingested,
  down <- [d \in Device |-> status[d] = "offline"], alerts <- transitions

\* Under one delivery at a time the poll worker implements the abstract feed:
\* every commit of a handler is one step of the feed, every other step of a
\* handler changes nothing a reader of the feed could see.
ImplementsDeviceFeed == Feed!Spec
=============================================================================
