---------------------------- MODULE PollScheduler ----------------------------
(***************************************************************************)
(* The per-company tick of src/polling/scheduler.ts (runCompanyTick) and   *)
(* the life of the poll jobs it adds.                                      *)
(*                                                                         *)
(* Every minute a tick lists the enabled devices and adds one job per      *)
(* device under the stable id poll-<id>.  Ticks may overlap, may fail      *)
(* half-way, and work from a listing that grows stale.  A job waits, is    *)
(* active, is retried after a backoff up to three attempts, and is kept    *)
(* for a while once it has completed or failed.                            *)
(*                                                                         *)
(* The queue is BullMQ's, which the repository only configures: adding a   *)
(* job whose id exists, whatever its state, does nothing; the last Retain  *)
(* completed and the last Retain failed jobs are kept; an active job whose *)
(* lock is lost (its process died or stalled) is put back once, and then   *)
(* fails.                                                                  *)
(***************************************************************************)
EXTENDS Naturals, Sequences, FiniteSets

CONSTANTS
  Device,        \* the devices of one company
  Tick,          \* tick jobs that may run at once (tickWorker concurrency: 5)
  ListLimit,     \* listEnabledDevices' limit: 1000
  Concurrency,   \* POLL_CONCURRENCY
  MaxAttempts,   \* attempts: 3
  MaxStalled,    \* BullMQ's maxStalledCount: 1
  Retain         \* removeOnComplete and removeOnFail: 100

ASSUME LimitAssumption == /\ ListLimit \in Nat \ {0}
                          /\ Concurrency \in Nat \ {0}
                          /\ MaxAttempts \in Nat \ {0}
                          /\ MaxStalled \in Nat
                          /\ Retain \in Nat

VARIABLES
  enabled,    \* devices with a row and devices.enabled
  todo,       \* devices of its listing a running tick has still to add
  job,        \* state of the job poll-<id>; "none" when there is no such job
  attempts,   \* job.attemptsMade
  stalls,     \* how often the job was found stalled
  locked,     \* does a live handler hold the job's lock
  waiting,    \* the wait list, next job first
  completed,  \* completed jobs kept, oldest first
  failed      \* failed jobs kept, oldest first

jobVars == <<job, attempts, stalls, locked, waiting, completed, failed>>
vars    == <<enabled, todo, jobVars>>

JobState    == {"none", "waiting", "active", "delayed", "completed", "failed"}
Outstanding == {"waiting", "active", "delayed"}
Active      == {d \in Device : job[d] = "active"}

\* The devices in a sequence of jobs.
Listed(s) == {s[i] : i \in 1..Len(s)}

Init ==
  /\ enabled   = {}
  /\ todo      = [t \in Tick |-> {}]
  /\ job       = [d \in Device |-> "none"]
  /\ attempts  = [d \in Device |-> 0]
  /\ stalls    = [d \in Device |-> 0]
  /\ locked    = [d \in Device |-> FALSE]
  /\ waiting   = <<>>
  /\ completed = <<>>
  /\ failed    = <<>>

-----------------------------------------------------------------------------
(* The tick.                                                               *)

\* Mutant: a listing without the test of devices.enabled.
ListingsOfAll == {Device}

\* Mutant: a page shorter than the limit is taken for the end of the list.
FullPagesOnly == {D \in SUBSET enabled : Cardinality(D) = ListLimit}

\* What listEnabledDevices may return: all enabled devices, or when there are
\* more, any ListLimit of them (the query has no ORDER BY).
Listings ==
  {D \in SUBSET enabled :
     \/ D = enabled /\ Cardinality(D) <= ListLimit
     \/ Cardinality(D) = ListLimit}

\* runCompanyTick starts: its one listing.
TickFire(t) ==
  /\ todo[t] = {}
  /\ \E D \in Listings : todo' = [todo EXCEPT ![t] = D]
  /\ UNCHANGED <<enabled, jobVars>>

\* Mutant: an id per tick instead of per device.
CanAddAlways(d) == TRUE

\* BullMQ's test of a custom job id: there is no job of that id.
CanAdd(d) == job[d] = "none"

\* pollQueue.add for the next device of the listing.
TickAdd(t, d) ==
  /\ d \in todo[t]
  /\ todo' = [todo EXCEPT ![t] = @ \ {d}]
  /\ \/ /\ CanAdd(d)
        /\ job'      = [job EXCEPT ![d] = "waiting"]
        /\ attempts' = [attempts EXCEPT ![d] = 0]
        /\ stalls'   = [stalls EXCEPT ![d] = 0]
        /\ waiting'  = Append(waiting, d)
        /\ UNCHANGED <<locked, completed, failed>>
     \/ ~CanAdd(d) /\ UNCHANGED jobVars
  /\ UNCHANGED enabled

\* The database or Redis fails: the tick job fails, the rest is not added.
TickFail(t) ==
  /\ todo[t] # {}
  /\ todo' = [todo EXCEPT ![t] = {}]
  /\ UNCHANGED <<enabled, jobVars>>

-----------------------------------------------------------------------------
(* The queue.                                                              *)

\* A free handler slot takes the next job and its lock.
Take ==
  /\ waiting # <<>>
  /\ Cardinality({d \in Active : locked[d]}) < Concurrency
  /\ LET d == Head(waiting) IN
       /\ job'    = [job EXCEPT ![d] = "active"]
       /\ locked' = [locked EXCEPT ![d] = TRUE]
  /\ waiting' = Tail(waiting)
  /\ UNCHANGED <<enabled, todo, attempts, stalls, completed, failed>>

\* The jobs a list of finished jobs forgets when one more is added, and keeps.
Evicted(s) == IF Len(s) > Retain THEN {Head(s)} ELSE {}
Kept(s)    == IF Len(s) > Retain THEN Tail(s) ELSE s

\* d's job is finished and kept; the oldest one beyond Retain is removed.
Finish(d, state, list) ==
  /\ job' = [e \in Device |-> IF e \in Evicted(Append(list, d)) THEN "none"
                              ELSE IF e = d THEN state ELSE job[e]]
  /\ locked' = [locked EXCEPT ![d] = FALSE]

\* handle returned.
Complete(d) ==
  /\ job[d] = "active" /\ locked[d]
  /\ Finish(d, "completed", completed)
  /\ completed' = Kept(Append(completed, d))
  /\ UNCHANGED <<enabled, todo, attempts, stalls, waiting, failed>>

\* Mutant: attempts are not counted.
AttemptsNotCounted(d) == 0

\* The attempts made once the one that runs has failed.
AttemptsMade(d) == attempts[d] + 1

\* Mutant: no limit of attempts.
RetryAlways(d) ==
  /\ job[d] = "active" /\ locked[d]
  /\ attempts' = [attempts EXCEPT ![d] = AttemptsMade(d)]
  /\ job'      = [job EXCEPT ![d] = "delayed"]
  /\ locked'   = [locked EXCEPT ![d] = FALSE]
  /\ UNCHANGED <<enabled, todo, stalls, waiting, completed, failed>>

\* handle threw, with attempts left: the job waits for its backoff.
Retry(d) ==
  /\ job[d] = "active" /\ locked[d]
  /\ AttemptsMade(d) < MaxAttempts
  /\ attempts' = [attempts EXCEPT ![d] = AttemptsMade(d)]
  /\ job'      = [job EXCEPT ![d] = "delayed"]
  /\ locked'   = [locked EXCEPT ![d] = FALSE]
  /\ UNCHANGED <<enabled, todo, stalls, waiting, completed, failed>>

\* handle threw for the last time.
Fail(d) ==
  /\ job[d] = "active" /\ locked[d]
  /\ AttemptsMade(d) >= MaxAttempts
  /\ attempts' = [attempts EXCEPT ![d] = AttemptsMade(d)]
  /\ Finish(d, "failed", failed)
  /\ failed' = Kept(Append(failed, d))
  /\ UNCHANGED <<enabled, todo, stalls, waiting, completed>>

\* The backoff is over.
Promote(d) ==
  /\ job[d] = "delayed"
  /\ job'     = [job EXCEPT ![d] = "waiting"]
  /\ waiting' = Append(waiting, d)
  /\ UNCHANGED <<enabled, todo, attempts, stalls, locked, completed, failed>>

\* A handler's process stalls for longer than the lock lasts.
LoseLock(d) ==
  /\ job[d] = "active" /\ locked[d]
  /\ locked' = [locked EXCEPT ![d] = FALSE]
  /\ UNCHANGED <<enabled, todo, job, attempts, stalls, waiting, completed,
                 failed>>

\* The worker process dies, with its ticks and its handlers.
Crash ==
  /\ \/ \E t \in Tick : todo[t] # {}
     \/ \E d \in Device : locked[d]
  /\ todo'   = [t \in Tick |-> {}]
  /\ locked' = [d \in Device |-> FALSE]
  /\ UNCHANGED <<enabled, job, attempts, stalls, waiting, completed, failed>>

\* May a stalled job be tried again?
PutBack(d) == stalls[d] < MaxStalled

\* The stalled check finds an active job nobody holds.
Recover(d) ==
  /\ job[d] = "active" /\ ~locked[d]
  /\ \/ /\ PutBack(d)
        /\ stalls'  = [stalls EXCEPT ![d] = @ + 1]
        /\ job'     = [job EXCEPT ![d] = "waiting"]
        /\ waiting' = <<d>> \o waiting
        /\ UNCHANGED <<locked, failed>>
     \/ /\ ~PutBack(d)
        /\ Finish(d, "failed", failed)
        /\ failed' = Kept(Append(failed, d))
        /\ UNCHANGED <<stalls, waiting>>
  /\ UNCHANGED <<enabled, todo, attempts, completed>>

-----------------------------------------------------------------------------
(* The API: POST or PATCH enabled, and PATCH disabled or DELETE.           *)

Enable(d) ==
  /\ d \notin enabled
  /\ enabled' = enabled \cup {d}
  /\ UNCHANGED <<todo, jobVars>>

Disable(d) ==
  /\ d \in enabled
  /\ enabled' = enabled \ {d}
  /\ UNCHANGED <<todo, jobVars>>

-----------------------------------------------------------------------------
Settle(d) == Complete(d) \/ Retry(d) \/ Fail(d)

Next ==
  \/ \E t \in Tick : TickFire(t) \/ TickFail(t)
  \/ \E t \in Tick, d \in Device : TickAdd(t, d)
  \/ Take
  \/ \E d \in Device : \/ Settle(d) \/ Promote(d) \/ LoseLock(d) \/ Recover(d)
                       \/ Enable(d) \/ Disable(d)
  \/ Crash

Spec == Init /\ [][Next]_vars

\* Ticks fire every minute and do not fail before reaching a device for ever;
\* handlers, backoffs and the stalled check are on timers; a worker process
\* is restarted.
Fairness ==
  /\ WF_vars(\E t \in Tick : TickFire(t))
  /\ \A t \in Tick, d \in Device : SF_vars(TickAdd(t, d))
  /\ WF_vars(Take)
  /\ \A d \in Device : /\ WF_vars(Settle(d))
                       /\ WF_vars(Promote(d))
                       /\ WF_vars(Recover(d))

FairSpec == Spec /\ Fairness

-----------------------------------------------------------------------------
(* Properties.                                                             *)

TypeOK ==
  /\ enabled   \subseteq Device
  /\ todo      \in [Tick -> SUBSET Device]
  /\ job       \in [Device -> JobState]
  /\ attempts  \in [Device -> 0..MaxAttempts]
  /\ stalls    \in [Device -> 0..MaxStalled]
  /\ locked    \in [Device -> BOOLEAN]
  /\ waiting   \in Seq(Device)
  /\ completed \in Seq(Device)
  /\ failed    \in Seq(Device)

\* "Prevents unbounded queue growth when polls take longer than one tick"
\* (runCompanyTick): whatever the ticks, retries, stalls and crashes, a device
\* is in the wait list at most once and only while its job waits, and at most
\* Retain jobs of each outcome are kept, each of a job in that state.
QueueStaysSmall ==
  /\ \A s \in {waiting, completed, failed} :
       Cardinality(Listed(s)) = Len(s)
  /\ Listed(waiting)   = {d \in Device : job[d] = "waiting"}
  /\ Listed(completed) = {d \in Device : job[d] = "completed"}
  /\ Listed(failed)    = {d \in Device : job[d] = "failed"}
  /\ Len(completed) <= Retain /\ Len(failed) <= Retain

\* An enabled device with no job is polled before long, even when ticks fail
\* or crash half-way and the queue is busy with other devices.
FreeDeviceIsPolled ==
  \A d \in Device :
    d \in enabled /\ job[d] = "none" ~> job[d] = "active" \/ d \notin enabled

\* Every job comes to an end, even if the process dies whenever it runs: the
\* retries and the stalls a job is allowed are both finite.
JobsSettle ==
  \A d \in Device : job[d] \in Outstanding ~> job[d] \notin Outstanding

\* A device that is disabled and stays so is polled no more after the jobs
\* already queued, stale listings included.
DisabledDeviceDrains ==
  \A d \in Device :
    <>[](d \notin enabled) => <>[](job[d] \notin Outstanding)

\* runCompanyTick: "enqueue one poll job per enabled device in the company",
\* every minute: a device that stays enabled is polled again and again.
EnabledDeviceIsPolledForEver ==
  \A d \in Device : <>[](d \in enabled) => []<>(job[d] = "active")

=============================================================================
