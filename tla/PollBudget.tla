----------------------------- MODULE PollBudget -----------------------------
(***************************************************************************)
(* The per-company concurrency gate of src/polling/budget.ts.              *)
(*                                                                         *)
(* Each call of acquire reads the length of a Redis list, pushes its token *)
(* if there is room, and takes the slot if its RPUSH answered 1; otherwise *)
(* it sleeps and tries again until its deadline.  Every command is an      *)
(* await of its own, so calls of several worker processes interleave       *)
(* between them.  The key expires as a whole, 60 s after the last PEXPIRE, *)
(* whether or not the slot is still in use; a process may die anywhere.    *)
(*                                                                         *)
(* handle does not call acquire today: license enforcement is switched off *)
(* (a test guards that).  The class is kept to be switched on again.       *)
(***************************************************************************)
EXTENDS Naturals, Sequences, FiniteSets

CONSTANTS
  Call,       \* the calls of acquire, each with a token of its own
  MaxPolls,   \* tier.maxConcurrentPolls
  MaxTries    \* bound: loop iterations before the deadline

ASSUME BudgetAssumption == MaxPolls \in Nat \ {0} /\ MaxTries \in Nat \ {0}

VARIABLES
  list,    \* the Redis list: tokens, oldest first; <<>> when there is no key
  ttl,     \* does the key have a TTL
  pc,      \* where each call is
  tries    \* loop iterations a call has made

vars == <<list, ttl, pc, tries>>

\* waiting: about to LLEN; pushing: about to RPUSH; arming: about to PEXPIRE;
\* denied: about to look at the deadline; holding: acquire has returned;
\* released, refused (LICENSE_BUDGET_EXCEEDED), failed (a Redis error), dead.
Location == {"waiting", "pushing", "arming", "denied", "holding",
             "released", "refused", "failed", "dead"}
Over     == {"released", "refused", "failed", "dead"}

Init ==
  /\ list  = <<>>
  /\ ttl   = FALSE
  /\ pc    = [c \in Call |-> "waiting"]
  /\ tries = [c \in Call |-> 0]

Goto(c, l) == pc' = [pc EXCEPT ![c] = l]

\* semaphoreCount and the comparison with max.
Count(c) ==
  /\ pc[c] = "waiting"
  /\ Goto(c, IF Len(list) < MaxPolls THEN "pushing" ELSE "denied")
  /\ UNCHANGED <<list, ttl, tries>>

\* Mutant: the count before the push is trusted, its answer is not looked at.
WonAnyPush(l) == TRUE

\* Does acquireSlot's RPUSH, which left the list at l, take the slot?  Only the
\* first token of a list does, whatever the tier allows (`ok !== 1`).
Won(l) == Len(l) = 1

\* RPUSH: the token is in the list whether or not it took the slot.
Push(c) ==
  /\ pc[c] = "pushing"
  /\ list' = Append(list, c)
  /\ Goto(c, IF Won(list') THEN "arming" ELSE "denied")
  /\ UNCHANGED <<ttl, tries>>

\* PEXPIRE of the key, if it is still there; acquire returns.
Arm(c) ==
  /\ pc[c] = "arming"
  /\ ttl' = (list # <<>>)
  /\ Goto(c, "holding")
  /\ UNCHANGED <<list, tries>>

\* Mutant: one iteration too many.
OutOfTimeLate(c) == tries[c] > MaxTries

\* After MaxTries iterations the deadline has certainly passed.
OutOfTime(c) == tries[c] >= MaxTries

\* The deadline has not passed: sleep and try again.
Sleep(c) ==
  /\ pc[c] = "denied"
  /\ ~OutOfTime(c)
  /\ tries' = [tries EXCEPT ![c] = @ + 1]
  /\ Goto(c, "waiting")
  /\ UNCHANGED <<list, ttl>>

\* Mutant: the deadline is never acted upon.
RefuseNever(c) == FALSE

\* The deadline has passed, at whatever iteration: err.budgetExceeded.
Refuse(c) ==
  /\ pc[c] = "denied"
  /\ Goto(c, "refused")
  /\ UNCHANGED <<list, ttl, tries>>

\* LREM key 1 token: the first occurrence of the token goes, if there is one.
Lrem(l, t) ==
  IF \E i \in 1..Len(l) : l[i] = t
  THEN LET k == CHOOSE i \in 1..Len(l) :
                  l[i] = t /\ \A j \in 1..(i - 1) : l[j] # t
       IN  SubSeq(l, 1, k - 1) \o SubSeq(l, k + 1, Len(l))
  ELSE l

\* Mutant: LPOP, which takes the oldest token whoever it belongs to.
ReleaseOldest(c) ==
  /\ pc[c] = "holding"
  /\ list' = IF list = <<>> THEN list ELSE Tail(list)
  /\ ttl' = (ttl /\ list' # <<>>)
  /\ Goto(c, "released")
  /\ UNCHANGED tries

\* The release function acquire returned.  An empty list is no key.
Release(c) ==
  /\ pc[c] = "holding"
  /\ list' = Lrem(list, c)
  /\ ttl' = (ttl /\ list' # <<>>)
  /\ Goto(c, "released")
  /\ UNCHANGED tries

\* A command fails, and acquire or release throws; or the process dies.
Stop(c) ==
  /\ pc[c] \notin Over
  /\ \E l \in {"failed", "dead"} : Goto(c, l)
  /\ UNCHANGED <<list, ttl, tries>>

\* RPUSH took effect but its answer was lost.
PushUnanswered(c) ==
  /\ pc[c] = "pushing"
  /\ list' = Append(list, c)
  /\ Goto(c, "failed")
  /\ UNCHANGED <<ttl, tries>>

\* The key expires: nothing refreshes it while the slot is held.
Expire ==
  /\ ttl
  /\ list' = <<>>
  /\ ttl'  = FALSE
  /\ UNCHANGED <<pc, tries>>

Step(c) == Count(c) \/ Push(c) \/ Arm(c) \/ Sleep(c) \/ Refuse(c)

Next ==
  \/ \E c \in Call : Step(c) \/ Release(c) \/ Stop(c) \/ PushUnanswered(c)
  \/ Expire

Spec == Init /\ [][Next]_vars

\* Redis answers or fails, timers fire, polls end, and TTLs run out.
Fairness ==
  /\ \A c \in Call : WF_vars(Step(c)) /\ WF_vars(Release(c))
  /\ WF_vars(Expire)

FairSpec == Spec /\ Fairness

-----------------------------------------------------------------------------
(* Properties.                                                             *)

TypeOK ==
  /\ list  \in Seq(Call)
  /\ ttl   \in BOOLEAN
  /\ pc    \in [Call -> Location]
  /\ tries \in [Call -> 0..MaxTries]

InUse == {"arming", "holding"}

Listed(c) == \E i \in 1..Len(list) : list[i] = c

\* "License tier caps the maxConcurrentPolls" (budget.ts:4-8), "race-free under
\* single Redis" (acquireSlot): though a call decides on a count that is stale
\* by the time it pushes, the slots in use whose tokens have not expired are
\* never more than the tier allows.  That the gate admits as many is not claimed:
\* see Won.
NeverOverTheTier ==
  Cardinality({c \in Call : pc[c] \in InUse /\ Listed(c)}) <= MaxPolls

\* "to avoid releasing someone else's token if our TTL expired" (release): a
\* step that ends a call leaves every other call's tokens where they were.
ReleaseTakesOnlyOwnToken ==
  [][\A c, e \in Call :
       /\ pc[c] = "holding" /\ pc'[c] = "released" /\ e # c
       /\ Listed(e)
       => Listed(e)']_vars

\* acquire ends, with a slot or with an error, before long.
AcquireEnds ==
  \A c \in Call :
    pc[c] \in {"waiting", "pushing", "arming", "denied"}
      ~> pc[c] \in {"holding"} \cup Over
=============================================================================
