------------------------ MODULE PollSchedulerProofs ------------------------
(***************************************************************************)
(* For any number of devices, ticks, attempts and retained jobs: the queue *)
(* holds each device at most once, in the list its job's state says, and a *)
(* job that may still run has an attempt left.                             *)
(***************************************************************************)
EXTENDS PollScheduler, FiniteSetTheorems, FunctionTheorems, TLAPS

Distinct(s) == \A i, j \in 1 .. Len(s) : s[i] = s[j] => i = j

InState(state) == {d \in Device : job[d] = state}

\* Each list has the jobs of its state, each of them once.
ListsAgree ==
  /\ Distinct(waiting)   /\ Listed(waiting)   = InState("waiting")
  /\ Distinct(completed) /\ Listed(completed) = InState("completed")
  /\ Distinct(failed)    /\ Listed(failed)    = InState("failed")

Retained == Len(completed) <= Retain /\ Len(failed) <= Retain

\* A job that is not finished has an attempt left, and only the job that runs
\* is locked.
AttemptLeft == \A d \in Device : job[d] \in Outstanding => attempts[d] < MaxAttempts
LockedRuns  == \A d \in Device : locked[d] => job[d] = "active"

IInv == TypeOK /\ ListsAgree /\ Retained /\ AttemptLeft /\ LockedRuns

-----------------------------------------------------------------------------
(* Lists without repetition.                                               *)

LEMMA ListedAppend ==
  ASSUME NEW s \in Seq(Device), NEW d \in Device
  PROVE  /\ Listed(Append(s, d)) = Listed(s) \cup {d}
         /\ Distinct(s) /\ d \notin Listed(s) => Distinct(Append(s, d))
<1>1. /\ Len(Append(s, d)) = Len(s) + 1 /\ Len(s) \in Nat
      /\ Append(s, d)[Len(s) + 1] = d
      /\ \A i \in 1 .. Len(s) : Append(s, d)[i] = s[i]
  OBVIOUS
<1>2. 1 .. Len(s) + 1 = (1 .. Len(s)) \cup {Len(s) + 1}
  BY <1>1
<1> QED BY <1>1, <1>2 DEF Listed, Distinct

LEMMA ListedTail ==
  ASSUME NEW s \in Seq(Device), s # <<>>, Distinct(s)
  PROVE  /\ Head(s) \in Device /\ Head(s) \in Listed(s)
         /\ Tail(s) \in Seq(Device) /\ Len(Tail(s)) = Len(s) - 1
         /\ Listed(Tail(s)) = Listed(s) \ {Head(s)}
         /\ Distinct(Tail(s))
<1>1. /\ Len(s) \in Nat \ {0} /\ Head(s) = s[1] /\ Head(s) \in Device
      /\ Tail(s) \in Seq(Device) /\ Len(Tail(s)) = Len(s) - 1
      /\ \A i \in 1 .. Len(s) - 1 : Tail(s)[i] = s[i + 1]
  OBVIOUS
<1>2. Distinct(Tail(s))
  BY <1>1 DEF Distinct
<1>3. ASSUME NEW x PROVE x \in Listed(Tail(s)) <=> x \in Listed(s) \ {Head(s)}
  <2>1. ASSUME x \in Listed(Tail(s)) PROVE x \in Listed(s) \ {Head(s)}
    <3>1. PICK i \in 1 .. Len(s) - 1 : x = s[i + 1]
      BY <1>1, <2>1 DEF Listed
    <3>2. i + 1 \in 1 .. Len(s) /\ 1 \in 1 .. Len(s) /\ i + 1 # 1
      BY <1>1, <3>1
    <3> QED BY <1>1, <3>1, <3>2 DEF Listed, Distinct
  <2>2. ASSUME x \in Listed(s), x # Head(s) PROVE x \in Listed(Tail(s))
    <3>1. PICK i \in 1 .. Len(s) : x = s[i]
      BY <2>2 DEF Listed
    <3>2. i - 1 \in 1 .. Len(s) - 1 /\ (i - 1) + 1 = i
      BY <1>1, <2>2, <3>1
    <3>3. Tail(s)[i - 1] = x
      BY <1>1, <3>1, <3>2
    <3> QED BY <1>1, <3>2, <3>3 DEF Listed
  <2> QED BY <2>1, <2>2
<1>4. Head(s) \in Listed(s)
  BY <1>1 DEF Listed
<1> QED BY <1>1, <1>2, <1>3, <1>4

LEMMA ListedPush ==
  ASSUME NEW s \in Seq(Device), NEW d \in Device, Distinct(s), d \notin Listed(s)
  PROVE  /\ <<d>> \o s \in Seq(Device)
         /\ Listed(<<d>> \o s) = Listed(s) \cup {d}
         /\ Distinct(<<d>> \o s)
<1> DEFINE t == <<d>> \o s
<1>1. /\ t \in Seq(Device) /\ Len(t) = Len(s) + 1 /\ Len(s) \in Nat
      /\ t[1] = d /\ \A i \in 2 .. Len(s) + 1 : t[i] = s[i - 1]
  OBVIOUS
<1>2. \A i \in 2 .. Len(s) + 1 : i - 1 \in 1 .. Len(s) /\ s[i - 1] \in Listed(s)
  BY <1>1 DEF Listed
<1>3. \A i \in 1 .. Len(s) : i + 1 \in 2 .. Len(s) + 1 /\ t[i + 1] = s[i]
  BY <1>1
<1>4. 1 .. Len(t) = {1} \cup (2 .. Len(s) + 1)
  BY <1>1
<1> HIDE DEF t
<1>5. Listed(t) = Listed(s) \cup {d}
  <2>1. ASSUME NEW x \in Listed(t) PROVE x \in Listed(s) \cup {d}
    BY <1>1, <1>2, <1>4, <2>1 DEF Listed
  <2>2. d \in Listed(t)
    BY <1>1, <1>4 DEF Listed
  <2>3. ASSUME NEW x \in Listed(s) PROVE x \in Listed(t)
    <3>1. PICK i \in 1 .. Len(s) : x = s[i]
      BY <2>3 DEF Listed
    <3> QED BY <1>3, <1>4, <3>1 DEF Listed
  <2> QED BY <2>1, <2>2, <2>3
<1>6. Distinct(t)
  <2> SUFFICES ASSUME NEW i \in 1 .. Len(t), NEW j \in 1 .. Len(t), t[i] = t[j]
               PROVE  i = j
    BY DEF Distinct
  <2>1. CASE i = 1 \/ j = 1
    BY <1>1, <1>2, <1>4, <2>1
  <2>2. CASE i # 1 /\ j # 1
    <3>1. i - 1 \in 1 .. Len(s) /\ j - 1 \in 1 .. Len(s) /\ s[i - 1] = s[j - 1]
      BY <1>1, <1>2, <1>4, <2>2
    <3>2. i - 1 = j - 1
      BY <3>1 DEF Distinct
    <3> QED BY <1>1, <3>2
  <2> QED BY <2>1, <2>2
<1> QED BY <1>1, <1>5, <1>6 DEF t

\* A list without repetition is as long as it has members.
LEMMA DistinctCounts ==
  ASSUME NEW s \in Seq(Device), Distinct(s)
  PROVE  Cardinality(Listed(s)) = Len(s)
<1>1. Len(s) \in Nat /\ s \in [1 .. Len(s) -> Listed(s)]
  BY DEF Listed
<1>2. s \in Bijection(1 .. Len(s), Listed(s))
  BY <1>1 DEF Distinct, Listed, Bijection, Injection, IsInjective, Surjection
<1> QED BY <1>1, <1>2, FS_CountingElements DEF ExistsBijection

-----------------------------------------------------------------------------
(* Jobs that finish.                                                       *)

\* One more finished job: what is kept, and what is forgotten.
LEMMA KeptList ==
  ASSUME NEW s \in Seq(Device), NEW d \in Device, Distinct(s), d \notin Listed(s),
         Len(s) <= Retain
  PROVE  LET x == Append(s, d)
         IN  /\ Kept(x) \in Seq(Device) /\ Distinct(Kept(x)) /\ Len(Kept(x)) <= Retain
             /\ Evicted(x) \subseteq Listed(s) \cup {d}
             /\ Listed(Kept(x)) = (Listed(s) \cup {d}) \ Evicted(x)
<1> DEFINE x == Append(s, d)
<1>1. /\ x \in Seq(Device) /\ Len(x) = Len(s) + 1 /\ Len(s) \in Nat
      /\ x # <<>> /\ Retain \in Nat
  <2>1. /\ x \in Seq(Device) /\ Len(x) = Len(s) + 1 /\ Len(s) \in Nat
    OBVIOUS
  <2>2. x # <<>>
    BY <2>1
  <2> QED BY <2>1, <2>2, LimitAssumption
<1>2. Listed(x) = Listed(s) \cup {d} /\ Distinct(x)
  BY ListedAppend
<1> HIDE DEF x
<1>3. CASE Len(x) > Retain
  <2>1. /\ Head(x) \in Listed(x) /\ Tail(x) \in Seq(Device) /\ Len(Tail(x)) = Len(x) - 1
        /\ Listed(Tail(x)) = Listed(x) \ {Head(x)} /\ Distinct(Tail(x))
    BY <1>1, <1>2, ListedTail
  <2> QED BY <1>1, <1>2, <1>3, <2>1 DEF Kept, Evicted, x
<1>4. CASE ~(Len(x) > Retain)
  BY <1>1, <1>2, <1>4 DEF Kept, Evicted, x
<1> QED BY <1>3, <1>4

LEMMA FinishMoves ==
  ASSUME TypeOK, LockedRuns, NEW d \in Device, job[d] = "active",
         NEW state \in {"completed", "failed"}, NEW s \in Seq(Device), Distinct(s),
         Listed(s) = InState(state), Len(s) <= Retain, Finish(d, state, s)
  PROVE  LET x == Kept(Append(s, d))
         IN  /\ job' \in [Device -> JobState] /\ locked' \in [Device -> BOOLEAN]
             /\ x \in Seq(Device) /\ Distinct(x) /\ Len(x) <= Retain
             /\ Listed(x) = InState(state)'
             /\ \A other \in {"waiting", "completed", "failed"} \ {state} :
                  InState(other)' = InState(other)
             /\ \A e \in Device : job'[e] \in Outstanding => job[e] \in Outstanding
             /\ LockedRuns'
<1> DEFINE gone == Evicted(Append(s, d))
           x    == Kept(Append(s, d))
<1>1. d \notin Listed(s) /\ Listed(s) = {e \in Device : job[e] = state}
  BY DEF InState
<1>2. /\ x \in Seq(Device) /\ Distinct(x) /\ Len(x) <= Retain
      /\ gone \subseteq Listed(s) \cup {d}
      /\ Listed(x) = (Listed(s) \cup {d}) \ gone
  BY <1>1, KeptList
<1>3. job' = [e \in Device |-> IF e \in gone THEN "none"
                               ELSE IF e = d THEN state ELSE job[e]]
  BY DEF Finish
<1> HIDE DEF gone, x
<1>4. \A e \in Device : job[e] \in JobState
  BY DEF TypeOK
<1>5. job' \in [Device -> JobState]
  BY <1>3, <1>4 DEF JobState
<1>6. locked' = [locked EXCEPT ![d] = FALSE] /\ locked' \in [Device -> BOOLEAN]
  BY DEF Finish, TypeOK
<1>7. \A e \in Device : job'[e] = IF e \in gone THEN "none"
                                  ELSE IF e = d THEN state ELSE job[e]
  BY <1>3
<1>8. \A e \in gone : e = d \/ job[e] = state
  BY <1>1, <1>2
<1>9. Listed(x) = InState(state)'
  BY <1>1, <1>2, <1>7 DEF InState
<1>10. \A other \in {"waiting", "completed", "failed"} \ {state} :
         InState(other)' = InState(other)
  BY <1>7, <1>8 DEF InState
<1>11. \A e \in Device : job'[e] \in Outstanding => job[e] \in Outstanding
  BY <1>7 DEF Outstanding
<1>12. \A e \in Device : locked'[e] => locked[e] /\ e # d /\ job[e] = "active" /\ e \notin gone
  <2>1. \A e \in Device : locked'[e] => locked[e] /\ e # d
    BY <1>6 DEF TypeOK
  <2>2. \A e \in Device : locked[e] => job[e] = "active"
    BY DEF LockedRuns
  <2> QED BY <1>8, <2>1, <2>2
<1>13. LockedRuns'
  BY <1>7, <1>12 DEF LockedRuns
<1> QED BY <1>2, <1>5, <1>6, <1>9, <1>10, <1>11, <1>13 DEF x

-----------------------------------------------------------------------------
LEMMA InitIInv == Init => IInv
<1> SUFFICES ASSUME Init PROVE IInv
  OBVIOUS
<1>1. TypeOK
  BY LimitAssumption DEF Init, TypeOK, JobState
<1>2. Listed(<<>>) = {} /\ Distinct(<<>>) /\ Len(<<>>) = 0
  BY DEF Listed, Distinct
<1>3. ListsAgree /\ Retained
  BY <1>2, LimitAssumption DEF Init, ListsAgree, InState, Retained
<1>4. AttemptLeft /\ LockedRuns
  BY DEF Init, AttemptLeft, LockedRuns, Outstanding
<1> QED BY <1>1, <1>3, <1>4 DEF IInv

LEMMA Typed ==
  ASSUME TypeOK, NEW d \in Device
  PROVE  /\ job[d] \in JobState /\ locked[d] \in BOOLEAN
         /\ attempts[d] \in Nat /\ stalls[d] \in Nat /\ MaxAttempts \in Nat /\ MaxStalled \in Nat
<1>1. attempts[d] \in 0 .. MaxAttempts /\ stalls[d] \in 0 .. MaxStalled
  BY DEF TypeOK
<1> QED BY <1>1, LimitAssumption DEF TypeOK

LEMMA TickAddKeeps ==
  ASSUME IInv, NEW t \in Tick, NEW d \in Device, TickAdd(t, d)
  PROVE  IInv'
<1>1. /\ todo' \in [Tick -> SUBSET Device] /\ enabled' = enabled
  BY DEF TickAdd, IInv, TypeOK
<1>2. CASE UNCHANGED jobVars
  BY <1>1, <1>2 DEF IInv, TypeOK, ListsAgree, Retained, AttemptLeft, LockedRuns, InState, jobVars
<1>3. CASE ~UNCHANGED jobVars
  <2>1. /\ job[d] = "none" /\ job' = [job EXCEPT ![d] = "waiting"]
        /\ attempts' = [attempts EXCEPT ![d] = 0] /\ stalls' = [stalls EXCEPT ![d] = 0]
        /\ waiting' = Append(waiting, d) /\ UNCHANGED <<locked, completed, failed>>
    BY <1>3 DEF TickAdd, CanAdd
  <2>2. TypeOK'
    BY <1>1, <2>1, LimitAssumption DEF IInv, TypeOK, JobState
  <2>3. d \notin Listed(waiting) /\ waiting \in Seq(Device)
    BY <2>1 DEF IInv, ListsAgree, InState, TypeOK
  <2>4. Distinct(waiting') /\ Listed(waiting') = Listed(waiting) \cup {d}
    BY <2>1, <2>3, ListedAppend DEF IInv, ListsAgree
  <2>5. /\ InState("waiting")' = InState("waiting") \cup {d}
        /\ InState("completed")' = InState("completed") /\ InState("failed")' = InState("failed")
    BY <2>1 DEF IInv, TypeOK, InState
  <2>6. ListsAgree' /\ Retained'
    BY <2>1, <2>4, <2>5 DEF IInv, ListsAgree, Retained
  <2>7. AttemptLeft' /\ LockedRuns'
    BY <2>1, LimitAssumption DEF IInv, TypeOK, AttemptLeft, LockedRuns, Outstanding
  <2> QED BY <2>2, <2>6, <2>7 DEF IInv
<1> QED BY <1>2, <1>3

LEMMA TakeKeeps ==
  ASSUME IInv, Take
  PROVE  IInv'
<1> DEFINE d == Head(waiting)
<1>1. /\ waiting \in Seq(Device) /\ waiting # <<>> /\ Distinct(waiting)
      /\ Listed(waiting) = InState("waiting")
  BY DEF Take, IInv, TypeOK, ListsAgree
<1>2. /\ d \in Device /\ job[d] = "waiting" /\ waiting' \in Seq(Device)
      /\ Distinct(waiting') /\ Listed(waiting') = InState("waiting") \ {d}
  BY <1>1, ListedTail DEF Take, InState
<1>3. /\ job' = [job EXCEPT ![d] = "active"] /\ locked' = [locked EXCEPT ![d] = TRUE]
      /\ UNCHANGED <<enabled, todo, attempts, stalls, completed, failed>>
  BY DEF Take
<1> HIDE DEF d
<1>4. TypeOK'
  BY <1>2, <1>3 DEF IInv, TypeOK, JobState
<1>5. /\ InState("waiting")' = InState("waiting") \ {d}
      /\ InState("completed")' = InState("completed") /\ InState("failed")' = InState("failed")
  BY <1>2, <1>3 DEF IInv, TypeOK, InState
<1>6. ListsAgree' /\ Retained'
  BY <1>2, <1>3, <1>5 DEF IInv, ListsAgree, Retained
<1>7. AttemptLeft' /\ LockedRuns'
  BY <1>2, <1>3 DEF IInv, TypeOK, AttemptLeft, LockedRuns, Outstanding
<1> QED BY <1>4, <1>6, <1>7 DEF IInv

LEMMA CompleteKeeps ==
  ASSUME IInv, NEW d \in Device, Complete(d)
  PROVE  IInv'
<1>1. /\ TypeOK /\ LockedRuns /\ job[d] = "active" /\ completed \in Seq(Device)
      /\ Distinct(completed) /\ Listed(completed) = InState("completed")
      /\ Len(completed) <= Retain /\ Finish(d, "completed", completed)
  BY DEF Complete, IInv, ListsAgree, Retained, TypeOK
<1>2. /\ completed' = Kept(Append(completed, d))
      /\ UNCHANGED <<enabled, todo, attempts, stalls, waiting, failed>>
  BY DEF Complete
<1>3. /\ job' \in [Device -> JobState] /\ locked' \in [Device -> BOOLEAN]
      /\ completed' \in Seq(Device) /\ Distinct(completed') /\ Len(completed') <= Retain
      /\ Listed(completed') = InState("completed")'
      /\ InState("waiting")' = InState("waiting") /\ InState("failed")' = InState("failed")
      /\ \A e \in Device : job'[e] \in Outstanding => job[e] \in Outstanding
      /\ LockedRuns'
  BY <1>1, <1>2, FinishMoves
<1>4. TypeOK'
  BY <1>2, <1>3 DEF IInv, TypeOK
<1>5. ListsAgree' /\ Retained' /\ AttemptLeft'
  BY <1>2, <1>3 DEF IInv, ListsAgree, Retained, AttemptLeft
<1> QED BY <1>3, <1>4, <1>5 DEF IInv

\* The last attempt has failed, or the job has stalled too often.
LEMMA FailedKeeps ==
  ASSUME IInv, NEW d \in Device, job[d] = "active", Finish(d, "failed", failed),
         failed' = Kept(Append(failed, d)),
         attempts' \in [Device -> 0 .. MaxAttempts],
         \A e \in Device \ {d} : attempts'[e] = attempts[e],
         UNCHANGED <<enabled, todo, stalls, waiting, completed>>
  PROVE  IInv'
<1>1. /\ TypeOK /\ LockedRuns /\ failed \in Seq(Device)
      /\ Distinct(failed) /\ Listed(failed) = InState("failed") /\ Len(failed) <= Retain
  BY DEF IInv, ListsAgree, Retained, TypeOK
<1>2. /\ job' \in [Device -> JobState] /\ locked' \in [Device -> BOOLEAN]
      /\ failed' \in Seq(Device) /\ Distinct(failed') /\ Len(failed') <= Retain
      /\ Listed(failed') = InState("failed")'
      /\ InState("waiting")' = InState("waiting") /\ InState("completed")' = InState("completed")
      /\ \A e \in Device : job'[e] \in Outstanding => job[e] \in Outstanding
      /\ LockedRuns'
  BY <1>1, FinishMoves
<1>3. job'[d] \notin Outstanding
  BY DEF Finish, Outstanding
<1>4. TypeOK'
  BY <1>2 DEF IInv, TypeOK
<1>5. ListsAgree' /\ Retained' /\ AttemptLeft'
  BY <1>2, <1>3 DEF IInv, ListsAgree, Retained, AttemptLeft
<1> QED BY <1>2, <1>4, <1>5 DEF IInv

LEMMA RetryKeeps ==
  ASSUME IInv, NEW d \in Device, Retry(d)
  PROVE  IInv'
<1>1. attempts[d] \in Nat /\ MaxAttempts \in Nat
  BY Typed DEF IInv
<1>2. attempts[d] + 1 \in 0 .. MaxAttempts /\ attempts[d] + 1 < MaxAttempts
  BY <1>1 DEF Retry, AttemptsMade
<1>3. TypeOK'
  BY <1>2 DEF Retry, AttemptsMade, IInv, TypeOK, JobState
<1>4. \A state \in {"waiting", "completed", "failed"} : InState(state)' = InState(state)
  BY DEF Retry, IInv, TypeOK, InState
<1>5. ListsAgree' /\ Retained'
  BY <1>4 DEF Retry, IInv, ListsAgree, Retained
<1>6. AttemptLeft' /\ LockedRuns'
  BY <1>2 DEF Retry, AttemptsMade, IInv, TypeOK, AttemptLeft, LockedRuns, Outstanding
<1> QED BY <1>3, <1>5, <1>6 DEF IInv

LEMMA FailKeeps ==
  ASSUME IInv, NEW d \in Device, Fail(d)
  PROVE  IInv'
<1>1. attempts[d] \in Nat /\ MaxAttempts \in Nat
  BY Typed DEF IInv
<1>2. attempts[d] < MaxAttempts
  BY DEF Fail, IInv, AttemptLeft, Outstanding
<1>3. attempts[d] + 1 \in 0 .. MaxAttempts
  BY <1>1, <1>2
<1>4. /\ attempts' \in [Device -> 0 .. MaxAttempts]
      /\ \A e \in Device \ {d} : attempts'[e] = attempts[e]
  BY <1>3 DEF Fail, AttemptsMade, IInv, TypeOK
<1> QED BY <1>4, FailedKeeps DEF Fail

LEMMA PromoteKeeps ==
  ASSUME IInv, NEW d \in Device, Promote(d)
  PROVE  IInv'
<1>1. d \notin Listed(waiting) /\ waiting \in Seq(Device)
  BY DEF Promote, IInv, ListsAgree, InState, TypeOK
<1>2. TypeOK'
  BY <1>1 DEF Promote, IInv, TypeOK, JobState
<1>3. Distinct(waiting') /\ Listed(waiting') = Listed(waiting) \cup {d}
  BY <1>1, ListedAppend DEF Promote, IInv, ListsAgree
<1>4. /\ InState("waiting")' = InState("waiting") \cup {d}
      /\ InState("completed")' = InState("completed") /\ InState("failed")' = InState("failed")
  BY DEF Promote, IInv, TypeOK, InState
<1>5. ListsAgree' /\ Retained'
  BY <1>3, <1>4 DEF Promote, IInv, ListsAgree, Retained
<1>6. AttemptLeft' /\ LockedRuns'
  BY DEF Promote, IInv, TypeOK, AttemptLeft, LockedRuns, Outstanding
<1> QED BY <1>2, <1>5, <1>6 DEF IInv

LEMMA RecoverKeeps ==
  ASSUME IInv, NEW d \in Device, Recover(d)
  PROVE  IInv'
<1>1. CASE PutBack(d)
  <2>1. /\ job[d] = "active" /\ ~locked[d] /\ stalls' = [stalls EXCEPT ![d] = @ + 1]
        /\ job' = [job EXCEPT ![d] = "waiting"] /\ waiting' = <<d>> \o waiting
        /\ UNCHANGED <<enabled, todo, attempts, completed, locked, failed>>
    BY <1>1 DEF Recover
  <2>2. stalls[d] + 1 \in 0 .. MaxStalled
    BY <1>1, Typed DEF PutBack, IInv
  <2>3. d \notin Listed(waiting) /\ waiting \in Seq(Device) /\ Distinct(waiting)
    BY <2>1 DEF IInv, ListsAgree, InState, TypeOK
  <2>4. waiting' \in Seq(Device) /\ Distinct(waiting') /\ Listed(waiting') = Listed(waiting) \cup {d}
    BY <2>1, <2>3, ListedPush
  <2>5. TypeOK'
    BY <2>1, <2>2, <2>4 DEF IInv, TypeOK, JobState
  <2>6. /\ InState("waiting")' = InState("waiting") \cup {d}
        /\ InState("completed")' = InState("completed") /\ InState("failed")' = InState("failed")
    BY <2>1 DEF IInv, TypeOK, InState
  <2>7. ListsAgree' /\ Retained'
    BY <2>1, <2>4, <2>6 DEF IInv, ListsAgree, Retained
  <2>8. AttemptLeft' /\ LockedRuns'
    BY <2>1 DEF IInv, TypeOK, AttemptLeft, LockedRuns, Outstanding
  <2> QED BY <2>5, <2>7, <2>8 DEF IInv
<1>2. CASE ~PutBack(d)
  <2>1. /\ job[d] = "active" /\ Finish(d, "failed", failed)
        /\ failed' = Kept(Append(failed, d))
        /\ UNCHANGED <<enabled, todo, stalls, attempts, waiting, completed>>
    BY <1>2 DEF Recover
  <2>2. attempts' \in [Device -> 0 .. MaxAttempts]
    BY <2>1 DEF IInv, TypeOK
  <2> QED BY <2>1, <2>2, FailedKeeps
<1> QED BY <1>1, <1>2

LEMMA NextKeepsIInv == IInv /\ [Next]_vars => IInv'
<1> SUFFICES ASSUME IInv, [Next]_vars PROVE IInv'
  OBVIOUS
<1> USE DEF IInv, TypeOK, ListsAgree, Retained, AttemptLeft, LockedRuns, InState
<1>1. ASSUME NEW t \in Tick, TickFire(t) PROVE IInv'
  BY <1>1 DEF TickFire, Listings, jobVars
<1>2. ASSUME NEW t \in Tick, TickFail(t) PROVE IInv'
  BY <1>2 DEF TickFail, jobVars
<1>3. ASSUME NEW d \in Device, LoseLock(d) PROVE IInv'
  BY <1>3 DEF LoseLock
<1>4. CASE Crash
  BY <1>4 DEF Crash
<1>5. ASSUME NEW d \in Device, Enable(d) \/ Disable(d) PROVE IInv'
  BY <1>5 DEF Enable, Disable, jobVars
<1>6. CASE UNCHANGED vars
  BY <1>6 DEF vars, jobVars
<1> QED BY <1>1, <1>2, <1>3, <1>4, <1>5, <1>6, TickAddKeeps, TakeKeeps, CompleteKeeps,
           RetryKeeps, FailKeeps, PromoteKeeps, RecoverKeeps DEF Next, Settle

LEMMA Invariant == Spec => []IInv
BY InitIInv, NextKeepsIInv, PTL DEF Spec

-----------------------------------------------------------------------------
(* The theorems.                                                           *)

\* The variables of PollScheduler keep to their types; in particular no job
\* is tried more than MaxAttempts times or put back more than MaxStalled times.
THEOREM SchedulerTypeCorrect == Spec => []TypeOK
<1>1. IInv => TypeOK
  BY DEF IInv
<1> QED BY <1>1, Invariant, PTL

\* Whatever ticks overlap, jobs stall and processes die, no device waits
\* twice and no more than Retain jobs of each outcome are kept (the comment on
\* runCompanyTick: "Prevents unbounded queue growth").
THEOREM QueueAlwaysSmall == Spec => []QueueStaysSmall
<1>1. ASSUME IInv PROVE QueueStaysSmall
  <2>1. \A s \in {waiting, completed, failed} : s \in Seq(Device) /\ Distinct(s)
    BY <1>1 DEF IInv, TypeOK, ListsAgree
  <2>2. \A s \in {waiting, completed, failed} : Cardinality(Listed(s)) = Len(s)
    BY <2>1, DistinctCounts
  <2> QED BY <1>1, <2>2 DEF IInv, ListsAgree, InState, Retained, QueueStaysSmall
<1> QED BY <1>1, Invariant, PTL

\* What a job has left: attempts, and stalls it survives.
Left(d) == (MaxAttempts - attempts[d]) + (MaxStalled - stalls[d])

\* Whenever a run of a job ends without the job being finished, be it by an
\* error or by the death of its process, it has used up some of what it has
\* left; nothing gives it back as long as the job exists, and less than
\* nothing cannot be left.  So a job runs at most MaxAttempts + MaxStalled
\* times: the safety half of JobsSettle (attempts: 3, scheduler.ts:114).
THEOREM RunsAreFinite ==
  Spec => /\ [](\A d \in Device : Left(d) \in Nat)
          /\ [][\A d \in Device :
                  job[d] # "none" =>
                    /\ Left(d)' <= Left(d)
                    /\ job[d] = "active" /\ job'[d] \in Outstanding \ {"active"} =>
                         Left(d)' < Left(d)]_vars
<1>1. ASSUME IInv, NEW d \in Device PROVE Left(d) \in Nat
  <2>1. attempts[d] \in 0 .. MaxAttempts /\ stalls[d] \in 0 .. MaxStalled
    BY <1>1 DEF IInv, TypeOK
  <2> QED BY <2>1, LimitAssumption DEF Left
<1>2. ASSUME IInv, [Next]_vars, NEW d \in Device, job[d] # "none"
      PROVE  /\ Left(d)' <= Left(d)
             /\ job[d] = "active" /\ job'[d] \in Outstanding \ {"active"} => Left(d)' < Left(d)
  <2>0. /\ attempts[d] \in Nat /\ stalls[d] \in Nat
        /\ MaxAttempts \in Nat /\ MaxStalled \in Nat
    BY <1>2, Typed DEF IInv
  <2>1. ASSUME attempts'[d] = attempts[d], stalls'[d] = stalls[d],
               job'[d] \in {job[d], "none", "completed", "failed"} \/ job[d] # "active"
        PROVE  /\ Left(d)' <= Left(d)
               /\ job[d] = "active" /\ job'[d] \in Outstanding \ {"active"} => Left(d)' < Left(d)
    BY <2>0, <2>1 DEF Left, Outstanding
  <2>2. ASSUME NEW e \in Device, Retry(e) \/ Fail(e) PROVE Left(d)' <= Left(d)
    <3>1. stalls'[d] = stalls[d]
      BY <2>2 DEF Retry, Fail
    <3>2. attempts'[d] \in {attempts[d], attempts[d] + 1}
      <4>1. attempts' = [attempts EXCEPT ![e] = @ + 1]
        BY <1>2, <2>2 DEF Retry, Fail, AttemptsMade, IInv, TypeOK
      <4> QED BY <1>2, <4>1 DEF IInv, TypeOK
    <3> QED BY <2>0, <3>1, <3>2 DEF Left
  <2>3. ASSUME NEW e \in Device, Retry(e) \/ Fail(e), job[d] = "active",
               job'[d] \in Outstanding \ {"active"}
        PROVE  Left(d)' < Left(d)
    <3>1. e = d
      <4>1. CASE Retry(e)
        BY <1>2, <2>3, <4>1 DEF Retry, IInv, TypeOK
      <4>2. CASE Fail(e)
        BY <1>2, <2>3, <4>2 DEF Fail, Finish, IInv, TypeOK, Outstanding
      <4> QED BY <2>3, <4>1, <4>2
    <3> QED BY <1>2, <2>0, <2>3, <3>1 DEF Retry, Fail, AttemptsMade, IInv, TypeOK, Left
  <2>4. ASSUME NEW e \in Device, Recover(e) PROVE Left(d)' <= Left(d)
    <3>1. attempts'[d] = attempts[d]
      BY <2>4 DEF Recover
    <3>2. stalls'[d] \in {stalls[d], stalls[d] + 1}
      <4>1. stalls' \in {stalls, [stalls EXCEPT ![e] = @ + 1]}
        BY <2>4 DEF Recover
      <4> QED BY <1>2, <4>1 DEF IInv, TypeOK
    <3> QED BY <2>0, <3>1, <3>2 DEF Left
  <2>5. ASSUME NEW e \in Device, Recover(e), job[d] = "active",
               job'[d] \in Outstanding \ {"active"}
        PROVE  Left(d)' < Left(d)
    <3>1. e = d /\ PutBack(e)
      <4>1. CASE PutBack(e)
        BY <1>2, <2>5, <4>1 DEF Recover, IInv, TypeOK
      <4>2. CASE ~PutBack(e)
        BY <1>2, <2>5, <4>2 DEF Recover, Finish, IInv, TypeOK, Outstanding
      <4> QED BY <4>1, <4>2
    <3>2. stalls'[d] = stalls[d] + 1 /\ attempts'[d] = attempts[d]
      BY <2>5, <3>1, <1>2 DEF Recover, IInv, TypeOK
    <3> QED BY <2>0, <3>2 DEF Left
  <2>6. ASSUME NEW t \in Tick, NEW e \in Device, TickAdd(t, e)
        PROVE  attempts'[d] = attempts[d] /\ stalls'[d] = stalls[d] /\ job'[d] = job[d]
    BY <1>2, <2>6 DEF TickAdd, CanAdd, jobVars, IInv, TypeOK
  <2>7. ASSUME Take
        PROVE  /\ attempts'[d] = attempts[d] /\ stalls'[d] = stalls[d]
               /\ job'[d] = job[d] \/ job[d] = "waiting"
    <3>1. Head(waiting) \in Listed(waiting)
      BY <1>2, <2>7, ListedTail DEF Take, IInv, TypeOK, ListsAgree
    <3> QED BY <1>2, <2>7, <3>1 DEF Take, IInv, TypeOK, ListsAgree, InState
  <2>8. ASSUME NEW e \in Device, Complete(e)
        PROVE  /\ attempts'[d] = attempts[d] /\ stalls'[d] = stalls[d]
               /\ job'[d] \in {job[d], "none", "completed"}
    BY <2>8 DEF Complete, Finish
  <2>9. ASSUME NEW e \in Device, Promote(e)
        PROVE  /\ attempts'[d] = attempts[d] /\ stalls'[d] = stalls[d]
               /\ job'[d] = job[d] \/ job[d] = "delayed"
    BY <1>2, <2>9 DEF Promote, IInv, TypeOK
  <2>10. ASSUME \/ UNCHANGED vars \/ Crash
                \/ \E t \in Tick : TickFire(t) \/ TickFail(t)
                \/ \E e \in Device : LoseLock(e) \/ Enable(e) \/ Disable(e)
         PROVE  attempts'[d] = attempts[d] /\ stalls'[d] = stalls[d] /\ job'[d] = job[d]
    BY <2>10 DEF vars, jobVars, Crash, TickFire, TickFail, LoseLock, Enable, Disable
  <2>11. ASSUME NEW e \in Device, Settle(e) \/ Recover(e) \/ Promote(e)
         PROVE  /\ Left(d)' <= Left(d)
                /\ job[d] = "active" /\ job'[d] \in Outstanding \ {"active"} => Left(d)' < Left(d)
    BY <2>1, <2>2, <2>3, <2>4, <2>5, <2>8, <2>9, <2>11 DEF Settle
  <2> QED BY <1>2, <2>1, <2>6, <2>7, <2>10, <2>11 DEF Next
<1>3. IInv => \A d \in Device : Left(d) \in Nat
  BY <1>1
<1>4. IInv /\ [Next]_vars =>
        [\A d \in Device :
           job[d] # "none" =>
             /\ Left(d)' <= Left(d)
             /\ job[d] = "active" /\ job'[d] \in Outstanding \ {"active"} =>
                  Left(d)' < Left(d)]_vars
  BY <1>2
<1> QED BY <1>3, <1>4, Invariant, PTL DEF Spec
=============================================================================
