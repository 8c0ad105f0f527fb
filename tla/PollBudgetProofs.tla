-------------------------- MODULE PollBudgetProofs --------------------------
(***************************************************************************)
(* The gate never admits more unexpired slots than the tier allows, for    *)
(* any number of calls and any tier.  A slot in use has its token at the   *)
(* head of the list or nowhere, because its push found the list empty and  *)
(* later pushes append; there is one head, and the tier allows at least 1. *)
(***************************************************************************)
EXTENDS PollBudget, FiniteSetTheorems, TLAPS

HeadOnly ==
  \A c \in Call : pc[c] \in InUse =>
    \A i \in 1..Len(list) : list[i] = c => i = 1

\* Removing an element that can only be the first is dropping the first.
LEMMA LremHead ==
  ASSUME NEW S, NEW l \in Seq(S), NEW t,
         \A i \in 1..Len(l) : l[i] = t => i = 1
  PROVE  \/ Lrem(l, t) = l
         \/ Len(l) > 0 /\ Lrem(l, t) = Tail(l)
<1>1. CASE ~ \E i \in 1..Len(l) : l[i] = t
  BY <1>1 DEF Lrem
<1>2. CASE \E i \in 1..Len(l) : l[i] = t
  <2> DEFINE First(i) == l[i] = t /\ \A j \in 1..(i - 1) : l[j] # t
             k == CHOOSE i \in 1..Len(l) : First(i)
  <2>1. Len(l) > 0 /\ 1 \in 1..Len(l) /\ l[1] = t
    BY <1>2
  <2>2. First(1)
    BY <2>1
  <2>3. k \in 1..Len(l) /\ First(k)
    BY <2>1, <2>2, Zenon
  <2>4. k = 1
    BY <2>3
  <2>5. Lrem(l, t) = SubSeq(l, 1, k - 1) \o SubSeq(l, k + 1, Len(l))
    BY <1>2 DEF Lrem
  <2> HIDE DEF k
  <2>6. SubSeq(l, 1, 0) \o SubSeq(l, 2, Len(l)) = Tail(l)
    BY <2>1
  <2> QED BY <2>1, <2>4, <2>5, <2>6
<1> QED BY <1>1, <1>2

-----------------------------------------------------------------------------
LEMMA TailOf ==
  ASSUME NEW S, NEW l \in Seq(S), Len(l) > 0
  PROVE  /\ Tail(l) \in Seq(S) /\ Len(Tail(l)) = Len(l) - 1
         /\ \A i \in 1..Len(Tail(l)) : Tail(l)[i] = l[i + 1]
  OBVIOUS

LEMMA NoTokens ==
  ASSUME NEW S
  PROVE  <<>> \in Seq(S) /\ 1..Len(<<>>) = {}
  OBVIOUS

-----------------------------------------------------------------------------
IInv == TypeOK /\ HeadOnly

LEMMA InitIInv == Init => IInv
<1> SUFFICES ASSUME Init PROVE IInv
  OBVIOUS
<1>1. list \in Seq(Call) /\ HeadOnly
  BY NoTokens, Zenon DEF Init, HeadOnly
<1>2. 0 \in 0..MaxTries
  BY BudgetAssumption
<1>3. TypeOK
  BY <1>1, <1>2 DEF Init, TypeOK, Location
<1> QED BY <1>1, <1>3 DEF IInv

\* The list grows at its tail only, by the token of a call that is pushing.
LEMMA PushKeeps ==
  ASSUME IInv, NEW c \in Call, pc[c] = "pushing", list' = Append(list, c),
         NEW l \in Location, Goto(c, l), l \in InUse => Len(list') = 1,
         UNCHANGED <<ttl, tries>>
  PROVE  IInv'
<1>1. list' \in Seq(Call) /\ Len(list') = Len(list) + 1
  BY DEF IInv, TypeOK
<1>2. TypeOK'
  BY <1>1 DEF IInv, TypeOK, Goto
<1>3. HeadOnly'
  <2> SUFFICES ASSUME NEW e \in Call, pc'[e] \in InUse,
                      NEW i \in 1..Len(list'), list'[i] = e
               PROVE  i = 1
    BY DEF HeadOnly
  <2>1. CASE e = c
    BY <2>1, <1>1 DEF IInv, TypeOK, Goto
  <2>2. CASE e # c
    <3>1. pc[e] \in InUse
      BY <2>2 DEF IInv, TypeOK, Goto
    <3>2. i \in 1..Len(list) /\ list[i] = e
      BY <2>2, <1>1 DEF IInv, TypeOK
    <3> QED BY <3>1, <3>2 DEF IInv, HeadOnly
  <2> QED BY <2>1, <2>2
<1> QED BY <1>2, <1>3 DEF IInv

\* A step that leaves the list alone and starts no use keeps the invariant.
LEMMA LocationKeeps ==
  ASSUME IInv, NEW c \in Call, NEW l \in Location, Goto(c, l), UNCHANGED list,
         ttl' \in BOOLEAN, tries' \in [Call -> 0..MaxTries],
         l \in InUse => pc[c] \in InUse
  PROVE  IInv'
  BY DEF IInv, TypeOK, HeadOnly, Goto

\* Dropping the head leaves no token of a call in use behind.
LEMMA ReleaseKeeps ==
  ASSUME IInv, NEW c \in Call, Release(c)
  PROVE  IInv'
<1>1. pc[c] \in InUse
  BY DEF Release, InUse
<1>2. \/ list' = list
      \/ Len(list) > 0 /\ list' = Tail(list)
  BY <1>1, LremHead, Zenon DEF Release, IInv, TypeOK, HeadOnly
<1>3. list' \in Seq(Call) /\ \A i \in 1..Len(list') :
        list' # list => i + 1 \in 1..Len(list) /\ list'[i] = list[i + 1]
  <2>1. CASE list' = list
    BY <2>1 DEF IInv, TypeOK
  <2>2. CASE Len(list) > 0 /\ list' = Tail(list)
    <3>1. list \in Seq(Call) /\ Len(list) \in Nat
      BY DEF IInv, TypeOK
    <3>2. /\ list' \in Seq(Call) /\ Len(list') = Len(list) - 1
          /\ \A i \in 1..Len(list') : list'[i] = list[i + 1]
      BY <2>2, <3>1, TailOf
    <3> QED BY <3>1, <3>2
  <2> QED BY <1>2, <2>1, <2>2
<1>4. ttl' \in BOOLEAN
  BY DEF Release, IInv, TypeOK
<1>5. TypeOK'
  BY <1>3, <1>4 DEF IInv, TypeOK, Release, Goto, Location
<1>6. HeadOnly'
  <2> SUFFICES ASSUME NEW e \in Call, pc'[e] \in InUse,
                      NEW i \in 1..Len(list'), list'[i] = e
               PROVE  i = 1
    BY DEF HeadOnly
  <2>1. pc[e] \in InUse
    BY DEF Release, Goto, InUse, IInv, TypeOK
  <2>2. CASE list' = list
    BY <2>1, <2>2 DEF IInv, HeadOnly
  <2>3. CASE list' # list
    <3>1. i + 1 \in 1..Len(list) /\ list[i + 1] = e
      BY <2>3, <1>3
    <3>2. i + 1 = 1
      BY <2>1, <3>1 DEF IInv, HeadOnly
    <3> QED BY <3>2
  <2> QED BY <2>2, <2>3
<1> QED BY <1>5, <1>6 DEF IInv

LEMMA NextIInv == IInv /\ [Next]_vars => IInv'
<1> SUFFICES ASSUME IInv, [Next]_vars PROVE IInv'
  OBVIOUS
<1>0. TypeOK
  BY DEF IInv
<1>1. ASSUME NEW c \in Call, Count(c) PROVE IInv'
  BY <1>1, <1>0, LocationKeeps DEF Count, TypeOK, Location, InUse
<1>2. ASSUME NEW c \in Call, Push(c) PROVE IInv'
  <2> DEFINE l == IF Won(list') THEN "arming" ELSE "denied"
  <2>1. l \in Location /\ (l \in InUse => Len(list') = 1)
    BY DEF Location, InUse, Won
  <2>2. pc[c] = "pushing" /\ list' = Append(list, c) /\ Goto(c, l)
          /\ UNCHANGED <<ttl, tries>>
    BY <1>2 DEF Push
  <2> HIDE DEF l
  <2> QED BY <2>1, <2>2, PushKeeps
<1>3. ASSUME NEW c \in Call, Arm(c) PROVE IInv'
  BY <1>3, <1>0, LocationKeeps DEF Arm, TypeOK, Location, InUse
<1>4. ASSUME NEW c \in Call, Sleep(c) PROVE IInv'
  <2>1. tries' \in [Call -> 0..MaxTries]
    BY <1>4, <1>0, BudgetAssumption DEF Sleep, OutOfTime, TypeOK
  <2> QED BY <2>1, <1>4, <1>0, LocationKeeps
            DEF Sleep, TypeOK, Location, InUse
<1>5. ASSUME NEW c \in Call, Refuse(c) PROVE IInv'
  BY <1>5, <1>0, LocationKeeps DEF Refuse, TypeOK, Location, InUse
<1>6. ASSUME NEW c \in Call, Stop(c) PROVE IInv'
  BY <1>6, <1>0, LocationKeeps DEF Stop, TypeOK, Location, InUse
<1>7. ASSUME NEW c \in Call, PushUnanswered(c) PROVE IInv'
  BY <1>7, PushKeeps DEF PushUnanswered, Location, InUse
<1>8. CASE Expire
  <2>1. list' \in Seq(Call) /\ HeadOnly'
    BY <1>8, NoTokens, Zenon DEF Expire, HeadOnly
  <2>2. TypeOK'
    BY <1>8, <1>0, <2>1 DEF Expire, TypeOK
  <2> QED BY <2>1, <2>2 DEF IInv
<1>9. CASE UNCHANGED vars
  BY <1>9 DEF vars, IInv, TypeOK, HeadOnly
<1> QED
  BY <1>1, <1>2, <1>3, <1>4, <1>5, <1>6, <1>7, <1>8, <1>9, ReleaseKeeps
     DEF Next, Step

LEMMA BudgetInvariant == Spec => []IInv
  BY InitIInv, NextIInv, PTL DEF Spec

\* The state of the gate is well-typed; in particular no call goes round its
\* loop after its deadline.
THEOREM BudgetTypeCorrect == Spec => []TypeOK
<1>1. IInv => TypeOK
  BY DEF IInv
<1> QED BY <1>1, BudgetInvariant, PTL

\* At most one call in use has its token listed: the head.
LEMMA OneHead ==
  ASSUME IInv
  PROVE  LET U == {c \in Call : pc[c] \in InUse /\ Listed(c)}
         IN  IsFiniteSet(U) /\ Cardinality(U) \in {0, 1}
<1> DEFINE U == {c \in Call : pc[c] \in InUse /\ Listed(c)}
<1>1. \A c \in U : c = list[1]
  BY DEF IInv, HeadOnly, Listed
<1> HIDE DEF U
<1>2. U = {} \/ U = {list[1]}
  BY <1>1
<1>3. IsFiniteSet(U) /\ Cardinality(U) \in {0, 1}
  <2>1. \A x : IsFiniteSet({x}) /\ Cardinality({x}) = 1
    BY FS_Singleton
  <2>2. CASE U = {}
    BY <2>2, FS_EmptySet
  <2>3. CASE U = {list[1]}
    BY <2>1, <2>3
  <2> QED BY <1>2, <2>2, <2>3
<1> QED BY <1>3 DEF U

\* Calls that decide on a count that is stale by the time they push never have
\* more slots in use, among those that have not expired, than the tier allows.
THEOREM GateKeepsToTheTier == Spec => []NeverOverTheTier
<1>1. IInv => NeverOverTheTier
  BY OneHead, BudgetAssumption DEF NeverOverTheTier
<1> QED BY <1>1, BudgetInvariant, PTL

\* What release removes is the token of the call that releases: a slot that
\* has expired and been taken over is not taken away from its new holder.
THEOREM ReleaseIsOwn == Spec => ReleaseTakesOnlyOwnToken
<1> DEFINE
  Own(c, e) ==
    /\ pc[c] = "holding" /\ pc'[c] = "released" /\ e # c
    /\ Listed(e)
    => Listed(e)'
<1>1. IInv /\ [Next]_vars => [\A c, e \in Call : Own(c, e)]_vars
  <2> SUFFICES ASSUME IInv, Next, NEW c \in Call, NEW e \in Call,
                      pc[c] = "holding", pc'[c] = "released", e # c,
                      NEW i \in 1..Len(list), list[i] = e
               PROVE  \E j \in 1..Len(list') : list'[j] = e
    BY DEF vars, Listed
  <2>1. Release(c)
    <3>1. \A d \in Call : Step(d) => pc'[c] # "released"
      BY DEF Step, Count, Push, Arm, Sleep, Refuse, Goto, IInv, TypeOK
    <3>2. \A d \in Call : Stop(d) \/ PushUnanswered(d) => pc'[c] # "released"
      BY DEF Stop, PushUnanswered, Goto, IInv, TypeOK
    <3>3. \A d \in Call : Release(d) /\ d # c => pc'[c] # "released"
      BY DEF Release, Goto, IInv, TypeOK
    <3>4. ~Expire
      BY DEF Expire
    <3> QED BY <3>1, <3>2, <3>3, <3>4 DEF Next
  <2>2. \A j \in 1..Len(list) : list[j] = c => j = 1
    BY DEF IInv, HeadOnly, InUse
  <2>3. CASE ~ \E j \in 1..Len(list) : list[j] = c
    BY <2>1, <2>3 DEF Release, Lrem
  <2>4. CASE \E j \in 1..Len(list) : list[j] = c
    <3>1. list[1] = c /\ i # 1
      BY <2>2, <2>4 DEF IInv, TypeOK
    <3>2. list' = list \/ (Len(list) > 0 /\ list' = Tail(list))
      BY <2>1, <2>2, LremHead, Zenon DEF Release, IInv, TypeOK
    <3>3. CASE list' = list
      BY <3>3
    <3>4. CASE Len(list) > 0 /\ list' = Tail(list)
      <4>1. i - 1 \in 1..Len(list') /\ list'[i - 1] = e
        BY <3>1, <3>4 DEF IInv, TypeOK
      <4> QED BY <4>1
    <3> QED BY <3>2, <3>3, <3>4
  <2> QED BY <2>3, <2>4
<1>2. [][\A c, e \in Call : Own(c, e)]_vars => ReleaseTakesOnlyOwnToken
  BY DEF ReleaseTakesOnlyOwnToken
<1> QED BY <1>1, <1>2, BudgetInvariant, PTL DEF Spec

=============================================================================
