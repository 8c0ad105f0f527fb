------------------------ MODULE LiveDashboardProofs ------------------------
(***************************************************************************)
(* For any number of devices, reloads, events and faults: what is on the   *)
(* screen was once true, no event is in the feed twice, and, while the     *)
(* limits permit, no event falls between the subscription and the backfill.*)
(***************************************************************************)
EXTENDS LiveDashboard, FiniteSetTheorems, SequenceTheorems, TLAPS

-----------------------------------------------------------------------------
(* The inductive invariant.  Each type is a set that depends on the state  *)
(* and only grows with it.                                                 *)

EventId == 1 .. Len(events)

\* A status the row of d has had, or the online of a return as degraded.
Known(d, s) ==
  \/ s \in ToSet(history[d])
  \/ s = "online" /\ {"offline", "degraded"} \subseteq ToSet(history[d])

Grid   == UNION {[S -> Status] : S \in SUBSET Device}
Grids  == {g \in Grid : \A d \in DOMAIN g : Known(d, g[d])}
Fleets == {CountByStatus(g) : g \in Grid}
Feeds  == {f \in Seq(EventId) : IsInjective(f) /\ Len(f) <= MaxFeed}
Views  == [grid : Grids, fleet : Fleets, feed : Feeds]
Loads  == [busy : BOOLEAN, read : SUBSET {"dashboard", "devices"},
           grid : Grids, fleet : Fleets]

EventRow == [dev : Device, type : {"offline", "online"}]
Acks     == [type : {"subscribed"}, since : 1 .. Len(events) + 1]
Replays  == [type : {"backfill"}, events : Seq(EventId)]
Pushes   == [type : {"event"}, event : [id : EventId]]
Failures == [error : {"INTERNAL"}]
Frames   == Acks \cup Replays \cup Pushes \cup Failures

RowsOK ==
  /\ history \in [Device -> Seq(Status)]
  /\ \A d \in Device : history[d] # <<>>
  /\ live \subseteq Device
  /\ horizon \in 1 .. Len(events) + 1
  /\ events \in Seq(EventRow)
  /\ \A i \in EventId : Known(events[i].dev, events[i].type)

WiresOK ==
  /\ indexer \in {"up", "down"}
  /\ notices \in Seq(EventId)
  /\ socket \in {"closed", "subscribing", "open", "closing"}
  /\ inbox \in Seq(Frames)
  /\ asked \in 0 .. Len(events) + 1
  /\ faults \in 0 .. MaxFaults

ScreenOK == view \in Views /\ load \in [Load -> Loads]

\* The handshake: acknowledgement, question, answer; each of them once.
Acked      == \E k \in 1 .. Len(inbox) : IsSubscribed(inbox[k])
Handshake ==
  /\ socket \in {"closed", "subscribing"} => inbox = <<>> /\ asked = 0
  /\ \A k \in 1 .. Len(inbox) : IsSubscribed(inbox[k]) => k = 1 /\ asked = 0
  /\ Len(inbox) <= SendBuffer + 2
  /\ asked # 0 \/ Acked => Len(inbox) <= SendBuffer + 1

\* What the tab has, or is about to get, of the events of the gap.
Wanted == {id \in gap.from .. gap.upto : events[id].dev \in live}

GapTyped ==
  /\ gap \in [from : Nat \ {0}, upto : 0 .. Len(events), filled : BOOLEAN]
  /\ asked # 0 => asked = gap.from
  /\ \A k \in 1 .. Len(inbox) : IsSubscribed(inbox[k]) => inbox[k].since = gap.from

Replayed == \A k \in 1 .. Len(inbox) :
              IsBackfill(inbox[k]) => Wanted \subseteq ToSet(inbox[k].events)
Closed   == gap.filled => Wanted \subseteq ToSet(view.feed)

\* The feed is not full yet, or never will be more than full.
HasRoom(feed) == Len(feed) < MaxFeed \/ Len(events) <= MaxFeed

\* One query can answer the question of this connection, and nothing had to
\* fall off the feed.
WithinLimits == Len(events) - gap.from < BackfillLimit /\ HasRoom(view.feed)

LiveInv == RowsOK /\ WiresOK /\ ScreenOK /\ Handshake
GapInv  == GapTyped /\ (WithinLimits => Replayed /\ Closed)

-----------------------------------------------------------------------------
(* Lemmas about the operators.                                             *)

LEMMA MinOfTwo ==
  ASSUME NEW a \in Nat, NEW b \in Nat
  PROVE  Min({a, b}) \in {a, b} /\ Min({a, b}) <= a /\ Min({a, b}) <= b
<1>1. \E x \in {a, b} : \A y \in {a, b} : x <= y
  OBVIOUS
<1> QED BY <1>1 DEF Min

\* A set of naturals with an element has a least one.
LEMMA LeastElement ==
  ASSUME NEW T, T \subseteq Nat, T # {}
  PROVE  \E n \in T : \A m \in T : n <= m
<1>1. IsWellFoundedOn(OpToRel(<, Nat), Nat)
  BY NatLessThanWellFounded
<1>2. \E n \in T : \A m \in T : ~ (<<m, n>> \in OpToRel(<, Nat))
  BY <1>1, WFMin
<1>3. ASSUME NEW n \in T, NEW m \in T, ~ (<<m, n>> \in OpToRel(<, Nat)) PROVE n <= m
  BY <1>3 DEF OpToRel
<1> QED BY <1>2, <1>3

\* The views after each event of a backfill, as a function of how many.
ViewsAfter(f, v, ids, n) ==
  f = [k \in 0 .. n |-> IF k = 0 THEN v ELSE HandleEvent(f[k - 1], ids[k])]

LEMMA ViewsAfterExist ==
  ASSUME NEW v, NEW ids, NEW n \in Nat
  PROVE  \E f : ViewsAfter(f, v, ids, n)
<1> DEFINE T == {m \in Nat : ~ \E f : ViewsAfter(f, v, ids, m)}
<1>1. SUFFICES ASSUME T # {} PROVE FALSE
  OBVIOUS
<1>2. PICK m \in T : \A k \in T : m <= k
  <2>1. T \subseteq Nat
    OBVIOUS
  <2> HIDE DEF T
  <2> QED BY <1>1, <2>1, LeastElement
<1>3. m \in Nat /\ ~ \E f : ViewsAfter(f, v, ids, m)
  BY <1>2
<1>4. m # 0
  <2>1. ViewsAfter([k \in 0 .. 0 |-> v], v, ids, 0)
    BY DEF ViewsAfter
  <2> QED BY <1>3, <2>1
<1>5. m - 1 \in Nat /\ m - 1 \notin T
  BY <1>2, <1>3, <1>4
<1>6. PICK f : ViewsAfter(f, v, ids, m - 1)
  BY <1>5
<1> DEFINE g == [k \in 0 .. m |-> IF k <= m - 1 THEN f[k]
                                  ELSE HandleEvent(f[m - 1], ids[m])]
<1>7. ASSUME NEW k \in 0 .. m
      PROVE  g[k] = IF k = 0 THEN v ELSE HandleEvent(g[k - 1], ids[k])
  <2>1. \A j \in 0 .. m - 1 : f[j] = IF j = 0 THEN v ELSE HandleEvent(f[j - 1], ids[j])
    <3> DEFINE h == [j \in 0 .. m - 1 |-> IF j = 0 THEN v ELSE HandleEvent(f[j - 1], ids[j])]
    <3>1. f = h
      BY <1>6 DEF ViewsAfter
    <3>2. \A j \in 0 .. m - 1 : h[j] = IF j = 0 THEN v ELSE HandleEvent(f[j - 1], ids[j])
      OBVIOUS
    <3> HIDE DEF h
    <3> QED BY <3>1, <3>2
  <2>2. CASE k <= m - 1
    <3>1. g[k] = f[k] /\ (k # 0 => g[k - 1] = f[k - 1])
      BY <1>5, <2>2
    <3> QED BY <1>5, <2>1, <2>2, <3>1
  <2>3. CASE k = m
    BY <1>3, <1>4, <1>5, <2>3
  <2> QED BY <1>3, <2>2, <2>3
<1>8. ViewsAfter(g, v, ids, m)
  <2>1. g = [k \in 0 .. m |-> g[k]]
    OBVIOUS
  <2> HIDE DEF g
  <2> QED BY <1>7, <2>1 DEF ViewsAfter
<1> QED BY <1>3, <1>8

\* What holds of the view before a backfill, and is handed on by each of its
\* events, holds after it.
LEMMA BackfillSteps ==
  ASSUME NEW v, NEW m, Len(m.events) \in Nat, NEW Good, v \in Good[0],
         \A k \in 1 .. Len(m.events) : \A w \in Good[k - 1] :
            HandleEvent(w, m.events[k]) \in Good[k]
  PROVE  ApplyBackfill(v, m) \in Good[Len(m.events)]
<1> DEFINE n == Len(m.events)
           after == CHOOSE f : ViewsAfter(f, v, m.events, n)
<1>1. ViewsAfter(after, v, m.events, n)
  <2> HIDE DEF n
  <2> n \in Nat
    BY DEF n
  <2> QED BY ViewsAfterExist
<1>2. ApplyBackfill(v, m) = after[n]
  BY DEF ApplyBackfill, ViewsAfter
<1> HIDE DEF after
<1> DEFINE h == [k \in 0 .. n |-> IF k = 0 THEN v ELSE HandleEvent(after[k - 1], m.events[k])]
<1>3. \A k \in 0 .. n : after[k] = IF k = 0 THEN v ELSE HandleEvent(after[k - 1], m.events[k])
  <2>1. after = h
    BY <1>1 DEF ViewsAfter
  <2>2. \A k \in 0 .. n : h[k] = IF k = 0 THEN v ELSE HandleEvent(after[k - 1], m.events[k])
    OBVIOUS
  <2> HIDE DEF h
  <2> QED BY <2>1, <2>2
<1> DEFINE T == {k \in 0 .. n : after[k] \notin Good[k]}
<1>4. T = {}
  <2> SUFFICES ASSUME T # {} PROVE FALSE
    OBVIOUS
  <2>1. PICK k \in T : \A j \in T : k <= j
    <3>1. T \subseteq Nat
      OBVIOUS
    <3> HIDE DEF T
    <3> QED BY <3>1, LeastElement
  <2>2. k \in 0 .. n /\ k # 0 /\ after[k] \notin Good[k]
    BY <1>3, <2>1
  <2>3. k - 1 \in 0 .. n /\ k - 1 \notin T
    BY <2>1, <2>2
  <2>4. after[k - 1] \in Good[k - 1]
    BY <2>3
  <2> QED BY <1>3, <2>2, <2>4
<1> QED BY <1>2, <1>4

LEMMA SizeOfInterval ==
  ASSUME NEW n \in Nat
  PROVE  /\ IsFiniteSet(1 .. n) /\ Cardinality(1 .. n) = n
         /\ IsFiniteSet(0 .. n - 1) /\ Cardinality(0 .. n - 1) = n
<1>1. n - 1 \in Int /\ n \in Int /\ 0 \in Int /\ 1 \in Int
  OBVIOUS
<1>2. IsFiniteSet(1 .. n) /\ Cardinality(1 .. n) = IF 1 > n THEN 0 ELSE n - 1 + 1
  BY <1>1, FS_Interval
<1>3. /\ IsFiniteSet(0 .. n - 1)
      /\ Cardinality(0 .. n - 1) = IF 0 > n - 1 THEN 0 ELSE (n - 1) - 0 + 1
  BY <1>1, FS_Interval
<1> QED BY <1>2, <1>3

LEMMA ProperSubset ==
  ASSUME NEW S, IsFiniteSet(S), NEW T \in SUBSET S, NEW x \in S, x \notin T
  PROVE  /\ IsFiniteSet(T) /\ Cardinality(T) \in Nat /\ Cardinality(S) \in Nat
         /\ Cardinality(T) < Cardinality(S)
<1>1. IsFiniteSet(T) /\ Cardinality(T) <= Cardinality(S) /\ Cardinality(T) # Cardinality(S)
  BY FS_Subset
<1>2. Cardinality(T) \in Nat /\ Cardinality(S) \in Nat
  BY <1>1, FS_CardinalityType
<1> QED BY <1>1, <1>2

\* Only new events are put on the feed, and only the last falls off it.
LEMMA PrependEffect ==
  ASSUME MaxFeed \in Nat \ {0}, NEW E, NEW f \in Seq(E), NEW id \in E,
         IsInjective(f), Len(f) <= MaxFeed
  PROVE  /\ Prepend(f, id) \in Seq(E)
         /\ IsInjective(Prepend(f, id))
         /\ Len(Prepend(f, id)) <= MaxFeed
         /\ id \in ToSet(Prepend(f, id)) /\ Len(f) <= Len(Prepend(f, id))
         /\ Len(f) < MaxFeed => ToSet(f) \subseteq ToSet(Prepend(f, id))
<1> DEFINE g == <<id>> \o f
           n == Min({MaxFeed, Len(f) + 1})
           p == SubSeq(g, 1, n)
<1>1. Len(f) \in Nat /\ DOMAIN f = 1 .. Len(f) /\ \A i \in 1 .. Len(f) : f[i] \in E
  OBVIOUS
<1>2. CASE Contains(f, id)
  <2>1. Prepend(f, id) = f
    BY <1>2 DEF Prepend
  <2>2. id \in ToSet(f)
    BY <1>1, <1>2 DEF Contains, ToSet
  <2> QED BY <1>1, <2>1, <2>2
<1>3. CASE ~ Contains(f, id)
  <2>1. Prepend(f, id) = p
    BY <1>3 DEF Prepend
  <2>2. /\ g \in Seq(E) /\ Len(g) = Len(f) + 1 /\ g[1] = id
        /\ \A i \in 2 .. Len(f) + 1 : g[i] = f[i - 1]
    <3>1. <<id>> \in Seq(E) /\ Len(<<id>>) = 1 /\ <<id>>[1] = id
      OBVIOUS
    <3> QED BY <1>1, <3>1, ConcatProperties
  <2>3. /\ n \in 1 .. Len(f) + 1 /\ Len(f) <= n /\ n <= MaxFeed
        /\ Len(f) < MaxFeed => n = Len(f) + 1
    BY <1>1, MinOfTwo
  <2> HIDE DEF g, n
  <2>4. /\ p \in Seq(E) /\ Len(p) = n /\ DOMAIN p = 1 .. n
        /\ \A i \in 1 .. n : p[i] = g[i]
    <3>1. \A i \in 1 .. n : g[i] \in E
      BY <1>1, <2>2, <2>3
    <3>2. p \in Seq(E) /\ Len(p) = n /\ \A i \in 1 .. n : p[i] = g[i]
      BY <1>1, <2>3, <3>1, SubSeqProperties
    <3> QED BY <3>2
  <2> HIDE DEF p
  <2>5. \A i \in 1 .. n : p[i] = IF i = 1 THEN id ELSE f[i - 1]
    BY <1>1, <2>2, <2>3, <2>4
  <2>6. \A i \in 1 .. Len(f) : f[i] # id
    BY <1>3 DEF Contains
  <2>7. \A i, j \in 1 .. Len(f) : f[i] = f[j] => i = j
    BY <1>1 DEF IsInjective
  <2>8. IsInjective(p)
    <3> SUFFICES ASSUME NEW i \in 1 .. n, NEW j \in 1 .. n, p[i] = p[j] PROVE i = j
      BY <2>4 DEF IsInjective
    <3>1. (i # 1 => i - 1 \in 1 .. Len(f)) /\ (j # 1 => j - 1 \in 1 .. Len(f))
      BY <1>1, <2>3
    <3>2. CASE i = 1 /\ j # 1
      BY <2>3, <2>5, <2>6, <3>1, <3>2
    <3>3. CASE i # 1 /\ j = 1
      BY <2>3, <2>5, <2>6, <3>1, <3>3
    <3>4. CASE i # 1 /\ j # 1
      <4>1. f[i - 1] = f[j - 1]
        BY <2>5, <3>4
      <4>2. i - 1 = j - 1
        BY <2>7, <3>1, <3>4, <4>1
      <4> QED BY <4>2
    <3> QED BY <3>2, <3>3, <3>4
  <2>9. id \in ToSet(p)
    BY <2>3, <2>4, <2>5 DEF ToSet
  <2>10. ASSUME Len(f) < MaxFeed, NEW x \in ToSet(f) PROVE x \in ToSet(p)
    <3>1. PICK i \in 1 .. Len(f) : f[i] = x
      BY <1>1, <2>10 DEF ToSet
    <3>2. i + 1 \in 1 .. n /\ p[i + 1] = x
      BY <1>1, <2>3, <2>5, <2>10, <3>1
    <3> QED BY <2>4, <3>2 DEF ToSet
  <2> QED BY <2>1, <2>3, <2>4, <2>8, <2>9, <2>10
<1> QED BY <1>2, <1>3

\* A feed that lacks an event is shorter than the events are many.
LEMMA RoomForOneMore ==
  ASSUME NEW n \in Nat, NEW f \in Seq(1 .. n), IsInjective(f),
         NEW id \in 1 .. n, id \notin ToSet(f)
  PROVE  Len(f) < n
<1>1. Len(f) \in Nat /\ DOMAIN f = 1 .. Len(f) /\ f \in [1 .. Len(f) -> 1 .. n]
  OBVIOUS
<1> DEFINE T == (1 .. n) \ {id}
<1>2. f \in [1 .. Len(f) -> T]
  BY <1>1 DEF ToSet
<1>3. f \in Injection(1 .. Len(f), T)
  BY <1>1, <1>2 DEF Injection
<1>4. IsFiniteSet(1 .. n) /\ Cardinality(1 .. n) = n
  BY SizeOfInterval
<1>5. IsFiniteSet(T) /\ Cardinality(T) = n - 1
  BY <1>4, FS_RemoveElement
<1>6. Cardinality(1 .. Len(f)) = Len(f)
  BY <1>1, SizeOfInterval
<1> HIDE DEF T
<1>7. Len(f) <= n - 1
  BY <1>3, <1>5, <1>6, FS_Injection
<1> QED BY <1>1, <1>7

\* The place of event i among the events found, counted from the newest.
NewerThan(found, i) == {j \in found : j > i}
Rank(found, i)      == Cardinality(NewerThan(found, i))

\* The k-th newest of the events found: there is one, and only one.
LEMMA Ranks ==
  ASSUME NEW n \in Nat, NEW found \in SUBSET (1 .. n)
  PROVE  /\ Cardinality(found) \in Nat /\ Cardinality(found) <= n
         /\ \A i \in found : Rank(found, i) \in 0 .. Cardinality(found) - 1
         /\ \A i, j \in found : Rank(found, i) = Rank(found, j) => i = j
         /\ \A k \in 1 .. Cardinality(found) : \E i \in found : Rank(found, i) = k - 1
<1>1. \A i \in found : i \in Nat
  OBVIOUS
<1>2. /\ IsFiniteSet(found)
      /\ Cardinality(found) \in Nat /\ Cardinality(found) <= n
  <2>1. IsFiniteSet(1 .. n) /\ Cardinality(1 .. n) = n
    BY SizeOfInterval
  <2>2. IsFiniteSet(found) /\ Cardinality(found) <= n
    BY <2>1, FS_Subset
  <2> QED BY <2>2, FS_CardinalityType
<1>3. ASSUME NEW i \in found
      PROVE  /\ IsFiniteSet(NewerThan(found, i))
             /\ Rank(found, i) \in Nat /\ Rank(found, i) < Cardinality(found)
  <2>1. NewerThan(found, i) \in SUBSET found /\ i \notin NewerThan(found, i)
    BY <1>1 DEF NewerThan
  <2> QED BY <1>2, <2>1, ProperSubset DEF Rank
<1>4. ASSUME NEW i \in found, NEW j \in found, i < j
      PROVE  Rank(found, j) < Rank(found, i)
  <2>1. /\ NewerThan(found, j) \in SUBSET NewerThan(found, i)
        /\ j \in NewerThan(found, i) /\ j \notin NewerThan(found, j)
    <3>1. i \in Nat /\ j \in Nat
      BY <1>1
    <3>2. ASSUME NEW k \in NewerThan(found, j) PROVE k \in NewerThan(found, i)
      <4>1. k \in found /\ k \in Nat /\ k > j
        BY <1>1, <3>2 DEF NewerThan
      <4>2. k > i
        BY <1>4, <3>1, <4>1
      <4> QED BY <4>1, <4>2 DEF NewerThan
    <3>3. j \in NewerThan(found, i) /\ j \notin NewerThan(found, j)
      <4>1. j > i /\ ~ (j > j)
        BY <1>4, <3>1
      <4> QED BY <4>1 DEF NewerThan
    <3> QED BY <3>2, <3>3
  <2> QED BY <1>3, <2>1, ProperSubset DEF Rank
<1>5. ASSUME NEW i \in found, NEW j \in found, Rank(found, i) = Rank(found, j)
      PROVE  i = j
  <2>1. i \in Nat /\ j \in Nat /\ Rank(found, i) \in Nat
    BY <1>1, <1>3
  <2> QED BY <1>4, <1>5, <2>1
<1>6. \A i \in found : Rank(found, i) \in 0 .. Cardinality(found) - 1
  BY <1>2, <1>3
<1>7. \A k \in 1 .. Cardinality(found) : \E i \in found : Rank(found, i) = k - 1
  <2> DEFINE f == [i \in found |-> Rank(found, i)]
             T == 0 .. Cardinality(found) - 1
  <2>1. f \in Injection(found, T)
    BY <1>5, <1>6 DEF Injection, IsInjective
  <2>2. IsFiniteSet(T) /\ Cardinality(T) = Cardinality(found)
    BY <1>2, SizeOfInterval
  <2>3. f \in Surjection(found, T)
    <3> HIDE DEF f, T
    <3> QED BY <2>1, <2>2, FS_Injection
  <2>4. \A t \in T : \E i \in found : f[i] = t
    BY <2>3 DEF Surjection
  <2> QED BY <1>2, <2>4
<1> QED BY <1>2, <1>5, <1>6, <1>7

\* A backfill brings rows there are; all of those asked for, if the limit
\* permits.
LEMMA ListEventsEffect ==
  ASSUME Len(events) \in Nat, NEW since \in Nat \ {0}
  PROVE  /\ ListEvents(since) \in Seq(EventId)
         /\ Len(events) - since < BackfillLimit =>
              \A i \in since .. Len(events) :
                events[i].dev \in live => i \in ToSet(ListEvents(since))
<1> DEFINE found == {i \in since .. Len(events) : events[i].dev \in live}
           c     == Cardinality(found)
           n     == Min({BackfillLimit, c})
           list  == [k \in 1 .. n |-> CHOOSE i \in found : Rank(found, i) = k - 1]
<1>1. ListEvents(since) = list
  BY DEF ListEvents, Rank, NewerThan
<1>2. found \in SUBSET (1 .. Len(events))
  OBVIOUS
<1> HIDE DEF found
<1>3. /\ c \in Nat /\ c <= Len(events)
      /\ \A i \in found : Rank(found, i) \in 0 .. c - 1
      /\ \A i, j \in found : Rank(found, i) = Rank(found, j) => i = j
      /\ \A k \in 1 .. c : \E i \in found : Rank(found, i) = k - 1
  BY <1>2, Ranks
<1>4. n \in Nat /\ n <= c /\ (Len(events) - since < BackfillLimit => n = c)
  <2>1. BackfillLimit \in Nat \ {0}
    BY LiveAssumption
  <2>2. /\ IsFiniteSet(since .. Len(events))
        /\ Cardinality(since .. Len(events)) =
             IF since > Len(events) THEN 0 ELSE Len(events) - since + 1
    <3>1. since \in Int /\ Len(events) \in Int
      OBVIOUS
    <3> QED BY <3>1, FS_Interval
  <2>3. c <= Cardinality(since .. Len(events))
    <3>1. found \in SUBSET (since .. Len(events))
      BY DEF found
    <3> QED BY <2>2, <3>1, FS_Subset
  <2> HIDE DEF c
  <2>4. Len(events) - since < BackfillLimit => c <= BackfillLimit
    BY <1>3, <2>1, <2>2, <2>3
  <2> QED BY <1>3, <2>1, <2>4, MinOfTwo
<1> HIDE DEF c, n
<1>5. ASSUME NEW k \in 1 .. n
      PROVE  list[k] \in found /\ Rank(found, list[k]) = k - 1
  <2>1. \E i \in found : Rank(found, i) = k - 1
    BY <1>3, <1>4
  <2>2. list[k] = CHOOSE i \in found : Rank(found, i) = k - 1
    OBVIOUS
  <2> HIDE DEF list
  <2> QED BY <2>1, <2>2
<1>6. list = [k \in 1 .. n |-> list[k]] /\ DOMAIN list = 1 .. n
  OBVIOUS
<1> HIDE DEF list
<1>7. ListEvents(since) \in Seq(EventId)
  <2>1. \A k \in 1 .. n : list[k] \in EventId
    BY <1>2, <1>5 DEF EventId
  <2> QED BY <1>1, <1>4, <1>6, <2>1, IsASeq
<1>8. ASSUME Len(events) - since < BackfillLimit, NEW i \in since .. Len(events),
             events[i].dev \in live
      PROVE  i \in ToSet(ListEvents(since))
  <2>1. i \in found
    BY <1>8 DEF found
  <2>2. Rank(found, i) + 1 \in 1 .. n /\ Rank(found, i) \in Nat
    BY <1>3, <1>4, <1>8, <2>1
  <2>3. list[Rank(found, i) + 1] = i
    <3>1. /\ list[Rank(found, i) + 1] \in found
          /\ Rank(found, list[Rank(found, i) + 1]) = Rank(found, i)
      BY <1>5, <2>2
    <3> QED BY <1>3, <2>1, <3>1
  <2> QED BY <1>1, <1>6, <2>2, <2>3 DEF ToSet
<1> QED BY <1>7, <1>8

-----------------------------------------------------------------------------
(* The screen: what the handler of an event makes of a view.               *)

LEMMA GridFacts ==
  ASSUME NEW g \in Grid
  PROVE  /\ DOMAIN g \subseteq Device
         /\ \A d \in DOMAIN g, s \in Status : [g EXCEPT ![d] = s] \in Grid
<1>1. PICK S \in SUBSET Device : g \in [S -> Status]
  BY DEF Grid
<1>2. ASSUME NEW d \in DOMAIN g, NEW s \in Status
      PROVE  [g EXCEPT ![d] = s] \in Grid
  <2>1. [g EXCEPT ![d] = s] \in [S -> Status]
    BY <1>1
  <2> QED BY <2>1 DEF Grid
<1> QED BY <1>1, <1>2

LEMMA PatchEffect ==
  ASSUME NEW v \in Views, NEW d, NEW s \in Status, Known(d, s)
  PROVE  PatchStatus(v, d, s) \in Views /\ PatchStatus(v, d, s).feed = v.feed
<1>1. CASE d \notin DOMAIN v.grid \/ v.grid[d] = s
  BY <1>1 DEF PatchStatus
<1>2. CASE ~ (d \notin DOMAIN v.grid \/ v.grid[d] = s)
  <2> DEFINE g == [v.grid EXCEPT ![d] = s]
             w == [v EXCEPT !.grid = g, !.fleet = CountByStatus(g)]
  <2>1. PatchStatus(v, d, s) = w
    BY <1>2 DEF PatchStatus
  <2>2. v.grid \in Grids /\ v.grid \in Grid
    BY DEF Views, Grids
  <2>3. g \in Grid
    BY <1>2, <2>2, GridFacts
  <2>4. \A e \in DOMAIN g : Known(e, g[e])
    BY <1>2, <2>2 DEF Grids
  <2> HIDE DEF g
  <2>5. g \in Grids /\ CountByStatus(g) \in Fleets
    BY <2>3, <2>4 DEF Grids, Fleets
  <2>6. w \in Views /\ w.feed = v.feed
    BY <2>5 DEF Views
  <2> QED BY <2>1, <2>6
<1> QED BY <1>1, <1>2

LEMMA EventFacts ==
  ASSUME RowsOK, NEW id \in EventId
  PROVE  /\ Len(events) \in Nat
         /\ events[id] \in EventRow /\ events[id].dev \in Device
         /\ events[id].type \in {"offline", "online"}
         /\ Known(events[id].dev, events[id].type)
<1>1. Len(events) \in Nat /\ events[id] \in EventRow
  BY DEF RowsOK, EventId
<1> QED BY <1>1 DEF RowsOK, EventRow

LEMMA HandleEventEffect ==
  ASSUME RowsOK, NEW v \in Views, NEW id \in EventId
  PROVE  /\ HandleEvent(v, id) \in Views
         /\ id \in ToSet(HandleEvent(v, id).feed)
         /\ HasRoom(HandleEvent(v, id).feed) =>
              HasRoom(v.feed) /\ ToSet(v.feed) \subseteq ToSet(HandleEvent(v, id).feed)
<1> DEFINE p == PatchStatus(v, events[id].dev, events[id].type)
           f == Prepend(v.feed, id)
           w == [p EXCEPT !.feed = f]
<1>1. p \in Views /\ p.feed = v.feed
  BY EventFacts, PatchEffect DEF Status
<1> HIDE DEF p
<1>2. HandleEvent(v, id) = w
  BY <1>1 DEF HandleEvent, p
<1>3. v.feed \in Seq(EventId) /\ IsInjective(v.feed) /\ Len(v.feed) <= MaxFeed
  BY DEF Views, Feeds
<1>4. /\ f \in Seq(EventId) /\ IsInjective(f) /\ Len(f) <= MaxFeed
      /\ id \in ToSet(f) /\ Len(v.feed) <= Len(f)
      /\ Len(v.feed) < MaxFeed => ToSet(v.feed) \subseteq ToSet(f)
  BY <1>3, LiveAssumption, PrependEffect
<1>5. ASSUME Len(events) <= MaxFeed PROVE ToSet(v.feed) \subseteq ToSet(f)
  <2>1. CASE Contains(v.feed, id)
    BY <2>1 DEF Prepend
  <2>2. CASE ~ Contains(v.feed, id)
    <3>1. id \notin ToSet(v.feed)
      <4>1. DOMAIN v.feed = 1 .. Len(v.feed)
        BY <1>3
      <4> QED BY <2>2, <4>1 DEF Contains, ToSet
    <3>2. Len(v.feed) < Len(events)
      BY <1>3, <3>1, EventFacts, RoomForOneMore DEF EventId
    <3>3. Len(v.feed) < MaxFeed
      <4>1. Len(v.feed) \in Nat /\ MaxFeed \in Nat /\ Len(events) \in Nat
        BY <1>3, LiveAssumption, EventFacts
      <4> QED BY <1>5, <3>2, <4>1
    <3> QED BY <1>4, <3>3
  <2> QED BY <2>1, <2>2
<1> HIDE DEF f
<1>6. f \in Feeds
  BY <1>4 DEF Feeds
<1>7. w \in Views /\ w.feed = f
  BY <1>1, <1>6 DEF Views
<1>8. ASSUME HasRoom(f) PROVE HasRoom(v.feed) /\ ToSet(v.feed) \subseteq ToSet(f)
  <2>1. Len(v.feed) \in Nat /\ Len(f) \in Nat /\ MaxFeed \in Nat
    BY <1>3, <1>4, LiveAssumption
  <2> QED BY <1>4, <1>5, <1>8, <2>1 DEF HasRoom
<1> QED BY <1>2, <1>4, <1>7, <1>8

LEMMA ApplyBackfillEffect ==
  ASSUME RowsOK, NEW v \in Views, NEW m \in Replays
  PROVE  /\ ApplyBackfill(v, m) \in Views
         /\ HasRoom(ApplyBackfill(v, m).feed) =>
              /\ HasRoom(v.feed)
              /\ ToSet(v.feed) \subseteq ToSet(ApplyBackfill(v, m).feed)
              /\ ToSet(m.events) \subseteq ToSet(ApplyBackfill(v, m).feed)
<1> DEFINE n == Len(m.events)
           Shown(k, w) == /\ HasRoom(v.feed)
                          /\ ToSet(v.feed) \subseteq ToSet(w.feed)
                          /\ \A j \in 1 .. k : m.events[j] \in ToSet(w.feed)
           Good == [k \in 0 .. n |->
                      {w \in Views : HasRoom(w.feed) => Shown(k, w)}]
<1>1. /\ m.events \in Seq(EventId) /\ n \in Nat /\ DOMAIN m.events = 1 .. n
      /\ \A k \in 1 .. n : m.events[k] \in EventId
  BY DEF Replays
<1> HIDE DEF n
<1>2. v \in Good[0]
  BY <1>1
<1>3. ASSUME NEW k \in 1 .. n, NEW w \in Good[k - 1]
      PROVE  HandleEvent(w, m.events[k]) \in Good[k]
  <2> DEFINE x == HandleEvent(w, m.events[k])
  <2>1. k - 1 \in 0 .. n /\ k \in 0 .. n /\ w \in Views
    BY <1>1, <1>3
  <2>2. /\ x \in Views /\ m.events[k] \in ToSet(x.feed)
        /\ HasRoom(x.feed) => HasRoom(w.feed) /\ ToSet(w.feed) \subseteq ToSet(x.feed)
    BY <1>1, <2>1, HandleEventEffect
  <2> HIDE DEF x
  <2>3. ASSUME HasRoom(x.feed) PROVE Shown(k, x)
    <3>1. Shown(k - 1, w)
      BY <1>3, <2>1, <2>2, <2>3
    <3>2. \A j \in 1 .. k : j \in 1 .. k - 1 \/ j = k
      BY <1>1
    <3> QED BY <2>2, <2>3, <3>1, <3>2
  <2>4. x \in Good[k]
    BY <2>1, <2>2, <2>3
  <2> QED BY <2>4 DEF x
<1>4. ApplyBackfill(v, m) \in Good[n]
  <2> HIDE DEF Good
  <2> QED BY <1>1, <1>2, <1>3, BackfillSteps DEF n
<1>5. n \in 0 .. n
  BY <1>1
<1>6. /\ ApplyBackfill(v, m) \in Views
      /\ HasRoom(ApplyBackfill(v, m).feed) => Shown(n, ApplyBackfill(v, m))
  BY <1>4, <1>5
<1> QED BY <1>1, <1>6 DEF ToSet

-----------------------------------------------------------------------------
(* Initially, and as the rows change.                                      *)

LEMMA NoGridFacts == NoGrid \in Grids /\ CountByStatus(NoGrid) \in Fleets
<1>1. NoGrid \in [{} -> Status] /\ DOMAIN NoGrid = {}
  BY DEF NoGrid
<1> HIDE DEF NoGrid
<1>2. NoGrid \in Grid
  BY <1>1 DEF Grid
<1> QED BY <1>1, <1>2 DEF Grids, Fleets

LEMMA IdleLoadType == IdleLoad \in Loads
BY NoGridFacts DEF IdleLoad, Loads

LEMMA InitLive == Init => LiveInv
<1> SUFFICES ASSUME Init PROVE LiveInv
  OBVIOUS
<1>1. Len(events) = 0 /\ events = <<>> /\ inbox = <<>> /\ notices = <<>> /\ Len(inbox) = 0
  BY DEF Init
<1>2. RowsOK
  <2>1. history \in [Device -> Seq(Status)] /\ \A d \in Device : history[d] # <<>>
    <3>1. <<"unknown">> \in Seq(Status) /\ <<"unknown">> # <<>>
      BY DEF Status
    <3> QED BY <3>1 DEF Init
  <2>2. events \in Seq(EventRow) /\ EventId = {}
    BY <1>1 DEF EventId
  <2>3. horizon = 1 /\ live = Device
    BY DEF Init
  <2> QED BY <1>1, <2>1, <2>2, <2>3 DEF RowsOK
<1>3. WiresOK
  <2>1. inbox \in Seq(Frames) /\ notices \in Seq(EventId)
    BY <1>1
  <2> QED BY <1>1, <2>1, LiveAssumption DEF Init, WiresOK
<1>4. ScreenOK
  <2>1. <<>> \in Feeds
    <3>1. IsInjective(<<>>) /\ Len(<<>>) = 0 /\ <<>> \in Seq(EventId)
      BY DEF IsInjective
    <3> QED BY <3>1, LiveAssumption DEF Feeds
  <2>2. view \in Views
    BY <2>1, NoGridFacts DEF Init, Views
  <2>3. load \in [Load -> Loads]
    BY IdleLoadType DEF Init
  <2> QED BY <2>2, <2>3 DEF ScreenOK
<1>5. Handshake
  BY <1>1, LiveAssumption DEF Init, Handshake, Acked
<1> QED BY <1>2, <1>3, <1>4, <1>5 DEF LiveInv

LEMMA InitGap == Init => GapInv
<1> SUFFICES ASSUME Init PROVE GapInv
  OBVIOUS
<1>1. /\ gap = [from |-> 1, upto |-> 0, filled |-> FALSE] /\ asked = 0
      /\ inbox = <<>> /\ Len(inbox) = 0 /\ Len(events) = 0
  BY DEF Init, NoGap
<1>2. GapTyped
  BY <1>1 DEF GapTyped
<1> QED BY <1>1, <1>2 DEF GapInv, Replayed, Closed

\* Rows come, statuses are added, and devices go.
Grown ==
  /\ Len(events) \in Nat /\ Len(events') \in Nat /\ Len(events) <= Len(events')
  /\ \A i \in EventId : events'[i] = events[i]
  /\ \A d \in Device : \A s : Known(d, s) => Known(d, s)'
  /\ live' \subseteq live

LEMMA GrownTypes ==
  ASSUME Grown
  PROVE  /\ EventId \subseteq EventId' /\ Seq(EventId) \subseteq Seq(EventId')
         /\ Grids \subseteq Grids' /\ Fleets = Fleets'
         /\ Views \subseteq Views' /\ Loads \subseteq Loads'
         /\ Frames \subseteq Frames' /\ Seq(Frames) \subseteq Seq(Frames')
<1>1. EventId \subseteq EventId'
  BY DEF Grown, EventId
<1>2. Seq(EventId) \subseteq Seq(EventId')
  BY <1>1, SeqMonotonic
<1>3. Grids \subseteq Grids' /\ Fleets = Fleets'
  <2>1. Grid = Grid' /\ Fleets = Fleets'
    BY DEF Fleets, Grid
  <2>2. \A g \in Grid : DOMAIN g \subseteq Device
    BY GridFacts
  <2> QED BY <2>1, <2>2 DEF Grown, Grids
<1>4. Feeds \subseteq Feeds'
  BY <1>2 DEF Feeds
<1>5. Views \subseteq Views' /\ Loads \subseteq Loads'
  BY <1>3, <1>4 DEF Views, Loads
<1>6. Frames \subseteq Frames'
  <2>1. 1 .. Len(events) + 1 \subseteq 1 .. Len(events') + 1
    BY DEF Grown
  <2>2. Acks \subseteq Acks'
    BY <2>1 DEF Acks
  <2>3. Replays \subseteq Replays'
    BY <1>2 DEF Replays
  <2>4. Pushes \subseteq Pushes'
    BY <1>1 DEF Pushes
  <2>5. Failures = Failures'
    BY DEF Failures
  <2> QED BY <2>2, <2>3, <2>4, <2>5 DEF Frames
<1>7. Seq(Frames) \subseteq Seq(Frames')
  BY <1>6, SeqMonotonic
<1> QED BY <1>1, <1>2, <1>3, <1>5, <1>6, <1>7

LEMMA SameRows ==
  ASSUME RowsOK, UNCHANGED <<history, events>>, live' \subseteq live
  PROVE  Grown
<1>1. Len(events) \in Nat
  BY DEF RowsOK
<1>2. \A d, s : Known(d, s) => Known(d, s)'
  BY DEF Known
<1> QED BY <1>1, <1>2 DEF Grown

LEMMA EventOfFacts ==
  ASSUME NEW d \in Device, NEW old \in Status, NEW s \in Status
  PROVE  \/ EventOf(d, old, s) = <<>>
         \/ /\ EventOf(d, old, s) = <<[dev |-> d, type |-> "offline"]>>
            /\ s = "offline"
         \/ /\ EventOf(d, old, s) = <<[dev |-> d, type |-> "online"]>>
            /\ old = "offline" /\ s # "offline"
BY DEF EventOf

LEMMA PollGrows ==
  ASSUME RowsOK, NEW d \in Device, NEW s \in Reports, Poll(d, s)
  PROVE  /\ Grown /\ RowsOK'
         /\ EventOf(d, Current[d], s) # <<>> => Len(events) + 1 \in EventId'
<1> DEFINE h == history[d]
           new == EventOf(d, Current[d], s)
<1>1. /\ d \in live /\ live' = live /\ horizon' = horizon
      /\ history' = [history EXCEPT ![d] = Append(h, s)]
      /\ events' = events \o new /\ s # Current[d]
  BY DEF Poll
<1>2. /\ h \in Seq(Status) /\ h # <<>> /\ Len(h) \in Nat /\ Len(h) >= 1
      /\ history \in [Device -> Seq(Status)]
  BY EmptySeq DEF RowsOK
<1>3. s \in {"online", "degraded", "offline"} /\ s \in Status
  BY LiveAssumption DEF Status
<1>4. Current[d] = h[Len(h)] /\ Current[d] \in Status /\ Current[d] \in ToSet(h)
  BY <1>1, <1>2 DEF Current, Last, ToSet
<1>5. /\ Append(h, s) \in Seq(Status) /\ Append(h, s) # <<>>
      /\ ToSet(Append(h, s)) = ToSet(h) \cup {s}
  <2>1. /\ Append(h, s) \in Seq(Status) /\ Len(Append(h, s)) = Len(h) + 1
        /\ \A i \in 1 .. Len(h) : Append(h, s)[i] = h[i]
        /\ Append(h, s)[Len(h) + 1] = s
        /\ DOMAIN Append(h, s) = 1 .. Len(h) + 1 /\ DOMAIN h = 1 .. Len(h)
    BY <1>2, <1>3
  <2>2. Append(h, s) # <<>>
    BY <1>2, <1>3, AppendProperties
  <2>3. \A i \in 1 .. Len(h) + 1 : i \in 1 .. Len(h) \/ i = Len(h) + 1
    BY <1>2
  <2>4. Len(h) + 1 \in 1 .. Len(h) + 1 /\ 1 .. Len(h) \subseteq 1 .. Len(h) + 1
    BY <1>2
  <2> HIDE DEF h
  <2> QED BY <2>1, <2>2, <2>3, <2>4 DEF ToSet
<1> HIDE DEF h
<1>6. /\ history' \in [Device -> Seq(Status)]
      /\ \A e \in Device : history'[e] # <<>> /\ ToSet(history[e]) \subseteq ToSet(history'[e])
      /\ ToSet(history'[d]) = ToSet(h) \cup {s}
  <2>1. \A e \in Device : history'[e] = IF e = d THEN Append(h, s) ELSE history[e]
    BY <1>1, <1>2
  <2>2. history' \in [Device -> Seq(Status)]
    BY <1>1, <1>2, <1>5
  <2> QED BY <1>5, <2>1, <2>2 DEF RowsOK, h
<1>7. \A e \in Device : \A x : Known(e, x) => Known(e, x)'
  BY <1>6 DEF Known
<1>9. /\ new \in Seq(EventRow) /\ Len(new) \in Nat
      /\ \A i \in 1 .. Len(new) : \A x : new[i].dev = d /\ (x = new[i].type => Known(d, x)')
  <2>1. CASE new = <<>>
    BY <2>1
  <2>2. CASE new = <<[dev |-> d, type |-> "offline"]>> /\ s = "offline"
    <3>1. Known(d, "offline")'
      BY <1>6, <2>2 DEF Known
    <3>2. new \in Seq(EventRow) /\ Len(new) = 1 /\ new[1] = [dev |-> d, type |-> "offline"]
      BY <2>2 DEF EventRow
    <3>3. new[1].dev = d /\ new[1].type = "offline"
      BY <3>2
    <3> HIDE DEF new
    <3> QED BY <3>1, <3>2, <3>3
  <2>3. CASE /\ new = <<[dev |-> d, type |-> "online"]>>
             /\ Current[d] = "offline" /\ s # "offline"
    <3>1. Known(d, "online")'
      BY <1>3, <1>4, <1>6, <2>3 DEF Known, h
    <3>2. new \in Seq(EventRow) /\ Len(new) = 1 /\ new[1] = [dev |-> d, type |-> "online"]
      BY <2>3 DEF EventRow
    <3>3. new[1].dev = d /\ new[1].type = "online"
      BY <3>2
    <3> HIDE DEF new
    <3> QED BY <3>1, <3>2, <3>3
  <2> QED BY <1>3, <1>4, <2>1, <2>2, <2>3, EventOfFacts
<1> HIDE DEF new
<1>10. /\ events \in Seq(EventRow) /\ Len(events) \in Nat
       /\ events' \in Seq(EventRow) /\ Len(events') = Len(events) + Len(new)
       /\ \A i \in 1 .. Len(events) : events'[i] = events[i]
       /\ \A i \in 1 .. Len(new) : events'[Len(events) + i] = new[i]
  <2>1. events \in Seq(EventRow) /\ Len(events) \in Nat
    BY DEF RowsOK
  <2>2. /\ events' \in Seq(EventRow) /\ Len(events') = Len(events) + Len(new)
        /\ \A i \in 1 .. Len(events) + Len(new) :
             events'[i] = IF i <= Len(events) THEN events[i] ELSE new[i - Len(events)]
    BY <1>1, <1>9, <2>1, ConcatProperties
  <2>3. \A i \in 1 .. Len(events) : i \in 1 .. Len(events) + Len(new) /\ i <= Len(events)
    BY <1>9, <2>1
  <2>4. \A i \in 1 .. Len(new) :
          /\ Len(events) + i \in 1 .. Len(events) + Len(new)
          /\ ~ (Len(events) + i <= Len(events)) /\ Len(events) + i - Len(events) = i
    BY <1>9, <2>1
  <2>5. \A i \in 1 .. Len(events) : events'[i] = events[i]
    BY <2>2, <2>3
  <2>6. \A i \in 1 .. Len(new) : events'[Len(events) + i] = new[i]
    BY <2>2, <2>4
  <2> QED BY <2>1, <2>2, <2>5, <2>6
<1>11. Grown
  BY <1>1, <1>7, <1>9, <1>10 DEF Grown, EventId
<1>12. ASSUME NEW i \in 1 .. Len(events'), NEW e, NEW x,
              e = events'[i].dev, x = events'[i].type
       PROVE  Known(e, x)'
  <2>1. CASE i \in 1 .. Len(events)
    <3>1. Known(events[i].dev, events[i].type) /\ events'[i] = events[i]
      BY <1>10, <2>1 DEF RowsOK, EventId
    <3>2. events[i].dev \in Device
      BY <2>1, EventFacts DEF EventId
    <3> QED BY <1>7, <1>12, <3>1, <3>2
  <2>2. CASE i \notin 1 .. Len(events)
    <3>1. i - Len(events) \in 1 .. Len(new) /\ i = Len(events) + (i - Len(events))
      BY <1>9, <1>10, <2>2
    <3>2. events'[i] = new[i - Len(events)]
      BY <1>10, <3>1
    <3> QED BY <1>9, <1>12, <3>1, <3>2
  <2> QED BY <2>1, <2>2
<1>13. horizon' \in 1 .. Len(events') + 1 /\ live' \subseteq Device
  BY <1>1, <1>9, <1>10 DEF RowsOK
<1>14. (\A i \in EventId : Known(events[i].dev, events[i].type))'
  BY <1>12 DEF EventId
<1>15. new # <<>> => Len(events) + 1 \in EventId'
  <2>1. new # <<>> => Len(new) >= 1
    BY <1>9, EmptySeq
  <2> QED BY <1>9, <1>10, <2>1 DEF EventId
<1>16. RowsOK'
  BY <1>6, <1>10, <1>13, <1>14 DEF RowsOK
<1> QED BY <1>11, <1>15, <1>16 DEF new

\* Only these three change the rows.
LEMMA RowSteps ==
  ASSUME [Next]_vars
  PROVE  \/ \E d \in Device, s \in Reports : Poll(d, s)
         \/ \E d \in Device : Delete(d)
         \/ Age
         \/ UNCHANGED rowVars
<1>1. CASE Rows
  BY <1>1 DEF Rows
<1>2. CASE Indexer
  BY <1>2 DEF Indexer, Republish, RepublishFails, IndexerStops, IndexerStarts
<1>3. CASE Stream
  BY <1>3 DEF Stream, Connect, Subscribed, ConnectionLost, SlowClientClosed, Hangup,
              Backfill, BackfillFails, Receive
<1>4. CASE \E l \in Load : Reload(l)
  BY <1>4 DEF Reload, LoadStart, ReadDashboard, ReadDevices, LoadDone, LoadFails
<1>5. CASE UNCHANGED vars
  BY <1>5 DEF vars
<1> QED BY <1>1, <1>2, <1>3, <1>4, <1>5 DEF Next

LEMMA NextRows ==
  ASSUME RowsOK, [Next]_vars
  PROVE  Grown /\ RowsOK'
<1>1. ASSUME UNCHANGED <<history, events>>, live' \subseteq live,
             horizon' \in 1 .. Len(events) + 1
      PROVE  Grown /\ RowsOK'
  <2>1. Grown
    BY <1>1, SameRows
  <2>2. (\A i \in EventId : Known(events[i].dev, events[i].type))'
    BY <1>1 DEF RowsOK, EventId, Known
  <2> QED BY <1>1, <2>1, <2>2 DEF RowsOK
<1>2. ASSUME NEW d \in Device, NEW s \in Reports, Poll(d, s)
      PROVE  Grown /\ RowsOK'
  BY <1>2, PollGrows
<1>3. ASSUME NEW d \in Device, Delete(d) PROVE Grown /\ RowsOK'
  BY <1>1, <1>3 DEF Delete, RowsOK
<1>4. ASSUME Age PROVE Grown /\ RowsOK'
  BY <1>1, <1>4 DEF Age, RowsOK
<1>5. ASSUME UNCHANGED rowVars PROVE Grown /\ RowsOK'
  BY <1>1, <1>5 DEF rowVars, RowsOK
<1> QED BY <1>2, <1>3, <1>4, <1>5, RowSteps

-----------------------------------------------------------------------------
(* The wires: notices, frames and the handshake.                           *)

LEMMA FrameKinds ==
  ASSUME NEW m \in Frames
  PROVE  /\ IsSubscribed(m) <=> m \in Acks
         /\ IsBackfill(m) <=> m \in Replays
         /\ ~ IsLiveEvent(m)
         /\ ~ (IsSubscribed(m) /\ IsBackfill(m))
         /\ m \in Pushes \cup Failures => ~ IsSubscribed(m) /\ ~ IsBackfill(m)
<1>1. CASE m \in Acks
  BY <1>1 DEF Acks, Replays, Pushes, Failures, IsSubscribed, IsBackfill, IsLiveEvent
<1>2. CASE m \in Replays
  BY <1>2 DEF Acks, Replays, Pushes, Failures, IsSubscribed, IsBackfill, IsLiveEvent
<1>3. CASE m \in Pushes
  BY <1>3 DEF Acks, Replays, Pushes, Failures, IsSubscribed, IsBackfill, IsLiveEvent
<1>4. CASE m \in Failures
  BY <1>4 DEF Acks, Replays, Pushes, Failures, IsSubscribed, IsBackfill, IsLiveEvent
<1> QED BY <1>1, <1>2, <1>3, <1>4 DEF Frames

LEMMA InboxFacts ==
  ASSUME inbox \in Seq(Frames)
  PROVE  /\ Len(inbox) \in Nat
         /\ \A k \in 1 .. Len(inbox) : inbox[k] \in Frames
         /\ inbox = <<>> <=> Len(inbox) = 0
BY EmptySeq

\* A frame is sent: neither an acknowledgement, nor one frame too many.
LEMMA SendFrame ==
  ASSUME inbox \in Seq(Frames), NEW m \in Frames, inbox' = Append(inbox, m)
  PROVE  /\ inbox' \in Seq(Frames) /\ Len(inbox') = Len(inbox) + 1
         /\ \A k \in 1 .. Len(inbox') :
              \/ k \in 1 .. Len(inbox) /\ inbox'[k] = inbox[k]
              \/ k = Len(inbox) + 1 /\ inbox'[k] = m
         /\ \A k \in 1 .. Len(inbox) : k \in 1 .. Len(inbox') /\ inbox'[k] = inbox[k]
<1>1. /\ Append(inbox, m) \in Seq(Frames) /\ Len(Append(inbox, m)) = Len(inbox) + 1
      /\ \A k \in 1 .. Len(inbox) : Append(inbox, m)[k] = inbox[k]
      /\ Append(inbox, m)[Len(inbox) + 1] = m
  BY AppendProperties
<1>2. Len(inbox) \in Nat
  BY InboxFacts
<1> QED BY <1>1, <1>2

LEMMA ReceiveFrame ==
  ASSUME inbox \in Seq(Frames), inbox # <<>>, inbox' = Tail(inbox)
  PROVE  /\ Head(inbox) = inbox[1] /\ Head(inbox) \in Frames
         /\ inbox' \in Seq(Frames) /\ Len(inbox') = Len(inbox) - 1 /\ 1 \in 1 .. Len(inbox)
         /\ \A k \in 1 .. Len(inbox') : k + 1 \in 1 .. Len(inbox) /\ inbox'[k] = inbox[k + 1]
<1>1. Len(inbox) \in Nat /\ Len(inbox) # 0 /\ \A k \in 1 .. Len(inbox) : inbox[k] \in Frames
  BY InboxFacts
<1>2. /\ Tail(inbox) \in Seq(Frames) /\ Len(Tail(inbox)) = Len(inbox) - 1
      /\ \A i \in 1 .. Len(Tail(inbox)) : Tail(inbox)[i] = inbox[i + 1]
  BY HeadTailProperties
<1> QED BY <1>1, <1>2

\* What the actions of the stream do to the wires.
LEMMA HandshakeFacts ==
  ASSUME WiresOK, Handshake
  PROVE  /\ inbox \in Seq(Frames) /\ Len(inbox) \in Nat /\ SendBuffer \in Nat
         /\ asked # 0 => ~ Acked /\ Len(inbox) <= SendBuffer + 1
BY InboxFacts, LiveAssumption DEF WiresOK, Handshake, Acked

LEMMA DeliverKeeps ==
  ASSUME RowsOK, WiresOK, Handshake, NEW id \in EventId, Deliver(LivePayload(id)),
         UNCHANGED <<asked, events>>
  PROVE  inbox' \in Seq(Frames) /\ Handshake' /\ socket' \in {socket, "closing"}
<1>1. inbox \in Seq(Frames) /\ Len(inbox) \in Nat /\ SendBuffer \in Nat
  BY HandshakeFacts
<1>2. CASE UNCHANGED <<socket, inbox>>
  BY <1>1, <1>2 DEF Handshake, Acked
<1>3. CASE socket' = "closing" /\ UNCHANGED inbox
  BY <1>1, <1>3 DEF Handshake, Acked
<1>4. CASE /\ socket = "open" /\ ~ (Len(inbox) > SendBuffer)
           /\ inbox' = Append(inbox, LivePayload(id)) /\ UNCHANGED socket
  <2>1. LivePayload(id) \in Pushes
    BY DEF LivePayload, Pushes
  <2>2. LivePayload(id) \in Frames /\ ~ IsSubscribed(LivePayload(id))
    BY <2>1, FrameKinds DEF Frames
  <2>3. /\ inbox' \in Seq(Frames) /\ Len(inbox') = Len(inbox) + 1
        /\ \A k \in 1 .. Len(inbox') :
              \/ k \in 1 .. Len(inbox) /\ inbox'[k] = inbox[k]
              \/ k = Len(inbox) + 1 /\ inbox'[k] = LivePayload(id)
    BY <1>1, <1>4, <2>2, SendFrame
  <2>4. \A k \in 1 .. Len(inbox') : IsSubscribed(inbox'[k]) =>
          k \in 1 .. Len(inbox) /\ IsSubscribed(inbox[k])
    BY <2>2, <2>3
  <2>5. Len(inbox') <= SendBuffer + 1 /\ Len(inbox') <= SendBuffer + 2
    BY <1>1, <1>4, <2>3
  <2>6. Handshake'
    BY <1>4, <2>4, <2>5 DEF Handshake
  <2> QED BY <1>4, <2>3, <2>6
<1> QED BY <1>1, <1>2, <1>3, <1>4 DEF Deliver

\* A frame of the server's own, in answer to the tab's question.
LEMMA AnswerKeeps ==
  ASSUME WiresOK, Handshake, socket = "open", asked # 0, asked' = 0, socket' = socket,
         NEW m \in Frames, ~ IsSubscribed(m), inbox' = Append(inbox, m)
  PROVE  inbox' \in Seq(Frames) /\ Handshake'
<1>1. /\ inbox \in Seq(Frames) /\ Len(inbox) \in Nat /\ SendBuffer \in Nat
      /\ ~ Acked /\ Len(inbox) <= SendBuffer + 1
  BY HandshakeFacts
<1>2. /\ inbox' \in Seq(Frames) /\ Len(inbox') = Len(inbox) + 1
      /\ \A k \in 1 .. Len(inbox') :
            \/ k \in 1 .. Len(inbox) /\ inbox'[k] = inbox[k]
            \/ k = Len(inbox) + 1 /\ inbox'[k] = m
  BY <1>1, SendFrame
<1>3. \A k \in 1 .. Len(inbox') : ~ IsSubscribed(inbox'[k])
  BY <1>1, <1>2 DEF Acked
<1>4. Len(inbox') <= SendBuffer + 2
  BY <1>1, <1>2
<1> QED BY <1>2, <1>3, <1>4 DEF Handshake, Acked

LEMMA SubscribedKeeps ==
  ASSUME RowsOK, WiresOK, Handshake, Subscribed
  PROVE  /\ inbox' \in Seq(Frames) /\ Handshake' /\ asked' = 0
         /\ Len(inbox') = 1 /\ inbox'[1] = [type |-> "subscribed", since |-> horizon]
<1> DEFINE m == [type |-> "subscribed", since |-> horizon]
<1>1. inbox' = <<m>> /\ asked' = 0 /\ socket' = "open"
  BY DEF Subscribed, Handshake
<1>2. m \in Frames
  BY DEF RowsOK, Frames, Acks
<1> HIDE DEF m
<1>3. inbox' \in Seq(Frames) /\ Len(inbox') = 1 /\ inbox'[1] = m
  BY <1>1, <1>2
<1>4. SendBuffer \in Nat
  BY LiveAssumption
<1>5. Handshake'
  BY <1>1, <1>3, <1>4 DEF Handshake, Acked
<1> QED BY <1>1, <1>3, <1>5 DEF m

LEMMA ReceiveKeeps ==
  ASSUME WiresOK, Handshake, Receive
  PROVE  /\ inbox' \in Seq(Frames) /\ Handshake' /\ asked' \in 0 .. Len(events) + 1
         /\ asked' # 0 => \/ asked' = asked
                          \/ IsSubscribed(Head(inbox)) /\ asked' = Head(inbox).since
<1> DEFINE m == Head(inbox)
<1>1. /\ inbox # <<>> /\ inbox' = Tail(inbox) /\ socket' = socket
      /\ asked' = IF IsSubscribed(m) THEN m.since ELSE asked
  BY DEF Receive, SinceOf
<1>2. inbox \in Seq(Frames) /\ Len(inbox) \in Nat /\ SendBuffer \in Nat
  BY HandshakeFacts
<1>3. /\ m = inbox[1] /\ m \in Frames /\ 1 \in 1 .. Len(inbox)
      /\ inbox' \in Seq(Frames) /\ Len(inbox') = Len(inbox) - 1
      /\ \A k \in 1 .. Len(inbox') : k + 1 \in 1 .. Len(inbox) /\ inbox'[k] = inbox[k + 1]
  BY <1>1, <1>2, ReceiveFrame
<1> HIDE DEF m
<1>4. \A k \in 1 .. Len(inbox') : ~ IsSubscribed(inbox'[k])
  BY <1>2, <1>3 DEF Handshake
<1>5. /\ asked' # 0 => Len(inbox') <= SendBuffer + 1
      /\ Len(inbox') <= SendBuffer + 2
  BY <1>2, <1>3 DEF Handshake
<1>6. Handshake'
  BY <1>1, <1>4, <1>5 DEF Handshake, Acked
<1>7. asked' \in 0 .. Len(events) + 1
  <2>1. CASE IsSubscribed(m)
    BY <1>1, <1>3, <2>1, FrameKinds DEF Acks
  <2>2. CASE ~ IsSubscribed(m)
    BY <1>1, <2>2 DEF WiresOK
  <2> QED BY <2>1, <2>2
<1> QED BY <1>1, <1>3, <1>6, <1>7 DEF m

LEMMA FaultKeeps == ASSUME WiresOK, Fault PROVE faults' \in 0 .. MaxFaults
BY LiveAssumption DEF WiresOK, Fault

\* Frames and notices keep their types as the rows grow.
LEMMA WiresGrow ==
  ASSUME Grown, RowsOK, asked' \in 0 .. Len(events) + 1, inbox' \in Seq(Frames),
         notices' \in Seq(EventId), faults' \in 0 .. MaxFaults,
         indexer' \in {"up", "down"},
         socket' \in {"closed", "subscribing", "open", "closing"}
  PROVE  WiresOK'
<1>1. inbox' \in Seq(Frames)' /\ notices' \in Seq(EventId)'
  BY GrownTypes
<1>2. asked' \in 0 .. Len(events') + 1
  BY DEF Grown
<1> QED BY <1>1, <1>2 DEF WiresOK

LEMMA QuietWires ==
  ASSUME Handshake, UNCHANGED <<socket, inbox, asked>>
  PROVE  Handshake'
BY DEF Handshake, Acked

LEMMA NextWires ==
  ASSUME LiveInv, [Next]_vars
  PROVE  WiresOK' /\ Handshake'
<1>1. RowsOK /\ WiresOK /\ Handshake /\ Grown
  BY NextRows DEF LiveInv
<1>2. /\ notices \in Seq(EventId) /\ inbox \in Seq(Frames) /\ faults \in 0 .. MaxFaults
      /\ asked \in 0 .. Len(events) + 1 /\ indexer \in {"up", "down"}
      /\ socket \in {"closed", "subscribing", "open", "closing"}
      /\ <<>> \in Seq(EventId) /\ <<>> \in Seq(Frames)
  BY <1>1 DEF WiresOK
<1>3. ASSUME NEW d \in Device, NEW s \in Reports, Poll(d, s) PROVE WiresOK' /\ Handshake'
  <2>1. UNCHANGED <<indexer, socket, inbox, asked, faults>>
    BY <1>3 DEF Poll, socketVars
  <2>2. notices' \in Seq(EventId)'
    <3>1. \/ notices' = notices
          \/ /\ notices' = Append(notices, Len(events) + 1)
             /\ EventOf(d, Current[d], s) # <<>>
      BY <1>3 DEF Poll
    <3>2. notices \in Seq(EventId)'
      BY <1>1, <1>2, GrownTypes
    <3>3. EventOf(d, Current[d], s) # <<>> => Len(events) + 1 \in EventId'
      BY <1>1, <1>3, PollGrows
    <3> QED BY <3>1, <3>2, <3>3, AppendProperties
  <2>3. inbox' \in Seq(Frames)' /\ asked' \in 0 .. Len(events') + 1
    BY <1>1, <1>2, <2>1, GrownTypes DEF Grown
  <2> QED BY <1>1, <1>2, <2>1, <2>2, <2>3, QuietWires DEF WiresOK
<1>4. ASSUME Republish PROVE WiresOK' /\ Handshake'
  <2>1. notices # <<>> /\ notices' = Tail(notices) /\ UNCHANGED <<events, indexer, asked, faults>>
    BY <1>4 DEF Republish, rowVars
  <2>2. notices' \in Seq(EventId) /\ Head(notices) \in EventId
    BY <1>2, <2>1, HeadTailProperties
  <2>3. CASE UNCHANGED <<socket, inbox>>
    BY <1>1, <1>2, <2>1, <2>2, <2>3, QuietWires, WiresGrow
  <2>4. CASE Deliver(LivePayload(Head(notices)))
    <3>1. inbox' \in Seq(Frames) /\ Handshake' /\ socket' \in {socket, "closing"}
      BY <1>1, <2>1, <2>2, <2>4, DeliverKeeps
    <3> QED BY <1>1, <1>2, <2>1, <2>2, <3>1, WiresGrow
  <2> QED BY <1>4, <2>3, <2>4 DEF Republish
<1>5. ASSUME RepublishFails PROVE WiresOK' /\ Handshake'
  <2>1. /\ notices # <<>> /\ notices' = Tail(notices) /\ UNCHANGED <<indexer, socket, inbox, asked>>
        /\ Fault
    BY <1>5 DEF RepublishFails, socketVars
  <2>2. notices' \in Seq(EventId)
    BY <1>2, <2>1, HeadTailProperties
  <2> QED BY <1>1, <1>2, <2>1, <2>2, FaultKeeps, QuietWires, WiresGrow
<1>6. ASSUME IndexerStops \/ IndexerStarts PROVE WiresOK' /\ Handshake'
  <2>1. /\ indexer' \in {"up", "down"} /\ notices' \in {notices, <<>>}
        /\ UNCHANGED <<socket, inbox, asked>> /\ (Fault \/ UNCHANGED faults)
    BY <1>6 DEF IndexerStops, IndexerStarts, socketVars
  <2> QED BY <1>1, <1>2, <2>1, FaultKeeps, QuietWires, WiresGrow
<1>7. ASSUME Connect PROVE WiresOK' /\ Handshake'
  <2>1. /\ socket = "closed" /\ socket' = "subscribing"
        /\ UNCHANGED <<indexer, notices, inbox, asked, faults>>
    BY <1>7 DEF Connect, feedVars
  <2>2. Handshake'
    BY <1>1, <2>1 DEF Handshake, Acked
  <2> QED BY <1>1, <1>2, <2>1, <2>2, WiresGrow
<1>8. ASSUME Subscribed PROVE WiresOK' /\ Handshake'
  <2>1. UNCHANGED <<indexer, notices, faults>> /\ socket' = "open"
    BY <1>8 DEF Subscribed, feedVars
  <2>2. inbox' \in Seq(Frames) /\ Handshake' /\ asked' = 0
    BY <1>1, <1>8, SubscribedKeeps
  <2>3. 0 \in 0 .. Len(events) + 1
    BY <1>1 DEF Grown
  <2> QED BY <1>1, <1>2, <2>1, <2>2, <2>3, WiresGrow
<1>9. ASSUME ConnectionLost \/ SlowClientClosed PROVE WiresOK' /\ Handshake'
  <2>1. /\ socket' = "closed" /\ inbox' = <<>> /\ asked' = 0
        /\ UNCHANGED <<indexer, notices>> /\ (Fault \/ UNCHANGED faults)
    BY <1>9 DEF ConnectionLost, SlowClientClosed, Hangup, feedVars
  <2>2. Handshake'
    <3>1. Len(inbox') = 0 /\ SendBuffer \in Nat
      BY <2>1, LiveAssumption
    <3> QED BY <2>1, <3>1 DEF Handshake, Acked
  <2>3. 0 \in 0 .. Len(events) + 1
    BY <1>1 DEF Grown
  <2> QED BY <1>1, <1>2, <2>1, <2>2, <2>3, FaultKeeps, WiresGrow
<1>10. ASSUME Backfill PROVE WiresOK' /\ Handshake'
  <2> DEFINE m == [type |-> "backfill", events |-> ListEvents(asked)]
  <2>1. /\ socket = "open" /\ asked # 0 /\ asked' = 0 /\ inbox' = Append(inbox, m)
        /\ UNCHANGED <<indexer, notices, socket, faults>>
    BY <1>10 DEF Backfill, feedVars
  <2>2. m \in Replays
    <3>1. Len(events) \in Nat /\ asked \in Nat \ {0}
      BY <1>1, <1>2, <2>1 DEF Grown
    <3>2. ListEvents(asked) \in Seq(EventId)
      BY <3>1, ListEventsEffect
    <3> QED BY <3>2 DEF Replays
  <2> HIDE DEF m
  <2>3. m \in Frames /\ ~ IsSubscribed(m)
    BY <2>2, FrameKinds DEF Frames
  <2>4. inbox' \in Seq(Frames) /\ Handshake'
    BY <1>1, <2>1, <2>3, AnswerKeeps
  <2>5. 0 \in 0 .. Len(events) + 1
    BY <1>1 DEF Grown
  <2> QED BY <1>1, <1>2, <2>1, <2>4, <2>5, WiresGrow
<1>11. ASSUME BackfillFails PROVE WiresOK' /\ Handshake'
  <2> DEFINE m == [error |-> "INTERNAL"]
  <2>1. /\ socket = "open" /\ asked # 0 /\ asked' = 0 /\ inbox' = Append(inbox, m)
        /\ UNCHANGED <<indexer, notices, socket>> /\ Fault
    BY <1>11 DEF BackfillFails, feedVars
  <2>2. m \in Failures
    BY DEF Failures
  <2> HIDE DEF m
  <2>3. m \in Frames /\ ~ IsSubscribed(m)
    BY <2>2, FrameKinds DEF Frames
  <2>4. inbox' \in Seq(Frames) /\ Handshake'
    BY <1>1, <2>1, <2>3, AnswerKeeps
  <2>5. 0 \in 0 .. Len(events) + 1
    BY <1>1 DEF Grown
  <2> QED BY <1>1, <1>2, <2>1, <2>4, <2>5, FaultKeeps, WiresGrow
<1>12. ASSUME Receive PROVE WiresOK' /\ Handshake'
  <2>1. UNCHANGED <<indexer, notices, socket, faults>>
    BY <1>12 DEF Receive, feedVars
  <2>2. inbox' \in Seq(Frames) /\ Handshake' /\ asked' \in 0 .. Len(events) + 1
    BY <1>1, <1>12, ReceiveKeeps
  <2> QED BY <1>1, <1>2, <2>1, <2>2, WiresGrow
<1>13. ASSUME UNCHANGED <<indexer, notices, socket, inbox, asked>>, Fault \/ UNCHANGED faults
       PROVE  WiresOK' /\ Handshake'
  BY <1>1, <1>2, <1>13, FaultKeeps, QuietWires, WiresGrow
<1>14. CASE Rows
  <2>1. ASSUME NEW d \in Device, Delete(d) PROVE WiresOK' /\ Handshake'
    BY <1>13, <2>1 DEF Delete, feedVars, socketVars
  <2>2. ASSUME Age PROVE WiresOK' /\ Handshake'
    BY <1>13, <2>2 DEF Age, feedVars, socketVars
  <2> QED BY <1>3, <1>14, <2>1, <2>2 DEF Rows
<1>15. CASE Indexer
  BY <1>4, <1>5, <1>6, <1>15 DEF Indexer
<1>16. CASE Stream
  BY <1>7, <1>8, <1>9, <1>10, <1>11, <1>12, <1>16 DEF Stream
<1>17. CASE \E l \in Load : Reload(l)
  <2>1. UNCHANGED <<indexer, notices, socket, inbox, asked>> /\ (Fault \/ UNCHANGED faults)
    BY <1>17 DEF Reload, LoadStart, ReadDashboard, ReadDevices, LoadDone, LoadFails,
                 feedVars, socketVars
  <2> QED BY <1>13, <2>1
<1>18. CASE UNCHANGED vars
  BY <1>13, <1>18 DEF vars, feedVars, socketVars
<1> QED BY <1>14, <1>15, <1>16, <1>17, <1>18 DEF Next

-----------------------------------------------------------------------------
(* The screen and the reloads.                                             *)

LEMMA ListingFacts ==
  ASSUME RowsOK, NEW limit, NEW listing \in Listings(limit)
  PROVE  listing \in Grids /\ CountByStatus(listing) \in Fleets
<1>1. ASSUME NEW d \in live PROVE Last(history[d]) \in Status /\ Known(d, Last(history[d]))
  <2>1. /\ d \in Device /\ history[d] \in Seq(Status) /\ history[d] # <<>>
        /\ Len(history[d]) \in Nat /\ Len(history[d]) >= 1
    BY EmptySeq DEF RowsOK
  <2>2. Len(history[d]) \in DOMAIN history[d]
    BY <2>1
  <2> QED BY <2>1, <2>2 DEF Last, Known, ToSet
<1>2. Current \in [live -> Status] /\ \A d \in live : Known(d, Current[d])
  BY <1>1 DEF Current
<1>3. live \in SUBSET Device
  BY DEF RowsOK
<1> HIDE DEF Current
<1>4. PICK some \in SUBSET live : listing = [d \in some |-> Current[d]]
  <2>1. CASE Cardinality(live) <= limit
    BY <1>2, <2>1 DEF Listings
  <2>2. CASE ~(Cardinality(live) <= limit)
    BY <2>2 DEF Listings, kSubset, Restrict
  <2> QED BY <2>1, <2>2
<1>5. listing \in [some -> Status] /\ \A d \in DOMAIN listing : Known(d, listing[d])
  BY <1>2, <1>4
<1>6. listing \in Grid
  BY <1>3, <1>4, <1>5 DEF Grid
<1> QED BY <1>5, <1>6 DEF Grids, Fleets

\* ws.onmessage: what the tab has shown it shows on, while the feed has room.
LEMMA ReceiveShows ==
  ASSUME LiveInv, Receive
  PROVE  /\ view' \in Views
         /\ HasRoom(view'.feed) =>
              /\ HasRoom(view.feed)
              /\ ToSet(view.feed) \subseteq ToSet(view'.feed)
              /\ IsBackfill(Head(inbox)) => ToSet(Head(inbox).events) \subseteq ToSet(view'.feed)
<1> DEFINE m == Head(inbox)
<1>1. m \in Frames /\ view \in Views /\ RowsOK
  BY ReceiveFrame DEF Receive, LiveInv, WiresOK, ScreenOK
<1>2. view' = IF IsBackfill(m) THEN ApplyBackfill(view, m)
              ELSE IF IsLiveEvent(m) THEN HandleEvent(view, m.id)
              ELSE view
  BY DEF Receive
<1> HIDE DEF m
<1>3. CASE IsBackfill(m)
  <2>1. m \in Replays /\ view' = ApplyBackfill(view, m)
    BY <1>1, <1>2, <1>3, FrameKinds
  <2> QED BY <1>1, <2>1, ApplyBackfillEffect DEF m
<1>4. CASE ~ IsBackfill(m)
  <2>1. view' = view
    BY <1>1, <1>2, <1>4, FrameKinds
  <2> QED BY <1>1, <1>4, <2>1 DEF m
<1> QED BY <1>3, <1>4

LEMMA LoadSteps ==
  ASSUME ScreenOK, RowsOK, NEW l \in Load, Reload(l)
  PROVE  view' \in Views /\ load' \in [Load -> Loads] /\ view'.feed = view.feed
<1>1. view \in Views /\ load \in [Load -> Loads] /\ load[l] \in Loads
  BY DEF ScreenOK
<1>2. IdleLoad \in Loads
  BY IdleLoadType
<1>3. \A limit : \A listing \in Listings(limit) :
        listing \in Grids /\ CountByStatus(listing) \in Fleets
  BY ListingFacts
<1>4. CASE LoadStart(l)
  <2> DEFINE x == [IdleLoad EXCEPT !.busy = TRUE]
  <2>1. x \in Loads
    BY <1>2 DEF Loads
  <2>2. load' = [load EXCEPT ![l] = x] /\ view' = view
    BY <1>4 DEF LoadStart
  <2> HIDE DEF x
  <2> QED BY <1>1, <2>1, <2>2
<1>5. CASE ReadDashboard(l)
  <2>0. PICK listing \in Listings(FleetLimit) :
          load' = [load EXCEPT ![l].read = @ \cup {"dashboard"},
                               ![l].fleet = CountByStatus(listing)]
    BY <1>5 DEF ReadDashboard
  <2> DEFINE x == [load[l] EXCEPT !.read = @ \cup {"dashboard"}, !.fleet = CountByStatus(listing)]
  <2>1. x \in Loads
    BY <1>1, <1>3 DEF Loads
  <2>2. load' = [load EXCEPT ![l] = x] /\ view' = view
    BY <1>1, <1>5, <2>0 DEF ReadDashboard
  <2> HIDE DEF x
  <2> QED BY <1>1, <2>1, <2>2
<1>6. CASE ReadDevices(l)
  <2>0. PICK listing \in Listings(DevicesLimit) :
          load' = [load EXCEPT ![l].read = @ \cup {"devices"}, ![l].grid = listing]
    BY <1>6 DEF ReadDevices
  <2> DEFINE x == [load[l] EXCEPT !.read = @ \cup {"devices"}, !.grid = listing]
  <2>1. x \in Loads
    BY <1>1, <1>3 DEF Loads
  <2>2. load' = [load EXCEPT ![l] = x] /\ view' = view
    BY <1>1, <1>6, <2>0 DEF ReadDevices
  <2> HIDE DEF x
  <2> QED BY <1>1, <2>1, <2>2
<1>7. CASE LoadDone(l)
  <2> DEFINE w == [view EXCEPT !.grid = load[l].grid, !.fleet = load[l].fleet]
  <2>1. w \in Views /\ w.feed = view.feed
    BY <1>1 DEF Views, Loads
  <2>2. load' = [load EXCEPT ![l] = IdleLoad] /\ view' = w
    BY <1>7 DEF LoadDone, ShowLoaded
  <2> HIDE DEF w
  <2> QED BY <1>1, <1>2, <2>1, <2>2
<1>8. CASE LoadFails(l)
  <2>1. load' = [load EXCEPT ![l] = IdleLoad] /\ view' = view
    BY <1>8 DEF LoadFails
  <2> QED BY <1>1, <1>2, <2>1
<1> QED BY <1>4, <1>5, <1>6, <1>7, <1>8 DEF Reload

LEMMA NextScreen ==
  ASSUME LiveInv, [Next]_vars
  PROVE  ScreenOK'
<1>1. RowsOK /\ ScreenOK /\ Grown
  BY NextRows DEF LiveInv
<1>2. ASSUME view' \in Views, load' \in [Load -> Loads] PROVE ScreenOK'
  BY <1>1, <1>2, GrownTypes DEF ScreenOK
<1>3. ASSUME UNCHANGED <<view, load>> PROVE ScreenOK'
  BY <1>1, <1>2, <1>3 DEF ScreenOK
<1>4. CASE Rows
  BY <1>3, <1>4 DEF Rows, Poll, Delete, Age
<1>5. CASE Indexer
  BY <1>3, <1>5 DEF Indexer, Republish, RepublishFails, IndexerStops, IndexerStarts
<1>6. CASE Stream
  <2>1. CASE Receive
    <3>1. view' \in Views /\ UNCHANGED load
      BY <2>1, ReceiveShows DEF Receive
    <3> QED BY <1>1, <1>2, <3>1 DEF ScreenOK
  <2>2. CASE \/ Connect \/ Subscribed \/ ConnectionLost \/ SlowClientClosed
             \/ Backfill \/ BackfillFails
    BY <1>3, <2>2 DEF Connect, Subscribed, ConnectionLost, SlowClientClosed, Hangup,
                      Backfill, BackfillFails
  <2> QED BY <1>6, <2>1, <2>2 DEF Stream
<1>7. CASE \E l \in Load : Reload(l)
  BY <1>1, <1>2, <1>7, LoadSteps
<1>8. CASE UNCHANGED vars
  BY <1>3, <1>8 DEF vars
<1> QED BY <1>4, <1>5, <1>6, <1>7, <1>8 DEF Next

LEMMA NextLive == LiveInv /\ [Next]_vars => LiveInv'
BY NextRows, NextWires, NextScreen DEF LiveInv

LEMMA LiveInvariance == Spec => []LiveInv
<1>1. Init => LiveInv
  BY InitLive
<1>2. LiveInv /\ [Next]_vars => LiveInv'
  BY NextLive
<1> QED BY <1>1, <1>2, PTL DEF Spec

\* However many reloads, reconnections and faults there are, every variable of
\* the stream and the tab has its type, and a connection never has more frames
\* under way than the send buffer, the acknowledgement and the backfill.
THEOREM DashboardTypeCorrect == Spec => []TypeOK
<1>1. LiveInv => TypeOK
  <2> SUFFICES ASSUME LiveInv PROVE TypeOK
    OBVIOUS
  <2>1. RowsOK /\ WiresOK /\ ScreenOK /\ Handshake
    BY DEF LiveInv
  <2>2. view.grid \in Grid /\ view.feed \in Seq(EventId)
    BY <2>1 DEF ScreenOK, Views, Grids, Feeds
  <2>3. DOMAIN view.grid \subseteq Device
    BY <2>2, GridFacts
  <2>4. ToSet(view.feed) \subseteq EventId
    BY <2>2 DEF ToSet
  <2> QED BY <2>1, <2>3, <2>4 DEF TypeOK, RowsOK, WiresOK, Handshake, EventId
<1> QED BY <1>1, LiveInvariance, PTL

\* However often the tab reconnects and backfills what it already shows, no
\* event is in the feed twice and the feed stays within MAX_EVENTS.
THEOREM FeedNeverRepeats == Spec => []FeedHasNoDuplicates
<1>1. LiveInv => FeedHasNoDuplicates
  BY DEF LiveInv, ScreenOK, Views, Feeds, FeedHasNoDuplicates
<1> QED BY <1>1, LiveInvariance, PTL

\* Every status on the screen is one the device's row has had, or the online
\* of a return as degraded, through any number of overlapping reloads,
\* replayed events and deletions.
THEOREM ScreenIsHistorical == Spec => []ShownStatusIsHistorical
<1>1. LiveInv => ShownStatusIsHistorical
  BY DEF LiveInv, ScreenOK, Views, Grids, Known, ShownStatusIsHistorical
<1> QED BY <1>1, LiveInvariance, PTL

-----------------------------------------------------------------------------
(* The gap between the subscription and the backfill.                      *)

GapRow == [from : Nat \ {0}, upto : 0 .. Len(events), filled : BOOLEAN]

\* What is wanted of the gap only becomes less.
LEMMA WantedShrinks ==
  ASSUME Grown, gap \in GapRow, gap'.from = gap.from, gap'.upto = gap.upto
  PROVE  Wanted' \subseteq Wanted
<1> SUFFICES ASSUME NEW id \in Wanted' PROVE id \in Wanted
  OBVIOUS
<1>1. id \in gap.from .. gap.upto /\ events'[id].dev \in live'
  BY DEF Wanted
<1>2. id \in EventId
  BY <1>1 DEF GapRow, EventId, Grown
<1>3. events'[id] = events[id] /\ events[id].dev \in live
  BY <1>1, <1>2 DEF Grown
<1> QED BY <1>1, <1>3 DEF Wanted

\* A step that keeps the gap: its frames are old ones, say nothing of the gap,
\* or bring what is wanted of it.
LEMMA GapCarries ==
  ASSUME Grown, GapInv, gap' \in GapRow, gap'.from = gap.from, gap'.upto = gap.upto,
         asked' # 0 => asked' = gap.from,
         \A k \in 1 .. Len(inbox') :
            \/ \E j \in 1 .. Len(inbox) : inbox'[k] = inbox[j]
            \/ /\ ~ IsSubscribed(inbox'[k])
               /\ IsBackfill(inbox'[k]) /\ WithinLimits => Wanted \subseteq ToSet(inbox'[k].events),
         HasRoom(view'.feed) => HasRoom(view.feed),
         gap'.filled /\ WithinLimits /\ HasRoom(view'.feed) => Wanted \subseteq ToSet(view'.feed)
  PROVE  GapInv'
<1>1. /\ gap \in GapRow /\ GapTyped /\ (WithinLimits => Replayed /\ Closed)
      /\ Len(events) \in Nat /\ Len(events') \in Nat /\ Len(events) <= Len(events')
  BY DEF GapInv, GapTyped, GapRow, Grown
<1>2. Wanted' \subseteq Wanted
  BY <1>1, WantedShrinks
<1>3. ASSUME WithinLimits' PROVE WithinLimits /\ HasRoom(view'.feed)
  <2>1. gap.from \in Nat /\ MaxFeed \in Nat /\ BackfillLimit \in Nat
    BY <1>1, LiveAssumption DEF GapRow
  <2>2. Len(view'.feed) < MaxFeed \/ Len(events') <= MaxFeed
    BY <1>3 DEF WithinLimits, HasRoom
  <2>3. HasRoom(view'.feed)
    BY <1>1, <2>1, <2>2 DEF HasRoom
  <2>4. Len(events') - gap.from < BackfillLimit
    BY <1>3 DEF WithinLimits
  <2> QED BY <1>1, <2>1, <2>3, <2>4 DEF WithinLimits
<1>4. gap' \in [from : Nat \ {0}, upto : 0 .. Len(events'), filled : BOOLEAN]
  <2>1. 0 .. Len(events) \subseteq 0 .. Len(events')
    BY <1>1
  <2> QED BY <2>1 DEF GapRow
<1>5. \A k \in 1 .. Len(inbox') : IsSubscribed(inbox'[k]) => inbox'[k].since = gap'.from
  BY <1>1 DEF GapTyped
<1>6. GapTyped'
  BY <1>4, <1>5 DEF GapTyped
<1>7. ASSUME WithinLimits' PROVE Replayed' /\ Closed'
  <2>1. WithinLimits /\ HasRoom(view'.feed) /\ Replayed
    BY <1>1, <1>3, <1>7
  <2>2. ASSUME NEW k \in 1 .. Len(inbox'), IsBackfill(inbox'[k])
        PROVE  Wanted' \subseteq ToSet(inbox'[k].events)
    <3>1. CASE \E j \in 1 .. Len(inbox) : inbox'[k] = inbox[j]
      BY <1>2, <2>1, <2>2, <3>1 DEF Replayed
    <3>2. CASE IsBackfill(inbox'[k]) /\ WithinLimits => Wanted \subseteq ToSet(inbox'[k].events)
      BY <1>2, <2>1, <2>2, <3>2
    <3> QED BY <3>1, <3>2
  <2>3. gap'.filled => Wanted' \subseteq ToSet(view'.feed)
    BY <1>2, <2>1
  <2> QED BY <2>2, <2>3 DEF Replayed, Closed
<1> QED BY <1>6, <1>7 DEF GapInv

LEMMA NextGap ==
  ASSUME LiveInv, GapInv, [Next]_vars
  PROVE  GapInv'
<1>1. RowsOK /\ WiresOK /\ ScreenOK /\ Handshake /\ Grown
  BY NextRows DEF LiveInv
<1>2. /\ gap \in GapRow /\ (asked # 0 => asked = gap.from) /\ Len(events) \in Nat
      /\ (WithinLimits => Replayed /\ Closed) /\ inbox \in Seq(Frames) /\ Len(inbox) \in Nat
  BY <1>1, HandshakeFacts DEF GapInv, GapTyped, GapRow, Grown
<1>3. ASSUME gap' = gap, view'.feed = view.feed, asked' \in {asked, 0},
             \A k \in 1 .. Len(inbox') :
                \/ \E j \in 1 .. Len(inbox) : inbox'[k] = inbox[j]
                \/ ~ IsSubscribed(inbox'[k]) /\ ~ IsBackfill(inbox'[k])
      PROVE  GapInv'
  BY <1>1, <1>2, <1>3, GapCarries DEF Closed
<1>4. ASSUME gap' = gap, view'.feed = view.feed, UNCHANGED <<asked, inbox>>
      PROVE  GapInv'
  <2>1. \A k \in 1 .. Len(inbox') : \E j \in 1 .. Len(inbox) : inbox'[k] = inbox[j]
    BY <1>4
  <2> QED BY <1>3, <1>4, <2>1
<1>5. ASSUME gap' = gap, view'.feed = view.feed, asked' \in {asked, 0},
             NEW m \in Pushes \cup Failures, inbox' = Append(inbox, m)
      PROVE  GapInv'
  <2>1. m \in Frames /\ ~ IsSubscribed(m) /\ ~ IsBackfill(m)
    BY <1>5, FrameKinds DEF Frames
  <2>2. \A k \in 1 .. Len(inbox') :
          \/ k \in 1 .. Len(inbox) /\ inbox'[k] = inbox[k]
          \/ k = Len(inbox) + 1 /\ inbox'[k] = m
    BY <1>2, <1>5, <2>1, SendFrame
  <2> QED BY <1>3, <1>5, <2>1, <2>2
<1>6. CASE Rows
  BY <1>4, <1>6 DEF Rows, Poll, Delete, Age, socketVars
<1>7. CASE Indexer
  <2>1. gap' = gap /\ view' = view /\ asked' = asked
    BY <1>7 DEF Indexer, Republish, RepublishFails, IndexerStops, IndexerStarts, socketVars
  <2>2. CASE UNCHANGED inbox
    BY <1>4, <2>1, <2>2
  <2>3. CASE ~ UNCHANGED inbox
    <3>1. Republish /\ notices # <<>> /\ inbox' = Append(inbox, LivePayload(Head(notices)))
      BY <1>7, <2>3 DEF Indexer, Republish, RepublishFails, IndexerStops, IndexerStarts,
                        socketVars, Deliver
    <3>2. Head(notices) \in EventId
      BY <1>1, <3>1, HeadTailProperties DEF WiresOK
    <3>3. LivePayload(Head(notices)) \in Pushes
      BY <3>2 DEF LivePayload, Pushes
    <3> QED BY <1>5, <2>1, <3>1, <3>3
  <2> QED BY <2>2, <2>3
<1>8. CASE Connect
  BY <1>4, <1>8 DEF Connect
<1>9. CASE Subscribed
  <2>1. /\ inbox' \in Seq(Frames) /\ asked' = 0
        /\ Len(inbox') = 1 /\ inbox'[1] = [type |-> "subscribed", since |-> horizon]
    BY <1>1, <1>9, SubscribedKeeps
  <2>2. /\ gap' = [from |-> horizon, upto |-> Len(events), filled |-> FALSE]
        /\ events' = events /\ horizon \in Nat \ {0}
    BY <1>1, <1>9 DEF Subscribed, rowVars, RowsOK
  <2>3. GapTyped'
    <3>1. gap' \in [from : Nat \ {0}, upto : 0 .. Len(events'), filled : BOOLEAN]
      BY <1>2, <2>2
    <3>2. \A k \in 1 .. Len(inbox') : inbox'[k].since = gap'.from
      BY <2>1, <2>2
    <3> QED BY <2>1, <3>1, <3>2 DEF GapTyped
  <2>4. Replayed' /\ Closed'
    <3>1. ~ gap'.filled /\ \A k \in 1 .. Len(inbox') : ~ IsBackfill(inbox'[k])
      BY <2>1, <2>2 DEF IsBackfill
    <3> QED BY <3>1 DEF Replayed, Closed
  <2> QED BY <2>3, <2>4 DEF GapInv
<1>10. CASE ConnectionLost \/ SlowClientClosed
  <2>1. /\ inbox' = <<>> /\ asked' = 0 /\ Len(inbox') = 0 /\ events' = events
        /\ gap' = [from |-> 1, upto |-> 0, filled |-> FALSE]
    BY <1>10 DEF ConnectionLost, SlowClientClosed, Hangup, NoGap, rowVars
  <2>2. GapTyped' /\ Replayed' /\ Closed'
    BY <1>2, <2>1 DEF GapTyped, Replayed, Closed
  <2> QED BY <2>2 DEF GapInv
<1>11. CASE Backfill
  <2> DEFINE m == [type |-> "backfill", events |-> ListEvents(asked)]
  <2>1. /\ asked # 0 /\ asked' = 0 /\ inbox' = Append(inbox, m) /\ gap' = gap /\ view' = view
        /\ asked \in Nat \ {0} /\ asked = gap.from
    BY <1>1, <1>2, <1>11 DEF Backfill, WiresOK
  <2>2. /\ ListEvents(asked) \in Seq(EventId)
        /\ WithinLimits => Wanted \subseteq ToSet(ListEvents(asked))
    <3>1. /\ ListEvents(asked) \in Seq(EventId)
          /\ Len(events) - asked < BackfillLimit =>
                \A i \in asked .. Len(events) :
                  events[i].dev \in live => i \in ToSet(ListEvents(asked))
      BY <1>2, <2>1, ListEventsEffect
    <3>2. ASSUME NEW id \in Wanted
          PROVE  id \in asked .. Len(events) /\ events[id].dev \in live
      BY <1>2, <2>1 DEF Wanted, GapRow
    <3> QED BY <2>1, <3>1, <3>2 DEF WithinLimits
  <2>3. m \in Replays /\ m.events = ListEvents(asked)
    BY <2>2 DEF Replays
  <2> HIDE DEF m
  <2>4. m \in Frames /\ ~ IsSubscribed(m)
    BY <2>3, FrameKinds DEF Frames
  <2>5. \A k \in 1 .. Len(inbox') :
          \/ k \in 1 .. Len(inbox) /\ inbox'[k] = inbox[k]
          \/ k = Len(inbox) + 1 /\ inbox'[k] = m
    BY <1>2, <2>1, <2>4, SendFrame
  <2>6. \A k \in 1 .. Len(inbox') :
          \/ \E j \in 1 .. Len(inbox) : inbox'[k] = inbox[j]
          \/ /\ ~ IsSubscribed(inbox'[k])
             /\ IsBackfill(inbox'[k]) /\ WithinLimits => Wanted \subseteq ToSet(inbox'[k].events)
    BY <2>2, <2>3, <2>4, <2>5
  <2>7. gap'.filled /\ WithinLimits => Wanted \subseteq ToSet(view'.feed)
    BY <1>2, <2>1 DEF Closed
  <2> QED BY <1>1, <1>2, <2>1, <2>6, <2>7, GapCarries
<1>12. CASE BackfillFails
  <2>1. [error |-> "INTERNAL"] \in Pushes \cup Failures
    BY DEF Failures
  <2>2. /\ asked' = 0 /\ inbox' = Append(inbox, [error |-> "INTERNAL"])
        /\ gap' = gap /\ view' = view
    BY <1>12 DEF BackfillFails
  <2> QED BY <1>5, <2>1, <2>2
<1>13. CASE Receive
  <2> DEFINE m == Head(inbox)
  <2>1. inbox # <<>> /\ inbox' = Tail(inbox) /\ gap' = [gap EXCEPT !.filled = @ \/ IsBackfill(m)]
    BY <1>13 DEF Receive
  <2>2. /\ m = inbox[1] /\ m \in Frames /\ 1 \in 1 .. Len(inbox)
        /\ \A k \in 1 .. Len(inbox') : k + 1 \in 1 .. Len(inbox) /\ inbox'[k] = inbox[k + 1]
    BY <1>2, <2>1, ReceiveFrame
  <2>3. /\ HasRoom(view'.feed) =>
             /\ HasRoom(view.feed)
             /\ ToSet(view.feed) \subseteq ToSet(view'.feed)
             /\ IsBackfill(m) => ToSet(m.events) \subseteq ToSet(view'.feed)
        /\ asked' # 0 => \/ asked' = asked
                         \/ IsSubscribed(m) /\ asked' = m.since
    BY <1>1, <1>13, ReceiveShows, ReceiveKeeps
  <2> HIDE DEF m
  <2>4. /\ gap' \in GapRow /\ gap'.from = gap.from /\ gap'.upto = gap.upto
        /\ gap'.filled => gap.filled \/ IsBackfill(m)
    <3>1. (gap.filled \/ IsBackfill(m)) \in BOOLEAN
      OBVIOUS
    <3> QED BY <1>2, <2>1, <3>1 DEF GapRow
  <2>5. asked' # 0 => asked' = gap.from
    BY <1>2, <2>2, <2>3 DEF GapInv, GapTyped
  <2>6. ASSUME gap'.filled, WithinLimits, HasRoom(view'.feed)
        PROVE  Wanted \subseteq ToSet(view'.feed)
    <3>1. Replayed /\ Closed
      BY <1>2, <2>6
    <3>2. CASE gap.filled
      BY <2>3, <2>6, <3>1, <3>2 DEF Closed
    <3>3. CASE IsBackfill(m)
      BY <2>2, <2>3, <2>6, <3>1, <3>3 DEF Replayed
    <3> QED BY <2>4, <2>6, <3>2, <3>3
  <2>7. \A k \in 1 .. Len(inbox') : \E j \in 1 .. Len(inbox) : inbox'[k] = inbox[j]
    BY <2>2
  <2> QED BY <1>1, <2>3, <2>4, <2>5, <2>6, <2>7, GapCarries
<1>14. CASE \E l \in Load : Reload(l)
  <2>1. view'.feed = view.feed
    BY <1>1, <1>14, LoadSteps
  <2>2. UNCHANGED <<asked, inbox, gap>>
    BY <1>14 DEF Reload, LoadStart, ReadDashboard, ReadDevices, LoadDone, LoadFails, socketVars
  <2> QED BY <1>4, <2>1, <2>2
<1>15. CASE UNCHANGED vars
  BY <1>4, <1>15 DEF vars, socketVars
<1>16. CASE Stream
  BY <1>8, <1>9, <1>10, <1>11, <1>12, <1>13, <1>16 DEF Stream
<1> QED BY <1>6, <1>7, <1>14, <1>15, <1>16 DEF Next

\* Once the backfill of a connection has been handled, everything that landed
\* before the subscription was live, not older than five minutes and of a
\* device that is still there, is in the feed, as long as one query can answer
\* all that landed since the five minutes began and the feed has not been full.
THEOREM NoEventInTheGap == Spec => [](WithinLimits => BackfillClosesGap)
<1>1. Init => LiveInv /\ GapInv
  BY InitLive, InitGap
<1>2. LiveInv /\ GapInv /\ [Next]_vars => (LiveInv /\ GapInv)'
  BY NextLive, NextGap
<1>3. GapInv => (WithinLimits => BackfillClosesGap)
  BY DEF GapInv, Closed, Wanted, BackfillClosesGap
<1> QED BY <1>1, <1>2, <1>3, PTL DEF Spec
=============================================================================
