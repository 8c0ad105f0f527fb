------------------------- MODULE VendorAdapterProofs -------------------------
(***************************************************************************)
(* What the Uniview cursor promises, for any log, page size, number of     *)
(* retries and time: it passes no alarm of a read window, and repeats only *)
(* the alarms of its own second.  Both come from what a pull knows of its  *)
(* window (Window, Read) and from every stored alarm being no later than   *)
(* the cursor (StoredIsBehind), under which the window can only meet an    *)
(* already stored alarm in its first second.                               *)
(***************************************************************************)
EXTENDS VendorAdapter, TLAPS

Room == pc # "idle" => \A a \in Alarm : stored[a] < MaxCopies

StoredIsBehind ==
  \A a \in Alarm : stored[a] > 0 => /\ cursor # NoCursor /\ logged[a] # Unlogged
                                    /\ logged[a] <= cursor

\* Only the Uniview adapter has alarms.
Others == vendor \notin Lapi => page = {} /\ ~listed

Running == pc \in {"requesting", "pulled"}

\* Where the alarm request is the fourth of five.
Before == step < 4 => pc # "pulled" /\ page = {} /\ ~listed

Window ==
  step >= 4 => /\ cursor # NoCursor => window.start = cursor
               /\ step = 4 => /\ pc # "pulled" /\ page = {} /\ ~listed
                              /\ next = window.end
               /\ cursor # NoCursor => cursor <= next

Read ==
  step >= 4 =>
    /\ \A a \in page : /\ logged[a] # Unlogged
                       /\ logged[a] >= window.start /\ logged[a] <= next
    /\ listed /\ Cardinality(page) < PageSize =>
         \A a \in Alarm : (logged[a] # Unlogged /\ logged[a] >= window.start
                             /\ logged[a] < next) => a \in page

PullInv == Running /\ vendor \in Lapi => Before /\ Window /\ Read

\* A returned cursor is not behind the stored one, whoever returned it.
Forward == pc = "pulled" /\ cursor # NoCursor => cursor <= next

Heard ==
  (vendor \notin Tolerant /\ (pc = "pulled" \/ (pc = "requesting" /\ step > 1)))
    => answered

IInv == /\ TypeOK /\ Room /\ StoredIsBehind /\ Others /\ PullInv /\ Forward
        /\ Heard

-----------------------------------------------------------------------------
(* The requests of a pull.                                                 *)

\* Uniview's five requests; nobody else asks for alarms.
LEMMA RequestsOfPull ==
  ASSUME vendor \in Vendor
  PROVE  /\ Len(Requests) \in Nat \ {0}
         /\ vendor \in Lapi =>
              /\ Len(Requests) = 5
              /\ \A i \in 1..5 : Requests[i] = "alarms" <=> i = 4
         /\ vendor \notin Lapi =>
              \A i \in 1..Len(Requests) : Requests[i] # "alarms"
<1>1. CASE vendor \in Lapi
  <2>1. Requests = <<"info", "disk", "channels", "alarms", "time">>
    BY <1>1 DEF Requests, Lapi
  <2> QED BY <1>1, <2>1
<1>2. CASE vendor = "onvif"
  <2>1. Requests = <<"info", "time", "channels">>
    BY <1>2 DEF Requests, Lapi
  <2> QED BY <1>2, <2>1 DEF Lapi
<1>3. CASE vendor = "dahua"
  <2>1. Requests = [i \in 1..Codes |-> "events"]
    BY <1>3 DEF Requests, Lapi
  <2>2. Requests \in Seq({"events"}) /\ Len(Requests) = Codes
    BY <2>1, NumberAssumption
  <2> QED BY <1>3, <2>1, <2>2, NumberAssumption DEF Lapi
<1>4. CASE vendor \in {"hikvision", "hanwha", "axis"}
  <2>1. Requests = <<"events">>
    BY <1>4 DEF Requests, Lapi
  <2> QED BY <1>4, <2>1 DEF Lapi
<1> QED BY <1>1, <1>2, <1>3, <1>4, VendorAssumption DEF Lapi

LEMMA AlarmsComeFourth ==
  ASSUME TypeOK
  PROVE  NextIsAlarms <=> vendor \in Lapi /\ step = 3
<1>1. step \in 1..Len(Requests) /\ Len(Requests) \in Nat
  BY RequestsOfPull DEF TypeOK
<1>2. CASE vendor \in Lapi
  <2>1. Len(Requests) = 5 /\ \A i \in 1..5 : Requests[i] = "alarms" <=> i = 4
    BY <1>2, RequestsOfPull DEF TypeOK
  <2>2. CASE step < 5
    <3>1. step + 1 \in 1..5
      BY <1>1, <2>1, <2>2
    <3> QED BY <1>1, <1>2, <2>1, <2>2, <3>1 DEF NextIsAlarms
  <2>3. CASE step = 5
    BY <2>1, <2>3 DEF NextIsAlarms
  <2> QED BY <1>1, <2>1, <2>2, <2>3
<1>3. CASE vendor \notin Lapi
  <2>1. step < Len(Requests) => Requests[step + 1] # "alarms"
    BY <1>1, <1>3, RequestsOfPull DEF TypeOK
  <2> QED BY <1>3, <2>1 DEF NextIsAlarms
<1> QED BY <1>2, <1>3

\* The window begins no later than now, at the cursor if there is one.
LEMMA StartIsPast ==
  ASSUME TypeOK
  PROVE  /\ StartTime \in 0..now
         /\ cursor # NoCursor => StartTime = cursor
BY NumberAssumption, NullAssumption DEF TypeOK, StartTime, FirstStart

\* How the end of a request moves a pull.
LEMMA AdvanceMoves ==
  ASSUME TypeOK, pc = "requesting", NEW n \in 0..now, Advance(n)
  PROVE  /\ next' \in 0..now /\ pc' \in {"requesting", "pulled"}
         /\ step' \in 1..Len(Requests) /\ attempt' \in 0..Retries
         /\ window' \in [start: Nat, end: Nat]
         /\ pc' = "pulled" => step' = step
         /\ vendor \notin Lapi => (cursor # NoCursor => cursor <= next')
         /\ vendor \in Lapi =>
              /\ step = 3 => /\ step' = 4 /\ pc' = pc /\ next' = now
                             /\ window' = [start |-> StartTime, end |-> now]
              /\ step # 3 => next' = n /\ window' = window
              /\ step < 5 => step' = step + 1 /\ pc' = pc
              /\ step = 5 => step' = 5 /\ pc' = "pulled"
<1>1. step \in 1..Len(Requests) /\ Len(Requests) \in Nat
  BY RequestsOfPull DEF TypeOK
<1>2. vendor \in Lapi => Len(Requests) = 5
  BY RequestsOfPull DEF TypeOK
<1>3. now \in Nat /\ attempt \in 0..Retries /\ Retries \in Nat
      /\ window \in [start: Nat, end: Nat]
  BY NumberAssumption DEF TypeOK
<1>4. next' \in 0..now /\ (vendor \notin Lapi => (cursor # NoCursor => cursor <= next'))
  BY <1>3, AlarmsComeFourth, NullAssumption DEF TypeOK, Advance, CursorAfter, Lapi
<1>5. vendor \in Lapi => next' = IF step = 3 THEN now ELSE n
  BY AlarmsComeFourth DEF Advance, CursorAfter, Lapi
<1>6. CASE step = Len(Requests)
  <2>1. pc' = "pulled" /\ UNCHANGED <<step, attempt, window>>
    BY <1>1, <1>6 DEF Advance
  <2>2. /\ step' = step /\ attempt' = attempt /\ window' = window
        /\ pc' \in {"requesting", "pulled"}
    BY <2>1
  <2>3. vendor \in Lapi => step = 5 /\ next' = n
    BY <1>2, <1>5, <1>6
  <2> QED BY <1>1, <1>3, <1>4, <2>1, <2>2, <2>3
<1>7. CASE step < Len(Requests)
  <2>1. /\ step' = step + 1 /\ attempt' = 0 /\ pc' = pc
        /\ window' = IF NextIsAlarms THEN [start |-> StartTime, end |-> now]
                     ELSE window
    BY <1>1, <1>7 DEF Advance
  <2>2. window' \in [start: Nat, end: Nat]
    BY <1>3, <2>1, StartIsPast
  <2>3. vendor \in Lapi => window' = IF step = 3 THEN [start |-> StartTime, end |-> now]
                                     ELSE window
    BY <2>1, AlarmsComeFourth
  <2>4. /\ step' \in 1..Len(Requests) /\ attempt' \in 0..Retries
        /\ pc' \in {"requesting", "pulled"} /\ pc' # "pulled"
    BY <1>1, <1>3, <1>7, <2>1
  <2>5. ASSUME vendor \in Lapi
        PROVE  /\ step = 3 => /\ step' = 4 /\ pc' = pc /\ next' = now
                              /\ window' = [start |-> StartTime, end |-> now]
               /\ step # 3 => next' = n /\ window' = window
               /\ step < 5 => step' = step + 1 /\ pc' = pc
               /\ step # 5
    <3>0. Len(Requests) = 5
      BY <1>2, <2>5, Zenon
    <3>1. step # 5
      BY <1>1, <1>7, <3>0
    <3>2. step = 3 => next' = now /\ window' = [start |-> StartTime, end |-> now]
      BY <1>5, <2>3, <2>5, Zenon
    <3>3. step # 3 => next' = n /\ window' = window
      BY <1>5, <2>3, <2>5, Zenon
    <3> QED BY <2>1, <3>1, <3>2, <3>3
  <2> QED BY <1>4, <2>2, <2>4, <2>5
<1> QED BY <1>1, <1>6, <1>7

LEMMA SameRequests == vendor' = vendor => Requests' = Requests
BY DEF Requests

-----------------------------------------------------------------------------
(* The steps keep the invariant.                                           *)

LEMMA InitIInv == Init => IInv
<1> SUFFICES ASSUME Init PROVE IInv
  OBVIOUS
<1>1. TypeOK
  <2>1. Len(Requests) \in Nat \ {0}
    BY RequestsOfPull DEF Init
  <2>2. 1 \in 1..Len(Requests) /\ 0 \in 0..Retries /\ 1 \in 1..MaxTime
    BY <2>1, NumberAssumption
  <2>3. window \in [start: Nat, end: Nat]
    BY DEF Init, Unset
  <2>4. /\ logged \in [Alarm -> 0..now \cup {Unlogged}]
        /\ stored \in [Alarm -> 0..MaxCopies]
    BY NumberAssumption DEF Init
  <2>5. /\ vendor \in Vendor /\ now \in 1..MaxTime /\ next \in 0..now
        /\ cursor \in 0..now \cup {NoCursor} /\ pc \in Location
        /\ step \in 1..Len(Requests) /\ attempt \in 0..Retries
    BY <2>2 DEF Init, Location
  <2>6. page \subseteq Alarm /\ listed \in BOOLEAN /\ answered \in BOOLEAN
        /\ noted \subseteq {"trouble", "down"}
    BY DEF Init
  <2> QED BY <2>3, <2>4, <2>5, <2>6 DEF TypeOK
<1>2. Room /\ StoredIsBehind /\ Others /\ PullInv /\ Forward /\ Heard
  BY DEF Init, Room, StoredIsBehind, Others, PullInv, Running, Forward, Heard
<1> QED BY <1>1, <1>2 DEF IInv

LEMMA TickKeeps == IInv /\ Tick => IInv'
<1> SUFFICES ASSUME IInv, Tick PROVE IInv'
  OBVIOUS
<1> USE DEF IInv, Tick, row, found
<1>1. TypeOK'
  BY SameRequests, NumberAssumption DEF TypeOK
<1>2. UNCHANGED <<logged, cursor, stored, page, listed, noted, pc, step, attempt,
                  window, next, answered, vendor>>
  OBVIOUS
<1> HIDE DEF Tick
<1>3. Room' /\ StoredIsBehind' /\ Others' /\ Forward' /\ Heard'
  BY <1>2 DEF Room, StoredIsBehind, Others, Forward, Heard
<1>4. PullInv'
  BY <1>2 DEF PullInv, Running, Before, Window, Read
<1> QED BY <1>1, <1>3, <1>4

LEMMA RaiseKeeps == ASSUME NEW a \in Alarm, IInv, Raise(a) PROVE IInv'
<1> USE DEF IInv, Raise, row, found
<1>1. TypeOK'
  BY SameRequests DEF TypeOK
<1>2. UNCHANGED <<cursor, stored, page, listed, noted, pc, step, attempt,
                  window, next, answered, vendor, now>>
  OBVIOUS
<1>3. /\ logged \in [Alarm -> 0..now \cup {Unlogged}] /\ now \in Nat
      /\ logged[a] = Unlogged /\ logged' = [logged EXCEPT ![a] = now]
  BY NumberAssumption DEF TypeOK
<1> HIDE DEF Raise
<1>4. Room' /\ Others' /\ Forward' /\ Heard'
  BY <1>2 DEF Room, Others, Forward, Heard
<1>5. StoredIsBehind'
  BY <1>2, <1>3 DEF StoredIsBehind
<1>6. PullInv'
  <2>1. \A b \in Alarm : b # a => logged'[b] = logged[b]
    BY <1>3
  <2>2. logged'[a] = now /\ next \in 0..now
    BY <1>3 DEF TypeOK
  <2>3. Read /\ page \subseteq Alarm => Read'
    BY <1>2, <1>3, <2>1, <2>2 DEF Read
  <2> QED BY <1>2, <2>3 DEF PullInv, Running, Before, Window, TypeOK
<1> QED BY <1>1, <1>4, <1>5, <1>6

LEMMA BeginKeeps == IInv /\ Begin => IInv'
<1> SUFFICES ASSUME IInv, Begin PROVE IInv'
  OBVIOUS
<1> USE DEF IInv, Begin, row, device
<1>1. TypeOK'
  <2>1. Len(Requests) \in Nat \ {0} /\ Requests' = Requests
    BY RequestsOfPull, SameRequests DEF TypeOK
  <2>2. 1 \in 1..Len(Requests) /\ 0 \in 0..Retries /\ 0 \in 0..now
    BY <2>1, NumberAssumption DEF TypeOK
  <2>3. window' \in [start: Nat, end: Nat]
    BY DEF Unset
  <2> QED BY <2>1, <2>2, <2>3 DEF TypeOK, Location
<1>2. Room' /\ StoredIsBehind' /\ Others' /\ Forward' /\ Heard'
  BY DEF Room, StoredIsBehind, Others, Forward, Heard
<1>3. PullInv'
  BY DEF PullInv, Running, Before, Window, Read
<1> QED BY <1>1, <1>2, <1>3

LEMMA RetryKeeps ==
  ASSUME IInv, pc = "requesting", Retry, UNCHANGED <<device, row, found>>,
         answered' \in {answered, TRUE}
  PROVE  IInv'
<1> USE DEF IInv, row, device, found
<1>1. TypeOK'
  <2>1. attempt' \in 0..Retries
    BY NumberAssumption DEF Retry, TypeOK
  <2> QED BY <2>1, SameRequests DEF TypeOK, Retry
<1>2. UNCHANGED <<vendor, now, logged, cursor, stored, page, listed, pc, step,
                  window, next>>
  BY DEF Retry
<1>3. Room' /\ StoredIsBehind' /\ Others' /\ Forward' /\ Heard'
  <2>1. Heard'
    BY <1>2 DEF Heard, Tolerant, Lapi
  <2> QED BY <1>2, <2>1 DEF Room, StoredIsBehind, Others, Forward
<1>4. PullInv'
  BY <1>2 DEF PullInv, Running, Before, Window, Read
<1> QED BY <1>1, <1>3, <1>4

LEMMA EndKeeps ==
  ASSUME IInv, pc = "requesting", pc' \in {"unavailable", "broken"},
         UNCHANGED <<step, attempt, window, next>>,
         UNCHANGED <<device, row, found>>, answered' \in {answered, TRUE}
  PROVE  IInv'
<1> USE DEF IInv, row, device, found
<1>1. TypeOK'
  BY SameRequests DEF TypeOK, Location
<1>2. UNCHANGED <<vendor, now, logged, cursor, stored, page, listed>>
  OBVIOUS
<1>3. Room' /\ StoredIsBehind' /\ Others' /\ Forward' /\ Heard' /\ PullInv'
  BY <1>2 DEF Room, StoredIsBehind, Others, Forward, Heard, PullInv, Running
<1> QED BY <1>1, <1>3

\* What an advance keeps whatever the request was.
LEMMA AdvanceCommon ==
  ASSUME IInv, pc = "requesting", NEW n \in 0..now, Advance(n),
         UNCHANGED <<device, row>>, answered' \in BOOLEAN,
         page' \subseteq Alarm, listed' \in BOOLEAN,
         noted' \subseteq {"trouble", "down"}
  PROVE  TypeOK' /\ Room' /\ StoredIsBehind'
<1> USE DEF IInv, row, device
<1>1. /\ next' \in 0..now /\ pc' \in {"requesting", "pulled"}
      /\ step' \in 1..Len(Requests) /\ attempt' \in 0..Retries
      /\ window' \in [start: Nat, end: Nat]
  BY AdvanceMoves
<1>2. UNCHANGED <<vendor, now, logged, cursor, stored>>
  OBVIOUS
<1>3. TypeOK'
  BY <1>1, <1>2, SameRequests DEF TypeOK, Location
<1>4. Room' /\ StoredIsBehind'
  BY <1>2 DEF Room, StoredIsBehind
<1> QED BY <1>3, <1>4

\* A request without a list of alarms.
LEMMA AdvanceKeeps ==
  ASSUME IInv, pc = "requesting", Advance(next), UNCHANGED <<device, row>>,
         UNCHANGED <<page, listed>>, noted' \subseteq {"trouble", "down"},
         answered' \in {answered, TRUE},
         vendor \notin Tolerant => answered' = TRUE
  PROVE  IInv'
<1> USE DEF IInv, row, device
<1>1. /\ next \in 0..now /\ now \in Nat /\ step \in Nat /\ step <= Len(Requests)
      /\ cursor \in 0..now \cup {NoCursor} /\ page \subseteq Alarm
      /\ answered \in BOOLEAN /\ listed \in BOOLEAN
  BY RequestsOfPull, NumberAssumption DEF TypeOK
<1>2. UNCHANGED <<vendor, now, logged, cursor, stored>>
  OBVIOUS
<1>3. TypeOK' /\ Room' /\ StoredIsBehind'
  BY <1>1, AdvanceCommon
<1>4. Others' /\ Heard'
  BY <1>2 DEF Others, Heard
<1>5. ASSUME vendor \in Lapi
      PROVE  PullInv' /\ Forward'
  <2>1. step <= 5
    BY <1>1, <1>5, RequestsOfPull DEF TypeOK
  <2>2. Before /\ Window /\ Read
    BY <1>5 DEF PullInv, Running
  <2>3. CASE step < 3
    BY <1>1, <1>2, <1>5, <2>2, <2>3, AdvanceMoves
    DEF PullInv, Before, Window, Read, Forward
  <2>4. CASE step = 3
    <3>1. /\ step' = 4 /\ pc' = "requesting" /\ next' = now
          /\ window' = [start |-> StartTime, end |-> now]
      BY <1>1, <1>5, <2>4, AdvanceMoves
    <3>2. window'.start = StartTime /\ window'.end = now
      BY <3>1
    <3>3. page = {} /\ ~listed
      BY <2>2, <2>4 DEF Before
    <3> QED BY <1>1, <1>2, <3>1, <3>2, <3>3, StartIsPast
        DEF PullInv, Before, Window, Read, Forward
  <2>5. CASE step = 4
    <3>1. step' = 5 /\ pc' = pc /\ next' = next /\ window' = window
      BY <1>1, <1>5, <2>5, AdvanceMoves
    <3> QED BY <1>1, <1>2, <2>2, <2>5, <3>1
        DEF PullInv, Before, Window, Read, Forward
  <2>6. CASE step = 5
    <3>1. step' = 5 /\ pc' = "pulled" /\ next' = next /\ window' = window
      BY <1>1, <1>5, <2>6, AdvanceMoves
    <3> QED BY <1>1, <1>2, <2>2, <2>6, <3>1
        DEF PullInv, Before, Window, Read, Forward
  <2> QED BY <1>1, <2>1, <2>3, <2>4, <2>5, <2>6
<1>6. ASSUME vendor \notin Lapi
      PROVE  PullInv' /\ Forward'
  BY <1>1, <1>2, <1>6, AdvanceMoves DEF PullInv, Forward
<1> QED BY <1>3, <1>4, <1>5, <1>6

\* The list of alarms.
LEMMA AlarmsKeeps == IInv /\ Alarms => IInv'
<1> SUFFICES ASSUME IInv, Alarms PROVE IInv'
  OBVIOUS
<1> USE DEF IInv, row, device
<1>1. /\ pc = "requesting" /\ Requests[step] = "alarms"
      /\ answered' = TRUE /\ listed' = TRUE /\ page' \in Pages
      /\ noted' \subseteq {"trouble", "down"}
      /\ UNCHANGED <<vendor, now, logged, cursor, stored>>
  BY DEF Alarms, TypeOK
<1>2. PICK t \in Latest(page') : Advance(t)
  BY DEF Alarms
<1>3. vendor \in Lapi /\ step = 4
  BY <1>1, RequestsOfPull DEF TypeOK
<1>4. /\ cursor # NoCursor => window.start = cursor /\ cursor <= next
      /\ pc # "pulled" /\ next = window.end /\ page = {} /\ ~listed
  BY <1>1, <1>3 DEF PullInv, Running, Window
<1>5. /\ next \in 0..now /\ now \in Nat /\ cursor \in 0..now \cup {NoCursor}
      /\ logged \in [Alarm -> 0..now \cup {Unlogged}]
      /\ window \in [start: Nat, end: Nat] /\ window.start \in Nat
  BY NumberAssumption DEF TypeOK
<1>6. /\ page' \subseteq InWindow
      /\ Cardinality(page') < PageSize => page' = InWindow
  BY <1>1, NumberAssumption DEF Pages
<1>7. \A a \in InWindow : /\ a \in Alarm /\ logged[a] # Unlogged
                          /\ logged[a] >= window.start /\ logged[a] <= next
                          /\ logged[a] \in 0..now
  BY <1>4, <1>5, NullAssumption DEF InWindow
<1>8. /\ t \in 0..now /\ t <= next /\ \A a \in page' : logged[a] <= t
      /\ cursor # NoCursor => cursor <= t
  <2>1. CASE page' = {}
    <3>1. t = next
      BY <1>2, <2>1 DEF Latest
    <3> QED BY <1>4, <1>5, <2>1, <3>1
  <2>2. CASE page' # {}
    <3>1. (\E a \in page' : t = logged[a]) /\ \A a \in page' : logged[a] <= t
      BY <1>1, <1>2, <2>2 DEF Latest
    <3> QED BY <1>4, <1>5, <1>6, <1>7, <3>1
  <2> QED BY <2>1, <2>2
<1>9. TypeOK' /\ Room' /\ StoredIsBehind'
  <2>1. page' \subseteq Alarm
    BY <1>6 DEF InWindow
  <2> QED BY <1>1, <1>2, <1>8, <2>1, AdvanceCommon
<1>10. step' = 5 /\ pc' = "requesting" /\ next' = t /\ window' = window
  BY <1>1, <1>2, <1>3, <1>8, AdvanceMoves
<1>11. Read'
  <2>1. \A a \in page' : /\ logged[a] # Unlogged
                         /\ logged[a] >= window.start /\ logged[a] <= t
    BY <1>6, <1>7, <1>8
  <2>2. ASSUME Cardinality(page') < PageSize, NEW a \in Alarm,
               logged[a] # Unlogged, logged[a] >= window.start, logged[a] < t
        PROVE  a \in page'
    <3>1. logged[a] \in window.start..window.end
      BY <1>4, <1>5, <1>8, <2>2
    <3> QED BY <1>6, <2>2, <3>1 DEF InWindow
  <2> QED BY <1>1, <1>10, <2>1, <2>2 DEF Read
<1>12. PullInv' /\ Others' /\ Forward' /\ Heard'
  BY <1>1, <1>3, <1>4, <1>8, <1>10, <1>11
  DEF PullInv, Before, Window, Others, Forward, Heard
<1> QED BY <1>9, <1>12

LEMMA CommitKeeps == IInv /\ Commit => IInv'
<1> SUFFICES ASSUME IInv, Commit PROVE IInv'
  OBVIOUS
<1> USE DEF IInv, device, found
<1>1. /\ pc = "pulled" /\ pc' = "idle" /\ cursor' = next
      /\ stored' = StoredWith(page)
      /\ UNCHANGED <<vendor, now, logged, page, listed, noted, step, attempt,
                     window, next, answered>>
  BY DEF Commit, Over
<1>2. /\ stored \in [Alarm -> 0..MaxCopies] /\ MaxCopies \in Nat
      /\ next \in 0..now /\ now \in Nat /\ cursor \in 0..now \cup {NoCursor}
      /\ logged \in [Alarm -> 0..now \cup {Unlogged}]
  BY NumberAssumption DEF TypeOK
<1>3. stored' \in [Alarm -> 0..MaxCopies]
  <2>1. \A a \in Alarm : stored[a] < MaxCopies
    BY <1>1 DEF Room
  <2> QED BY <1>1, <1>2, <2>1 DEF StoredWith
<1>4. TypeOK'
  BY <1>1, <1>2, <1>3, SameRequests DEF TypeOK, Location
<1>5. StoredIsBehind'
  <2>1. \A a \in page : logged[a] # Unlogged /\ logged[a] <= next
    BY <1>1, RequestsOfPull DEF PullInv, Running, Before, Read, Others, TypeOK
  <2>2. SUFFICES ASSUME NEW a \in Alarm, stored'[a] > 0
                 PROVE  logged[a] # Unlogged /\ logged[a] <= next
    BY <1>1, <1>2, NullAssumption DEF StoredIsBehind
  <2>3. CASE a \in page
    BY <2>1, <2>3
  <2>4. CASE a \notin page
    <3>1. stored[a] > 0
      BY <1>1, <2>2, <2>4 DEF StoredWith
    <3>2. cursor # NoCursor /\ logged[a] # Unlogged /\ logged[a] <= cursor
      BY <3>1 DEF StoredIsBehind
    <3>3. cursor <= next
      BY <1>1, <3>2 DEF Forward
    <3> QED BY <1>2, <3>2, <3>3
  <2> QED BY <2>3, <2>4
<1>6. Room' /\ Others' /\ PullInv' /\ Forward' /\ Heard'
  BY <1>1 DEF Room, Others, PullInv, Running, Forward, Heard
<1> QED BY <1>4, <1>5, <1>6

LEMMA AbandonKeeps == IInv /\ Abandon => IInv'
<1> SUFFICES ASSUME IInv, Abandon PROVE IInv'
  OBVIOUS
<1> USE DEF IInv, device, found, row
<1>1. /\ pc' = "idle"
      /\ UNCHANGED <<vendor, now, logged, cursor, stored, page, listed, noted,
                     step, attempt, window, next, answered>>
  BY DEF Abandon, Over
<1>2. TypeOK'
  BY <1>1, SameRequests DEF TypeOK, Location
<1>3. Room' /\ StoredIsBehind' /\ Others' /\ PullInv' /\ Forward' /\ Heard'
  BY <1>1 DEF Room, StoredIsBehind, Others, PullInv, Running, Forward, Heard
<1> QED BY <1>2, <1>3

LEMMA NextKeeps == IInv /\ [Next]_vars => IInv'
<1> SUFFICES ASSUME IInv, [Next]_vars PROVE IInv'
  OBVIOUS
<1>1. answered \in BOOLEAN /\ noted \subseteq {"trouble", "down"}
  BY DEF IInv, TypeOK
<1>2. ASSUME pc = "requesting", NEW e \in {"unavailable", "broken"}, Throw(e),
             UNCHANGED <<device, row, found>>, answered' \in {answered, TRUE}
      PROVE  IInv'
  <2>1. CASE vendor \in Tolerant
    <3>1. Advance(next)
      BY <1>2, <2>1 DEF Throw
    <3> QED BY <1>1, <1>2, <2>1, <3>1, AdvanceKeeps DEF device, row, found
  <2>2. CASE vendor \notin Tolerant
    <3>1. pc' = e /\ UNCHANGED <<step, attempt, window, next>>
      BY <1>2, <2>2 DEF Throw
    <3> QED BY <1>2, <3>1, EndKeeps
  <2> QED BY <2>1, <2>2
<1>3. CASE Tick
  BY <1>3, TickKeeps
<1>4. CASE \E a \in Alarm : Raise(a)
  BY <1>4, RaiseKeeps
<1>5. CASE Begin
  BY <1>5, BeginKeeps
<1>6. CASE NoAnswer
  <2>1. CASE Retry
    BY <1>6, <2>1, RetryKeeps DEF NoAnswer
  <2>2. CASE Throw("unavailable")
    BY <1>2, <1>6, <2>2 DEF NoAnswer
  <2> QED BY <1>6, <2>1, <2>2 DEF NoAnswer
<1>7. CASE ServerError
  BY <1>7, RetryKeeps DEF ServerError
<1>8. CASE CutShort
  BY <1>2, <1>8 DEF CutShort
<1>9. CASE Answer
  <2>1. /\ pc = "requesting" /\ Advance(next) /\ answered' = TRUE
        /\ UNCHANGED <<device, row>> /\ UNCHANGED <<page, listed>>
        /\ noted' \subseteq {"trouble", "down"}
    BY <1>1, <1>9 DEF Answer
  <2> QED BY <2>1, AdvanceKeeps
<1>10. CASE Alarms
  BY <1>10, AlarmsKeeps
<1>11. CASE Commit
  BY <1>11, CommitKeeps
<1>12. CASE Abandon
  BY <1>12, AbandonKeeps
<1>13. CASE UNCHANGED vars
  <2>1. UNCHANGED <<vendor, now, logged, cursor, stored, page, listed, noted, pc,
                    step, attempt, window, next, answered>>
    BY <1>13 DEF vars, device, row, found
  <2>2. TypeOK'
    BY <2>1, SameRequests DEF IInv, TypeOK
  <2> QED BY <2>1, <2>2
      DEF IInv, Room, StoredIsBehind, Others, PullInv, Running, Before, Window,
          Read, Forward, Heard
<1> QED BY <1>3, <1>4, <1>5, <1>6, <1>7, <1>8, <1>9, <1>10, <1>11, <1>12, <1>13
    DEF Next

LEMMA AlwaysIInv == Spec => []IInv
BY InitIInv, NextKeeps, PTL DEF Spec

-----------------------------------------------------------------------------
(* The theorems.                                                           *)

\* Every variable keeps its type, and no cursor is ahead of the clock.
THEOREM AdapterTypeCorrect == Spec => []TypeOK
<1>1. IInv => TypeOK
  BY DEF IInv
<1> QED BY <1>1, AlwaysIInv, PTL

\* The Hikvision, Dahua, Hanwha and Axis adapters return no result for a device
\* that answered nothing, whatever the number of requests and retries.
THEOREM SilenceThrows == Spec => []SilentDeviceIsUnavailable
<1>1. IInv => SilentDeviceIsUnavailable
  BY DEF IInv, Heard, SilentDeviceIsUnavailable, Tolerant
<1> QED BY <1>1, AlwaysIInv, PTL

LEMMA StoredByCommit ==
  [Next]_vars => \/ Commit
                 \/ UNCHANGED row
BY DEF Next, vars, row, Tick, Raise, Begin, NoAnswer, ServerError, CutShort,
       Answer, Alarms, Abandon

\* The Uniview cursor passes no alarm of a list that fitted its page, for any
\* log, page size and order of polls, alarms and aborted transactions.
THEOREM NothingReadIsSkipped == Spec => CursorPassesOnlyStored
<1>1. IInv /\ [Next]_vars => [PassesOnlyStored]_vars
  <2> SUFFICES ASSUME IInv, [Next]_vars, pc = "pulled", listed,
                      Cardinality(page) < PageSize, cursor # NoCursor,
                      NEW a \in Alarm, logged[a] # Unlogged,
                      logged[a] >= cursor, logged[a] < cursor'
               PROVE  stored'[a] > 0
    BY DEF PassesOnlyStored
  <2>1. /\ cursor \in Nat /\ logged[a] \in Nat /\ step \in Nat
        /\ stored \in [Alarm -> 0..MaxCopies] /\ MaxCopies \in Nat
    BY RequestsOfPull, NumberAssumption DEF IInv, TypeOK
  <2>2. CASE Commit
    <3>1. cursor' = next /\ stored' = StoredWith(page)
      BY <2>2 DEF Commit
    <3>2. vendor \in Lapi /\ step >= 4
      BY <2>1 DEF IInv, Others, PullInv, Running, Before
    <3>3. a \in page
      BY <3>1, <3>2 DEF IInv, PullInv, Running, Window, Read
    <3> QED BY <2>1, <3>1, <3>3 DEF StoredWith
  <2>3. CASE UNCHANGED row
    BY <2>1, <2>3 DEF row
  <2> QED BY <2>2, <2>3, StoredByCommit
<1> QED BY <1>1, AlwaysIInv, PTL DEF Spec, CursorPassesOnlyStored

\* A stored alarm is stored again only if it happened in the cursor's second.
THEOREM RepeatsAreBounded == Spec => RepeatedOnlyAtCursor
<1>1. IInv /\ [Next]_vars => [RepeatsAtCursor]_vars
  <2> SUFFICES ASSUME IInv, [Next]_vars, NEW a \in Alarm, stored[a] > 0,
                      stored'[a] # stored[a]
               PROVE  logged[a] = cursor
    BY DEF RepeatsAtCursor
  <2>1. Commit
    BY StoredByCommit DEF row
  <2>2. a \in page /\ pc = "pulled"
    BY <2>1 DEF Commit, StoredWith, IInv, TypeOK
  <2>3. /\ cursor # NoCursor /\ logged[a] # Unlogged /\ logged[a] <= cursor
        /\ cursor \in Nat /\ logged[a] \in Nat /\ step \in Nat
    BY RequestsOfPull, NumberAssumption DEF IInv, StoredIsBehind, TypeOK
  <2>4. vendor \in Lapi /\ step >= 4
    BY <2>2, <2>3 DEF IInv, Others, PullInv, Running, Before
  <2>5. logged[a] >= window.start /\ window.start = cursor
    BY <2>2, <2>3, <2>4 DEF IInv, PullInv, Running, Window, Read
  <2> QED BY <2>3, <2>5
<1> QED BY <1>1, AlwaysIInv, PTL DEF Spec, RepeatedOnlyAtCursor
=============================================================================
