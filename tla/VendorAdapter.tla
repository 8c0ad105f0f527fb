---------------------------- MODULE VendorAdapter ----------------------------
(***************************************************************************)
(* The vendor adapters of src/adapters: what one poll after another sees   *)
(* of one device, and what becomes of the device's alarm log.              *)
(*                                                                         *)
(* A pull is a sequence of HTTP requests, each tried a few times by        *)
(* BaseHTTPAdapter.request.  The Hikvision, Dahua, Hanwha and Axis         *)
(* adapters let a request's failure end the pull; ONVIF and Uniview catch  *)
(* it and go on.  Only Uniview (and TVT, the same class) reads a log: one  *)
(* page of the alarms from its cursor's second to now.  The parsers of the *)
(* four first-named adapters are stubs that find no events.                *)
(*                                                                         *)
(* The caller commits the pull's events and its cursor, or neither         *)
(* (PollWorker models that in full).  Time is in seconds, as the alarm     *)
(* request's parameters are, and the device's clock is right.              *)
(***************************************************************************)
EXTENDS Naturals, Sequences, FiniteSets

CONSTANTS
  Vendor,      \* vendors of the registry to look at
  Alarm,       \* alarms the device may log
  Retries,     \* VENDOR_HTTP_RETRIES
  PageSize,    \* pageSize of the alarm request: 200
  Codes,       \* how many event types the Dahua adapter polls: 9
  LookBack,    \* how far the first poll reads back: 3600 s
  Unlogged,    \* the time of an alarm that has not happened
  NoCursor,    \* poll_cursor is NULL
  MaxTime,     \* bound: seconds
  MaxCopies    \* bound: copies of one alarm when a pull begins

Lapi == {"uniview", "tvt"}

ASSUME VendorAssumption ==
  Vendor \subseteq Lapi \cup {"onvif", "hikvision", "dahua", "hanwha", "axis"}
ASSUME NumberAssumption ==
  /\ Retries \in Nat /\ LookBack \in Nat /\ MaxCopies \in Nat
  /\ PageSize \in Nat \ {0} /\ Codes \in Nat \ {0} /\ MaxTime \in Nat \ {0}
ASSUME NullAssumption == Unlogged \notin Nat /\ NoCursor \notin Nat

VARIABLES
  vendor,    \* devices.vendor
  now,       \* the clock; 0 is the epoch
  logged,    \* StartTime of each alarm in the device's log
  cursor,    \* devices.poll_cursor
  stored,    \* copies of each alarm in events
  pc,        \* where the pull is
  step,      \* which of its requests is under way
  attempt,   \* attempt of request's loop
  window,    \* startTime and endTime of the alarm request
  page,      \* the alarms it returned
  listed,    \* did it return a list at all
  noted,     \* what the events say: "trouble" (above info), "down" (offline)
  next,      \* nextCursor
  answered   \* history: did the device answer any attempt of this pull

device == <<vendor, now, logged>>
row    == <<cursor, stored>>
found  == <<page, listed, noted>>
vars   == <<device, row, found, pc, step, attempt, window, next, answered>>

\* unavailable: it threw ADAPTER_UNAVAILABLE; broken: it threw something else.
Location == {"idle", "requesting", "pulled", "unavailable", "broken"}

\* Mutant: one more adapter that catches what its request throws.
TolerantHikvision == Lapi \cup {"onvif", "hikvision"}

\* Whose pulls go on when a request has thrown.
Tolerant == Lapi \cup {"onvif"}

\* The requests of one pull, in order.
Requests ==
  CASE vendor \in Lapi    -> <<"info", "disk", "channels", "alarms", "time">>
    [] vendor = "onvif"   -> <<"info", "time", "channels">>
    [] vendor = "dahua"   -> [i \in 1..Codes |-> "events"]
    [] OTHER              -> <<"events">>

FirstStart == IF now >= LookBack THEN now - LookBack ELSE 0

\* Mutants: the window begins a second late, or a second early.
StartAfterCursor  == IF cursor = NoCursor THEN FirstStart ELSE cursor + 1
StartBeforeCursor == IF cursor \in {NoCursor, 0} THEN FirstStart ELSE cursor - 1

\* isoToUnix(cursor), or the look-back of the first poll.
StartTime == IF cursor = NoCursor THEN FirstStart ELSE cursor

Unset == [start |-> 0, end |-> 0]

Init ==
  /\ vendor \in Vendor
  /\ now    = 1
  /\ logged = [a \in Alarm |-> Unlogged]
  /\ cursor = NoCursor
  /\ stored = [a \in Alarm |-> 0]
  /\ pc     = "idle"
  /\ step = 1 /\ attempt = 0 /\ window = Unset /\ next = 0
  /\ page = {} /\ listed = FALSE /\ noted = {} /\ answered = FALSE

Tick ==
  /\ now < MaxTime
  /\ now' = now + 1
  /\ UNCHANGED <<vendor, logged, row, found, pc, step, attempt, window, next,
                 answered>>

\* The device logs an alarm.
Raise(a) ==
  /\ vendor \in Lapi
  /\ logged[a] = Unlogged
  /\ logged' = [logged EXCEPT ![a] = now]
  /\ UNCHANGED <<vendor, now, row, found, pc, step, attempt, window, next,
                 answered>>

-----------------------------------------------------------------------------
(* One pull.                                                               *)

Begin ==
  /\ pc = "idle"
  /\ \A a \in Alarm : stored[a] < MaxCopies
  /\ pc' = "requesting"
  /\ step' = 1 /\ attempt' = 0 /\ window' = Unset /\ next' = 0
  /\ page' = {} /\ listed' = FALSE /\ noted' = {} /\ answered' = FALSE
  /\ UNCHANGED <<device, row>>

NextIsAlarms == step < Len(Requests) /\ Requests[step + 1] = "alarms"

\* Mutant: the alarm request's cursor is the second after its window.
CursorAfterEnd(n) == IF NextIsAlarms THEN now + 1 ELSE n

\* nextCursor once this request is over; n is what its answer makes of it.
CursorAfter(n) ==
  CASE vendor \in Lapi             -> IF NextIsAlarms THEN now ELSE n
    [] vendor \in {"hanwha", "axis"} -> now
    [] OTHER -> IF cursor = NoCursor THEN now ELSE cursor

\* The request is over: the next one starts, or the pull returns.
Advance(n) ==
  /\ next' = CursorAfter(n)
  /\ \/ /\ step = Len(Requests)
        /\ pc' = "pulled"
        /\ UNCHANGED <<step, attempt, window>>
     \/ /\ step < Len(Requests)
        /\ step' = step + 1
        /\ attempt' = 0
        /\ window' = IF NextIsAlarms THEN [start |-> StartTime, end |-> now]
                     ELSE window
        /\ UNCHANGED pc

\* The request throws, which a tolerant adapter catches.
Throw(error) ==
  \/ vendor \in Tolerant /\ Advance(next)
  \/ /\ vendor \notin Tolerant
     /\ pc' = error
     /\ UNCHANGED <<step, attempt, window, next>>

Retry ==
  /\ attempt < Retries
  /\ attempt' = attempt + 1
  /\ UNCHANGED <<pc, step, window, next>>

\* fetch rejects: no connection, or one of the agent's timeouts.
NoAnswer ==
  /\ pc = "requesting"
  /\ \/ Retry
     \/ attempt = Retries /\ Throw("unavailable")
  /\ UNCHANGED <<device, row, found, answered>>

\* A 5xx answer, attempts left.  The last attempt's 5xx is read like any other.
ServerError ==
  /\ pc = "requesting"
  /\ Retry
  /\ answered' = TRUE
  /\ UNCHANGED <<device, row, found>>

\* The connection is cut while the body is read, which is outside the try.
CutShort ==
  /\ pc = "requesting"
  /\ answered' = TRUE
  /\ Throw("broken")
  /\ UNCHANGED <<device, row, found>>

\* An answer without a list of alarms: none asked for, 401, an error in LAPI's
\* own envelope, an unexpected shape.  It may say that something is wrong.
Answer ==
  /\ pc = "requesting"
  /\ answered' = TRUE
  /\ \/ UNCHANGED noted
     \/ /\ Requests[step] \in {"disk", "channels", "time"}
        /\ noted' = noted \cup {"trouble"}
  /\ Advance(next)
  /\ UNCHANGED <<device, row, page, listed>>

InWindow == {a \in Alarm : logged[a] \in window.start..window.end}

\* A page of the window's alarms: all of them, if there is room.
Pages ==
  {P \in SUBSET InWindow : /\ Cardinality(P) <= PageSize
                           /\ P = InWindow \/ Cardinality(P) = PageSize}

\* latestTime: what the list makes of nextCursor.
Latest(P) == IF P = {} THEN {next}
             ELSE {t \in {logged[a] : a \in P} : \A a \in P : logged[a] <= t}

\* The list of alarms; its latest StartTime, if any, is the next cursor.
Alarms ==
  /\ pc = "requesting"
  /\ Requests[step] = "alarms"
  /\ answered' = TRUE
  /\ listed' = TRUE
  /\ page' \in Pages
  /\ \/ UNCHANGED noted
     \/ page' # {} /\ \E word \in {"trouble", "down"} : noted' = noted \cup {word}
  /\ \E t \in Latest(page') : Advance(t)
  /\ UNCHANGED <<device, row>>

\* deriveStatus
Status == IF "down" \in noted THEN "offline"
          ELSE IF noted # {} THEN "degraded" ELSE "online"

-----------------------------------------------------------------------------
(* The caller.                                                             *)

Over == UNCHANGED <<device, found, step, attempt, window, next, answered>>

\* insertEvents does not look for copies.
StoredWith(P) == [a \in Alarm |-> IF a \in P THEN stored[a] + 1 ELSE stored[a]]

\* Events and cursor are committed together.
Commit ==
  /\ pc = "pulled"
  /\ pc' = "idle"
  /\ stored' = StoredWith(page)
  /\ cursor' = next
  /\ Over

\* The pull threw, or the transaction failed.
Abandon ==
  /\ pc \in {"pulled", "unavailable", "broken"}
  /\ pc' = "idle"
  /\ UNCHANGED row
  /\ Over

Next ==
  \/ Tick \/ \E a \in Alarm : Raise(a)
  \/ Begin \/ NoAnswer \/ ServerError \/ CutShort \/ Answer \/ Alarms
  \/ Commit \/ Abandon

Spec == Init /\ [][Next]_vars

-----------------------------------------------------------------------------
(* Properties.                                                             *)

\* Every variable has its type, and no cursor is ahead of the clock.
TypeOK ==
  /\ vendor \in Vendor
  /\ now \in 1..MaxTime
  /\ logged \in [Alarm -> 0..now \cup {Unlogged}]
  /\ cursor \in 0..now \cup {NoCursor}
  /\ stored \in [Alarm -> 0..MaxCopies]
  /\ pc \in Location
  /\ step \in 1..Len(Requests)
  /\ attempt \in 0..Retries
  /\ window \in [start: Nat, end: Nat]
  /\ page \subseteq Alarm
  /\ listed \in BOOLEAN
  /\ noted \subseteq {"trouble", "down"}
  /\ next \in 0..now
  /\ answered \in BOOLEAN

\* An adapter that does not catch what request throws never returns a result
\* for a device that answered nothing: handle marks it offline instead.
SilentDeviceIsUnavailable ==
  pc = "pulled" /\ vendor \notin Lapi \cup {"onvif"} => answered

\* A committed list that was not a full page leaves no alarm from the cursor up
\* to the new cursor unstored.
PassesOnlyStored ==
  (pc = "pulled" /\ pc' = "idle" /\ listed /\ Cardinality(page) < PageSize
     /\ cursor # NoCursor)
    => \A a \in Alarm :
         (logged[a] # Unlogged /\ logged[a] >= cursor /\ logged[a] < cursor')
           => stored'[a] > 0

\* The Uniview cursor passes no alarm that is not stored, however polls,
\* alarms, aborted transactions and seconds interleave, provided the alarm
\* request brought a list and the list was not a full page.
CursorPassesOnlyStored == [][PassesOnlyStored]_vars

RepeatsAtCursor ==
  \A a \in Alarm : stored[a] > 0 /\ stored'[a] # stored[a] => logged[a] = cursor

\* A stored alarm is stored again only when it happened in the cursor's second,
\* where the window begins: the repetition is bounded to the last alarms read.
RepeatedOnlyAtCursor == [][RepeatsAtCursor]_vars
=============================================================================
