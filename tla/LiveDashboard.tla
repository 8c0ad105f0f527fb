--------------------------- MODULE LiveDashboard ---------------------------
(***************************************************************************)
(* From a row of events to the screen: the event indexer                   *)
(* (workers/event-indexer.ts), the WebSocket of http/ws.ts, the dashboard's *)
(* useEventStream and useDashboard, and App.handleEvent, for one tenant    *)
(* and one open browser tab.                                               *)
(*                                                                         *)
(* The grid is filled by reloads, each of three requests answered at       *)
(* different times, and patched by events.  Events reach the tab over a    *)
(* Redis channel, if the indexer is told of them and the socket is         *)
(* subscribed at that moment, and by one backfill per connection.  A       *)
(* message is a record whose fields are those of the JSON object sent.     *)
(***************************************************************************)
EXTENDS Naturals, Sequences, FiniteSets, SequencesExt

CONSTANTS
  Device,        \* device ids
  Load,          \* reloads that may be under way at the same time
  NotifyOnInsert,\* does an insert into events send NOTIFY events_inserted?
  DevicesLimit,  \* limit of GET /v1/devices: 1000
  FleetLimit,    \* limit of GET /v1/dashboard's listing: 5000
  BackfillLimit, \* limit of the backfill query: 500
  MaxFeed,       \* MAX_EVENTS: 200
  SendBuffer,    \* messages that fit under BACKPRESSURE_LIMIT
  Reports,       \* bound: the statuses polls find
  MaxChanges,    \* bound: status changes of all devices
  MaxFaults      \* bound: failed requests, lost connections, restarts

ASSUME LiveAssumption ==
  /\ NotifyOnInsert \in BOOLEAN
  /\ {DevicesLimit, FleetLimit, BackfillLimit, MaxFeed} \subseteq Nat \ {0}
  /\ SendBuffer \in Nat
  /\ Reports \subseteq {"online", "degraded", "offline"}
  /\ MaxChanges \in Nat /\ MaxFaults \in Nat

VARIABLES
  history,  \* the statuses each device's row has had; the last is current
  live,     \* devices that have a row, and so do their events
  events,   \* rows of events: a sequence by detected_at, its index the id
  horizon,  \* the oldest event of the last five minutes
  indexer,  \* is the worker's LISTEN connection up?
  notices,  \* notifications it has not handled
  socket,   \* the WebSocket, as the server sees it
  inbox,    \* frames on the way to the tab
  asked,    \* the tab's `since` on the way to the server, 0 if none
  view,     \* React state: grid (deviceMap), fleet.byStatus, feed
  load,     \* the reloads under way
  faults,   \* how many faults have happened
  gap       \* history: what the backfill of this connection is to bring

rowVars    == <<history, live, events, horizon>>
feedVars   == <<indexer, notices>>
socketVars == <<socket, inbox, asked>>
vars       == <<rowVars, feedVars, socketVars, view, load, faults, gap>>

-----------------------------------------------------------------------------
Status == {"unknown", "online", "degraded", "offline"}

\* The transition event a poll's status change writes (PollWorker.StatusChange).
EventOf(d, old, new) ==
  IF new = "offline" THEN <<[dev |-> d, type |-> "offline"]>>
  ELSE IF old = "offline" THEN <<[dev |-> d, type |-> "online"]>>
  ELSE <<>>

Current == [d \in live |-> Last(history[d])]

\* listEnabledDevices: LIMIT without ORDER BY, so which rows a longer list
\* leaves out is anybody's guess, and another one at every reload.
Listings(limit) ==
  IF Cardinality(live) <= limit THEN {Current}
  ELSE {Restrict(Current, some) : some \in kSubset(limit, live)}

Changes == LET Len1(d) == Len(history[d]) - 1
           IN  FoldFunction(+, 0, [d \in Device |-> Len1(d)])

\* recalcFleet, and the dashboard route's byStatus.
CountByStatus(grid) ==
  [s \in Status |-> Cardinality({d \in DOMAIN grid : grid[d] = s})]

NoGrid   == [d \in {} |-> "unknown"]
IdleLoad == [busy |-> FALSE, read |-> {}, grid |-> NoGrid,
             fleet |-> CountByStatus(NoGrid)]

\* listEvents from `since` to now: newest first, at most the limit.
ListEvents(since) ==
  LET found    == {i \in since .. Len(events) : events[i].dev \in live}
      Newer(i) == {j \in found : j > i}
  IN  [k \in 1 .. Min({BackfillLimit, Cardinality(found)}) |->
         CHOOSE i \in found : Cardinality(Newer(i)) = k - 1]

NoGap == [from |-> 1, upto |-> 0, filled |-> FALSE]

Init ==
  /\ history = [d \in Device |-> <<"unknown">>]
  /\ live = Device /\ events = <<>> /\ horizon = 1
  /\ indexer = "up" /\ notices = <<>>
  /\ socket = "closed" /\ inbox = <<>> /\ asked = 0
  /\ view = [grid |-> NoGrid, fleet |-> CountByStatus(NoGrid), feed |-> <<>>]
  /\ load = [l \in Load |-> IdleLoad]
  /\ faults = 0 /\ gap = NoGap

Fault == faults < MaxFaults /\ faults' = faults + 1

-----------------------------------------------------------------------------
(* The rows, as other components change them.                              *)

\* A poll commits a new status and its transition event (PollWorker.Persist).
Poll(d, s) ==
  /\ d \in live /\ s # Current[d] /\ Changes < MaxChanges
  /\ LET new == EventOf(d, Current[d], s) IN
       /\ history' = [history EXCEPT ![d] = Append(@, s)]
       /\ events' = events \o new
       /\ notices' = IF NotifyOnInsert /\ indexer = "up" /\ new # <<>>
                     THEN Append(notices, Len(events) + 1) ELSE notices
  /\ UNCHANGED <<live, horizon, indexer, socketVars, view, load, faults, gap>>

Delete(d) ==
  /\ d \in live
  /\ live' = live \ {d}
  /\ UNCHANGED <<history, events, horizon, feedVars, socketVars, view, load,
                 faults, gap>>

\* Five minutes pass since the oldest of the recent events.
Age ==
  /\ horizon <= Len(events)
  /\ horizon' = horizon + 1
  /\ UNCHANGED <<history, live, events, feedVars, socketVars, view, load,
                 faults, gap>>

-----------------------------------------------------------------------------
(* The event indexer.                                                      *)

LivePayload(id) == [type |-> "event", event |-> [id |-> id]]

\* Mutant: no limit.
DeliverAlways(msg) ==
  IF socket # "open" THEN UNCHANGED <<socket, inbox>>
  ELSE inbox' = Append(inbox, msg) /\ UNCHANGED socket

\* The subscriber connection's message handler: to a socket over the
\* backpressure limit nothing is sent, and it is closed.
Deliver(msg) ==
  IF socket # "open" THEN UNCHANGED <<socket, inbox>>
  ELSE IF Len(inbox) > SendBuffer
       THEN socket' = "closing" /\ UNCHANGED inbox
       ELSE inbox' = Append(inbox, msg) /\ UNCHANGED socket

\* on("notification"): SELECT the row; publish it unless it is gone.
Republish ==
  /\ notices # <<>>
  /\ notices' = Tail(notices)
  /\ IF events[Head(notices)].dev \in live
     THEN Deliver(LivePayload(Head(notices)))
     ELSE UNCHANGED <<socket, inbox>>
  /\ UNCHANGED <<rowVars, indexer, asked, view, load, faults, gap>>

\* The SELECT or the publish throws: logged, and the event is not sent again.
RepublishFails ==
  /\ Fault
  /\ notices # <<>>
  /\ notices' = Tail(notices)
  /\ UNCHANGED <<rowVars, indexer, socketVars, view, load, gap>>

IndexerStops ==
  /\ Fault
  /\ indexer = "up"
  /\ indexer' = "down" /\ notices' = <<>>
  /\ UNCHANGED <<rowVars, socketVars, view, load, gap>>

IndexerStarts ==
  /\ indexer = "down"
  /\ indexer' = "up"
  /\ UNCHANGED <<rowVars, notices, socketVars, view, load, faults, gap>>

-----------------------------------------------------------------------------
(* The WebSocket.                                                          *)

\* connect(), on the page's load and four seconds after each onclose.
Connect ==
  /\ socket = "closed"
  /\ socket' = "subscribing"
  /\ UNCHANGED <<rowVars, feedVars, inbox, asked, view, load, faults, gap>>

\* Redis has acknowledged and the handlers are attached.  What was published
\* before, even after the acknowledgement arrived, found no handler.
Subscribed ==
  /\ socket = "subscribing"
  /\ socket' = "open"
  /\ inbox' = <<[type |-> "subscribed", since |-> horizon]>>
  /\ gap' = [from |-> horizon, upto |-> Len(events), filled |-> FALSE]
  /\ UNCHANGED <<rowVars, feedVars, asked, view, load, faults>>

Hangup ==
  /\ socket' = "closed" /\ inbox' = <<>> /\ asked' = 0 /\ gap' = NoGap
  /\ UNCHANGED <<rowVars, feedVars, view, load>>

\* The subscription fails (close 1011), or the connection breaks.
ConnectionLost == Fault /\ socket # "closed" /\ Hangup

\* A socket closed for backpressure flushes what it had buffered first.
SlowClientClosed ==
  /\ socket = "closing" /\ inbox = <<>>
  /\ Hangup
  /\ UNCHANGED faults

\* on("message") with a `since`: listEvents, and one frame with all of it.
Backfill ==
  /\ socket = "open" /\ asked # 0
  /\ asked' = 0
  /\ inbox' = Append(inbox, [type |-> "backfill", events |-> ListEvents(asked)])
  /\ UNCHANGED <<rowVars, feedVars, socket, view, load, faults, gap>>

BackfillFails ==
  /\ Fault
  /\ socket = "open" /\ asked # 0
  /\ asked' = 0
  /\ inbox' = Append(inbox, [error |-> "INTERNAL"])
  /\ UNCHANGED <<rowVars, feedVars, socket, view, load, gap>>

-----------------------------------------------------------------------------
(* The tab.                                                                *)

\* patchDeviceStatus
PatchStatus(v, d, s) ==
  IF d \notin DOMAIN v.grid \/ v.grid[d] = s THEN v
  ELSE LET grid == [v.grid EXCEPT ![d] = s]
       IN  [v EXCEPT !.grid = grid, !.fleet = CountByStatus(grid)]

\* Mutant: no check for an event already there.
PrependAlways(feed, id) ==
  SubSeq(<<id>> \o feed, 1, Min({MaxFeed, Len(feed) + 1}))

\* setEvents: no event twice, the latest arrival on top.
Prepend(feed, id) ==
  IF Contains(feed, id) THEN feed
  ELSE SubSeq(<<id>> \o feed, 1, Min({MaxFeed, Len(feed) + 1}))

\* Mutant: the two statuses exchanged.
HandleEventExchanged(v, id) ==
  LET s == IF events[id].type = "online" THEN "offline" ELSE "online"
  IN  [PatchStatus(v, events[id].dev, s) EXCEPT !.feed = Prepend(@, id)]

\* App.handleEvent.  (No device_degraded event exists.)
HandleEvent(v, id) ==
  LET patched == PatchStatus(v, events[id].dev, events[id].type)
  IN  [patched EXCEPT !.feed = Prepend(@, id)]

IsSubscribed(m) == "type" \in DOMAIN m /\ m.type = "subscribed"
IsBackfill(m)   == "type" \in DOMAIN m /\ m.type = "backfill"
\* "msg.id && msg.type && msg.severity"
IsLiveEvent(m)  == {"id", "type", "severity"} \subseteq DOMAIN m

\* Mutant: the backfill starts at the subscription.
SinceAckOnly(m) == Len(events) + 1

\* since: five minutes before the subscription (the two-hour cap is longer).
SinceOf(m) == m.since

ApplyBackfill(v, m) ==
  LET after[k \in 0 .. Len(m.events)] ==
        IF k = 0 THEN v ELSE HandleEvent(after[k - 1], m.events[k])
  IN  after[Len(m.events)]

\* ws.onmessage
Receive ==
  /\ inbox # <<>>
  /\ inbox' = Tail(inbox)
  /\ LET m == Head(inbox) IN
       /\ asked' = IF IsSubscribed(m) THEN SinceOf(m) ELSE asked
       /\ view' = IF IsBackfill(m) THEN ApplyBackfill(view, m)
                  ELSE IF IsLiveEvent(m) THEN HandleEvent(view, m.id)
                  ELSE view
       /\ gap' = [gap EXCEPT !.filled = @ \/ IsBackfill(m)]
  /\ UNCHANGED <<rowVars, feedVars, socket, load, faults>>

\* load(), on mount, every 30 seconds and after every edit.
LoadStart(l) ==
  /\ ~load[l].busy
  /\ load' = [load EXCEPT ![l] = [IdleLoad EXCEPT !.busy = TRUE]]
  /\ UNCHANGED <<rowVars, feedVars, socketVars, view, faults, gap>>

\* GET /v1/dashboard and GET /v1/devices each read in a transaction of its own.
ReadDashboard(l) ==
  /\ load[l].busy /\ "dashboard" \notin load[l].read
  /\ \E listing \in Listings(FleetLimit) :
       load' = [load EXCEPT ![l].read = @ \cup {"dashboard"},
                            ![l].fleet = CountByStatus(listing)]
  /\ UNCHANGED <<rowVars, feedVars, socketVars, view, faults, gap>>

ReadDevices(l) ==
  /\ load[l].busy /\ "devices" \notin load[l].read
  /\ \E listing \in Listings(DevicesLimit) :
       load' = [load EXCEPT ![l].read = @ \cup {"devices"}, ![l].grid = listing]
  /\ UNCHANGED <<rowVars, feedVars, socketVars, view, faults, gap>>

\* Mutant: the devices' answer alone is put on the screen.
ShowGridOnly(l) == [view EXCEPT !.grid = load[l].grid]

\* setState replaces all but the feed, whatever has been patched meanwhile.
ShowLoaded(l) == [view EXCEPT !.grid = load[l].grid, !.fleet = load[l].fleet]

LoadDone(l) ==
  /\ load[l].read = {"dashboard", "devices"}
  /\ view' = ShowLoaded(l)
  /\ load' = [load EXCEPT ![l] = IdleLoad]
  /\ UNCHANGED <<rowVars, feedVars, socketVars, faults, gap>>

\* One of the requests failed: the error is noted, the rest stays.
LoadFails(l) ==
  /\ Fault
  /\ load[l].busy
  /\ load' = [load EXCEPT ![l] = IdleLoad]
  /\ UNCHANGED <<rowVars, feedVars, socketVars, view, gap>>

-----------------------------------------------------------------------------
Reload(l) == \/ LoadStart(l) \/ ReadDashboard(l) \/ ReadDevices(l)
             \/ LoadDone(l) \/ LoadFails(l)

Rows    == \/ \E d \in Device, s \in Reports : Poll(d, s)
           \/ \E d \in Device : Delete(d)
           \/ Age
Indexer == Republish \/ RepublishFails \/ IndexerStops \/ IndexerStarts
Stream  == \/ Connect \/ Subscribed \/ ConnectionLost \/ SlowClientClosed
           \/ Backfill \/ BackfillFails \/ Receive

Next == Rows \/ Indexer \/ Stream \/ \E l \in Load : Reload(l)

Spec == Init /\ [][Next]_vars

\* The interval timer keeps starting reloads, requests and queries are
\* answered, frames arrive, and the reconnect timer fires.
Fairness ==
  /\ \A l \in Load : /\ WF_vars(LoadStart(l)) /\ WF_vars(LoadDone(l))
                     /\ WF_vars(ReadDashboard(l)) /\ WF_vars(ReadDevices(l))
  /\ WF_vars(Republish) /\ WF_vars(Connect) /\ WF_vars(Subscribed)
  /\ WF_vars(SlowClientClosed) /\ WF_vars(Backfill) /\ WF_vars(Receive)

FairSpec == Spec /\ Fairness

-----------------------------------------------------------------------------
(* Properties.                                                             *)

TypeOK ==
  /\ history \in [Device -> Seq(Status)]
  /\ live \subseteq Device
  /\ horizon \in 1 .. Len(events) + 1
  /\ indexer \in {"up", "down"}
  /\ socket \in {"closed", "subscribing", "open", "closing"}
  /\ Len(inbox) <= SendBuffer + 2
  /\ asked \in 0 .. Len(events) + 1
  /\ DOMAIN view.grid \subseteq Device
  /\ ToSet(view.feed) \subseteq 1 .. Len(events)
  /\ faults \in 0 .. MaxFaults

\* However often the tab reconnects and backfills what it already shows, an
\* event is in the feed once, and the feed never outgrows its limit.
FeedHasNoDuplicates ==
  /\ IsInjective(view.feed)
  /\ Len(view.feed) <= MaxFeed

\* Nothing on the screen is made up: each status shown is one the device's
\* row has had, through reloads that overlap, events replayed by backfills
\* and devices deleted while their status was on the way.  With one exception
\* the model turned up: a device that comes back degraded is reported by a
\* device_online event, and shown online although no row ever said so.
ShownStatusIsHistorical ==
  \A d \in DOMAIN view.grid :
    LET had == ToSet(history[d])
    IN  \/ view.grid[d] \in had
        \/ view.grid[d] = "online" /\ {"offline", "degraded"} \subseteq had

\* What landed before the subscription was live, while the tab was loading,
\* reconnecting or waiting for Redis, is in the feed once the backfill has
\* been handled, as far as it is not older than five minutes: no event falls
\* between the channel and the query (BackfillLimit and MaxFeed permitting).
BackfillClosesGap ==
  gap.filled =>
    \A id \in gap.from .. gap.upto :
      events[id].dev \in live => id \in ToSet(view.feed)

\* A reload that read old rows may overwrite newer live statuses and a
\* backfill may replay the past, but the screen does not stay wrong: again and
\* again, grid and fleet counts are those of the rows, of all of them or of as
\* many as the listings return (devices.ts:173-184, dashboard.ts:33).
ViewRecovers == []<>(/\ view.grid \in Listings(DevicesLimit)
                     /\ \E listing \in Listings(FleetLimit) :
                          view.fleet = CountByStatus(listing))

Handled(P(_)) == inbox # <<>> /\ P(Head(inbox)) /\ inbox' = Tail(inbox)
                 /\ socket' = socket

IsPayload(m) == "type" \in DOMAIN m /\ m.type = "event"

\* "Server pushes new events as they land" (ws.ts:11): an event pushed to an
\* open tab is in its feed.  The server nests the event in a field `event`;
\* the hook looks for its id beside the type.
PushedEventIsShown ==
  [][Handled(IsPayload) => Head(inbox).event.id \in ToSet(view'.feed)]_vars
=============================================================================
