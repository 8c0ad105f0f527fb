----------------------------- MODULE DeviceFeed -----------------------------
(***************************************************************************)
(* What polling promises to the reader of the event feed, with no workers, *)
(* transactions or failures in sight.  A device has a log of its own; the  *)
(* feed follows it in order, storing every entry once (those normalize()   *)
(* drops excepted), and in the same step says whether the device is down.  *)
(* An alert is added exactly when that changes.  A removed device leaves   *)
(* an empty feed that nothing is ever added to.                            *)
(***************************************************************************)
EXTENDS Naturals, Sequences

CONSTANTS Device, FarFuture, MaxLog

VARIABLES
  present,   \* is the device registered: "unborn", "live" or "deleted"
  log,       \* entries the device has written
  mark,      \* the feed has followed the log up to here
  stored,    \* copies of each entry in the feed
  down,      \* does the feed say the device is down
  alerts     \* device_offline and device_online, oldest first

vars == <<present, log, mark, stored, down, alerts>>

Entry == 1..MaxLog
Empty == [n \in Entry |-> 0]

Init ==
  /\ present = [d \in Device |-> "unborn"]
  /\ log     = [d \in Device |-> 0]
  /\ mark    = [d \in Device |-> 0]
  /\ stored  = [d \in Device |-> Empty]
  /\ down    = [d \in Device |-> FALSE]
  /\ alerts  = [d \in Device |-> <<>>]

Add(d) ==
  /\ present[d] = "unborn"
  /\ present' = [present EXCEPT ![d] = "live"]
  /\ UNCHANGED <<log, mark, stored, down, alerts>>

Write(d) ==
  /\ present[d] = "live"
  /\ log' = [log EXCEPT ![d] = @ + 1]
  /\ UNCHANGED <<present, mark, stored, down, alerts>>

\* The alert a change of mind adds.
Alert(was, is) ==
  CASE is /\ ~was -> <<"device_offline">>
    [] was /\ ~is -> <<"device_online">>
    [] OTHER      -> <<>>

\* Follow the log up to an entry it has, and say whether the device is down.
Follow(d, upto, is) ==
  /\ present[d] = "live"
  /\ mark' = [mark EXCEPT ![d] = upto]
  /\ stored' = [stored EXCEPT ![d] =
       [n \in Entry |-> IF n \in (mark[d] + 1 .. upto) \ FarFuture
                        THEN 1 ELSE stored[d][n]]]
  /\ down' = [down EXCEPT ![d] = is]
  /\ alerts' = [alerts EXCEPT ![d] = @ \o Alert(down[d], is)]
  /\ UNCHANGED <<present, log>>

Drop(D) ==
  /\ \A d \in D : present[d] = "live"
  /\ present' = [d \in Device |-> IF d \in D THEN "deleted" ELSE present[d]]
  /\ mark'    = [d \in Device |-> IF d \in D THEN 0 ELSE mark[d]]
  /\ stored'  = [d \in Device |-> IF d \in D THEN Empty ELSE stored[d]]
  /\ down'    = [d \in Device |-> IF d \in D THEN FALSE ELSE down[d]]
  /\ alerts'  = [d \in Device |-> IF d \in D THEN <<>> ELSE alerts[d]]
  /\ UNCHANGED log

Next ==
  \/ \E d \in Device : Add(d) \/ Write(d)
  \/ \E d \in Device : \E upto \in mark[d]..log[d], is \in BOOLEAN :
       Follow(d, upto, is)
  \/ \E D \in SUBSET Device : Drop(D)

Spec == Init /\ [][Next]_vars

=============================================================================
