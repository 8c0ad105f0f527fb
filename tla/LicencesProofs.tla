--------------------------- MODULE LicencesProofs ---------------------------
(***************************************************************************)
(* For any number of companies, licences, connections and callers: the     *)
(* scope of a statement is its caller's, no lapsed or foreign licence is   *)
(* honoured, and the scan takes only what has lapsed.                      *)
(***************************************************************************)
EXTENDS Licences, TLAPS

\* A call's time has passed, and what it honoured has a row and is its answer.
Past ==
  \A s \in Session : /\ sess[s].at <= now
                     /\ sess[s].result = "honoured" =>
                          /\ sess[s].stage = "done"
                          /\ \A l \in sess[s].on : lic[l].state # "none"

IInv == TypeOK /\ ScopeIsOwn /\ Past /\ HonouredInTime

-----------------------------------------------------------------------------
LEMMA InitIInv == Init => IInv
<1> SUFFICES ASSUME Init PROVE IInv
  OBVIOUS
<1>1. \A s \in Session : sess[s] = Idle
  BY DEF Init
<1>0. 0 \in 0 .. MaxNow /\ 0 \in 0 .. MaxFaults
  BY BoundAssumption
<1>2. Idle \in SessionRow
  BY <1>0 DEF Idle, SessionRow, TenantOp, SystemOp
<1>3. PICK l \in Licence, k \in Company, t \in 0 .. MaxNow :
        lic = [m \in Licence |-> IF m = l THEN [state |-> "trial", company |-> k,
                                                expires |-> t]
                                 ELSE NoLicence]
  BY DEF Init
<1>4. lic \in [Licence -> LicenceRow]
  BY <1>0, <1>3 DEF LicenceRow, LiveState, NoLicence
<1>5. TypeOK
  BY <1>0, <1>2, <1>4 DEF Init, TypeOK
<1>6. ScopeIsOwn
  BY <1>1, NameAssumption DEF Init, ScopeIsOwn, Open, Idle, Free
<1>7. Past /\ HonouredInTime
  BY <1>1 DEF Init, Past, HonouredInTime, Idle
<1> QED BY <1>5, <1>6, <1>7 DEF IInv

LEMMA Times ==
  ASSUME TypeOK
  PROVE  /\ now \in 0 .. MaxNow /\ now \in Nat /\ faults \in Nat
         /\ \A s \in Session : sess[s].at \in 0 .. MaxNow /\ sess[s].at \in Nat
         /\ \A l \in Licence : lic[l].expires \in Nat
<1>1. now \in 0 .. MaxNow /\ faults \in 0 .. MaxFaults
  BY DEF TypeOK
<1>2. \A s \in Session : sess[s].at \in 0 .. MaxNow
  BY DEF TypeOK, SessionRow
<1>3. \A l \in Licence : lic[l].expires \in 0 .. MaxNow
  BY DEF TypeOK, LicenceRow
<1> QED BY <1>1, <1>2, <1>3, BoundAssumption

-----------------------------------------------------------------------------
(* What the end of a transaction does, whatever its statement was.         *)

\* The transaction of s is over, with nothing of a company left behind.
Over(s, result, on) ==
  /\ \E v \in {"", "null"} :
       guc' = [guc EXCEPT ![sess[s].conn] = v]
  /\ sess' = [sess EXCEPT ![s].stage = "done", ![s].conn = NoConn,
                          ![s].result = result, ![s].on = on]

LEMMA ScopeAfter ==
  ASSUME TypeOK, ScopeIsOwn, NEW s \in Session, Open(s), NEW result, NEW on,
         Over(s, result, on)
  PROVE  ScopeIsOwn'
<1>1. PICK v \in {"", "null"} : guc' = [guc EXCEPT ![sess[s].conn] = v]
  BY DEF Over
<1>2. v \notin Company
  BY <1>1, NameAssumption
<1>3. /\ sess'[s].stage = "done"
      /\ \A t \in Session \ {s} : sess'[t] = sess[t]
  <2>1. sess' = [sess EXCEPT ![s] = [sess[s] EXCEPT !.stage = "done", !.conn = NoConn,
                                                    !.result = result, !.on = on]]
    BY DEF Over, TypeOK
  <2>2. sess[s] \in SessionRow /\ DOMAIN sess = Session
    BY DEF TypeOK
  <2>3. [sess[s] EXCEPT !.stage = "done", !.conn = NoConn, !.result = result,
                        !.on = on].stage = "done"
    BY <2>2 DEF SessionRow
  <2> QED BY <2>1, <2>2, <2>3
<1>4. sess[s].conn \in Conn
  BY DEF ScopeIsOwn
<1>5. guc'[sess[s].conn] = v /\ \A c \in Conn \ {sess[s].conn} : guc'[c] = guc[c]
  BY <1>1, <1>4 DEF TypeOK
<1>6. \A t \in Session : Open(t)' => t # s /\ Open(t)
  BY <1>3 DEF Open
<1>7. \A t \in Session : Open(t)' => sess[t].conn \in Conn /\ sess[t].conn # sess[s].conn
  BY <1>6 DEF ScopeIsOwn
<1>8. ASSUME NEW t \in Session, Open(t)'
      PROVE  /\ sess'[t].conn \in Conn
             /\ sess'[t].op \in TenantOp => guc'[sess'[t].conn] = sess'[t].company
             /\ sess'[t].op \in SystemOp => guc'[sess'[t].conn] \notin Company
  <2>1. sess'[t] = sess[t] /\ guc'[sess[t].conn] = guc[sess[t].conn]
    BY <1>3, <1>5, <1>6, <1>7, <1>8
  <2>2. sess[t].conn \in Conn
    BY <1>7, <1>8
  <2> QED BY <1>6, <1>8, <2>1, <2>2 DEF ScopeIsOwn, Scope
<1>9. ASSUME NEW c \in Conn, \A t \in Session : Open(t)' => sess'[t].conn # c
      PROVE  guc'[c] \notin Company
  <2>1. CASE c = sess[s].conn
    BY <1>2, <1>5, <2>1
  <2>2. CASE c # sess[s].conn
    <3>1. \A t \in Session : Open(t) => sess[t].conn # c
      BY <1>3, <1>9, <2>2 DEF Open
    <3> QED BY <1>5, <2>2, <3>1 DEF ScopeIsOwn, Free
  <2> QED BY <2>1, <2>2
<1>10. \A t, u \in Session : Open(t)' /\ Open(u)' /\ t # u => sess'[t].conn # sess'[u].conn
  BY <1>3, <1>6 DEF ScopeIsOwn
<1> QED BY <1>8, <1>9, <1>10 DEF ScopeIsOwn, Scope, Free

LEMMA TypeAfter ==
  ASSUME TypeOK, ScopeIsOwn, NEW s \in Session, Open(s),
         NEW result \in {"uncastable", "honoured", "expired", "required", "issued",
                         "refused", "due", "scanned", "broken"},
         NEW on \in SUBSET Licence, Over(s, result, on)
  PROVE  guc' \in [Conn -> Company \cup {"", "null"}] /\ sess' \in [Session -> SessionRow]
<1>1. sess[s] \in SessionRow
  BY DEF TypeOK
<1>2. [sess[s] EXCEPT !.stage = "done", !.conn = NoConn, !.result = result, !.on = on]
        \in SessionRow
  BY <1>1 DEF SessionRow
<1>3. sess' = [sess EXCEPT ![s] = [sess[s] EXCEPT !.stage = "done", !.conn = NoConn,
                                                  !.result = result, !.on = on]]
  BY DEF Over, TypeOK
<1>4. sess' \in [Session -> SessionRow]
  BY <1>2, <1>3 DEF TypeOK
<1>5. guc' \in [Conn -> Company \cup {"", "null"}]
  BY DEF Over, TypeOK
<1> QED BY <1>4, <1>5

LEMMA EndIsOver ==
  ASSUME TypeOK, ScopeIsOwn, NEW s \in Session, Open(s), NEW result, NEW on,
         End(s, result, on)
  PROVE  Over(s, result, on)
<1>1. sess[s].conn \in Conn /\ guc[sess[s].conn] \in Company \cup {"", "null"}
  BY DEF ScopeIsOwn, TypeOK
<1>2. AfterTransaction(guc[sess[s].conn]) \in {"", "null"}
  BY <1>1 DEF AfterTransaction
<1>3. guc' = [guc EXCEPT ![sess[s].conn] = AfterTransaction(guc[sess[s].conn])]
  BY <1>1 DEF End
<1> QED BY <1>2, <1>3 DEF End, Over

-----------------------------------------------------------------------------
(* What a statement may do to the rows.                                    *)

\* A row, once there, keeps its company and its time, and stays.
Kept ==
  /\ lic' \in [Licence -> LicenceRow]
  /\ \A l \in Licence : lic[l].state # "none" =>
       /\ lic'[l].state # "none"
       /\ lic'[l].company = lic[l].company
       /\ lic'[l].expires = lic[l].expires

LEMMA SameKept ==
  ASSUME TypeOK, UNCHANGED lic
  PROVE  Kept
BY DEF TypeOK, Kept

LEMMA ScannedKept ==
  ASSUME TypeOK, NEW s \in Session, lic' = Scanned(s)
  PROVE  Kept
<1>1. ASSUME NEW l \in Licence
      PROVE  /\ lic'[l] \in LicenceRow
             /\ lic'[l].company = lic[l].company /\ lic'[l].expires = lic[l].expires
             /\ lic'[l].state \in {lic[l].state, "expired"}
  <2>1. lic[l] \in LicenceRow
    BY DEF TypeOK
  <2>2. lic'[l] = IF l \in Due(s) THEN [lic[l] EXCEPT !.state = "expired"] ELSE lic[l]
    BY DEF Scanned
  <2> QED BY <2>1, <2>2 DEF LicenceRow
<1>2. lic' = [l \in Licence |-> lic'[l]]
  BY DEF Scanned
<1> QED BY <1>1, <1>2 DEF Kept

LEMMA InsertedKept ==
  ASSUME TypeOK, NEW s \in Session, NEW l \in Licence, Inserted(s, l)
  PROVE  Kept
<1>1. sess[s] \in SessionRow
  BY DEF TypeOK
<1>2. [state |-> "active", company |-> sess[s].company, expires |-> sess[s].until]
        \in LicenceRow
  BY <1>1 DEF SessionRow, LicenceRow, LiveState
<1>3. /\ lic'[l].company = sess[s].company
      /\ \A m \in Licence \ {l} : lic'[m] = lic[m]
      /\ lic' \in [Licence -> LicenceRow]
  BY <1>2 DEF Inserted, TypeOK
<1> QED BY <1>3 DEF Kept, Inserted

\* When a transaction ends, honouring nothing that is past or another's.
LEMMA AfterEnd ==
  ASSUME IInv, NEW s \in Session, Open(s),
         NEW result \in {"uncastable", "honoured", "expired", "required", "issued",
                         "refused", "due", "scanned", "broken"},
         NEW on \in SUBSET Licence, Over(s, result, on),
         Kept, now' = now, role' = role, faults' \in 0 .. MaxFaults,
         result = "honoured" =>
           \A l \in on : /\ lic[l].state # "none" /\ sess[s].at < lic[l].expires
                         /\ lic[l].company = sess[s].company
  PROVE  IInv'
<1>1. TypeOK'
  BY TypeAfter DEF IInv, TypeOK, Kept
<1>2. ScopeIsOwn'
  BY ScopeAfter DEF IInv
<1>3. sess' = [sess EXCEPT ![s] = [sess[s] EXCEPT !.stage = "done", !.conn = NoConn,
                                                  !.result = result, !.on = on]]
  BY DEF Over, IInv, TypeOK
<1>4. sess[s] \in SessionRow /\ sess \in [Session -> SessionRow]
  BY DEF IInv, TypeOK
<1>5. /\ sess'[s].stage = "done" /\ sess'[s].result = result /\ sess'[s].on = on
      /\ sess'[s].at = sess[s].at /\ sess'[s].company = sess[s].company
  BY <1>3, <1>4 DEF SessionRow
<1>6. \A t \in Session \ {s} : sess'[t] = sess[t] /\ sess[t].on \in SUBSET Licence
  BY <1>3, <1>4 DEF SessionRow
<1>7. \A l \in Licence : lic[l].state # "none" =>
        /\ lic'[l].state # "none"
        /\ lic'[l].company = lic[l].company
        /\ lic'[l].expires = lic[l].expires
  BY DEF Kept
<1>8. Past'
  BY <1>5, <1>6, <1>7 DEF IInv, Past
<1>9. ASSUME NEW t \in Session, sess'[t].result = "honoured", NEW l \in sess'[t].on
      PROVE  sess'[t].at < lic'[l].expires /\ lic'[l].company = sess'[t].company
  <2>1. CASE t = s
    BY <1>5, <1>7, <1>9, <2>1
  <2>2. CASE t # s
    <3>1. sess'[t] = sess[t] /\ l \in sess[t].on /\ l \in Licence
      BY <1>6, <1>9, <2>2
    <3>2. lic[l].state # "none"
      BY <1>9, <3>1 DEF IInv, Past
    <3> QED BY <1>7, <1>9, <3>1, <3>2 DEF IInv, HonouredInTime
  <2> QED BY <2>1, <2>2
<1> QED BY <1>1, <1>2, <1>8, <1>9 DEF IInv, HonouredInTime

-----------------------------------------------------------------------------
(* The steps.                                                              *)

LEMMA CallIInv ==
  ASSUME IInv, NEW s \in Session, NEW op \in TenantOp \cup SystemOp,
         NEW k \in Company \cup {"null"}, NEW until \in 0 .. MaxNow,
         Call(s, op, k, until)
  PROVE  IInv'
<1> DEFINE row == [Idle EXCEPT !.stage = "waiting", !.op = op, !.company = k,
                               !.until = until, !.at = now]
<1>1. row \in SessionRow /\ row.stage = "waiting" /\ row.result = "none" /\ row.at = now
  BY DEF IInv, TypeOK, Idle, SessionRow
<1>2. sess' = [sess EXCEPT ![s] = row] /\ sess \in [Session -> SessionRow]
  BY DEF Call, IInv, TypeOK
<1>3. TypeOK'
  BY <1>1, <1>2 DEF Call, IInv, TypeOK
<1> HIDE DEF row
<1>4. sess'[s] = row /\ \A t \in Session \ {s} : sess'[t] = sess[t]
  BY <1>2
<1>5. \A t \in Session : (Open(t)' <=> Open(t)) /\ (Open(t) => sess'[t] = sess[t])
  BY <1>1, <1>4 DEF Open, Call
<1>6. ScopeIsOwn'
  BY <1>5 DEF IInv, ScopeIsOwn, Scope, Free, Call
<1>7. Past' /\ HonouredInTime'
  <2>1. \A t \in Session : sess'[t].result = "honoured" => t # s
    BY <1>1, <1>4
  <2>2. now' = now /\ lic' = lic /\ now <= now
    BY Times DEF Call, IInv
  <2>3. Past'
    BY <1>1, <1>4, <2>1, <2>2 DEF IInv, Past
  <2>4. HonouredInTime'
    BY <1>4, <2>1, <2>2 DEF IInv, HonouredInTime
  <2> QED BY <2>3, <2>4
<1> QED BY <1>3, <1>6, <1>7 DEF IInv

LEMMA BeginIInv ==
  ASSUME IInv, NEW s \in Session, Begin(s)
  PROVE  IInv'
<1>1. PICK c \in Free :
        /\ sess' = [sess EXCEPT ![s].stage = "open", ![s].conn = c,
                      ![s].at = IF sess[s].op \in TenantOp THEN now ELSE @]
        /\ guc' = IF sess[s].op \in TenantOp
                  THEN [guc EXCEPT ![c] = sess[s].company] ELSE guc
  BY DEF Begin
<1> DEFINE at == IF sess[s].op \in TenantOp THEN now ELSE sess[s].at
           row == [sess[s] EXCEPT !.stage = "open", !.conn = c, !.at = at]
<1>2. sess[s] \in SessionRow /\ sess \in [Session -> SessionRow] /\ c \in Conn
  BY DEF IInv, TypeOK, Free
<1>3. at \in 0 .. MaxNow /\ at <= now
  BY Times DEF IInv, Past
<1>4. sess' = [sess EXCEPT ![s] = row]
  BY <1>1, <1>2
<1>5. /\ row \in SessionRow /\ row.stage = "open" /\ row.conn = c /\ row.at <= now
      /\ row.op = sess[s].op /\ row.company = sess[s].company
      /\ row.result = sess[s].result
  <2> HIDE DEF at
  <2> QED BY <1>2, <1>3 DEF SessionRow
<1> HIDE DEF at, row
<1>6. sess'[s] = row /\ \A t \in Session \ {s} : sess'[t] = sess[t]
  BY <1>2, <1>4
<1>7. sess[s].stage = "waiting" /\ role' = role /\ lic' = lic /\ now' = now /\ role' = role /\ faults' = faults
  BY DEF Begin
<1>8. guc' \in [Conn -> Company \cup {"", "null"}]
  BY <1>1, <1>2 DEF IInv, TypeOK, SessionRow
<1>9. TypeOK'
  BY <1>2, <1>4, <1>5, <1>7, <1>8 DEF IInv, TypeOK
<1>10. \A d \in Conn \ {c} : guc'[d] = guc[d]
  BY <1>1, <1>2 DEF IInv, TypeOK
<1>11. \A t \in Session : Open(t) => t # s /\ sess[t].conn \in Conn \ {c}
  BY <1>7 DEF Open, Free, IInv, ScopeIsOwn
<1>12. \A t \in Session : Open(t)' => t = s \/ (t # s /\ Open(t) /\ sess'[t] = sess[t])
  BY <1>6 DEF Open
<1>13. /\ sess[s].op \in TenantOp => guc'[c] = sess[s].company
       /\ sess[s].op \in SystemOp => guc'[c] \notin Company
  BY <1>1, <1>2 DEF IInv, TypeOK, ScopeIsOwn, TenantOp, SystemOp
<1>14. ASSUME NEW t \in Session, Open(t)'
       PROVE  /\ sess'[t].conn \in Conn
              /\ sess'[t].op \in TenantOp => guc'[sess'[t].conn] = sess'[t].company
              /\ sess'[t].op \in SystemOp => guc'[sess'[t].conn] \notin Company
  <2>1. CASE t = s
    BY <1>2, <1>5, <1>6, <1>13, <2>1
  <2>2. CASE t # s
    BY <1>10, <1>11, <1>12, <1>14, <2>2 DEF IInv, ScopeIsOwn, Scope
  <2> QED BY <2>1, <2>2
<1>15. ASSUME NEW d \in Conn, \A t \in Session : Open(t)' => sess'[t].conn # d
       PROVE  guc'[d] \notin Company
  <2>1. d # c
    BY <1>5, <1>6, <1>15 DEF Open
  <2>2. \A t \in Session : Open(t) => sess[t].conn # d
    BY <1>6, <1>11, <1>15 DEF Open
  <2> QED BY <1>10, <2>1, <2>2 DEF IInv, ScopeIsOwn, Free
<1>16. \A t, u \in Session : Open(t)' /\ Open(u)' /\ t # u => sess'[t].conn # sess'[u].conn
  BY <1>5, <1>6, <1>11, <1>12 DEF IInv, ScopeIsOwn
<1>17. ScopeIsOwn'
  BY <1>14, <1>15, <1>16 DEF ScopeIsOwn, Scope, Free
<1>18. \A t \in Session : sess'[t].result = "honoured" => t # s
  BY <1>5, <1>6, <1>7 DEF IInv, Past
<1>19. Past'
  BY <1>5, <1>6, <1>7, <1>18 DEF IInv, Past
<1>20. HonouredInTime'
  BY <1>6, <1>7, <1>18 DEF IInv, HonouredInTime
<1> QED BY <1>9, <1>17, <1>19, <1>20 DEF IInv

LEMMA RunIInv ==
  ASSUME IInv, NEW s \in Session, Run(s)
  PROVE  IInv'
<1> SUFFICES ASSUME Open(s) PROVE IInv'
  BY DEF Run, CastFails, Require, Issue, IssueRefused, Expiring, Scan
<1>1. TypeOK /\ ScopeIsOwn
  BY DEF IInv
<1>2. ASSUME NEW result \in {"uncastable", "honoured", "expired", "required", "issued",
                             "refused", "due", "scanned", "broken"},
             NEW on \in SUBSET Licence, End(s, result, on), Kept,
             result = "honoured" =>
               \A l \in on : /\ lic[l].state # "none" /\ sess[s].at < lic[l].expires
                             /\ lic[l].company = sess[s].company
      PROVE  IInv'
  <2>1. Over(s, result, on)
    BY <1>1, <1>2, EndIsOver
  <2>2. now' = now /\ role' = role /\ faults' \in 0 .. MaxFaults
    BY <1>1, <1>2 DEF End, TypeOK
  <2> QED BY <1>2, <2>1, <2>2, AfterEnd
<1>3. Due(s) \in SUBSET Licence
  BY DEF Due
<1>4. CASE CastFails(s)
  BY <1>1, <1>2, <1>4, SameKept DEF CastFails
<1>5. CASE Require(s)
  <2>1. Kept
    BY <1>1, <1>5, SameKept DEF Require
  <2>2. CASE End(s, "required", {})
    BY <1>2, <2>1, <2>2
  <2>3. CASE \E l \in Licence :
               /\ Visible(s, l) /\ lic[l].company = sess[s].company
               /\ End(s, Effective(l, sess[s].at), {l})
    <3>1. PICK l \in Licence : /\ Visible(s, l) /\ lic[l].company = sess[s].company
                               /\ End(s, Effective(l, sess[s].at), {l})
      BY <2>3
    <3>2. lic[l].expires \in Nat /\ sess[s].at \in Nat
      BY <1>1, Times
    <3>3. /\ Effective(l, sess[s].at) \in {"honoured", "expired"}
          /\ Effective(l, sess[s].at) = "honoured" => sess[s].at < lic[l].expires
      BY <3>2 DEF Effective
    <3>4. lic[l].state # "none"
      BY <3>1 DEF Visible
    <3> QED BY <1>2, <2>1, <3>1, <3>3, <3>4
  <2> QED BY <1>5, <2>2, <2>3 DEF Require
<1>6. CASE Issue(s)
  <2>1. PICK l \in Licence : Inserted(s, l) /\ End(s, "issued", {l})
    BY <1>6 DEF Issue
  <2>2. Kept
    BY <1>1, <1>6, <2>1, InsertedKept DEF Issue
  <2> QED BY <1>2, <2>1, <2>2
<1>7. CASE IssueRefused(s)
  BY <1>1, <1>2, <1>7, SameKept DEF IssueRefused
<1>8. CASE Expiring(s)
  BY <1>1, <1>2, <1>3, <1>8, SameKept DEF Expiring
<1>9. CASE Scan(s)
  BY <1>1, <1>2, <1>3, <1>9, ScannedKept DEF Scan
<1> QED BY <1>4, <1>5, <1>6, <1>7, <1>8, <1>9 DEF Run

LEMMA BreakIInv ==
  ASSUME IInv, NEW s \in Session, Break(s)
  PROVE  IInv'
<1>1. TypeOK /\ ScopeIsOwn /\ Open(s)
  BY DEF IInv, Break
<1>2. Over(s, "broken", {})
  BY DEF Break, Over
<1>3. Kept
  <2>1. CASE UNCHANGED lic
    BY <1>1, <2>1, SameKept
  <2>2. CASE lic' = Scanned(s)
    BY <1>1, <2>2, ScannedKept
  <2>3. CASE \E l \in Licence : Inserted(s, l)
    BY <1>1, <2>3, InsertedKept
  <2> QED BY <2>1, <2>2, <2>3 DEF Break
<1>4. now' = now /\ role' = role /\ faults' \in 0 .. MaxFaults
  <2>1. now' = now /\ role' = role /\ faults' = faults + 1 /\ faults < MaxFaults /\ faults \in Nat
    BY <1>1, Times DEF Break
  <2> QED BY <2>1, BoundAssumption
<1> QED BY <1>1, <1>2, <1>3, <1>4, AfterEnd

LEMMA ReapIInv ==
  ASSUME IInv, NEW c \in Conn, Reap(c)
  PROVE  IInv'
<1>1. /\ \A s \in Session : Open(s) => sess[s].conn # c
      /\ guc' = [guc EXCEPT ![c] = "null"] /\ UNCHANGED <<role, sess, lic, now, faults>>
  BY DEF Reap, Free
<1>2. TypeOK'
  BY <1>1 DEF IInv, TypeOK
<1>3. guc'[c] \notin Company /\ \A d \in Conn \ {c} : guc'[d] = guc[d]
  BY <1>1, NameAssumption DEF IInv, TypeOK
<1>4. ScopeIsOwn'
  BY <1>1, <1>3 DEF IInv, ScopeIsOwn, Scope, Free, Open
<1>5. Past' /\ HonouredInTime'
  BY <1>1 DEF IInv, Past, HonouredInTime
<1> QED BY <1>2, <1>4, <1>5 DEF IInv

LEMMA TickIInv == IInv /\ Tick => IInv'
<1> SUFFICES ASSUME IInv, Tick PROVE IInv'
  OBVIOUS
<1>1. now \in Nat /\ now' \in 0 .. MaxNow /\ now' = now + 1
  <2>1. now \in Nat /\ now' = now + 1 /\ now < MaxNow
    BY Times DEF IInv, Tick
  <2> QED BY <2>1, BoundAssumption
<1>2. UNCHANGED <<role, guc, sess, lic, faults>>
  BY DEF Tick
<1>3. TypeOK'
  BY <1>1, <1>2 DEF IInv, TypeOK
<1>4. \A s \in Session : sess[s].at \in Nat
  BY Times DEF IInv
<1>5. Past'
  BY <1>1, <1>2, <1>4 DEF IInv, Past
<1>6. ScopeIsOwn' /\ HonouredInTime'
  BY <1>2 DEF IInv, ScopeIsOwn, Scope, Free, Open, HonouredInTime
<1> QED BY <1>3, <1>5, <1>6 DEF IInv

LEMMA NextIInv == IInv /\ [Next]_vars => IInv'
<1> SUFFICES ASSUME IInv, [Next]_vars PROVE IInv'
  OBVIOUS
<1>1. ASSUME NEW s \in Session, NEW op \in TenantOp \cup SystemOp,
             NEW k \in Company \cup {"null"}, NEW t \in 0 .. MaxNow, Call(s, op, k, t)
      PROVE  IInv'
  BY <1>1, CallIInv
<1>2. 0 \in 0 .. MaxNow
  BY BoundAssumption
<1>3. CASE \E s \in Api, k \in Company, op \in {"require", "expiring"} : Call(s, op, k, 0)
  BY <1>1, <1>2, <1>3 DEF Session, TenantOp, SystemOp
<1>4. CASE \E s \in Api, k \in Company, t \in 0 .. MaxNow : IdsLeft /\ Call(s, "issue", k, t)
  BY <1>1, <1>4 DEF Session, SystemOp
<1>5. CASE ScanDue
  BY <1>1, <1>2, <1>5 DEF ScanDue, Session, SystemOp
<1>6. CASE \E s \in Session : Begin(s) \/ Run(s) \/ Break(s)
  BY <1>6, BeginIInv, RunIInv, BreakIInv
<1>7. CASE \E c \in Conn : Reap(c)
  BY <1>7, ReapIInv
<1>8. CASE Tick
  BY <1>8, TickIInv
<1>9. CASE UNCHANGED vars
  BY <1>9 DEF vars, IInv, TypeOK, ScopeIsOwn, Scope, Free, Open, Past, HonouredInTime
<1> QED BY <1>3, <1>4, <1>5, <1>6, <1>7, <1>8, <1>9 DEF Next

LEMMA Invariant == Spec => []IInv
<1> QED BY InitIInv, NextIInv, PTL DEF Spec

-----------------------------------------------------------------------------
\* Every reachable state of the pool, the callers and the licence rows has its
\* type, for any number of companies, connections and requests.
THEOREM LicencesTypeCorrect == Spec => []TypeOK
<1>1. IInv => TypeOK
  BY DEF IInv
<1> QED BY <1>1, Invariant, PTL

\* withTenantDb and withSystemDb: however many connections and callers, a
\* statement runs in its own caller's scope and a company never stays behind
\* on a connection of the pool, even after one that broke.
THEOREM ScopeNeverLeaks == Spec => []ScopeIsOwn
<1>1. IInv => ScopeIsOwn
  BY DEF IInv
<1> QED BY <1>1, Invariant, PTL

\* requireLicense honours no lapsed licence and no other company's, with the
\* scan at any point of its work and after any issue in between.
THEOREM LapsedNeverHonoured == Spec => []HonouredInTime
<1>1. IInv => HonouredInTime
  BY DEF IInv
<1> QED BY <1>1, Invariant, PTL

\* The hourly scan never takes a licence that requireLicense would honour at
\* that moment, however old the time it compares with.
THEOREM ScanTakesLapsed == Spec => ScanTakesOnlyLapsed
<1>1. ASSUME IInv, [Next]_vars, NEW l \in Licence, Live(l), ~Live(l)'
      PROVE  Effective(l, now) = "expired"
  <2>1. lic'[l].state # lic[l].state /\ lic[l].state # "none"
    BY <1>1 DEF Live, LiveState
  <2>2. PICK s \in Session : lic' = Scanned(s)
    <3>1. PICK s \in Session : Run(s) \/ Break(s)
      BY <1>1, <2>1 DEF Next, vars, ScanDue, Call, Begin, Reap, Tick
    <3>2. ~\E m \in Licence : Inserted(s, m)
      BY <1>1, <2>1 DEF Inserted, Live, LiveState, IInv, TypeOK
    <3> QED BY <2>1, <3>1, <3>2 DEF Run, Break, CastFails, Require, Issue, IssueRefused,
                                    Expiring, Scan
  <2>3. l \in Due(s)
    BY <2>1, <2>2 DEF Scanned
  <2>4. lic[l].expires < sess[s].at /\ sess[s].at <= now
    BY <1>1, <2>3 DEF Due, IInv, Past
  <2>5. lic[l].expires \in Nat /\ sess[s].at \in Nat /\ now \in Nat
    BY <1>1, Times DEF IInv
  <2> QED BY <2>4, <2>5 DEF Effective
<1>2. IInv /\ [Next]_vars =>
        [\A l \in Licence : Live(l) /\ ~Live(l)' => Effective(l, now) = "expired"]_vars
  BY <1>1
<1> QED BY <1>2, Invariant, PTL DEF Spec, ScanTakesOnlyLapsed
=============================================================================
