------------------------------ MODULE Licences ------------------------------
(***************************************************************************)
(* Licences, and the tenant scope every statement runs in: withTenantDb and *)
(* withSystemDb over one pool (db/client.ts), the licence routes and their *)
(* repository, the hourly scan of workers/license-expiry.ts, and the row-  *)
(* level security and unique index of the migrations.                      *)
(*                                                                         *)
(* app.company_id is NULL on a new connection; set_config(.., true) gives  *)
(* it the company until the transaction ends, and from then on it reads as *)
(* the empty string, which the policies cannot cast to uuid.  Statements   *)
(* that write are followed by their COMMIT at once, so they are one step.  *)
(***************************************************************************)
EXTENDS Naturals, FiniteSets

CONSTANTS
  Company, Licence,
  Conn,           \* the pool's connections, at most `max`
  NoConn,
  Api, Worker,    \* requests under way in the API, and the scan's worker
  MaxNow,         \* bound: the clock
  MaxFaults       \* bound: connections that break under a transaction

ASSUME BoundAssumption == MaxNow \in Nat /\ MaxFaults \in Nat
ASSUME NameAssumption ==
  /\ Worker \notin Api /\ NoConn \notin Conn
  /\ "" \notin Company /\ "null" \notin Company

VARIABLES
  role,     \* of DATABASE_URL: does it bypass row-level security?
  guc,      \* app.company_id of each connection
  sess,     \* the caller's transaction
  lic,      \* rows of licenses
  now,      \* the clock; all hosts agree
  faults

vars == <<role, guc, sess, lic, now, faults>>

-----------------------------------------------------------------------------
Role     == {"bypassrls", "subject"}
Bypass   == role = "bypassrls"
Session  == Api \cup {Worker}
TenantOp == {"require"}
SystemOp == {"issue", "expiring", "scan"}

LiveState == {"trial", "active"}
Live(l)   == lic[l].state \in LiveState
Open(s)   == sess[s].stage = "open"
Free      == {c \in Conn : \A s \in Session : Open(s) => sess[s].conn # c}

Idle == [stage |-> "idle", op |-> "require", company |-> "null", at |-> 0,
         until |-> 0, conn |-> NoConn, result |-> "none", on |-> {}]

NoLicence == [state |-> "none", company |-> "null", expires |-> 0]

\* Licences may have been put there by hand, one at most for a company.
Init ==
  /\ role \in Role
  /\ guc = [c \in Conn |-> "null"]
  /\ sess = [s \in Session |-> Idle]
  /\ \E l \in Licence, k \in Company, t \in 0 .. MaxNow :
       lic = [m \in Licence |-> IF m = l THEN [state |-> "trial", company |-> k,
                                               expires |-> t]
                                ELSE NoLicence]
  /\ now = 0 /\ faults = 0

-----------------------------------------------------------------------------
(* A call, its checkout, its transaction.                                  *)

\* `new Date()` of the scan and of /expiring comes before the checkout.
Call(s, op, k, until) ==
  /\ ~Open(s) /\ sess[s].stage # "waiting"
  /\ sess' = [sess EXCEPT ![s] = [Idle EXCEPT !.stage = "waiting", !.op = op,
                !.company = k, !.until = until, !.at = now]]
  /\ UNCHANGED <<role, guc, lic, now, faults>>

\* Mutant: set_config(.., false).
AfterSession(v) == v

\* What is left of app.company_id when a transaction ends.
AfterTransaction(v) == IF v \in Company THEN "" ELSE v

\* connect, BEGIN, and set_config for a tenant; then requireLicense takes the
\* time of getEffectiveLicense's default argument.
Begin(s) ==
  /\ sess[s].stage = "waiting"
  /\ \E c \in Free :
       /\ sess' = [sess EXCEPT ![s].stage = "open", ![s].conn = c,
                     ![s].at = IF sess[s].op \in TenantOp THEN now ELSE @]
       /\ guc' = IF sess[s].op \in TenantOp
                 THEN [guc EXCEPT ![c] = sess[s].company] ELSE guc
  /\ UNCHANGED <<role, lic, now, faults>>

\* COMMIT or ROLLBACK, and release.
End(s, result, on) ==
  /\ guc' = [guc EXCEPT ![sess[s].conn] = AfterTransaction(@)]
  /\ sess' = [sess EXCEPT ![s].stage = "done", ![s].conn = NoConn,
                          ![s].result = result, ![s].on = on]
  /\ UNCHANGED <<role, now, faults>>

-----------------------------------------------------------------------------
(* The statements.                                                         *)

Scope(s)      == guc[sess[s].conn]
Uncastable(s) == ~Bypass /\ Scope(s) = ""
Visible(s, l) == /\ lic[l].state # "none"
                 /\ Bypass \/ lic[l].company = Scope(s)

CastFails(s) == /\ Open(s) /\ Uncastable(s)
                /\ End(s, "uncastable", {})
                /\ UNCHANGED lic

\* Mutant: the state is trusted.
EffectiveByState(l, at) == "honoured"

\* getEffectiveLicense: expiresAt is looked at again.
Effective(l, at) == IF lic[l].expires <= at THEN "expired" ELSE "honoured"

\* requireLicense: the company's own rows by the WHERE clause, whatever the
\* policy; the index leaves one at most.
Require(s) ==
  LET own == {l \in Licence : /\ Visible(s, l) /\ Live(l)
                              /\ lic[l].company = sess[s].company}
  IN  /\ Open(s) /\ sess[s].op = "require" /\ ~Uncastable(s)
      /\ IF own = {} THEN End(s, "required", {})
         ELSE \E l \in own : End(s, Effective(l, sess[s].at), {l})
      /\ UNCHANGED lic

\* The unique index; it knows states, not expires_at.
Issuable(k) == \A l \in Licence : Live(l) => lic[l].company # k

Inserted(s, l) ==
  /\ lic[l].state = "none"
  /\ lic' = [lic EXCEPT ![l] = [state |-> "active", company |-> sess[s].company,
                                expires |-> sess[s].until]]

\* POST /v1/_internal/licenses: the row must pass the policy's WITH CHECK.
Issue(s) ==
  /\ Open(s) /\ sess[s].op = "issue" /\ ~Uncastable(s)
  /\ Bypass /\ Issuable(sess[s].company)
  /\ \E l \in Licence : Inserted(s, l) /\ End(s, "issued", {l})

IssueRefused(s) ==
  /\ Open(s) /\ sess[s].op = "issue" /\ ~Uncastable(s)
  /\ ~(Bypass /\ Issuable(sess[s].company))
  /\ End(s, "refused", {})
  /\ UNCHANGED lic

\* Mutant: lt(expiresAt, now) is left out.
DueAll(s) == {l \in Licence : Visible(s, l) /\ Live(l)}

\* Mutant: trials only.
DueTrial(s) == {l \in Licence : /\ Visible(s, l) /\ lic[l].state = "trial"
                                /\ lic[l].expires < sess[s].at}

Due(s) == {l \in Licence : /\ Visible(s, l) /\ Live(l)
                           /\ lic[l].expires < sess[s].at}

Expiring(s) == /\ Open(s) /\ sess[s].op = "expiring" /\ ~Uncastable(s)
               /\ End(s, "due", Due(s))
               /\ UNCHANGED lic

\* Mutant: a state that license_state does not have.
ScannedLapsed(s) == [l \in Licence |-> IF l \in Due(s)
                       THEN [lic[l] EXCEPT !.state = "lapsed"] ELSE lic[l]]

Scanned(s) == [l \in Licence |-> IF l \in Due(s)
                                  THEN [lic[l] EXCEPT !.state = "expired"] ELSE lic[l]]

Scan(s) ==
  /\ Open(s) /\ sess[s].op = "scan" /\ ~Uncastable(s)
  /\ lic' = Scanned(s)
  /\ End(s, "scanned", Due(s))

Run(s) == CastFails(s) \/ Require(s) \/ Issue(s) \/ IssueRefused(s)
            \/ Expiring(s) \/ Scan(s)

-----------------------------------------------------------------------------
(* What else happens.                                                      *)

\* The connection breaks: the server rolls back, the pool drops the client
\* and will make another.  An answer to COMMIT may be what was lost.
Break(s) ==
  /\ Open(s) /\ faults < MaxFaults
  /\ faults' = faults + 1
  /\ guc' = [guc EXCEPT ![sess[s].conn] = "null"]
  /\ sess' = [sess EXCEPT ![s].stage = "done", ![s].conn = NoConn,
                          ![s].result = "broken", ![s].on = {}]
  /\ \/ UNCHANGED lic
     \/ sess[s].op = "scan" /\ ~Uncastable(s) /\ lic' = Scanned(s)
     \/ /\ sess[s].op = "issue" /\ ~Uncastable(s)
        /\ Bypass /\ Issuable(sess[s].company)
        /\ \E l \in Licence : Inserted(s, l)
  /\ UNCHANGED <<role, now>>

\* idleTimeoutMillis
Reap(c) == /\ c \in Free /\ guc[c] # "null"
           /\ guc' = [guc EXCEPT ![c] = "null"]
           /\ UNCHANGED <<role, sess, lic, now, faults>>

Tick == /\ now < MaxNow /\ now' = now + 1
        /\ UNCHANGED <<role, guc, sess, lic, faults>>

\* The repeatable job "scan" of minute 17, one at a time.
ScanDue == Call(Worker, "scan", "null", 0)

\* Bound: there is an id for every issue under way.
IdsLeft == Cardinality({l \in Licence : lic[l].state = "none"})
             > Cardinality({s \in Api : /\ sess[s].stage \in {"waiting", "open"}
                                       /\ sess[s].op = "issue"})

Next ==
  \/ \E s \in Api, k \in Company, op \in {"require", "expiring"} : Call(s, op, k, 0)
  \/ \E s \in Api, k \in Company, t \in 0 .. MaxNow : IdsLeft /\ Call(s, "issue", k, t)
  \/ ScanDue
  \/ \E s \in Session : Begin(s) \/ Run(s) \/ Break(s)
  \/ \E c \in Conn : Reap(c)
  \/ Tick

Spec == Init /\ [][Next]_vars

\* The scan comes round every hour, the pool's waiters are served in turn,
\* and a statement returns.
FairSpec ==
  /\ Spec
  /\ WF_vars(ScanDue)
  /\ \A s \in Session : SF_vars(Begin(s)) /\ WF_vars(Run(s))

-----------------------------------------------------------------------------
(* What is required.                                                       *)

SessionRow ==
  [stage : {"idle", "waiting", "open", "done"},
   op : TenantOp \cup SystemOp, company : Company \cup {"null"},
   at : 0 .. MaxNow, until : 0 .. MaxNow, conn : Conn \cup {NoConn},
   result : {"none", "uncastable", "honoured", "expired", "required", "issued",
             "refused", "due", "scanned", "broken"},
   on : SUBSET Licence]

LicenceRow == [state : {"none", "expired"} \cup LiveState,
               company : Company \cup {"null"}, expires : 0 .. MaxNow]

TypeOK ==
  /\ role \in Role
  /\ guc \in [Conn -> Company \cup {"", "null"}]
  /\ sess \in [Session -> SessionRow]
  /\ lic \in [Licence -> LicenceRow]
  /\ now \in 0 .. MaxNow /\ faults \in 0 .. MaxFaults

\* A statement runs in the scope of its own caller: a tenant's transaction has
\* its own company in app.company_id, a system one has none, and a company
\* never stays behind on a connection in the pool (db/client.ts:41-50, "it
\* can't leak across checkouts").
ScopeIsOwn ==
  /\ \A s \in Session : Open(s) =>
       /\ sess[s].conn \in Conn
       /\ sess[s].op \in TenantOp => Scope(s) = sess[s].company
       /\ sess[s].op \in SystemOp => Scope(s) \notin Company
  /\ \A c \in Free : guc[c] \notin Company
  /\ \A s, t \in Session : Open(s) /\ Open(t) /\ s # t => sess[s].conn # sess[t].conn

\* No request passes requireLicense on a licence that had lapsed when it
\* looked, or on another company's, whatever the scan has or has not done
\* (licenses.ts:21-27).
HonouredInTime ==
  \A s \in Session : sess[s].result = "honoured" =>
    \A l \in sess[s].on : /\ sess[s].at < lic[l].expires
                          /\ lic[l].company = sess[s].company

\* The scan takes no licence that the request path would still honour: its
\* `<` against getEffectiveLicense's `<=`, and a clock read before the
\* checkout (license-expiry.ts:42-47).
ScanTakesOnlyLapsed ==
  [][\A l \in Licence : Live(l) /\ ~Live(l)' => Effective(l, now) = "expired"]_vars

\* A lapsed licence is transitioned to expired, and so makes room for its
\* renewal: "Every hour, transition licenses whose expires_at is in the past"
\* (license-expiry.ts:4).  Under a role that is subject to the policies the
\* scan sees nothing, or fails.
LapsedIsTransitioned ==
  \A l \in Licence : (Bypass /\ Live(l) /\ lic[l].expires < now) ~> ~Live(l)
=============================================================================
