---------------------------- MODULE Deployment ----------------------------
(***************************************************************************)
(* The life of the processes of docker-compose.yml: main of index.ts in its *)
(* two modes, the migrations every boot runs (db/migrate.ts), the ticks a  *)
(* worker schedules (polling/scheduler.ts), and the key ring a process     *)
(* takes from its environment for as long as it lives                      *)
(* (crypto/env-key-provider.ts).                                           *)
(*                                                                         *)
(* A file of migrations runs in a transaction: its statements take locks   *)
(* on what they create, so a second process waits at them, and fails once  *)
(* the first has committed.  Repeatable jobs are keyed by name and         *)
(* pattern, so a company has one tick or none.                             *)
(***************************************************************************)
EXTENDS Naturals, FiniteSets

CONSTANTS
  Api, Worker,     \* processes, by SHIM_MODE
  LastFile,        \* the migration files are 1 .. LastFile, in lexical order
  Seed,            \* 0003_dev_seed.sql
  Company, Demo,   \* ids, and the one that Seed inserts
  Device, Key,
  FirstEnv,        \* the environments a deployment may start with
  MaxVersion,      \* bound: versions of keys
  MaxChanges,      \* bound: changes of the environment
  MaxFaults        \* bound: processes that die

ASSUME DeploymentAssumption ==
  /\ Api \cap Worker = {}
  /\ LastFile \in Nat /\ Seed \in 1 .. LastFile
  /\ Demo \in Company /\ "scan" \notin Company /\ "none" \notin Company
  /\ MaxVersion \in Nat /\ MaxChanges \in Nat /\ MaxFaults \in Nat

Version == 1 .. MaxVersion
Ring    == UNION {[V -> Key] : V \in SUBSET Version}
Env     == [explicit : Version \cup {0}, key : Key, old : Ring]

ASSUME EnvAssumption == FirstEnv \subseteq Env

VARIABLES
  table,      \* does _migrations exist?
  schema,     \* files whose effects are committed
  recorded,   \* names in _migrations
  companies,  \* rows of companies
  ticks,      \* repeatable jobs: companies' ticks, and "scan"
  stage,      \* how far main has come in each process
  seen,       \* runMigrations' `applied`, and what it has applied since
  todo,       \* companies of main's loop that have not had their turn
  at,         \* the company whose tick is being scheduled
  env,        \* the deployment's CRED_ENC_KEY, _VERSION (0: unset), _VERSIONS
  ring,       \* each process's keys by version
  blob,       \* each device's stored credential: version and key, if it has one
  changes, faults,
  due, torn   \* history: companies ever scheduled; those a death left without

dbVars   == <<table, schema, recorded>>
tickVars == <<companies, ticks, todo, at, due, torn>>
keyVars  == <<env, ring, blob, changes>>
vars     == <<dbVars, tickVars, stage, seen, keyVars, faults>>

-----------------------------------------------------------------------------
Proc    == Api \cup Worker
File    == 1 .. LastFile
NoBlob  == [ver |-> 0]
NoRing  == [v \in {} |-> 0]

\* Mutant: Math.max(known) without the + 1.
IsLast(old, v) == v \in DOMAIN old /\ \A w \in DOMAIN old : w <= v

\* max(known) + 1, or 1.
IsNext(old, v) == /\ \A w \in DOMAIN old : w < v
                  /\ v = 1 \/ v - 1 \in DOMAIN old

\* The version CRED_ENC_KEY gets: the explicit one, or the next.
Given(e) == IF e.explicit # 0 THEN {e.explicit}
            ELSE {v \in Version : IsNext(e.old, v)}

\* The ring the constructor builds; an explicit version overrides the map's.
Keyring(e) == [v \in DOMAIN e.old \cup Given(e) |->
                 IF v \in Given(e) THEN e.key ELSE e.old[v]]

\* `active` is the highest version, whichever CRED_ENC_KEY was given.
IsActive(r, v) == v \in DOMAIN r /\ \A w \in DOMAIN r : w <= v

Readable(b, r) == b = NoBlob \/ (b.ver \in DOMAIN r /\ r[b.ver] = b.key)

Init ==
  /\ table = FALSE /\ schema = {} /\ recorded = {}
  /\ companies = {} /\ ticks = {} /\ due = {} /\ torn = {}
  /\ stage = [p \in Proc |-> "down"] /\ seen = [p \in Proc |-> {}]
  /\ todo = [p \in Proc |-> {}] /\ at = [p \in Proc |-> "none"]
  /\ env \in FirstEnv
  /\ ring = [p \in Proc |-> NoRing]
  /\ blob = [d \in Device |-> NoBlob]
  /\ changes = 0 /\ faults = 0

Goto(p, s) == stage' = [stage EXCEPT ![p] = s]

-----------------------------------------------------------------------------
(* main, up to its mode.                                                   *)

\* loadEnv, new EnvKeyProvider: the environment is read once.
Start(p) ==
  /\ stage[p] = "down"
  /\ Goto(p, "creating")
  /\ ring' = [ring EXCEPT ![p] = Keyring(env)]
  /\ UNCHANGED <<dbVars, tickVars, seen, env, blob, changes, faults>>

CreateTable(p) ==
  /\ stage[p] = "creating"
  /\ Goto(p, "listing")
  /\ table' = TRUE
  /\ UNCHANGED <<schema, recorded, tickVars, seen, keyVars, faults>>

ListApplied(p) ==
  /\ stage[p] = "listing"
  /\ Goto(p, "migrating")
  /\ seen' = [seen EXCEPT ![p] = recorded]
  /\ UNCHANGED <<dbVars, tickVars, keyVars, faults>>

\* Mutant: `applied` is not asked.
NextUnskipped(p, f) == f \in File /\ \A g \in File : f <= g

\* The files are sorted, and those in `applied` skipped.
NextFile(p, f) == /\ f \in File \ seen[p]
                  /\ \A g \in File \ seen[p] : f <= g

\* BEGIN and the file's SQL: waits for a transaction that runs it already.
RunFile(p, f) ==
  /\ stage[p] = "migrating" /\ NextFile(p, f)
  /\ f \notin schema
  /\ \A q \in Proc : stage[q] # "inFile"
  /\ Goto(p, "inFile")
  /\ UNCHANGED <<dbVars, tickVars, seen, keyVars, faults>>

\* Another process has committed the file since ListApplied: what it creates
\* exists, or its name is in _migrations.  ROLLBACK, and main exits with 1.
FileClashes(p, f) ==
  /\ stage[p] = "migrating" /\ NextFile(p, f)
  /\ f \in schema
  /\ Goto(p, "down")
  /\ ring' = [ring EXCEPT ![p] = NoRing] /\ seen' = [seen EXCEPT ![p] = {}]
  /\ UNCHANGED <<dbVars, tickVars, env, blob, changes, faults>>

\* Mutant: the file's index, from 0, in place of its name.
RecordIndex(f) == recorded' = recorded \cup {f - 1}

\* Mutant: the INSERT is left out.
RecordNothing(f) == UNCHANGED recorded

\* INSERT INTO _migrations, in the file's transaction.
Record(f) == recorded' = recorded \cup {f}

CommitFile(p, f) ==
  /\ stage[p] = "inFile" /\ NextFile(p, f)
  /\ Goto(p, "migrating")
  /\ schema' = schema \cup {f} /\ Record(f)
  /\ seen' = [seen EXCEPT ![p] = @ \cup {f}]
  /\ companies' = IF f = Seed THEN companies \cup {Demo} ELSE companies
  /\ UNCHANGED <<table, ticks, todo, at, due, torn, keyVars, faults>>

Migrated(p) == stage[p] = "migrating" /\ File \subseteq seen[p]

-----------------------------------------------------------------------------
(* The two modes.                                                          *)

\* buildServer, startServer
Serve(p) ==
  /\ p \in Api /\ Migrated(p)
  /\ Goto(p, "ready")
  /\ UNCHANGED <<dbVars, tickVars, seen, keyVars, faults>>

\* scheduleLicenseExpiry
ScheduleScan(p) ==
  /\ p \in Worker /\ Migrated(p)
  /\ Goto(p, "scheduling")
  /\ ticks' = ticks \cup {"scan"}
  /\ UNCHANGED <<dbVars, companies, todo, at, due, torn, seen, keyVars, faults>>

ListCompanies(p) ==
  /\ stage[p] = "scheduling"
  /\ Goto(p, "ticking")
  /\ todo' = [todo EXCEPT ![p] = companies]
  /\ UNCHANGED <<dbVars, companies, ticks, at, due, torn, seen, keyVars, faults>>

\* scheduleCompanyTick: getRepeatableJobs, and is the tick there?
FindTick(p, c) ==
  /\ stage[p] = "ticking" /\ c \in todo[p]
  /\ Goto(p, IF c \in ticks THEN "removing" ELSE "adding")
  /\ at' = [at EXCEPT ![p] = c]
  /\ UNCHANGED <<dbVars, companies, ticks, todo, due, torn, seen, keyVars, faults>>

\* Mutant: every name that begins with "tick-".
StaleByPrefix(c) == Company

\* job.name === `tick-${companyId}`
Stale(c) == {c}

RemoveTick(p) ==
  /\ stage[p] = "removing"
  /\ Goto(p, "adding")
  /\ ticks' = ticks \ Stale(at[p])
  /\ UNCHANGED <<dbVars, companies, todo, at, due, torn, seen, keyVars, faults>>

AddTick(p) ==
  /\ stage[p] = "adding"
  /\ Goto(p, "ticking")
  /\ ticks' = ticks \cup {at[p]}
  /\ todo' = [todo EXCEPT ![p] = @ \ {at[p]}]
  /\ at' = [at EXCEPT ![p] = "none"]
  /\ due' = due \cup {at[p]} /\ torn' = torn \ {at[p]}
  /\ UNCHANGED <<dbVars, companies, seen, keyVars, faults>>

WorkerReady(p) ==
  /\ stage[p] = "ticking" /\ todo[p] = {}
  /\ Goto(p, "ready")
  /\ UNCHANGED <<dbVars, tickVars, seen, keyVars, faults>>

\* A signal, a crash or a failed statement (CREATE TABLE IF NOT EXISTS may
\* lose a race): what was open is rolled back.  The container is restarted.
Dies(p) ==
  /\ stage[p] # "down" /\ faults < MaxFaults
  /\ faults' = faults + 1
  /\ Goto(p, "down")
  /\ ring' = [ring EXCEPT ![p] = NoRing] /\ seen' = [seen EXCEPT ![p] = {}]
  /\ todo' = [todo EXCEPT ![p] = {}] /\ at' = [at EXCEPT ![p] = "none"]
  /\ torn' = IF stage[p] = "adding" THEN torn \cup {at[p]} ELSE torn
  /\ UNCHANGED <<dbVars, companies, ticks, due, env, blob, changes>>

\* POST /v1/_internal/companies
CreateCompany(p, c) ==
  /\ p \in Api /\ stage[p] = "ready" /\ c \notin companies
  /\ companies' = companies \cup {c}
  /\ UNCHANGED <<dbVars, ticks, todo, at, due, torn, stage, seen, keyVars, faults>>

-----------------------------------------------------------------------------
(* Keys.                                                                   *)

\* POST and PATCH /v1/devices: vault.encrypt under the active key.
Encrypt(p, d) ==
  /\ p \in Api /\ stage[p] = "ready"
  /\ \E v \in DOMAIN ring[p] :
       /\ IsActive(ring[p], v)
       /\ blob' = [blob EXCEPT ![d] = [ver |-> v, key |-> ring[p][v]]]
  /\ UNCHANGED <<dbVars, tickVars, stage, seen, env, ring, changes, faults>>

\* An operator rotates the key or rolls it back.  As the comments ask, the
\* map keeps every version there is and no version changes its key
\* (env-key-provider.ts:62-70, key-provider.ts:4-6).
Configure(k, v) ==
  LET old == Keyring(env) IN
  /\ changes < MaxChanges
  /\ v \in DOMAIN old => old[v] = k
  /\ env' = [explicit |-> v, key |-> k, old |-> old]
  /\ changes' = changes + 1
  /\ UNCHANGED <<dbVars, tickVars, stage, seen, ring, blob, faults>>

Without(r, v) == [w \in DOMAIN r \ {v} |-> r[w]]

\* An operator drops a version that no row and no process uses any more.  The
\* version must be explicit, or CRED_ENC_KEY would take another one.
Retire(v) ==
  /\ changes < MaxChanges
  /\ env.explicit \notin {0, v} /\ v \in DOMAIN env.old
  /\ \A d \in Device : blob[d].ver # v
  /\ \A p \in Proc : ~IsActive(ring[p], v)
  /\ env' = [env EXCEPT !.old = Without(@, v)]
  /\ changes' = changes + 1
  /\ UNCHANGED <<dbVars, tickVars, stage, seen, ring, blob, faults>>

-----------------------------------------------------------------------------
Migrate(p) == \/ CreateTable(p) \/ ListApplied(p)
              \/ \E f \in File : RunFile(p, f) \/ FileClashes(p, f) \/ CommitFile(p, f)

Tick(p) == \/ ScheduleScan(p) \/ ListCompanies(p)
           \/ \E c \in Company : FindTick(p, c)
           \/ RemoveTick(p) \/ AddTick(p) \/ WorkerReady(p)

Main(p) == Start(p) \/ Migrate(p) \/ Serve(p) \/ Tick(p)

Keys == \/ \E p \in Proc, d \in Device : Encrypt(p, d)
        \/ \E k \in Key, v \in Version \cup {0} : Configure(k, v)
        \/ \E v \in Version : Retire(v)

Next ==
  \/ \E p \in Proc : Main(p) \/ Dies(p)
  \/ \E p \in Proc, c \in Company : CreateCompany(p, c)
  \/ Keys

Spec == Init /\ [][Next]_vars

\* Containers are restarted ("unless-stopped") and statements are answered.
FairSpec == Spec /\ \A p \in Proc : WF_vars(Main(p))

-----------------------------------------------------------------------------
(* What is required.                                                       *)

Stage == {"down", "creating", "listing", "migrating", "inFile", "scheduling",
          "ticking", "removing", "adding", "ready"}

TypeOK ==
  /\ table \in BOOLEAN /\ schema \subseteq File /\ recorded \subseteq File
  /\ companies \subseteq Company /\ ticks \subseteq Company \cup {"scan"}
  /\ stage \in [Proc -> Stage] /\ seen \in [Proc -> SUBSET File]
  /\ todo \in [Proc -> SUBSET Company] /\ at \in [Proc -> Company \cup {"none"}]
  /\ env \in Env
  /\ ring \in [Proc -> Ring]
  /\ blob \in [Device -> {NoBlob} \cup [ver : Version, key : Key]]
  /\ changes \in 0 .. MaxChanges /\ faults \in 0 .. MaxFaults
  /\ due \subseteq Company /\ torn \subseteq Company

\* However many processes boot, clash and die over them, the files are applied
\* in their order and recorded when, and only when, their effects are there;
\* and a process that is past its migrations finds all of them applied.
MigrationsAgree ==
  /\ recorded = schema
  /\ \A f \in schema, g \in File : g <= f => g \in schema
  /\ \A p \in Proc : stage[p] \in {"scheduling", "ticking", "removing", "adding", "ready"}
       => schema = File

\* Workers that boot at the same time remove and add each other's ticks; yet a
\* company that was scheduled has its tick, unless some worker is about to add
\* it again or died between the two calls (scheduler.ts:69-83).
TicksStay ==
  due \subseteq ticks \cup torn \cup {at[p] : p \in {q \in Proc : stage[q] = "adding"}}

\* A stored credential can be decrypted by every process that starts from now
\* on, whichever processes, with the rings of which earlier environments, have
\* written it, through rotations, rollbacks and versions dropped.
CredentialsStayReadable == \A d \in Device : Readable(blob[d], Keyring(env))

\* Boots settle: in the end every process is up, the loser of a race for a
\* migration too, which finds it recorded when it is restarted; and the scan,
\* the seeded company and whatever was ever scheduled have their repeatable
\* jobs for good, torn or not (migrate.ts:35-54, index.ts:54-63, :80-83).
BootsSettle == <>[](/\ \A p \in Proc : stage[p] = "ready"
                    /\ {"scan", Demo} \cup due \subseteq ticks)
=============================================================================
