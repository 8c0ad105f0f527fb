-------------------------- MODULE DeploymentProofs --------------------------
(***************************************************************************)
(* For any number of processes, files, companies and keys: the migrations  *)
(* are recorded as they are applied, no schedule of boots loses a tick for *)
(* good, and no rotation, rollback or retirement of a key makes a stored   *)
(* credential unreadable.                                                  *)
(***************************************************************************)
EXTENDS Deployment, TLAPS

\* What a process takes for applied is.
SeenApplied == \A p \in Proc : seen[p] \subseteq schema

\* What a process may yet encrypt under is in the environment, and is the same.
ActiveKnown ==
  \A p \in Proc, v \in Version : IsActive(ring[p], v) =>
    v \in DOMAIN Keyring(env) /\ Keyring(env)[v] = ring[p][v]

\* A worker that schedules a tick schedules a company's.
AtCompany ==
  \A p \in Proc : stage[p] \in {"removing", "adding"} => at[p] \in Company

KeyInv == CredentialsStayReadable /\ ActiveKnown

IInv == TypeOK /\ AtCompany /\ SeenApplied /\ MigrationsAgree /\ TicksStay /\ KeyInv

-----------------------------------------------------------------------------
(* Key rings.                                                              *)

LEMMA NoRingIsRing == NoRing \in Ring
<1>1. NoRing \in [{} -> Key]
  BY DEF NoRing
<1> QED BY <1>1 DEF Ring

LEMMA RingDomain ==
  ASSUME NEW r \in Ring
  PROVE  /\ DOMAIN r \subseteq Version /\ r \in [DOMAIN r -> Key]
BY DEF Ring

LEMMA KeyringIsRing ==
  ASSUME NEW e \in Env
  PROVE  /\ Keyring(e) \in Ring
         /\ DOMAIN Keyring(e) = DOMAIN e.old \cup Given(e)
         /\ \A v \in DOMAIN Keyring(e) :
              Keyring(e)[v] = IF v \in Given(e) THEN e.key ELSE e.old[v]
<1>1. e.old \in Ring /\ e.key \in Key /\ e.explicit \in Version \cup {0}
  BY DEF Env
<1>2. DOMAIN e.old \subseteq Version /\ e.old \in [DOMAIN e.old -> Key]
  BY <1>1, RingDomain
<1>3. Given(e) \subseteq Version
  BY <1>1 DEF Given
<1>4. Keyring(e) \in [DOMAIN e.old \cup Given(e) -> Key]
  BY <1>1, <1>2 DEF Keyring
<1>5. Keyring(e) \in Ring
  BY <1>2, <1>3, <1>4 DEF Ring
<1> QED BY <1>4, <1>5 DEF Keyring

\* CRED_ENC_KEY and the map of all versions before it: nothing is lost.
LEMMA ConfigureExtends ==
  ASSUME TypeOK, NEW k \in Key, NEW v \in Version \cup {0}, Configure(k, v)
  PROVE  /\ env' \in Env
         /\ \A w \in DOMAIN Keyring(env) :
              w \in DOMAIN Keyring(env') /\ Keyring(env')[w] = Keyring(env)[w]
<1> DEFINE old == Keyring(env)
<1>1. old \in Ring
  BY KeyringIsRing DEF TypeOK
<1>2. env' = [explicit |-> v, key |-> k, old |-> old]
  BY DEF Configure
<1>3. v \in DOMAIN old => old[v] = k
  BY DEF Configure
<1> HIDE DEF old
<1>4. env' \in Env
  BY <1>1, <1>2 DEF Env
<1>5. ASSUME NEW w \in DOMAIN old, w \in Given(env')
      PROVE  old[w] = k
  <2>1. CASE v # 0
    BY <1>2, <1>3, <1>5, <2>1 DEF Given
  <2>2. CASE v = 0
    <3>1. IsNext(old, w)
      BY <1>2, <1>5, <2>2 DEF Given
    <3>2. w < w /\ w \in Nat
      BY <1>1, <1>5, <3>1, RingDomain DEF IsNext, Version
    <3> QED BY <3>2
  <2> QED BY <2>1, <2>2
<1>6. \A w \in DOMAIN old :
        w \in DOMAIN Keyring(env') /\ Keyring(env')[w] = old[w]
  BY <1>2, <1>4, <1>5, KeyringIsRing
<1> QED BY <1>4, <1>6 DEF old

\* Dropping a version drops that version alone.
LEMMA RetireDropsOne ==
  ASSUME TypeOK, NEW v \in Version, Retire(v)
  PROVE  /\ env' \in Env
         /\ \A w \in DOMAIN Keyring(env) \ {v} :
              w \in DOMAIN Keyring(env') /\ Keyring(env')[w] = Keyring(env)[w]
<1>1. env \in Env /\ env.old \in Ring /\ env.key \in Key
      /\ env.explicit \in Version \cup {0}
  BY DEF TypeOK, Env
<1>2. env' = [env EXCEPT !.old = Without(env.old, v)]
  BY <1>1 DEF Retire, Env
<1>3. /\ env'.explicit = env.explicit /\ env'.key = env.key
      /\ env'.old = Without(env.old, v)
  BY <1>1, <1>2 DEF Env
<1>4. Without(env.old, v) \in Ring
  <2>1. DOMAIN env.old \subseteq Version /\ env.old \in [DOMAIN env.old -> Key]
    BY <1>1, RingDomain
  <2>2. Without(env.old, v) \in [DOMAIN env.old \ {v} -> Key]
    BY <2>1 DEF Without
  <2> QED BY <2>1, <2>2 DEF Ring
<1>5. env' \in Env
  BY <1>1, <1>2, <1>4 DEF Env
<1>6. env.explicit # 0 /\ env.explicit # v
  BY DEF Retire
<1>7. Given(env) = {env.explicit} /\ Given(env') = {env.explicit}
  BY <1>3, <1>6 DEF Given
<1>8. \A w \in DOMAIN env.old \ {v} :
        w \in DOMAIN env'.old /\ env'.old[w] = env.old[w]
  BY <1>3 DEF Without
<1> QED BY <1>1, <1>3, <1>5, <1>7, <1>8, KeyringIsRing

-----------------------------------------------------------------------------
(* The initial state, and the types.                                       *)

LEMMA InitIInv == Init => IInv
<1> SUFFICES ASSUME Init PROVE IInv
  OBVIOUS
<1>1. 0 \in 0 .. MaxChanges /\ 0 \in 0 .. MaxFaults
  BY DeploymentAssumption
<1>2. env \in Env
  BY EnvAssumption DEF Init
<1>3. TypeOK
  BY <1>1, <1>2, NoRingIsRing DEF Init, TypeOK, Stage, dbVars
<1>4. AtCompany /\ SeenApplied /\ MigrationsAgree /\ TicksStay
  BY DEF Init, AtCompany, SeenApplied, MigrationsAgree, TicksStay
<1>5. CredentialsStayReadable
  BY DEF Init, CredentialsStayReadable, Readable
<1>6. ActiveKnown
  BY DEF Init, ActiveKnown, IsActive, NoRing
<1> QED BY <1>3, <1>4, <1>5, <1>6 DEF IInv, KeyInv

LEMMA GotoTyped ==
  ASSUME TypeOK, NEW p \in Proc, NEW s \in Stage, Goto(p, s)
  PROVE  /\ stage' \in [Proc -> Stage] /\ stage'[p] = s
         /\ \A q \in Proc \ {p} : stage'[q] = stage[q]
BY DEF Goto, TypeOK

LEMMA MigrateTyped ==
  ASSUME IInv, NEW p \in Proc, Start(p) \/ Migrate(p) \/ Serve(p)
  PROVE  TypeOK' /\ AtCompany'
<1>1. TypeOK /\ AtCompany
  BY DEF IInv
<1>2. CASE Start(p)
  <2>1. Keyring(env) \in Ring
    BY <1>1, KeyringIsRing DEF TypeOK
  <2>2. stage' \in [Proc -> Stage] /\ \A q \in Proc : stage'[q] \in {stage[q], "creating"}
    BY <1>1, <1>2, GotoTyped DEF Start, Stage
  <2> QED BY <1>1, <1>2, <2>1, <2>2 DEF Start, TypeOK, AtCompany, dbVars, tickVars
<1>3. CASE CreateTable(p)
  <2>1. stage' \in [Proc -> Stage] /\ \A q \in Proc : stage'[q] \in {stage[q], "listing"}
    BY <1>1, <1>3, GotoTyped DEF CreateTable, Stage
  <2> QED BY <1>1, <1>3, <2>1 DEF CreateTable, TypeOK, AtCompany, tickVars, keyVars
<1>4. CASE ListApplied(p)
  <2>1. stage' \in [Proc -> Stage] /\ \A q \in Proc : stage'[q] \in {stage[q], "migrating"}
    BY <1>1, <1>4, GotoTyped DEF ListApplied, Stage
  <2> QED BY <1>1, <1>4, <2>1 DEF ListApplied, TypeOK, AtCompany, dbVars, tickVars, keyVars
<1>5. ASSUME NEW f \in File, RunFile(p, f)
      PROVE  TypeOK' /\ AtCompany'
  <2>1. stage' \in [Proc -> Stage] /\ \A q \in Proc : stage'[q] \in {stage[q], "inFile"}
    BY <1>1, <1>5, GotoTyped DEF RunFile, Stage
  <2> QED BY <1>1, <1>5, <2>1 DEF RunFile, TypeOK, AtCompany, dbVars, tickVars, keyVars
<1>6. ASSUME NEW f \in File, FileClashes(p, f)
      PROVE  TypeOK' /\ AtCompany'
  <2>1. stage' \in [Proc -> Stage] /\ \A q \in Proc : stage'[q] \in {stage[q], "down"}
    BY <1>1, <1>6, GotoTyped DEF FileClashes, Stage
  <2> QED BY <1>1, <1>6, <2>1, NoRingIsRing
          DEF FileClashes, TypeOK, AtCompany, dbVars, tickVars
<1>7. ASSUME NEW f \in File, CommitFile(p, f)
      PROVE  TypeOK' /\ AtCompany'
  <2>1. stage' \in [Proc -> Stage] /\ \A q \in Proc : stage'[q] \in {stage[q], "migrating"}
    BY <1>1, <1>7, GotoTyped DEF CommitFile, Stage
  <2> QED BY <1>1, <1>7, <2>1, DeploymentAssumption
          DEF CommitFile, Record, TypeOK, AtCompany, keyVars
<1>8. CASE Serve(p)
  <2>1. stage' \in [Proc -> Stage] /\ \A q \in Proc : stage'[q] \in {stage[q], "ready"}
    BY <1>1, <1>8, GotoTyped DEF Serve, Stage
  <2> QED BY <1>1, <1>8, <2>1 DEF Serve, TypeOK, AtCompany, dbVars, tickVars, keyVars
<1> QED BY <1>2, <1>3, <1>4, <1>5, <1>6, <1>7, <1>8 DEF Migrate

LEMMA TickTyped ==
  ASSUME IInv, NEW p \in Proc, Tick(p)
  PROVE  TypeOK' /\ AtCompany'
<1>1. TypeOK /\ AtCompany
  BY DEF IInv
<1>2. CASE ScheduleScan(p)
  <2>1. stage' \in [Proc -> Stage] /\ \A q \in Proc : stage'[q] \in {stage[q], "scheduling"}
    BY <1>1, <1>2, GotoTyped DEF ScheduleScan, Stage
  <2> QED BY <1>1, <1>2, <2>1 DEF ScheduleScan, TypeOK, AtCompany, dbVars, keyVars
<1>3. CASE ListCompanies(p)
  <2>1. stage' \in [Proc -> Stage] /\ \A q \in Proc : stage'[q] \in {stage[q], "ticking"}
    BY <1>1, <1>3, GotoTyped DEF ListCompanies, Stage
  <2> QED BY <1>1, <1>3, <2>1 DEF ListCompanies, TypeOK, AtCompany, dbVars, keyVars
<1>4. ASSUME NEW c \in Company, FindTick(p, c)
      PROVE  TypeOK' /\ AtCompany'
  <2>1. stage' \in [Proc -> Stage] /\ \A q \in Proc \ {p} : stage'[q] = stage[q]
    BY <1>1, <1>4, GotoTyped DEF FindTick, Stage
  <2>2. /\ at' \in [Proc -> Company \cup {"none"}] /\ at'[p] = c
        /\ \A q \in Proc \ {p} : at'[q] = at[q]
    BY <1>1, <1>4 DEF FindTick, TypeOK
  <2> QED BY <1>1, <1>4, <2>1, <2>2 DEF FindTick, TypeOK, AtCompany, dbVars, keyVars
<1>5. CASE RemoveTick(p)
  <2>1. /\ stage' \in [Proc -> Stage] /\ stage[p] = "removing"
        /\ \A q \in Proc \ {p} : stage'[q] = stage[q]
    BY <1>1, <1>5, GotoTyped DEF RemoveTick, Stage
  <2> QED BY <1>1, <1>5, <2>1 DEF RemoveTick, TypeOK, AtCompany, dbVars, keyVars
<1>6. CASE AddTick(p)
  <2>1. /\ stage' \in [Proc -> Stage] /\ stage'[p] = "ticking"
        /\ \A q \in Proc \ {p} : stage'[q] = stage[q]
    BY <1>1, <1>6, GotoTyped DEF AddTick, Stage
  <2>2. at[p] \in Company
    BY <1>1, <1>6 DEF AddTick, AtCompany
  <2>3. /\ at' \in [Proc -> Company \cup {"none"}]
        /\ \A q \in Proc \ {p} : at'[q] = at[q]
    BY <1>1, <1>6 DEF AddTick, TypeOK
  <2> QED BY <1>1, <1>6, <2>1, <2>2, <2>3
          DEF AddTick, TypeOK, AtCompany, dbVars, keyVars
<1>7. CASE WorkerReady(p)
  <2>1. stage' \in [Proc -> Stage] /\ \A q \in Proc : stage'[q] \in {stage[q], "ready"}
    BY <1>1, <1>7, GotoTyped DEF WorkerReady, Stage
  <2> QED BY <1>1, <1>7, <2>1 DEF WorkerReady, TypeOK, AtCompany, dbVars, tickVars, keyVars
<1> QED BY <1>2, <1>3, <1>4, <1>5, <1>6, <1>7 DEF Tick

LEMMA DiesTyped ==
  ASSUME IInv, NEW p \in Proc, Dies(p)
  PROVE  TypeOK' /\ AtCompany'
<1>1. TypeOK /\ AtCompany
  BY DEF IInv
<1>2. /\ stage' \in [Proc -> Stage] /\ stage'[p] = "down"
      /\ \A q \in Proc \ {p} : stage'[q] = stage[q]
  BY <1>1, GotoTyped DEF Dies, Stage
<1>3. faults' \in 0 .. MaxFaults
  BY <1>1, DeploymentAssumption DEF Dies, TypeOK
<1>4. torn' \subseteq Company
  BY <1>1 DEF Dies, TypeOK, AtCompany
<1>5. /\ at' \in [Proc -> Company \cup {"none"}]
      /\ \A q \in Proc \ {p} : at'[q] = at[q]
  BY <1>1 DEF Dies, TypeOK
<1> QED BY <1>1, <1>2, <1>3, <1>4, <1>5, NoRingIsRing
        DEF Dies, TypeOK, AtCompany, dbVars

LEMMA RestTyped ==
  ASSUME IInv, (\E p \in Proc, c \in Company : CreateCompany(p, c)) \/ Keys
  PROVE  TypeOK' /\ AtCompany'
<1>1. TypeOK /\ AtCompany
  BY DEF IInv
<1>2. CASE \E p \in Proc, c \in Company : CreateCompany(p, c)
  BY <1>1, <1>2 DEF CreateCompany, TypeOK, AtCompany, dbVars, keyVars
<1>3. ASSUME NEW p \in Proc, NEW d \in Device, Encrypt(p, d)
      PROVE  TypeOK' /\ AtCompany'
  <2>1. PICK v \in DOMAIN ring[p] :
          blob' = [blob EXCEPT ![d] = [ver |-> v, key |-> ring[p][v]]]
    BY <1>3 DEF Encrypt
  <2>2. ring[p] \in Ring
    BY <1>1 DEF TypeOK
  <2>3. v \in Version /\ ring[p][v] \in Key
    BY <2>2, RingDomain
  <2> QED BY <1>1, <1>3, <2>1, <2>3 DEF Encrypt, TypeOK, AtCompany, dbVars, tickVars
<1>4. ASSUME NEW k \in Key, NEW v \in Version \cup {0}, Configure(k, v)
      PROVE  TypeOK' /\ AtCompany'
  <2>1. env' \in Env
    BY <1>1, <1>4, ConfigureExtends
  <2>2. changes' \in 0 .. MaxChanges
    BY <1>1, <1>4, DeploymentAssumption DEF Configure, TypeOK
  <2> QED BY <1>1, <1>4, <2>1, <2>2 DEF Configure, TypeOK, AtCompany, dbVars, tickVars
<1>5. ASSUME NEW v \in Version, Retire(v)
      PROVE  TypeOK' /\ AtCompany'
  <2>1. env' \in Env
    BY <1>1, <1>5, RetireDropsOne
  <2>2. changes' \in 0 .. MaxChanges
    BY <1>1, <1>5, DeploymentAssumption DEF Retire, TypeOK
  <2> QED BY <1>1, <1>5, <2>1, <2>2 DEF Retire, TypeOK, AtCompany, dbVars, tickVars
<1> QED BY <1>2, <1>3, <1>4, <1>5 DEF Keys

LEMMA NextTyped == IInv /\ [Next]_vars => TypeOK' /\ AtCompany'
<1> SUFFICES ASSUME IInv, [Next]_vars PROVE TypeOK' /\ AtCompany'
  OBVIOUS
<1>1. CASE \E p \in Proc : Main(p)
  BY <1>1, MigrateTyped, TickTyped DEF Main
<1>2. CASE \E p \in Proc : Dies(p)
  BY <1>2, DiesTyped
<1>3. CASE (\E p \in Proc, c \in Company : CreateCompany(p, c)) \/ Keys
  BY <1>3, RestTyped
<1>4. CASE UNCHANGED vars
  BY <1>4 DEF vars, dbVars, tickVars, keyVars, IInv, TypeOK, AtCompany
<1> QED BY <1>1, <1>2, <1>3, <1>4 DEF Next

-----------------------------------------------------------------------------
(* The migrations.                                                         *)

\* Few steps touch the database, and they only add to it.
LEMMA MigrationsStep ==
  ASSUME IInv, [Next]_vars
  PROVE  SeenApplied' /\ MigrationsAgree'
<1>1. TypeOK /\ SeenApplied /\ MigrationsAgree
  BY DEF IInv
<1>2. ASSUME UNCHANGED <<schema, recorded>>, NEW p \in Proc,
             \A q \in Proc : seen'[q] \subseteq schema,
             \A q \in Proc \ {p} : stage'[q] = stage[q],
             stage'[p] \in {"scheduling", "ticking", "removing", "adding", "ready"} =>
               \/ stage[p] \in {"scheduling", "ticking", "removing", "adding", "ready"}
               \/ File \subseteq seen[p]
      PROVE  SeenApplied' /\ MigrationsAgree'
  <2>1. schema \subseteq File
    BY <1>1 DEF TypeOK
  <2>2. SeenApplied'
    BY <1>2 DEF SeenApplied
  <2>3. ASSUME NEW q \in Proc,
               stage'[q] \in {"scheduling", "ticking", "removing", "adding", "ready"}
        PROVE  schema' = File
    BY <1>1, <1>2, <2>1, <2>3 DEF SeenApplied, MigrationsAgree
  <2>4. recorded' = schema' /\ \A f \in schema', g \in File : g <= f => g \in schema'
    BY <1>1, <1>2 DEF MigrationsAgree
  <2> QED BY <2>2, <2>3, <2>4 DEF MigrationsAgree
<1>3. ASSUME NEW p \in Proc, NEW s \in Stage, Goto(p, s), UNCHANGED <<schema, recorded>>,
             \A q \in Proc : seen'[q] \in {seen[q], {}, recorded},
             s \in {"scheduling", "ticking", "removing", "adding", "ready"} =>
               \/ stage[p] \in {"scheduling", "ticking", "removing", "adding", "ready"}
               \/ File \subseteq seen[p]
      PROVE  SeenApplied' /\ MigrationsAgree'
  <2>1. stage'[p] = s /\ \A q \in Proc \ {p} : stage'[q] = stage[q]
    BY <1>1, <1>3, GotoTyped
  <2>2. \A q \in Proc : seen'[q] \subseteq schema
    BY <1>1, <1>3 DEF SeenApplied, MigrationsAgree
  <2> QED BY <1>2, <1>3, <2>1, <2>2
<1>4. ASSUME UNCHANGED <<schema, recorded, seen, stage>>
      PROVE  SeenApplied' /\ MigrationsAgree'
  BY <1>1, <1>4 DEF SeenApplied, MigrationsAgree
<1>5. ASSUME NEW p \in Proc, Start(p)
      PROVE  SeenApplied' /\ MigrationsAgree'
  BY <1>3, <1>5 DEF Start, Stage, dbVars
<1>6. ASSUME NEW p \in Proc, CreateTable(p)
      PROVE  SeenApplied' /\ MigrationsAgree'
  BY <1>3, <1>6 DEF CreateTable, Stage
<1>7. ASSUME NEW p \in Proc, ListApplied(p)
      PROVE  SeenApplied' /\ MigrationsAgree'
  <2>1. \A q \in Proc : seen'[q] \in {seen[q], {}, recorded}
    BY <1>1, <1>7 DEF ListApplied, TypeOK
  <2> QED BY <1>3, <1>7, <2>1 DEF ListApplied, Stage, dbVars
<1>8. ASSUME NEW p \in Proc, NEW f \in File, RunFile(p, f) \/ FileClashes(p, f)
      PROVE  SeenApplied' /\ MigrationsAgree'
  <2>1. CASE RunFile(p, f)
    BY <1>3, <2>1 DEF RunFile, Stage, dbVars
  <2>2. CASE FileClashes(p, f)
    <3>1. \A q \in Proc : seen'[q] \in {seen[q], {}, recorded}
      BY <1>1, <2>2 DEF FileClashes, TypeOK
    <3> QED BY <1>3, <2>2, <3>1 DEF FileClashes, Stage, dbVars
  <2> QED BY <1>8, <2>1, <2>2
<1>9. ASSUME NEW p \in Proc, NEW f \in File, CommitFile(p, f)
      PROVE  SeenApplied' /\ MigrationsAgree'
  <2>1. schema' = schema \cup {f} /\ recorded' = recorded \cup {f}
    BY <1>9 DEF CommitFile, Record
  <2>2. stage'[p] = "migrating" /\ \A q \in Proc \ {p} : stage'[q] = stage[q]
    BY <1>1, <1>9, GotoTyped DEF CommitFile, Stage
  <2>3. \A q \in Proc : seen'[q] \subseteq seen[q] \cup {f}
    BY <1>1, <1>9 DEF CommitFile, TypeOK
  <2>4. SeenApplied'
    BY <1>1, <2>1, <2>3 DEF SeenApplied
  <2>5. \A g \in File : g <= f => g = f \/ g \in schema
    <3>1. f \in File \ seen[p] /\ \A g \in File \ seen[p] : f <= g
      BY <1>9 DEF CommitFile, NextFile
    <3>2. ASSUME NEW g \in File, g <= f
          PROVE  g = f \/ g \in seen[p]
      <4>1. g \in Nat /\ f \in Nat
        BY <3>1 DEF File
      <4>2. g \notin seen[p] => f <= g
        BY <3>1
      <4> QED BY <3>2, <4>1, <4>2
    <3> QED BY <1>1, <3>2 DEF SeenApplied
  <2>6. \A g \in schema', h \in File : h <= g => h \in schema'
    BY <1>1, <2>1, <2>5 DEF MigrationsAgree
  <2>7. ASSUME NEW q \in Proc,
               stage'[q] \in {"scheduling", "ticking", "removing", "adding", "ready"}
        PROVE  schema' = File
    <3>1. schema = File
      BY <1>1, <2>2, <2>7 DEF MigrationsAgree
    <3> QED BY <2>1, <3>1
  <2>8. recorded' = schema'
    BY <1>1, <2>1 DEF MigrationsAgree
  <2> QED BY <2>4, <2>6, <2>7, <2>8 DEF MigrationsAgree
<1>10. ASSUME NEW p \in Proc, Serve(p) \/ Tick(p)
       PROVE  SeenApplied' /\ MigrationsAgree'
  <2>1. CASE Serve(p)
    BY <1>3, <2>1 DEF Serve, Migrated, Stage, dbVars
  <2>2. CASE ScheduleScan(p)
    BY <1>3, <2>2 DEF ScheduleScan, Migrated, Stage, dbVars
  <2>3. CASE ListCompanies(p)
    BY <1>3, <2>3 DEF ListCompanies, Stage, dbVars
  <2>4. CASE \E c \in Company : FindTick(p, c)
    BY <1>3, <2>4 DEF FindTick, Stage, dbVars
  <2>5. CASE RemoveTick(p)
    BY <1>3, <2>5 DEF RemoveTick, Stage, dbVars
  <2>6. CASE AddTick(p)
    BY <1>3, <2>6 DEF AddTick, Stage, dbVars
  <2>7. CASE WorkerReady(p)
    BY <1>3, <2>7 DEF WorkerReady, Stage, dbVars
  <2> QED BY <1>10, <2>1, <2>2, <2>3, <2>4, <2>5, <2>6, <2>7 DEF Tick
<1>11. ASSUME NEW p \in Proc, Dies(p)
       PROVE  SeenApplied' /\ MigrationsAgree'
  <2>1. \A q \in Proc : seen'[q] \in {seen[q], {}, recorded}
    BY <1>1, <1>11 DEF Dies, TypeOK
  <2> QED BY <1>3, <1>11, <2>1 DEF Dies, Stage, dbVars
<1>12. CASE (\E p \in Proc, c \in Company : CreateCompany(p, c)) \/ Keys
  BY <1>4, <1>12 DEF CreateCompany, Keys, Encrypt, Configure, Retire, dbVars
<1>13. CASE UNCHANGED vars
  BY <1>4, <1>13 DEF vars, dbVars
<1> QED BY <1>5, <1>6, <1>7, <1>8, <1>9, <1>10, <1>11, <1>12, <1>13
        DEF Next, Main, Migrate

-----------------------------------------------------------------------------
(* The ticks.                                                              *)

LEMMA TicksStep ==
  ASSUME IInv, [Next]_vars
  PROVE  TicksStay'
<1> DEFINE Adding == {q \in Proc : stage[q] = "adding"}
           Covered == ticks \cup torn \cup {at[q] : q \in Adding}
<1>1. TypeOK /\ TicksStay /\ due \subseteq Covered
  BY DEF IInv, TicksStay
<1>2. ASSUME due' = due, ticks \subseteq ticks', torn \subseteq torn',
             \A q \in Proc : stage[q] = "adding" => stage'[q] = "adding" /\ at'[q] = at[q]
      PROVE  TicksStay'
  BY <1>1, <1>2 DEF TicksStay
<1>3. ASSUME NEW p \in Proc, stage[p] # "adding", NEW s \in Stage, Goto(p, s),
             due' = due, ticks \subseteq ticks', torn \subseteq torn',
             \A q \in Proc \ {p} : at'[q] = at[q]
      PROVE  TicksStay'
  <2>1. \A q \in Proc \ {p} : stage'[q] = stage[q]
    BY <1>1, <1>3, GotoTyped
  <2> QED BY <1>2, <1>3, <2>1
<1>4. ASSUME NEW p \in Proc, Start(p) \/ Migrate(p) \/ Serve(p)
      PROVE  TicksStay'
  <2>1. CASE Start(p)
    BY <1>3, <2>1 DEF Start, Stage, tickVars
  <2>2. CASE CreateTable(p)
    BY <1>3, <2>2 DEF CreateTable, Stage, tickVars
  <2>3. CASE ListApplied(p)
    BY <1>3, <2>3 DEF ListApplied, Stage, tickVars
  <2>4. CASE \E f \in File : RunFile(p, f)
    BY <1>3, <2>4 DEF RunFile, Stage, tickVars
  <2>5. CASE \E f \in File : FileClashes(p, f)
    BY <1>3, <2>5 DEF FileClashes, Stage, tickVars
  <2>6. CASE \E f \in File : CommitFile(p, f)
    BY <1>3, <2>6 DEF CommitFile, Stage
  <2>7. CASE Serve(p)
    BY <1>3, <2>7 DEF Serve, Migrated, Stage, tickVars
  <2> QED BY <1>4, <2>1, <2>2, <2>3, <2>4, <2>5, <2>6, <2>7 DEF Migrate
<1>5. ASSUME NEW p \in Proc, ScheduleScan(p) \/ ListCompanies(p) \/ WorkerReady(p)
      PROVE  TicksStay'
  <2>1. CASE ScheduleScan(p)
    BY <1>3, <2>1 DEF ScheduleScan, Migrated, Stage
  <2>2. CASE ListCompanies(p)
    BY <1>3, <2>2 DEF ListCompanies, Stage
  <2>3. CASE WorkerReady(p)
    BY <1>3, <2>3 DEF WorkerReady, Stage, tickVars
  <2> QED BY <1>5, <2>1, <2>2, <2>3
<1>6. ASSUME NEW p \in Proc, NEW c \in Company, FindTick(p, c)
      PROVE  TicksStay'
  <2>1. \A q \in Proc \ {p} : at'[q] = at[q]
    BY <1>1, <1>6 DEF FindTick, TypeOK
  <2> QED BY <1>3, <1>6, <2>1 DEF FindTick, Stage
<1>7. ASSUME NEW p \in Proc, RemoveTick(p)
      PROVE  TicksStay'
  <2>1. stage'[p] = "adding" /\ \A q \in Proc \ {p} : stage'[q] = stage[q]
    BY <1>1, <1>7, GotoTyped DEF RemoveTick, Stage
  <2>2. /\ ticks' = ticks \ {at[p]} /\ stage[p] = "removing"
        /\ at' = at /\ torn' = torn /\ due' = due
    BY <1>7 DEF RemoveTick, Stale
  <2> QED BY <1>1, <2>1, <2>2 DEF TicksStay
<1>8. ASSUME NEW p \in Proc, AddTick(p)
      PROVE  TicksStay'
  <2>1. \A q \in Proc \ {p} : stage'[q] = stage[q] /\ at'[q] = at[q]
    BY <1>1, <1>8, GotoTyped DEF AddTick, Stage, TypeOK
  <2>2. /\ ticks' = ticks \cup {at[p]} /\ torn' = torn \ {at[p]}
        /\ due' = due \cup {at[p]}
    BY <1>8 DEF AddTick
  <2> QED BY <1>1, <2>1, <2>2 DEF TicksStay
<1>9. ASSUME NEW p \in Proc, Dies(p)
      PROVE  TicksStay'
  <2>1. \A q \in Proc \ {p} : stage'[q] = stage[q] /\ at'[q] = at[q]
    BY <1>1, <1>9, GotoTyped DEF Dies, Stage, TypeOK
  <2>2. /\ ticks' = ticks /\ due' = due /\ torn \subseteq torn'
        /\ stage[p] = "adding" => at[p] \in torn'
    BY <1>9 DEF Dies
  <2> QED BY <1>1, <2>1, <2>2 DEF TicksStay
<1>10. CASE (\E p \in Proc, c \in Company : CreateCompany(p, c)) \/ Keys
  BY <1>2, <1>10 DEF CreateCompany, Keys, Encrypt, Configure, Retire, tickVars
<1>11. CASE UNCHANGED vars
  BY <1>2, <1>11 DEF vars, tickVars
<1> QED BY <1>4, <1>5, <1>6, <1>7, <1>8, <1>9, <1>10, <1>11 DEF Next, Main, Tick

-----------------------------------------------------------------------------
(* The keys.                                                               *)

LEMMA EncryptKeyInv ==
  ASSUME IInv, NEW p \in Proc, NEW d \in Device, Encrypt(p, d)
  PROVE  KeyInv'
<1>1. TypeOK /\ CredentialsStayReadable /\ ActiveKnown
  BY DEF IInv, KeyInv
<1>2. PICK v \in DOMAIN ring[p] :
        /\ IsActive(ring[p], v)
        /\ blob' = [blob EXCEPT ![d] = [ver |-> v, key |-> ring[p][v]]]
  BY DEF Encrypt
<1>3. v \in Version
  BY <1>1, RingDomain DEF TypeOK
<1>4. v \in DOMAIN Keyring(env) /\ Keyring(env)[v] = ring[p][v]
  BY <1>1, <1>2, <1>3 DEF ActiveKnown
<1>5. env' = env /\ ring' = ring
  BY DEF Encrypt
<1>6. /\ blob'[d] = [ver |-> v, key |-> ring[p][v]]
      /\ \A e \in Device \ {d} : blob'[e] = blob[e]
  BY <1>1, <1>2 DEF TypeOK
<1>7. Readable(blob'[d], Keyring(env))
  BY <1>4, <1>6 DEF Readable
<1>8. CredentialsStayReadable'
  BY <1>1, <1>5, <1>6, <1>7 DEF CredentialsStayReadable
<1>9. ActiveKnown'
  BY <1>1, <1>5 DEF ActiveKnown
<1> QED BY <1>8, <1>9 DEF KeyInv

LEMMA ConfigureKeyInv ==
  ASSUME IInv, NEW k \in Key, NEW v \in Version \cup {0}, Configure(k, v)
  PROVE  KeyInv'
<1>1. TypeOK /\ CredentialsStayReadable /\ ActiveKnown
  BY DEF IInv, KeyInv
<1>2. \A w \in DOMAIN Keyring(env) :
        w \in DOMAIN Keyring(env') /\ Keyring(env')[w] = Keyring(env)[w]
  BY <1>1, ConfigureExtends
<1>3. ring' = ring /\ blob' = blob
  BY DEF Configure
<1>4. CredentialsStayReadable'
  BY <1>1, <1>2, <1>3 DEF CredentialsStayReadable, Readable
<1>5. ActiveKnown'
  BY <1>1, <1>2, <1>3 DEF ActiveKnown
<1> QED BY <1>4, <1>5 DEF KeyInv

LEMMA RetireKeyInv ==
  ASSUME IInv, NEW v \in Version, Retire(v)
  PROVE  KeyInv'
<1>1. TypeOK /\ CredentialsStayReadable /\ ActiveKnown
  BY DEF IInv, KeyInv
<1>2. \A w \in DOMAIN Keyring(env) \ {v} :
        w \in DOMAIN Keyring(env') /\ Keyring(env')[w] = Keyring(env)[w]
  BY <1>1, RetireDropsOne
<1>3. /\ ring' = ring /\ blob' = blob
      /\ \A d \in Device : blob[d].ver # v
      /\ \A p \in Proc : ~IsActive(ring[p], v)
  BY DEF Retire
<1>4. CredentialsStayReadable'
  BY <1>1, <1>2, <1>3 DEF CredentialsStayReadable, Readable
<1>5. ActiveKnown'
  <2> SUFFICES ASSUME NEW p \in Proc, NEW w \in Version, IsActive(ring[p], w)
               PROVE  w \in DOMAIN Keyring(env') /\ Keyring(env')[w] = ring[p][w]
    BY <1>3 DEF ActiveKnown
  <2>1. w # v
    BY <1>3
  <2> QED BY <1>1, <1>2, <2>1 DEF ActiveKnown
<1> QED BY <1>4, <1>5 DEF KeyInv

LEMMA KeyStep ==
  ASSUME IInv, [Next]_vars
  PROVE  KeyInv'
<1>1. TypeOK /\ CredentialsStayReadable /\ ActiveKnown
  BY DEF IInv, KeyInv
<1>2. ASSUME UNCHANGED <<env, blob>>,
             \A p \in Proc : ring'[p] \in {ring[p], NoRing, Keyring(env)}
      PROVE  KeyInv'
  <2>1. CredentialsStayReadable'
    BY <1>1, <1>2 DEF CredentialsStayReadable
  <2>2. ASSUME NEW p \in Proc, NEW v \in Version, IsActive(ring'[p], v)
        PROVE  v \in DOMAIN Keyring(env) /\ Keyring(env)[v] = ring'[p][v]
    <3>1. CASE ring'[p] = ring[p]
      BY <1>1, <2>2, <3>1 DEF ActiveKnown
    <3>2. CASE ring'[p] = NoRing
      BY <2>2, <3>2 DEF IsActive, NoRing
    <3>3. CASE ring'[p] = Keyring(env)
      BY <2>2, <3>3 DEF IsActive
    <3> QED BY <1>2, <3>1, <3>2, <3>3
  <2>3. ActiveKnown'
    BY <1>2, <2>2 DEF ActiveKnown
  <2> QED BY <2>1, <2>3 DEF KeyInv
<1>3. ASSUME UNCHANGED keyVars
      PROVE  KeyInv'
  BY <1>2, <1>3 DEF keyVars
<1>4. CASE \E p \in Proc : Start(p)
  BY <1>1, <1>2, <1>4 DEF Start, TypeOK
<1>5. CASE \E p \in Proc : Migrate(p)
  <2>1. CASE \E p \in Proc, f \in File : FileClashes(p, f)
    BY <1>1, <1>2, <2>1 DEF FileClashes, TypeOK
  <2>2. CASE \E p \in Proc : \/ CreateTable(p) \/ ListApplied(p)
                             \/ \E f \in File : RunFile(p, f) \/ CommitFile(p, f)
    BY <1>3, <2>2 DEF CreateTable, ListApplied, RunFile, CommitFile
  <2> QED BY <1>5, <2>1, <2>2 DEF Migrate
<1>6. CASE \E p \in Proc : Serve(p) \/ Tick(p)
  BY <1>3, <1>6 DEF Serve, Tick, ScheduleScan, ListCompanies, FindTick, RemoveTick,
                    AddTick, WorkerReady
<1>7. CASE \E p \in Proc : Dies(p)
  BY <1>1, <1>2, <1>7 DEF Dies, TypeOK
<1>8. CASE \E p \in Proc, c \in Company : CreateCompany(p, c)
  BY <1>3, <1>8 DEF CreateCompany
<1>9. CASE Keys
  BY <1>9, EncryptKeyInv, ConfigureKeyInv, RetireKeyInv DEF Keys
<1>10. CASE UNCHANGED vars
  BY <1>3, <1>10 DEF vars
<1> QED BY <1>4, <1>5, <1>6, <1>7, <1>8, <1>9, <1>10 DEF Next, Main

-----------------------------------------------------------------------------
LEMMA Invariant == Spec => []IInv
<1>1. IInv /\ [Next]_vars => IInv'
  BY NextTyped, MigrationsStep, TicksStep, KeyStep DEF IInv
<1> QED BY <1>1, InitIInv, PTL DEF Spec

\* Every reachable state of the processes, the database's migrations, the
\* repeatable jobs and the keys has its type, for any number of each.
THEOREM DeploymentTypeCorrect == Spec => []TypeOK
<1>1. IInv => TypeOK
  BY DEF IInv
<1> QED BY <1>1, Invariant, PTL

\* runMigrations: however many processes run it at once, and wherever they
\* clash or die, _migrations names exactly the files whose effects are there,
\* in their order, and main goes on only with all of them applied.
THEOREM MigrationsAlwaysAgree == Spec => []MigrationsAgree
<1>1. IInv => MigrationsAgree
  BY DEF IInv
<1> QED BY <1>1, Invariant, PTL

\* scheduleCompanyTick: workers that boot together lose no company's tick.
THEOREM TicksAlwaysStay == Spec => []TicksStay
<1>1. IInv => TicksStay
  BY DEF IInv
<1> QED BY <1>1, Invariant, PTL

\* EnvKeyProvider and the vault: while operators keep to the rules of the
\* comments, a process that starts now decrypts every stored credential.
THEOREM CredentialsAlwaysReadable == Spec => []CredentialsStayReadable
<1>1. IInv => CredentialsStayReadable
  BY DEF IInv, KeyInv
<1> QED BY <1>1, Invariant, PTL
=============================================================================
