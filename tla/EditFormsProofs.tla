-------------------------- MODULE EditFormsProofs --------------------------
(***************************************************************************)
(* For any number of sites, devices, forms and other writers: a form that  *)
(* is saving waits for exactly one request, a press of "Create" creates at *)
(* most once, and a save that was up to date changes what was touched.     *)
(***************************************************************************)
EXTENDS EditForms, FiniteSetTheorems, TLAPS

-----------------------------------------------------------------------------
(* The inductive invariants, each of which rests on those before it.       *)

Field    == {"name", "tz", "addr", "port", "enabled", "user", "pass"}
RowState == {"unborn", "live", "deleted"}
SiteRow  == [name : Text, tz : Text]
SiteData == [name : Values, tz : Values]
DevData  == [addr : Values, port : Ports, enabled : BOOLEAN, user : Values,
             pass : Values]
AddData  == [kind : {"site", "unit"}, site : Site \cup {"new"}]
DevRow   == [site : Site, addr : Text, port : Ports, enabled : BOOLEAN,
             user : Values, pass : Values]
Data     == {<<>>} \cup SiteData \cup DevData \cup AddData
FormRow  == [no : Nat, target : Site \cup Device, data : Data,
             touched : SUBSET Field, fresh : BOOLEAN, saving : BOOLEAN]

\* A form in place p, or one that was sent from there.
MayBe(p, f) ==
  /\ p = "site"                => f.target \in Site /\ f.data \in SiteData
  /\ p = "dropSite"            => f.target \in Site
  /\ p = "dev"                 => f.target \in Device /\ f.data \in DevData
  /\ p = "dropDev"             => f.target \in Device
  /\ p = "add"                 => f.target \in Site /\ f.data \in AddData

Ops(p) == CASE p = "site" -> {"patchSite"} [] p = "dropSite" -> {"deleteSite"}
            [] p = "dev" -> {"patchDevice"} [] p = "dropDev" -> {"deleteDevice"}
            [] OTHER -> {"createSite", "createDevice"}

Request ==
  {r \in [place : Place, form : FormRow, panel : Nat,
          op : UNION {Ops(p) : p \in Place},
          stage : {"sent", "ok", "error"}, twin : Nat] :
     /\ r.form.no # 0 /\ r.op \in Ops(r.place) /\ MayBe(r.place, r.form)
     /\ Complete(r.place, r.form.data)}

RowsTyped ==
  /\ site \in [Site -> [state : RowState, row : SiteRow]]
  /\ dev \in [Device -> [state : RowState, row : DevRow]]

ShownTyped ==
  /\ DOMAIN shown.sites \subseteq Site /\ DOMAIN shown.devs \subseteq Device
  /\ \A s \in DOMAIN shown.sites : shown.sites[s] \in SiteRow
  /\ \A d \in DOMAIN shown.devs : /\ shown.devs[d] \in DevRow
                                  /\ shown.devs[d].enabled
                                  /\ dev[d].state # "unborn"

FormsTyped ==
  /\ form \in [Place -> FormRow]
  /\ \A p \in Place : form[p].no # 0 => MayBe(p, form[p])

ScreenTyped ==
  /\ panel \in [no : Nat, site : Site, copy : SiteRow \cup {<<>>},
                fresh : BOOLEAN]
  /\ screen \in {"grid", "panel", "modal"}
  /\ screen = "panel" => panel.copy \in SiteRow

\* What is mounted belongs to what is open.
OnScreen ==
  /\ \A p \in Place \ {"add"} : form[p].no # 0 => screen = "panel"
  /\ form["add"].no # 0 => screen = "modal"

\* Numbers are used once.
Numbered ==
  /\ next \in 1 .. MaxForms + 1 /\ others \in 0 .. MaxForms /\ tries \in Nat
  /\ panel.no < next
  /\ \A p \in Place : form[p].no < next
  /\ \A r \in net : r.form.no < next

NetTyped == net \subseteq Request /\ IsFiniteSet(net)

WellTyped ==
  /\ RowsTyped /\ ShownTyped /\ FormsTyped /\ ScreenTyped
  /\ OnScreen /\ Numbered /\ NetTyped

\* A request is its form's only one; a form has one just when it is saving;
\* and its panel is the one it was sent from.
Pending ==
  /\ \A r, q \in net : r.place = q.place /\ r.form.no = q.form.no => r = q
  /\ \A p \in Place : form[p].no # 0 =>
       (form[p].saving <=> \E r \in net : r.place = p /\ r.form.no = form[p].no)
  /\ \A r \in net : r.place \in {"site", "dev", "dropDev"} /\ form[r.place].no = r.form.no
       => panel.no = r.panel

\* What a copy that is up to date holds in the fields nobody touched.
SiteCopy(f, row) ==
  f.fresh => \A x \in {"name", "tz"} \ f.touched : f.data[x] = row[x]
DevCopy(f, d) ==
  /\ d.state # "unborn"
  /\ f.fresh => /\ \A x \in {"addr", "enabled"} \ f.touched : f.data[x] = d.row[x]
                /\ "port" \notin f.touched => f.data.port = FilledIn(d.row.port)
  /\ f.touched \cap {"user", "pass"} = {} => f.data.user = "" /\ f.data.pass = ""

SiteMatches(f) == SiteCopy(f, site[f.target].row)
DevMatches(f)  == DevCopy(f, dev[f.target])

UpToDate ==
  /\ screen = "panel" /\ panel.fresh => panel.copy = site[panel.site].row
  /\ form["site"].no # 0 => SiteMatches(form["site"])
  /\ form["dev"].no # 0 => DevMatches(form["dev"])
  /\ \A r \in net : /\ r.place = "site" => SiteMatches(r.form)
                    /\ r.place = "dev"  => DevMatches(r.form)

\* The presses of "Create" that may still create, and what they created.
Pressable    == IF form["add"].no # 0 /\ ~form["add"].saving THEN 1 ELSE 0
SitePresses  == {r \in net : r.place = "add" /\ r.op = "createSite" /\ r.stage = "sent"}
UnitPresses  == {r \in net : r.place = "add" /\ \/ r.stage = "sent"
                                                \/ r.stage = "ok" /\ r.op = "createSite"}
NewSites     == {s \in Site \ {Home} : site[s].state # "unborn"}
NewDevices   == {d \in Device \ {Camera} : dev[d].state # "unborn"}

Counted ==
  /\ IsFiniteSet(NewSites) /\ IsFiniteSet(NewDevices)
  /\ Cardinality(NewSites) + Cardinality(SitePresses) + Pressable <= tries
  /\ Cardinality(NewDevices) + Cardinality(UnitPresses) + Pressable <= tries

-----------------------------------------------------------------------------
(* Types.                                                                  *)

LEMMA Bounds == MaxForms \in Nat
BY FormsAssumption

LEMMA Trimmed ==
  /\ \A t \in Values : Trim[t] \in Values
  /\ \A t \in Values : Trim[t] # "" => Trim[t] \in Text
BY FormsAssumption DEF Values

LEMMA FilledInType == ASSUME NEW port \in Ports PROVE FilledIn(port) \in Ports
BY FormsAssumption DEF Ports, FilledIn

LEMMA RowIsData == SiteRow \subseteq SiteData
BY DEF SiteRow, SiteData, Values

LEMMA UnmountedRow == Unmounted \in FormRow /\ Unmounted.no = 0
BY FormsAssumption DEF Unmounted, FormRow, Data

LEMMA InitWellTyped == Init => WellTyped
<1> SUFFICES ASSUME Init PROVE WellTyped
  OBVIOUS
<1>1. /\ "old" \in Text /\ " old" \in Text /\ Home \in Site /\ Camera \in Device
      /\ "80" \in Port
  BY FormsAssumption
<1> DEFINE home   == [SiteDefaults EXCEPT !.name = " old"]
           camera == [NewRow(Home) EXCEPT !.addr = " old", !.port = ""]
<1>2. /\ SiteDefaults \in SiteRow /\ home \in SiteRow
      /\ NewRow(Home) \in DevRow /\ camera \in DevRow
  BY <1>1 DEF SiteDefaults, SiteRow, NewRow, DevRow, Values, Ports
<1>3. RowsTyped
  <2>1. /\ site = [s \in Site |-> [state |-> IF s = Home THEN "live" ELSE "unborn",
                                   row |-> IF s = Home THEN home ELSE SiteDefaults]]
        /\ dev = [d \in Device |-> [state |-> IF d = Camera THEN "live" ELSE "unborn",
                                    row |-> IF d = Camera THEN camera ELSE NewRow(Home)]]
    BY DEF Init
  <2> HIDE DEF home, camera
  <2> QED BY <1>2, <2>1 DEF RowsTyped, RowState
<1>4. ShownTyped
  BY <1>3 DEF Init, ShownTyped, RowsTyped, Listed, LiveSites, LiveDevices, Listable
<1>5. FormsTyped
  BY UnmountedRow DEF Init, FormsTyped, NoForms
<1>6. ScreenTyped
  BY <1>1 DEF Init, ScreenTyped, NoPanel
<1>7. OnScreen
  BY UnmountedRow DEF Init, OnScreen, NoForms, Place
<1>8. Numbered
  <2>1. \A p \in Place : form[p].no = 0
    BY UnmountedRow DEF Init, NoForms
  <2>2. panel.no = 0 /\ next = 1 /\ others = 0 /\ tries = 0 /\ net = {}
    BY DEF Init, NoPanel
  <2> QED BY <2>1, <2>2, Bounds, FS_EmptySet DEF Numbered
<1>9. NetTyped
  BY FS_EmptySet DEF Init, NetTyped
<1> QED BY <1>3, <1>4, <1>5, <1>6, <1>7, <1>8, <1>9 DEF WellTyped

\* A reload lists live rows.
LEMMA ListedTyped ==
  ASSUME RowsTyped
  PROVE  /\ DOMAIN Listed.sites \subseteq Site /\ DOMAIN Listed.devs \subseteq Device
         /\ \A s \in DOMAIN Listed.sites : Listed.sites[s] \in SiteRow
         /\ \A d \in DOMAIN Listed.devs : /\ Listed.devs[d] \in DevRow
                                          /\ Listed.devs[d].enabled
                                          /\ dev[d].state # "unborn"
BY DEF RowsTyped, Listed, LiveSites, LiveDevices, Listable

\* A form is mounted in place p.
LEMMA MountTypes ==
  ASSUME WellTyped, NEW p \in Place, NEW target \in Site \cup Device, NEW data \in Data,
         NEW fresh \in BOOLEAN, Room,
         next' = next + 1,
         form' = [form EXCEPT ![p] = Mounted(target, data, fresh)],
         MayBe(p, Mounted(target, data, fresh))
  PROVE  /\ FormsTyped'
         /\ next' \in 1 .. MaxForms + 1 /\ \A q \in Place : form'[q].no < next'
         /\ \A q \in Place \ {p} : form'[q] = form[q]
         /\ form'[p] = Mounted(target, data, fresh) /\ form'[p].no = next
<1> DEFINE m == Mounted(target, data, fresh)
<1>1. next \in Nat /\ next \in 1 .. MaxForms + 1 /\ others \in Nat /\ MaxForms \in Nat
  BY Bounds DEF WellTyped, Numbered
<1>2. /\ m = [no |-> next, target |-> target, data |-> data, touched |-> {},
              fresh |-> fresh, saving |-> FALSE]
      /\ m \in FormRow
  <2>1. m = [no |-> next, target |-> target, data |-> data, touched |-> {},
             fresh |-> fresh, saving |-> FALSE]
    BY DEF Mounted
  <2>2. {} \in SUBSET Field /\ FALSE \in BOOLEAN
    OBVIOUS
  <2> HIDE DEF m
  <2> QED BY <1>1, <2>1, <2>2 DEF FormRow
<1>3. MayBe(p, m)
  OBVIOUS
<1>4. form \in [Place -> FormRow]
  BY DEF WellTyped, FormsTyped
<1> HIDE DEF m
<1>5. form' = [form EXCEPT ![p] = m] /\ form' \in [Place -> FormRow]
  BY <1>2, <1>4 DEF m
<1>6. \A q \in Place \ {p} : form'[q] = form[q]
  BY <1>4, <1>5
<1>7. form'[p] = m
  BY <1>4, <1>5
<1>8. FormsTyped'
  BY <1>3, <1>5, <1>6, <1>7 DEF WellTyped, FormsTyped
<1>9. next + 1 \in 1 .. MaxForms + 1
  BY <1>1 DEF Room
<1>10. \A q \in Place : form[q].no < next /\ form[q].no \in Nat
  BY <1>4 DEF WellTyped, Numbered, FormRow
<1>11. \A q \in Place : form'[q].no < next'
  BY <1>1, <1>2, <1>6, <1>7, <1>10
<1> QED BY <1>2, <1>6, <1>7, <1>8, <1>9, <1>11 DEF m

\* Forms stay as they are or go.
LEMMA UnmountTypes ==
  ASSUME WellTyped, next' = next, NEW U,
         form' = [q \in Place |-> IF q \in U THEN Unmounted ELSE form[q]]
  PROVE  /\ FormsTyped'
         /\ \A q \in Place : /\ form'[q].no < next'
                             /\ form'[q] = form[q] \/ form'[q].no = 0
<1>1. \A q \in Place : form[q] \in FormRow /\ form[q].no < next /\ next \in Nat /\ 0 < next
  BY Bounds DEF WellTyped, FormsTyped, Numbered
<1>2. \A q \in Place : form'[q] \in {form[q], Unmounted}
  OBVIOUS
<1>3. form' \in [Place -> FormRow]
  BY <1>1, UnmountedRow
<1>4. \A q \in Place : form'[q].no < next' /\ (form'[q] = form[q] \/ form'[q].no = 0)
  BY <1>1, <1>2, UnmountedRow
<1>5. ASSUME NEW q \in Place, form'[q].no # 0 PROVE MayBe(q, form'[q])
  BY <1>2, <1>5, UnmountedRow DEF WellTyped, FormsTyped
<1> QED BY <1>3, <1>4, <1>5 DEF FormsTyped

\* One form changes, but not its number.
LEMMA ChangeTypes ==
  ASSUME WellTyped, next' = next, NEW p \in Place, NEW f \in FormRow,
         f.no = form[p].no, f.no # 0 => MayBe(p, f),
         form' = [form EXCEPT ![p] = f]
  PROVE  /\ FormsTyped'
         /\ \A q \in Place : form'[q].no = form[q].no /\ form'[q].no < next'
<1>1. \A q \in Place : form'[q] = IF q = p THEN f ELSE form[q]
  BY DEF WellTyped, FormsTyped
<1>2. form' \in [Place -> FormRow]
  BY DEF WellTyped, FormsTyped
<1> QED BY <1>1, <1>2 DEF WellTyped, FormsTyped, Numbered

-----------------------------------------------------------------------------
(* Requests.                                                               *)

LEMMA RequestFields ==
  ASSUME NEW r \in Request
  PROVE  /\ r.place \in Place /\ r.form \in FormRow /\ r.panel \in Nat /\ r.op \in Ops(r.place)
         /\ r.stage \in {"sent", "ok", "error"} /\ r.twin \in Nat /\ r.form.no # 0
         /\ MayBe(r.place, r.form) /\ Complete(r.place, r.form.data)
BY DEF Request

LEMMA Answered ==
  ASSUME NEW r \in Request, NEW stage \in {"sent", "ok", "error"}
  PROVE  /\ [r EXCEPT !.stage = stage] \in Request
         /\ [r EXCEPT !.stage = stage].place = r.place
         /\ [r EXCEPT !.stage = stage].form = r.form
         /\ [r EXCEPT !.stage = stage].panel = r.panel
         /\ [r EXCEPT !.stage = stage].op = r.op
         /\ [r EXCEPT !.stage = stage].stage = stage
BY DEF Request

LEMMA WentOn ==
  ASSUME NEW r \in Request, r.op = "createSite"
  PROVE  LET x == [r EXCEPT !.op = "createDevice", !.stage = "sent"]
         IN  x \in Request /\ x.place = r.place /\ x.form = r.form /\ x.panel = r.panel
             /\ x.op = "createDevice" /\ x.stage = "sent"
<1> DEFINE x == [r EXCEPT !.op = "createDevice", !.stage = "sent"]
<1>1. r.place \in Place /\ r.op \in Ops(r.place)
  BY RequestFields
<1>2. r.place = "add"
  BY <1>1 DEF Ops, Place
<1>3. "createDevice" \in Ops("add") /\ "add" \in Place
  BY DEF Ops, Place
<1> QED BY <1>2, <1>3 DEF Request

LEMMA GotSite ==
  ASSUME NEW r \in Request, r.op = "createSite", NEW s \in Site
  PROVE  LET x == [r EXCEPT !.stage = "ok", !.form.target = s]
         IN  x \in Request /\ x.place = r.place /\ x.form.no = r.form.no /\ x.panel = r.panel
             /\ x.op = "createSite" /\ x.stage = "ok"
<1> DEFINE x == [r EXCEPT !.stage = "ok", !.form.target = s]
           g == [r.form EXCEPT !.target = s]
<1>1. /\ r.place \in Place /\ r.form \in FormRow /\ r.op \in Ops(r.place)
      /\ MayBe(r.place, r.form) /\ r.form.no # 0 /\ Complete(r.place, r.form.data)
  BY RequestFields
<1>2. r.place = "add"
  BY <1>1 DEF Ops, Place
<1>3. g \in FormRow /\ g.no = r.form.no /\ g.target = s /\ g.data = r.form.data
  BY <1>1 DEF FormRow
<1>4. MayBe("add", g)
  BY <1>1, <1>2, <1>3 DEF MayBe
<1> HIDE DEF g
<1>5. x = [r EXCEPT !.stage = "ok", !.form = g]
  BY DEF Request, g
<1> QED BY <1>1, <1>2, <1>3, <1>4, <1>5 DEF Request

\* A request whose copy has been overtaken.
LEMMA Overtaken ==
  ASSUME NEW r \in Request
  PROVE  LET x == [r EXCEPT !.form.fresh = FALSE]
         IN  /\ x \in Request /\ x.place = r.place /\ x.panel = r.panel
             /\ x.op = r.op /\ x.stage = r.stage /\ x.form = [r.form EXCEPT !.fresh = FALSE]
             /\ x.form.no = r.form.no
<1> DEFINE x == [r EXCEPT !.form.fresh = FALSE]
           g == [r.form EXCEPT !.fresh = FALSE]
<1>1. /\ r.form \in FormRow /\ MayBe(r.place, r.form) /\ r.form.no # 0
      /\ Complete(r.place, r.form.data)
  BY RequestFields
<1>2. g \in FormRow /\ g.no = r.form.no /\ g.target = r.form.target /\ g.data = r.form.data
  BY <1>1 DEF FormRow
<1>3. MayBe(r.place, g)
  BY <1>1, <1>2 DEF MayBe
<1>4. x = [r EXCEPT !.form = [r.form EXCEPT !.fresh = FALSE]]
  BY DEF Request
<1>5. x = [r EXCEPT !.form = g]
  BY <1>4
<1> HIDE DEF g, x
<1>6. /\ x \in Request /\ x.place = r.place /\ x.panel = r.panel
      /\ x.op = r.op /\ x.stage = r.stage /\ x.form = g
  BY <1>1, <1>2, <1>3, <1>5 DEF Request
<1> QED BY <1>2, <1>6 DEF g, x

\* One request takes the place of another.
LEMMA SwapTypes ==
  ASSUME WellTyped, NEW r \in net, NEW x \in Request, net' = (net \ {r}) \cup {x},
         x.form.no = r.form.no, next' = next
  PROVE  NetTyped' /\ \A q \in net' : q.form.no < next'
<1>1. IsFiniteSet(net \ {r})
  BY FS_RemoveElement DEF WellTyped, NetTyped
<1>2. IsFiniteSet(net')
  BY <1>1, FS_AddElement
<1> QED BY <1>2 DEF WellTyped, NetTyped, Numbered

LEMMA RemoveTypes ==
  ASSUME WellTyped, NEW r \in net, net' = net \ {r}, next' = next
  PROVE  NetTyped' /\ \A q \in net' : q.form.no < next'
BY FS_RemoveElement DEF WellTyped, NetTyped, Numbered

\* The request after a write by somebody else to what its form is about.
Later(r, places, id) == IF r.place \in places /\ r.form.target = id
                        THEN [r EXCEPT !.form.fresh = FALSE] ELSE r

LEMMA LaterFields ==
  ASSUME NEW r \in Request, NEW places, NEW id
  PROVE  LET x == Later(r, places, id)
         IN  /\ x \in Request /\ x.place = r.place /\ x.form.no = r.form.no
             /\ x.panel = r.panel /\ x.op = r.op /\ x.stage = r.stage
             /\ x.form \in {r.form, [r.form EXCEPT !.fresh = FALSE]}
             /\ r.place \notin places => x = r
BY Overtaken DEF Later

LEMMA OutdatedRequests ==
  ASSUME NEW rs \in SUBSET Request, IsFiniteSet(rs), NEW places, NEW id
  PROVE  LET o == OutdateRequests(rs, places, id)
         IN  /\ o \subseteq Request /\ IsFiniteSet(o)
             /\ \A x \in o : \E r \in rs : x = Later(r, places, id)
             /\ \A r \in rs : Later(r, places, id) \in o
<1> DEFINE f == [r \in rs |-> Later(r, places, id)]
           o == OutdateRequests(rs, places, id)
<1>1. o = {Later(r, places, id) : r \in rs}
  BY DEF OutdateRequests, Later
<1>2. \A r \in rs : Later(r, places, id) \in Request
  BY LaterFields
<1>3. IsFiniteSet(o)
  <2>1. f \in Surjection(rs, o)
    BY <1>1 DEF Surjection
  <2> QED BY <2>1, FS_Surjection
<1> HIDE DEF f, o
<1>4. /\ o \subseteq Request
      /\ \A x \in o : \E r \in rs : x = Later(r, places, id)
      /\ \A r \in rs : Later(r, places, id) \in o
  BY <1>1, <1>2
<1> QED BY <1>3, <1>4 DEF o

\* The copies on screen after such a write.
LEMMA OutdatedScreen ==
  ASSUME WellTyped, NEW places, NEW id, Outdate(places, id), next' = next,
         screen' = screen
  PROVE  /\ FormsTyped' /\ ScreenTyped' /\ OnScreen'
         /\ \A q \in Place :
              /\ form'[q].no = form[q].no /\ form'[q].no < next'
              /\ form'[q].saving = form[q].saving
              /\ form'[q] = IF q \in places /\ form[q].target = id
                            THEN [form[q] EXCEPT !.fresh = FALSE] ELSE form[q]
         /\ panel'.no = panel.no /\ panel'.no < next'
         /\ panel'.site = panel.site /\ panel'.copy = panel.copy
         /\ panel' = IF "site" \in places /\ panel.site = id
                     THEN [panel EXCEPT !.fresh = FALSE] ELSE panel
<1>1. \A q \in Place : form[q] \in FormRow
  BY DEF WellTyped, FormsTyped
<1>2. \A f \in FormRow : LET g == [f EXCEPT !.fresh = FALSE]
                         IN  /\ g \in FormRow /\ g.no = f.no /\ g.saving = f.saving
                             /\ g.target = f.target /\ g.data = f.data
  BY DEF FormRow
<1>3. \A q \in Place : form'[q] = IF q \in places /\ form[q].target = id
                                  THEN [form[q] EXCEPT !.fresh = FALSE] ELSE form[q]
  BY DEF Outdate
<1>4. \A q \in Place : /\ form'[q] \in FormRow /\ form'[q].no = form[q].no
                       /\ form'[q].saving = form[q].saving
                       /\ form'[q].target = form[q].target /\ form'[q].data = form[q].data
  BY <1>1, <1>2, <1>3
<1>5. form' \in [Place -> FormRow]
  BY <1>4 DEF Outdate
<1>6. \A q \in Place : MayBe(q, form[q]) => MayBe(q, form'[q])
  BY <1>4 DEF MayBe
<1>7. FormsTyped'
  BY <1>4, <1>5, <1>6 DEF WellTyped, FormsTyped
<1>8. /\ panel' \in [no : Nat, site : Site, copy : SiteRow \cup {<<>>}, fresh : BOOLEAN]
      /\ panel'.no = panel.no /\ panel'.site = panel.site /\ panel'.copy = panel.copy
      /\ panel' = IF "site" \in places /\ panel.site = id
                  THEN [panel EXCEPT !.fresh = FALSE] ELSE panel
  <2>1. panel \in [no : Nat, site : Site, copy : SiteRow \cup {<<>>}, fresh : BOOLEAN]
    BY DEF WellTyped, ScreenTyped
  <2>2. panel' = IF "site" \in places /\ panel.site = id
                 THEN [panel EXCEPT !.fresh = FALSE] ELSE panel
    BY DEF Outdate
  <2> QED BY <2>1, <2>2
<1>9. ScreenTyped' /\ OnScreen'
  BY <1>4, <1>8 DEF WellTyped, ScreenTyped, OnScreen, Place
<1>10. \A q \in Place : form'[q].no < next'
  BY <1>4 DEF WellTyped, Numbered
<1>11. panel'.no < next'
  BY <1>8 DEF WellTyped, Numbered
<1> QED BY <1>3, <1>4, <1>7, <1>8, <1>9, <1>10, <1>11

-----------------------------------------------------------------------------
(* What the operator does keeps the types.                                 *)

LEMMA SameTypes ==
  ASSUME WellTyped
  PROVE  /\ UNCHANGED <<site, dev>> => RowsTyped'
         /\ UNCHANGED <<shown, dev>> => ShownTyped'
         /\ UNCHANGED <<panel, screen>> => ScreenTyped'
         /\ UNCHANGED net => NetTyped'
BY DEF WellTyped, RowsTyped, ShownTyped, ScreenTyped, NetTyped

LEMMA SelectSiteTypes ==
  ASSUME WellTyped, NEW s \in Site, SelectSite(s)
  PROVE  WellTyped'
<1>1. UNCHANGED <<site, dev, shown, form, net, others, tries>>
  BY DEF SelectSite, rowVars
<1>2. next \in Nat /\ next \in 1 .. MaxForms + 1 /\ others \in Nat /\ MaxForms \in Nat
  BY Bounds DEF WellTyped, Numbered
<1>3. next' \in 1 .. MaxForms + 1 /\ next' = next + 1
  BY <1>2 DEF SelectSite, Room
<1>4. shown.sites[s] \in SiteRow
  BY DEF SelectSite, WellTyped, ShownTyped
<1>5. panel' = [no |-> next, site |-> s, copy |-> shown.sites[s],
                fresh |-> shown.sites[s] = site[s].row]
  BY DEF SelectSite
<1>6. (shown.sites[s] = site[s].row) \in BOOLEAN
  OBVIOUS
<1>7. /\ panel' \in [no : Nat, site : Site, copy : SiteRow \cup {<<>>}, fresh : BOOLEAN]
      /\ panel'.no = next /\ panel'.copy \in SiteRow
  BY <1>2, <1>4, <1>5, <1>6
<1>8. ScreenTyped'
  BY <1>7 DEF SelectSite, ScreenTyped
<1>9. FormsTyped' /\ OnScreen'
  BY <1>1 DEF SelectSite, WellTyped, FormsTyped, OnScreen
<1>10. Numbered'
  <2>1. \A p \in Place : form[p].no \in Nat /\ form[p].no < next
    BY DEF WellTyped, Numbered, FormsTyped, FormRow
  <2>2. \A r \in net : r.form.no \in Nat /\ r.form.no < next
    BY RequestFields DEF WellTyped, Numbered, NetTyped, FormRow
  <2> QED BY <1>1, <1>2, <1>3, <1>7, <2>1, <2>2 DEF WellTyped, Numbered
<1> QED BY <1>1, <1>8, <1>9, <1>10, SameTypes DEF WellTyped

\* Everything closes.
LEMMA CloseTypes ==
  ASSUME WellTyped, screen' = "grid", panel' = NoPanel, form' = NoForms, next' = next
  PROVE  /\ FormsTyped' /\ ScreenTyped' /\ OnScreen' /\ panel'.no < next'
         /\ \A p \in Place : form'[p].no = 0 /\ form'[p].no < next'
<1>1. next \in Nat /\ 0 < next
  BY Bounds DEF WellTyped, Numbered
<1>2. \A p \in Place : form'[p] = Unmounted
  BY DEF NoForms
<1>3. FormsTyped' /\ OnScreen'
  BY <1>2, UnmountedRow DEF FormsTyped, OnScreen, Place, NoForms
<1>4. ScreenTyped'
  BY FormsAssumption DEF ScreenTyped, NoPanel
<1>5. panel'.no < next'
  BY <1>1 DEF NoPanel
<1> QED BY <1>1, <1>2, <1>3, <1>4, <1>5, UnmountedRow

LEMMA CloseScreenTypes ==
  ASSUME WellTyped, CloseScreen
  PROVE  WellTyped'
<1>1. UNCHANGED <<site, dev, shown, next, net, others, tries>>
  BY DEF CloseScreen, rowVars
<1>2. FormsTyped' /\ ScreenTyped' /\ OnScreen' /\ panel'.no < next'
      /\ \A p \in Place : form'[p].no < next'
  BY <1>1, CloseTypes DEF CloseScreen
<1>3. Numbered'
  BY <1>1, <1>2 DEF WellTyped, Numbered
<1> QED BY <1>1, <1>2, <1>3, SameTypes DEF WellTyped

\* A form of the panel is mounted.
LEMMA MountKeepsTypes ==
  ASSUME WellTyped, NEW p \in Place \ {"add"}, NEW target \in Site \cup Device,
         NEW data \in Data, NEW fresh \in BOOLEAN,
         Mount(p, target, data, fresh), tries' = tries, screen = "panel",
         MayBe(p, Mounted(target, data, fresh))
  PROVE  WellTyped'
<1>1. UNCHANGED <<site, dev, shown, screen, panel, net, others, tries>>
  BY DEF Mount, rowVars
<1>2. /\ FormsTyped' /\ next' \in 1 .. MaxForms + 1 /\ next' = next + 1
      /\ \A q \in Place : form'[q].no < next'
      /\ \A q \in Place \ {p} : form'[q] = form[q]
  BY MountTypes DEF Mount
<1>3. OnScreen'
  BY <1>1, <1>2 DEF WellTyped, OnScreen, Place
<1>4. panel.no \in Nat /\ panel.no < next /\ next \in Nat
  BY Bounds DEF WellTyped, ScreenTyped, Numbered
<1>5. \A r \in net : r.form.no \in Nat /\ r.form.no < next
  BY RequestFields DEF WellTyped, Numbered, NetTyped, FormRow
<1>6. Numbered'
  BY <1>1, <1>2, <1>4, <1>5 DEF WellTyped, Numbered
<1> QED BY <1>1, <1>2, <1>3, <1>6, SameTypes DEF WellTyped

LEMMA DeviceFormData ==
  ASSUME WellTyped, NEW d \in Device, RowShown(d)
  PROVE  /\ DeviceForm(d) \in DevData /\ DeviceForm(d).user = "" /\ DeviceForm(d).pass = ""
         /\ DeviceForm(d).addr = shown.devs[d].addr
         /\ DeviceForm(d).enabled = shown.devs[d].enabled
         /\ DeviceForm(d).port = FilledIn(shown.devs[d].port)
<1>1. shown.devs[d] \in DevRow
  BY DEF RowShown, WellTyped, ShownTyped
<1>2. FilledIn(shown.devs[d].port) \in Ports
  BY <1>1, FilledInType DEF DevRow
<1> QED BY <1>1, <1>2 DEF DeviceForm, DevData, DevRow, Values

LEMMA EditTypes ==
  ASSUME WellTyped,
         \/ EditSite \/ AskDeleteSite
         \/ \E d \in Device : EditDevice(d) \/ AskDeleteDevice(d)
  PROVE  WellTyped'
<1>0. {"site", "dropSite", "dev", "dropDev"} \subseteq Place \ {"add"}
      /\ <<>> \in Data /\ FALSE \in BOOLEAN
  BY DEF Place, Data
<1>1. CASE EditSite
  <2>1. panel.site \in Site /\ panel.copy \in SiteRow /\ panel.fresh \in BOOLEAN
    BY <1>1 DEF EditSite, HeaderFree, WellTyped, ScreenTyped
  <2>2. MayBe("site", Mounted(panel.site, panel.copy, panel.fresh)) /\ panel.copy \in Data
    BY <2>1, RowIsData DEF MayBe, Mounted, Data
  <2>3. Mount("site", panel.site, panel.copy, panel.fresh) /\ tries' = tries /\ screen = "panel"
    BY <1>1 DEF EditSite, HeaderFree
  <2> QED BY <1>0, <2>1, <2>2, <2>3, MountKeepsTypes
<1>2. CASE AskDeleteSite
  <2>1. panel.site \in Site
    BY DEF WellTyped, ScreenTyped
  <2>2. MayBe("dropSite", Mounted(panel.site, <<>>, FALSE))
    BY <2>1 DEF MayBe, Mounted
  <2>3. Mount("dropSite", panel.site, <<>>, FALSE) /\ tries' = tries /\ screen = "panel"
    BY <1>2 DEF AskDeleteSite, HeaderFree
  <2> QED BY <1>0, <2>1, <2>2, <2>3, MountKeepsTypes
<1>3. ASSUME NEW d \in Device, EditDevice(d) PROVE WellTyped'
  <2> DEFINE fresh == shown.devs[d] = dev[d].row
  <2>1. DeviceForm(d) \in DevData /\ fresh \in BOOLEAN
    BY <1>3, DeviceFormData DEF EditDevice
  <2> HIDE DEF fresh
  <2>2. MayBe("dev", Mounted(d, DeviceForm(d), fresh)) /\ DeviceForm(d) \in Data
    BY <2>1 DEF MayBe, Mounted, Data
  <2>3. Mount("dev", d, DeviceForm(d), fresh) /\ tries' = tries /\ screen = "panel"
    BY <1>3 DEF EditDevice, RowShown, fresh
  <2> QED BY <1>0, <2>1, <2>2, <2>3, MountKeepsTypes
<1>4. ASSUME NEW d \in Device, AskDeleteDevice(d) PROVE WellTyped'
  <2>1. MayBe("dropDev", Mounted(d, <<>>, FALSE))
    BY DEF MayBe, Mounted
  <2>2. Mount("dropDev", d, <<>>, FALSE) /\ tries' = tries /\ screen = "panel"
    BY <1>4 DEF AskDeleteDevice, RowShown
  <2> QED BY <1>0, <2>1, <2>2, MountKeepsTypes
<1> QED BY <1>1, <1>2, <1>3, <1>4

LEMMA OpenAddTypes ==
  ASSUME WellTyped, NEW data \in AddForms, OpenAdd(data)
  PROVE  WellTyped'
<1>1. UNCHANGED <<site, dev, shown, net, others>>
  BY DEF OpenAdd, rowVars
<1>2. data \in AddData
  BY DEF AddForms, AddData, WellTyped, ShownTyped
<1> DEFINE m == Mounted(Home, data, FALSE)
<1>3. /\ next \in Nat /\ next \in 1 .. MaxForms + 1 /\ others \in Nat /\ MaxForms \in Nat
      /\ tries \in Nat
  BY Bounds DEF WellTyped, Numbered
<1>4. /\ next' \in 1 .. MaxForms + 1 /\ next' = next + 1 /\ tries' \in Nat
      /\ screen' = "modal" /\ panel' = NoPanel
  BY <1>3 DEF OpenAdd, Room
<1>5. m \in FormRow /\ m.no = next /\ MayBe("add", m)
  <2>1. Home \in Site /\ data \in Data /\ {} \in SUBSET Field /\ FALSE \in BOOLEAN
    BY <1>2, FormsAssumption DEF Data
  <2>2. m = [no |-> next, target |-> Home, data |-> data, touched |-> {},
             fresh |-> FALSE, saving |-> FALSE]
    BY DEF Mounted
  <2> HIDE DEF m
  <2> QED BY <1>2, <1>3, <2>1, <2>2 DEF FormRow, MayBe
<1>6. form' = [q \in Place |-> IF q = "add" THEN m ELSE Unmounted]
  BY DEF OpenAdd, NoForms, Place
<1> HIDE DEF m
<1>7. FormsTyped'
  BY <1>5, <1>6, UnmountedRow DEF FormsTyped
<1>8. OnScreen'
  BY <1>4, <1>6, UnmountedRow DEF OnScreen, Place
<1>9. ScreenTyped' /\ panel'.no = 0
  BY <1>4, FormsAssumption DEF ScreenTyped, NoPanel
<1>10. \A q \in Place : form'[q].no < next'
  BY <1>3, <1>4, <1>5, <1>6, UnmountedRow
<1>11. \A r \in net : r.form.no \in Nat /\ r.form.no < next
  BY RequestFields DEF WellTyped, Numbered, NetTyped, FormRow
<1>12. Numbered'
  BY <1>1, <1>3, <1>4, <1>9, <1>10, <1>11 DEF WellTyped, Numbered
<1> QED BY <1>1, <1>7, <1>8, <1>9, <1>12, SameTypes DEF WellTyped

LEMMA CancelTypes ==
  ASSUME WellTyped, NEW p \in Place, Cancel(p)
  PROVE  WellTyped'
<1>1. UNCHANGED <<site, dev, shown, screen, panel, next, net, others, tries>>
  BY DEF Cancel, rowVars
<1>2. form' = [q \in Place |-> IF q \in {p} THEN Unmounted ELSE form[q]]
  BY DEF Cancel, WellTyped, FormsTyped
<1>3. /\ FormsTyped'
      /\ \A q \in Place : form'[q].no < next' /\ (form'[q] = form[q] \/ form'[q].no = 0)
  BY <1>1, <1>2, UnmountTypes
<1>4. OnScreen'
  BY <1>1, <1>3 DEF WellTyped, OnScreen, Place
<1>5. Numbered'
  BY <1>1, <1>3 DEF WellTyped, Numbered
<1> QED BY <1>1, <1>3, <1>4, <1>5, SameTypes DEF WellTyped

\* One form changes in place.
LEMMA ChangeKeepsTypes ==
  ASSUME WellTyped, NEW p \in Place, NEW f \in FormRow, f.no = form[p].no,
         f.no # 0 => MayBe(p, f), form' = [form EXCEPT ![p] = f],
         UNCHANGED <<site, dev, shown, screen, panel, next, others, tries>>
  PROVE  /\ RowsTyped' /\ ShownTyped' /\ FormsTyped' /\ ScreenTyped' /\ OnScreen'
         /\ \A q \in Place : form'[q].no = form[q].no /\ form'[q].no < next'
<1>1. FormsTyped' /\ \A q \in Place : form'[q].no = form[q].no /\ form'[q].no < next'
  BY ChangeTypes
<1>2. OnScreen'
  BY <1>1 DEF WellTyped, OnScreen, Place
<1> QED BY <1>1, <1>2, SameTypes

\* What may be filled in where.
Fits(data, x, v) ==
  \/ data \in SiteData /\ x \in {"name", "tz"} /\ v \in Values
  \/ data \in DevData /\ \/ x \in {"addr", "user", "pass"} /\ v \in Values
                         \/ x = "port" /\ v \in Ports
                         \/ x = "enabled" /\ v \in BOOLEAN

\* What Fill makes of a form.
Filled(f, x, v) == [f EXCEPT !.data[x] = v, !.touched = @ \cup {x}]

LEMMA FilledFields ==
  ASSUME NEW f \in FormRow, NEW x \in Field, NEW v, Fits(f.data, x, v)
  PROVE  LET g == Filled(f, x, v)
         IN  /\ g \in FormRow /\ g.no = f.no /\ g.target = f.target /\ g.saving = f.saving
             /\ g.fresh = f.fresh /\ g.touched = f.touched \cup {x}
             /\ g.data = [f.data EXCEPT ![x] = v]
             /\ f.data \in SiteData => g.data \in SiteData
             /\ f.data \in DevData => g.data \in DevData
<1> DEFINE g == Filled(f, x, v)
           e == [f.data EXCEPT ![x] = v]
<1>1. g = [f EXCEPT !.data = e, !.touched = f.touched \cup {x}]
  BY DEF Filled, FormRow
<1>2. /\ f.data \in SiteData => e \in SiteData
      /\ f.data \in DevData => e \in DevData
  <2>1. ASSUME f.data \in SiteData PROVE e \in SiteData
    <3>1. CASE x \in {"name", "tz"} /\ v \in Values
      BY <2>1, <3>1 DEF SiteData
    <3>2. CASE x \notin {"name", "tz"}
      BY <2>1, <3>2 DEF SiteData
    <3>3. x \in {"name", "tz"} => v \in Values
      BY DEF Fits
    <3> QED BY <3>1, <3>2, <3>3
  <2>2. ASSUME f.data \in DevData PROVE e \in DevData
    <3>1. CASE x \in {"addr", "user", "pass"} /\ v \in Values
      BY <2>2, <3>1 DEF DevData
    <3>2. CASE x = "enabled" /\ v \in BOOLEAN
      BY <2>2, <3>2 DEF DevData
    <3>3. CASE x = "port" /\ v \in Ports
      BY <2>2, <3>3 DEF DevData
    <3>4. CASE x \in {"name", "tz"}
      BY <2>2, <3>4 DEF DevData
    <3> QED BY <3>1, <3>2, <3>3, <3>4 DEF Fits
  <2> QED BY <2>1, <2>2
<1>3. e \in Data
  BY <1>2 DEF Data, Fits
<1>4. f.touched \cup {x} \in SUBSET Field
  BY DEF FormRow
<1> HIDE DEF e
<1>5. /\ g \in FormRow /\ g.no = f.no /\ g.target = f.target /\ g.saving = f.saving
      /\ g.fresh = f.fresh /\ g.touched = f.touched \cup {x} /\ g.data = e
  BY <1>1, <1>3, <1>4 DEF FormRow
<1> QED BY <1>2, <1>5 DEF e

\* What Type does: a field of the site's or the device's form is filled.
LEMMA TypeFills ==
  ASSUME WellTyped, Type
  PROVE  \E p \in {"site", "dev"}, x \in Field, v \in Values \cup Ports \cup BOOLEAN :
           /\ Fill(p, x, v)
           /\ form' = [form EXCEPT ![p] = Filled(form[p], x, v)]
           /\ Fits(form[p].data, x, v)
           /\ p = "site" => form[p].data \in SiteData
           /\ p = "dev" => form[p].data \in DevData
<1>0. "site" \in Place /\ "dev" \in Place
  BY DEF Place
<1>1. \A p \in Place : form[p].no # 0 => MayBe(p, form[p])
  BY DEF WellTyped, FormsTyped
<1>2. ASSUME NEW p \in Place, NEW x, NEW v, Fill(p, x, v)
      PROVE  form' = [form EXCEPT ![p] = Filled(form[p], x, v)] /\ MayBe(p, form[p])
  BY <1>1, <1>2 DEF Fill, Filled
<1>3. Typed \cup {""} \subseteq Values
  BY FormsAssumption DEF Values
<1>4. CASE \E x \in {"name", "tz"}, v \in Typed \cup {""} : Fill("site", x, v)
  <2>1. PICK x \in {"name", "tz"}, v \in Typed \cup {""} : Fill("site", x, v)
    BY <1>4
  <2>2. v \in Values /\ form["site"].data \in SiteData /\ x \in Field
    BY <1>0, <1>2, <1>3, <2>1 DEF MayBe, Field
  <2>3. Fits(form["site"].data, x, v)
    BY <2>1, <2>2 DEF Fits
  <2> QED BY <1>0, <1>2, <2>1, <2>2, <2>3
<1>5. CASE \E x \in {"addr", "user", "pass"}, v \in Typed \cup {""} : Fill("dev", x, v)
  <2>1. PICK x \in {"addr", "user", "pass"}, v \in Typed \cup {""} : Fill("dev", x, v)
    BY <1>5
  <2>2. v \in Values /\ form["dev"].data \in DevData /\ x \in Field
    BY <1>0, <1>2, <1>3, <2>1 DEF MayBe, Field
  <2>3. Fits(form["dev"].data, x, v)
    BY <2>1, <2>2 DEF Fits
  <2> QED BY <1>0, <1>2, <2>1, <2>2, <2>3
<1>6. CASE \E v \in Ports : Fill("dev", "port", v)
  <2>1. PICK v \in Ports : Fill("dev", "port", v)
    BY <1>6
  <2>2. form["dev"].data \in DevData /\ "port" \in Field
    BY <1>0, <1>2, <2>1 DEF MayBe, Field
  <2>3. Fits(form["dev"].data, "port", v)
    BY <2>1, <2>2 DEF Fits
  <2> QED BY <1>0, <1>2, <2>1, <2>2, <2>3
<1>7. CASE Fill("dev", "enabled", ~form["dev"].data.enabled)
  <2>1. form["dev"].data \in DevData /\ "enabled" \in Field
    BY <1>0, <1>2, <1>7 DEF MayBe, Field
  <2>2. (~form["dev"].data.enabled) \in BOOLEAN
    OBVIOUS
  <2>3. Fits(form["dev"].data, "enabled", ~form["dev"].data.enabled)
    BY <2>1, <2>2 DEF Fits
  <2> QED BY <1>0, <1>2, <1>7, <2>1, <2>2, <2>3
<1> QED BY <1>4, <1>5, <1>6, <1>7 DEF Type

LEMMA TypeTypes ==
  ASSUME WellTyped, Type
  PROVE  WellTyped'
<1>1. PICK p \in {"site", "dev"}, x \in Field, v \in Values \cup Ports \cup BOOLEAN :
        /\ Fill(p, x, v)
        /\ form' = [form EXCEPT ![p] = Filled(form[p], x, v)]
        /\ Fits(form[p].data, x, v)
        /\ p = "site" => form[p].data \in SiteData
        /\ p = "dev" => form[p].data \in DevData
  BY TypeFills
<1>2. UNCHANGED <<site, dev, shown, screen, panel, next, net, others, tries>>
  BY <1>1 DEF Fill, rowVars
<1>3. form[p] \in FormRow /\ p \in Place /\ MayBe(p, form[p])
  BY <1>1 DEF WellTyped, FormsTyped, Place, Fill
<1> DEFINE g == Filled(form[p], x, v)
<1>4. /\ g \in FormRow /\ g.no = form[p].no /\ g.target = form[p].target
      /\ form[p].data \in SiteData => g.data \in SiteData
      /\ form[p].data \in DevData => g.data \in DevData
  <2>1. ASSUME NEW f \in FormRow, Fits(f.data, x, v)
        PROVE  /\ Filled(f, x, v) \in FormRow /\ Filled(f, x, v).no = f.no
               /\ Filled(f, x, v).target = f.target
               /\ f.data \in SiteData => Filled(f, x, v).data \in SiteData
               /\ f.data \in DevData => Filled(f, x, v).data \in DevData
    BY <2>1, FilledFields
  <2> QED BY <1>1, <1>3, <2>1
<1> HIDE DEF g
<1>5. MayBe(p, g)
  BY <1>1, <1>3, <1>4 DEF MayBe
<1>6. form' = [form EXCEPT ![p] = g]
  BY <1>1 DEF g
<1>7. /\ RowsTyped' /\ ShownTyped' /\ FormsTyped' /\ ScreenTyped' /\ OnScreen'
      /\ \A q \in Place : form'[q].no < next'
  BY <1>2, <1>3, <1>4, <1>5, <1>6, ChangeKeepsTypes
<1>8. Numbered' /\ NetTyped'
  BY <1>2, <1>7, SameTypes DEF WellTyped, Numbered
<1> QED BY <1>7, <1>8 DEF WellTyped

\* What Submit does.
LEMMA SubmitSends ==
  ASSUME WellTyped, NEW p \in Place, Submit(p)
  PROVE  \E r \in Request :
           /\ net' = net \cup {r}
           /\ r.place = p /\ r.form = form[p] /\ r.panel = panel.no /\ r.stage = "sent"
           /\ r.op = FirstOp(p)
<1> DEFINE r == [place |-> p, form |-> form[p], panel |-> panel.no, op |-> FirstOp(p),
                 stage |-> "sent", twin |-> Cardinality(net)]
<1>1. form[p] \in FormRow /\ form[p].no # 0 /\ MayBe(p, form[p])
  BY DEF Submit, CanSubmit, WellTyped, FormsTyped
<1>2. Cardinality(net) \in Nat
  BY FS_CardinalityType DEF WellTyped, NetTyped
<1>3. FirstOp(p) \in Ops(p)
  BY DEF FirstOp, Ops, Place
<1>4. panel.no \in Nat
  BY DEF WellTyped, ScreenTyped
<1>5. Complete(p, form[p].data)
  BY DEF Submit
<1>6. r \in Request
  BY <1>1, <1>2, <1>3, <1>4, <1>5 DEF Request
<1> QED BY <1>6 DEF Submit

LEMMA SubmitTypes ==
  ASSUME WellTyped, NEW p \in Place, Submit(p)
  PROVE  WellTyped'
<1>1. UNCHANGED <<site, dev, shown, screen, panel, next, others, tries>>
  BY DEF Submit, rowVars
<1>2. form[p] \in FormRow /\ form[p].no # 0 /\ MayBe(p, form[p])
  BY DEF Submit, CanSubmit, WellTyped, FormsTyped
<1> DEFINE g == [form[p] EXCEPT !.saving = TRUE]
<1>3. g \in FormRow /\ g.no = form[p].no /\ g.target = form[p].target /\ g.data = form[p].data
  BY <1>2 DEF FormRow
<1>4. form' = [form EXCEPT ![p] = g]
  BY DEF Submit
<1> HIDE DEF g
<1>5. MayBe(p, g)
  BY <1>2, <1>3 DEF MayBe
<1>6. /\ RowsTyped' /\ ShownTyped' /\ FormsTyped' /\ ScreenTyped' /\ OnScreen'
      /\ \A q \in Place : form'[q].no < next'
  BY <1>1, <1>3, <1>4, <1>5, ChangeKeepsTypes
<1>7. PICK r \in Request : net' = net \cup {r} /\ r.form = form[p]
  BY SubmitSends
<1>8. NetTyped'
  BY <1>7, FS_AddElement DEF WellTyped, NetTyped
<1>9. Numbered'
  BY <1>1, <1>6, <1>7 DEF WellTyped, Numbered
<1> QED BY <1>6, <1>8, <1>9 DEF WellTyped

-----------------------------------------------------------------------------
(* What the server and other writers do keeps the types.                   *)

\* The rows after a step: what they may not do.
RowsKept ==
  /\ RowsTyped'
  /\ \A s \in Site : site[s].state # "unborn" => site'[s].state # "unborn"
  /\ \A d \in Device : dev[d].state # "unborn" => dev'[d].state # "unborn"

LEMMA SameRowsKept == ASSUME WellTyped, UNCHANGED rowVars PROVE RowsKept
BY DEF WellTyped, RowsTyped, RowsKept, rowVars

LEMMA DropKept ==
  ASSUME WellTyped, NEW ds, Drop(ds),
         \/ UNCHANGED site
         \/ \E s \in Site : site' = [site EXCEPT ![s].state = "deleted"]
  PROVE  /\ RowsKept
         /\ \A d \in Device : /\ dev'[d].row = dev[d].row
                              /\ dev'[d].state \in {dev[d].state, "deleted"}
                              /\ dev'[d].state = "deleted" => dev[d].state = "deleted" \/ d \in ds
         /\ \A s \in Site : /\ site'[s].row = site[s].row
                            /\ site'[s].state \in {site[s].state, "deleted"}
         /\ ds \subseteq LiveDevices => NewDevices' = NewDevices
<1>1. /\ \A s \in Site : site[s] \in [state : RowState, row : SiteRow]
      /\ \A d \in Device : dev[d] \in [state : RowState, row : DevRow]
      /\ site \in [Site -> [state : RowState, row : SiteRow]]
  BY DEF WellTyped, RowsTyped
<1>2. "deleted" \in RowState
  BY DEF RowState
<1>3. \A d \in Device : dev'[d] = IF d \in ds THEN [dev[d] EXCEPT !.state = "deleted"] ELSE dev[d]
  BY DEF Drop
<1>4. \A d \in Device : /\ dev'[d] \in [state : RowState, row : DevRow]
                        /\ dev'[d].row = dev[d].row
                        /\ dev'[d].state = IF d \in ds THEN "deleted" ELSE dev[d].state
  BY <1>1, <1>2, <1>3
<1>5. dev' \in [Device -> [state : RowState, row : DevRow]]
  BY <1>4 DEF Drop
<1>6. /\ site' \in [Site -> [state : RowState, row : SiteRow]]
      /\ \A s \in Site : site'[s].row = site[s].row /\ site'[s].state \in {site[s].state, "deleted"}
  BY <1>1, <1>2
<1>7. RowsKept
  BY <1>4, <1>5, <1>6 DEF RowsKept, RowsTyped
<1>8. ds \subseteq LiveDevices => NewDevices' = NewDevices
  BY <1>4 DEF NewDevices, LiveDevices
<1> QED BY <1>4, <1>6, <1>7, <1>8

LEMMA SiteRowKept ==
  ASSUME WellTyped, NEW s \in Site, NEW row \in SiteRow,
         site' = [site EXCEPT ![s].row = row], dev' = dev
  PROVE  /\ RowsKept
         /\ \A u \in Site : /\ site'[u].state = site[u].state
                            /\ site'[u].row = IF u = s THEN row ELSE site[u].row
<1>1. site[s] \in [state : RowState, row : SiteRow]
  BY DEF WellTyped, RowsTyped
<1> DEFINE x == [site[s] EXCEPT !.row = row]
<1>2. x \in [state : RowState, row : SiteRow] /\ x.state = site[s].state /\ x.row = row
  BY <1>1
<1>3. site' = [site EXCEPT ![s] = x]
  OBVIOUS
<1> HIDE DEF x
<1>4. site' \in [Site -> [state : RowState, row : SiteRow]]
  BY <1>2, <1>3 DEF WellTyped, RowsTyped
<1>5. \A u \in Site : site'[u] = IF u = s THEN x ELSE site[u]
  BY <1>3 DEF WellTyped, RowsTyped
<1> QED BY <1>2, <1>4, <1>5 DEF WellTyped, RowsTyped, RowsKept

LEMMA DevRowKept ==
  ASSUME WellTyped, NEW d \in Device, NEW row \in DevRow,
         dev' = [dev EXCEPT ![d].row = row], site' = site
  PROVE  /\ RowsKept
         /\ \A e \in Device : /\ dev'[e].state = dev[e].state
                              /\ dev'[e].row = IF e = d THEN row ELSE dev[e].row
<1>1. dev[d] \in [state : RowState, row : DevRow]
  BY DEF WellTyped, RowsTyped
<1> DEFINE x == [dev[d] EXCEPT !.row = row]
<1>2. x \in [state : RowState, row : DevRow] /\ x.state = dev[d].state /\ x.row = row
  BY <1>1
<1>3. dev' = [dev EXCEPT ![d] = x]
  OBVIOUS
<1> HIDE DEF x
<1>4. dev' \in [Device -> [state : RowState, row : DevRow]]
  BY <1>2, <1>3 DEF WellTyped, RowsTyped
<1>5. \A e \in Device : dev'[e] = IF e = d THEN x ELSE dev[e]
  BY <1>3 DEF WellTyped, RowsTyped
<1> QED BY <1>2, <1>4, <1>5 DEF WellTyped, RowsTyped, RowsKept

LEMMA NewSiteKept ==
  ASSUME WellTyped, NEW s \in Site, site[s].state = "unborn",
         site' = [site EXCEPT ![s].state = "live"], dev' = dev
  PROVE  /\ RowsKept /\ \A u \in Site : site'[u].row = site[u].row
         /\ NewSites' \subseteq NewSites \cup {s} /\ NewDevices' = NewDevices
<1>1. site[s] \in [state : RowState, row : SiteRow] /\ "live" \in RowState
  BY DEF WellTyped, RowsTyped, RowState
<1> DEFINE x == [site[s] EXCEPT !.state = "live"]
<1>2. x \in [state : RowState, row : SiteRow] /\ x.state = "live" /\ x.row = site[s].row
  BY <1>1
<1>3. site' = [site EXCEPT ![s] = x]
  OBVIOUS
<1> HIDE DEF x
<1>4. site' \in [Site -> [state : RowState, row : SiteRow]]
  BY <1>2, <1>3 DEF WellTyped, RowsTyped
<1>5. \A u \in Site : site'[u] = IF u = s THEN x ELSE site[u]
  BY <1>3 DEF WellTyped, RowsTyped
<1> QED BY <1>2, <1>4, <1>5 DEF WellTyped, RowsTyped, RowsKept, NewSites, NewDevices

LEMMA NewDeviceKept ==
  ASSUME WellTyped, NEW d \in Device, dev[d].state = "unborn", NEW row \in DevRow,
         dev' = [dev EXCEPT ![d].state = "live", ![d].row = row], site' = site
  PROVE  /\ RowsKept /\ \A e \in Device \ {d} : dev'[e] = dev[e]
         /\ NewDevices' \subseteq NewDevices \cup {d} /\ NewSites' = NewSites
<1>1. dev[d] \in [state : RowState, row : DevRow] /\ "live" \in RowState
  BY DEF WellTyped, RowsTyped, RowState
<1> DEFINE x == [[dev[d] EXCEPT !.state = "live"] EXCEPT !.row = row]
<1>2. x \in [state : RowState, row : DevRow] /\ x.state = "live" /\ x.row = row
  BY <1>1
<1>3. dev' = [dev EXCEPT ![d] = x]
  BY DEF WellTyped, RowsTyped
<1> HIDE DEF x
<1>4. dev' \in [Device -> [state : RowState, row : DevRow]]
  BY <1>2, <1>3 DEF WellTyped, RowsTyped
<1>5. \A e \in Device : dev'[e] = IF e = d THEN x ELSE dev[e]
  BY <1>3 DEF WellTyped, RowsTyped
<1> QED BY <1>2, <1>4, <1>5 DEF WellTyped, RowsTyped, RowsKept, NewSites, NewDevices

\* What a save makes of a row.
LEMMA PatchedSiteRow ==
  ASSUME NEW old \in SiteRow, NEW data \in SiteData, Trim[data.name] # ""
  PROVE  LET row == PatchedSite(old, data)
         IN  /\ row \in SiteRow /\ row.name = Trim[data.name]
             /\ row.tz = old.tz \/ row.tz = Trim[data.tz]
<1>1. Trim[data.name] \in Text /\ (Trim[data.tz] # "" => Trim[data.tz] \in Text)
  BY Trimmed DEF SiteData
<1> QED BY <1>1 DEF PatchedSite, SiteRow

LEMMA PatchedDeviceRow ==
  ASSUME NEW old \in DevRow, NEW data \in DevData, Trim[data.addr] # ""
  PROVE  LET row == PatchedDevice(old, data)
         IN  /\ row \in DevRow /\ row.addr = Trim[data.addr] /\ row.port = data.port
             /\ row.enabled = data.enabled
             /\ data.user = "" /\ data.pass = "" => row.user = old.user /\ row.pass = old.pass
<1> DEFINE mid == NewCredentials(old, data)
           row == [mid EXCEPT !.addr = Trim[data.addr], !.port = data.port,
                              !.enabled = data.enabled]
<1>1. mid \in DevRow /\ (data.user = "" /\ data.pass = "" => mid = old)
  BY DEF NewCredentials, DevRow, DevData
<1> HIDE DEF mid
<1>2. Trim[data.addr] \in Text /\ data.port \in Ports /\ data.enabled \in BOOLEAN
  BY Trimmed DEF DevData
<1>3. /\ row \in DevRow /\ row.addr = Trim[data.addr] /\ row.port = data.port
      /\ row.enabled = data.enabled /\ row.user = mid.user /\ row.pass = mid.pass
  BY <1>1, <1>2 DEF DevRow
<1>4. PatchedDevice(old, data) = row
  BY DEF PatchedDevice, mid
<1> HIDE DEF row
<1> QED BY <1>1, <1>3, <1>4

\* From the parts of a step to its types.
LEMMA TypesFromParts ==
  ASSUME WellTyped, RowsKept, FormsTyped', ScreenTyped', OnScreen', NetTyped',
         next' = next, others' \in 0 .. MaxForms, tries' \in Nat,
         \A p \in Place : form'[p].no < next', \A q \in net' : q.form.no < next',
         panel'.no < next', shown' = shown
  PROVE  WellTyped'
<1>1. ShownTyped'
  BY DEF WellTyped, ShownTyped, RowsKept
<1>2. Numbered'
  BY DEF WellTyped, Numbered
<1> QED BY <1>1, <1>2 DEF WellTyped, RowsKept

\* The same when nothing of the screen changes.
LEMMA TypesFromNet ==
  ASSUME WellTyped, RowsKept, NetTyped', \A q \in net' : q.form.no < next',
         UNCHANGED <<tabVars, others, tries>>
  PROVE  WellTyped'
<1>1. FormsTyped' /\ OnScreen' /\ ScreenTyped' /\ next' = next /\ shown' = shown
  BY DEF WellTyped, FormsTyped, OnScreen, ScreenTyped, tabVars
<1>2. /\ others' \in 0 .. MaxForms /\ tries' \in Nat /\ panel'.no < next'
      /\ \A p \in Place : form'[p].no < next'
  BY DEF WellTyped, Numbered, tabVars
<1> QED BY <1>1, <1>2, TypesFromParts

\* The net after a request is answered, and others are overtaken.
LEMMA OvertakenTypes ==
  ASSUME WellTyped, NEW r \in net, NEW stage \in {"sent", "ok", "error"}, NEW places, NEW id,
         net' = OutdateRequests(Answer(r, stage), places, id), next' = next
  PROVE  /\ NetTyped' /\ \A q \in net' : q.form.no < next'
         /\ Answer(r, stage) \subseteq Request
         /\ \A x \in net' : \E q \in Answer(r, stage) : x = Later(q, places, id)
         /\ \A q \in Answer(r, stage) : Later(q, places, id) \in net'
<1> DEFINE x == [r EXCEPT !.stage = stage]
<1>1. r \in Request /\ net \subseteq Request /\ IsFiniteSet(net)
  BY DEF WellTyped, NetTyped
<1>2. x \in Request /\ x.form = r.form
  BY <1>1, Answered
<1> HIDE DEF x
<1>3. Answer(r, stage) = (net \ {r}) \cup {x}
  BY DEF Answer, x
<1>4. Answer(r, stage) \subseteq Request /\ IsFiniteSet(Answer(r, stage))
  <2>1. IsFiniteSet(net \ {r})
    BY <1>1, FS_RemoveElement
  <2>2. IsFiniteSet((net \ {r}) \cup {x})
    BY <2>1, FS_AddElement
  <2> QED BY <1>1, <1>2, <1>3, <2>2
<1>5. \A q \in Answer(r, stage) : q.form.no < next
  BY <1>2, <1>3 DEF WellTyped, Numbered
<1>6. /\ net' \subseteq Request /\ IsFiniteSet(net')
      /\ \A y \in net' : \E q \in Answer(r, stage) : y = Later(q, places, id)
      /\ \A q \in Answer(r, stage) : Later(q, places, id) \in net'
  BY <1>4, OutdatedRequests
<1>7. \A y \in net' : y.form.no < next'
  BY <1>4, <1>5, <1>6, LaterFields
<1> QED BY <1>4, <1>6, <1>7 DEF NetTyped

LEMMA AnswerTypes ==
  ASSUME WellTyped, NEW r \in net, NEW stage \in {"sent", "ok", "error"},
         net' = Answer(r, stage), next' = next
  PROVE  NetTyped' /\ \A q \in net' : q.form.no < next'
<1> DEFINE x == [r EXCEPT !.stage = stage]
<1>1. r \in Request
  BY DEF WellTyped, NetTyped
<1>2. x \in Request /\ x.form = r.form
  BY <1>1, Answered
<1> HIDE DEF x
<1>3. net' = (net \ {r}) \cup {x}
  BY DEF Answer, x
<1> QED BY <1>2, <1>3, SwapTypes

LEMMA PatchSiteRow ==
  ASSUME WellTyped, NEW r \in net, PatchSite(r)
  PROVE  /\ r.form.target \in Site /\ r.form.data \in SiteData /\ r.place = "site"
         /\ dev' = dev
         /\ \E row \in SiteRow :
              /\ site' = [site EXCEPT ![r.form.target].row = row]
              /\ row.name = Trim[r.form.data.name]
              /\ row.tz \in {site[r.form.target].row.tz, Trim[r.form.data.tz]}
<1>1. r \in Request /\ r.op = "patchSite"
  BY DEF WellTyped, NetTyped, PatchSite
<1>2. /\ r.place \in Place /\ r.op \in Ops(r.place) /\ MayBe(r.place, r.form)
      /\ Complete(r.place, r.form.data)
  BY <1>1, RequestFields
<1>3. r.place = "site"
  BY <1>1, <1>2 DEF Ops, Place
<1>4. r.form.target \in Site /\ r.form.data \in SiteData /\ Trim[r.form.data.name] # ""
  BY <1>2, <1>3 DEF MayBe, Complete
<1> DEFINE old == site[r.form.target].row
           row == PatchedSite(old, r.form.data)
<1>5. old \in SiteRow
  BY <1>4 DEF WellTyped, RowsTyped
<1>6. /\ row \in SiteRow /\ row.name = Trim[r.form.data.name]
      /\ row.tz \in {old.tz, Trim[r.form.data.tz]}
  BY <1>4, <1>5, PatchedSiteRow
<1>7. site' = [site EXCEPT ![r.form.target].row = row] /\ dev' = dev
  BY <1>4 DEF PatchSite, WellTyped, RowsTyped
<1> HIDE DEF row
<1> QED BY <1>3, <1>4, <1>6, <1>7

LEMMA PatchDeviceRow ==
  ASSUME WellTyped, NEW r \in net, PatchDevice(r)
  PROVE  /\ r.form.target \in Device /\ r.form.data \in DevData /\ r.place = "dev"
         /\ site' = site
         /\ \E row \in DevRow :
              /\ dev' = [dev EXCEPT ![r.form.target].row = row]
              /\ row.addr = Trim[r.form.data.addr] /\ row.port = r.form.data.port
              /\ row.enabled = r.form.data.enabled
              /\ r.form.data.user = "" /\ r.form.data.pass = "" =>
                   /\ row.user = dev[r.form.target].row.user
                   /\ row.pass = dev[r.form.target].row.pass
<1>1. r \in Request /\ r.op = "patchDevice"
  BY DEF WellTyped, NetTyped, PatchDevice
<1>2. /\ r.place \in Place /\ r.op \in Ops(r.place) /\ MayBe(r.place, r.form)
      /\ Complete(r.place, r.form.data)
  BY <1>1, RequestFields
<1>3. r.place = "dev"
  BY <1>1, <1>2 DEF Ops, Place
<1>4. r.form.target \in Device /\ r.form.data \in DevData /\ Trim[r.form.data.addr] # ""
  BY <1>2, <1>3 DEF MayBe, Complete
<1> DEFINE old == dev[r.form.target].row
           row == PatchedDevice(old, r.form.data)
<1>5. old \in DevRow
  BY <1>4 DEF WellTyped, RowsTyped
<1>6. /\ row \in DevRow /\ row.addr = Trim[r.form.data.addr] /\ row.port = r.form.data.port
      /\ row.enabled = r.form.data.enabled
      /\ r.form.data.user = "" /\ r.form.data.pass = "" =>
           row.user = old.user /\ row.pass = old.pass
  BY <1>4, <1>5, PatchedDeviceRow
<1>7. dev' = [dev EXCEPT ![r.form.target].row = row]
  BY <1>4 DEF PatchDevice, WellTyped, RowsTyped
<1>8. site' = site
  BY DEF PatchDevice
<1> HIDE DEF row
<1> QED BY <1>3, <1>4, <1>6, <1>7, <1>8

LEMMA PatchTypes ==
  ASSUME WellTyped, NEW r \in net, PatchSite(r) \/ PatchDevice(r),
         UNCHANGED <<shown, screen, next, others, tries>>
  PROVE  WellTyped'
<1>0. others \in 0 .. MaxForms /\ tries \in Nat
  BY DEF WellTyped, Numbered
<1>1. CASE PatchSite(r)
  <2>1. RowsKept
    BY <1>1, PatchSiteRow, SiteRowKept
  <2>2. /\ FormsTyped' /\ ScreenTyped' /\ OnScreen' /\ panel'.no < next'
        /\ \A q \in Place : form'[q].no < next'
    BY <1>1, OutdatedScreen DEF PatchSite
  <2>3. NetTyped' /\ \A q \in net' : q.form.no < next'
    BY <1>1, OvertakenTypes DEF PatchSite
  <2> QED BY <1>0, <2>1, <2>2, <2>3, TypesFromParts
<1>2. CASE PatchDevice(r)
  <2>1. RowsKept
    BY <1>2, PatchDeviceRow, DevRowKept
  <2>2. /\ FormsTyped' /\ ScreenTyped' /\ OnScreen' /\ panel'.no < next'
        /\ \A q \in Place : form'[q].no < next'
    BY <1>2, OutdatedScreen DEF PatchDevice
  <2>3. NetTyped' /\ \A q \in net' : q.form.no < next'
    BY <1>2, OvertakenTypes DEF PatchDevice
  <2> QED BY <1>0, <2>1, <2>2, <2>3, TypesFromParts
<1> QED BY <1>1, <1>2

\* What CreateSite and CreateDevice do.
LEMMA CreateSiteStep ==
  ASSUME WellTyped, NEW r \in net, CreateSite(r)
  PROVE  \E s \in Site, x \in Request :
           /\ site[s].state = "unborn" /\ site' = [site EXCEPT ![s].state = "live"]
           /\ dev' = dev
           /\ net' = (net \ {r}) \cup {x} /\ x.place = r.place /\ x.form.no = r.form.no
           /\ x.panel = r.panel /\ x.op = "createSite" /\ x.stage = "ok" /\ r.place = "add"
<1>1. PICK s \in Site : /\ site[s].state = "unborn"
                        /\ site' = [site EXCEPT ![s].state = "live"]
                        /\ net' = (net \ {r}) \cup {[r EXCEPT !.stage = "ok", !.form.target = s]}
  BY DEF CreateSite
<1>2. r \in Request /\ r.op = "createSite" /\ dev' = dev
  BY DEF CreateSite, WellTyped, NetTyped
<1>3. r.place = "add"
  BY <1>2, RequestFields DEF Ops, Place
<1>4. LET x == [r EXCEPT !.stage = "ok", !.form.target = s]
      IN  x \in Request /\ x.place = r.place /\ x.form.no = r.form.no /\ x.panel = r.panel
             /\ x.op = "createSite" /\ x.stage = "ok"
  BY <1>2, GotSite
<1> QED BY <1>1, <1>2, <1>3, <1>4

LEMMA CreateDeviceStep ==
  ASSUME WellTyped, NEW r \in net, CreateDevice(r)
  PROVE  /\ r.op = "createDevice" /\ r.place = "add" /\ net' = Answer(r, "ok") /\ site' = site
         /\ \E d \in Device, row \in DevRow :
              /\ dev[d].state = "unborn"
              /\ dev' = [dev EXCEPT ![d].state = "live", ![d].row = row]
<1> DEFINE s == IF r.form.data.site = "new" THEN r.form.target ELSE r.form.data.site
<1>1. r \in Request /\ r.op = "createDevice" /\ net' = Answer(r, "ok") /\ site' = site
  BY DEF CreateDevice, WellTyped, NetTyped
<1>2. r.place = "add" /\ MayBe(r.place, r.form)
  BY <1>1, RequestFields DEF Ops, Place
<1>3. s \in Site
  BY DEF CreateDevice, LiveSites
<1>4. PICK d \in Device : /\ dev[d].state = "unborn"
                          /\ dev' = [dev EXCEPT ![d].state = "live", ![d].row = NewRow(s)]
  BY DEF CreateDevice
<1> HIDE DEF s
<1>5. NewRow(s) \in DevRow
  BY <1>3, FormsAssumption DEF NewRow, DevRow, Values, Ports
<1> QED BY <1>1, <1>2, <1>4, <1>5

LEMMA ServeTypes ==
  ASSUME WellTyped, NEW r \in net, Serve(r)
  PROVE  WellTyped'
<1>1. UNCHANGED <<shown, screen, next, others, tries>>
  BY DEF Serve
<1>2. CASE PatchSite(r) \/ PatchDevice(r)
  BY <1>1, <1>2, PatchTypes
<1>3. CASE DropSite(r) \/ DropDevice(r)
  <2>1. RowsKept
    BY <1>3, DropKept DEF DropSite, DropDevice, LiveSites
  <2>2. NetTyped' /\ \A q \in net' : q.form.no < next'
    BY <1>1, <1>3, AnswerTypes DEF DropSite, DropDevice
  <2>3. UNCHANGED <<tabVars, others, tries>>
    BY <1>1, <1>3 DEF DropSite, DropDevice, tabVars
  <2> QED BY <2>1, <2>2, <2>3, TypesFromNet
<1>4. CASE CreateSite(r)
  <2>1. RowsKept
    BY <1>4, CreateSiteStep, NewSiteKept
  <2>2. NetTyped' /\ \A q \in net' : q.form.no < next'
    BY <1>1, <1>4, CreateSiteStep, SwapTypes
  <2>3. UNCHANGED <<tabVars, others, tries>>
    BY <1>1, <1>4 DEF CreateSite, tabVars
  <2> QED BY <2>1, <2>2, <2>3, TypesFromNet
<1>5. CASE CreateDevice(r)
  <2>1. RowsKept
    BY <1>5, CreateDeviceStep, NewDeviceKept
  <2>2. NetTyped' /\ \A q \in net' : q.form.no < next'
    BY <1>1, <1>5, CreateDeviceStep, AnswerTypes
  <2>3. UNCHANGED <<tabVars, others, tries>>
    BY <1>1, <1>5 DEF CreateDevice, tabVars
  <2> QED BY <2>1, <2>2, <2>3, TypesFromNet
<1>6. CASE Refuse(r)
  <2>1. RowsKept
    BY <1>6, SameRowsKept DEF Refuse
  <2>2. NetTyped' /\ \A q \in net' : q.form.no < next'
    BY <1>1, <1>6, AnswerTypes DEF Refuse
  <2>3. UNCHANGED <<tabVars, others, tries>>
    BY <1>1, <1>6 DEF Refuse, tabVars
  <2> QED BY <2>1, <2>2, <2>3, TypesFromNet
<1> QED BY <1>2, <1>3, <1>4, <1>5, <1>6 DEF Serve

LEMMA OthersTypes ==
  ASSUME WellTyped,
         \/ \E d \in Device, a \in Text, port \in Ports : OtherPatch(d, a, port)
         \/ \E s \in Site : OtherDeletes(s)
  PROVE  WellTyped'
<1>0. /\ next \in Nat /\ 1 <= next /\ others \in Nat /\ MaxForms \in Nat /\ tries \in Nat
      /\ net \subseteq Request /\ IsFiniteSet(net)
  BY Bounds DEF WellTyped, Numbered, NetTyped
<1>1. Other => others' \in 0 .. MaxForms
  BY <1>0 DEF Other, Room
<1>2. ASSUME NEW d \in Device, NEW a \in Text, NEW port \in Ports, OtherPatch(d, a, port)
      PROVE  WellTyped'
  <2> DEFINE row == [dev[d].row EXCEPT !.addr = a, !.port = port]
  <2>1. dev[d].row \in DevRow
    BY DEF WellTyped, RowsTyped
  <2>2. row \in DevRow
    BY <2>1 DEF DevRow
  <2>3. dev' = [dev EXCEPT ![d].row = row] /\ site' = site
    BY <1>2 DEF OtherPatch
  <2> HIDE DEF row
  <2>4. RowsKept
    BY <2>2, <2>3, DevRowKept
  <2>5. UNCHANGED <<shown, screen, next, tries>> /\ Outdate({"dev"}, d)
    BY <1>2 DEF OtherPatch
  <2>6. /\ FormsTyped' /\ ScreenTyped' /\ OnScreen' /\ panel'.no < next'
        /\ \A q \in Place : form'[q].no < next'
    BY <2>5, OutdatedScreen
  <2>7. net' = OutdateRequests(net, {"dev"}, d)
    BY <1>2 DEF OtherPatch
  <2>8. /\ net' \subseteq Request /\ IsFiniteSet(net')
        /\ \A x \in net' : \E r \in net : x = Later(r, {"dev"}, d)
    BY <1>0, <2>7, OutdatedRequests
  <2>9. \A x \in net' : x.form.no < next'
    BY <1>0, <2>5, <2>8, LaterFields DEF WellTyped, Numbered
  <2> QED BY <1>0, <1>1, <1>2, <2>4, <2>5, <2>6, <2>8, <2>9, TypesFromParts
          DEF OtherPatch, NetTyped
<1>3. ASSUME NEW s \in Site, OtherDeletes(s) PROVE WellTyped'
  <2>1. RowsKept
    BY <1>3, DropKept DEF OtherDeletes
  <2>2. /\ FormsTyped' /\ OnScreen' /\ ScreenTyped' /\ NetTyped'
        /\ next' = next /\ shown' = shown /\ tries' = tries /\ panel' = panel
        /\ form' = form /\ net' = net
    BY <1>3 DEF OtherDeletes, tabVars, WellTyped, FormsTyped, OnScreen, ScreenTyped, NetTyped
  <2>3. /\ panel'.no < next' /\ \A p \in Place : form'[p].no < next'
        /\ \A q \in net' : q.form.no < next'
    BY <2>2 DEF WellTyped, Numbered
  <2> QED BY <1>0, <1>1, <1>3, <2>1, <2>2, <2>3, TypesFromParts DEF OtherDeletes
<1> QED BY <1>2, <1>3

-----------------------------------------------------------------------------
(* What the tab does with the answers keeps the types.                     *)

LEMMA LoseAnswerTypes ==
  ASSUME WellTyped, NEW r \in net, LoseAnswer(r)
  PROVE  WellTyped'
<1>1. RowsKept /\ UNCHANGED <<tabVars, others, tries>> /\ next' = next
  BY SameRowsKept DEF LoseAnswer, tabVars
<1>2. NetTyped' /\ \A q \in net' : q.form.no < next'
  BY <1>1, AnswerTypes DEF LoseAnswer
<1> QED BY <1>1, <1>2, TypesFromNet

LEMMA ShowErrorTypes ==
  ASSUME WellTyped, NEW r \in net, ShowError(r)
  PROVE  WellTyped'
<1>1. UNCHANGED <<site, dev, shown, screen, panel, next, others>> /\ net' = net \ {r}
  BY DEF ShowError, rowVars
<1>2. r \in Request /\ r.place \in Place
  BY RequestFields DEF WellTyped, NetTyped
<1>3. tries' \in Nat
  BY DEF ShowError, WellTyped, Numbered
<1> DEFINE g == [form[r.place] EXCEPT !.saving = FALSE]
           f == IF form[r.place].no = r.form.no THEN g ELSE form[r.place]
<1>4. form[r.place] \in FormRow
  BY <1>2 DEF WellTyped, FormsTyped
<1>5. /\ g \in FormRow /\ g.no = form[r.place].no /\ g.target = form[r.place].target
      /\ g.data = form[r.place].data
  BY <1>4 DEF FormRow
<1>6. /\ f \in FormRow /\ f.no = form[r.place].no /\ f.target = form[r.place].target
      /\ f.data = form[r.place].data
  BY <1>4, <1>5
<1>7. form' = [form EXCEPT ![r.place] = f]
  BY <1>2 DEF ShowError, Asker, WellTyped, FormsTyped
<1>8. form[r.place].no # 0 => MayBe(r.place, form[r.place])
  BY <1>2 DEF WellTyped, FormsTyped
<1> HIDE DEF f
<1>9. f.no # 0 => MayBe(r.place, f)
  BY <1>6, <1>8 DEF MayBe
<1>10. /\ RowsTyped' /\ ShownTyped' /\ FormsTyped' /\ OnScreen' /\ ScreenTyped'
       /\ \A q \in Place : form'[q].no < next'
  <2>1. FormsTyped' /\ \A q \in Place : form'[q].no = form[q].no /\ form'[q].no < next'
    BY <1>1, <1>2, <1>6, <1>7, <1>9, ChangeTypes
  <2>2. OnScreen'
    BY <1>1, <2>1 DEF WellTyped, OnScreen, Place
  <2> QED BY <1>1, <2>1, <2>2, SameTypes
<1>11. NetTyped' /\ \A q \in net' : q.form.no < next'
  BY <1>1, RemoveTypes
<1>12. Numbered'
  BY <1>1, <1>3, <1>10, <1>11 DEF WellTyped, Numbered
<1> QED BY <1>10, <1>11, <1>12 DEF WellTyped

LEMMA GoOnTypes ==
  ASSUME WellTyped, NEW r \in net, GoOn(r)
  PROVE  WellTyped'
<1>1. RowsKept /\ UNCHANGED <<tabVars, others, tries>> /\ next' = next
  BY SameRowsKept DEF GoOn, tabVars
<1>2. r \in Request /\ r.op = "createSite"
  BY DEF GoOn, WellTyped, NetTyped
<1> DEFINE x == [r EXCEPT !.op = "createDevice", !.stage = "sent"]
<1>3. x \in Request /\ x.form = r.form
  BY <1>2, WentOn
<1>4. net' = (net \ {r}) \cup {x}
  BY DEF GoOn
<1> HIDE DEF x
<1>5. NetTyped' /\ \A q \in net' : q.form.no < next'
  BY <1>1, <1>3, <1>4, SwapTypes
<1> QED BY <1>1, <1>5, TypesFromNet

LEMMA CloseFormTypes ==
  ASSUME WellTyped, NEW r \in net, CloseForm(r)
  PROVE  WellTyped'
<1>1. UNCHANGED <<site, dev, shown, screen, panel, next, others, tries>> /\ net' = net \ {r}
  BY DEF CloseForm, rowVars
<1> DEFINE U == IF panel.no = r.panel THEN {r.place} ELSE {}
<1>2. form' = [q \in Place |-> IF q \in U THEN Unmounted ELSE form[q]]
  BY DEF CloseForm, WellTyped, FormsTyped
<1> HIDE DEF U
<1>3. /\ FormsTyped'
      /\ \A q \in Place : form'[q].no < next' /\ (form'[q] = form[q] \/ form'[q].no = 0)
  BY <1>1, <1>2, UnmountTypes
<1>4. OnScreen'
  BY <1>1, <1>3 DEF WellTyped, OnScreen, Place
<1>5. NetTyped' /\ \A q \in net' : q.form.no < next'
  BY <1>1, RemoveTypes
<1>6. Numbered'
  BY <1>1, <1>3, <1>5 DEF WellTyped, Numbered
<1> QED BY <1>1, <1>3, <1>4, <1>5, <1>6, SameTypes DEF WellTyped

LEMMA CloseWholeTypes ==
  ASSUME WellTyped, NEW r \in net, NEW open, CloseWhole(r, open)
  PROVE  WellTyped'
<1>1. UNCHANGED <<site, dev, shown, next, others, tries>> /\ net' = net \ {r}
  BY DEF CloseWhole, rowVars
<1>2. NetTyped' /\ \A q \in net' : q.form.no < next'
  BY <1>1, RemoveTypes
<1>3. /\ FormsTyped' /\ ScreenTyped' /\ OnScreen' /\ panel'.no < next'
      /\ \A p \in Place : form'[p].no < next'
  <2>1. CASE screen = open
    BY <1>1, <2>1, CloseTypes DEF CloseWhole
  <2>2. CASE screen # open
    BY <1>1, <2>2, SameTypes DEF CloseWhole, WellTyped, FormsTyped, OnScreen, Numbered
  <2> QED BY <2>1, <2>2
<1>4. Numbered'
  BY <1>1, <1>2, <1>3 DEF WellTyped, Numbered
<1> QED BY <1>1, <1>2, <1>3, <1>4, SameTypes DEF WellTyped

LEMMA ReloadTypes ==
  ASSUME WellTyped, Reload
  PROVE  WellTyped'
<1>1. UNCHANGED <<site, dev, screen, panel, next, net, others, tries>> /\ shown' = Listed
  BY DEF Reload, rowVars
<1> DEFINE U == {q \in {"dev", "dropDev"} : form[q].target \notin DOMAIN Listed.devs}
<1>2. form' = [q \in Place |-> IF q \in U THEN Unmounted ELSE form[q]]
  BY DEF Reload
<1> HIDE DEF U
<1>3. /\ FormsTyped'
      /\ \A q \in Place : form'[q].no < next' /\ (form'[q] = form[q] \/ form'[q].no = 0)
  BY <1>1, <1>2, UnmountTypes
<1>4. OnScreen'
  BY <1>1, <1>3 DEF WellTyped, OnScreen, Place
<1>5. ShownTyped'
  BY <1>1, ListedTyped DEF WellTyped, ShownTyped
<1>6. Numbered'
  BY <1>1, <1>3 DEF WellTyped, Numbered
<1> QED BY <1>1, <1>3, <1>4, <1>5, <1>6, SameTypes DEF WellTyped

LEMMA NextWellTyped == WellTyped /\ [Next]_vars => WellTyped'
<1> SUFFICES ASSUME WellTyped, [Next]_vars PROVE WellTyped'
  OBVIOUS
<1>1. CASE UNCHANGED vars
  BY <1>1 DEF vars, rowVars, tabVars, WellTyped, RowsTyped, ShownTyped, FormsTyped, ScreenTyped,
              OnScreen, Numbered, NetTyped
<1>2. CASE Operator
  BY <1>2, SelectSiteTypes, CloseScreenTypes, EditTypes, TypeTypes, OpenAddTypes, CancelTypes,
     SubmitTypes DEF Operator
<1>3. ASSUME NEW r \in net, Serve(r) \/ LoseAnswer(r) \/ Settle(r) PROVE WellTyped'
  BY <1>3, ServeTypes, LoseAnswerTypes, ShowErrorTypes, GoOnTypes, CloseFormTypes,
     CloseWholeTypes DEF Settle, SiteDeleted, Created
<1>4. CASE Reload
  BY <1>4, ReloadTypes
<1>5. CASE \/ \E d \in Device, a \in Text, port \in Ports : OtherPatch(d, a, port)
           \/ \E s \in Site : OtherDeletes(s)
  BY <1>5, OthersTypes
<1> QED BY <1>1, <1>2, <1>3, <1>4, <1>5 DEF Next

LEMMA AlwaysWellTyped == Spec => []WellTyped
BY InitWellTyped, NextWellTyped, PTL DEF Spec

\* The rows keep to the schema, only enabled devices are on screen, and every
\* form and request is one the dashboard can hold.
THEOREM FormsTypeCorrect == Spec => []TypeOK
<1>1. ASSUME WellTyped PROVE TypeOK
  <2>1. /\ \A s \in Site : /\ site[s].state \in {"unborn", "live", "deleted"}
                           /\ site[s].row \in [name : Text, tz : Text]
        /\ \A d \in Device :
             /\ dev[d].state \in {"unborn", "live", "deleted"}
             /\ dev[d].row \in [site : Site, addr : Text, port : Ports,
                                enabled : BOOLEAN, user : Values, pass : Values]
    BY <1>1 DEF WellTyped, RowsTyped, RowState, SiteRow, DevRow
  <2>2. /\ DOMAIN shown.sites \subseteq Site /\ DOMAIN shown.devs \subseteq Device
        /\ \A d \in DOMAIN shown.devs : shown.devs[d].enabled
    BY <1>1 DEF WellTyped, ShownTyped
  <2>3. screen \in {"grid", "panel", "modal"} /\ panel.site \in Site
    BY <1>1 DEF WellTyped, ScreenTyped
  <2>4. \A p \in Place : form[p].no \in Nat /\ form[p].target \in Site \cup Device
    BY <1>1 DEF WellTyped, FormsTyped, FormRow
  <2>5. next \in 1 .. MaxForms + 1 /\ others \in 0 .. MaxForms
        /\ \A p \in Place : form[p].no < next
    BY <1>1 DEF WellTyped, Numbered
  <2>6. \A p \in Place : form[p].no \in 0 .. MaxForms
    BY <2>4, <2>5, Bounds
  <2>7. \A r \in net : r.place \in Place /\ r.stage \in {"sent", "ok", "error"}
    BY <1>1, RequestFields DEF WellTyped, NetTyped
  <2> QED BY <2>1, <2>2, <2>3, <2>4, <2>5, <2>6, <2>7 DEF TypeOK
<1> QED BY <1>1, AlwaysWellTyped, PTL

-----------------------------------------------------------------------------
(* Requests and the forms that wait for them.                              *)

Same(x, r) == x.place = r.place /\ x.form.no = r.form.no /\ x.panel = r.panel

Unique(rs) == \A r, q \in rs : r.place = q.place /\ r.form.no = q.form.no => r = q

\* The requests after a step in which none came and none went.
SameNet ==
  /\ Unique(net')
  /\ \A x \in net' : \E r \in net : Same(x, r)
  /\ \A r \in net : \E x \in net' : Same(x, r)

LEMMA StillSame == ASSUME Pending, UNCHANGED net PROVE SameNet
BY DEF Pending, SameNet, Unique, Same

LEMMA SwapSame ==
  ASSUME Pending, NEW r \in net, NEW x, Same(x, r), net' = (net \ {r}) \cup {x}
  PROVE  SameNet
BY DEF Pending, SameNet, Unique, Same

LEMMA AnswerSame ==
  ASSUME WellTyped, Pending, NEW r \in net, NEW stage \in {"sent", "ok", "error"},
         net' = Answer(r, stage)
  PROVE  SameNet
<1> DEFINE x == [r EXCEPT !.stage = stage]
<1>1. Same(x, r)
  BY Answered DEF Same, WellTyped, NetTyped
<1>2. net' = (net \ {r}) \cup {x}
  BY DEF Answer
<1> HIDE DEF x
<1> QED BY <1>1, <1>2, SwapSame

\* Marking copies as out of date tells no two requests apart.
LEMMA LaterSame ==
  ASSUME NEW rs \in SUBSET Request, Unique(rs), NEW places, NEW id, NEW os,
         \A x \in os : \E r \in rs : x = Later(r, places, id),
         \A r \in rs : Later(r, places, id) \in os
  PROVE  /\ Unique(os) /\ \A x \in os : \E r \in rs : Same(x, r)
         /\ \A r \in rs : \E x \in os : Same(x, r)
<1>1. \A r \in rs : Same(Later(r, places, id), r)
  BY LaterFields DEF Same
<1>2. ASSUME NEW x \in os, NEW y \in os, x.place = y.place, x.form.no = y.form.no PROVE x = y
  <2>1. PICK r \in rs : x = Later(r, places, id)
    OBVIOUS
  <2>2. PICK q \in rs : y = Later(q, places, id)
    OBVIOUS
  <2>3. r = q
    BY <1>1, <1>2, <2>1, <2>2 DEF Same, Unique
  <2> QED BY <2>1, <2>2, <2>3
<1> QED BY <1>1, <1>2 DEF Unique

LEMMA OvertakenSame ==
  ASSUME WellTyped, Pending, NEW r \in net, NEW stage \in {"sent", "ok", "error"}, NEW places,
         NEW id, net' = OutdateRequests(Answer(r, stage), places, id), next' = next
  PROVE  SameNet
<1> DEFINE x  == [r EXCEPT !.stage = stage]
           an == Answer(r, stage)
<1>1. /\ an \subseteq Request /\ \A y \in net' : \E q \in an : y = Later(q, places, id)
      /\ \A q \in an : Later(q, places, id) \in net'
  BY OvertakenTypes
<1>2. Same(x, r)
  BY Answered DEF Same, WellTyped, NetTyped
<1>3. an = (net \ {r}) \cup {x}
  BY DEF Answer
<1> HIDE DEF x, an
<1>4. /\ Unique(an) /\ \A y \in an : \E q \in net : Same(y, q)
      /\ \A q \in net : \E y \in an : Same(y, q)
  BY <1>2, <1>3 DEF Pending, Unique, Same
<1>5. /\ Unique(net') /\ \A y \in net' : \E q \in an : Same(y, q)
      /\ \A q \in an : \E y \in net' : Same(y, q)
  BY <1>1, <1>4, LaterSame
<1> QED BY <1>4, <1>5 DEF SameNet, Same

\* A step in which no request comes or goes: forms stay, go or are new.
LEMMA KeptPending ==
  ASSUME WellTyped, Pending, SameNet,
         \A p \in Place : \/ form'[p].no = 0
                          \/ form'[p].no = form[p].no /\ form'[p].saving = form[p].saving
                          \/ form'[p].no = next /\ ~form'[p].saving,
         panel'.no = panel.no \/ \A p \in {"site", "dev", "dropDev"} : form'[p].no = 0
  PROVE  Pending'
<1>1. \A r \in net : r.form.no # 0 /\ r.form.no \in Nat /\ r.form.no < next /\ r.place \in Place
  BY RequestFields DEF WellTyped, Numbered, NetTyped, FormRow
<1>2. next \in Nat
  BY Bounds DEF WellTyped, Numbered
<1>3. \A x \in net' : \E r \in net : Same(x, r)
  BY DEF SameNet
<1>4. \A x \in net' : x.form.no # 0 /\ x.form.no # next /\ x.place \in Place
  BY <1>1, <1>2, <1>3 DEF Same
<1>5. ASSUME NEW p \in Place, form'[p].no # 0
      PROVE  form'[p].saving <=> \E x \in net' : x.place = p /\ x.form.no = form'[p].no
  <2>1. CASE form'[p].no = form[p].no /\ form'[p].saving = form[p].saving
    <3>1. form[p].saving <=> \E r \in net : r.place = p /\ r.form.no = form[p].no
      BY <1>5, <2>1 DEF Pending
    <3>2. (\E r \in net : r.place = p /\ r.form.no = form[p].no)
            <=> \E x \in net' : x.place = p /\ x.form.no = form[p].no
      BY <1>3 DEF SameNet, Same
    <3> QED BY <2>1, <3>1, <3>2
  <2>2. CASE form'[p].no = next /\ ~form'[p].saving
    BY <1>4, <2>2
  <2> QED BY <1>5, <2>1, <2>2
<1>6. ASSUME NEW x \in net', x.place \in {"site", "dev", "dropDev"}, form'[x.place].no = x.form.no
      PROVE  panel'.no = x.panel
  <2>1. PICK r \in net : Same(x, r)
    BY <1>3
  <2>2. form'[x.place].no = form[x.place].no /\ form'[x.place].no # 0
    BY <1>4, <1>6
  <2>3. panel'.no = panel.no
    BY <1>6, <2>2
  <2>4. panel.no = r.panel
    BY <1>6, <2>1, <2>2 DEF Pending, Same
  <2> QED BY <2>1, <2>3, <2>4 DEF Same
<1> QED BY <1>5, <1>6 DEF Pending, SameNet, Unique

\* A request is settled: its form stops waiting, or is gone.
LEMMA SettledPending ==
  ASSUME WellTyped, Pending, NEW r \in net, net' = net \ {r},
         \A p \in Place : \/ form'[p].no = 0
                          \/ /\ form'[p].no = form[p].no
                             /\ form'[p].saving = form[p].saving
                             /\ p = r.place => form[p].no # r.form.no
                          \/ /\ form'[p].no = form[p].no /\ ~form'[p].saving
                             /\ p = r.place /\ form[p].no = r.form.no,
         panel'.no = panel.no \/ \A p \in Place : form'[p].no = 0
  PROVE  Pending'
<1>1. \A q \in net : q.form.no # 0 /\ q.place \in Place
  BY RequestFields DEF WellTyped, NetTyped
<1>2. Unique(net) /\ Unique(net')
  BY DEF Pending, Unique
<1>3. ASSUME NEW p \in Place, form'[p].no # 0
      PROVE  form'[p].saving <=> \E q \in net' : q.place = p /\ q.form.no = form'[p].no
  <2>1. form[p].saving <=> \E q \in net : q.place = p /\ q.form.no = form[p].no
    BY <1>3 DEF Pending
  <2>2. CASE form'[p].saving = form[p].saving /\ (p = r.place => form[p].no # r.form.no)
    BY <1>3, <2>1, <2>2
  <2>3. CASE ~form'[p].saving /\ p = r.place /\ form[p].no = r.form.no
    BY <1>2, <1>3, <2>3 DEF Unique
  <2> QED BY <1>3, <2>2, <2>3
<1>4. ASSUME NEW q \in net', q.place \in {"site", "dev", "dropDev"}, form'[q.place].no = q.form.no
      PROVE  panel'.no = q.panel
  <2>1. q \in net /\ q.form.no # 0 /\ q.place \in Place
    BY <1>1
  <2>2. form[q.place].no = q.form.no /\ panel'.no = panel.no
    BY <1>4, <2>1
  <2> QED BY <1>4, <2>1, <2>2 DEF Pending
<1> QED BY <1>2, <1>3, <1>4 DEF Pending, Unique

LEMMA MountPending ==
  ASSUME WellTyped, Pending,
         \/ EditSite \/ AskDeleteSite
         \/ \E d \in Device : EditDevice(d) \/ AskDeleteDevice(d)
  PROVE  Pending'
<1>0. PICK p \in Place : \E target, data, fresh : Mount(p, target, data, fresh)
  BY DEF EditSite, AskDeleteSite, EditDevice, AskDeleteDevice, Place
<1>1. PICK target, data, fresh : Mount(p, target, data, fresh)
  BY <1>0
<1>2. SameNet /\ panel' = panel
  BY <1>1, StillSame DEF Mount
<1> DEFINE m == Mounted(target, data, fresh)
<1>3. m.no = next /\ ~m.saving
  BY DEF Mounted
<1> HIDE DEF m
<1>4. form' = [form EXCEPT ![p] = m]
  BY <1>1 DEF Mount, m
<1>5. \A q \in Place : form'[q] = IF q = p THEN m ELSE form[q]
  BY <1>4 DEF WellTyped, FormsTyped
<1> QED BY <1>2, <1>3, <1>5, KeptPending

LEMMA OpenAddPending ==
  ASSUME WellTyped, Pending, NEW data \in AddForms, OpenAdd(data)
  PROVE  Pending'
<1> DEFINE m == Mounted(Home, data, FALSE)
<1>1. m.no = next /\ ~m.saving
  BY DEF Mounted
<1>2. form' = [q \in Place |-> IF q = "add" THEN m ELSE Unmounted]
  BY DEF OpenAdd, NoForms, Place
<1>3. SameNet
  BY StillSame DEF OpenAdd
<1> HIDE DEF m
<1>4. \A q \in Place : form'[q] = IF q = "add" THEN m ELSE Unmounted
  BY <1>2
<1>5. \A q \in {"site", "dev", "dropDev"} : q \in Place /\ q # "add"
  BY DEF Place
<1> QED BY <1>1, <1>3, <1>4, <1>5, UnmountedRow, KeptPending

LEMMA TypePending ==
  ASSUME WellTyped, Pending, Type
  PROVE  Pending'
<1>1. PICK p \in {"site", "dev"}, x \in Field, v \in Values \cup Ports \cup BOOLEAN :
        /\ Fill(p, x, v)
        /\ form' = [form EXCEPT ![p] = Filled(form[p], x, v)]
        /\ Fits(form[p].data, x, v)
        /\ p = "site" => form[p].data \in SiteData
        /\ p = "dev" => form[p].data \in DevData
  BY TypeFills
<1> DEFINE g == Filled(form[p], x, v)
<1>2. form[p] \in FormRow
  BY DEF WellTyped, FormsTyped, Place
<1>3. g.no = form[p].no /\ g.saving = form[p].saving
  BY <1>2 DEF Filled, FormRow
<1> HIDE DEF g
<1>4. \A q \in Place : form'[q] = IF q = p THEN g ELSE form[q]
  BY <1>1 DEF WellTyped, FormsTyped, g
<1>5. SameNet /\ panel' = panel
  BY <1>1, StillSame DEF Fill
<1> QED BY <1>3, <1>4, <1>5, KeptPending

LEMMA SubmitPending ==
  ASSUME WellTyped, Pending, NEW p \in Place, Submit(p)
  PROVE  Pending'
<1>1. PICK r \in Request : /\ net' = net \cup {r} /\ r.place = p /\ r.form = form[p]
                           /\ r.panel = panel.no
  BY SubmitSends
<1> DEFINE g == [form[p] EXCEPT !.saving = TRUE]
<1>2. form[p].no # 0 /\ ~form[p].saving /\ panel' = panel
  BY DEF Submit, CanSubmit
<1>3. g.no = form[p].no /\ g.saving
  BY DEF WellTyped, FormsTyped, FormRow
<1> HIDE DEF g
<1>4. \A q \in Place : form'[q] = IF q = p THEN g ELSE form[q]
  BY DEF Submit, WellTyped, FormsTyped, g
<1>5. \A q \in net : ~(q.place = p /\ q.form.no = form[p].no)
  BY <1>2 DEF Pending
<1>6. Unique(net')
  BY <1>1, <1>5 DEF Pending, Unique
<1>7. \A q \in Place : form'[q].no # 0 =>
        (form'[q].saving <=> \E x \in net' : x.place = q /\ x.form.no = form'[q].no)
  BY <1>1, <1>3, <1>4 DEF Pending
<1>8. \A x \in net' : x.place \in {"site", "dev", "dropDev"} /\ form'[x.place].no = x.form.no
        => panel'.no = x.panel
  <2>1. \A q \in Place : form'[q].no = form[q].no
    BY <1>3, <1>4
  <2>2. {"site", "dev", "dropDev"} \subseteq Place
    BY DEF Place
  <2> QED BY <1>1, <1>2, <2>1, <2>2 DEF Pending
<1> QED BY <1>6, <1>7, <1>8 DEF Pending, Unique

LEMMA OperatorPending ==
  ASSUME WellTyped, Pending, Operator
  PROVE  Pending'
<1>0. {"site", "dev", "dropDev"} \subseteq Place \ {"add"}
  BY DEF Place
<1>1. ASSUME NEW s \in Site, SelectSite(s) PROVE Pending'
  <2>1. SameNet /\ form' = form /\ screen = "grid"
    BY <1>1, StillSame DEF SelectSite
  <2>2. \A p \in {"site", "dev", "dropDev"} : form'[p].no = 0
    BY <1>0, <2>1 DEF WellTyped, OnScreen
  <2> QED BY <2>1, <2>2, KeptPending
<1>2. CASE CloseScreen
  <2>1. SameNet
    BY <1>2, StillSame DEF CloseScreen
  <2>2. \A p \in Place : form'[p].no = 0
    BY <1>2, UnmountedRow DEF CloseScreen, NoForms
  <2> QED BY <1>0, <2>1, <2>2, KeptPending
<1>3. ASSUME NEW p \in Place, Cancel(p) PROVE Pending'
  <2>1. SameNet /\ panel' = panel
    BY <1>3, StillSame DEF Cancel
  <2>2. \A q \in Place : form'[q] = IF q = p THEN Unmounted ELSE form[q]
    BY <1>3 DEF Cancel, WellTyped, FormsTyped
  <2> QED BY <2>1, <2>2, UnmountedRow, KeptPending
<1> QED BY <1>1, <1>2, <1>3, MountPending, OpenAddPending, TypePending, SubmitPending
        DEF Operator

LEMMA ServePending ==
  ASSUME WellTyped, Pending, NEW r \in net, Serve(r) \/ LoseAnswer(r) \/ GoOn(r)
  PROVE  Pending'
<1>1. CASE PatchSite(r) /\ screen' = screen /\ next' = next
  BY <1>1, OvertakenSame, OutdatedScreen, KeptPending DEF PatchSite
<1>2. CASE PatchDevice(r) /\ screen' = screen /\ next' = next
  BY <1>2, OvertakenSame, OutdatedScreen, KeptPending DEF PatchDevice
<1>3. CASE UNCHANGED <<panel, form>> /\ \E stage \in {"ok", "error"} : net' = Answer(r, stage)
  <2>1. SameNet
    BY <1>3, AnswerSame
  <2> QED BY <1>3, <2>1, KeptPending
<1>4. CASE CreateSite(r)
  <2>1. PICK x \in Request : /\ net' = (net \ {r}) \cup {x} /\ x.place = r.place
                             /\ x.form.no = r.form.no /\ x.panel = r.panel
    BY <1>4, CreateSiteStep
  <2>2. SameNet
    BY <2>1, SwapSame DEF Same
  <2> QED BY <1>4, <2>2, KeptPending DEF CreateSite
<1>5. CASE GoOn(r)
  <2> DEFINE x == [r EXCEPT !.op = "createDevice", !.stage = "sent"]
  <2>1. r \in Request /\ r.op = "createSite"
    BY <1>5 DEF GoOn, WellTyped, NetTyped
  <2>2. Same(x, r)
    BY <2>1, WentOn DEF Same
  <2>3. net' = (net \ {r}) \cup {x} /\ UNCHANGED <<panel, form>>
    BY <1>5 DEF GoOn, tabVars
  <2> HIDE DEF x
  <2>4. SameNet
    BY <2>2, <2>3, SwapSame
  <2> QED BY <2>3, <2>4, KeptPending
<1>6. LoseAnswer(r) => UNCHANGED <<panel, form>> /\ net' = Answer(r, "error")
  BY DEF LoseAnswer, tabVars
<1> QED BY <1>1, <1>2, <1>3, <1>4, <1>5, <1>6
        DEF Serve, DropSite, DropDevice, CreateDevice, Refuse

LEMMA SettlePending ==
  ASSUME WellTyped, Pending, NEW r \in net,
         ShowError(r) \/ CloseForm(r) \/ SiteDeleted(r) \/ Created(r)
  PROVE  Pending'
<1>0. r \in Request /\ r.place \in Place /\ r.form.no # 0
  BY RequestFields DEF WellTyped, NetTyped
<1>1. CASE ShowError(r)
  <2>1. \A p \in Place \ {r.place} : form'[p] = form[p]
    BY <1>1 DEF ShowError, Asker, WellTyped, FormsTyped
  <2>2. CASE form[r.place].no = r.form.no
    <3> DEFINE g == [form[r.place] EXCEPT !.saving = FALSE]
    <3>1. form'[r.place] = g
      BY <1>0, <1>1, <2>2 DEF ShowError, Asker, WellTyped, FormsTyped
    <3>2. g.no = form[r.place].no /\ ~g.saving
      BY <1>0 DEF WellTyped, FormsTyped, FormRow
    <3> HIDE DEF g
    <3> QED BY <1>1, <2>1, <2>2, <3>1, <3>2, SettledPending DEF ShowError
  <2>3. CASE form[r.place].no # r.form.no
    BY <1>1, <2>3, SettledPending DEF ShowError, Asker
  <2> QED BY <2>2, <2>3
<1>2. CASE CloseForm(r)
  <2>1. CASE panel.no = r.panel
    <3>1. \A p \in Place : form'[p] = IF p = r.place THEN Unmounted ELSE form[p]
      BY <1>2, <2>1 DEF CloseForm, WellTyped, FormsTyped
    <3> QED BY <1>2, <3>1, UnmountedRow, SettledPending DEF CloseForm
  <2>2. CASE panel.no # r.panel
    <3>1. form[r.place].no # r.form.no
      BY <1>2, <2>2 DEF CloseForm, Pending
    <3> QED BY <1>2, <2>2, <3>1, SettledPending DEF CloseForm
  <2> QED BY <2>1, <2>2
<1>3. ASSUME NEW open, CloseWhole(r, open),
             screen # open => form[r.place].no = 0
      PROVE  Pending'
  <2>1. CASE screen = open
    <3>1. \A p \in Place : form'[p].no = 0
      BY <1>3, <2>1, UnmountedRow DEF CloseWhole, NoForms
    <3> QED BY <1>3, <3>1, SettledPending DEF CloseWhole
  <2>2. CASE screen # open
    BY <1>0, <1>3, <2>2, SettledPending DEF CloseWhole
  <2> QED BY <2>1, <2>2
<1>4. CASE SiteDeleted(r)
  BY <1>3, <1>4 DEF SiteDeleted, WellTyped, OnScreen, Place
<1>5. CASE Created(r)
  BY <1>3, <1>5 DEF Created, WellTyped, OnScreen
<1> QED BY <1>1, <1>2, <1>4, <1>5

LEMMA NextPending == WellTyped /\ Pending /\ [Next]_vars => Pending'
<1> SUFFICES ASSUME WellTyped, Pending, [Next]_vars PROVE Pending'
  OBVIOUS
<1>1. CASE UNCHANGED vars
  BY <1>1 DEF vars, tabVars, Pending
<1>2. CASE Operator
  BY <1>2, OperatorPending
<1>3. ASSUME NEW r \in net, Serve(r) \/ LoseAnswer(r) \/ Settle(r) PROVE Pending'
  BY <1>3, ServePending, SettlePending DEF Settle
<1>4. CASE Reload
  <2>1. SameNet /\ panel' = panel
    BY <1>4, StillSame DEF Reload
  <2>2. \A p \in Place : form'[p] = Unmounted \/ form'[p] = form[p]
    BY <1>4 DEF Reload
  <2> QED BY <2>1, <2>2, UnmountedRow, KeptPending
<1>5. ASSUME NEW d \in Device, NEW a \in Text, NEW port \in Ports, OtherPatch(d, a, port)
      PROVE  Pending'
  <2>1. UNCHANGED <<screen, next>> /\ Outdate({"dev"}, d)
        /\ net' = OutdateRequests(net, {"dev"}, d)
    BY <1>5 DEF OtherPatch
  <2>2. net \subseteq Request /\ IsFiniteSet(net) /\ Unique(net)
    BY DEF WellTyped, NetTyped, Pending, Unique
  <2>3. SameNet
    BY <2>1, <2>2, OutdatedRequests, LaterSame DEF SameNet
  <2> QED BY <2>1, <2>3, OutdatedScreen, KeptPending
<1>6. ASSUME NEW s \in Site, OtherDeletes(s) PROVE Pending'
  <2>1. SameNet /\ UNCHANGED <<panel, form>>
    BY <1>6, StillSame DEF OtherDeletes, tabVars
  <2> QED BY <2>1, KeptPending
<1> QED BY <1>1, <1>2, <1>3, <1>4, <1>5, <1>6 DEF Next

LEMMA AlwaysPending == Spec => [](WellTyped /\ Pending)
<1>1. Init => Pending
  BY UnmountedRow DEF Init, NoForms, Pending, Unique
<1>2. (WellTyped /\ Pending) /\ [Next]_vars => (WellTyped /\ Pending)'
  BY NextWellTyped, NextPending
<1> QED BY InitWellTyped, <1>1, <1>2, PTL DEF Spec

\* A form that is saving has exactly one request under way, and a form that
\* is not has none: whatever is closed, reopened, refused or lost in between
\* (the saving flags of the five forms).
THEOREM SavingAlwaysPending == Spec => []SavingMeansPending
<1>1. ASSUME WellTyped, Pending PROVE SavingMeansPending
  <2> SUFFICES ASSUME NEW p \in Place, form[p].no # 0
               PROVE  Cardinality({r \in net : r.place = p /\ r.form.no = form[p].no})
                        = (IF form[p].saving THEN 1 ELSE 0)
    BY DEF SavingMeansPending
  <2> DEFINE own == {r \in net : r.place = p /\ r.form.no = form[p].no}
  <2>1. \A r, q \in own : r = q
    BY <1>1 DEF Pending
  <2>2. form[p].saving <=> own # {}
    BY <1>1 DEF Pending
  <2>3. form[p].saving \in BOOLEAN
    BY <1>1 DEF WellTyped, FormsTyped, FormRow
  <2> HIDE DEF own
  <2>4. CASE own = {}
    BY <2>2, <2>4, FS_EmptySet DEF own
  <2>5. CASE own # {}
    <3>1. PICK r : own = {r}
      BY <2>1, <2>5
    <3>2. Cardinality(own) = 1
      BY <3>1, FS_Singleton
    <3> QED BY <2>2, <2>5, <3>2 DEF own
  <2> QED BY <2>4, <2>5
<1> QED BY <1>1, AlwaysPending, PTL

-----------------------------------------------------------------------------
(* Copies and the rows they were made of.                                  *)

\* The only row that changes is one whose copies are marked.
RowsFollow(places, id) ==
  /\ \A s \in Site : site'[s].row = site[s].row \/ ("site" \in places /\ s = id)
  /\ \A d \in Device : dev[d].state # "unborn" =>
       /\ dev'[d].state # "unborn"
       /\ dev'[d].row = dev[d].row \/ ("dev" \in places /\ d = id)

\* g is what has become of f, in place p.
Follows(g, f, p, places, id) ==
  /\ g.target = f.target /\ g.data = f.data /\ g.touched = f.touched
  /\ g.fresh => f.fresh /\ ~(p \in places /\ f.target = id)

LEMMA FollowsItself ==
  ASSUME NEW f \in FormRow, NEW p, NEW places, NEW id
  PROVE  /\ ~(p \in places /\ f.target = id) => Follows(f, f, p, places, id)
         /\ Follows([f EXCEPT !.fresh = FALSE], f, p, places, id)
         /\ ~(p \in places /\ f.target = id)
              => \A b \in BOOLEAN : Follows([f EXCEPT !.saving = b], f, p, places, id)
BY DEF Follows, FormRow

LEMMA StillMatches ==
  ASSUME NEW places, NEW id, RowsFollow(places, id), NEW f, NEW g
  PROVE  /\ f.target \in Site /\ SiteCopy(f, site[f.target].row)
                /\ Follows(g, f, "site", places, id)
              => SiteCopy(g, site'[g.target].row)
         /\ f.target \in Device /\ DevCopy(f, dev[f.target]) /\ Follows(g, f, "dev", places, id)
              => DevCopy(g, dev'[g.target])
<1>1. ASSUME f.target \in Site, SiteCopy(f, site[f.target].row),
             Follows(g, f, "site", places, id)
      PROVE  SiteCopy(g, site'[g.target].row)
  BY <1>1 DEF RowsFollow, SiteCopy, Follows
<1>2. ASSUME f.target \in Device, DevCopy(f, dev[f.target]), Follows(g, f, "dev", places, id)
      PROVE  DevCopy(g, dev'[g.target])
  BY <1>2 DEF RowsFollow, DevCopy, Follows
<1> QED BY <1>1, <1>2

LEMMA KeptUpToDate ==
  ASSUME WellTyped, UpToDate, NEW places, NEW id, RowsFollow(places, id),
         \/ screen' # "panel"
         \/ screen' = screen /\ panel' = (IF "site" \in places /\ panel.site = id
                                          THEN [panel EXCEPT !.fresh = FALSE] ELSE panel)
         \/ ~("site" \in places) /\ panel'.copy = site[panel'.site].row /\ panel'.site \in Site
         \/ ~("site" \in places) /\ ~panel'.fresh,
         form'["site"].no # 0 =>
           \/ form["site"].no # 0 /\ Follows(form'["site"], form["site"], "site", places, id)
           \/ SiteCopy(form'["site"], site'[form'["site"].target].row),
         form'["dev"].no # 0 =>
           \/ form["dev"].no # 0 /\ Follows(form'["dev"], form["dev"], "dev", places, id)
           \/ DevCopy(form'["dev"], dev'[form'["dev"].target]),
         \A x \in net' : x.place \in {"site", "dev"} =>
           \/ \E r \in net : x.place = r.place /\ Follows(x.form, r.form, r.place, places, id)
           \/ \E p \in {"site", "dev"} : form[p].no # 0 /\ x.place = p
                                         /\ Follows(x.form, form[p], p, places, id)
  PROVE  UpToDate'
<1>0. "site" \in Place /\ "dev" \in Place
  BY DEF Place
<1>1. /\ form["site"].no # 0 => form["site"].target \in Site
      /\ form["dev"].no # 0 => form["dev"].target \in Device
  BY <1>0 DEF WellTyped, FormsTyped, MayBe
<1>2. \A r \in net : /\ r.place = "site" => r.form.target \in Site
                     /\ r.place = "dev" => r.form.target \in Device
  BY RequestFields DEF WellTyped, NetTyped, MayBe
<1>3. /\ form["site"].no # 0 => SiteCopy(form["site"], site[form["site"].target].row)
      /\ form["dev"].no # 0 => DevCopy(form["dev"], dev[form["dev"].target])
      /\ \A r \in net : /\ r.place = "site" => SiteCopy(r.form, site[r.form.target].row)
                        /\ r.place = "dev" => DevCopy(r.form, dev[r.form.target])
  BY DEF UpToDate, SiteMatches, DevMatches
<1>4. form'["site"].no # 0 => SiteCopy(form'["site"], site'[form'["site"].target].row)
  BY <1>1, <1>3, StillMatches
<1>5. form'["dev"].no # 0 => DevCopy(form'["dev"], dev'[form'["dev"].target])
  BY <1>1, <1>3, StillMatches
<1>6. ASSUME NEW x \in net'
      PROVE  /\ x.place = "site" => SiteCopy(x.form, site'[x.form.target].row)
             /\ x.place = "dev" => DevCopy(x.form, dev'[x.form.target])
  <2>1. CASE \E r \in net : x.place = r.place /\ Follows(x.form, r.form, r.place, places, id)
    BY <2>1, <1>2, <1>3, StillMatches
  <2>2. CASE \E p \in {"site", "dev"} : form[p].no # 0 /\ x.place = p
                                        /\ Follows(x.form, form[p], p, places, id)
    BY <2>2, <1>1, <1>3, StillMatches
  <2> QED BY <2>1, <2>2
<1>7. screen' = "panel" /\ panel'.fresh => panel'.copy = site'[panel'.site].row
  <2>1. panel \in [no : Nat, site : Site, copy : SiteRow \cup {<<>>}, fresh : BOOLEAN]
    BY DEF WellTyped, ScreenTyped
  <2> QED BY <2>1 DEF UpToDate, RowsFollow
<1> QED BY <1>4, <1>5, <1>6, <1>7 DEF UpToDate, SiteMatches, DevMatches

\* No row changes, or one that no copy is of.
LEMMA SameRowsFollow ==
  ASSUME \A s \in Site : site'[s].row = site[s].row,
         \A d \in Device : dev[d].state # "unborn" =>
           dev'[d].state # "unborn" /\ dev'[d].row = dev[d].row
  PROVE  RowsFollow({}, 0)
BY DEF RowsFollow

LEMMA SameScreenFollows ==
  ASSUME WellTyped, UpToDate, RowsFollow({}, 0), UNCHANGED <<screen, panel, form>>,
         \A x \in net' : x.place \in {"site", "dev"} =>
           \E r \in net : x.place = r.place /\ x.form = r.form
  PROVE  UpToDate'
<1>1. \A r \in net : r.form \in FormRow
  BY RequestFields DEF WellTyped, NetTyped
<1>2. form["site"] \in FormRow /\ form["dev"] \in FormRow
  BY DEF WellTyped, FormsTyped, Place
<1>3. \A x \in net' : x.place \in {"site", "dev"} =>
        \E r \in net : x.place = r.place /\ Follows(x.form, r.form, r.place, {}, 0)
  BY <1>1, FollowsItself
<1>4. /\ Follows(form["site"], form["site"], "site", {}, 0)
      /\ Follows(form["dev"], form["dev"], "dev", {}, 0)
  BY <1>2, FollowsItself
<1> QED BY <1>3, <1>4, KeptUpToDate

LEMMA LaterFollows ==
  ASSUME NEW r \in Request, NEW places, NEW id
  PROVE  Follows(Later(r, places, id).form, r.form, r.place, places, id)
<1>1. r.form \in FormRow
  BY RequestFields
<1>2. Later(r, places, id).form = IF r.place \in places /\ r.form.target = id
                                  THEN [r.form EXCEPT !.fresh = FALSE] ELSE r.form
  BY Overtaken DEF Later
<1> QED BY <1>1, <1>2, FollowsItself

\* A write marks the copies of what it changes.
LEMMA OutdatedFollows ==
  ASSUME WellTyped, UpToDate, NEW places, NEW id, RowsFollow(places, id), Outdate(places, id),
         next' = next, screen' = screen,
         \A x \in net' : \E r \in net :
           x.place = r.place /\ Follows(x.form, r.form, r.place, places, id)
  PROVE  UpToDate'
<1>1. \A q \in {"site", "dev"} : q \in Place
  BY DEF Place
<1>2. \A q \in {"site", "dev"} : form[q] \in FormRow
  BY <1>1 DEF WellTyped, FormsTyped
<1>3. \A q \in {"site", "dev"} :
        form'[q].no = form[q].no /\ Follows(form'[q], form[q], q, places, id)
  <2>1. \A q \in Place : /\ form'[q].no = form[q].no
                         /\ form'[q] = IF q \in places /\ form[q].target = id
                                       THEN [form[q] EXCEPT !.fresh = FALSE] ELSE form[q]
    BY OutdatedScreen
  <2>2. ASSUME NEW q \in {"site", "dev"} PROVE Follows(form'[q], form[q], q, places, id)
    <3>1. form[q] \in FormRow /\ q \in Place
      BY <1>1, <1>2
    <3>2. CASE q \in places /\ form[q].target = id
      BY <2>1, <3>1, <3>2 DEF Follows, FormRow
    <3>3. CASE ~(q \in places /\ form[q].target = id)
      BY <2>1, <3>1, <3>3, FollowsItself
    <3> QED BY <3>2, <3>3
  <2> QED BY <1>1, <2>1, <2>2
<1>4. panel' = IF "site" \in places /\ panel.site = id
               THEN [panel EXCEPT !.fresh = FALSE] ELSE panel
  BY OutdatedScreen
<1> QED BY <1>3, <1>4, KeptUpToDate

\* The tab changes no row; its forms stay, go, or hold what the lemma asks.
LEMMA TabFollows ==
  ASSUME WellTyped, UpToDate, UNCHANGED rowVars,
         \/ screen' # "panel"
         \/ screen' = screen /\ panel' = panel
         \/ panel'.copy = site[panel'.site].row /\ panel'.site \in Site
         \/ ~panel'.fresh,
         form'["site"].no # 0 =>
           \/ form'["site"] = form["site"]
           \/ \E b \in BOOLEAN : /\ form["site"].no # 0
                                 /\ form'["site"] = [form["site"] EXCEPT !.saving = b]
           \/ SiteCopy(form'["site"], site[form'["site"].target].row),
         form'["dev"].no # 0 =>
           \/ form'["dev"] = form["dev"]
           \/ \E b \in BOOLEAN : /\ form["dev"].no # 0
                                 /\ form'["dev"] = [form["dev"] EXCEPT !.saving = b]
           \/ DevCopy(form'["dev"], dev[form'["dev"].target]),
         \A x \in net' : x.place \in {"site", "dev"} =>
           \/ x \in net
           \/ \E p \in {"site", "dev"} : form[p].no # 0 /\ x.place = p /\ x.form = form[p]
  PROVE  UpToDate'
<1>1. site' = site /\ dev' = dev
  BY DEF rowVars
<1>2. RowsFollow({}, 0)
  BY <1>1 DEF RowsFollow
<1>3. \A r \in net : r.form \in FormRow
  BY RequestFields DEF WellTyped, NetTyped
<1>4. form["site"] \in FormRow /\ form["dev"] \in FormRow
  BY DEF WellTyped, FormsTyped, Place
<1>5. \A f \in FormRow, p \in {"site", "dev"} :
        /\ Follows(f, f, p, {}, 0)
        /\ \A b \in BOOLEAN : Follows([f EXCEPT !.saving = b], f, p, {}, 0)
  BY FollowsItself
<1>6. form'["site"].no # 0 =>
        \/ form["site"].no # 0 /\ Follows(form'["site"], form["site"], "site", {}, 0)
        \/ SiteCopy(form'["site"], site'[form'["site"].target].row)
  BY <1>1, <1>4, <1>5
<1>7. form'["dev"].no # 0 =>
        \/ form["dev"].no # 0 /\ Follows(form'["dev"], form["dev"], "dev", {}, 0)
        \/ DevCopy(form'["dev"], dev'[form'["dev"].target])
  BY <1>1, <1>4, <1>5
<1>8. \A x \in net' : x.place \in {"site", "dev"} =>
        \/ \E r \in net : x.place = r.place /\ Follows(x.form, r.form, r.place, {}, 0)
        \/ \E p \in {"site", "dev"} : form[p].no # 0 /\ x.place = p
                                      /\ Follows(x.form, form[p], p, {}, 0)
  BY <1>3, <1>4, <1>5
<1> HIDE DEF RowsFollow
<1> QED BY <1>2, <1>6, <1>7, <1>8, KeptUpToDate

LEMMA EditSiteUpToDate ==
  ASSUME WellTyped, UpToDate, EditSite
  PROVE  UpToDate'
<1> DEFINE m == Mounted(panel.site, panel.copy, panel.fresh)
<1>1. m.target = panel.site /\ m.data = panel.copy /\ m.fresh = panel.fresh
  BY DEF Mounted
<1>2. screen = "panel" /\ form' = [form EXCEPT !["site"] = m]
      /\ UNCHANGED <<rowVars, screen, panel, net>>
  BY DEF EditSite, HeaderFree, Mount
<1> HIDE DEF m
<1>3. SiteCopy(m, site[m.target].row)
  BY <1>1, <1>2 DEF SiteCopy, UpToDate
<1>4. form'["site"] = m /\ form'["dev"] = form["dev"]
  BY <1>2 DEF WellTyped, FormsTyped, Place
<1> QED BY <1>2, <1>3, <1>4, TabFollows

LEMMA EditDeviceUpToDate ==
  ASSUME WellTyped, UpToDate, NEW d \in Device, EditDevice(d)
  PROVE  UpToDate'
<1> DEFINE fresh == shown.devs[d] = dev[d].row
           m == Mounted(d, DeviceForm(d), fresh)
<1>1. m.target = d /\ m.data = DeviceForm(d) /\ m.fresh = fresh
  BY DEF Mounted
<1>2. RowShown(d) /\ form' = [form EXCEPT !["dev"] = m]
      /\ UNCHANGED <<rowVars, screen, panel, net>>
  BY DEF EditDevice, Mount
<1>3. /\ DeviceForm(d).user = "" /\ DeviceForm(d).pass = ""
      /\ DeviceForm(d).addr = shown.devs[d].addr
      /\ DeviceForm(d).enabled = shown.devs[d].enabled
      /\ DeviceForm(d).port = FilledIn(shown.devs[d].port)
  BY <1>2, DeviceFormData
<1>4. dev[d].state # "unborn"
  BY <1>2 DEF RowShown, WellTyped, ShownTyped
<1>5. fresh => shown.devs[d] = dev[d].row
  OBVIOUS
<1> HIDE DEF m, fresh
<1>6. DevCopy(m, dev[m.target])
  BY <1>1, <1>3, <1>4, <1>5 DEF DevCopy
<1>7. form'["dev"] = m /\ form'["site"] = form["site"]
  BY <1>2 DEF WellTyped, FormsTyped, Place
<1> QED BY <1>2, <1>6, <1>7, TabFollows

LEMMA TypeUpToDate ==
  ASSUME WellTyped, UpToDate, Type
  PROVE  UpToDate'
<1>1. PICK p \in {"site", "dev"}, x \in Field, v \in Values \cup Ports \cup BOOLEAN :
        /\ Fill(p, x, v)
        /\ form' = [form EXCEPT ![p] = Filled(form[p], x, v)]
        /\ Fits(form[p].data, x, v)
        /\ p = "site" => form[p].data \in SiteData
        /\ p = "dev" => form[p].data \in DevData
  BY TypeFills
<1> DEFINE g == Filled(form[p], x, v)
<1>2. form[p] \in FormRow /\ form[p].no # 0
  BY <1>1 DEF WellTyped, FormsTyped, Place, Fill
<1>3. /\ g.target = form[p].target /\ g.fresh = form[p].fresh
      /\ g.touched = form[p].touched \cup {x} /\ g.data = [form[p].data EXCEPT ![x] = v]
  BY <1>1, <1>2, FilledFields
<1> HIDE DEF g
<1>4. \A q \in {"site", "dev"} : form'[q] = IF q = p THEN g ELSE form[q]
  BY <1>1 DEF WellTyped, FormsTyped, Place, g
<1>5. UNCHANGED <<rowVars, screen, panel, net>>
  BY <1>1 DEF Fill
<1>6. CASE p = "site"
  <2>1. SiteCopy(form["site"], site[form["site"].target].row)
    BY <1>2, <1>6 DEF UpToDate, SiteMatches
  <2>2. form["site"].data \in SiteData
    BY <1>1, <1>6
  <2>3. \A y \in {"name", "tz"} \ {x} : g.data[y] = form["site"].data[y]
    BY <1>3, <1>6, <2>2 DEF SiteData
  <2>4. SiteCopy(g, site[g.target].row)
    BY <1>3, <1>6, <2>1, <2>3 DEF SiteCopy
  <2> QED BY <1>4, <1>5, <1>6, <2>4, TabFollows
<1>7. CASE p = "dev"
  <2>1. DevCopy(form["dev"], dev[form["dev"].target])
    BY <1>2, <1>7 DEF UpToDate, DevMatches
  <2>2. form["dev"].data \in DevData
    BY <1>1, <1>7
  <2>3. \A y \in {"addr", "port", "enabled", "user", "pass"} \ {x} :
          g.data[y] = form["dev"].data[y]
    BY <1>3, <1>7, <2>2 DEF DevData
  <2>4. DevCopy(g, dev[g.target])
    BY <1>3, <1>7, <2>1, <2>2, <2>3 DEF DevCopy
  <2> QED BY <1>4, <1>5, <1>7, <2>4, TabFollows
<1> QED BY <1>6, <1>7

LEMMA SubmitUpToDate ==
  ASSUME WellTyped, UpToDate, NEW p \in Place, Submit(p)
  PROVE  UpToDate'
<1>1. PICK r \in Request : net' = net \cup {r} /\ r.place = p /\ r.form = form[p]
  BY SubmitSends
<1>2. /\ form[p].no # 0 /\ UNCHANGED <<rowVars, screen, panel>>
      /\ form' = [form EXCEPT ![p].saving = TRUE]
  BY DEF Submit, CanSubmit
<1>3. \A q \in {"site", "dev"} :
        form'[q] = form[q] \/ (form[q].no # 0 /\ form'[q] = [form[q] EXCEPT !.saving = TRUE])
  BY <1>2 DEF WellTyped, FormsTyped, Place
<1> QED BY <1>1, <1>2, <1>3, TabFollows

LEMMA OperatorUpToDate ==
  ASSUME WellTyped, UpToDate, Operator
  PROVE  UpToDate'
<1>0. "site" \in Place /\ "dev" \in Place
  BY DEF Place
<1>1. ASSUME NEW s \in Site, SelectSite(s) PROVE UpToDate'
  <2>1. UNCHANGED <<rowVars, form, net>>
    BY <1>1 DEF SelectSite
  <2>2. panel' = [no |-> next, site |-> s, copy |-> shown.sites[s],
                  fresh |-> shown.sites[s] = site[s].row]
    BY <1>1 DEF SelectSite
  <2>3. panel'.site = s /\ panel'.copy = shown.sites[s]
        /\ (panel'.fresh => shown.sites[s] = site[s].row)
    BY <2>2
  <2> QED BY <2>1, <2>3, TabFollows
<1>2. CASE CloseScreen
  BY <1>0, <1>2, UnmountedRow, TabFollows DEF CloseScreen, NoForms
<1>3. ASSUME NEW p \in Place \ {"site", "dev"}, NEW target, NEW data, NEW fresh,
             Mount(p, target, data, fresh)
      PROVE  UpToDate'
  <2>1. form'["site"] = form["site"] /\ form'["dev"] = form["dev"]
    BY <1>0, <1>3 DEF Mount, WellTyped, FormsTyped
  <2> QED BY <1>3, <2>1, TabFollows DEF Mount
<1>4. CASE AskDeleteSite \/ \E d \in Device : AskDeleteDevice(d)
  BY <1>3, <1>4 DEF AskDeleteSite, AskDeleteDevice, Place
<1>5. ASSUME NEW data, OpenAdd(data) PROVE UpToDate'
  <2>1. screen' = "modal" /\ UNCHANGED <<rowVars, net>>
    BY <1>5 DEF OpenAdd
  <2>2. form'["site"] = Unmounted /\ form'["dev"] = Unmounted
    BY <1>0, <1>5 DEF OpenAdd, NoForms
  <2> QED BY <2>1, <2>2, UnmountedRow, TabFollows
<1>6. ASSUME NEW p \in Place, Cancel(p) PROVE UpToDate'
  <2>1. \A q \in {"site", "dev"} : form'[q] = IF q = p THEN Unmounted ELSE form[q]
    BY <1>0, <1>6 DEF Cancel, WellTyped, FormsTyped
  <2> QED BY <1>6, <2>1, UnmountedRow, TabFollows DEF Cancel
<1> QED BY <1>1, <1>2, <1>4, <1>5, <1>6, EditSiteUpToDate, EditDeviceUpToDate, TypeUpToDate,
     SubmitUpToDate DEF Operator

\* The requests after one of them is answered, and others are overtaken.
LEMMA OvertakenFollows ==
  ASSUME WellTyped, NEW r \in net, NEW places, NEW id,
         net' = OutdateRequests(Answer(r, "ok"), places, id), next' = next
  PROVE  \A x \in net' : \E q \in net :
           x.place = q.place /\ Follows(x.form, q.form, q.place, places, id)
<1> DEFINE y  == [r EXCEPT !.stage = "ok"]
           an == Answer(r, "ok")
<1>1. an \subseteq Request /\ \A x \in net' : \E q \in an : x = Later(q, places, id)
  BY OvertakenTypes
<1>2. y.place = r.place /\ y.form = r.form
  BY Answered DEF WellTyped, NetTyped
<1>3. an = (net \ {r}) \cup {y}
  BY DEF Answer
<1> HIDE DEF y, an
<1>4. \A q \in an : \E o \in net : q.place = o.place /\ q.form = o.form
  BY <1>2, <1>3
<1> SUFFICES ASSUME NEW x \in net'
             PROVE  \E o \in net : x.place = o.place /\ Follows(x.form, o.form, o.place, places, id)
  OBVIOUS
<1>5. PICK q \in an : x = Later(q, places, id)
  BY <1>1
<1>6. x.place = q.place /\ Follows(x.form, q.form, q.place, places, id)
  BY <1>1, <1>5, LaterFields, LaterFollows
<1> QED BY <1>4, <1>6

LEMMA PatchUpToDate ==
  ASSUME WellTyped, UpToDate, NEW r \in net, PatchSite(r) \/ PatchDevice(r),
         next' = next, screen' = screen
  PROVE  UpToDate'
<1>1. CASE PatchSite(r)
  <2> DEFINE s == r.form.target
  <2>1. RowsFollow({"site"}, s)
    <3>1. s \in Site /\ dev' = dev
      BY <1>1, PatchSiteRow
    <3>2. PICK row \in SiteRow : site' = [site EXCEPT ![s].row = row]
      BY <1>1, PatchSiteRow
    <3>3. \A u \in Site : site'[u].row = IF u = s THEN row ELSE site[u].row
      BY <3>1, <3>2, SiteRowKept
    <3> QED BY <3>1, <3>3 DEF RowsFollow
  <2>2. Outdate({"site"}, s) /\ net' = OutdateRequests(Answer(r, "ok"), {"site"}, s)
    BY <1>1 DEF PatchSite
  <2> HIDE DEF s
  <2>3. \A x \in net' : \E q \in net :
          x.place = q.place /\ Follows(x.form, q.form, q.place, {"site"}, s)
    BY <2>2, OvertakenFollows
  <2> QED BY <2>1, <2>2, <2>3, OutdatedFollows
<1>2. CASE PatchDevice(r)
  <2> DEFINE d == r.form.target
  <2>1. RowsFollow({"dev"}, d)
    <3>1. d \in Device /\ site' = site
      BY <1>2, PatchDeviceRow
    <3>2. PICK row \in DevRow : dev' = [dev EXCEPT ![d].row = row]
      BY <1>2, PatchDeviceRow
    <3>3. \A e \in Device : dev'[e].state = dev[e].state
                            /\ dev'[e].row = IF e = d THEN row ELSE dev[e].row
      BY <3>1, <3>2, DevRowKept
    <3> QED BY <3>1, <3>3 DEF RowsFollow
  <2>2. Outdate({"dev"}, d) /\ net' = OutdateRequests(Answer(r, "ok"), {"dev"}, d)
    BY <1>2 DEF PatchDevice
  <2> HIDE DEF d
  <2>3. \A x \in net' : \E q \in net :
          x.place = q.place /\ Follows(x.form, q.form, q.place, {"dev"}, d)
    BY <2>2, OvertakenFollows
  <2> QED BY <2>1, <2>2, <2>3, OutdatedFollows
<1> QED BY <1>1, <1>2

LEMMA AnswerUpToDate ==
  ASSUME WellTyped, UpToDate, NEW r \in net, NEW stage \in {"sent", "ok", "error"},
         net' = Answer(r, stage), RowsFollow({}, 0), UNCHANGED <<screen, panel, form>>
  PROVE  UpToDate'
<1> DEFINE y  == [r EXCEPT !.stage = stage]
<1>1. y.place = r.place /\ y.form = r.form
  BY Answered DEF WellTyped, NetTyped
<1>2. net' = (net \ {r}) \cup {y}
  BY DEF Answer
<1> HIDE DEF y
<1>3. \A x \in net' : \E q \in net : x.place = q.place /\ x.form = q.form
  BY <1>1, <1>2
<1> QED BY <1>3, SameScreenFollows

LEMMA ServeUpToDate ==
  ASSUME WellTyped, UpToDate, NEW r \in net, Serve(r) \/ LoseAnswer(r) \/ GoOn(r)
  PROVE  UpToDate'
<1>1. screen' = screen /\ next' = next
  BY DEF Serve, LoseAnswer, GoOn, tabVars
<1>2. CASE PatchSite(r) \/ PatchDevice(r)
  BY <1>1, <1>2, PatchUpToDate
<1>3. CASE DropSite(r) \/ DropDevice(r)
  <2>1. \A s \in Site : site'[s].row = site[s].row
    BY <1>3, DropKept DEF DropSite, DropDevice, LiveSites
  <2>2. RowsKept /\ \A d \in Device : dev'[d].row = dev[d].row
    BY <1>3, DropKept DEF DropSite, DropDevice, LiveSites
  <2>3. RowsFollow({}, 0)
    BY <2>1, <2>2, SameRowsFollow DEF RowsKept
  <2>4. net' = Answer(r, "ok") /\ UNCHANGED <<panel, form>>
    BY <1>3 DEF DropSite, DropDevice
  <2> QED BY <1>1, <2>3, <2>4, AnswerUpToDate
<1>4. CASE CreateSite(r)
  <2>1. PICK s \in Site, x \in Request :
          /\ site[s].state = "unborn" /\ site' = [site EXCEPT ![s].state = "live"]
          /\ dev' = dev
          /\ net' = (net \ {r}) \cup {x} /\ x.place = r.place /\ r.place = "add"
    BY <1>4, CreateSiteStep
  <2>2. \A u \in Site : site'[u].row = site[u].row
    BY <2>1, NewSiteKept
  <2>3. RowsFollow({}, 0)
    BY <2>1, <2>2, SameRowsFollow
  <2>4. \A y \in net' : y.place \in {"site", "dev"} =>
          \E q \in net : y.place = q.place /\ y.form = q.form
    BY <2>1
  <2> QED BY <1>1, <1>4, <2>3, <2>4, SameScreenFollows DEF CreateSite
<1>5. CASE CreateDevice(r)
  <2>1. net' = Answer(r, "ok") /\ site' = site /\ UNCHANGED <<panel, form>>
    BY <1>5, CreateDeviceStep DEF CreateDevice
  <2>2. PICK d \in Device, row \in DevRow :
          /\ dev[d].state = "unborn"
          /\ dev' = [dev EXCEPT ![d].state = "live", ![d].row = row]
    BY <1>5, CreateDeviceStep
  <2>3. \A e \in Device \ {d} : dev'[e] = dev[e]
    BY <2>1, <2>2, NewDeviceKept
  <2>4. RowsFollow({}, 0)
    BY <2>1, <2>2, <2>3, SameRowsFollow
  <2> QED BY <1>1, <2>1, <2>4, AnswerUpToDate
<1>6. CASE Refuse(r) \/ LoseAnswer(r)
  <2>1. net' = Answer(r, "error") /\ UNCHANGED <<site, dev, panel, form>>
    BY <1>6 DEF Refuse, LoseAnswer, rowVars, tabVars
  <2>2. RowsFollow({}, 0)
    BY <2>1, SameRowsFollow
  <2> QED BY <1>1, <2>1, <2>2, AnswerUpToDate
<1>7. CASE GoOn(r)
  <2> DEFINE x == [r EXCEPT !.op = "createDevice", !.stage = "sent"]
  <2>1. r \in Request /\ r.op = "createSite"
    BY <1>7 DEF GoOn, WellTyped, NetTyped
  <2>2. x.place = r.place /\ x.form = r.form
    BY <2>1, WentOn
  <2>3. net' = (net \ {r}) \cup {x} /\ UNCHANGED <<site, dev, panel, form>>
    BY <1>7 DEF GoOn, tabVars, rowVars
  <2> HIDE DEF x
  <2>4. \A y \in net' : \E q \in net : y.place = q.place /\ y.form = q.form
    BY <2>2, <2>3
  <2>5. RowsFollow({}, 0)
    BY <2>3, SameRowsFollow
  <2> QED BY <1>1, <2>3, <2>4, <2>5, SameScreenFollows
<1> QED BY <1>2, <1>3, <1>4, <1>5, <1>6, <1>7 DEF Serve

LEMMA SettleUpToDate ==
  ASSUME WellTyped, UpToDate, NEW r \in net,
         ShowError(r) \/ CloseForm(r) \/ SiteDeleted(r) \/ Created(r)
  PROVE  UpToDate'
<1>0. "site" \in Place /\ "dev" \in Place
  BY DEF Place
<1>1. CASE ShowError(r)
  <2>1. UNCHANGED <<rowVars, screen, panel>> /\ net' = net \ {r}
    BY <1>1 DEF ShowError
  <2>2. \A q \in {"site", "dev"} :
          form'[q] = form[q] \/ form'[q] = [form[q] EXCEPT !.saving = FALSE]
    BY <1>0, <1>1 DEF ShowError, Asker, WellTyped, FormsTyped
  <2>3. \A q \in {"site", "dev"} : form'[q].no # 0 => form[q].no # 0
    BY <1>0, <2>2 DEF WellTyped, FormsTyped, FormRow
  <2> QED BY <2>1, <2>2, <2>3, TabFollows
<1>2. CASE CloseForm(r)
  <2>1. UNCHANGED <<rowVars, screen, panel>> /\ net' = net \ {r}
    BY <1>2 DEF CloseForm
  <2>2. \A q \in {"site", "dev"} : form'[q] = form[q] \/ form'[q] = Unmounted
    BY <1>0, <1>2 DEF CloseForm, WellTyped, FormsTyped
  <2> QED BY <2>1, <2>2, UnmountedRow, TabFollows
<1>3. ASSUME NEW open, CloseWhole(r, open) PROVE UpToDate'
  <2>1. UNCHANGED rowVars /\ net' = net \ {r}
    BY <1>3 DEF CloseWhole
  <2>2. CASE screen = open
    BY <1>0, <1>3, <2>1, <2>2, UnmountedRow, TabFollows DEF CloseWhole, NoForms
  <2>3. CASE screen # open
    BY <1>3, <2>1, <2>3, TabFollows DEF CloseWhole
  <2> QED BY <2>2, <2>3
<1> QED BY <1>1, <1>2, <1>3 DEF SiteDeleted, Created

LEMMA NextUpToDate == WellTyped /\ UpToDate /\ [Next]_vars => UpToDate'
<1> SUFFICES ASSUME WellTyped, UpToDate, [Next]_vars PROVE UpToDate'
  OBVIOUS
<1>1. CASE UNCHANGED vars
  BY <1>1, TabFollows DEF vars, tabVars
<1>2. CASE Operator
  BY <1>2, OperatorUpToDate
<1>3. ASSUME NEW r \in net, Serve(r) \/ LoseAnswer(r) \/ Settle(r) PROVE UpToDate'
  BY <1>3, ServeUpToDate, SettleUpToDate DEF Settle
<1>4. CASE Reload
  <2>1. \A p \in {"site", "dev"} : form'[p] = Unmounted \/ form'[p] = form[p]
    BY <1>4 DEF Reload, Place
  <2> QED BY <1>4, <2>1, UnmountedRow, TabFollows DEF Reload
<1>5. ASSUME NEW d \in Device, NEW a \in Text, NEW port \in Ports, OtherPatch(d, a, port)
      PROVE  UpToDate'
  <2>1. UNCHANGED <<screen, next>> /\ Outdate({"dev"}, d)
        /\ net' = OutdateRequests(net, {"dev"}, d) /\ site' = site
    BY <1>5 DEF OtherPatch
  <2> DEFINE row == [dev[d].row EXCEPT !.addr = a, !.port = port]
  <2>2. dev[d].row \in DevRow
    BY DEF WellTyped, RowsTyped
  <2>3. row \in DevRow /\ dev' = [dev EXCEPT ![d].row = row]
    BY <1>5, <2>2 DEF OtherPatch, DevRow
  <2> HIDE DEF row
  <2>4. RowsFollow({"dev"}, d)
    BY <2>1, <2>3, DevRowKept DEF RowsFollow
  <2>5. net \subseteq Request /\ IsFiniteSet(net)
    BY DEF WellTyped, NetTyped
  <2>6. \A x \in net' : \E q \in net : x = Later(q, {"dev"}, d)
    BY <2>1, <2>5, OutdatedRequests
  <2>7. \A x \in net' : \E q \in net :
          x.place = q.place /\ Follows(x.form, q.form, q.place, {"dev"}, d)
    BY <2>5, <2>6, LaterFields, LaterFollows
  <2> QED BY <2>1, <2>4, <2>7, OutdatedFollows
<1>6. ASSUME NEW s \in Site, OtherDeletes(s) PROVE UpToDate'
  <2>1. RowsKept /\ (\A d \in Device : dev'[d].row = dev[d].row)
        /\ (\A u \in Site : site'[u].row = site[u].row)
    BY <1>6, DropKept DEF OtherDeletes
  <2>2. RowsFollow({}, 0)
    BY <2>1, SameRowsFollow DEF RowsKept
  <2> QED BY <1>6, <2>2, SameScreenFollows DEF OtherDeletes, tabVars
<1> QED BY <1>1, <1>2, <1>3, <1>4, <1>5, <1>6 DEF Next

LEMMA AlwaysUpToDate == Spec => [](WellTyped /\ UpToDate)
<1>1. Init => UpToDate
  BY UnmountedRow DEF Init, NoForms, UpToDate, Place
<1>2. (WellTyped /\ UpToDate) /\ [Next]_vars => (WellTyped /\ UpToDate)'
  BY NextWellTyped, NextUpToDate
<1> QED BY InitWellTyped, <1>1, <1>2, PTL DEF Spec

LEMMA SavedSite ==
  ASSUME WellTyped, UpToDate, NEW r \in net, PatchSite(r), r.form.fresh,
         NEW f \in {"name", "tz"}, f \notin r.form.touched
  PROVE  Tidied(site[r.form.target].row[f], site'[r.form.target].row[f])
<1> DEFINE s == r.form.target
<1>1. s \in Site /\ r.place = "site" /\ dev' = dev
  BY PatchSiteRow
<1>2. PICK row \in SiteRow :
        /\ site' = [site EXCEPT ![s].row = row]
        /\ row.name = Trim[r.form.data.name]
        /\ row.tz \in {site[s].row.tz, Trim[r.form.data.tz]}
  BY PatchSiteRow
<1>3. \A u \in Site : site'[u].row = IF u = s THEN row ELSE site[u].row
  BY <1>1, <1>2, SiteRowKept
<1>4. SiteCopy(r.form, site[s].row)
  BY <1>1 DEF UpToDate, SiteMatches
<1>5. r.form.data[f] = site[s].row[f]
  BY <1>4 DEF SiteCopy
<1> QED BY <1>1, <1>2, <1>3, <1>5 DEF Tidied

LEMMA SavedDevice ==
  ASSUME WellTyped, UpToDate, NEW r \in net, PatchDevice(r), r.form.fresh
  PROVE  LET old == dev[r.form.target].row
             new == dev'[r.form.target].row
             idle(f) == f \notin r.form.touched
         IN  /\ idle("addr") => Tidied(old.addr, new.addr)
             /\ idle("port") => new.port \in {old.port, FilledIn(old.port)}
             /\ idle("enabled") => new.enabled = old.enabled
             /\ idle("user") /\ idle("pass") => new.user = old.user /\ new.pass = old.pass
<1> DEFINE d == r.form.target
<1>1. d \in Device /\ r.place = "dev" /\ site' = site
  BY PatchDeviceRow
<1>2. PICK row \in DevRow :
        /\ dev' = [dev EXCEPT ![d].row = row]
        /\ row.addr = Trim[r.form.data.addr] /\ row.port = r.form.data.port
        /\ row.enabled = r.form.data.enabled
        /\ r.form.data.user = "" /\ r.form.data.pass = "" =>
             row.user = dev[d].row.user /\ row.pass = dev[d].row.pass
  BY PatchDeviceRow
<1>3. dev'[d].row = row
  BY <1>1, <1>2, DevRowKept
<1>4. DevCopy(r.form, dev[d])
  BY <1>1 DEF UpToDate, DevMatches
<1>5. "addr" \notin r.form.touched => Tidied(dev[d].row.addr, row.addr)
  BY <1>2, <1>4 DEF DevCopy, Tidied
<1>6. "port" \notin r.form.touched => row.port = FilledIn(dev[d].row.port)
  BY <1>2, <1>4 DEF DevCopy
<1>7. "enabled" \notin r.form.touched => row.enabled = dev[d].row.enabled
  BY <1>2, <1>4 DEF DevCopy
<1>8. "user" \notin r.form.touched /\ "pass" \notin r.form.touched =>
        row.user = dev[d].row.user /\ row.pass = dev[d].row.pass
  BY <1>2, <1>4 DEF DevCopy
<1> QED BY <1>3, <1>5, <1>6, <1>7, <1>8

\* A save leaves alone what the operator left alone, as long as the form was up
\* to date when it was opened and nobody overtook it, but for what the form does
\* on its own: it trims texts and fills in missing ports
\* (SiteDetailPanel.tsx:189, :283-325).
THEOREM SavesLeaveTheRest == Spec => SaveLeavesTheRest
<1> DEFINE Kept(r) ==
      Serve(r) /\ r.form.fresh =>
       LET id      == r.form.target
           idle(f) == f \notin r.form.touched
       IN  /\ r.op = "patchSite" =>
                \A f \in {"name", "tz"} :
                  idle(f) => Tidied(site[id].row[f], site'[id].row[f])
           /\ r.op = "patchDevice" =>
                LET old == dev[id].row
                    new == dev'[id].row
                IN  /\ idle("addr") => Tidied(old.addr, new.addr)
                    /\ idle("port") => new.port \in {old.port, FilledIn(old.port)}
                    /\ idle("enabled") => new.enabled = old.enabled
                    /\ idle("user") /\ idle("pass") =>
                         new.user = old.user /\ new.pass = old.pass
<1>1. ASSUME WellTyped, UpToDate, NEW r \in net PROVE Kept(r)
  <2> SUFFICES ASSUME Serve(r), r.form.fresh PROVE Kept(r)
    OBVIOUS
  <2>1. CASE PatchSite(r)
    BY <1>1, <2>1, SavedSite DEF PatchSite
  <2>2. CASE PatchDevice(r)
    BY <1>1, <2>2, SavedDevice DEF PatchDevice
  <2>3. CASE Refuse(r)
    BY <2>3 DEF Refuse, rowVars, Tidied
  <2>4. CASE DropSite(r) \/ DropDevice(r) \/ CreateSite(r) \/ CreateDevice(r)
    BY <2>4 DEF DropSite, DropDevice, CreateSite, CreateDevice
  <2> QED BY <2>1, <2>2, <2>3, <2>4 DEF Serve
<1>2. WellTyped /\ UpToDate /\ [Next]_vars => [\A r \in net : Kept(r)]_vars
  BY <1>1
<1> QED BY <1>2, AlwaysUpToDate, PTL DEF Spec, SaveLeavesTheRest

-----------------------------------------------------------------------------
(* What "Create" creates.                                                  *)

\* A set loses a member, has one replaced, or gets one more.
LEMMA CountShrinks ==
  ASSUME NEW S, IsFiniteSet(S), NEW r \in S, NEW T, T \subseteq S \ {r}
  PROVE  IsFiniteSet(T) /\ Cardinality(T) \in Nat /\ Cardinality(S) \in Nat
         /\ Cardinality(T) + 1 <= Cardinality(S)
<1>1. /\ IsFiniteSet(S \ {r}) /\ Cardinality(S \ {r}) = Cardinality(S) - 1
  BY FS_RemoveElement
<1>2. IsFiniteSet(T) /\ Cardinality(T) <= Cardinality(S \ {r})
  BY <1>1, FS_Subset
<1>3. Cardinality(T) \in Nat /\ Cardinality(S) \in Nat
  BY <1>2, FS_CardinalityType
<1> QED BY <1>1, <1>2, <1>3

LEMMA CountGrows ==
  ASSUME NEW S, IsFiniteSet(S), NEW x, NEW T, T \subseteq S \cup {x}
  PROVE  IsFiniteSet(T) /\ Cardinality(T) \in Nat /\ Cardinality(S) \in Nat
         /\ Cardinality(T) <= Cardinality(S) + 1
<1>1. /\ IsFiniteSet(S \cup {x})
      /\ Cardinality(S \cup {x}) = Cardinality(S) \/ Cardinality(S \cup {x}) = Cardinality(S) + 1
  BY FS_AddElement
<1>2. IsFiniteSet(T) /\ Cardinality(T) <= Cardinality(S \cup {x})
  BY <1>1, FS_Subset
<1>3. Cardinality(T) \in Nat /\ Cardinality(S) \in Nat
  BY <1>2, FS_CardinalityType
<1> QED BY <1>1, <1>2, <1>3

LEMMA CountSwaps ==
  ASSUME NEW S, IsFiniteSet(S), NEW r \in S, NEW x, NEW T, T \subseteq (S \ {r}) \cup {x}
  PROVE  IsFiniteSet(T) /\ Cardinality(T) \in Nat /\ Cardinality(S) \in Nat
         /\ Cardinality(T) <= Cardinality(S)
<1>1. /\ IsFiniteSet(S \ {r}) /\ Cardinality(S \ {r}) = Cardinality(S) - 1
      /\ Cardinality(S) \in Nat
  BY FS_RemoveElement, FS_CardinalityType
<1>2. /\ IsFiniteSet(T) /\ Cardinality(T) \in Nat
      /\ Cardinality(T) <= Cardinality(S \ {r}) + 1
  BY <1>1, CountGrows
<1> QED BY <1>1, <1>2

LEMMA CountSame ==
  ASSUME NEW S, IsFiniteSet(S), NEW T, T \subseteq S
  PROVE  IsFiniteSet(T) /\ Cardinality(T) \in Nat /\ Cardinality(S) \in Nat
         /\ Cardinality(T) <= Cardinality(S)
BY FS_Subset, FS_CardinalityType

LEMMA PressesFinite ==
  ASSUME WellTyped
  PROVE  IsFiniteSet(SitePresses) /\ IsFiniteSet(UnitPresses)
BY FS_Subset DEF WellTyped, NetTyped, SitePresses, UnitPresses

LEMMA PressableNat == Pressable \in Nat /\ Pressable <= 1
BY DEF Pressable

LEMMA SumStays ==
  \A a, b, c, d, p, q, t, u \in Nat :
    a + b + p <= t /\ c + d <= a + b /\ q + t <= p + u => c + d + q <= u
OBVIOUS

\* What was created and what may yet be created never outgrow the tries.
LEMMA KeptCounted ==
  ASSUME WellTyped, Counted, tries' \in Nat,
         IsFiniteSet(NewSites'), IsFiniteSet(NewDevices'),
         Pressable' \in Nat, Pressable' + tries <= Pressable + tries',
         Cardinality(SitePresses') \in Nat, Cardinality(UnitPresses') \in Nat,
         Cardinality(NewSites') + Cardinality(SitePresses')
           <= Cardinality(NewSites) + Cardinality(SitePresses),
         Cardinality(NewDevices') + Cardinality(UnitPresses')
           <= Cardinality(NewDevices) + Cardinality(UnitPresses)
  PROVE  Counted'
<1>1. /\ Cardinality(NewSites) \in Nat /\ Cardinality(NewDevices) \in Nat
      /\ Cardinality(NewSites') \in Nat /\ Cardinality(NewDevices') \in Nat
      /\ Cardinality(SitePresses) \in Nat /\ Cardinality(UnitPresses) \in Nat
  BY PressesFinite, FS_CardinalityType DEF Counted
<1>2. Pressable \in Nat /\ tries \in Nat
  BY PressableNat DEF WellTyped, Numbered
<1>3. /\ Cardinality(NewSites) + Cardinality(SitePresses) + Pressable <= tries
      /\ Cardinality(NewDevices) + Cardinality(UnitPresses) + Pressable <= tries
  BY DEF Counted
<1>4. Cardinality(NewSites') + Cardinality(SitePresses') + Pressable' <= tries'
  BY <1>1, <1>2, <1>3, SumStays
<1>5. Cardinality(NewDevices') + Cardinality(UnitPresses') + Pressable' <= tries'
  BY <1>1, <1>2, <1>3, SumStays
<1> QED BY <1>4, <1>5 DEF Counted

\* Nothing is created, and no request may create that might not before.
LEMMA QuietCounted ==
  ASSUME WellTyped, Counted, NewSites' = NewSites, NewDevices' = NewDevices,
         SitePresses' \subseteq SitePresses, UnitPresses' \subseteq UnitPresses,
         \/ tries' = tries /\ Pressable' <= Pressable
         \/ tries' = tries + 1
  PROVE  Counted'
<1>1. Pressable \in Nat /\ Pressable' \in Nat /\ Pressable' <= 1 /\ tries \in Nat
  BY PressableNat DEF Pressable, WellTyped, Numbered
<1>2. /\ Cardinality(SitePresses') \in Nat /\ Cardinality(UnitPresses') \in Nat
      /\ Cardinality(SitePresses) \in Nat /\ Cardinality(UnitPresses) \in Nat
      /\ Cardinality(SitePresses') <= Cardinality(SitePresses)
      /\ Cardinality(UnitPresses') <= Cardinality(UnitPresses)
  BY PressesFinite, CountSame
<1>3. /\ IsFiniteSet(NewSites') /\ IsFiniteSet(NewDevices')
      /\ Cardinality(NewSites) \in Nat /\ Cardinality(NewDevices) \in Nat
  BY FS_CardinalityType DEF Counted
<1> QED BY <1>1, <1>2, <1>3, KeptCounted

LEMMA SameRowsCount ==
  ASSUME UNCHANGED <<site, dev>>
  PROVE  NewSites' = NewSites /\ NewDevices' = NewDevices
BY DEF NewSites, NewDevices

\* Requests that went, or can no longer create.
LEMMA FewerPresses ==
  ASSUME \A x \in net' : x.place = "add" => x \in net \/ x.stage = "error"
  PROVE  SitePresses' \subseteq SitePresses /\ UnitPresses' \subseteq UnitPresses
BY DEF SitePresses, UnitPresses

LEMMA SubmitCounted ==
  ASSUME WellTyped, Counted, NEW p \in Place, Submit(p)
  PROVE  Counted'
<1>1. PICK r \in Request : net' = net \cup {r} /\ r.place = p /\ r.form = form[p]
  BY SubmitSends
<1>2. NewSites' = NewSites /\ NewDevices' = NewDevices
  BY SameRowsCount DEF Submit, rowVars
<1> DEFINE g == [form[p] EXCEPT !.saving = TRUE]
<1>3. g.no = form[p].no /\ g.saving /\ form[p].no # 0 /\ ~form[p].saving
  BY DEF WellTyped, FormsTyped, FormRow, Submit, CanSubmit
<1> HIDE DEF g
<1>4. tries' = tries /\ \A q \in Place : form'[q] = IF q = p THEN g ELSE form[q]
  BY DEF Submit, WellTyped, FormsTyped, g
<1>5. CASE p # "add"
  <2>1. SitePresses' \subseteq SitePresses /\ UnitPresses' \subseteq UnitPresses
    BY <1>1, <1>5 DEF SitePresses, UnitPresses
  <2>2. form'["add"] = form["add"]
    BY <1>4, <1>5 DEF Place
  <2>3. Pressable' = Pressable /\ Pressable \in Nat
    BY <2>2 DEF Pressable
  <2> QED BY <1>2, <1>4, <2>1, <2>3, QuietCounted
<1>6. CASE p = "add"
  <2>1. Pressable' = 0 /\ Pressable = 1
    BY <1>3, <1>4, <1>6 DEF Pressable, Place
  <2>2. SitePresses' \subseteq SitePresses \cup {r} /\ UnitPresses' \subseteq UnitPresses \cup {r}
    BY <1>1 DEF SitePresses, UnitPresses
  <2>3. /\ Cardinality(SitePresses') \in Nat /\ Cardinality(UnitPresses') \in Nat
        /\ Cardinality(SitePresses) \in Nat /\ Cardinality(UnitPresses) \in Nat
        /\ Cardinality(SitePresses') <= Cardinality(SitePresses) + 1
        /\ Cardinality(UnitPresses') <= Cardinality(UnitPresses) + 1
    BY <2>2, PressesFinite, CountGrows
  <2>4. /\ Cardinality(NewSites) \in Nat /\ Cardinality(NewDevices) \in Nat /\ tries \in Nat
    BY FS_CardinalityType DEF Counted, WellTyped, Numbered
  <2>5. /\ Cardinality(NewSites) + Cardinality(SitePresses) + 1 <= tries
        /\ Cardinality(NewDevices) + Cardinality(UnitPresses) + 1 <= tries
    BY <2>1 DEF Counted
  <2>6. /\ Cardinality(NewSites) + Cardinality(SitePresses') + 0 <= tries
        /\ Cardinality(NewDevices) + Cardinality(UnitPresses') + 0 <= tries
    BY <2>3, <2>4, <2>5
  <2> QED BY <1>2, <1>4, <2>1, <2>6 DEF Counted
<1> QED BY <1>5, <1>6

LEMMA OperatorCounted ==
  ASSUME WellTyped, Counted, Operator
  PROVE  Counted'
<1>0. "add" \in Place /\ Pressable \in Nat
  BY PressableNat DEF Place
<1>1. ASSUME UNCHANGED <<site, dev, net>>,
             \/ tries' = tries /\ (form'["add"] = form["add"] \/ form'["add"].no = 0)
             \/ tries' = tries + 1
      PROVE  Counted'
  <2>1. NewSites' = NewSites /\ NewDevices' = NewDevices
    BY <1>1, SameRowsCount
  <2>2. SitePresses' = SitePresses /\ UnitPresses' = UnitPresses
    BY <1>1 DEF SitePresses, UnitPresses
  <2>3. form'["add"] = form["add"] \/ form'["add"].no = 0 => Pressable' <= Pressable
    BY <1>0 DEF Pressable
  <2> QED BY <1>1, <2>1, <2>2, <2>3, QuietCounted
<1>2. ASSUME NEW s \in Site, SelectSite(s) PROVE Counted'
  BY <1>1, <1>2 DEF SelectSite, rowVars
<1>3. CASE CloseScreen
  BY <1>0, <1>1, <1>3, UnmountedRow DEF CloseScreen, rowVars, NoForms
<1>4. ASSUME NEW p \in Place \ {"add"}, NEW target, NEW data, NEW fresh,
             Mount(p, target, data, fresh), tries' = tries
      PROVE  Counted'
  <2>1. form'["add"] = form["add"]
    BY <1>0, <1>4 DEF Mount, WellTyped, FormsTyped
  <2> QED BY <1>1, <1>4, <2>1 DEF Mount, rowVars
<1>5. CASE EditSite \/ AskDeleteSite
  BY <1>4, <1>5 DEF EditSite, AskDeleteSite, Place
<1>6. ASSUME NEW d \in Device, EditDevice(d) \/ AskDeleteDevice(d) PROVE Counted'
  BY <1>4, <1>6 DEF EditDevice, AskDeleteDevice, Place
<1>7. CASE Type
  <2>1. PICK p \in {"site", "dev"}, x \in Field, v \in Values \cup Ports \cup BOOLEAN :
          Fill(p, x, v) /\ form' = [form EXCEPT ![p] = Filled(form[p], x, v)]
    BY <1>7, TypeFills
  <2>2. form'["add"] = form["add"]
    BY <1>0, <2>1 DEF WellTyped, FormsTyped
  <2> QED BY <1>1, <2>1, <2>2 DEF Fill, rowVars
<1>8. ASSUME NEW data, OpenAdd(data) PROVE Counted'
  BY <1>1, <1>8 DEF OpenAdd, rowVars
<1>9. ASSUME NEW p \in Place, Cancel(p) PROVE Counted'
  <2>1. form'["add"] = form["add"] \/ form'["add"].no = 0
    BY <1>0, <1>9, UnmountedRow DEF Cancel, WellTyped, FormsTyped
  <2> QED BY <1>1, <1>9, <2>1 DEF Cancel, rowVars
<1> QED BY <1>2, <1>3, <1>5, <1>6, <1>7, <1>8, <1>9, SubmitCounted DEF Operator

\* A write that marks copies leaves the requests of the add form alone.
LEMMA OvertakenPresses ==
  ASSUME NEW rs \in SUBSET Request, NEW places, "add" \notin places, NEW id,
         \A x \in net' : \E q \in rs : x = Later(q, places, id),
         \A q \in rs : q.place = "add" => q \in net \/ q.stage = "error"
  PROVE  SitePresses' \subseteq SitePresses /\ UnitPresses' \subseteq UnitPresses
<1>1. \A x \in net' : x.place = "add" => x \in rs
  BY LaterFields
<1> QED BY <1>1, FewerPresses

LEMMA PatchCounted ==
  ASSUME WellTyped, Counted, NEW r \in net, PatchSite(r) \/ PatchDevice(r),
         UNCHANGED <<screen, next, tries>>
  PROVE  Counted'
<1>1. PICK places \in {{"site"}, {"dev"}} :
        /\ r.place # "add" /\ Outdate(places, r.form.target)
        /\ net' = OutdateRequests(Answer(r, "ok"), places, r.form.target)
  BY PatchSiteRow, PatchDeviceRow DEF PatchSite, PatchDevice
<1>2. NewSites' = NewSites /\ NewDevices' = NewDevices
  <2>1. CASE PatchSite(r)
    <3>1. r.form.target \in Site /\ dev' = dev
      BY <2>1, PatchSiteRow
    <3>2. PICK row \in SiteRow : site' = [site EXCEPT ![r.form.target].row = row]
      BY <2>1, PatchSiteRow
    <3>3. \A u \in Site : site'[u].state = site[u].state
      BY <3>1, <3>2, SiteRowKept
    <3> QED BY <3>1, <3>3 DEF NewSites, NewDevices
  <2>2. CASE PatchDevice(r)
    <3>1. r.form.target \in Device /\ site' = site
      BY <2>2, PatchDeviceRow
    <3>2. PICK row \in DevRow : dev' = [dev EXCEPT ![r.form.target].row = row]
      BY <2>2, PatchDeviceRow
    <3>3. \A e \in Device : dev'[e].state = dev[e].state
      BY <3>1, <3>2, DevRowKept
    <3> QED BY <3>1, <3>3 DEF NewSites, NewDevices
  <2> QED BY <2>1, <2>2
<1> DEFINE x  == [r EXCEPT !.stage = "ok"]
           an == Answer(r, "ok")
           id == r.form.target
<1>3. an \subseteq Request /\ \A y \in net' : \E q \in an : y = Later(q, places, id)
  BY <1>1, OvertakenTypes
<1>4. x.place = r.place
  BY Answered DEF WellTyped, NetTyped
<1>5. an = (net \ {r}) \cup {x}
  BY DEF Answer
<1> HIDE DEF x, an, id
<1>6. \A q \in an : q.place = "add" => q \in net
  BY <1>1, <1>4, <1>5
<1>7. SitePresses' \subseteq SitePresses /\ UnitPresses' \subseteq UnitPresses
  BY <1>1, <1>3, <1>6, OvertakenPresses
<1>8. form'["add"] = form["add"]
  BY <1>1 DEF Outdate, Place
<1>9. Pressable' = Pressable /\ Pressable \in Nat
  BY <1>8 DEF Pressable
<1> QED BY <1>2, <1>7, <1>9, QuietCounted

LEMMA CreateCounted ==
  ASSUME WellTyped, Counted, NEW r \in net, r.stage = "sent",
         CreateSite(r) \/ CreateDevice(r), UNCHANGED tries
  PROVE  Counted'
<1>0. Pressable' = Pressable /\ Pressable \in Nat /\ tries \in Nat
  BY DEF Pressable, CreateSite, CreateDevice, WellTyped, Numbered
<1>1. IsFiniteSet(SitePresses) /\ IsFiniteSet(UnitPresses)
      /\ IsFiniteSet(NewSites) /\ IsFiniteSet(NewDevices)
  BY PressesFinite DEF Counted
<1>2. CASE CreateSite(r)
  <2>1. PICK s \in Site, x \in Request :
          /\ site[s].state = "unborn" /\ site' = [site EXCEPT ![s].state = "live"]
          /\ dev' = dev
          /\ net' = (net \ {r}) \cup {x} /\ x.place = r.place
          /\ x.op = "createSite" /\ x.stage = "ok" /\ r.place = "add"
    BY <1>2, CreateSiteStep
  <2>2. NewSites' \subseteq NewSites \cup {s} /\ NewDevices' = NewDevices
    BY <2>1, NewSiteKept
  <2>3. r \in SitePresses /\ SitePresses' \subseteq SitePresses \ {r}
    BY <1>2, <2>1 DEF SitePresses, CreateSite
  <2>4. r \in UnitPresses /\ UnitPresses' \subseteq (UnitPresses \ {r}) \cup {x}
    BY <2>1 DEF UnitPresses
  <2>5. /\ IsFiniteSet(NewSites') /\ Cardinality(NewSites') \in Nat /\ Cardinality(NewSites) \in Nat
        /\ Cardinality(NewSites') <= Cardinality(NewSites) + 1
    BY <1>1, <2>2, CountGrows
  <2>6. /\ Cardinality(SitePresses') \in Nat /\ Cardinality(SitePresses) \in Nat
        /\ Cardinality(SitePresses') + 1 <= Cardinality(SitePresses)
    BY <1>1, <2>3, CountShrinks
  <2>7. /\ Cardinality(UnitPresses') \in Nat /\ Cardinality(UnitPresses) \in Nat
        /\ Cardinality(UnitPresses') <= Cardinality(UnitPresses)
    BY <1>1, <2>4, CountSwaps
  <2>8. Cardinality(NewDevices) \in Nat
    BY <1>1, FS_CardinalityType
  <2> QED BY <1>0, <1>1, <2>2, <2>5, <2>6, <2>7, <2>8, KeptCounted
<1>3. CASE CreateDevice(r)
  <2>1. r.op = "createDevice" /\ r.place = "add" /\ net' = Answer(r, "ok") /\ site' = site
    BY <1>3, CreateDeviceStep
  <2>2. PICK d \in Device, row \in DevRow :
          /\ dev[d].state = "unborn"
          /\ dev' = [dev EXCEPT ![d].state = "live", ![d].row = row]
    BY <1>3, CreateDeviceStep
  <2>3. NewDevices' \subseteq NewDevices \cup {d} /\ NewSites' = NewSites
    BY <2>1, <2>2, NewDeviceKept
  <2> DEFINE x == [r EXCEPT !.stage = "ok"]
  <2>4. x.stage = "ok" /\ x.op = "createDevice"
    BY <2>1, Answered DEF WellTyped, NetTyped
  <2>5. net' = (net \ {r}) \cup {x}
    BY <2>1 DEF Answer
  <2> HIDE DEF x
  <2>6. r \in UnitPresses /\ UnitPresses' \subseteq UnitPresses \ {r}
    BY <2>1, <2>4, <2>5 DEF UnitPresses
  <2>7. SitePresses' \subseteq SitePresses
    BY <2>4, <2>5 DEF SitePresses
  <2>8. /\ IsFiniteSet(NewDevices')
        /\ Cardinality(NewDevices') \in Nat /\ Cardinality(NewDevices) \in Nat
        /\ Cardinality(NewDevices') <= Cardinality(NewDevices) + 1
    BY <1>1, <2>3, CountGrows
  <2>9. /\ Cardinality(UnitPresses') \in Nat /\ Cardinality(UnitPresses) \in Nat
        /\ Cardinality(UnitPresses') + 1 <= Cardinality(UnitPresses)
    BY <1>1, <2>6, CountShrinks
  <2>10. /\ Cardinality(SitePresses') \in Nat /\ Cardinality(SitePresses) \in Nat
         /\ Cardinality(SitePresses') <= Cardinality(SitePresses)
    BY <1>1, <2>7, CountSame
  <2>11. Cardinality(NewSites) \in Nat
    BY <1>1, FS_CardinalityType
  <2> QED BY <1>0, <1>1, <2>3, <2>8, <2>9, <2>10, <2>11, KeptCounted
<1> QED BY <1>2, <1>3

LEMMA ServeCounted ==
  ASSUME WellTyped, Counted, NEW r \in net, Serve(r) \/ LoseAnswer(r) \/ GoOn(r)
  PROVE  Counted'
<1>1. CASE (PatchSite(r) \/ PatchDevice(r)) /\ UNCHANGED <<screen, next, tries>>
  BY <1>1, PatchCounted
<1>2. CASE (CreateSite(r) \/ CreateDevice(r)) /\ UNCHANGED tries /\ r.stage = "sent"
  BY <1>2, CreateCounted
<1>3. ASSUME NewSites' = NewSites, NewDevices' = NewDevices, UNCHANGED <<form, tries>>,
             NEW x, net' = (net \ {r}) \cup {x}, x.place = "add" => x.stage = "error"
      PROVE  Counted'
  <2>1. Pressable' = Pressable /\ Pressable \in Nat
    BY <1>3 DEF Pressable
  <2>2. SitePresses' \subseteq SitePresses /\ UnitPresses' \subseteq UnitPresses
    BY <1>3, FewerPresses
  <2> QED BY <1>3, <2>1, <2>2, QuietCounted
<1>4. CASE (DropSite(r) \/ DropDevice(r)) /\ UNCHANGED tries
  <2> DEFINE x == [r EXCEPT !.stage = "ok"]
  <2>1. r \in Request /\ r.op \in {"deleteSite", "deleteDevice"} /\ UNCHANGED form
        /\ net' = Answer(r, "ok")
    BY <1>4 DEF DropSite, DropDevice, WellTyped, NetTyped
  <2>2. x.place = r.place /\ r.place # "add"
    BY <2>1, Answered, RequestFields DEF Ops, Place
  <2>3. net' = (net \ {r}) \cup {x}
    BY <2>1 DEF Answer
  <2> HIDE DEF x
  <2>4. PICK ds : ds \subseteq LiveDevices /\ Drop(ds)
    BY <1>4 DEF DropSite, DropDevice, OnSite
  <2>5. UNCHANGED site \/ \E s \in LiveSites : site' = [site EXCEPT ![s].state = "deleted"]
    BY <1>4 DEF DropSite, DropDevice
  <2>6. NewDevices' = NewDevices
    BY <2>4, <2>5, DropKept DEF LiveSites
  <2>7. NewSites' = NewSites
    BY <2>5 DEF WellTyped, RowsTyped, NewSites, LiveSites
  <2> QED BY <1>3, <1>4, <2>1, <2>2, <2>3, <2>6, <2>7
<1>5. CASE (Refuse(r) \/ LoseAnswer(r)) /\ UNCHANGED tries
  <2> DEFINE x == [r EXCEPT !.stage = "error"]
  <2>1. x.stage = "error"
    BY Answered DEF WellTyped, NetTyped
  <2>2. net' = (net \ {r}) \cup {x} /\ UNCHANGED <<site, dev, form>>
    BY <1>5 DEF Refuse, LoseAnswer, Answer, rowVars, tabVars
  <2> HIDE DEF x
  <2> QED BY <1>3, <1>5, <2>1, <2>2, SameRowsCount
<1>6. CASE GoOn(r)
  <2> DEFINE x == [r EXCEPT !.op = "createDevice", !.stage = "sent"]
  <2>1. r \in Request /\ r.op = "createSite" /\ r.stage = "ok"
    BY <1>6 DEF GoOn, WellTyped, NetTyped
  <2>2. r.place = "add"
    BY <2>1, RequestFields DEF Ops, Place
  <2>3. x.place = r.place /\ x.op = "createDevice"
    BY <2>1, WentOn
  <2>4. net' = (net \ {r}) \cup {x} /\ UNCHANGED <<site, dev, form, tries>>
    BY <1>6 DEF GoOn, tabVars, rowVars
  <2> HIDE DEF x
  <2>5. r \in UnitPresses /\ UnitPresses' \subseteq (UnitPresses \ {r}) \cup {x}
    BY <2>1, <2>2, <2>4 DEF UnitPresses
  <2>6. SitePresses' \subseteq SitePresses
    BY <2>3, <2>4 DEF SitePresses
  <2>7. /\ Cardinality(UnitPresses') \in Nat /\ Cardinality(UnitPresses) \in Nat
        /\ Cardinality(UnitPresses') <= Cardinality(UnitPresses)
    BY <2>5, PressesFinite, CountSwaps
  <2>8. /\ Cardinality(SitePresses') \in Nat /\ Cardinality(SitePresses) \in Nat
        /\ Cardinality(SitePresses') <= Cardinality(SitePresses)
    BY <2>6, PressesFinite, CountSame
  <2>9. NewSites' = NewSites /\ NewDevices' = NewDevices
    BY <2>4, SameRowsCount
  <2>10. /\ IsFiniteSet(NewSites) /\ IsFiniteSet(NewDevices)
         /\ Cardinality(NewSites) \in Nat /\ Cardinality(NewDevices) \in Nat
    BY FS_CardinalityType DEF Counted
  <2>11. Pressable' = Pressable /\ Pressable \in Nat /\ tries \in Nat
    BY <2>4 DEF Pressable, WellTyped, Numbered
  <2> QED BY <2>4, <2>7, <2>8, <2>9, <2>10, <2>11, KeptCounted
<1> QED BY <1>1, <1>2, <1>4, <1>5, <1>6 DEF Serve, LoseAnswer

LEMMA SettleCounted ==
  ASSUME WellTyped, Counted, NEW r \in net,
         ShowError(r) \/ CloseForm(r) \/ SiteDeleted(r) \/ Created(r)
  PROVE  Counted'
<1>0. "add" \in Place /\ Pressable \in Nat
  BY PressableNat DEF Place
<1>1. UNCHANGED <<site, dev>> /\ net' = net \ {r}
  BY DEF ShowError, CloseForm, SiteDeleted, Created, CloseWhole, rowVars
<1>2. SitePresses' \subseteq SitePresses /\ UnitPresses' \subseteq UnitPresses
  BY <1>1, FewerPresses
<1>3. NewSites' = NewSites /\ NewDevices' = NewDevices
  BY <1>1, SameRowsCount
<1>4. \/ tries' = tries /\ (form'["add"] = form["add"] \/ form'["add"].no = 0)
      \/ tries' = tries + 1
  <2>1. CASE ShowError(r)
    BY <1>0, <2>1 DEF ShowError, Asker, WellTyped, FormsTyped
  <2>2. CASE CloseForm(r)
    BY <1>0, <2>2 DEF CloseForm, WellTyped, FormsTyped
  <2>3. CASE SiteDeleted(r) \/ Created(r)
    BY <1>0, <2>3, UnmountedRow DEF SiteDeleted, Created, CloseWhole, NoForms
  <2> QED BY <2>1, <2>2, <2>3
<1>5. form'["add"] = form["add"] \/ form'["add"].no = 0 => Pressable' <= Pressable
  BY <1>0 DEF Pressable
<1> QED BY <1>2, <1>3, <1>4, <1>5, QuietCounted

LEMMA NextCounted == WellTyped /\ Counted /\ [Next]_vars => Counted'
<1> SUFFICES ASSUME WellTyped, Counted, [Next]_vars PROVE Counted'
  OBVIOUS
<1>0. Pressable \in Nat
  BY PressableNat
<1>1. ASSUME NewSites' = NewSites, NewDevices' = NewDevices, form'["add"] = form["add"],
             net' = net, tries' = tries
      PROVE  Counted'
  <2>1. Pressable' = Pressable
    BY <1>1 DEF Pressable
  <2>2. SitePresses' \subseteq SitePresses /\ UnitPresses' \subseteq UnitPresses
    BY <1>1, FewerPresses
  <2> QED BY <1>0, <1>1, <2>1, <2>2, QuietCounted
<1>2. CASE UNCHANGED vars
  BY <1>1, <1>2, SameRowsCount DEF vars, rowVars, tabVars
<1>3. CASE Operator
  BY <1>3, OperatorCounted
<1>4. ASSUME NEW r \in net, Serve(r) \/ LoseAnswer(r) \/ Settle(r) PROVE Counted'
  BY <1>4, ServeCounted, SettleCounted DEF Settle
<1>5. CASE Reload
  <2>1. form'["add"] = form["add"]
    BY <1>5 DEF Reload, Place
  <2> QED BY <1>1, <1>5, <2>1, SameRowsCount DEF Reload, rowVars
<1>6. ASSUME NEW d \in Device, NEW a \in Text, NEW port \in Ports, OtherPatch(d, a, port)
      PROVE  Counted'
  <2> DEFINE row == [dev[d].row EXCEPT !.addr = a, !.port = port]
  <2>1. Outdate({"dev"}, d) /\ net' = OutdateRequests(net, {"dev"}, d)
        /\ site' = site /\ tries' = tries
    BY <1>6 DEF OtherPatch
  <2>2. dev[d].row \in DevRow
    BY DEF WellTyped, RowsTyped
  <2>3. row \in DevRow /\ dev' = [dev EXCEPT ![d].row = row]
    BY <1>6, <2>2 DEF OtherPatch, DevRow
  <2> HIDE DEF row
  <2>4. \A e \in Device : dev'[e].state = dev[e].state
    BY <2>1, <2>3, DevRowKept
  <2>5. NewSites' = NewSites /\ NewDevices' = NewDevices
    BY <2>1, <2>4 DEF NewSites, NewDevices
  <2>6. net \subseteq Request /\ IsFiniteSet(net)
    BY DEF WellTyped, NetTyped
  <2>7. \A x \in net' : \E q \in net : x = Later(q, {"dev"}, d)
    BY <2>1, <2>6, OutdatedRequests
  <2>8. SitePresses' \subseteq SitePresses /\ UnitPresses' \subseteq UnitPresses
    BY <2>6, <2>7, OvertakenPresses
  <2>9. form'["add"] = form["add"]
    BY <2>1 DEF Outdate, Place
  <2>10. Pressable' = Pressable
    BY <2>9 DEF Pressable
  <2> QED BY <1>0, <2>1, <2>5, <2>8, <2>10, QuietCounted
<1>7. ASSUME NEW s \in Site, OtherDeletes(s) PROVE Counted'
  <2>1. site' = [site EXCEPT ![s].state = "deleted"] /\ Drop(OnSite(s)) /\ s \in LiveSites
        /\ OnSite(s) \subseteq LiveDevices
    BY <1>7 DEF OtherDeletes, OnSite
  <2>2. NewDevices' = NewDevices
    BY <2>1, DropKept
  <2>3. NewSites' = NewSites
    BY <2>1 DEF WellTyped, RowsTyped, NewSites, LiveSites
  <2> QED BY <1>1, <1>7, <2>2, <2>3 DEF OtherDeletes, tabVars
<1> QED BY <1>2, <1>3, <1>4, <1>5, <1>6, <1>7 DEF Next

LEMMA InitCounted == Init => Counted
<1> SUFFICES ASSUME Init PROVE Counted
  OBVIOUS
<1>1. NewSites = {} /\ NewDevices = {} /\ SitePresses = {} /\ UnitPresses = {}
  BY DEF Init, NewSites, NewDevices, SitePresses, UnitPresses
<1>2. form["add"].no = 0 /\ tries = 0
  BY UnmountedRow DEF Init, NoForms, Place
<1>3. Pressable = 0
  BY <1>2 DEF Pressable
<1>4. IsFiniteSet({}) /\ Cardinality({}) = 0
  BY FS_EmptySet
<1> QED BY <1>1, <1>2, <1>3, <1>4 DEF Counted

\* Sites and units come into being at most once per press of "Create", a
\* press being allowed when a form opens and again when it has shown an error:
\* a lost answer is what makes a retry repeat (AddModal.tsx:140-152, :184-218).
THEOREM CreatedAtMostOncePerTry == Spec => []CreatedOncePerTry
<1>1. ASSUME WellTyped, Counted PROVE CreatedOncePerTry
  <2>1. /\ Cardinality(NewSites) \in Nat /\ Cardinality(NewDevices) \in Nat
        /\ Cardinality(SitePresses) \in Nat /\ Cardinality(UnitPresses) \in Nat
    BY <1>1, PressesFinite, FS_CardinalityType DEF Counted
  <2>2. Pressable \in Nat /\ tries \in Nat
    BY <1>1, PressableNat DEF WellTyped, Numbered
  <2>3. /\ Cardinality(NewSites) + Cardinality(SitePresses) + Pressable <= tries
        /\ Cardinality(NewDevices) + Cardinality(UnitPresses) + Pressable <= tries
    BY <1>1 DEF Counted
  <2>4. Cardinality(NewSites) <= tries /\ Cardinality(NewDevices) <= tries
    BY <2>1, <2>2, <2>3
  <2> QED BY <2>4 DEF CreatedOncePerTry, NewSites, NewDevices
<1>2. (WellTyped /\ Counted) /\ [Next]_vars => (WellTyped /\ Counted)'
  BY NextWellTyped, NextCounted
<1> QED BY InitWellTyped, InitCounted, <1>1, <1>2, PTL DEF Spec
=============================================================================
