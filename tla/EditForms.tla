----------------------------- MODULE EditForms -----------------------------
(***************************************************************************)
(* The forms of the dashboard (SiteDetailPanel.tsx, AddModal.tsx, App.tsx)  *)
(* and the routes behind them (http/routes/sites.ts, devices.ts and their  *)
(* repositories): one operator at one tab, other writers beside.           *)
(*                                                                         *)
(* A form is mounted with a copy of what the screen shows, and its submit  *)
(* sends a request that outlives it: the panel or the modal may be closed, *)
(* and another opened, before the answer.  An answer may be lost after the *)
(* server has committed.                                                   *)
(*                                                                         *)
(* A form does not send back what it was given: texts are trimmed, ports   *)
(* that are missing are filled in, and what is blank is left out of the    *)
(* body.  `addr` stands for a device's name and address, `port` for its    *)
(* two ports.  The other keys of vendorConfig, which go back as last       *)
(* shown, are left out, and so is the limit of the devices' listing (1000).*)
(***************************************************************************)
EXTENDS Naturals, FiniteSets

CONSTANTS
  Site, Device,     \* ids (UUIDs, never reused)
  Home, Camera,     \* the site and the device there are at first
  Text,             \* what text columns may hold: anything but ""
  Trim,             \* String.prototype.trim
  Port,             \* port numbers
  Typed,            \* bound: the texts that are typed
  MaxTouched,       \* bound: fields changed in one form
  MaxForms,         \* bound: forms ever mounted, and writes by others
  MaxTries          \* bound: on `tries`, where "Create" is no longer pressed

ASSUME FormsAssumption ==
  /\ Home \in Site /\ Camera \in Device
  /\ {"old", " old"} \subseteq Text /\ "" \notin Text /\ Typed \subseteq Text
  /\ Trim \in [Text \cup {""} -> Text \cup {""}]
  /\ "80" \in Port /\ "" \notin Port
  /\ {MaxTouched, MaxForms, MaxTries} \subseteq Nat

VARIABLES
  site,     \* rows of sites
  dev,      \* rows of devices
  shown,    \* the sites and devices of the last reload
  screen,   \* grid, panel (SiteDetailPanel) or modal (AddModal)
  panel,    \* its number, selectedSite (a copy of the row), is it up to date
  form,     \* the form mounted in each place
  next,     \* number of the next form or panel
  net,      \* requests under way
  others,   \* writes by others so far
  tries     \* history: add forms opened, and errors they have shown

rowVars == <<site, dev>>
tabVars == <<shown, screen, panel, form, next>>
vars    == <<rowVars, tabVars, net, others, tries>>

-----------------------------------------------------------------------------
Place == {"site", "dropSite", "dev", "dropDev", "add"}

Unmounted == [no |-> 0, target |-> Home, data |-> <<>>, touched |-> {},
              fresh |-> FALSE, saving |-> FALSE]
NoPanel   == [no |-> 0, site |-> Home, copy |-> <<>>, fresh |-> FALSE]
NoForms   == [p \in Place |-> Unmounted]

LiveSites   == {s \in Site : site[s].state = "live"}
LiveDevices == {d \in Device : dev[d].state = "live"}

\* Mutant: rows of every kind are listed.
ListableAll == LiveDevices

\* listEnabledDevices
Listable == {d \in LiveDevices : dev[d].row.enabled}

\* GET /v1/sites and GET /v1/devices.
Listed == [sites |-> [s \in LiveSites |-> site[s].row],
           devs  |-> [d \in Listable |-> dev[d].row]]

\* What may be in a text input, and in a port input or a row's vendorConfig:
\* "" is a blank input, or a key that is not there.
Values == Text \cup {""}
Ports  == Port \cup {""}

\* Rows as the add forms make them: trimmed, with their ports filled in.
SiteDefaults == [name |-> "old", tz |-> "old"]
NewRow(s)    == [site |-> s, addr |-> "old", port |-> "80", enabled |-> TRUE,
                 user |-> "old", pass |-> "old"]

\* Home and Camera were made through the API, which does neither.
Init ==
  /\ site = [s \in Site |-> [state |-> IF s = Home THEN "live" ELSE "unborn",
                             row |-> IF s = Home
                                     THEN [SiteDefaults EXCEPT !.name = " old"]
                                     ELSE SiteDefaults]]
  /\ dev = [d \in Device |-> [state |-> IF d = Camera THEN "live" ELSE "unborn",
                              row |-> IF d = Camera
                                      THEN [NewRow(Home) EXCEPT !.addr = " old",
                                                                !.port = ""]
                                      ELSE NewRow(Home)]]
  /\ shown = Listed
  /\ screen = "grid" /\ panel = NoPanel /\ form = NoForms /\ next = 1
  /\ net = {} /\ others = 0 /\ tries = 0

-----------------------------------------------------------------------------
(* What the operator does.                                                 *)

\* Bound.
Room == next + others <= MaxForms

Mounted(target, data, fresh) ==
  [no |-> next, target |-> target, data |-> data, touched |-> {},
   fresh |-> fresh, saving |-> FALSE]

Mount(p, target, data, fresh) ==
  /\ Room
  /\ next' = next + 1
  /\ form' = [form EXCEPT ![p] = Mounted(target, data, fresh)]
  /\ UNCHANGED <<rowVars, shown, screen, panel, net, others>>

\* setSelectedSite: the panel keeps this copy while it is open.
SelectSite(s) ==
  /\ screen = "grid" /\ s \in DOMAIN shown.sites /\ Room
  /\ screen' = "panel" /\ next' = next + 1
  /\ panel' = [no |-> next, site |-> s, copy |-> shown.sites[s],
               fresh |-> shown.sites[s] = site[s].row]
  /\ UNCHANGED <<rowVars, shown, form, net, others, tries>>

\* The x and the backdrop work at any time, "saving" or not.
CloseScreen ==
  /\ screen # "grid"
  /\ screen' = "grid" /\ panel' = NoPanel /\ form' = NoForms
  /\ UNCHANGED <<rowVars, shown, next, net, others, tries>>

\* The pencil and the bin of the header are there when neither is in use.
HeaderFree == screen = "panel" /\ form["site"].no = 0 /\ form["dropSite"].no = 0

EditSite == /\ HeaderFree
            /\ Mount("site", panel.site, panel.copy, panel.fresh)
            /\ UNCHANGED tries

AskDeleteSite == /\ HeaderFree
                 /\ Mount("dropSite", panel.site, <<>>, FALSE)
                 /\ UNCHANGED tries

RowShown(d) == /\ screen = "panel"
               /\ d \in DOMAIN shown.devs /\ shown.devs[d].site = panel.site
               /\ \A p \in {"dropDev", "dev"} :
                    form[p].no = 0 \/ form[p].target # d

\* Ports that a row does not have are shown as 80 and 554.
FilledIn(port) == IF port = "" THEN "80" ELSE port

\* DeviceEditForm's initial state: the credentials are blank.
DeviceForm(d) == [addr |-> shown.devs[d].addr, port |-> FilledIn(shown.devs[d].port),
                  enabled |-> shown.devs[d].enabled, user |-> "", pass |-> ""]

\* setEditingDeviceId: the form of another device is unmounted.
EditDevice(d) == /\ RowShown(d)
                 /\ Mount("dev", d, DeviceForm(d),
                          shown.devs[d] = dev[d].row)
                 /\ UNCHANGED tries

AskDeleteDevice(d) == /\ RowShown(d)
                      /\ Mount("dropDev", d, <<>>, FALSE)
                      /\ UNCHANGED tries

\* The modal, straight from the grid or with a site from its panel, with
\* SiteForm or UnitForm; "new" is the unit form's other site mode.
OpenAdd(data) ==
  /\ screen \in (IF data.kind = "unit" THEN {"grid", "panel"} ELSE {"grid"})
  /\ Room
  /\ next' = next + 1 /\ tries' = tries + 1
  /\ screen' = "modal" /\ panel' = NoPanel
  /\ form' = [NoForms EXCEPT !["add"] = Mounted(Home, data, FALSE)]
  /\ UNCHANGED <<rowVars, shown, net, others>>

AddForms == {[kind |-> "site", site |-> "new"], [kind |-> "unit", site |-> "new"]}
              \cup [kind : {"unit"}, site : DOMAIN shown.sites]

\* Cancel and Back are disabled while the form is saving.
Cancel(p) ==
  /\ form[p].no # 0 /\ ~form[p].saving /\ p # "add"
  /\ form' = [form EXCEPT ![p] = Unmounted]
  /\ UNCHANGED <<rowVars, shown, screen, panel, next, net, others, tries>>

Fill(p, f, v) ==
  /\ form[p].no # 0 /\ f \notin form[p].touched
  /\ Cardinality(form[p].touched) < MaxTouched
  /\ form[p].data[f] # v
  /\ form' = [form EXCEPT ![p].data[f] = v, ![p].touched = @ \cup {f}]
  /\ UNCHANGED <<rowVars, shown, screen, panel, next, net, others, tries>>

Type == \/ \E f \in {"name", "tz"}, v \in Typed \cup {""} : Fill("site", f, v)
        \/ \E f \in {"addr", "user", "pass"}, v \in Typed \cup {""} : Fill("dev", f, v)
        \/ \E v \in Ports : Fill("dev", "port", v)
        \/ Fill("dev", "enabled", ~form["dev"].data.enabled)

FirstOp(p) == CASE p = "site" -> "patchSite" [] p = "dropSite" -> "deleteSite"
                [] p = "dev" -> "patchDevice" [] p = "dropDev" -> "deleteDevice"
                [] OTHER -> IF form[p].data.site = "new" THEN "createSite"
                            ELSE "createDevice"

\* Mutant: the button is not disabled.
NotDisabled(p) == form[p].no # 0

CanSubmit(p) == form[p].no # 0 /\ ~form[p].saving

\* "Name is required.", "Address is required.": nothing is sent.
Complete(p, data) == /\ p = "site" => Trim[data.name] # ""
                     /\ p = "dev" => Trim[data.addr] # ""

\* submit, handleConfirm: the request carries what the form holds now.
Submit(p) ==
  /\ CanSubmit(p) /\ Complete(p, form[p].data)
  /\ p = "add" => tries <= MaxTries
  /\ form' = [form EXCEPT ![p].saving = TRUE]
  /\ net' = net \cup {[place |-> p, form |-> form[p], panel |-> panel.no,
                       op |-> FirstOp(p), stage |-> "sent",
                       twin |-> Cardinality(net)]}
  /\ UNCHANGED <<rowVars, shown, screen, panel, next, others, tries>>

-----------------------------------------------------------------------------
(* What the server does.                                                   *)

\* Copies of the row that are on screen or under way are now out of date.
Outdate(places, id) ==
  /\ form' = [p \in Place |-> IF p \in places /\ form[p].target = id
                              THEN [form[p] EXCEPT !.fresh = FALSE]
                              ELSE form[p]]
  /\ panel' = IF "site" \in places /\ panel.site = id
              THEN [panel EXCEPT !.fresh = FALSE] ELSE panel

OutdateRequests(rs, places, id) ==
  {IF r.place \in places /\ r.form.target = id
   THEN [r EXCEPT !.form.fresh = FALSE] ELSE r : r \in rs}

Answer(r, stage) == (net \ {r}) \cup {[r EXCEPT !.stage = stage]}

\* SiteEditForm's body and updateSite: a timezone that is blank is not sent.
PatchedSite(old, data) ==
  [name |-> Trim[data.name],
   tz   |-> IF Trim[data.tz] = "" THEN old.tz ELSE Trim[data.tz]]

PatchSite(r) ==
  LET s == r.form.target IN
  /\ r.op = "patchSite" /\ s \in LiveSites
  /\ site' = [site EXCEPT ![s].row = PatchedSite(@, r.form.data)]
  /\ Outdate({"site"}, s)
  /\ net' = OutdateRequests(Answer(r, "ok"), {"site"}, s)
  /\ UNCHANGED dev

\* Mutant: the credentials are always in the body.
CredentialsAlways(old, data) ==
  [old EXCEPT !.user = data.user, !.pass = data.pass]

\* The body's credentials replace the stored blob whole, if there are any: a
\* password alone drops the user name.
NewCredentials(old, data) ==
  IF data.user = "" /\ data.pass = "" THEN old
  ELSE [old EXCEPT !.user = data.user, !.pass = data.pass]

\* DeviceEditForm's body and updateDevice: a blank port is a key left out of a
\* vendorConfig that is replaced whole.
PatchedDevice(old, data) ==
  [NewCredentials(old, data) EXCEPT !.addr = Trim[data.addr], !.port = data.port,
                                    !.enabled = data.enabled]

PatchDevice(r) ==
  LET d == r.form.target
  IN  /\ r.op = "patchDevice" /\ d \in LiveDevices
      /\ dev' = [dev EXCEPT ![d].row = PatchedDevice(@, r.form.data)]
      /\ Outdate({"dev"}, d)
      /\ net' = OutdateRequests(Answer(r, "ok"), {"dev"}, d)
      /\ UNCHANGED site

Drop(ds) == dev' = [d \in Device |-> IF d \in ds
                                     THEN [dev[d] EXCEPT !.state = "deleted"]
                                     ELSE dev[d]]

OnSite(s) == {d \in LiveDevices : dev[d].row.site = s}

DropSite(r) ==
  /\ r.op = "deleteSite" /\ r.form.target \in LiveSites
  /\ site' = [site EXCEPT ![r.form.target].state = "deleted"]
  /\ Drop(OnSite(r.form.target))
  /\ net' = Answer(r, "ok")
  /\ UNCHANGED <<panel, form>>

DropDevice(r) ==
  /\ r.op = "deleteDevice" /\ r.form.target \in LiveDevices
  /\ Drop({r.form.target})
  /\ net' = Answer(r, "ok")
  /\ UNCHANGED <<site, panel, form>>

\* createSite; the unit form goes on with the new site's id.
CreateSite(r) ==
  /\ r.op = "createSite"
  /\ \E s \in Site :
       /\ site[s].state = "unborn"
       /\ site' = [site EXCEPT ![s].state = "live"]
       /\ net' = (net \ {r}) \cup {[r EXCEPT !.stage = "ok", !.form.target = s]}
  /\ UNCHANGED <<dev, panel, form>>

CreateDevice(r) ==
  LET s == IF r.form.data.site = "new" THEN r.form.target ELSE r.form.data.site
  IN  /\ r.op = "createDevice" /\ s \in LiveSites
      /\ \E d \in Device :
           /\ dev[d].state = "unborn"
           /\ dev' = [dev EXCEPT ![d].state = "live", ![d].row = NewRow(s)]
      /\ net' = Answer(r, "ok")
      /\ UNCHANGED <<site, panel, form>>

\* NOT_FOUND, a foreign key that is gone, a failed transaction, or a request
\* that never arrived.
Refuse(r) == net' = Answer(r, "error") /\ UNCHANGED <<rowVars, panel, form>>

Serve(r) ==
  /\ r.stage = "sent"
  /\ \/ PatchSite(r) \/ PatchDevice(r) \/ DropSite(r) \/ DropDevice(r)
     \/ CreateSite(r) \/ CreateDevice(r) \/ Refuse(r)
  /\ UNCHANGED <<shown, screen, next, others, tries>>

\* The answer is lost: for the tab the request has failed.
LoseAnswer(r) ==
  /\ r.stage = "ok"
  /\ net' = Answer(r, "error")
  /\ UNCHANGED <<rowVars, tabVars, others, tries>>

-----------------------------------------------------------------------------
(* What the tab does with the answers.                                     *)

\* The form that sent the request is still there.
Asker(r) == form[r.place].no = r.form.no

\* Mutant: setSaving(false) is forgotten.
ShowErrorOnly(r) ==
  /\ r.stage = "error"
  /\ tries' = IF Asker(r) /\ r.place = "add" THEN tries + 1 ELSE tries
  /\ net' = net \ {r}
  /\ UNCHANGED <<rowVars, shown, screen, panel, form, next, others>>

\* The error is shown in that form; if it is gone, nobody sees it.
ShowError(r) ==
  /\ r.stage = "error"
  /\ form' = IF Asker(r) THEN [form EXCEPT ![r.place].saving = FALSE] ELSE form
  /\ tries' = IF Asker(r) /\ r.place = "add" THEN tries + 1 ELSE tries
  /\ net' = net \ {r}
  /\ UNCHANGED <<rowVars, shown, screen, panel, next, others>>

\* The unit form's second request.
GoOn(r) ==
  /\ r.stage = "ok" /\ r.op = "createSite" /\ r.form.data.kind = "unit"
  /\ net' = (net \ {r}) \cup {[r EXCEPT !.op = "createDevice", !.stage = "sent"]}
  /\ UNCHANGED <<rowVars, tabVars, others, tries>>

\* onSaved and onConfirm unmount what their panel has in that place now, be
\* it the form of another device; a panel that is closed has nothing there.
CloseForm(r) ==
  /\ r.stage = "ok" /\ r.place \in {"site", "dev", "dropDev"}
  /\ form' = IF panel.no = r.panel THEN [form EXCEPT ![r.place] = Unmounted]
             ELSE form
  /\ net' = net \ {r}
  /\ UNCHANGED <<rowVars, shown, screen, panel, next, others, tries>>

\* onDeleted and onCreated close whatever panel or modal is open now.
CloseWhole(r, open) ==
  /\ IF screen = open
     THEN screen' = "grid" /\ panel' = NoPanel /\ form' = NoForms
     ELSE UNCHANGED <<screen, panel, form>>
  /\ net' = net \ {r}
  /\ UNCHANGED <<rowVars, shown, next, others, tries>>

SiteDeleted(r) == r.stage = "ok" /\ r.place = "dropSite" /\ CloseWhole(r, "panel")
Created(r)     == /\ r.stage = "ok" /\ r.place = "add"
                  /\ r.op = "createDevice" \/ r.form.data.kind = "site"
                  /\ CloseWhole(r, "modal")

Settle(r) == ShowError(r) \/ GoOn(r) \/ CloseForm(r) \/ SiteDeleted(r) \/ Created(r)

\* A reload: rows that are no longer listed take their forms with them.
Reload ==
  /\ shown' = Listed
  /\ form' = [p \in Place |->
       IF p \in {"dev", "dropDev"} /\ form[p].target \notin DOMAIN Listed.devs
       THEN Unmounted ELSE form[p]]
  /\ UNCHANGED <<rowVars, screen, panel, next, net, others, tries>>

-----------------------------------------------------------------------------
(* Other writers.                                                          *)

Other == Room /\ others' = others + 1

OtherPatch(d, a, port) ==
  /\ Other
  /\ d \in LiveDevices /\ dev[d].row.addr # a
  /\ dev' = [dev EXCEPT ![d].row.addr = a, ![d].row.port = port]
  /\ Outdate({"dev"}, d) /\ net' = OutdateRequests(net, {"dev"}, d)
  /\ UNCHANGED <<site, shown, screen, next, tries>>

OtherDeletes(s) ==
  /\ Other
  /\ s \in LiveSites
  /\ site' = [site EXCEPT ![s].state = "deleted"]
  /\ Drop(OnSite(s))
  /\ UNCHANGED <<tabVars, net, tries>>

-----------------------------------------------------------------------------
Operator ==
  \/ \E s \in Site : SelectSite(s)
  \/ CloseScreen \/ EditSite \/ AskDeleteSite \/ Type
  \/ \E d \in Device : EditDevice(d) \/ AskDeleteDevice(d)
  \/ \E data \in AddForms : OpenAdd(data)
  \/ \E p \in Place : Cancel(p) \/ Submit(p)

Next ==
  \/ Operator
  \/ \E r \in net : Serve(r) \/ LoseAnswer(r) \/ Settle(r)
  \/ Reload
  \/ \E d \in Device, a \in Text, port \in Ports : OtherPatch(d, a, port)
  \/ \E s \in Site : OtherDeletes(s)

Spec == Init /\ [][Next]_vars

-----------------------------------------------------------------------------
(* What is required.                                                       *)

\* Rows keep to the schema (NOT NULL columns), and the screen shows enabled
\* devices only, as GET /v1/devices lists them (devices.ts:173-184).
TypeOK ==
  /\ \A s \in Site : /\ site[s].state \in {"unborn", "live", "deleted"}
                     /\ site[s].row \in [name : Text, tz : Text]
  /\ \A d \in Device :
       /\ dev[d].state \in {"unborn", "live", "deleted"}
       /\ dev[d].row \in [site : Site, addr : Text, port : Ports,
                          enabled : BOOLEAN, user : Values, pass : Values]
  /\ DOMAIN shown.sites \subseteq Site /\ DOMAIN shown.devs \subseteq Device
  /\ \A d \in DOMAIN shown.devs : shown.devs[d].enabled
  /\ screen \in {"grid", "panel", "modal"} /\ panel.site \in Site
  /\ \A p \in Place : form[p].no \in 0 .. MaxForms /\ form[p].target \in Site \cup Device
  /\ next \in 1 .. MaxForms + 1 /\ others \in 0 .. MaxForms
  /\ \A r \in net : r.place \in Place /\ r.stage \in {"sent", "ok", "error"}

\* A form that says "Saving..." waits for exactly one request of its own, and
\* a form that does not has none under way: no double submit, no answer that
\* leaves the buttons disabled (the saving flags of the five forms).
SavingMeansPending ==
  \A p \in Place : form[p].no # 0 =>
    Cardinality({r \in net : r.place = p /\ r.form.no = form[p].no})
      = (IF form[p].saving THEN 1 ELSE 0)

\* A unit or a site comes into being at most once per press of "Create": one
\* for every time an add form was opened or has shown an error.  A lost answer
\* is such an error, so a retry may repeat what was already done; an answer
\* that finds its form closed gives no further try (AddModal.tsx:140-152,
\* :184-218).
CreatedOncePerTry ==
  /\ Cardinality({d \in Device \ {Camera} : dev[d].state # "unborn"}) <= tries
  /\ Cardinality({s \in Site \ {Home} : site[s].state # "unborn"}) <= tries

\* What a form may make of a text nobody touched.
Tidied(old, new) == new = old \/ new = Trim[old]

\* Saving a form that was up to date when it was opened, and has not been
\* overtaken by another writer, leaves alone what the operator left alone, but
\* for what the form does on its own (SiteDetailPanel.tsx:189, :283-325): texts
\* are trimmed and missing ports filled in.  Blank credentials keep the stored
\* ones; if one of the two is typed, this says nothing of the other.
SaveLeavesTheRest ==
  [][\A r \in net : Serve(r) /\ r.form.fresh =>
       LET id      == r.form.target
           idle(f) == f \notin r.form.touched
       IN  /\ r.op = "patchSite" =>
                \A f \in {"name", "tz"} :
                  idle(f) => Tidied(site[id].row[f], site'[id].row[f])
           /\ r.op = "patchDevice" =>
                LET old == dev[id].row
                    new == dev'[id].row
                IN  /\ idle("addr") => Tidied(old.addr, new.addr)
                    /\ idle("port") => new.port \in {old.port, FilledIn(old.port)}
                    /\ idle("enabled") => new.enabled = old.enabled
                    /\ idle("user") /\ idle("pass") =>
                         new.user = old.user /\ new.pass = old.pass]_vars
=============================================================================
