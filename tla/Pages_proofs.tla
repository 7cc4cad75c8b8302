----------------------------- MODULE Pages_proofs -----------------------------
(***************************************************************************)
(* Theorems about four pages, for any repositories, branches, schemes,     *)
(* groups and numbers of requests: the form of a scheme, whose module is   *)
(* extended, and the list of repositories, the panel of one and the tree   *)
(* of the groups, whose modules are instances.  The pages share the        *)
(* constants they have in common and no variable.                          *)
(***************************************************************************)
EXTENDS SchemeForm, Sequences, FiniteSetTheorems, WellFoundedInduction, TLAPS

CONSTANTS
  SchemeIds, Owner, Configured, Texts, Filters, Matches, ListSent,  \* of the list
  Names, Initially, PanelSent,                                      \* of the panel
  Groups, Parent, Users, Depts, DeptOf, MaxSent                     \* of the tree

VARIABLES
  stored, hooks, url, search, searchTimer, result, loading, expanded, repoSchemes,
  fetching, running, status, registered, calls, sent,
  server, activeRepo, activeTab, listed, filter, selected, isAuditing, isCleaning,
  isCreating, modal, aclTarget, asked, clicks,
  known, groups, address, selectedGroup, hasInitialized, table, showArchived,
  isSyncingGroup, unfolded, showHidden, systemUsers, form, pending, turns

Page == INSTANCE ReposPage WITH Schemes <- SchemeIds, MaxSent <- ListSent, waiting <- calls
Panel == INSTANCE RepoPanel
  WITH MaxSent <- PanelSent, branches <- listed, waiting <- asked, sent <- clicks
Tree == INSTANCE ManagedRepos
  WITH server <- known, url <- address, repos <- table, expanded <- unfolded,
       waiting <- pending, sent <- turns

-----------------------------------------------------------------------------
(* The sheet of a scheme *)

(* A request for schemes keeps a scheme that is new.                       *)
Fits(w) ==
  w.repo \in Repos /\ (w.kind = "schemes" => w.scheme \in Schemes /\ w.scheme.id = None)
FormTyped ==
  /\ TypeOK
  /\ refs = [attrs |-> refs.attrs, langs |-> refs.langs, snap |-> refs.snap]
  /\ refs.attrs \in Attrs \cup {None}
  /\ \A w \in waiting : Fits(w)

(* The sheet's copies are those of attributes a; they are those of scheme s. *)
Reads(h, a) == h.params = Given(a).params /\ (h.types # {} => h.types = TypesOf(a))
Selects(s) == s.id # None => Given(s.attrs).sel \in {None, s.branchs}
Copies(s, h) == s.id # None => /\ h.mr = s.mr /\ h.daily = s.daily
                               /\ h.manual => h.text = s.branchs
(* The copies agree with the attributes they were read from, open or not,  *)
(* and while the sheet is open these are the scheme's.  That a request     *)
(* keeps a new scheme only is what lets its answer replace the scheme.     *)
FormInv ==
  /\ FormTyped /\ OneSave
  /\ Reads(sheet, refs.attrs)
  /\ visible /\ scheme # None =>
       refs.attrs = scheme.attrs /\ Copies(scheme, sheet) /\ Selects(scheme)

LEMMA InitForm == ASSUME Sensible, Init PROVE FormInv
<1>1. NoAttrs \in Attrs BY DEF Sensible, NoAttrs, Attrs
<1>2. TypeOK BY DEF Init, Sensible, TypeOK, Sheet
<1>3. refs = [attrs |-> NoAttrs, langs |-> {}, snap |-> None] BY DEF Init
<1>4. FormTyped BY <1>1, <1>2, <1>3 DEF FormTyped, Init
<1>5. OneSave BY DEF Init, OneSave
<1>6. Given(NoAttrs) = NoAttrs /\ NoAttrs.params = NoParams /\ NoAttrs.types = {}
  BY <1>1 DEF Given, NoAttrs
<1>7. Reads(sheet, refs.attrs) BY <1>3, <1>6 DEF Init, Reads, TypesOf
<1>8. QED BY <1>4, <1>5, <1>7 DEF FormInv, Init

LEMMA GivenIs ==
  ASSUME Sensible, NEW a \in Attrs \cup {None}
  PROVE  Given(a) \in Attrs /\ TypesOf(a) \in SUBSET Codes
<1>1. NoAttrs \in Attrs /\ NoAttrs.types = {} BY DEF Sensible, NoAttrs, Attrs
<1>2. Given(a) \in Attrs BY <1>1 DEF Given
<1>3. CASE a = None BY <1>1, <1>3 DEF TypesOf, Given, Sensible
<1>4. CASE a # None BY <1>4 DEF TypesOf, Given, Sensible, Attrs
<1>5. QED BY <1>2, <1>3, <1>4

LEMMA FilledIs ==
  ASSUME Sensible, NEW s \in Schemes
  PROVE  /\ Filled(s) \in Schemes /\ Filled(s).id = s.id /\ Filled(s).attrs = s.attrs
         /\ Filled(s).branchs = s.branchs
         /\ Filled(s).mr = IsOn(s.mr) /\ Filled(s).daily = IsOn(s.daily)
<1>1. PICK m : m = IsOn(s.mr) OBVIOUS
<1>2. PICK d : d = IsOn(s.daily) OBVIOUS
<1>3. PICK l : l = Inherited(s) OBVIOUS
<1>4. m \in BOOLEAN /\ d \in BOOLEAN /\ l \in SUBSET Langs
  BY <1>1, <1>2, <1>3 DEF IsOn, Inherited, Sensible, Schemes
<1>5. Filled(s) = [s EXCEPT !.mr = m, !.daily = d, !.langs = l]
  BY <1>1, <1>2, <1>3, Zenon DEF Filled
<1>6. [s EXCEPT !.mr = m, !.daily = d, !.langs = l] \in Schemes BY <1>4 DEF Schemes
<1>7. PICK f : f = [s EXCEPT !.mr = m, !.daily = d, !.langs = l] OBVIOUS
<1>8. f.id = s.id /\ f.attrs = s.attrs /\ f.branchs = s.branchs /\ f.mr = m /\ f.daily = d
  BY <1>7 DEF Schemes
<1>9. QED BY <1>1, <1>2, <1>5, <1>6, <1>7, <1>8

LEMMA CopiedIs ==
  ASSUME Sensible, NEW s \in Schemes, NEW h \in Sheet, NEW parse \in BOOLEAN
  PROVE  /\ Copied(s, h, parse) \in Sheet
         /\ Copied(s, h, parse).mr = IsOn(s.mr) /\ Copied(s, h, parse).daily = IsOn(s.daily)
         /\ Copied(s, h, parse).text = s.branchs
         /\ Copied(s, h, parse).params = IF parse THEN Given(s.attrs).params ELSE h.params
         /\ Copied(s, h, parse).types = IF parse THEN TypesOf(s.attrs) ELSE h.types
<1>1. PICK m : m = IsOn(s.mr) OBVIOUS
<1>2. PICK d : d = IsOn(s.daily) OBVIOUS
<1>3. PICK manual : manual = (h.manual \/ s.branchs \cap Patterns # {}) OBVIOUS
<1>4. PICK ps : ps = IF parse THEN Given(s.attrs).params ELSE h.params OBVIOUS
<1>5. PICK ts : ts = IF parse THEN TypesOf(s.attrs) ELSE h.types OBVIOUS
<1>6. s.attrs \in Attrs \cup {None} /\ s.branchs \in SUBSET Branches BY DEF Schemes
<1>7. m \in BOOLEAN /\ d \in BOOLEAN BY <1>1, <1>2 DEF IsOn, Schemes
<1>8. manual \in BOOLEAN BY <1>3 DEF Sheet
<1>9. ps \in ParamLists /\ ts \in SUBSET Codes BY <1>4, <1>5, <1>6, GivenIs DEF Attrs, Sheet
<1>10. PICK k : k = [h EXCEPT !.mr = m, !.daily = d, !.text = s.branchs, !.manual = manual,
                              !.params = ps, !.types = ts]
  OBVIOUS
<1>11. Copied(s, h, parse) = k BY <1>1, <1>2, <1>3, <1>4, <1>5, <1>10, Zenon DEF Copied
<1>12. k \in Sheet BY <1>6, <1>7, <1>8, <1>9, <1>10 DEF Sheet
<1>13. k.mr = m /\ k.daily = d /\ k.text = s.branchs /\ k.params = ps /\ k.types = ts
  BY <1>10 DEF Sheet
<1>14. QED BY <1>1, <1>2, <1>4, <1>5, <1>11, <1>12, <1>13

(* A render leaves a scheme and a sheet that agree, if it is given such.   *)
Rendered ==
  /\ scheme' \in Schemes \cup {None} /\ sheet' \in Sheet /\ dirty' \in BOOLEAN
  /\ refs' = [attrs |-> refs'.attrs, langs |-> refs'.langs, snap |-> refs'.snap]
  /\ refs'.attrs \in Attrs \cup {None}
  /\ Reads(sheet', refs'.attrs)
  /\ visible' /\ scheme' # None =>
       refs'.attrs = scheme'.attrs /\ Copies(scheme', sheet') /\ Selects(scheme')

LEMMA EffectRenders ==
  ASSUME Sensible, NEW s \in Schemes, NEW h \in Sheet, NEW last, Reads(h, last), Selects(s),
         RenderWithEffect(s, h, last)
  PROVE  Rendered
<1>1. PICK parse \in BOOLEAN : parse = (s.attrs = None \/ s.attrs # last) OBVIOUS
<1>2. scheme' = Filled(s) /\ sheet' = Copied(s, h, parse)
  BY <1>1, Zenon DEF RenderWithEffect
<1>3. refs' = [attrs |-> s.attrs, langs |-> s.langs,
               snap |-> Retaken(Filled(s), Copied(s, h, parse))]
  BY <1>1, Zenon DEF RenderWithEffect
<1>4. dirty' \in BOOLEAN BY Zenon DEF RenderWithEffect, IsDirty
<1>5. /\ scheme' \in Schemes /\ scheme'.id = s.id /\ scheme'.attrs = s.attrs
      /\ scheme'.branchs = s.branchs
      /\ scheme'.mr = sheet'.mr /\ scheme'.daily = sheet'.daily
      /\ sheet' \in Sheet /\ sheet'.text = s.branchs
  <2>1. PICK f, k : f = Filled(s) /\ k = Copied(s, h, parse) OBVIOUS
  <2>2. /\ f \in Schemes /\ f.id = s.id /\ f.attrs = s.attrs /\ f.branchs = s.branchs
        /\ f.mr = IsOn(s.mr) /\ f.daily = IsOn(s.daily)
    BY <2>1, FilledIs
  <2>3. k \in Sheet /\ k.mr = IsOn(s.mr) /\ k.daily = IsOn(s.daily) /\ k.text = s.branchs
    BY <2>1, CopiedIs
  <2>4. QED BY <1>2, <2>1, <2>2, <2>3
<1>6. /\ sheet'.params = IF parse THEN Given(s.attrs).params ELSE h.params
      /\ sheet'.types = IF parse THEN TypesOf(s.attrs) ELSE h.types
  <2>1. PICK k : k = Copied(s, h, parse) OBVIOUS
  <2>2. /\ k.params = IF parse THEN Given(s.attrs).params ELSE h.params
        /\ k.types = IF parse THEN TypesOf(s.attrs) ELSE h.types
    BY <2>1, CopiedIs
  <2>3. QED BY <1>2, <2>1, <2>2
<1>7. Reads(sheet', s.attrs) BY <1>1, <1>6 DEF Reads
<1>8. /\ refs' = [attrs |-> refs'.attrs, langs |-> refs'.langs, snap |-> refs'.snap]
      /\ refs'.attrs = s.attrs /\ s.attrs \in Attrs \cup {None}
  BY <1>3 DEF Schemes
<1>9. Copies(scheme', sheet') BY <1>5 DEF Copies
<1>10. Selects(scheme') BY <1>5 DEF Selects
<1>11. QED BY <1>4, <1>5, <1>7, <1>8, <1>9, <1>10 DEF Rendered

LEMMA PlainRenders ==
  ASSUME FormInv, NEW s \in Schemes, NEW h \in Sheet, NEW last \in Attrs \cup {None},
         NEW snap,
         Reads(h, last), Render(s, h, last, snap),
         visible' => last = s.attrs /\ Copies(s, h) /\ Selects(s)
  PROVE  Rendered
<1>1. scheme' = s /\ sheet' = h /\ refs' = [refs EXCEPT !.attrs = last, !.snap = snap]
  BY DEF Render
<1>2. dirty' \in BOOLEAN BY Zenon DEF Render, IsDirty
<1>3. refs = [attrs |-> refs.attrs, langs |-> refs.langs, snap |-> refs.snap]
  BY DEF FormInv, FormTyped
<1>4. refs' = [attrs |-> last, langs |-> refs.langs, snap |-> snap] BY <1>1, <1>3
<1>5. QED BY <1>1, <1>2, <1>4 DEF Rendered

LEMMA SettleRenders ==
  ASSUME Sensible, FormInv, NEW s \in Schemes, NEW h \in Sheet, NEW snap,
         NEW last \in Attrs \cup {None}, last = s.attrs \/ last = refs.attrs,
         Reads(h, last),
         Selects(s), visible' /\ visible /\ scheme # None => Copies(s, h),
         Settle(s, h, last, snap)
  PROVE  Rendered
<1>1. CASE RenderWithEffect(s, h, last) BY <1>1, EffectRenders
<1>2. CASE /\ Render(s, h, last, snap)
           /\ visible' => /\ visible /\ scheme # None
                          /\ s.attrs = scheme.attrs
  <2>1. visible' => last = s.attrs BY <1>2 DEF FormInv
  <2>2. QED BY <1>2, <2>1, PlainRenders
<1>3. s # None BY DEF Sensible
<1>4. QED BY <1>1, <1>2, <1>3 DEF Settle

LEMMA FormKept ==
  ASSUME Sensible, FormInv, Rendered, OneSave',
         visible' \in BOOLEAN, saving' \in BOOLEAN, success' \in BOOLEAN,
         asking' \in BOOLEAN,
         pasting' \in BOOLEAN, branches' \in Repos \cup {None},
         others' \in Repos \cup {None},
         \A w \in waiting' : Fits(w)
  PROVE  FormInv'
<1>1. TypeOK' BY DEF Rendered, TypeOK
<1>2. FormTyped' BY <1>1 DEF FormTyped, Rendered
<1>3. Reads(sheet, refs.attrs)' BY DEF Rendered, Reads
<1>4. (visible /\ scheme # None =>
         refs.attrs = scheme.attrs /\ Copies(scheme, sheet) /\ Selects(scheme))'
  BY DEF Rendered, Copies, Selects
<1>5. QED BY <1>2, <1>3, <1>4 DEF FormInv

LEMMA FormTypes ==
  ASSUME FormInv
  PROVE  /\ visible \in BOOLEAN /\ saving \in BOOLEAN /\ success \in BOOLEAN
         /\ dirty \in BOOLEAN /\ asking \in BOOLEAN /\ pasting \in BOOLEAN
         /\ branches \in Repos \cup {None} /\ others \in Repos \cup {None}
         /\ scheme \in Schemes \cup {None} /\ sheet \in Sheet
         /\ refs.attrs \in Attrs \cup {None}
BY DEF FormInv, FormTyped, TypeOK

LEMMA SaveKept == ASSUME OneSave, UNCHANGED <<saving, saves>> PROVE OneSave'
BY DEF OneSave

LEMMA AskedFits ==
  ASSUME NEW s \in Schemes, NEW w \in Asked(s)
  PROVE  Fits(w)
<1>0. s.repo \in Repos BY DEF Schemes
<1>1. CASE w = [kind |-> "branches", repo |-> s.repo] BY <1>0, <1>1 DEF Fits
<1>2. CASE /\ s.id = None
           /\ w = [kind |-> "schemes", repo |-> s.repo, scheme |-> s, sheet |-> sheet]
  BY <1>0, <1>2 DEF Fits
<1>3. QED BY <1>1, <1>2, Zenon DEF Asked

LEMMA OpenKeeps ==
  ASSUME Sensible, FormInv, NEW s \in Schemes, Selects(s), Open(s)
  PROVE  FormInv'
<1>1. /\ ~visible /\ visible' = TRUE /\ asking' = FALSE /\ waiting' = waiting \cup Asked(s)
      /\ UNCHANGED <<saving, success, pasting, branches, others, saves>>
      /\ Settle(s, sheet, refs.attrs, refs.snap)
  BY DEF Open
<1>2. Reads(sheet, refs.attrs) BY DEF FormInv
<1>3. Rendered BY <1>1, <1>2, FormTypes, SettleRenders
<1>4. OneSave' BY <1>1, SaveKept DEF FormInv
<1>5. \A w \in waiting' : Fits(w)
  BY <1>1, AskedFits DEF FormInv, FormTyped
<1>6. QED BY <1>1, <1>3, <1>4, <1>5, FormTypes, FormKept

LEMMA NewSchemeIs ==
  ASSUME Sensible, NEW r \in Repos, NEW t \in {"group", None}, NEW l \in SUBSET Langs
  PROVE  NewScheme(r, t, l) \in Schemes /\ Selects(NewScheme(r, t, l))
<1>1. PICK b \in Branches : b = CHOOSE x \in Branches \ Patterns : TRUE BY DEF Sensible
<1>2. PICK s : s = [id |-> None, repo |-> r, target |-> t, branchs |-> {b}, langs |-> l,
                    mr |-> None, daily |-> None, attrs |-> None]
  OBVIOUS
<1>3. NewScheme(r, t, l) = s BY <1>1, <1>2 DEF NewScheme
<1>4. s \in Schemes BY <1>2 DEF Schemes
<1>5. s.id = None BY <1>2
<1>6. QED BY <1>3, <1>4, <1>5 DEF Selects

LEMMA CloseKeeps ==
  ASSUME Sensible, FormInv, Closed
  PROVE  FormInv'
<1>1. refs = [attrs |-> refs.attrs, langs |-> refs.langs, snap |-> refs.snap]
  BY DEF FormInv, FormTyped
<1>2. /\ visible' = FALSE /\ success' = FALSE /\ asking' = FALSE /\ scheme' = None
      /\ dirty' = FALSE /\ refs' = [refs EXCEPT !.snap = None] /\ saving' = saving
      /\ branches' = None /\ others' = None
      /\ UNCHANGED <<sheet, pasting, waiting, saves>>
  BY DEF Closed, StopSaving
<1>3. refs' = [attrs |-> refs.attrs, langs |-> refs.langs, snap |-> None] BY <1>1, <1>2
<1>4. Reads(sheet', refs'.attrs) BY <1>2, <1>3 DEF FormInv
<1>5. Rendered BY <1>2, <1>3, <1>4, FormTypes DEF Rendered
<1>6. OneSave' BY <1>2, SaveKept DEF FormInv
<1>7. QED BY <1>2, <1>5, <1>6, FormTypes, FormKept DEF FormInv, FormTyped

(* What renders nothing leaves what was rendered.                          *)
LEMMA StillRendered ==
  ASSUME FormInv, UNCHANGED <<scheme, visible, sheet, refs>>, dirty' \in BOOLEAN
  PROVE  Rendered
BY DEF FormInv, FormTyped, TypeOK, Rendered

LEMMA LayersKeep ==
  ASSUME Sensible, FormInv, NEW a \in BOOLEAN, NEW p \in BOOLEAN, Layers(a, p)
  PROVE  FormInv'
<1>1. /\ asking' = a /\ pasting' = p
      /\ UNCHANGED <<scheme, visible, saving, success, sheet, refs, dirty, branches, others,
                     waiting, saves>>
  BY DEF Layers
<1>2. Rendered BY <1>1, FormTypes, StillRendered
<1>3. OneSave' BY <1>1, SaveKept DEF FormInv
<1>4. QED BY <1>1, <1>2, <1>3, FormTypes, FormKept DEF FormInv, FormTyped

-----------------------------------------------------------------------------
(* Edits: each leaves a scheme and a sheet that agree.                     *)

Flipped(x, S) == IF x \in S THEN S \ {x} ELSE S \cup {x}

LEMMA EditKeeps ==
  ASSUME Sensible, FormInv, NEW s \in Schemes, NEW h \in Sheet,
         NEW last \in Attrs \cup {None}, last = s.attrs \/ last = refs.attrs,
         Reads(h, last), Copies(s, h), Selects(s), Edit(s, h, last), pasting' \in BOOLEAN
  PROVE  FormInv'
<1>1. /\ UNCHANGED <<visible, saving, success, asking, branches, others, saves>>
      /\ Settle(s, h, last, refs.snap) /\ waiting' = waiting \cup Asked(s)
  BY DEF Edit
<1>2. Rendered BY <1>1, SettleRenders
<1>3. OneSave' BY <1>1, SaveKept DEF FormInv
<1>4. \A w \in waiting' : Fits(w)
  BY <1>1, AskedFits DEF FormInv, FormTyped
<1>5. QED BY <1>1, <1>2, <1>3, <1>4, FormTypes, FormKept

(* The sheet is there, with a scheme.                                      *)
LEMMA Editable ==
  ASSUME FormInv, NEW s, NEW h, NEW last, Edit(s, h, last)
  PROVE  /\ scheme \in Schemes /\ refs.attrs = scheme.attrs /\ Copies(scheme, sheet)
         /\ Selects(scheme) /\ Reads(sheet, refs.attrs)
BY FormTypes DEF FormInv, Edit

LEMMA ToggleKeeps == ASSUME Sensible, FormInv, ToggleTrigger PROVE FormInv'
<1>1. PICK m \in BOOLEAN, d \in BOOLEAN :
        /\ UNCHANGED pasting
        /\ Edit([scheme EXCEPT !.mr = m, !.daily = d], [sheet EXCEPT !.mr = m, !.daily = d],
                refs.attrs)
  BY DEF ToggleTrigger
<1>2. PICK s, h : /\ s = [scheme EXCEPT !.mr = m, !.daily = d]
                  /\ h = [sheet EXCEPT !.mr = m, !.daily = d]
  OBVIOUS
<1>3. Edit(s, h, refs.attrs) BY <1>1, <1>2
<1>4. /\ scheme \in Schemes /\ refs.attrs = scheme.attrs /\ Copies(scheme, sheet)
      /\ Selects(scheme) /\ Reads(sheet, refs.attrs)
  BY <1>3, Editable
<1>5. /\ s \in Schemes /\ s.id = scheme.id /\ s.mr = m /\ s.daily = d
      /\ s.branchs = scheme.branchs /\ s.attrs = scheme.attrs
  BY <1>2, <1>4 DEF Schemes
<1>6. /\ h \in Sheet /\ h.mr = m /\ h.daily = d
      /\ h.manual = sheet.manual /\ h.text = sheet.text
      /\ h.params = sheet.params /\ h.types = sheet.types
  BY <1>2, FormTypes DEF Sheet
<1>7. Reads(h, refs.attrs) BY <1>4, <1>6 DEF Reads
<1>8. Copies(s, h) /\ Selects(s) BY <1>4, <1>5, <1>6 DEF Copies, Selects
<1>9. QED BY <1>1, <1>3, <1>5, <1>6, <1>7, <1>8, FormTypes, EditKeeps

LEMMA CustomAttrsKeep ==
  ASSUME Sensible, FormInv, NEW h \in Sheet, h.manual = sheet.manual, h.text = sheet.text,
         UpdateCustomAttrs(h), pasting' \in BOOLEAN
  PROVE  FormInv'
<1>1. PICK a : a = [params |-> h.params, types |-> h.types, sel |-> None] OBVIOUS
<1>2. PICK s : s = [scheme EXCEPT !.attrs = a, !.mr = h.mr, !.daily = h.daily] OBVIOUS
<1>3. WithAttrs(scheme, h) = s BY <1>1, <1>2 DEF WithAttrs
<1>4. Edit(s, h, s.attrs) BY <1>3 DEF UpdateCustomAttrs
<1>5. scheme \in Schemes /\ Copies(scheme, sheet) BY <1>4, Editable
<1>6. a \in Attrs /\ a # None BY <1>1 DEF Attrs, Sheet, Sensible
<1>7. s \in Schemes BY <1>2, <1>5, <1>6 DEF Schemes, Sheet
<1>8. s.id = scheme.id /\ s.mr = h.mr /\ s.daily = h.daily /\ s.branchs = scheme.branchs
      /\ s.attrs = a
  BY <1>2, <1>5 DEF Schemes
<1>9. Given(a) = a /\ a.params = h.params /\ a.types = h.types /\ a.sel = None
  BY <1>1, <1>6 DEF Given
<1>10. Reads(h, a) BY <1>9 DEF Reads, TypesOf
<1>11. Copies(s, h) BY <1>5, <1>8 DEF Copies
<1>12. Selects(s) BY <1>8, <1>9 DEF Selects
<1>13. QED BY <1>4, <1>6, <1>7, <1>8, <1>10, <1>11, <1>12, EditKeeps

LEMMA BranchsKeep ==
  ASSUME Sensible, FormInv, NEW bs \in SUBSET Branches, NEW h \in Sheet,
         h.mr = sheet.mr, h.daily = sheet.daily, h.params = sheet.params,
         h.types = sheet.types, h.manual => h.text = bs, BranchsChange(bs, h)
  PROVE  FormInv'
<1>1. PICK a : a = Selected(scheme.attrs, bs) OBVIOUS
<1>2. PICK s : s = [scheme EXCEPT !.branchs = bs, !.attrs = a] OBVIOUS
<1>3. Edit(s, h, s.attrs) /\ UNCHANGED pasting
  BY <1>1, <1>2, Zenon DEF BranchsChange
<1>4. /\ scheme \in Schemes /\ refs.attrs = scheme.attrs /\ Copies(scheme, sheet)
      /\ Selects(scheme) /\ Reads(sheet, refs.attrs)
  BY <1>3, Editable
<1>5. scheme.attrs \in Attrs \cup {None} BY <1>4 DEF Schemes
<1>6. Given(scheme.attrs) \in Attrs BY <1>5, GivenIs
<1>7. /\ a \in Attrs /\ a.params = Given(scheme.attrs).params
      /\ a.types = Given(scheme.attrs).types /\ a.sel = bs
  BY <1>1, <1>6 DEF Selected, Attrs
<1>8. a # None /\ Given(a) = a BY <1>7 DEF Sensible, Given
<1>9. TypesOf(a) = TypesOf(scheme.attrs)
  BY <1>7, <1>8 DEF TypesOf, Given, NoAttrs
<1>10. Reads(h, a) BY <1>4, <1>7, <1>8, <1>9 DEF Reads
<1>11. s \in Schemes BY <1>2, <1>4, <1>7 DEF Schemes
<1>12. s.id = scheme.id /\ s.mr = scheme.mr /\ s.daily = scheme.daily /\ s.branchs = bs
       /\ s.attrs = a
  BY <1>2, <1>4 DEF Schemes
<1>13. Copies(s, h) BY <1>4, <1>12 DEF Copies
<1>14. Selects(s) BY <1>7, <1>8, <1>12 DEF Selects
<1>15. QED BY <1>3, <1>7, <1>10, <1>11, <1>12, <1>13, <1>14, FormTypes, EditKeeps

LEMMA PageEditsKeep ==
  ASSUME Sensible, FormInv, BuildTypeChange \/ ParamsChange \/ PasteAttrs
  PROVE  FormInv'
<1>0. sheet \in Sheet BY FormTypes
<1>1. CASE BuildTypeChange
  <2>1. PICK c \in Codes :
          /\ UNCHANGED pasting
          /\ UpdateCustomAttrs([sheet EXCEPT !.types = Flipped(c, @)])
    BY <1>1 DEF BuildTypeChange, Flipped
  <2>2. PICK ts : ts = Flipped(c, sheet.types)
    OBVIOUS
  <2>3. PICK h : h = [sheet EXCEPT !.types = ts] OBVIOUS
  <2>4. ts \in SUBSET Codes BY <1>0, <2>2 DEF Sheet, Flipped
  <2>5. h \in Sheet /\ h.manual = sheet.manual /\ h.text = sheet.text
    BY <1>0, <2>3, <2>4 DEF Sheet
  <2>6. UpdateCustomAttrs(h) BY <2>1, <2>2, <2>3
  <2>7. QED BY <2>1, <2>5, <2>6, FormTypes, CustomAttrsKeep
<1>2. CASE ParamsChange
  <2>1. PICK ps \in ParamLists :
          UNCHANGED pasting /\ UpdateCustomAttrs([sheet EXCEPT !.params = ps])
    BY <1>2 DEF ParamsChange
  <2>2. PICK h : h = [sheet EXCEPT !.params = ps] OBVIOUS
  <2>3. h \in Sheet /\ h.manual = sheet.manual /\ h.text = sheet.text
    BY <1>0, <2>2 DEF Sheet
  <2>4. UpdateCustomAttrs(h) BY <2>1, <2>2
  <2>5. QED BY <2>1, <2>3, <2>4, FormTypes, CustomAttrsKeep
<1>3. CASE PasteAttrs
  <2>1. PICK ps \in ParamLists, ts \in (SUBSET Codes) \cup {None} :
          /\ pasting' = FALSE
          /\ UpdateCustomAttrs([sheet EXCEPT !.params = ps,
                                             !.types = IF ts = None THEN @ ELSE ts])
    BY <1>3 DEF PasteAttrs
  <2>2. PICK us : us = IF ts = None THEN sheet.types ELSE ts OBVIOUS
  <2>3. PICK h : h = [sheet EXCEPT !.params = ps, !.types = us] OBVIOUS
  <2>4. us \in SUBSET Codes BY <1>0, <2>2 DEF Sheet
  <2>5. h \in Sheet /\ h.manual = sheet.manual /\ h.text = sheet.text
    BY <1>0, <2>3, <2>4 DEF Sheet
  <2>6. UpdateCustomAttrs(h) BY <2>1, <2>2, <2>3
  <2>7. QED BY <2>1, <2>5, <2>6, CustomAttrsKeep
<1>4. QED BY <1>1, <1>2, <1>3

LEMMA BranchEditsKeep ==
  ASSUME Sensible, FormInv, PickBranch \/ TypeBranchs
  PROVE  FormInv'
<1>0. sheet \in Sheet BY FormTypes
<1>1. PICK bs \in SUBSET Branches : BranchsChange(bs, [sheet EXCEPT !.text = bs])
  <2>1. CASE PickBranch
    <3>1. PICK b \in Branches :
            /\ scheme # None
            /\ BranchsChange(Flipped(b, scheme.branchs),
                             [sheet EXCEPT !.text = Flipped(b, scheme.branchs)])
      BY <2>1, Zenon DEF PickBranch, Flipped
    <3>2. scheme.branchs \in SUBSET Branches BY <3>1, FormTypes DEF Schemes
    <3>3. PICK bs : bs = Flipped(b, scheme.branchs) OBVIOUS
    <3>4. bs \in SUBSET Branches BY <3>2, <3>3 DEF Flipped
    <3>5. QED BY <3>1, <3>3, <3>4
  <2>2. CASE TypeBranchs BY <2>2 DEF TypeBranchs
  <2>3. QED BY <2>1, <2>2
<1>2. PICK h : h = [sheet EXCEPT !.text = bs] OBVIOUS
<1>3. /\ h \in Sheet /\ h.mr = sheet.mr /\ h.daily = sheet.daily /\ h.params = sheet.params
      /\ h.types = sheet.types /\ h.text = bs
  BY <1>0, <1>2 DEF Sheet
<1>4. BranchsChange(bs, h) BY <1>1, <1>2
<1>5. QED BY <1>3, <1>4, BranchsKeep

LEMMA OtherEditsKeep ==
  ASSUME Sensible, FormInv, SetManual \/ ChooseTarget \/ LanguagesChange
  PROVE  FormInv'
<1>0. sheet \in Sheet BY FormTypes
<1>1. CASE SetManual
  <2>1. PICK h : h = IF sheet.manual THEN [sheet EXCEPT !.manual = FALSE]
                     ELSE [sheet EXCEPT !.manual = TRUE, !.text = scheme.branchs]
    OBVIOUS
  <2>2. Edit(scheme, h, refs.attrs) /\ UNCHANGED pasting BY <1>1, <2>1 DEF SetManual
  <2>3. /\ scheme \in Schemes /\ refs.attrs = scheme.attrs /\ Copies(scheme, sheet)
        /\ Selects(scheme) /\ Reads(sheet, refs.attrs)
    BY <2>2, Editable
  <2>4. scheme.branchs \in SUBSET Branches BY <2>3 DEF Schemes
  <2>5. /\ h \in Sheet /\ h.mr = sheet.mr /\ h.daily = sheet.daily
        /\ h.params = sheet.params /\ h.types = sheet.types
        /\ h.manual => h.text = scheme.branchs
    BY <1>0, <2>1, <2>4 DEF Sheet
  <2>6. Reads(h, refs.attrs) BY <2>3, <2>5 DEF Reads
  <2>7. Copies(scheme, h) BY <2>3, <2>5 DEF Copies
  <2>8. QED BY <2>2, <2>3, <2>5, <2>6, <2>7, FormTypes, EditKeeps
<1>2. CASE ChooseTarget
  <2>1. PICK t \in {"group", "pipe", None} :
          Edit([scheme EXCEPT !.target = t], sheet, refs.attrs) /\ UNCHANGED pasting
    BY <1>2 DEF ChooseTarget
  <2>2. PICK s : s = [scheme EXCEPT !.target = t] OBVIOUS
  <2>3. Edit(s, sheet, refs.attrs) BY <2>1, <2>2
  <2>4. /\ scheme \in Schemes /\ refs.attrs = scheme.attrs /\ Copies(scheme, sheet)
        /\ Selects(scheme) /\ Reads(sheet, refs.attrs)
    BY <2>3, Editable
  <2>5. s \in Schemes BY <2>2, <2>4 DEF Schemes
  <2>6. s.id = scheme.id /\ s.mr = scheme.mr /\ s.daily = scheme.daily
        /\ s.branchs = scheme.branchs /\ s.attrs = scheme.attrs
    BY <2>2, <2>4 DEF Schemes
  <2>7. Copies(s, sheet) /\ Selects(s) BY <2>4, <2>6 DEF Copies, Selects
  <2>8. QED BY <1>0, <2>1, <2>3, <2>4, <2>5, <2>6, <2>7, FormTypes, EditKeeps
<1>3. CASE LanguagesChange
  <2>1. PICK l \in Langs :
          /\ scheme # None /\ UNCHANGED pasting
          /\ Edit([scheme EXCEPT !.langs = Flipped(l, @)], sheet, refs.attrs)
    BY <1>3 DEF LanguagesChange, Flipped
  <2>2. PICK ls : ls = Flipped(l, scheme.langs) OBVIOUS
  <2>3. PICK s : s = [scheme EXCEPT !.langs = ls] OBVIOUS
  <2>4. Edit(s, sheet, refs.attrs) BY <2>1, <2>2, <2>3
  <2>5. /\ scheme \in Schemes /\ refs.attrs = scheme.attrs /\ Copies(scheme, sheet)
        /\ Selects(scheme) /\ Reads(sheet, refs.attrs)
    BY <2>4, Editable
  <2>6. ls \in SUBSET Langs BY <2>2, <2>5 DEF Schemes, Flipped
  <2>7. s \in Schemes BY <2>3, <2>5, <2>6 DEF Schemes
  <2>8. s.id = scheme.id /\ s.mr = scheme.mr /\ s.daily = scheme.daily
        /\ s.branchs = scheme.branchs /\ s.attrs = scheme.attrs
    BY <2>3, <2>5 DEF Schemes
  <2>9. Copies(s, sheet) /\ Selects(s) BY <2>5, <2>8 DEF Copies, Selects
  <2>10. QED BY <1>0, <2>1, <2>4, <2>5, <2>7, <2>8, <2>9, FormTypes, EditKeeps
<1>4. QED BY <1>1, <1>2, <1>3

-----------------------------------------------------------------------------
(* Answers and saves *)

LEMMA AnswersKeep ==
  ASSUME Sensible, FormInv, BranchesAnswer \/ SchemesAnswer
  PROVE  FormInv'
<1>1. CASE BranchesAnswer
  <2>1. PICK w \in waiting :
          /\ waiting' = waiting \ {w}
          /\ branches' = w.repo \/ branches' = None
          /\ UNCHANGED <<scheme, visible, saving, success, sheet, refs, dirty, asking,
                         pasting, others, saves>>
    BY <1>1 DEF BranchesAnswer
  <2>2. branches' \in Repos \cup {None} BY <2>1 DEF FormInv, FormTyped, Fits
  <2>3. Rendered BY <2>1, FormTypes, StillRendered
  <2>4. OneSave' BY <2>1, SaveKept DEF FormInv
  <2>5. QED BY <2>1, <2>2, <2>3, <2>4, FormTypes, FormKept DEF FormInv, FormTyped
<1>2. CASE SchemesAnswer
  <2>1. PICK w \in waiting :
          /\ w.kind = "schemes" /\ waiting' = waiting \ {w}
          /\ UNCHANGED <<visible, saving, success, asking, pasting, branches, saves>>
          /\ others' = w.repo
          /\ \/ UNCHANGED <<scheme, sheet, refs, dirty>>
             \/ Settle([w.scheme EXCEPT !.langs = LangsOf[w.repo]], sheet, refs.attrs,
                       Snapshot([w.scheme EXCEPT !.langs = LangsOf[w.repo]], w.sheet))
    BY <1>2, Zenon DEF SchemesAnswer
  <2>2. w.repo \in Repos /\ w.scheme \in Schemes /\ w.scheme.id = None
    BY <2>1 DEF FormInv, FormTyped, Fits
  <2>3. Rendered
    <3>1. CASE UNCHANGED <<scheme, sheet, refs, dirty>>
      BY <2>1, <3>1, FormTypes, StillRendered
    <3>2. CASE Settle([w.scheme EXCEPT !.langs = LangsOf[w.repo]], sheet, refs.attrs,
                      Snapshot([w.scheme EXCEPT !.langs = LangsOf[w.repo]], w.sheet))
      <4>1. PICK s : s = [w.scheme EXCEPT !.langs = LangsOf[w.repo]] OBVIOUS
      <4>2. PICK snap : snap = Snapshot(s, w.sheet) OBVIOUS
      <4>3. Settle(s, sheet, refs.attrs, snap) BY <3>2, <4>1, <4>2
      <4>4. s \in Schemes /\ s.id = None BY <2>2, <4>1 DEF Schemes, Sensible
      <4>5. Selects(s) /\ Copies(s, sheet) BY <4>4 DEF Selects, Copies
      <4>6. Reads(sheet, refs.attrs) BY DEF FormInv
      <4>7. QED BY <4>3, <4>4, <4>5, <4>6, FormTypes, SettleRenders
    <3>3. QED BY <2>1, <3>1, <3>2
  <2>4. OneSave' BY <2>1, SaveKept DEF FormInv
  <2>5. QED BY <2>1, <2>2, <2>3, <2>4, FormTypes, FormKept DEF FormInv, FormTyped
<1>3. QED BY <1>1, <1>2

LEMMA SavesKeep ==
  ASSUME Sensible, FormInv, Submit \/ SaveAnswer
  PROVE  FormInv'
<1>1. CASE Submit
  <2>1. /\ ~saving /\ saving' = TRUE
        /\ UNCHANGED <<scheme, visible, success, sheet, refs, dirty, asking, pasting,
                       branches, others, waiting>>
    BY <1>1 DEF Submit
  <2>2. PICK r : saves' = saves \cup {r} BY <1>1 DEF Submit
  <2>3. saves = {} BY <2>1 DEF FormInv, OneSave
  <2>4. OneSave' BY <2>1, <2>2, <2>3 DEF OneSave
  <2>5. Rendered BY <2>1, FormTypes, StillRendered
  <2>6. QED BY <2>1, <2>4, <2>5, FormTypes, FormKept DEF FormInv, FormTyped
<1>2. CASE SaveAnswer
  <2>1. PICK w \in saves, ok \in BOOLEAN :
          /\ saves' = saves \ {w} /\ saving' = FALSE /\ success' = (ok \/ success)
          /\ IF ok THEN dirty' = FALSE ELSE UNCHANGED dirty
          /\ UNCHANGED <<scheme, visible, sheet, refs, asking, pasting, branches, others,
                         waiting>>
    BY <1>2, Zenon DEF SaveAnswer
  <2>2. saves' = {} BY <2>1 DEF FormInv, OneSave
  <2>3. OneSave' BY <2>1, <2>2 DEF OneSave
  <2>4. dirty' \in BOOLEAN /\ success' \in BOOLEAN BY <2>1, FormTypes
  <2>5. Rendered BY <2>1, <2>4, StillRendered
  <2>6. QED BY <2>1, <2>3, <2>4, <2>5, FormTypes, FormKept DEF FormInv, FormTyped
<1>3. QED BY <1>1, <1>2

(* Every event keeps the agreement.                                        *)
LEMMA FormStep == ASSUME Sensible, FormInv, [Next]_vars PROVE FormInv'
<1>1. CASE OpenNew
  <2>1. PICK r \in Repos, t \in {"group", None}, l \in {{}, Langs} :
          l \in {{}, LangsOf[r]} /\ Open(NewScheme(r, t, l))
    BY <1>1 DEF OpenNew
  <2>2. l \in SUBSET Langs BY <2>1
  <2>3. NewScheme(r, t, l) \in Schemes /\ Selects(NewScheme(r, t, l)) BY <2>2, NewSchemeIs
  <2>4. QED BY <2>1, <2>3, OpenKeeps
<1>2. CASE OpenRow
  <2>1. PICK s \in Rows : Open(s) BY <1>2 DEF OpenRow
  <2>2. s \in Schemes /\ Selects(s) BY DEF Sensible, Selects
  <2>3. QED BY <2>1, <2>2, OpenKeeps
<1>3. CASE RequestClose
  <2>1. CASE Closed BY <2>1, CloseKeeps
  <2>2. CASE /\ asking' = TRUE
             /\ UNCHANGED <<scheme, visible, saving, success, sheet, refs, dirty, pasting,
                            branches, others, waiting, saves, opened, edits, opens>>
    BY <2>2, FormTypes, LayersKeep DEF Layers
  <2>3. QED BY <1>3, <2>1, <2>2 DEF RequestClose
<1>4. CASE ConfirmDiscard \/ BannerDone BY <1>4, CloseKeeps DEF ConfirmDiscard, BannerDone
<1>5. CASE KeepEditing \/ OpenPaste \/ CancelPaste
  BY <1>5, FormTypes, LayersKeep DEF KeepEditing, OpenPaste, CancelPaste
<1>6. CASE ToggleTrigger BY <1>6, ToggleKeeps
<1>7. CASE BuildTypeChange \/ ParamsChange \/ PasteAttrs BY <1>7, PageEditsKeep
<1>8. CASE PickBranch \/ TypeBranchs BY <1>8, BranchEditsKeep
<1>9. CASE SetManual \/ ChooseTarget \/ LanguagesChange BY <1>9, OtherEditsKeep
<1>10. CASE BranchesAnswer \/ SchemesAnswer BY <1>10, AnswersKeep
<1>11. CASE Submit \/ SaveAnswer BY <1>11, SavesKeep
<1>12. CASE UNCHANGED vars
  <2>1. UNCHANGED <<scheme, visible, saving, success, sheet, refs, dirty, asking, pasting,
                    branches, others, waiting, saves>>
    BY <1>12 DEF vars
  <2>2. Rendered BY <2>1, FormTypes, StillRendered
  <2>3. OneSave' BY <2>1, SaveKept DEF FormInv
  <2>4. QED BY <2>1, <2>2, <2>3, FormTypes, FormKept DEF FormInv, FormTyped
<1>13. QED
  BY <1>1, <1>2, <1>3, <1>4, <1>5, <1>6, <1>7, <1>8, <1>9, <1>10, <1>11, <1>12 DEF Next

LEMMA FormShown == ASSUME FormInv PROVE FormIsShown
<1>1. SUFFICES ASSUME visible, scheme # None, scheme.id # None
               PROVE  /\ sheet.mr = scheme.mr /\ sheet.daily = scheme.daily
                      /\ sheet.params = Given(scheme.attrs).params
                      /\ sheet.types # {} => sheet.types = TypesOf(scheme.attrs)
                      /\ sheet.manual => sheet.text = scheme.branchs
                      /\ Given(scheme.attrs).sel \in {None, scheme.branchs}
  BY Zenon DEF FormIsShown
<1>2. Reads(sheet, scheme.attrs) /\ Copies(scheme, sheet) /\ Selects(scheme)
  BY <1>1 DEF FormInv
<1>3. QED BY <1>1, <1>2 DEF Reads, Copies, Selects

LEMMA FormSpec == ASSUME Sensible PROVE Spec => []FormInv
<1>1. Init => FormInv BY InitForm
<1>2. FormInv /\ [Next]_vars => FormInv' BY FormStep
<1>3. QED BY <1>1, <1>2, PTL DEF Spec

(* The variables of the form have their types.                             *)
THEOREM FormTypeCorrect == ASSUME Sensible PROVE Spec => []TypeOK
<1>1. FormInv => TypeOK BY DEF FormInv, FormTyped
<1>2. QED BY <1>1, FormSpec, PTL

(* At most one request that saves a scheme is in flight, and "saving" tells *)
(* of it, whatever is closed and opened meanwhile.                         *)
THEOREM OneSaveEver == ASSUME Sensible PROVE Spec => []OneSave
<1>1. FormInv => OneSave BY DEF FormInv
<1>2. QED BY <1>1, FormSpec, PTL

(* The switches, parameters, build types and branches the form shows of a  *)
(* scheme of the list are those App would send.                            *)
THEOREM FormShownEver == ASSUME Sensible PROVE Spec => []FormIsShown
<1>1. FormInv => FormIsShown BY FormShown
<1>2. QED BY <1>1, FormSpec, PTL

-----------------------------------------------------------------------------
(* The list of repositories *)

Urls == [search: Texts, filter: Filters, page: 1 .. 2]
Timers == [search: Texts, over: Urls]

(* A call has the fields its kind asks for, and one of a row that is there *)
(* is of a repository that is listed.                                      *)
OfRows(ns) == [kind: {"checking", "registering"}, repo: Repos, mounted: BOOLEAN, n: ns]
CallFits(w) ==
  /\ w.kind = "repos" => w.url \in Urls
  /\ w.kind = "schemes" => w.repo \in Repos
  /\ w.kind \in {"run", "save", "delete"} => w.scheme \in SchemeIds
  /\ Page!OfRow(w) => w \in OfRows({w.n}) /\ (w.mounted => w.repo \in DOMAIN result)
ListTyped ==
  /\ Page!TypeOK /\ searchTimer \in Timers \cup {None} /\ stored \subseteq SchemeIds
  /\ \A w \in calls : CallFits(w)

(* While a key waits for its timer, the box has the text of the key, or    *)
(* the search of an address that was chosen since.                         *)
BoxSettles ==
  search = url.search \/ (searchTimer # None /\ search = searchTimer.search)
Loads == loading => \E w \in calls : w.kind = "repos"
Fetches == \A r \in fetching : \E w \in calls : w.kind = "schemes" /\ w.repo = r

(* A flag and the calls it stands for: one if it is set and none if not.   *)
RowCall(w, r) == Page!OfRow(w) /\ w.repo = r /\ w.mounted
RowTells(r) ==
  IF status[r] = "idle" THEN \A w \in calls : ~RowCall(w, r)
  ELSE \E c \in calls : /\ c.kind = status[r] /\ RowCall(c, r)
                          /\ \A w \in calls : RowCall(w, r) => w = c
RunCall(w, s) == w.kind = "run" /\ w.scheme = s
RunTells(s) ==
  IF s \in running THEN \E c \in calls : /\ RunCall(c, s)
                                           /\ \A w \in calls : RunCall(w, s) => w = c
  ELSE \A w \in calls : ~RunCall(w, s)
ListInv == /\ ListTyped /\ BoxSettles /\ Loads /\ Fetches
           /\ \A r \in Repos : RowTells(r)
           /\ \A s \in SchemeIds : RunTells(s)

LEMMA InitList == ASSUME Page!Sensible, Page!Init PROVE ListInv
<1>1. url \in Urls /\ search \in Texts BY DEF Page!Init, Urls
<1>2. Page!TypeOK BY <1>1 DEF Page!Init, Page!TypeOK, Urls
<1>3. /\ calls = {Page!ReposOf(url)}
      /\ Page!ReposOf(url).kind = "repos" /\ Page!ReposOf(url).url = url
  BY DEF Page!Init, Page!ReposOf
<1>4. \A w \in calls : w.kind = "repos" /\ w.url = url BY <1>3
<1>5. ListTyped
  BY <1>1, <1>2, <1>4 DEF Page!Init, ListTyped, CallFits, Page!OfRow, Page!Sensible
<1>6. BoxSettles /\ Loads /\ Fetches BY <1>3 DEF Page!Init, BoxSettles, Loads, Fetches
<1>7. \A r \in Repos : RowTells(r) BY <1>4 DEF Page!Init, RowTells, RowCall, Page!OfRow
<1>8. \A s \in SchemeIds : RunTells(s) BY <1>4 DEF Page!Init, RunTells, RunCall
<1>9. QED BY <1>5, <1>6, <1>7, <1>8 DEF ListInv

(* A step sends and ends calls of some kinds only.                         *)
Only(kinds) == \A w : w.kind \notin kinds => (w \in calls' <=> w \in calls)

LEMMA LoadsKept ==
  ASSUME Loads, UNCHANGED loading, NEW K, Only(K), "repos" \notin K
  PROVE  Loads'
BY DEF Loads, Only

LEMMA FetchesKept ==
  ASSUME Fetches, UNCHANGED fetching, NEW K, Only(K), "schemes" \notin K PROVE Fetches'
BY DEF Fetches, Only

LEMMA RowKept ==
  ASSUME NEW r \in Repos, RowTells(r), status'[r] = status[r], NEW K, Only(K),
         "checking" \notin K, "registering" \notin K
  PROVE  RowTells(r)'
<1>1. \A w : Page!OfRow(w) => (w \in calls' <=> w \in calls) BY DEF Only, Page!OfRow
<1>2. CASE status[r] = "idle" BY <1>1, <1>2 DEF RowTells, RowCall, Page!OfRow
<1>3. CASE status[r] # "idle" BY <1>1, <1>3 DEF RowTells, RowCall, Page!OfRow
<1>4. QED BY <1>2, <1>3

LEMMA RunKept ==
  ASSUME NEW s \in SchemeIds, RunTells(s), s \in running' <=> s \in running, NEW K, Only(K),
         "run" \notin K
  PROVE  RunTells(s)'
<1>1. \A w : w.kind = "run" => (w \in calls' <=> w \in calls) BY DEF Only
<1>2. CASE s \in running BY <1>1, <1>2 DEF RunTells, RunCall
<1>3. CASE s \notin running BY <1>1, <1>3 DEF RunTells, RunCall
<1>4. QED BY <1>2, <1>3

(* What is not asked for and not answered stays.                           *)
LEMMA GoKeeps ==
  ASSUME ListInv, NEW u \in Urls, Page!Go(u), BoxSettles',
         searchTimer' \in Timers \cup {None},
         UNCHANGED <<stored, hooks, result, expanded, repoSchemes, fetching, running,
                     status, registered>>
  PROVE  ListInv'
<1>1. PICK c : c.kind = "repos" /\ c.url = u /\ c = Page!ReposOf(u) BY DEF Page!ReposOf
<1>2. url' = u /\ IF u = url THEN UNCHANGED <<search, loading, calls>>
                  ELSE search' = u.search /\ loading' = TRUE /\ calls' = calls \cup {c}
  BY <1>1 DEF Page!Go
<1>3. Only({"repos"}) BY <1>1, <1>2 DEF Only
<1>4. ListTyped'
  <2>1. Page!TypeOK /\ \A w \in calls : CallFits(w) BY DEF ListInv, ListTyped
  <2>2. url' \in Urls /\ search' \in Texts BY <1>2, <2>1 DEF Page!TypeOK, Urls
  <2>3. Page!TypeOK' BY <2>1, <2>2 DEF Page!TypeOK, Urls
  <2>4. \A w \in calls' : CallFits(w)
    <3>1. CallFits(c) BY <1>1 DEF CallFits, Page!OfRow
    <3>2. QED BY <1>2, <2>1, <3>1
  <2>5. \A w \in calls' : CallFits(w)' BY <2>4 DEF CallFits
  <2>6. QED BY <2>3, <2>5 DEF ListTyped, ListInv
<1>5. Loads' BY <1>1, <1>2 DEF Loads, ListInv
<1>6. Fetches' BY <1>3, FetchesKept DEF ListInv
<1>7. \A r \in Repos : RowTells(r)' BY <1>3, RowKept DEF ListInv
<1>8. \A s \in SchemeIds : RunTells(s)' BY <1>3, RunKept DEF ListInv
<1>9. QED BY <1>4, <1>5, <1>6, <1>7, <1>8 DEF ListInv

LEMMA AddressKeeps ==
  ASSUME Page!Sensible, ListInv,
         \/ \E f \in Filters : Page!ResetAndFilter(f)
         \/ \E p \in 1 .. 2 : Page!ChoosePage(p)
         \/ Page!ChooseMenu \/ Page!SearchTimeout
  PROVE  ListInv'
<1>0. url \in Urls /\ searchTimer \in Timers \cup {None} /\ BoxSettles
  BY DEF ListInv, ListTyped, Page!TypeOK, Urls
<1>first. 1 \in 1 .. 2 OBVIOUS
<1>1. CASE ~Page!SearchTimeout
  <2>1. PICK u \in Urls : Page!Go(u) /\ UNCHANGED searchTimer
    <3>1. ASSUME NEW f \in Filters, Page!ResetAndFilter(f)
          PROVE  \E u \in Urls : Page!Go(u) /\ UNCHANGED searchTimer
      <4>1. [url EXCEPT !.filter = f, !.page = 1] \in Urls BY <1>0, <1>first DEF Urls
      <4>2. QED BY <3>1, <4>1 DEF Page!ResetAndFilter
    <3>2. ASSUME NEW p \in 1 .. 2, Page!ChoosePage(p)
          PROVE  \E u \in Urls : Page!Go(u) /\ UNCHANGED searchTimer
      <4>1. [url EXCEPT !.page = p] \in Urls BY <1>0 DEF Urls
      <4>2. QED BY <3>2, <4>1 DEF Page!ChoosePage
    <3>3. ASSUME Page!ChooseMenu PROVE \E u \in Urls : Page!Go(u) /\ UNCHANGED searchTimer
      <4>1. Page!NoParams \in Urls BY <1>first DEF Page!NoParams, Urls, Page!Sensible
      <4>2. QED BY <3>3, <4>1 DEF Page!ChooseMenu
    <3>4. QED BY <1>1, <3>1, <3>2, <3>3
  <2>2. UNCHANGED <<stored, hooks, result, expanded, repoSchemes, fetching, running, status,
                    registered>>
    BY <1>1 DEF Page!ResetAndFilter, Page!ChoosePage, Page!ChooseMenu
  <2>3. BoxSettles' BY <1>0, <2>1 DEF Page!Go, BoxSettles
  <2>4. QED BY <1>0, <2>1, <2>2, <2>3, GoKeeps
<1>2. CASE Page!SearchTimeout
  <2>1. searchTimer \in Timers /\ searchTimer' = None BY <1>0, <1>2 DEF Page!SearchTimeout
  <2>2. PICK u : u = [searchTimer.over EXCEPT !.search = searchTimer.search, !.page = 1]
    OBVIOUS
  <2>3. u \in Urls /\ u.search = searchTimer.search BY <1>first, <2>1, <2>2 DEF Timers, Urls
  <2>4. Page!Go(u) BY <1>2, <2>2 DEF Page!SearchTimeout
  <2>5. search' = url'.search
    <3>1. CASE u = url BY <1>0, <2>3, <2>4, <3>1 DEF Page!Go, BoxSettles
    <3>2. CASE u # url BY <2>4, <3>2 DEF Page!Go
    <3>3. QED BY <3>1, <3>2
  <2>6. UNCHANGED <<stored, hooks, result, expanded, repoSchemes, fetching, running, status,
                    registered>>
    BY <1>2 DEF Page!SearchTimeout
  <2>7. QED BY <2>1, <2>3, <2>4, <2>5, <2>6, GoKeeps DEF BoxSettles
<1>3. QED BY <1>1, <1>2

LEMMA KeyKeeps ==
  ASSUME Page!Sensible, ListInv, NEW v \in Texts, Page!HandleSearchChange(v)
  PROVE  ListInv'
<1>1. /\ search' = v /\ searchTimer' = [search |-> v, over |-> url]
      /\ UNCHANGED <<stored, hooks, url, result, loading, expanded, repoSchemes, fetching,
                     running, status, registered, calls>>
  BY DEF Page!HandleSearchChange
<1>2. Page!TypeOK /\ \A w \in calls : CallFits(w) BY DEF ListInv, ListTyped
<1>3. searchTimer' \in Timers BY <1>1, <1>2 DEF Page!TypeOK, Timers, Urls
<1>4. Page!TypeOK' BY <1>1, <1>2 DEF Page!TypeOK
<1>5. \A w \in calls' : CallFits(w)' BY <1>1, <1>2 DEF CallFits
<1>6. ListTyped' BY <1>1, <1>3, <1>4, <1>5 DEF ListTyped, ListInv
<1>0. None \notin Timers BY DEF Page!Sensible, Timers, Urls
<1>7. BoxSettles'
  <2>1. searchTimer'.search = v BY <1>1
  <2>2. QED BY <1>0, <1>1, <1>3, <2>1 DEF BoxSettles
<1>8. (Loads /\ Fetches)' BY <1>1 DEF ListInv, Loads, Fetches
<1>9. \A r \in Repos : RowTells(r)' BY <1>1 DEF ListInv, RowTells
<1>10. \A s \in SchemeIds : RunTells(s)' BY <1>1 DEF ListInv, RunTells
<1>11. QED BY <1>6, <1>7, <1>8, <1>9, <1>10 DEF ListInv

(* Rows, their schemes, and calls that are sent.                           *)
LEMMA SchemesOfIs ==
  ASSUME NEW r \in Repos, NEW n
  PROVE  /\ Page!SchemesOf(r, n).kind = "schemes" /\ Page!SchemesOf(r, n).repo = r
         /\ CallFits(Page!SchemesOf(r, n))
BY DEF Page!SchemesOf, CallFits, Page!OfRow

LEMMA ExpandKeeps == ASSUME ListInv, NEW r \in Repos, Page!ToggleExpand(r) PROVE ListInv'
<1>1. Page!TypeOK /\ \A w \in calls : CallFits(w) BY DEF ListInv, ListTyped
<1>2. PICK c : /\ c.kind = "schemes" /\ c.repo = r /\ CallFits(c)
               /\ c = Page!SchemesOf(r, sent)
  BY SchemesOfIs
<1>3. UNCHANGED <<stored, hooks, url, search, searchTimer, result, loading, repoSchemes,
                  running, status, registered>>
  BY DEF Page!ToggleExpand
<1>4. /\ expanded' \subseteq Repos
      /\ \/ UNCHANGED <<fetching, calls>>
         \/ fetching' = fetching \cup {r} /\ calls' = calls \cup {c}
  BY <1>1, <1>2 DEF Page!ToggleExpand, Page!TypeOK
<1>5. Only({"schemes"}) BY <1>2, <1>4 DEF Only
<1>6. Page!TypeOK' BY <1>1, <1>3, <1>4 DEF Page!TypeOK
<1>7. \A w \in calls' : CallFits(w) BY <1>1, <1>2, <1>4
<1>8. \A w \in calls' : CallFits(w)' BY <1>3, <1>7 DEF CallFits
<1>9. ListTyped' BY <1>3, <1>6, <1>8 DEF ListTyped, ListInv
<1>10. BoxSettles' BY <1>3 DEF BoxSettles, ListInv
<1>11. Loads' BY <1>3, <1>5, LoadsKept DEF ListInv
<1>12. Fetches' BY <1>2, <1>4 DEF Fetches, ListInv
<1>13. \A q \in Repos : RowTells(q)' BY <1>3, <1>5, RowKept DEF ListInv
<1>14. \A s \in SchemeIds : RunTells(s)' BY <1>3, <1>5, RunKept DEF ListInv
<1>15. QED BY <1>9, <1>10, <1>11, <1>12, <1>13, <1>14 DEF ListInv

(* The list and the unfolded rows are asked for again, after calls of      *)
(* kinds that tell the page of a change.                                   *)
LEMMA FetchKeeps ==
  ASSUME ListInv, NEW left \in SUBSET calls, NEW n, Page!FetchAgain(left, n),
         \A w \in calls \ left : w.kind \in {"save", "delete"},
         UNCHANGED <<url, search, searchTimer, result, expanded, repoSchemes, running,
                     status, registered>>,
         stored' \subseteq SchemeIds
  PROVE  ListInv'
<1>1. Page!TypeOK /\ \A w \in calls : CallFits(w) BY DEF ListInv, ListTyped
<1>2. PICK c : c.kind = "repos" /\ c.url = url /\ c = [Page!ReposOf(url) EXCEPT !.n = n]
  BY DEF Page!ReposOf
<1>3. CallFits(c) BY <1>1, <1>2 DEF CallFits, Page!OfRow, Page!TypeOK, Urls
<1>4. /\ loading' = TRUE /\ fetching' = fetching \cup expanded
      /\ calls' = left \cup {c} \cup {Page!SchemesOf(r, n) : r \in expanded}
  BY <1>2 DEF Page!FetchAgain
<1>5. expanded \subseteq Repos BY <1>1 DEF Page!TypeOK
<1>6. \A w \in calls' :
        \/ w \in left
        \/ w = c
        \/ w.kind = "schemes" /\ CallFits(w)
  BY <1>4, <1>5, SchemesOfIs
<1>7. Only({"repos", "schemes", "save", "delete"})
  BY <1>2, <1>4, <1>6 DEF Only
<1>8. Page!TypeOK' BY <1>1 DEF Page!TypeOK
<1>9. \A w \in calls' : CallFits(w) BY <1>1, <1>3, <1>6
<1>10. \A w \in calls' : CallFits(w)' BY <1>9 DEF CallFits
<1>11. ListTyped' BY <1>8, <1>10 DEF ListTyped, ListInv
<1>12. BoxSettles' BY DEF BoxSettles, ListInv
<1>13. Loads' BY <1>2, <1>4 DEF Loads
<1>14. Fetches'
  <2>1. SUFFICES ASSUME NEW r \in fetching'
                 PROVE  \E w \in calls' : w.kind = "schemes" /\ w.repo = r
    BY DEF Fetches
  <2>2. CASE r \in expanded BY <1>4, <1>5, <2>2, SchemesOfIs
  <2>3. CASE r \in fetching
    <3>1. PICK w \in calls : w.kind = "schemes" /\ w.repo = r BY <2>3 DEF ListInv, Fetches
    <3>2. w \in left BY <3>1
    <3>3. QED BY <1>4, <3>1, <3>2
  <2>4. QED BY <1>4, <2>1, <2>2, <2>3
<1>15. \A q \in Repos : RowTells(q)' BY <1>7, RowKept DEF ListInv
<1>16. \A s \in SchemeIds : RunTells(s)' BY <1>7, RunKept DEF ListInv
<1>17. QED BY <1>11, <1>12, <1>13, <1>14, <1>15, <1>16 DEF ListInv

LEMMA RefreshKeeps == ASSUME ListInv, Page!Refresh PROVE ListInv'
<1>1. Page!FetchAgain(calls, sent) BY DEF Page!Refresh
<1>2. UNCHANGED <<stored, url, search, searchTimer, result, expanded, repoSchemes, running,
                  status, registered>>
  BY DEF Page!Refresh
<1>3. stored \subseteq SchemeIds BY DEF ListInv, ListTyped
<1>4. QED BY <1>1, <1>2, <1>3, FetchKeeps

LEMMA ChangeKeeps ==
  ASSUME ListInv, NEW w \in calls, NEW ok, Page!ChangeAnswer(w, ok)
  PROVE  ListInv'
<1>1. /\ w.kind \in {"save", "delete"}
      /\ UNCHANGED <<hooks, url, search, searchTimer, result, expanded, repoSchemes,
                     running, status, registered>>
  BY DEF Page!ChangeAnswer
<1>2. Page!TypeOK /\ stored \subseteq SchemeIds /\ \A v \in calls : CallFits(v)
  BY DEF ListInv, ListTyped
<1>3. stored' \subseteq SchemeIds BY <1>1, <1>2 DEF Page!ChangeAnswer, CallFits
<1>4. CASE Page!FetchAgain(calls \ {w}, w.n) BY <1>1, <1>3, <1>4, FetchKeeps
<1>5. CASE calls' = calls \ {w} /\ UNCHANGED <<loading, fetching>>
  <2>1. Only({"save", "delete"}) BY <1>1, <1>5 DEF Only
  <2>2. Page!TypeOK' BY <1>1, <1>2 DEF Page!TypeOK
  <2>3. \A v \in calls' : CallFits(v)' BY <1>1, <1>2, <1>5 DEF CallFits
  <2>4. ListTyped' BY <1>1, <1>3, <2>2, <2>3 DEF ListTyped, ListInv
  <2>5. BoxSettles' BY <1>1 DEF BoxSettles, ListInv
  <2>6. Loads' BY <1>5, <2>1, LoadsKept DEF ListInv
  <2>7. Fetches' BY <1>5, <2>1, FetchesKept DEF ListInv
  <2>8. \A q \in Repos : RowTells(q)' BY <1>1, <2>1, RowKept DEF ListInv
  <2>9. \A s \in SchemeIds : RunTells(s)' BY <1>1, <2>1, RunKept DEF ListInv
  <2>10. QED BY <2>4, <2>5, <2>6, <2>7, <2>8, <2>9 DEF ListInv
<1>6. QED BY <1>4, <1>5 DEF Page!ChangeAnswer

LEMMA SendKeeps ==
  ASSUME ListInv, NEW c, CallFits(c), c.kind \in {"run", "save", "delete"},
         calls' = calls \cup {c}, \A s \in SchemeIds : RunTells(s)',
         UNCHANGED <<stored, hooks, url, search, searchTimer, result, loading, expanded,
                     repoSchemes, fetching, status, registered>>
  PROVE  ListInv'
<1>1. Page!TypeOK /\ \A w \in calls : CallFits(w) BY DEF ListInv, ListTyped
<1>2. Only({"run", "save", "delete"}) BY DEF Only
<1>3. Page!TypeOK' BY <1>1 DEF Page!TypeOK
<1>4. \A w \in calls' : CallFits(w)' BY <1>1 DEF CallFits
<1>5. ListTyped' BY <1>3, <1>4 DEF ListTyped, ListInv
<1>6. BoxSettles' BY DEF BoxSettles, ListInv
<1>7. Loads' BY <1>2, LoadsKept DEF ListInv
<1>8. Fetches' BY <1>2, FetchesKept DEF ListInv
<1>9. \A q \in Repos : RowTells(q)' BY <1>2, RowKept DEF ListInv
<1>10. QED BY <1>5, <1>6, <1>7, <1>8, <1>9 DEF ListInv

LEMMA SchemeCallsKeep ==
  ASSUME ListInv, NEW s \in SchemeIds,
         Page!HandleRunScheme(s) \/ Page!SaveScheme(s) \/ Page!HandleDeleteScheme(s)
  PROVE  ListInv'
<1>1. CASE Page!HandleRunScheme(s)
  <2>1. PICK c : /\ c.kind = "run" /\ c.scheme = s
                 /\ c = [kind |-> "run", scheme |-> s, n |-> sent]
    OBVIOUS
  <2>2. /\ s \notin running /\ running' = running \cup {s} /\ calls' = calls \cup {c}
        /\ UNCHANGED <<stored, hooks, url, search, searchTimer, result, loading, expanded,
                       repoSchemes, fetching, status, registered>>
    BY <1>1, <2>1 DEF Page!HandleRunScheme, Page!Send
  <2>3. CallFits(c) BY <2>1 DEF CallFits, Page!OfRow
  <2>4. ASSUME NEW t \in SchemeIds PROVE RunTells(t)'
    <3>1. RunTells(t) BY DEF ListInv
    <3>2. CASE t = s BY <2>1, <2>2, <3>1, <3>2 DEF RunTells, RunCall
    <3>3. CASE t # s /\ t \in running BY <2>1, <2>2, <3>1, <3>3 DEF RunTells, RunCall
    <3>4. CASE t # s /\ t \notin running BY <2>1, <2>2, <3>1, <3>4 DEF RunTells, RunCall
    <3>5. QED BY <3>2, <3>3, <3>4
  <2>5. QED BY <2>1, <2>2, <2>3, <2>4, SendKeeps
<1>2. CASE Page!SaveScheme(s) \/ Page!HandleDeleteScheme(s)
  <2>1. PICK k \in {"save", "delete"} :
          calls' = calls \cup {[kind |-> k, scheme |-> s, n |-> sent]}
    BY <1>2 DEF Page!SaveScheme, Page!HandleDeleteScheme, Page!Send
  <2>2. PICK c : c.kind = k /\ c.scheme = s /\ c = [kind |-> k, scheme |-> s, n |-> sent]
    OBVIOUS
  <2>3. UNCHANGED <<stored, hooks, url, search, searchTimer, result, loading, expanded,
                    repoSchemes, fetching, running, status, registered>>
    BY <1>2 DEF Page!SaveScheme, Page!HandleDeleteScheme
  <2>4. CallFits(c) BY <2>2 DEF CallFits, Page!OfRow
  <2>5. Only({"save", "delete"}) BY <2>1, <2>2 DEF Only
  <2>6. \A t \in SchemeIds : RunTells(t)' BY <2>3, <2>5, RunKept DEF ListInv
  <2>7. QED BY <2>1, <2>2, <2>3, <2>4, <2>6, SendKeeps
<1>3. QED BY <1>1, <1>2

LEMMA WebhookKeeps == ASSUME ListInv, NEW r \in Repos, Page!HandleWebhook(r) PROVE ListInv'
<1>1. PICK k \in {"checking", "registering"} :
        /\ status' = [status EXCEPT ![r] = k]
        /\ calls' = calls \cup {[kind |-> k, repo |-> r, mounted |-> TRUE, n |-> sent]}
  BY DEF Page!HandleWebhook, Page!Send
<1>2. PICK c : c = [kind |-> k, repo |-> r, mounted |-> TRUE, n |-> sent] OBVIOUS
<1>3. c.kind = k /\ c.repo = r /\ c.mounted = TRUE BY <1>2
<1>4. /\ r \in DOMAIN result /\ status[r] = "idle"
      /\ UNCHANGED <<stored, hooks, url, search, searchTimer, result, loading, expanded,
                     repoSchemes, fetching, running, registered>>
  BY DEF Page!HandleWebhook
<1>5. Page!TypeOK /\ \A w \in calls : CallFits(w) BY DEF ListInv, ListTyped
<1>6. status \in [Repos -> {"idle", "checking", "registering"}] BY <1>5 DEF Page!TypeOK
<1>7. Only({"checking", "registering"}) BY <1>1, <1>2, <1>3 DEF Only
<1>8. Page!TypeOK' BY <1>1, <1>4, <1>5, <1>6 DEF Page!TypeOK
<1>9. CallFits(c) BY <1>2, <1>3, <1>4 DEF CallFits, Page!OfRow, OfRows
<1>10. \A w \in calls' : CallFits(w)' BY <1>1, <1>2, <1>4, <1>5, <1>9 DEF CallFits
<1>11. ListTyped' BY <1>4, <1>8, <1>10 DEF ListTyped, ListInv
<1>12. BoxSettles' BY <1>4 DEF BoxSettles, ListInv
<1>13. Loads' BY <1>4, <1>7, LoadsKept DEF ListInv
<1>14. Fetches' BY <1>4, <1>7, FetchesKept DEF ListInv
<1>15. ASSUME NEW q \in Repos PROVE RowTells(q)'
  <2>1. RowTells(q) BY DEF ListInv
  <2>2. CASE q = r
    <3>1. \A w \in calls : ~RowCall(w, r) BY <1>4, <2>1, <2>2 DEF RowTells
    <3>2. \A w : RowCall(w, r)' = RowCall(w, r) BY DEF RowCall, Page!OfRow
    <3>3. RowCall(c, r) BY <1>3 DEF RowCall, Page!OfRow
    <3>4. status'[r] = c.kind /\ status'[r] # "idle" BY <1>1, <1>3, <1>6
    <3>5. c \in calls' /\ \A w \in calls' : RowCall(w, r) => w = c BY <1>1, <1>2, <3>1
    <3>6. QED BY <2>2, <3>3, <3>4, <3>5 DEF RowTells, RowCall, Page!OfRow
  <2>3. CASE q # r
    <3>1. status'[q] = status[q] BY <1>1, <1>6, <2>3
    <3>2. ~RowCall(c, q) BY <1>3, <2>3 DEF RowCall
    <3>3. \A w : RowCall(w, q) => (w \in calls' <=> w \in calls) BY <1>1, <1>2, <3>2
    <3>4. QED BY <2>1, <3>1, <3>3 DEF RowTells, RowCall, Page!OfRow
  <2>4. QED BY <2>2, <2>3
<1>16. \A s \in SchemeIds : RunTells(s)' BY <1>4, <1>7, RunKept DEF ListInv
<1>17. QED BY <1>11, <1>12, <1>13, <1>14, <1>15, <1>16 DEF ListInv

-----------------------------------------------------------------------------
(* Answers *)

LEMMA SchemesAnswerKeeps ==
  ASSUME ListInv, NEW w \in calls, NEW ok, Page!SchemesAnswer(w, ok)
  PROVE  ListInv'
<1>1. /\ w.kind = "schemes" /\ calls' = calls \ {w} /\ fetching' = fetching \ {w.repo}
      /\ UNCHANGED <<stored, hooks, url, search, searchTimer, result, loading, expanded,
                     running, status, registered>>
  BY DEF Page!SchemesAnswer
<1>2. Page!TypeOK /\ stored \subseteq SchemeIds /\ \A v \in calls : CallFits(v)
  BY DEF ListInv, ListTyped
<1>3. w.repo \in Repos BY <1>1, <1>2 DEF CallFits
<1>4. Page!Own(w.repo) \in SUBSET SchemeIds BY <1>2 DEF Page!Own
<1>5. repoSchemes' \in [Repos -> (SUBSET SchemeIds) \cup {None}]
  <2>1. repoSchemes \in [Repos -> (SUBSET SchemeIds) \cup {None}] BY <1>2 DEF Page!TypeOK
  <2>2. \/ repoSchemes' = repoSchemes
        \/ \E own \in {Page!Own(w.repo), {}} :
             repoSchemes' = [repoSchemes EXCEPT ![w.repo] = own]
    BY DEF Page!SchemesAnswer
  <2>3. QED BY <1>4, <2>1, <2>2
<1>6. Page!TypeOK' BY <1>1, <1>2, <1>5 DEF Page!TypeOK
<1>7. \A v \in calls' : CallFits(v)' BY <1>1, <1>2 DEF CallFits
<1>8. ListTyped' BY <1>1, <1>6, <1>7 DEF ListTyped, ListInv
<1>9. Only({"schemes"}) BY <1>1 DEF Only
<1>10. BoxSettles' BY <1>1 DEF BoxSettles, ListInv
<1>11. Loads' BY <1>1, <1>9, LoadsKept DEF ListInv
<1>12. Fetches' BY <1>1 DEF Fetches, ListInv
<1>13. \A q \in Repos : RowTells(q)' BY <1>1, <1>9, RowKept DEF ListInv
<1>14. \A s \in SchemeIds : RunTells(s)' BY <1>1, <1>9, RunKept DEF ListInv
<1>15. QED BY <1>8, <1>10, <1>11, <1>12, <1>13, <1>14 DEF ListInv

LEMMA RunAnswerKeeps == ASSUME ListInv, NEW w \in calls, Page!RunAnswer(w) PROVE ListInv'
<1>1. /\ w.kind = "run" /\ calls' = calls \ {w} /\ running' = running \ {w.scheme}
      /\ UNCHANGED <<stored, hooks, url, search, searchTimer, result, loading, expanded,
                     repoSchemes, fetching, status, registered>>
  BY DEF Page!RunAnswer
<1>2. Page!TypeOK /\ \A v \in calls : CallFits(v) BY DEF ListInv, ListTyped
<1>3. Page!TypeOK' BY <1>1, <1>2 DEF Page!TypeOK
<1>4. \A v \in calls' : CallFits(v)' BY <1>1, <1>2 DEF CallFits
<1>5. ListTyped' BY <1>1, <1>3, <1>4 DEF ListTyped, ListInv
<1>6. Only({"run"}) BY <1>1 DEF Only
<1>7. BoxSettles' BY <1>1 DEF BoxSettles, ListInv
<1>8. Loads' BY <1>1, <1>6, LoadsKept DEF ListInv
<1>9. Fetches' BY <1>1, <1>6, FetchesKept DEF ListInv
<1>10. \A q \in Repos : RowTells(q)' BY <1>1, <1>6, RowKept DEF ListInv
<1>11. ASSUME NEW s \in SchemeIds PROVE RunTells(s)'
  <2>1. RunTells(s) BY DEF ListInv
  <2>2. CASE s = w.scheme
    <3>1. RunCall(w, s) BY <1>1, <2>2 DEF RunCall
    <3>2. \A v \in calls : RunCall(v, s) => v = w BY <2>1, <3>1 DEF RunTells
    <3>3. QED BY <1>1, <2>2, <3>2 DEF RunTells, RunCall
  <2>3. CASE s # w.scheme
    <3>1. ~RunCall(w, s) BY <2>3 DEF RunCall
    <3>2. \A v : RunCall(v, s) => (v \in calls' <=> v \in calls) BY <1>1, <3>1
    <3>3. s \in running' <=> s \in running BY <1>1, <2>3
    <3>4. QED BY <2>1, <3>2, <3>3 DEF RunTells, RunCall
  <2>4. QED BY <2>2, <2>3
<1>12. QED BY <1>5, <1>7, <1>8, <1>9, <1>10, <1>11 DEF ListInv

LEMMA WebhookAnswerKeeps ==
  ASSUME ListInv, NEW w \in calls, NEW ok, Page!WebhookAnswer(w, ok)
  PROVE  ListInv'
<1>1. /\ Page!OfRow(w) /\ calls' = calls \ {w}
      /\ status' = IF w.mounted THEN [status EXCEPT ![w.repo] = "idle"] ELSE status
      /\ UNCHANGED <<stored, url, search, searchTimer, result, loading, expanded,
                     repoSchemes, fetching, running>>
  BY DEF Page!WebhookAnswer
<1>2. Page!TypeOK /\ \A v \in calls : CallFits(v) BY DEF ListInv, ListTyped
<1>3. w.repo \in Repos /\ (w.mounted => w.repo \in DOMAIN result)
  BY <1>1, <1>2 DEF CallFits, OfRows
<1>4. /\ status \in [Repos -> {"idle", "checking", "registering"}]
      /\ registered \subseteq DOMAIN result
  BY <1>2 DEF Page!TypeOK
<1>5. registered' \subseteq DOMAIN result BY <1>3, <1>4 DEF Page!WebhookAnswer
<1>6. Page!TypeOK' BY <1>1, <1>2, <1>4, <1>5 DEF Page!TypeOK
<1>7. \A v \in calls' : CallFits(v)' BY <1>1, <1>2 DEF CallFits
<1>8. ListTyped' BY <1>1, <1>6, <1>7 DEF ListTyped, ListInv
<1>9. Only({"checking", "registering"}) BY <1>1 DEF Only, Page!OfRow
<1>10. BoxSettles' BY <1>1 DEF BoxSettles, ListInv
<1>11. Loads' BY <1>1, <1>9, LoadsKept DEF ListInv
<1>12. Fetches' BY <1>1, <1>9, FetchesKept DEF ListInv
<1>13. ASSUME NEW q \in Repos PROVE RowTells(q)'
  <2>1. RowTells(q) BY DEF ListInv
  <2>2. CASE RowCall(w, q)
    <3>1. \A v \in calls : RowCall(v, q) => v = w BY <2>1, <2>2 DEF RowTells
    <3>2. status'[q] = "idle" BY <1>1, <1>4, <2>2 DEF RowCall
    <3>3. QED BY <1>1, <3>1, <3>2 DEF RowTells, RowCall, Page!OfRow
  <2>3. CASE ~RowCall(w, q)
    <3>1. status'[q] = status[q] BY <1>1, <1>4, <2>3 DEF RowCall
    <3>2. \A v : RowCall(v, q) => (v \in calls' <=> v \in calls) BY <1>1, <2>3
    <3>3. QED BY <2>1, <3>1, <3>2 DEF RowTells, RowCall, Page!OfRow
  <2>4. QED BY <2>2, <2>3
<1>14. \A s \in SchemeIds : RunTells(s)' BY <1>1, <1>9, RunKept DEF ListInv
<1>15. QED BY <1>8, <1>10, <1>11, <1>12, <1>13, <1>14 DEF ListInv

LEMMA ReposAnswerKeeps ==
  ASSUME Page!Sensible, ListInv, NEW w \in calls, NEW ok \in BOOLEAN,
         Page!ReposAnswer(w, ok)
  PROVE  ListInv'
<1>1. PICK rows : rows = IF ok THEN Page!Rows(w.url) ELSE <<>> OBVIOUS
<1>2. /\ w.kind = "repos" /\ loading' = FALSE /\ result' = rows
      /\ status' = [r \in Repos |-> IF r \in DOMAIN rows THEN status[r] ELSE "idle"]
      /\ registered' \subseteq DOMAIN rows
      /\ calls' = (calls \ ({w} \cup Page!Ended(rows)))
                    \cup {[c EXCEPT !.mounted = FALSE] : c \in Page!Ended(rows)}
      /\ UNCHANGED <<stored, hooks, url, search, searchTimer, expanded, repoSchemes,
                     fetching, running>>
  BY <1>1 DEF Page!ReposAnswer
<1>3. Page!TypeOK /\ \A v \in calls : CallFits(v) BY DEF ListInv, ListTyped
<1>4. DOMAIN rows \subseteq Repos
  <2>1. w.url \in Urls BY <1>2, <1>3 DEF CallFits
  <2>2. w.url.search \in Texts /\ w.url.filter \in Filters BY <2>1 DEF Urls
  <2>3. Page!Listed(w.url) \subseteq Repos BY <2>2 DEF Page!Listed, Page!Sensible
  <2>4. QED BY <1>1, <2>3 DEF Page!Rows
<1>5. status \in [Repos -> {"idle", "checking", "registering"}] BY <1>3 DEF Page!TypeOK
(* A call whose row is gone is there still, but tells nobody.              *)
<1>6. ASSUME NEW c \in Page!Ended(rows)
      PROVE  /\ c \in calls /\ Page!OfRow(c) /\ c.repo \in Repos \ DOMAIN rows
             /\ [c EXCEPT !.mounted = FALSE] \in OfRows({c.n})
             /\ [c EXCEPT !.mounted = FALSE].mounted = FALSE
             /\ [c EXCEPT !.mounted = FALSE].repo = c.repo
             /\ [c EXCEPT !.mounted = FALSE].n = c.n
  <2>1. c \in calls /\ Page!OfRow(c) /\ c.repo \notin DOMAIN rows BY DEF Page!Ended
  <2>2. c \in OfRows({c.n}) BY <1>3, <2>1 DEF CallFits
  <2>3. QED BY <2>1, <2>2 DEF OfRows
<1>7. ASSUME NEW v \in calls'
      PROVE  \/ v \in calls /\ v # w /\ (Page!OfRow(v) => v.repo \in DOMAIN rows)
             \/ /\ v \in OfRows({v.n}) /\ Page!OfRow(v)
                /\ v.mounted = FALSE /\ v.repo \in Repos \ DOMAIN rows
  <2>1. CASE v \in calls \ ({w} \cup Page!Ended(rows)) BY <2>1 DEF Page!Ended
  <2>2. CASE \E c \in Page!Ended(rows) : v = [c EXCEPT !.mounted = FALSE]
    <3>1. PICK c \in Page!Ended(rows) : v = [c EXCEPT !.mounted = FALSE] BY <2>2
    <3>2. v \in OfRows({v.n}) /\ v.mounted = FALSE /\ v.repo \in Repos \ DOMAIN rows
      BY <1>6, <3>1, Zenon
    <3>3. Page!OfRow(v) BY <3>2 DEF OfRows, Page!OfRow
    <3>4. QED BY <3>2, <3>3
  <2>3. QED BY <1>2, <2>1, <2>2
<1>8. \A v : v # w /\ ~Page!OfRow(v) => (v \in calls' <=> v \in calls)
  <2>1. \A v \in Page!Ended(rows) : Page!OfRow(v) BY DEF Page!Ended
  <2>2. QED BY <1>2, <1>7, <2>1
<1>9. \A v : Page!OfRow(v) /\ v.repo \in DOMAIN rows => (v \in calls' <=> v \in calls)
  BY <1>2, <1>6 DEF Page!Ended, Page!OfRow
<1>10. ListTyped'
  <2>1. Page!TypeOK' BY <1>2, <1>3, <1>4, <1>5 DEF Page!TypeOK
  <2>2. \A v \in calls' : CallFits(v)' BY <1>2, <1>3, <1>7 DEF CallFits, Page!OfRow
  <2>3. QED BY <1>2, <2>1, <2>2 DEF ListTyped, ListInv
<1>11. BoxSettles' BY <1>2 DEF BoxSettles, ListInv
<1>12. Loads' BY <1>2 DEF Loads
<1>13. Fetches' BY <1>2, <1>8 DEF Fetches, ListInv, Page!OfRow
<1>14. ASSUME NEW q \in Repos PROVE RowTells(q)'
  <2>1. RowTells(q) BY DEF ListInv
  <2>2. CASE q \in DOMAIN rows
    <3>1. status'[q] = status[q] BY <1>2, <2>2
    <3>2. \A v : RowCall(v, q) => (v \in calls' <=> v \in calls) BY <1>9, <2>2 DEF RowCall
    <3>3. QED BY <2>1, <3>1, <3>2 DEF RowTells, RowCall, Page!OfRow
  <2>3. CASE q \notin DOMAIN rows
    <3>1. status'[q] = "idle" BY <1>2, <2>3
    <3>2. \A v \in calls' : ~RowCall(v, q) BY <1>7, <2>3 DEF RowCall
    <3>3. QED BY <3>1, <3>2 DEF RowTells, RowCall, Page!OfRow
  <2>4. QED BY <2>2, <2>3
<1>15. ASSUME NEW s \in SchemeIds PROVE RunTells(s)'
  <2>1. \A v : RunCall(v, s) => (v \in calls' <=> v \in calls)
    BY <1>2, <1>8 DEF RunCall, Page!OfRow
  <2>2. QED BY <1>2, <2>1 DEF ListInv, RunTells, RunCall
<1>16. QED BY <1>10, <1>11, <1>12, <1>13, <1>14, <1>15 DEF ListInv

(* Every event keeps the invariant.                                        *)
LEMMA ListStep == ASSUME Page!Sensible, ListInv, [Page!Next]_(Page!vars) PROVE ListInv'
<1>1. ASSUME NEW f \in Filters, Page!ResetAndFilter(f) PROVE ListInv' BY <1>1, AddressKeeps
<1>2. ASSUME NEW p \in 1 .. 2, Page!ChoosePage(p) PROVE ListInv' BY <1>2, AddressKeeps
<1>3. ASSUME NEW v \in Texts, Page!HandleSearchChange(v) PROVE ListInv' BY <1>3, KeyKeeps
<1>4. CASE Page!ChooseMenu \/ Page!SearchTimeout BY <1>4, AddressKeeps
<1>5. CASE Page!Refresh BY <1>5, RefreshKeeps
<1>6. ASSUME NEW r \in Repos, Page!ToggleExpand(r) \/ Page!HandleWebhook(r) PROVE ListInv'
  BY <1>6, ExpandKeeps, WebhookKeeps
<1>7. ASSUME NEW s \in SchemeIds,
             Page!HandleRunScheme(s) \/ Page!SaveScheme(s) \/ Page!HandleDeleteScheme(s)
      PROVE  ListInv'
  BY <1>7, SchemeCallsKeep
<1>8. ASSUME NEW w \in calls, NEW ok \in BOOLEAN,
             \/ Page!ReposAnswer(w, ok) \/ Page!SchemesAnswer(w, ok) \/ Page!RunAnswer(w)
             \/ Page!ChangeAnswer(w, ok) \/ Page!WebhookAnswer(w, ok)
      PROVE  ListInv'
  BY <1>8, ReposAnswerKeeps, SchemesAnswerKeeps, RunAnswerKeeps, ChangeKeeps,
     WebhookAnswerKeeps
<1>9. CASE UNCHANGED Page!vars
  <2>1. /\ UNCHANGED <<stored, url, search, searchTimer, result, loading, expanded,
                       repoSchemes>>
        /\ UNCHANGED <<fetching, running, status, registered, calls>>
    BY <1>9 DEF Page!vars
  <2>2. Page!TypeOK /\ \A w \in calls : CallFits(w) BY DEF ListInv, ListTyped
  <2>3. Page!TypeOK' BY <2>1, <2>2 DEF Page!TypeOK
  <2>4. \A w \in calls' : CallFits(w)' BY <2>1, <2>2 DEF CallFits
  <2>5. ListTyped' BY <2>1, <2>3, <2>4 DEF ListTyped, ListInv
  <2>6. (BoxSettles /\ Loads /\ Fetches)' BY <2>1 DEF BoxSettles, Loads, Fetches, ListInv
  <2>7. \A r \in Repos : RowTells(r)' BY <2>1 DEF ListInv, RowTells
  <2>8. \A s \in SchemeIds : RunTells(s)' BY <2>1 DEF ListInv, RunTells
  <2>9. QED BY <2>5, <2>6, <2>7, <2>8 DEF ListInv
<1>10. QED BY <1>1, <1>2, <1>3, <1>4, <1>5, <1>6, <1>7, <1>8, <1>9 DEF Page!Next

LEMMA ListSpec == ASSUME Page!Sensible PROVE Page!Spec => []ListInv
<1>1. Page!Init => ListInv BY InitList
<1>2. ListInv /\ [Page!Next]_(Page!vars) => ListInv' BY ListStep
<1>3. QED BY <1>1, <1>2, PTL DEF Page!Spec

(* The variables of the list have their types.                             *)
THEOREM ListTypeCorrect == ASSUME Page!Sensible PROVE Page!Spec => []Page!TypeOK
<1>1. ListInv => Page!TypeOK BY DEF ListInv, ListTyped
<1>2. QED BY <1>1, ListSpec, PTL

(* A spinner turns only while an answer that ends it is on its way.        *)
THEOREM SpinnersEndEver == ASSUME Page!Sensible PROVE Page!Spec => []Page!SpinnersEnd
<1>1. ASSUME ListInv PROVE Page!SpinnersEnd
  <2>1. loading => Page!Asked("repos") # {} BY <1>1 DEF ListInv, Loads, Page!Asked
  <2>2. \A r \in fetching : \E w \in Page!Asked("schemes") : w.repo = r
    BY <1>1 DEF ListInv, Fetches, Page!Asked
  <2>3. ASSUME NEW r \in Repos, status[r] # "idle"
        PROVE  \E w \in Page!Asked(status[r]) : w.repo = r /\ w.mounted
    BY <1>1, <2>3 DEF ListInv, RowTells, RowCall, Page!Asked
  <2>4. QED BY <2>1, <2>2, <2>3 DEF Page!SpinnersEnd
<1>2. QED BY <1>1, ListSpec, PTL

(* With no timer set, the box shows the search of the address.             *)
THEOREM SearchSettlesEver == ASSUME Page!Sensible PROVE Page!Spec => []Page!SearchSettles
<1>1. ListInv => Page!SearchSettles BY DEF ListInv, BoxSettles, Page!SearchSettles
<1>2. QED BY <1>1, ListSpec, PTL

(* A scheme is run by one call at a time, and so is the webhook of a row   *)
(* asked about; their flags tell.                                          *)
THEOREM OneRowCallEver == ASSUME Page!Sensible PROVE Page!Spec => []Page!OneRowCall
<1>1. ASSUME ListInv PROVE Page!OneRowCall
  <2>1. ASSUME NEW s \in SchemeIds
        PROVE  Page!Flies(s \in running, {w \in Page!Asked("run") : w.scheme = s})
    <3>1. RunTells(s) BY <1>1 DEF ListInv
    <3>2. CASE s \in running BY <3>1, <3>2 DEF RunTells, RunCall, Page!Flies, Page!Asked
    <3>3. CASE s \notin running BY <3>1, <3>3 DEF RunTells, RunCall, Page!Flies, Page!Asked
    <3>4. QED BY <3>2, <3>3
  <2>2. ASSUME NEW r \in Repos
        PROVE  Page!Flies(status[r] # "idle",
                          {w \in calls : Page!OfRow(w) /\ w.repo = r /\ w.mounted})
    <3>1. RowTells(r) BY <1>1 DEF ListInv
    <3>2. CASE status[r] = "idle" BY <3>1, <3>2 DEF RowTells, RowCall, Page!Flies
    <3>3. CASE status[r] # "idle" BY <3>1, <3>3 DEF RowTells, RowCall, Page!Flies
    <3>4. QED BY <3>2, <3>3
  <2>3. QED BY <2>1, <2>2 DEF Page!OneRowCall
<1>2. QED BY <1>1, ListSpec, PTL

-----------------------------------------------------------------------------
(* The panel of a repository: its buttons *)

Kinds == {"audit", "clean", "create"}
Flag == [audit |-> isAuditing, clean |-> isCleaning, create |-> isCreating]

(* A flag tells whether the call of its kind is in flight, and there are   *)
(* never two.  The flag alone would not be inductive: that a step may set  *)
(* it rests on there being no call, and that an answer may clear it rests  *)
(* on there being no other.                                                *)
Tells(k) == /\ Flag[k] \in BOOLEAN
            /\ IF Flag[k] THEN \E c \in asked : Panel!Calls(k) = {c}
               ELSE Panel!Calls(k) = {}
FlagInv == \A k \in Kinds : Tells(k)

(* What a step does to the flag and the calls of a kind.                   *)
Kept(k) == Flag[k]' = Flag[k] /\ Panel!Calls(k)' = Panel!Calls(k)
Started(k) == /\ ~Flag[k] /\ Flag[k]' = TRUE
              /\ Panel!Calls(k) = {} /\ \E c \in Panel!Calls(k)' : Panel!Calls(k)' = {c}
Ended(k) == /\ Flag[k] /\ Flag[k]' = FALSE
            /\ \E c \in Panel!Calls(k) : Panel!Calls(k) = {c}
            /\ Panel!Calls(k)' = {}
OneStep(k) == Tells(k)' /\ (Kept(k) \/ Started(k) \/ Ended(k))

LEMMA FlagsAre == /\ Flag["audit"] = isAuditing /\ Flag["clean"] = isCleaning
                  /\ Flag["create"] = isCreating /\ DOMAIN Flag = Kinds
BY DEF Flag, Kinds

LEMMA FlagsWere == /\ Flag["audit"]' = isAuditing' /\ Flag["clean"]' = isCleaning'
                   /\ Flag["create"]' = isCreating'
BY DEF Flag

(* The flags in the terms of the variables.                                *)
LEMMA FlagsSet ==
  ASSUME NEW s, isAuditing' = (isAuditing \/ s = "audit"),
         isCleaning' = (isCleaning \/ s = "clean"),
         isCreating' = (isCreating \/ s = "create")
  PROVE  \A k \in Kinds : Flag[k]' = (Flag[k] \/ k = s)
<1>1. Flag["audit"]' = (Flag["audit"] \/ "audit" = s) BY FlagsAre, FlagsWere, Zenon
<1>2. Flag["clean"]' = (Flag["clean"] \/ "clean" = s) BY FlagsAre, FlagsWere, Zenon
<1>3. Flag["create"]' = (Flag["create"] \/ "create" = s) BY FlagsAre, FlagsWere, Zenon
<1>4. QED BY <1>1, <1>2, <1>3, Zenon DEF Kinds

LEMMA FlagsCleared ==
  ASSUME NEW s, isAuditing' = (isAuditing /\ s # "audit"),
         isCleaning' = (isCleaning /\ s # "clean"),
         isCreating' = (isCreating /\ s # "create")
  PROVE  \A k \in Kinds : Flag[k]' = (Flag[k] /\ k # s)
<1>1. Flag["audit"]' = (Flag["audit"] /\ "audit" # s) BY FlagsAre, FlagsWere, Zenon
<1>2. Flag["clean"]' = (Flag["clean"] /\ "clean" # s) BY FlagsAre, FlagsWere, Zenon
<1>3. Flag["create"]' = (Flag["create"] /\ "create" # s) BY FlagsAre, FlagsWere, Zenon
<1>4. QED BY <1>1, <1>2, <1>3, Zenon DEF Kinds

LEMMA KeepsFlag ==
  ASSUME NEW k \in Kinds, Tells(k), Flag[k]' = Flag[k], Panel!Calls(k)' = Panel!Calls(k)
  PROVE  OneStep(k)
<1>1. Tells(k)' BY DEF Tells, Panel!Calls
<1>2. QED BY <1>1 DEF OneStep, Kept

(* A request of a kind is sent only while its flag is not set.             *)
LEMMA Sending ==
  ASSUME FlagInv, NEW w, asked' = asked \cup {w}, w.kind \in Kinds => ~Flag[w.kind],
         \A k \in Kinds : Flag[k]' = (Flag[k] \/ k = w.kind)
  PROVE  \A k \in Kinds : OneStep(k)
<1> SUFFICES ASSUME NEW k \in Kinds PROVE OneStep(k) OBVIOUS
<1>1. Tells(k) BY DEF FlagInv
<1>2. CASE k = w.kind
  <2>1. Panel!Calls(k) = {} /\ ~Flag[k] BY <1>1, <1>2 DEF Tells
  <2>2. Panel!Calls(k)' = {w} /\ w \in asked' BY <1>2, <2>1 DEF Panel!Calls
  <2>3. Flag[k]' = TRUE BY <1>2
  <2>4. Tells(k)' BY <2>2, <2>3 DEF Tells
  <2>5. Started(k) BY <2>1, <2>2, <2>3 DEF Started
  <2>6. QED BY <2>4, <2>5 DEF OneStep
<1>3. CASE k # w.kind
  <2>1. Panel!Calls(k)' = Panel!Calls(k) BY <1>3 DEF Panel!Calls
  <2>2. Flag[k]' = Flag[k] BY <1>1, <1>3 DEF Tells
  <2>3. QED BY <1>1, <2>1, <2>2, KeepsFlag
<1>4. QED BY <1>2, <1>3

(* An answer ends the call it answers and asks for lists at most.          *)
LEMMA Answering ==
  ASSUME FlagInv, NEW w \in asked, NEW L, \A x \in L : x.kind = "list",
         asked' = (asked \ {w}) \cup L,
         \A k \in Kinds : Flag[k]' = (Flag[k] /\ k # w.kind)
  PROVE  \A k \in Kinds : OneStep(k)
<1> SUFFICES ASSUME NEW k \in Kinds PROVE OneStep(k) OBVIOUS
<1>1. Tells(k) /\ k # "list" BY DEF FlagInv, Kinds
<1>2. CASE k = w.kind
  <2>1. w \in Panel!Calls(k) BY <1>2 DEF Panel!Calls
  <2>2. Flag[k] /\ Panel!Calls(k) = {w} BY <1>1, <2>1 DEF Tells
  <2>3. Panel!Calls(k)' = {} BY <1>1, <2>2 DEF Panel!Calls
  <2>4. Flag[k]' = FALSE BY <1>2
  <2>5. Tells(k)' BY <2>3, <2>4 DEF Tells
  <2>6. Ended(k) BY <2>2, <2>3, <2>4 DEF Ended
  <2>7. QED BY <2>5, <2>6 DEF OneStep
<1>3. CASE k # w.kind
  <2>1. Panel!Calls(k)' = Panel!Calls(k) BY <1>1, <1>3 DEF Panel!Calls
  <2>2. Flag[k]' = Flag[k] BY <1>1, <1>3 DEF Tells
  <2>3. QED BY <1>1, <2>1, <2>2, KeepsFlag
<1>4. QED BY <1>2, <1>3

-----------------------------------------------------------------------------
flags == <<isAuditing, isCleaning, isCreating>>

LEMMA SameFlags == UNCHANGED flags => \A k : Flag[k]' = Flag[k]
BY DEF flags, Flag

LEMMA Looks ==
  ASSUME FlagInv, UNCHANGED <<flags, asked>>
  PROVE  \A k \in Kinds : OneStep(k)
<1>1. \A k \in Kinds : Panel!Calls(k)' = Panel!Calls(k) BY DEF Panel!Calls
<1>2. QED BY <1>1, SameFlags, KeepsFlag DEF FlagInv

(* A request that no flag is about.                                        *)
LEMMA SendsOther ==
  ASSUME FlagInv, UNCHANGED flags, NEW w, w.kind \notin Kinds, asked' = asked \cup {w}
  PROVE  \A k \in Kinds : OneStep(k)
<1>1. \A k \in Kinds : Flag[k]' = (Flag[k] \/ k = w.kind)
  BY SameFlags, Zenon DEF FlagInv, Tells
<1>2. QED BY <1>1, Sending

LEMMA AnswersOther ==
  ASSUME FlagInv, UNCHANGED flags, NEW w \in asked, w.kind \notin Kinds,
         asked' = asked \ {w}
  PROVE  \A k \in Kinds : OneStep(k)
<1>1. \A k \in Kinds : Flag[k]' = (Flag[k] /\ k # w.kind)
  BY SameFlags, Zenon DEF FlagInv, Tells
<1>2. PICK L : L = {} OBVIOUS
<1>3. asked' = (asked \ {w}) \cup L /\ \A x \in L : x.kind = "list" BY <1>2
<1>4. QED BY <1>1, <1>3, Answering

LEMMA ClickStep ==
  ASSUME FlagInv,
         \/ \E r \in Repos : Panel!OpenPanel(r) \/ Panel!TriggerAudit(r)
         \/ Panel!ClosePanel \/ \E t \in {"branches", "acl"} : Panel!ShowTab(t)
         \/ \E m \in {"branch", "acl", None} : Panel!ShowModal(m)
         \/ \E f \in Panel!Statuses \cup {"all"} : Panel!ChooseFilter(f)
         \/ \E b \in Names : Panel!ToggleSelectBranch(b) \/ Panel!CreateBranch(b)
         \/ Panel!ToggleSelectAll \/ \E names : Panel!CleanUp(names)
         \/ Panel!NotifyOwner \/ Panel!AddAcl
  PROVE  \A k \in Kinds : OneStep(k)
<1>f. /\ Kinds = {"audit", "clean", "create"}
      /\ isAuditing \in BOOLEAN /\ isCleaning \in BOOLEAN /\ isCreating \in BOOLEAN
  BY FlagsAre DEF FlagInv, Tells, Kinds
<1>1. ASSUME NEW r, Panel!OpenPanel(r) PROVE \A k \in Kinds : OneStep(k)
  <2>1. PICK w : w = Panel!List(r, "all") OBVIOUS
  <2>2. w.kind \notin Kinds BY <2>1 DEF Panel!List, Kinds
  <2>3. UNCHANGED flags /\ asked' = asked \cup {w} BY <1>1, <2>1 DEF Panel!OpenPanel, flags
  <2>4. QED BY <2>2, <2>3, SendsOther
<1>2. ASSUME NEW f, Panel!ChooseFilter(f) PROVE \A k \in Kinds : OneStep(k)
  <2>1. PICK w : w = Panel!List(activeRepo, f) OBVIOUS
  <2>2. w.kind \notin Kinds BY <2>1 DEF Panel!List, Kinds
  <2>3. UNCHANGED flags /\ asked' = asked \cup {w}
    BY <1>2, <2>1 DEF Panel!ChooseFilter, flags
  <2>4. QED BY <2>2, <2>3, SendsOther
<1>3. CASE Panel!NotifyOwner
  <2>1. PICK w : w = [kind |-> "notify", n |-> clicks] OBVIOUS
  <2>2. w.kind \notin Kinds BY <2>1 DEF Kinds
  <2>3. UNCHANGED flags /\ asked' = asked \cup {w}
    BY <1>3, <2>1 DEF Panel!NotifyOwner, Panel!Send, flags
  <2>4. QED BY <2>2, <2>3, SendsOther
<1>4. CASE Panel!AddAcl
  <2>1. PICK w : w = [kind |-> "acl", repo |-> aclTarget, n |-> clicks] OBVIOUS
  <2>2. w.kind \notin Kinds BY <2>1 DEF Kinds
  <2>3. UNCHANGED flags /\ asked' = asked \cup {w}
    BY <1>4, <2>1 DEF Panel!AddAcl, Panel!Send, flags
  <2>4. QED BY <2>2, <2>3, SendsOther
<1>5. ASSUME NEW r, Panel!TriggerAudit(r) PROVE \A k \in Kinds : OneStep(k)
  <2>1. PICK w : w = [kind |-> "audit", repo |-> r, filter |-> filter, n |-> clicks] OBVIOUS
  <2>2. w.kind = "audit" BY <2>1
  <2>3. /\ asked' = asked \cup {w} /\ ~isAuditing
        /\ isAuditing' = TRUE /\ UNCHANGED <<isCleaning, isCreating>>
    BY <1>5, <2>1 DEF Panel!TriggerAudit, Panel!Send
  <2>4. \A k \in Kinds : Flag[k]' = (Flag[k] \/ k = w.kind)
    BY <1>f, <2>2, <2>3, FlagsSet
  <2>5. QED BY <2>2, <2>3, <2>4, FlagsAre, Sending
<1>6. ASSUME NEW names, Panel!CleanUp(names) PROVE \A k \in Kinds : OneStep(k)
  <2>1. PICK w : w = [kind |-> "clean", repo |-> activeRepo, filter |-> filter,
                      names |-> names, typed |-> Panel!NeedsTyping(names), n |-> clicks]
    OBVIOUS
  <2>2. w.kind = "clean" BY <2>1
  <2>3. /\ asked' = asked \cup {w} /\ ~isCleaning
        /\ isCleaning' = TRUE /\ UNCHANGED <<isAuditing, isCreating>>
    BY <1>6, <2>1 DEF Panel!CleanUp, Panel!Send
  <2>4. \A k \in Kinds : Flag[k]' = (Flag[k] \/ k = w.kind)
    BY <1>f, <2>2, <2>3, FlagsSet
  <2>5. QED BY <2>2, <2>3, <2>4, FlagsAre, Sending
<1>7. ASSUME NEW b, Panel!CreateBranch(b) PROVE \A k \in Kinds : OneStep(k)
  <2>1. PICK w : w = [kind |-> "create", repo |-> activeRepo, filter |-> filter,
                      names |-> {b}, n |-> clicks] OBVIOUS
  <2>2. w.kind = "create" BY <2>1
  <2>3. /\ asked' = asked \cup {w} /\ ~isCreating
        /\ isCreating' = TRUE /\ UNCHANGED <<isAuditing, isCleaning>>
    BY <1>7, <2>1 DEF Panel!CreateBranch, Panel!Send
  <2>4. \A k \in Kinds : Flag[k]' = (Flag[k] \/ k = w.kind)
    BY <1>f, <2>2, <2>3, FlagsSet
  <2>5. QED BY <2>2, <2>3, <2>4, FlagsAre, Sending
<1>8. ASSUME \/ Panel!ClosePanel \/ Panel!ToggleSelectAll
             \/ \E t \in {"branches", "acl"} : Panel!ShowTab(t)
             \/ \E m \in {"branch", "acl", None} : Panel!ShowModal(m)
             \/ \E b \in Names : Panel!ToggleSelectBranch(b)
      PROVE \A k \in Kinds : OneStep(k)
  BY <1>8, Looks
    DEF Panel!ClosePanel, Panel!ToggleSelectAll, Panel!ShowTab, Panel!ShowModal,
        Panel!ToggleSelectBranch, flags
<1>9. QED BY <1>1, <1>2, <1>3, <1>4, <1>5, <1>6, <1>7, <1>8

LEMMA AnswerStep ==
  ASSUME FlagInv, NEW w \in asked, NEW ok \in BOOLEAN,
         \/ Panel!ListAnswer(w, ok) \/ Panel!AuditAnswer(w, ok) \/ Panel!CleanAnswer(w, ok)
         \/ Panel!CreateAnswer(w, ok) \/ Panel!AclAnswer(w, ok) \/ Panel!NotifyAnswer(w)
  PROVE  \A k \in Kinds : OneStep(k)
<1>f. /\ Kinds = {"audit", "clean", "create"}
      /\ isAuditing \in BOOLEAN /\ isCleaning \in BOOLEAN /\ isCreating \in BOOLEAN
  BY FlagsAre DEF FlagInv, Tells, Kinds
<1>1. CASE Panel!ListAnswer(w, ok) \/ Panel!AclAnswer(w, ok) \/ Panel!NotifyAnswer(w)
  BY <1>1, AnswersOther
    DEF Panel!ListAnswer, Panel!AclAnswer, Panel!NotifyAnswer, flags, Kinds
<1>l. PICK L : L = IF ok THEN {Panel!List(w.repo, w.filter)} ELSE {} OBVIOUS
<1>2. \A x \in L : x.kind = "list" BY <1>l DEF Panel!List
<1>3. CASE Panel!AuditAnswer(w, ok)
  <2>1. asked' = (asked \ {w}) \cup L BY <1>l, <1>3 DEF Panel!AuditAnswer, Panel!Again
  <2>2. \A k \in Kinds : Flag[k]' = (Flag[k] /\ k # w.kind)
    BY <1>f, <1>3, FlagsCleared DEF Panel!AuditAnswer
  <2>3. QED BY <1>2, <2>1, <2>2, Answering
<1>4. CASE Panel!CleanAnswer(w, ok)
  <2>1. asked' = (asked \ {w}) \cup L BY <1>l, <1>4 DEF Panel!CleanAnswer, Panel!Again
  <2>2. \A k \in Kinds : Flag[k]' = (Flag[k] /\ k # w.kind)
    BY <1>f, <1>4, FlagsCleared DEF Panel!CleanAnswer
  <2>3. QED BY <1>2, <2>1, <2>2, Answering
<1>5. CASE Panel!CreateAnswer(w, ok)
  <2>1. asked' = (asked \ {w}) \cup L BY <1>l, <1>5 DEF Panel!CreateAnswer, Panel!Again
  <2>2. \A k \in Kinds : Flag[k]' = (Flag[k] /\ k # w.kind)
    BY <1>f, <1>5, FlagsCleared DEF Panel!CreateAnswer
  <2>3. QED BY <1>2, <2>1, <2>2, Answering
<1>6. QED BY <1>1, <1>3, <1>4, <1>5

LEMMA FlagStep ==
  ASSUME FlagInv, [Panel!Next]_(Panel!vars)
  PROVE  \A k \in Kinds : OneStep(k)
<1>1. CASE UNCHANGED Panel!vars BY <1>1, Looks DEF Panel!vars, flags
<1>2. CASE Panel!CleanUpMerged \/ Panel!CleanUpSelected \/ Panel!CleanUpOne
  <2>1. \E names : Panel!CleanUp(names)
    BY <1>2 DEF Panel!CleanUpMerged, Panel!CleanUpSelected, Panel!CleanUpOne
  <2>2. QED BY <2>1, ClickStep
<1>3. CASE Panel!Next BY <1>2, <1>3, ClickStep, AnswerStep DEF Panel!Next
<1>4. QED BY <1>1, <1>3

(* FlagInv: the flags of the panel tell what is in flight.                 *)
THEOREM FlagsTell == Panel!Spec => []FlagInv
<1>1. Panel!Init => FlagInv
  BY FlagsAre DEF Panel!Init, FlagInv, Tells, Panel!Calls, Kinds
<1>2. FlagInv /\ [Panel!Next]_(Panel!vars) => FlagInv' BY FlagStep DEF FlagInv, OneStep
<1>3. QED BY <1>1, <1>2, PTL DEF Panel!Spec

(* OnePanelCall: the audits, the clean-ups and the creations of branches   *)
(* each implement SingleFlight, however panels, tabs and forms are closed  *)
(* and opened and in whatever order the calls are answered.                *)
THEOREM OneCallPerButton == Panel!Spec => Panel!OnePanelCall
<1>1. FlagInv /\ [Panel!Next]_(Panel!vars) =>
        /\ [Panel!Auditing!Next]_<<isAuditing, Panel!Calls("audit")>>
        /\ [Panel!Cleaning!Next]_<<isCleaning, Panel!Calls("clean")>>
        /\ [Panel!Creating!Next]_<<isCreating, Panel!Calls("create")>>
  <2> SUFFICES ASSUME FlagInv, [Panel!Next]_(Panel!vars)
      PROVE  /\ [Panel!Auditing!Next]_<<isAuditing, Panel!Calls("audit")>>
             /\ [Panel!Cleaning!Next]_<<isCleaning, Panel!Calls("clean")>>
             /\ [Panel!Creating!Next]_<<isCreating, Panel!Calls("create")>>
    OBVIOUS
  <2>1. OneStep("audit") /\ OneStep("clean") /\ OneStep("create") BY FlagStep DEF Kinds
  <2>2. /\ Flag["audit"]' = isAuditing' /\ Flag["clean"]' = isCleaning'
        /\ Flag["create"]' = isCreating' BY DEF Flag
  <2>3. [Panel!Auditing!Next]_<<isAuditing, Panel!Calls("audit")>>
    BY <2>1, <2>2, FlagsAre
    DEF OneStep, Kept, Started, Ended, Panel!Auditing!Next, Panel!Auditing!Start,
        Panel!Auditing!End
  <2>4. [Panel!Cleaning!Next]_<<isCleaning, Panel!Calls("clean")>>
    BY <2>1, <2>2, FlagsAre
    DEF OneStep, Kept, Started, Ended, Panel!Cleaning!Next, Panel!Cleaning!Start,
        Panel!Cleaning!End
  <2>5. [Panel!Creating!Next]_<<isCreating, Panel!Calls("create")>>
    BY <2>1, <2>2, FlagsAre
    DEF OneStep, Kept, Started, Ended, Panel!Creating!Next, Panel!Creating!Start,
        Panel!Creating!End
  <2>6. QED BY <2>3, <2>4, <2>5
<1>2. Panel!Init => Panel!Auditing!Init /\ Panel!Cleaning!Init /\ Panel!Creating!Init
  BY DEF Panel!Init, Panel!Auditing!Init, Panel!Cleaning!Init, Panel!Creating!Init,
     Panel!Calls
<1>3. QED BY <1>1, <1>2, FlagsTell, PTL
          DEF Panel!Spec, Panel!OnePanelCall, Panel!Auditing!Spec, Panel!Cleaning!Spec,
              Panel!Creating!Spec

-----------------------------------------------------------------------------
(* The panel of a repository: its types *)

(* Requests are of a repository and a filter; a form covers a panel.       *)
Asks(w) ==
  /\ w.kind \in {"list", "audit", "clean", "create"} =>
       w.repo \in Repos /\ w.filter \in Panel!Statuses \cup {"all"}
  /\ w.kind \in {"clean", "create"} => w.names \subseteq Names
PanelTyped ==
  /\ Panel!TypeOK /\ (modal # None => activeRepo # None)
  /\ \A w \in asked : Asks(w)

LEMMA ListedTyped ==
  ASSUME Panel!TypeOK, NEW r \in Repos, NEW f
  PROVE  Panel!Listed(r, f) \subseteq [name: Names, status: Panel!Statuses]
<1>1. \A b \in Panel!Present(r) : b \in Names /\ server[r][b] \in Panel!Statuses
  BY DEF Panel!TypeOK, Panel!Present
<1>2. QED BY <1>1 DEF Panel!Listed

LEMMA ListAsks ==
  ASSUME NEW r \in Repos, NEW f \in Panel!Statuses \cup {"all"}
  PROVE  Asks(Panel!List(r, f))
BY DEF Asks, Panel!List

(* A click that sends a request and touches at most a flag.                *)
LEMMA SendTyped ==
  ASSUME PanelTyped, NEW w, Asks(w), asked' = asked \cup {w},
         UNCHANGED <<server, activeRepo, listed, filter, selected, modal, aclTarget>>
  PROVE  PanelTyped'
BY DEF PanelTyped, Panel!TypeOK

LEMMA RequestTyped ==
  ASSUME Panel!Sensible, PanelTyped,
         \/ \E r \in Repos : Panel!TriggerAudit(r)
         \/ \E names : names \subseteq Names /\ Panel!CleanUp(names)
         \/ \E b \in Names : Panel!CreateBranch(b)
         \/ Panel!NotifyOwner \/ Panel!AddAcl
  PROVE  PanelTyped'
<1>t. activeRepo # None => activeRepo \in Repos BY DEF PanelTyped, Panel!TypeOK
<1>f. filter \in Panel!Statuses \cup {"all"} BY DEF PanelTyped, Panel!TypeOK
<1>1. ASSUME NEW r \in Repos, Panel!TriggerAudit(r) PROVE PanelTyped'
  <2>1. PICK w : w = [kind |-> "audit", repo |-> r, filter |-> filter, n |-> clicks] OBVIOUS
  <2>2. Asks(w) BY <1>f, <2>1 DEF Asks
  <2>3. QED BY <1>1, <2>1, <2>2, SendTyped DEF Panel!TriggerAudit, Panel!Send
<1>2. ASSUME NEW names, names \subseteq Names, Panel!CleanUp(names) PROVE PanelTyped'
  <2>1. PICK w : w = [kind |-> "clean", repo |-> activeRepo, filter |-> filter,
                      names |-> names, typed |-> Panel!NeedsTyping(names), n |-> clicks]
    OBVIOUS
  <2>2. activeRepo # None BY <1>2 DEF Panel!CleanUp, Panel!Looking
  <2>3. Asks(w) BY <1>f, <1>t, <1>2, <2>1, <2>2 DEF Asks
  <2>4. QED BY <1>2, <2>1, <2>3, SendTyped DEF Panel!CleanUp, Panel!Send
<1>3. ASSUME NEW b \in Names, Panel!CreateBranch(b) PROVE PanelTyped'
  <2>1. PICK w : w = [kind |-> "create", repo |-> activeRepo, filter |-> filter,
                      names |-> {b}, n |-> clicks] OBVIOUS
  <2>2. activeRepo # None BY <1>3 DEF Panel!CreateBranch, PanelTyped, Panel!Sensible
  <2>3. Asks(w) BY <1>f, <1>t, <2>1, <2>2 DEF Asks
  <2>4. QED BY <1>3, <2>1, <2>3, SendTyped DEF Panel!CreateBranch, Panel!Send
<1>4. CASE Panel!NotifyOwner
  <2>1. PICK w : w = [kind |-> "notify", n |-> clicks] OBVIOUS
  <2>2. Asks(w) BY <2>1 DEF Asks
  <2>3. QED BY <1>4, <2>1, <2>2, SendTyped DEF Panel!NotifyOwner, Panel!Send
<1>5. CASE Panel!AddAcl
  <2>1. PICK w : w = [kind |-> "acl", repo |-> aclTarget, n |-> clicks] OBVIOUS
  <2>2. Asks(w) BY <2>1 DEF Asks
  <2>3. QED BY <1>5, <2>1, <2>2, SendTyped DEF Panel!AddAcl, Panel!Send
<1>6. QED BY <1>1, <1>2, <1>3, <1>4, <1>5

(* The names that a clean-up is asked for are those of the list.           *)
LEMMA StaleNames ==
  ASSUME Panel!TypeOK
  PROVE  /\ Panel!Stale(listed) \subseteq Names
         /\ \A st : Panel!Named(listed, st) \subseteq Names
BY DEF Panel!TypeOK, Panel!Stale, Panel!Named

LEMMA LookTyped ==
  ASSUME PanelTyped,
         \/ \E r \in Repos : Panel!OpenPanel(r)
         \/ Panel!ClosePanel \/ Panel!ToggleSelectAll
         \/ \E t : Panel!ShowTab(t)
         \/ \E m \in {"branch", "acl", None} : Panel!ShowModal(m)
         \/ \E f \in Panel!Statuses \cup {"all"} : Panel!ChooseFilter(f)
         \/ \E b \in Names : Panel!ToggleSelectBranch(b)
  PROVE  PanelTyped'
<1>1. ASSUME NEW r \in Repos, Panel!OpenPanel(r) PROVE PanelTyped'
  <2>1. Asks(Panel!List(r, "all")) BY ListAsks
  <2>2. QED BY <1>1, <2>1 DEF Panel!OpenPanel, PanelTyped, Panel!TypeOK
<1>2. ASSUME NEW f \in Panel!Statuses \cup {"all"}, Panel!ChooseFilter(f) PROVE PanelTyped'
  <2>1. activeRepo \in Repos
    BY <1>2 DEF Panel!ChooseFilter, Panel!Looking, PanelTyped, Panel!TypeOK
  <2>2. Asks(Panel!List(activeRepo, f)) BY <2>1, ListAsks
  <2>3. QED BY <1>2, <2>2 DEF Panel!ChooseFilter, PanelTyped, Panel!TypeOK
<1>3. CASE Panel!ClosePanel
  BY <1>3 DEF Panel!ClosePanel, PanelTyped, Panel!TypeOK
<1>4. CASE Panel!ToggleSelectAll
  BY <1>4, StaleNames DEF Panel!ToggleSelectAll, PanelTyped, Panel!TypeOK
<1>5. ASSUME NEW t, Panel!ShowTab(t) PROVE PanelTyped'
  BY <1>5 DEF Panel!ShowTab, PanelTyped, Panel!TypeOK
<1>6. ASSUME NEW m \in {"branch", "acl", None}, Panel!ShowModal(m) PROVE PanelTyped'
  BY <1>6 DEF Panel!ShowModal, PanelTyped, Panel!TypeOK
<1>7. ASSUME NEW b \in Names, Panel!ToggleSelectBranch(b) PROVE PanelTyped'
  BY <1>7 DEF Panel!ToggleSelectBranch, PanelTyped, Panel!TypeOK
<1>8. QED BY <1>1, <1>2, <1>3, <1>4, <1>5, <1>6, <1>7

LEMMA AnswerTyped ==
  ASSUME PanelTyped, NEW w \in asked, NEW ok \in BOOLEAN,
         \/ Panel!ListAnswer(w, ok) \/ Panel!AuditAnswer(w, ok) \/ Panel!CleanAnswer(w, ok)
         \/ Panel!CreateAnswer(w, ok) \/ Panel!AclAnswer(w, ok) \/ Panel!NotifyAnswer(w)
  PROVE  PanelTyped'
<1>w. Asks(w) BY DEF PanelTyped
<1>1. CASE Panel!ListAnswer(w, ok)
  <2>1. w.repo \in Repos BY <1>w, <1>1 DEF Asks, Panel!ListAnswer
  <2>2. listed' \subseteq [name: Names, status: Panel!Statuses]
    BY <1>1, <2>1, ListedTyped DEF Panel!ListAnswer, PanelTyped, Panel!TypeOK
  <2>3. QED BY <1>1, <2>2 DEF Panel!ListAnswer, PanelTyped, Panel!TypeOK
<1>2. CASE Panel!AclAnswer(w, ok) \/ Panel!NotifyAnswer(w)
  BY <1>2 DEF Panel!AclAnswer, Panel!NotifyAnswer, PanelTyped, Panel!TypeOK
<1>3. ASSUME w.kind \in {"audit", "clean", "create"}, Panel!Again(w, ok)
      PROVE  \A x \in asked' : Asks(x)
  <2>1. Asks(Panel!List(w.repo, w.filter)) BY <1>w, <1>3, ListAsks DEF Asks
  <2>2. QED BY <1>3, <2>1 DEF Panel!Again, PanelTyped
<1>4. CASE Panel!AuditAnswer(w, ok)
  <2>1. \A x \in asked' : Asks(x) BY <1>3, <1>4 DEF Panel!AuditAnswer
  <2>2. QED BY <1>4, <2>1 DEF Panel!AuditAnswer, PanelTyped, Panel!TypeOK
<1>5. CASE Panel!CleanAnswer(w, ok)
  <2>1. \A x \in asked' : Asks(x) BY <1>3, <1>5 DEF Panel!CleanAnswer
  <2>2. PICK gone : server' = [server EXCEPT ![w.repo] =
                                 [b \in Names |-> IF b \in gone THEN None ELSE @[b]]]
    BY <1>5 DEF Panel!CleanAnswer
  <2>3. server' \in [Repos -> [Names -> Panel!Statuses \cup {None}]]
    BY <2>2 DEF PanelTyped, Panel!TypeOK
  <2>4. QED BY <1>5, <2>1, <2>3 DEF Panel!CleanAnswer, PanelTyped, Panel!TypeOK
<1>6. CASE Panel!CreateAnswer(w, ok)
  <2>1. \A x \in asked' : Asks(x) BY <1>3, <1>6 DEF Panel!CreateAnswer
  <2>2. server' = IF ok THEN [server EXCEPT ![w.repo] =
                               [b \in Names |-> IF b \in w.names THEN "active" ELSE @[b]]]
                  ELSE server
    BY <1>6 DEF Panel!CreateAnswer
  <2>3. server' \in [Repos -> [Names -> Panel!Statuses \cup {None}]]
    BY <2>2 DEF PanelTyped, Panel!TypeOK, Panel!Statuses
  <2>4. QED BY <1>6, <2>1, <2>3 DEF Panel!CreateAnswer, PanelTyped, Panel!TypeOK
<1>7. QED BY <1>1, <1>2, <1>4, <1>5, <1>6

LEMMA PanelStep ==
  ASSUME Panel!Sensible, PanelTyped, [Panel!Next]_(Panel!vars)
  PROVE  PanelTyped'
<1>1. CASE UNCHANGED Panel!vars BY <1>1 DEF Panel!vars, PanelTyped, Panel!TypeOK
<1>2. CASE Panel!CleanUpMerged \/ Panel!CleanUpSelected \/ Panel!CleanUpOne
  <2>1. selected \subseteq Names BY DEF PanelTyped, Panel!TypeOK
  <2>2. \A b \in Panel!Stale(listed) : {b} \subseteq Names BY StaleNames DEF PanelTyped
  <2>3. \E names : names \subseteq Names /\ Panel!CleanUp(names)
    BY <1>2, <2>1, <2>2, StaleNames
    DEF PanelTyped, Panel!CleanUpMerged, Panel!CleanUpSelected, Panel!CleanUpOne
  <2>4. QED BY <2>3, RequestTyped
<1>3. CASE Panel!Next
  BY <1>2, <1>3, RequestTyped, LookTyped, AnswerTyped DEF Panel!Next
<1>4. QED BY <1>1, <1>3

(* The branches of the server and of the list, the filter and the form     *)
(* have their types.                                                       *)
THEOREM PanelTypeCorrect == ASSUME Panel!Sensible PROVE Panel!Spec => []Panel!TypeOK
<1>1. Panel!Init => PanelTyped
  BY DEF Panel!Init, Panel!Sensible, PanelTyped, Panel!TypeOK
<1>2. PanelTyped /\ [Panel!Next]_(Panel!vars) => PanelTyped' BY PanelStep
<1>3. PanelTyped => Panel!TypeOK BY DEF PanelTyped
<1>4. QED BY <1>1, <1>2, <1>3, PTL DEF Panel!Spec

-----------------------------------------------------------------------------
(* The page of the managed groups *)

Selection == [id: Groups, hidden: BOOLEAN] \cup {None}
(* A list of groups: of each whether it is hidden.                         *)
Hidden(f) ==
  /\ f = [g \in DOMAIN f |-> f[g]] /\ DOMAIN f \subseteq Groups
  /\ \A g \in DOMAIN f : f[g] \in BOOLEAN
FormFields == [group: Groups \cup {None}, owner: Users \cup {None}, dept: Depts \cup {None}]
(* A request kept has a group selected.                                    *)
Chose(w) == w.kind \in {"hide", "delete"} => w.sel \in [id: Groups, hidden: BOOLEAN]
(* The effect chooses by the address, but answers put back the selection   *)
(* of their click; that the list changes with it, and so runs the effect   *)
(* again, is what keeps the two together.                                  *)
TreeInv ==
  /\ Hidden(known) /\ Hidden(groups)
  /\ systemUsers \subseteq Users /\ address \in Groups \cup {None}
  /\ selectedGroup \in Selection /\ form \in {None} \cup FormFields
  /\ \A w \in pending : Chose(w)
  /\ Tree!SelectedFollowsUrl

USE DEF FormFields

LEMMA NothingIs ==
  Hidden(Tree!Nothing) /\ \A f : Hidden(f) => (f = Tree!Nothing <=> DOMAIN f = {})
<1>1. Hidden(Tree!Nothing) /\ DOMAIN Tree!Nothing = {} BY DEF Hidden, Tree!Nothing
<1>2. ASSUME NEW f, Hidden(f), DOMAIN f = {} PROVE f = Tree!Nothing
  BY <1>2 DEF Hidden, Tree!Nothing
<1>3. QED BY <1>1, <1>2

LEMMA ChosenIs ==
  ASSUME Tree!Sensible, NEW u \in Groups \cup {None}, NEW gs, Hidden(gs),
         NEW sel \in Selection
  PROVE  /\ Tree!Chosen(u, gs, sel) \in Selection
         /\ Tree!Chosen(u, gs, sel) # None /\ DOMAIN gs # {} =>
              u = Tree!Chosen(u, gs, sel).id /\ u \in DOMAIN gs
<1>1. CASE u = None BY <1>1 DEF Tree!Chosen, Selection
<1>2. CASE gs = Tree!Nothing BY <1>2, NothingIs DEF Tree!Chosen, Selection
<1>3. CASE u # None /\ gs # Tree!Nothing /\ u \notin DOMAIN gs
  BY <1>3 DEF Tree!Chosen, Selection
<1>4. CASE u # None /\ gs # Tree!Nothing /\ u \in DOMAIN gs
  <2>1. [id |-> u, hidden |-> gs[u]] \in Selection BY <1>4 DEF Hidden, Selection
  <2>2. CASE sel # None /\ sel.id = u BY <1>4, <2>2 DEF Tree!Chosen
  <2>3. CASE ~(sel # None /\ sel.id = u)
    <3>1. Tree!Chosen(u, gs, sel) = [id |-> u, hidden |-> gs[u]]
      BY <1>4, <2>3 DEF Tree!Chosen
    <3>2. QED BY <1>4, <2>1, <3>1
  <2>4. QED BY <2>2, <2>3
<1>5. QED BY <1>1, <1>2, <1>3, <1>4

LEMMA InitTree == ASSUME Tree!Sensible, Tree!Init PROVE TreeInv
<1>1. Hidden(known) BY DEF Tree!Init, Hidden
<1>2. selectedGroup \in Selection BY DEF Tree!Init, Selection
<1>3. \A w \in pending : w.kind \notin {"hide", "delete"} BY DEF Tree!Init, Tree!Repos
<1>4. QED BY <1>1, <1>2, <1>3, NothingIs DEF Tree!Init, TreeInv, Tree!SelectedFollowsUrl,
     Chose

LEMMA TreeEffectKept ==
  ASSUME Tree!Sensible, NEW u \in Groups \cup {None}, NEW gs, Hidden(gs),
         NEW sel \in Selection,
         NEW ws, \A w \in ws : Chose(w), Tree!WithEffect(u, gs, sel, ws)
  PROVE  /\ Hidden(groups)' /\ address' \in Groups \cup {None}
         /\ selectedGroup' \in Selection
         /\ Tree!SelectedFollowsUrl' /\ \A w \in pending' : Chose(w)
<1>1. /\ address' = u /\ groups' = gs /\ selectedGroup' = Tree!Chosen(u, gs, sel)
      /\ pending' = ws \cup Tree!Fetched(u, gs, sel)
  BY DEF Tree!WithEffect
<1>2. \A w \in Tree!Fetched(u, gs, sel) : w.kind = "repos" BY DEF Tree!Fetched, Tree!Repos
<1>3. Tree!SelectedFollowsUrl' BY <1>1, ChosenIs DEF Tree!SelectedFollowsUrl
<1>4. QED BY <1>1, <1>2, <1>3, ChosenIs DEF Chose

(* Most events touch neither address nor list nor selection.               *)
LEMMA StillFollows ==
  ASSUME Tree!SelectedFollowsUrl, UNCHANGED <<groups, address, selectedGroup>>
  PROVE  Tree!SelectedFollowsUrl'
BY DEF Tree!SelectedFollowsUrl
LEMMA KeptHidden == ASSUME Hidden(known), UNCHANGED known PROVE Hidden(known)'
BY DEF Hidden

LEMMA TreeFormKept ==
  ASSUME Tree!Sensible, TreeInv, NEW f, Tree!Form(f),
         f \in {None} \cup FormFields
  PROVE  TreeInv'
<1>1. UNCHANGED <<known, groups, address, selectedGroup, systemUsers, pending>> /\ form' = f
  BY DEF Tree!Form
<1>2. Tree!SelectedFollowsUrl' BY <1>1, StillFollows DEF TreeInv
<1>4. QED BY <1>1, <1>2 DEF TreeInv, Hidden

LEMMA WithDeptIs ==
  ASSUME Tree!Sensible, NEW us \in SUBSET Users,
         NEW f \in FormFields
  PROVE  Tree!WithDept(f, us) \in FormFields
<1>1. CASE f.owner \in us /\ f.dept = None
  <2>1. DeptOf[f.owner] \in Depts \cup {None} BY <1>1 DEF Tree!Sensible
  <2>2. QED BY <1>1, <2>1 DEF Tree!WithDept
<1>2. CASE ~(f.owner \in us /\ f.dept = None) BY <1>2 DEF Tree!WithDept
<1>3. QED BY <1>1, <1>2

(* A click that sends one request and leaves the rest of the tree alone.   *)
LEMMA TreeSendKept ==
  ASSUME TreeInv, NEW w, Chose(w), pending' = pending \cup {w},
         UNCHANGED <<known, groups, address, selectedGroup, systemUsers, form>>
  PROVE  TreeInv'
<1>1. Tree!SelectedFollowsUrl' BY StillFollows DEF TreeInv
<1>3. QED BY <1>1 DEF TreeInv, Hidden
(* An answer that leaves the selection alone, and may change the groups    *)
(* there are and the form.                                                 *)
LEMMA TreeAnswerKept ==
  ASSUME TreeInv, \A v \in pending' \ pending : Chose(v),
         UNCHANGED <<groups, address, selectedGroup>>, Hidden(known)',
         systemUsers' \subseteq Users,
         form' \in {None} \cup FormFields
  PROVE  TreeInv'
<1>1. Tree!SelectedFollowsUrl' BY StillFollows DEF TreeInv
<1>3. QED BY <1>1 DEF TreeInv, Hidden

LEMMA TreeClick ==
  ASSUME Tree!Sensible, TreeInv,
         \/ \E g \in Groups \cup {None} : Tree!HandleGroupSelect(g)
         \/ \E g \in Groups : Tree!ToggleGroupExpand(g)
         \/ Tree!ToggleShowHidden \/ Tree!ToggleShowArchived
  PROVE  TreeInv'
<1>1. ASSUME NEW g \in Groups \cup {None}, Tree!HandleGroupSelect(g) PROVE TreeInv'
  <2>1. /\ Tree!WithEffect(g, groups, selectedGroup, pending)
        /\ UNCHANGED <<known, systemUsers, form>>
    BY <1>1 DEF Tree!HandleGroupSelect, Tree!side
  <2>2. Hidden(groups) /\ selectedGroup \in Selection BY DEF TreeInv
  <2>3. /\ Hidden(groups)' /\ address' \in Groups \cup {None}
        /\ selectedGroup' \in Selection
        /\ Tree!SelectedFollowsUrl' /\ \A w \in pending' : Chose(w)
    BY <2>1, <2>2, TreeEffectKept DEF TreeInv
  <2>5. QED BY <2>1, <2>3, KeptHidden DEF TreeInv
<1>2. CASE (\E g \in Groups : Tree!ToggleGroupExpand(g)) \/ Tree!ToggleShowHidden
  <2>1. UNCHANGED <<known, groups, address, selectedGroup, systemUsers, form, pending>>
    BY <1>2 DEF Tree!ToggleGroupExpand, Tree!ToggleShowHidden
  <2>3. QED BY <2>1, StillFollows DEF TreeInv, Hidden
<1>3. CASE Tree!ToggleShowArchived
  <2>1. PICK w : w = Tree!Repos(Tree!SelId(selectedGroup), ~showArchived) OBVIOUS
  <2>2. Chose(w) BY <2>1 DEF Chose, Tree!Repos
  <2>3. pending' = pending \cup {w}
       /\ UNCHANGED <<known, groups, address, selectedGroup, systemUsers, form>>
    BY <1>3, <2>1 DEF Tree!ToggleShowArchived, Tree!side
  <2>4. QED BY <2>2, <2>3, TreeSendKept
<1>4. QED BY <1>1, <1>2, <1>3

LEMMA TreeSend ==
  ASSUME Tree!Sensible, TreeInv,
         \/ Tree!HandleDeleteGroup \/ Tree!HandleToggleGroupHide \/ Tree!HandleSyncGroup
         \/ Tree!HandleToggleRepoArchive \/ Tree!HandleCreateGroup \/ Tree!HandleCreateRepo
  PROVE  TreeInv'
<1>1. PICK k \in {"delete", "hide", "sync", "archive", "import", "ask"} :
        /\ k \in {"delete", "hide"} => selectedGroup # None
        /\ pending' = pending \cup {Tree!Here(k)}
        /\ UNCHANGED <<known, groups, address, selectedGroup, systemUsers, form>>
  BY DEF Tree!HandleDeleteGroup, Tree!HandleToggleGroupHide, Tree!HandleSyncGroup,
       Tree!HandleToggleRepoArchive,
         Tree!HandleCreateGroup, Tree!HandleCreateRepo, Tree!Send, Tree!Submit, Tree!side
<1>2. Tree!Here(k).kind = k /\ Tree!Here(k).sel = selectedGroup BY DEF Tree!Here
<1>3. selectedGroup \in Selection BY DEF TreeInv
<1>4. Chose(Tree!Here(k)) BY <1>1, <1>2, <1>3 DEF Chose, Selection
<1>5. QED BY <1>1, <1>4, TreeSendKept

LEMMA TreeForm ==
  ASSUME Tree!Sensible, TreeInv,
         \/ Tree!OpenGroupForm \/ Tree!OpenRepoForm \/ Tree!CloseForm
         \/ \E u \in Users \cup {None} : Tree!ChooseOwner(u)
         \/ \E d \in Depts : Tree!ChooseDept(d)
         \/ \E g \in Groups : Tree!ChooseGroup(g)
  PROVE  TreeInv'
<1>f. form \in {None} \cup FormFields /\ systemUsers \in SUBSET Users
                                      /\ selectedGroup \in Selection
      /\ Hidden(groups)
  BY DEF TreeInv
<1>r. Tree!IsRepoForm => form \in FormFields BY <1>f DEF Tree!IsRepoForm
<1>1. CASE Tree!OpenGroupForm
  <2>1. Tree!ImportForm \in FormFields BY DEF Tree!ImportForm
  <2>2. QED BY <1>1, <2>1, TreeFormKept DEF Tree!OpenGroupForm
<1>2. CASE Tree!OpenRepoForm
  <2>1. PICK g : g = IF selectedGroup # None THEN selectedGroup.id
                     ELSE CHOOSE x \in DOMAIN groups : TRUE
    OBVIOUS
  <2>2. g \in Groups
    <3>1. CASE selectedGroup # None BY <1>f, <2>1, <3>1 DEF Selection
    <3>2. CASE selectedGroup = None BY <1>2, <1>f, <2>1, <3>2 DEF Tree!OpenRepoForm, Hidden
    <3>3. QED BY <3>1, <3>2
  <2>3. Tree!Form([group |-> g, owner |-> None, dept |-> None])
    BY <1>2, <2>1 DEF Tree!OpenRepoForm
  <2>4. QED BY <2>2, <2>3, TreeFormKept
<1>3. CASE Tree!CloseForm BY <1>3, TreeFormKept DEF Tree!CloseForm
<1>4. ASSUME NEW u \in Users \cup {None}, Tree!ChooseOwner(u) PROVE TreeInv'
  <2>1. [form EXCEPT !.owner = u] \in FormFields BY <1>4, <1>r DEF Tree!ChooseOwner
  <2>2. Tree!WithDept([form EXCEPT !.owner = u], systemUsers) \in FormFields
    BY <1>f, <2>1, WithDeptIs
  <2>3. QED BY <1>4, <2>2, TreeFormKept DEF Tree!ChooseOwner
<1>5. ASSUME NEW d \in Depts, Tree!ChooseDept(d) PROVE TreeInv'
  <2>1. [form EXCEPT !.dept = d] \in FormFields BY <1>5, <1>r DEF Tree!ChooseDept
  <2>2. QED BY <1>5, <2>1, TreeFormKept DEF Tree!ChooseDept
<1>6. ASSUME NEW g \in Groups, Tree!ChooseGroup(g) PROVE TreeInv'
  <2>1. [form EXCEPT !.group = g] \in FormFields BY <1>6, <1>r DEF Tree!ChooseGroup
  <2>2. QED BY <1>6, <2>1, TreeFormKept DEF Tree!ChooseGroup
<1>7. QED BY <1>1, <1>2, <1>3, <1>4, <1>5, <1>6

LEMMA TreeAnswer ==
  ASSUME Tree!Sensible, TreeInv, NEW w \in pending, NEW ok \in BOOLEAN,
         \/ Tree!OptionsAnswer(w) \/ Tree!ReposAnswer(w) \/ Tree!GroupsAnswer(w, ok)
         \/ Tree!HideAnswer(w, ok)
         \/ Tree!DeleteAnswer(w, ok) \/ Tree!SyncAnswer(w, ok) \/ Tree!ArchiveAnswer(w, ok)
         \/ Tree!ImportAnswer(w, ok) \/ Tree!AskAnswer(w, ok)
  PROVE  TreeInv'
<1>t. Tree!SelectedFollowsUrl /\ \A v \in pending : Chose(v) BY DEF TreeInv
<1>f. /\ Hidden(known) /\ Hidden(groups) /\ systemUsers \subseteq Users
      /\ address \in Groups \cup {None} /\ selectedGroup \in Selection
      /\ form \in {None} \cup FormFields
  BY DEF TreeInv
<1>g. Chose([kind |-> "groups"]) /\ \A g, a : Chose(Tree!Repos(g, a))
  BY DEF Chose, Tree!Repos
<1>1. CASE Tree!OptionsAnswer(w)
  <2>1. /\ pending' = pending \ {w} /\ systemUsers' = Users
        /\ form' = IF Tree!IsRepoForm THEN Tree!WithDept(form, Users) ELSE form
        /\ UNCHANGED <<known, groups, address, selectedGroup>>
    BY <1>1 DEF Tree!OptionsAnswer, Tree!Later
  <2>2. Tree!IsRepoForm => form \in FormFields BY <1>f DEF Tree!IsRepoForm
  <2>3. form' \in {None} \cup FormFields BY <1>f, <2>1, <2>2, WithDeptIs
  <2>4. QED BY <1>f, <1>g, <2>1, <2>3, TreeAnswerKept, KeptHidden
<1>2. CASE Tree!ReposAnswer(w) \/ Tree!SyncAnswer(w, ok) \/ Tree!ArchiveAnswer(w, ok)
                               \/ Tree!AskAnswer(w, ok)
  <2>1. /\ UNCHANGED <<known, groups, address, selectedGroup, systemUsers>>
        /\ form' \in {None, form}
        /\ pending' \subseteq pending \cup {[kind |-> "groups"],
             Tree!Repos(Tree!SelId(w.sel), w.archived)}
    BY <1>2 DEF Tree!ReposAnswer, Tree!SyncAnswer, Tree!ArchiveAnswer, Tree!AskAnswer,
         Tree!Later, Tree!side
  <2>2. \A v \in {[kind |-> "groups"], Tree!Repos(Tree!SelId(w.sel),
       w.archived)} : Chose(v) BY <1>g
  <2>3. QED BY <1>f, <2>1, <2>2, TreeAnswerKept, KeptHidden
<1>3. CASE Tree!GroupsAnswer(w, ok)
  <2>1. PICK gs : gs = IF ok THEN known ELSE Tree!Nothing OBVIOUS
  <2>2. Hidden(gs) BY <1>f, <2>1, NothingIs
  <2>0. /\ UNCHANGED <<known, systemUsers, form>>
        /\ \/ Tree!WithEffect(address, gs, selectedGroup, pending \ {w})
           \/ pending' = pending \ {w} /\ UNCHANGED <<groups, address, selectedGroup>>
    BY <1>3, <2>1 DEF Tree!GroupsAnswer, Tree!Later, Tree!side
  <2>c. CASE pending' = pending \ {w} /\ UNCHANGED <<groups, address, selectedGroup>>
    BY <1>f, <2>0, <2>c, TreeAnswerKept, KeptHidden
  <2>3. SUFFICES ASSUME Tree!WithEffect(address, gs, selectedGroup, pending \ {w})
                 PROVE  TreeInv'
    BY <2>0, <2>c
  <2>4. \A v \in pending \ {w} : Chose(v) BY DEF TreeInv
  <2>5. /\ Hidden(groups)' /\ address' \in Groups \cup {None}
        /\ selectedGroup' \in Selection
        /\ Tree!SelectedFollowsUrl' /\ \A v \in pending' : Chose(v)
    BY <1>f, <2>0, <2>2, <2>3, <2>4, TreeEffectKept
  <2>7. QED BY <1>f, <2>0, <2>5, KeptHidden DEF TreeInv
<1>4. CASE Tree!HideAnswer(w, ok)
  <2>1. PICK g : g = w.sel.id OBVIOUS
  <2>2. g \in Groups BY <1>4, <1>t, <2>1 DEF Tree!HideAnswer, Chose
  <2>3. PICK hid : hid = IF ok /\ g \in DOMAIN known THEN ~known[g] ELSE FALSE OBVIOUS
  <2>4. hid \in BOOLEAN BY <2>3
  <2>5. CASE ok
    <3>1. PICK gs : gs = IF g \in DOMAIN groups THEN [groups EXCEPT ![g] = hid] ELSE groups
      OBVIOUS
    <3>2. Hidden(gs) BY <1>f, <2>4, <3>1 DEF Hidden
    <3>3. /\ known' = [known EXCEPT ![g] = hid] /\ UNCHANGED <<systemUsers, form>>
          /\ Tree!WithEffect(address, gs, [id |-> g, hidden |-> hid],
               (pending \ {w}) \cup {[kind |-> "groups"]})
      BY <1>4, <2>1, <2>3, <2>5, <3>1 DEF Tree!HideAnswer, Tree!Later, Tree!side
    <3>4. Hidden(known)' BY <1>f, <2>4, <3>3 DEF Hidden
    <3>5. [id |-> g, hidden |-> hid] \in Selection BY <2>2, <2>4 DEF Selection
    <3>6. \A v \in (pending \ {w}) \cup {[kind |-> "groups"]} : Chose(v) BY <1>t, <1>g
    <3>7. /\ Hidden(groups)' /\ address' \in Groups \cup {None}
          /\ selectedGroup' \in Selection
          /\ Tree!SelectedFollowsUrl' /\ \A v \in pending' : Chose(v)
      BY <1>f, <3>2, <3>3, <3>5, <3>6, TreeEffectKept
    <3>9. QED BY <1>f, <3>3, <3>4, <3>7 DEF TreeInv
  <2>6. CASE ~ok
    <3>1. /\ UNCHANGED <<known, groups, address, selectedGroup, systemUsers, form>>
          /\ pending' = pending \ {w}
      BY <1>4, <2>6 DEF Tree!HideAnswer, Tree!Later, Tree!side
    <3>2. QED BY <1>f, <1>g, <3>1, TreeAnswerKept, KeptHidden
  <2>7. QED BY <2>5, <2>6
<1>5. CASE Tree!DeleteAnswer(w, ok)
  <2>1. /\ UNCHANGED <<groups, address, systemUsers, form>>
        /\ pending' \subseteq pending \cup {[kind |-> "groups"], Tree!Repos(None,
             w.archived)}
        /\ selectedGroup' \in {None, selectedGroup}
        /\ known' = IF ok THEN [h \in DOMAIN known \ Tree!Below(w.sel.id) |-> known[h]]
              ELSE known
    BY <1>5 DEF Tree!DeleteAnswer, Tree!Later, Tree!side
  <2>2. Hidden(known)' BY <1>f, <2>1 DEF Hidden
  <2>3. Tree!SelectedFollowsUrl' BY <1>t, <2>1 DEF Tree!SelectedFollowsUrl
  <2>5. QED BY <1>f, <1>g, <2>1, <2>2, <2>3 DEF TreeInv, Hidden, Selection
<1>6. CASE Tree!ImportAnswer(w, ok)
  <2>1. PICK g \in Groups : known' = IF ok THEN Tree!With(known, g, FALSE) ELSE known
    BY <1>6 DEF Tree!ImportAnswer
  <2>2. Hidden(known)' BY <1>f, <2>1 DEF Hidden, Tree!With
  <2>3. /\ UNCHANGED <<groups, address, selectedGroup, systemUsers>>
        /\ form' \in {None, form}
        /\ pending' \subseteq pending \cup {[kind |-> "groups"]}
    BY <1>6 DEF Tree!ImportAnswer, Tree!Later
  <2>5. Tree!SelectedFollowsUrl' BY <1>t, <2>3, StillFollows
  <2>6. QED BY <1>f, <1>g, <2>2, <2>3, <2>5 DEF TreeInv
<1>7. QED BY <1>1, <1>2, <1>3, <1>4, <1>5, <1>6

LEMMA TreeOthers == ASSUME Tree!Sensible, TreeInv, Tree!Others PROVE TreeInv'
<1>1. Hidden(known) BY DEF TreeInv
<1>2. PICK g \in Groups : \/ known' = [h \in DOMAIN known \ Tree!Below(g) |-> known[h]]
                          \/ known' = Tree!With(known, g, FALSE)
  BY DEF Tree!Others
<1>3. Hidden(known)' BY <1>1, <1>2 DEF Hidden, Tree!With
<1>4. UNCHANGED <<groups, address, selectedGroup, systemUsers, form, pending>>
  BY DEF Tree!Others
<1>5. QED BY <1>3, <1>4, TreeAnswerKept DEF TreeInv

LEMMA TreeKept == ASSUME Tree!Sensible, TreeInv, [Tree!Next]_(Tree!vars) PROVE TreeInv'
<1>1. CASE UNCHANGED Tree!vars
  BY <1>1, StillFollows DEF Tree!vars, TreeInv, Hidden
<1>2. CASE Tree!Next
  BY <1>2, TreeClick, TreeSend, TreeForm, TreeAnswer, TreeOthers DEF Tree!Next
<1>3. QED BY <1>1, <1>2

(* TypeOK of ManagedRepos: the lists, the selection and the form keep      *)
(* their shapes.                                                           *)
THEOREM TreeTypeCorrect == ASSUME Tree!Sensible PROVE Tree!Spec => []Tree!TypeOK
<1>1. Tree!Init => TreeInv BY InitTree
<1>2. TreeInv /\ [Tree!Next]_(Tree!vars) => TreeInv' BY TreeKept
<1>3. TreeInv => Tree!TypeOK BY DEF TreeInv, Tree!TypeOK, Hidden, Selection
<1>4. QED BY <1>1, <1>2, <1>3, PTL DEF Tree!Spec

(* SelectedFollowsUrl: while the page has a list, the group selected is    *)
(* the one of the address and in the list, whichever answers put back an   *)
(* older selection.                                                        *)
THEOREM SelectedFollowsUrlEver ==
  ASSUME Tree!Sensible PROVE Tree!Spec => []Tree!SelectedFollowsUrl
<1>1. Tree!Init => TreeInv BY InitTree
<1>2. TreeInv /\ [Tree!Next]_(Tree!vars) => TreeInv' BY TreeKept
<1>3. TreeInv => Tree!SelectedFollowsUrl BY DEF TreeInv
<1>4. QED BY <1>1, <1>2, <1>3, PTL DEF Tree!Spec

-----------------------------------------------------------------------------
(* The order of the tree *)

(* The operators of the tree's module are those of the theorems.           *)
LEMMA SameSets ==
  \A S : (Tree!IsFiniteSet(S) <=> IsFiniteSet(S)) /\ Tree!Cardinality(S) = Cardinality(S)
BY Zenon DEF Tree!IsFiniteSet, IsFiniteSet, Tree!Cardinality, Cardinality

(* A set with 0 and the successors of its numbers has all numbers.         *)
LEMMA UpFromZero ==
  ASSUME NEW P, 0 \in P, \A n \in Nat : n \in P => n + 1 \in P
  PROVE  Nat \subseteq P
<1> DEFINE T == Nat \ P
<1> SUFFICES ASSUME T # {} PROVE FALSE OBVIOUS
<1>1. IsWellFoundedOn(OpToRel(<, Nat), Nat) BY NatLessThanWellFounded
<1>2. T \subseteq Nat OBVIOUS
<1>3. PICK m \in T : \A y \in T : ~(<<y, m>> \in OpToRel(<, Nat)) BY <1>1, <1>2, WFMin
<1>4. \A y \in T : ~(y < m) BY <1>3 DEF OpToRel
<1>5. m \in Nat /\ m # 0 OBVIOUS
<1>6. m - 1 \in Nat /\ m - 1 < m /\ (m - 1) + 1 = m BY <1>5
<1>7. m - 1 \notin T BY <1>4, <1>6
<1>8. QED BY <1>6, <1>7

(* The sequence of a set by name is one of its elements without repetition. *)
LEMMA ByNameIs ==
  ASSUME NEW S \in SUBSET Nat, IsFiniteSet(S)
  PROVE  /\ Cardinality(S) \in Nat
         /\ Tree!ByName(S) \in [1..Cardinality(S) -> S]
         /\ \A i, j \in 1..Cardinality(S) : Tree!ByName(S)[i] = Tree!ByName(S)[j] => i = j
         /\ \A x \in S : \E i \in 1..Cardinality(S) : Tree!ByName(S)[i] = x
<1> DEFINE n == Cardinality(S)
           Upto(x) == {z \in S : z <= x}
           Place(x) == Cardinality(Upto(x))
           Sorted(s) == \A i, j \in DOMAIN s : i < j => s[i] < s[j]
<1>1. n \in Nat BY FS_CardinalityType
<1>2. ASSUME NEW x \in S PROVE IsFiniteSet(Upto(x)) /\ Place(x) \in 1..n
  <2>1. Upto(x) \in SUBSET S /\ x \in Upto(x) OBVIOUS
  <2>2. IsFiniteSet(Upto(x)) /\ Place(x) <= n BY <2>1, FS_Subset
  <2>3. Place(x) \in Nat BY <2>2, FS_CardinalityType
  <2>4. Place(x) # 0 BY <2>1, <2>2, FS_EmptySet
  <2>5. QED BY <1>1, <2>2, <2>3, <2>4
<1>3. ASSUME NEW x \in S, NEW y \in S, x < y PROVE Place(x) < Place(y)
  <2>1. x \in Nat /\ y \in Nat /\ S \subseteq Nat OBVIOUS
  <2>2. \A z \in S : z <= x => z <= y BY <1>3, <2>1
  <2>3. y <= y /\ ~(y <= x) BY <1>3, <2>1
  <2>4. Upto(x) \in SUBSET Upto(y) /\ y \in Upto(y) /\ y \notin Upto(x) BY <2>2, <2>3
  <2>5. Place(x) <= Place(y) /\ Place(y) # Place(x) BY <1>2, <2>4, FS_Subset
  <2>6. QED BY <1>1, <1>2, <2>5
<1> DEFINE f == [x \in S |-> Place(x)]
<1>4. f \in [S -> 1..n] /\ \A x \in S : f[x] = Place(x) BY <1>2
<1> HIDE DEF Place, n
<1>5. \A x, y \in S : f[x] = f[y] => x = y
  <2>1. TAKE x, y \in S
  <2>2. HAVE f[x] = f[y]
  <2>3. x \in Nat /\ y \in Nat OBVIOUS
  <2>4. Place(x) = Place(y) /\ Place(x) \in Nat BY <1>1, <1>4, <2>2
  <2>5. ~(x < y) /\ ~(y < x) BY <1>3, <2>4
  <2>6. QED BY <2>3, <2>5
<1> HIDE DEF f
<1>6. f \in Injection(S, 1..n) BY <1>4, <1>5 DEF Injection, IsInjective
<1>7. IsFiniteSet(1..n) /\ Cardinality(1..n) = n BY <1>1, FS_Interval
<1>8. f \in Surjection(S, 1..n) BY <1>6, <1>7, FS_Injection DEF n
<1>9. \A i \in 1..n : \E x \in S : f[x] = i BY <1>8 DEF Surjection
<1> DEFINE s == [i \in 1..n |-> CHOOSE x \in S : f[x] = i]
<1>10. s \in [1..n -> S] /\ \A i \in 1..n : f[s[i]] = i BY <1>9
<1> HIDE DEF s
<1>11. Sorted(s)
  <2>1. TAKE i, j \in DOMAIN s
  <2>2. HAVE i < j
  <2>3. i \in 1..n /\ j \in 1..n /\ i \in Nat /\ j \in Nat BY <1>1, <1>10
  <2>4. s[i] \in Nat /\ s[j] \in Nat /\ s[i] \in S /\ s[j] \in S BY <1>10, <2>3
  <2>5. Place(s[i]) = i /\ Place(s[j]) = j BY <1>4, <1>10, <2>3, <2>4
  <2>6. ~(s[j] < s[i]) BY <1>3, <2>2, <2>3, <2>4, <2>5
  <2>7. s[i] # s[j] BY <2>2, <2>3, <2>5
  <2>8. QED BY <2>4, <2>6, <2>7
<1> DEFINE b == Tree!ByName(S)
<1>12. b \in [1..n -> S] /\ Sorted(b) BY <1>10, <1>11, SameSets DEF Tree!ByName, n
<1> HIDE DEF b
<1>13. \A i, j \in 1..n : b[i] = b[j] => i = j
  <2>1. TAKE i, j \in 1..n
  <2>2. HAVE b[i] = b[j]
  <2>3. b[i] \in S BY <1>12
  <2>4. b[i] \in Nat BY <2>3
  <2>5. ~(b[i] < b[i]) BY <2>4
  <2>6. ~(i < j) /\ ~(j < i) BY <1>12, <2>2, <2>5
  <2>7. i \in Nat /\ j \in Nat BY <1>1
  <2>8. QED BY <2>6, <2>7
<1>14. b \in Injection(1..n, S) BY <1>12, <1>13 DEF Injection, IsInjective
<1>15. b \in Surjection(1..n, S) BY <1>7, <1>14, FS_Injection DEF n
<1>16. QED BY <1>1, <1>12, <1>13, <1>15 DEF Surjection, b, n

(* Flattening adds one sequence after the other.                           *)
LEMMA FlattenIs ==
  ASSUME NEW S, NEW n \in Nat, n # 0, NEW q \in [1..n -> Seq(S)]
  PROVE  \E p : /\ p[1] = q[1] /\ \A i \in 1..n : i # 1 => p[i] = p[i - 1] \o q[i]
                /\ Tree!FlattenSeq(q) = p[n]
<1> DEFINE Body(p, i) == IF i = 1 THEN q[i] ELSE p[i - 1] \o q[i]
           P == {m \in Nat : \E p : p = [i \in 1..m |-> p[i]] /\ \A i \in 1..m : p[i] = Body(p, i)}
<1>1. 0 \in P
  <2> DEFINE p == [i \in 1..0 |-> q]
  <2>1. p = [i \in 1..0 |-> p[i]] /\ \A i \in 1..0 : p[i] = Body(p, i) OBVIOUS
  <2> HIDE DEF p
  <2>2. QED BY <2>1
<1>2. ASSUME NEW m \in Nat, m \in P PROVE m + 1 \in P
  <2>1. PICK p : p = [i \in 1..m |-> p[i]] /\ \A i \in 1..m : p[i] = Body(p, i) BY <1>2
  <2> DEFINE r == [i \in 1..m + 1 |-> Body(p, i)]
  <2>2. \A i \in 1..m + 1 : r[i] = Body(p, i) OBVIOUS
  <2>3. r = [i \in 1..m + 1 |-> r[i]] OBVIOUS
  <2> HIDE DEF r
  <2>8. \A i \in 1..m : p[i] = Body(p, i) BY <2>1
  <2>4. \A i \in 1..m : r[i] = p[i]
    <3> HIDE DEF Body
    <3>1. \A i \in 1..m : i \in 1..m + 1 OBVIOUS
    <3>2. QED BY <2>2, <2>8, <3>1
  <2>5. \A i \in 1..m + 1 : i # 1 => i - 1 \in 1..m OBVIOUS
  <2>6. \A i \in 1..m + 1 : r[i] = Body(r, i) BY <2>2, <2>4, <2>5
  <2>7. m + 1 \in Nat OBVIOUS
  <2>9. QED
    <3> HIDE DEF Body
    <3>1. QED BY <2>3, <2>6, <2>7
<1>3. n \in P
  <2> HIDE DEF P
  <2>1. QED BY <1>1, <1>2, UpFromZero
<1>4. PICK p : p = [i \in 1..n |-> p[i]] /\ \A i \in 1..n : p[i] = Body(p, i) BY <1>3
<1>5. Len(q) = n OBVIOUS
<1>6. \E r : r = [i \in 1..Len(q) |-> IF i = 1 THEN q[i] ELSE r[i - 1] \o q[i]]
  <2>1. p = [i \in 1..n |-> Body(p, i)] BY <1>4
  <2>2. QED BY <1>5, <2>1
<1> DEFINE d == CHOOSE r : r = [i \in 1..Len(q) |-> IF i = 1 THEN q[i] ELSE r[i - 1] \o q[i]]
<1>7. d = [i \in 1..Len(q) |-> IF i = 1 THEN q[i] ELSE d[i - 1] \o q[i]]
  <2> HIDE <1>4, <1>5
  <2>1. QED BY <1>6
<1>8. Tree!FlattenSeq(q) = d[Len(q)] BY <1>5 DEF Tree!FlattenSeq
<1> HIDE DEF d
<1>9. \A i \in 1..n : d[i] = Body(d, i) BY <1>5, <1>7
<1>10. 1 \in 1..n OBVIOUS
<1>11. QED BY <1>5, <1>8, <1>9, <1>10

(* A group and the groups above it.                                        *)
Line(g) == {g} \cup Tree!Ancestors[g]
Deep(depth) ==
  /\ depth \in [Groups -> 1..Cardinality(Groups)]
  /\ \A g \in Groups : Parent[g] # None => depth[Parent[g]] < depth[g]

LEMMA ForestIs == ASSUME Tree!Forest PROVE Cardinality(Groups) \in Nat /\ \E depth : Deep(depth)
BY FS_CardinalityType, SameSets DEF Tree!Forest, Deep

(* The recursive function has values: P is the depths down to which it has. *)
LEMMA AncestorsIs ==
  ASSUME None \notin Groups, Tree!Forest, NEW g \in Groups
  PROVE  Tree!Ancestors[g] = IF Parent[g] = None THEN {} ELSE {Parent[g]} \cup Tree!Ancestors[Parent[g]]
<1>1. PICK depth : Deep(depth) BY ForestIs
<1> DEFINE n == Cardinality(Groups)
           Body(f, x) == IF Parent[x] = None THEN {} ELSE {Parent[x]} \cup f[Parent[x]]
           Above(m) == {x \in Groups : depth[x] <= m}
           P == {m \in Nat : \E f : f = [x \in Above(m) |-> f[x]]
                                    /\ \A x \in Above(m) : f[x] = Body(f, x)}
<1>2. n \in Nat /\ \A x \in Groups : depth[x] \in 1..n BY <1>1, ForestIs DEF Deep
<1>3. Parent \in [Groups -> Groups \cup {None}] BY DEF Tree!Forest
<1> HIDE DEF n
<1>4. 0 \in P
  <2>1. Above(0) = {} BY <1>2
  <2> DEFINE f == [x \in {} |-> {}]
  <2>2. f = [x \in Above(0) |-> f[x]] /\ \A x \in Above(0) : f[x] = Body(f, x) BY <2>1
  <2> HIDE DEF f
  <2>3. QED BY <2>2
<1>5. ASSUME NEW m \in Nat, m \in P PROVE m + 1 \in P
  <2>1. PICK f : f = [x \in Above(m) |-> f[x]] /\ \A x \in Above(m) : f[x] = Body(f, x)
    BY <1>5
  <2> DEFINE h == [x \in Above(m + 1) |-> Body(f, x)]
  <2>2. h = [x \in Above(m + 1) |-> h[x]] OBVIOUS
  <2>3. \A x \in Above(m + 1) : h[x] = Body(f, x) OBVIOUS
  <2>4. \A x \in Above(m) : x \in Above(m + 1) BY <1>2
  <2>5. \A x \in Above(m) : f[x] = Body(f, x) BY <2>1
  <2> HIDE DEF h
  <2>6. \A x \in Above(m) : h[x] = f[x]
    <3> HIDE DEF Body, Above
    <3>1. QED BY <2>3, <2>4, <2>5
  <2>7. \A x \in Above(m + 1) : Parent[x] # None => Parent[x] \in Above(m)
    <3>1. TAKE x \in Above(m + 1)
    <3>2. HAVE Parent[x] # None
    <3>3. Parent[x] \in Groups /\ depth[Parent[x]] < depth[x] BY <1>1, <1>3, <3>2 DEF Deep
    <3>4. depth[x] \in Nat /\ depth[Parent[x]] \in Nat BY <1>2, <3>3
    <3>5. QED BY <3>3, <3>4
  <2>8. \A x \in Above(m + 1) : h[x] = Body(h, x)
    <3> HIDE DEF Above
    <3>1. QED BY <2>3, <2>6, <2>7
  <2>9. m + 1 \in Nat OBVIOUS
  <2>10. QED
    <3> HIDE DEF Body, Above
    <3>1. QED BY <2>2, <2>8, <2>9
<1>6. n \in P
  <2> HIDE DEF P
  <2>1. QED BY <1>2, <1>4, <1>5, UpFromZero
<1>7. Above(n) = Groups BY <1>2
<1>8. \E f : f = [x \in Groups |-> Body(f, x)]
  <2>1. PICK f : f = [x \in Above(n) |-> f[x]] /\ \A x \in Above(n) : f[x] = Body(f, x) BY <1>6
  <2> HIDE DEF Above
  <2>2. f = [x \in Groups |-> f[x]] /\ \A x \in Groups : f[x] = Body(f, x) BY <1>7, <2>1
  <2>3. QED BY <2>2
<1>9. Tree!Ancestors = [x \in Groups |-> Body(Tree!Ancestors, x)] BY <1>8 DEF Tree!Ancestors
<1>10. QED BY <1>9

(* A line ends at a root, each group of it less deep than the one below.   *)
LEMMA LineIs ==
  ASSUME None \notin Groups, Tree!Forest, NEW depth, Deep(depth), NEW g \in Groups
  PROVE  /\ Parent[g] # None => Line(g) = {g} \cup Line(Parent[g])
         /\ \A x \in Line(g) : x \in Groups /\ depth[x] <= depth[g] /\ (depth[x] = depth[g] => x = g)
<1> DEFINE n == Cardinality(Groups)
           Fine(h) == \A x \in Line(h) : x \in Groups /\ depth[x] <= depth[h]
                                           /\ (depth[x] = depth[h] => x = h)
           P == {m \in Nat : \A h \in Groups : depth[h] <= m => Fine(h)}
<1>1. n \in Nat /\ \A x \in Groups : depth[x] \in 1..n BY ForestIs DEF Deep
<1> HIDE DEF n
<1>2. Parent \in [Groups -> Groups \cup {None}] BY DEF Tree!Forest
<1>3. \A h \in Groups : Line(h) = {h} \cup (IF Parent[h] = None THEN {} ELSE Line(Parent[h]))
  BY AncestorsIs DEF Line
<1>4. 0 \in P BY <1>1
<1>5. ASSUME NEW m \in Nat, m \in P PROVE m + 1 \in P
  <2>1. ASSUME NEW h \in Groups, depth[h] <= m + 1, NEW x \in Line(h)
        PROVE  x \in Groups /\ depth[x] <= depth[h] /\ (depth[x] = depth[h] => x = h)
    <3>0. depth[h] \in Nat BY <1>1
    <3>1. CASE x = h BY <3>0, <3>1
    <3>2. CASE x # h
      <4>1. Parent[h] \in Groups /\ Parent[h] # None /\ x \in Line(Parent[h])
        BY <1>2, <1>3, <2>1, <3>2
      <4>2. depth[Parent[h]] < depth[h] /\ depth[Parent[h]] \in Nat
        BY <1>1, <4>1 DEF Deep
      <4>3. depth[Parent[h]] <= m BY <2>1, <3>0, <4>2
      <4>4. Fine(Parent[h])
        <5> HIDE DEF Fine
        <5>1. QED BY <1>5, <4>1, <4>3
      <4>5. x \in Groups /\ depth[x] <= depth[Parent[h]] BY <4>1, <4>4
      <4>6. depth[x] \in Nat BY <1>1, <4>5
      <4>7. QED BY <3>0, <4>2, <4>5, <4>6
    <3>3. QED BY <3>1, <3>2
  <2>2. m + 1 \in Nat OBVIOUS
  <2>3. QED BY <2>1, <2>2
<1>6. n \in P
  <2> HIDE DEF P
  <2>1. QED BY <1>1, <1>4, <1>5, UpFromZero
<1>7. Fine(g)
  <2>1. depth[g] <= n BY <1>1
  <2> HIDE DEF Fine
  <2>2. QED BY <1>6, <2>1
<1>8. QED BY <1>3, <1>7

(* The groups of gs that are g or below it without a gap in gs.            *)
ClosedBelow(A, gs) == \A h \in gs : Parent[h] \in A => h \in A
Under(g, gs) == {h \in gs : \A A \in SUBSET gs : g \in A /\ ClosedBelow(A, gs) => h \in A}
(* Groups none of which is below another's parent.                         *)
Peers(hs, gs) == hs \subseteq gs /\ \A c, d \in hs : Parent[c] \notin Under(d, gs)

(* Under(g) is the least closed set with g, and all of it but g has its    *)
(* parent in it.                                                           *)
LEMMA UnderIs ==
  ASSUME NEW gs, NEW g \in gs
  PROVE  /\ g \in Under(g, gs) /\ Under(g, gs) \subseteq gs /\ ClosedBelow(Under(g, gs), gs)
         /\ \A A \in SUBSET gs : g \in A /\ ClosedBelow(A, gs) => Under(g, gs) \subseteq A
         /\ \A h \in Under(g, gs) : h = g \/ Parent[h] \in Under(g, gs)
<1>1. g \in Under(g, gs) /\ Under(g, gs) \subseteq gs BY DEF Under
<1>2. \A A \in SUBSET gs : g \in A /\ ClosedBelow(A, gs) => Under(g, gs) \subseteq A BY DEF Under
<1>3. ClosedBelow(Under(g, gs), gs)
  <2>1. ASSUME NEW h \in gs, Parent[h] \in Under(g, gs), NEW A \in SUBSET gs, g \in A,
               ClosedBelow(A, gs)
        PROVE  h \in A
    <3>1. Parent[h] \in A BY <1>2, <2>1
    <3>2. QED BY <2>1, <3>1 DEF ClosedBelow
  <2>2. QED BY <2>1 DEF ClosedBelow, Under
<1> DEFINE A == {h \in Under(g, gs) : h = g \/ Parent[h] \in Under(g, gs)}
<1>4. A \in SUBSET gs /\ g \in A BY <1>1
<1>5. ClosedBelow(A, gs) BY <1>3 DEF ClosedBelow
<1>6. Under(g, gs) \subseteq A BY <1>2, <1>4, <1>5
<1>7. QED BY <1>1, <1>2, <1>3, <1>6

LEMMA UnderLine ==
  ASSUME None \notin Groups, Tree!Forest, NEW gs \in SUBSET Groups, NEW g \in gs
  PROVE  \A h \in Under(g, gs) : g \in Line(h)
<1>1. PICK depth : Deep(depth) BY ForestIs
<1> DEFINE A == {h \in gs : g \in Line(h)}
<1>2. A \in SUBSET gs /\ g \in A BY DEF Line
<1>3. ClosedBelow(A, gs)
  <2>1. ASSUME NEW h \in gs, Parent[h] \in A PROVE g \in Line(h)
    <3>1. h \in Groups /\ Parent[h] # None BY <2>1
    <3>2. QED BY <1>1, <2>1, <3>1, LineIs
  <2>2. QED BY <2>1 DEF ClosedBelow
<1>4. QED BY <1>2, <1>3, UnderIs

(* What is under two peers is disjoint.                                    *)
LEMMA PeersApart ==
  ASSUME NEW gs, NEW hs, Peers(hs, gs), NEW c \in hs, NEW d \in hs, c # d
  PROVE  Under(c, gs) \cap Under(d, gs) = {}
<1>1. c \in gs /\ d \in gs BY DEF Peers
<1>2. c \notin Under(d, gs) BY <1>1, UnderIs DEF Peers
<1> DEFINE A == Under(c, gs) \ Under(d, gs)
<1>3. A \in SUBSET gs /\ c \in A BY <1>1, <1>2, UnderIs
<1>4. ClosedBelow(A, gs)
  <2>1. ASSUME NEW h \in gs, Parent[h] \in A PROVE h \in A
    <3>1. h \in Under(c, gs) BY <1>1, <2>1, UnderIs DEF ClosedBelow
    <3>2. h \notin Under(d, gs)
      <4>1. ASSUME h \in Under(d, gs) PROVE FALSE
        <5>1. h = d BY <1>1, <2>1, <4>1, UnderIs
        <5>2. QED BY <2>1, <5>1 DEF Peers
      <4>2. QED BY <4>1
    <3>3. QED BY <3>1, <3>2
  <2>2. QED BY <2>1 DEF ClosedBelow
<1>5. Under(c, gs) \subseteq A BY <1>1, <1>3, <1>4, UnderIs
<1>6. QED BY <1>5

(* Under a group are the group and, apart from one another, what is under  *)
(* each of its children.                                                   *)
LEMMA ChildrenAre ==
  ASSUME None \notin Groups, Tree!Forest, NEW gs \in SUBSET Groups, NEW g \in gs
  PROVE  /\ Peers(Tree!Children(g, gs), gs) /\ Parent[g] \notin Under(g, gs)
         /\ Under(g, gs) = {g} \cup UNION {Under(c, gs) : c \in Tree!Children(g, gs)}
         /\ g \notin UNION {Under(c, gs) : c \in Tree!Children(g, gs)}
<1>1. PICK depth : Deep(depth) BY ForestIs
<1>2. \A x \in gs : x \in Groups OBVIOUS
<1>3. \A x \in Groups : depth[x] \in Nat BY <1>1, ForestIs DEF Deep
<1>4. ASSUME NEW c \in gs, NEW d \in gs, c \in Under(d, gs) PROVE depth[d] <= depth[c]
  <2>1. d \in Line(c) BY <1>4, UnderLine
  <2>2. QED BY <1>1, <1>2, <2>1, LineIs
<1>5. ASSUME NEW c \in Tree!Children(g, gs)
      PROVE  c \in gs /\ Parent[c] = g /\ depth[g] < depth[c] /\ g \notin Under(c, gs)
  <2>1. c \in gs /\ Parent[c] = g /\ depth[g] < depth[c] BY <1>1, <1>2 DEF Tree!Children, Deep
  <2>2. ~(depth[c] <= depth[g]) BY <1>2, <1>3, <2>1
  <2>3. QED BY <1>4, <2>1, <2>2
<1>6. Peers(Tree!Children(g, gs), gs)
  <2>1. Tree!Children(g, gs) \subseteq gs BY DEF Tree!Children
  <2>2. QED BY <1>5, <2>1 DEF Peers
<1>7. Parent[g] \notin Under(g, gs)
  <2>1. ASSUME Parent[g] \in Under(g, gs) PROVE FALSE
    <3>1. Parent[g] \in gs /\ Parent[g] \in Groups /\ Parent[g] # None BY <2>1, UnderIs
    <3>2. depth[Parent[g]] < depth[g] BY <1>1, <1>2, <3>1 DEF Deep
    <3>3. depth[g] <= depth[Parent[g]] BY <1>4, <2>1, <3>1
    <3>4. QED BY <1>2, <1>3, <3>1, <3>2, <3>3
  <2>2. QED BY <2>1
<1> DEFINE A == {g} \cup UNION {Under(c, gs) : c \in Tree!Children(g, gs)}
<1>8. A \in SUBSET gs BY <1>5, UnderIs
<1>9. ClosedBelow(A, gs)
  <2>1. ASSUME NEW h \in gs, Parent[h] \in A PROVE h \in A
    <3>1. CASE Parent[h] = g
      <4>1. h \in Tree!Children(g, gs) BY <3>1 DEF Tree!Children
      <4>2. h \in Under(h, gs) BY UnderIs
      <4>3. QED BY <4>1, <4>2
    <3>2. CASE Parent[h] # g
      <4>1. PICK c \in Tree!Children(g, gs) : Parent[h] \in Under(c, gs) BY <2>1, <3>2
      <4>2. h \in Under(c, gs) BY <1>5, <4>1, UnderIs DEF ClosedBelow
      <4>3. QED BY <4>1, <4>2
    <3>3. QED BY <3>1, <3>2
  <2>2. QED BY <2>1 DEF ClosedBelow
<1>10. Under(g, gs) \subseteq A BY <1>8, <1>9, UnderIs
<1>11. ASSUME NEW c \in Tree!Children(g, gs) PROVE Under(c, gs) \subseteq Under(g, gs)
  <2>1. c \in Under(g, gs) BY <1>5, UnderIs DEF ClosedBelow
  <2>2. Under(g, gs) \in SUBSET gs /\ ClosedBelow(Under(g, gs), gs) BY UnderIs
  <2>3. QED BY <1>5, <2>1, <2>2, UnderIs
<1>12. A \subseteq Under(g, gs) BY <1>11, UnderIs
<1>13. QED BY <1>5, <1>6, <1>7, <1>10, <1>12

(* Every group of a list is under a root of the list.                      *)
LEMMA RootsAre ==
  ASSUME None \notin Groups, Tree!Forest, NEW gs \in SUBSET Groups
  PROVE  Peers(Tree!Roots(gs), gs) /\ gs = UNION {Under(c, gs) : c \in Tree!Roots(gs)}
<1>1. PICK depth : Deep(depth) BY ForestIs
<1>2. Cardinality(Groups) \in Nat /\ \A x \in gs : x \in Groups /\ depth[x] \in Nat
  BY <1>1, ForestIs DEF Deep
<1> DEFINE U == UNION {Under(c, gs) : c \in Tree!Roots(gs)}
           P == {m \in Nat : \A h \in gs : depth[h] <= m => h \in U}
<1>3. Peers(Tree!Roots(gs), gs)
  <2>1. \A c \in Tree!Roots(gs) : c \in gs /\ Parent[c] \notin gs BY DEF Tree!Roots
  <2>2. \A d \in Tree!Roots(gs) : Under(d, gs) \subseteq gs BY <2>1, UnderIs
  <2>3. QED BY <2>1, <2>2 DEF Peers
<1>4. U \subseteq gs BY UnderIs DEF Tree!Roots
<1>5. 0 \in P
  <2>1. \A h \in gs : ~(depth[h] <= 0) BY <1>1, <1>2 DEF Deep
  <2>2. QED BY <2>1
<1>6. ASSUME NEW m \in Nat, m \in P PROVE m + 1 \in P
  <2>1. ASSUME NEW h \in gs, depth[h] <= m + 1 PROVE h \in U
    <3>1. CASE Parent[h] \notin gs
      <4>1. h \in Tree!Roots(gs) /\ h \in Under(h, gs) BY <3>1, UnderIs DEF Tree!Roots
      <4>2. QED BY <4>1
    <3>2. CASE Parent[h] \in gs
      <4>1. Parent[h] # None /\ depth[Parent[h]] < depth[h] BY <1>1, <1>2, <3>2 DEF Deep
      <4>2. depth[Parent[h]] <= m BY <1>2, <2>1, <3>2, <4>1
      <4>3. Parent[h] \in U
        <5> HIDE DEF U
        <5>1. QED BY <1>6, <3>2, <4>2
      <4>4. PICK c \in Tree!Roots(gs) : Parent[h] \in Under(c, gs) BY <4>3
      <4>5. c \in gs BY DEF Tree!Roots
      <4>6. h \in Under(c, gs) BY <4>4, <4>5, UnderIs DEF ClosedBelow
      <4>7. QED BY <4>4, <4>6
    <3>3. QED BY <3>1, <3>2
  <2>2. m + 1 \in Nat OBVIOUS
  <2> HIDE DEF U
  <2>3. QED BY <2>1, <2>2
<1>7. Cardinality(Groups) \in P
  <2> HIDE DEF P
  <2>1. QED BY <1>2, <1>5, <1>6, UpFromZero
<1>8. gs \subseteq U
  <2>1. \A h \in gs : depth[h] <= Cardinality(Groups) BY <1>1, <1>2 DEF Deep
  <2> HIDE DEF U
  <2>2. QED BY <1>7, <2>1
<1>9. QED BY <1>3, <1>4, <1>8

(* A sequence of the groups of X, each once, in which a group comes after  *)
(* its parent, if that is of X, and only groups below the parent between.  *)
After(s, k, i) == s[i] = Parent[s[k]] /\ \A j \in i..k : Parent[s[k]] \in Line(s[j])
Laid(s, X) ==
  /\ s \in Seq(X) /\ \A i, j \in 1..Len(s) : s[i] = s[j] => i = j
  /\ \A x \in X : \E i \in 1..Len(s) : s[i] = x
  /\ \A k \in 1..Len(s) : Parent[s[k]] \in X => \E i \in 1..k - 1 : After(s, k, i)

(* Two sequences one after the other, and a group before those below it.   *)
LEMMA LaidJoined ==
  ASSUME NEW gs, NEW X \in SUBSET gs, NEW Y \in SUBSET gs, X \cap Y = {},
         ClosedBelow(X, gs), ClosedBelow(Y, gs), NEW s, NEW t, Laid(s, X), Laid(t, Y)
  PROVE  Laid(s \o t, X \cup Y)
<1> DEFINE r == s \o t
           n == Len(s)
           m == Len(t)
<1>1. s \in Seq(X) /\ t \in Seq(Y) BY DEF Laid
<1>2. n \in Nat /\ m \in Nat /\ r \in Seq(X \cup Y) /\ Len(r) = n + m BY <1>1
<1>3. \A i \in 1..n : r[i] = s[i] /\ s[i] \in X BY <1>1
<1>4. \A i \in 1..m : r[n + i] = t[i] /\ t[i] \in Y BY <1>1
<1> HIDE DEF r, n, m
<1>5. \A i \in 1..n + m : i \in 1..n \/ \E j \in 1..m : i = n + j
  <2>1. TAKE i \in 1..n + m
  <2>2. CASE i > n
    <3>1. i - n \in 1..m /\ i = n + (i - n) BY <1>2, <2>2
    <3>2. QED BY <3>1
  <2>3. CASE ~(i > n) BY <1>2, <2>3
  <2>4. QED BY <2>2, <2>3
<1>6. \A i, j \in 1..n + m : r[i] = r[j] => i = j
  <2>1. \A i, j \in 1..n : s[i] = s[j] => i = j BY DEF Laid, n
  <2>2. \A i, j \in 1..m : t[i] = t[j] => i = j BY DEF Laid, m
  <2>3. \A i \in 1..n, j \in 1..m : r[i] # r[n + j] BY <1>3, <1>4
  <2>4. ASSUME NEW i \in 1..n + m, NEW j \in 1..n + m, r[i] = r[j] PROVE i = j
    <3>1. CASE i \in 1..n /\ j \in 1..n BY <1>3, <2>1, <2>4, <3>1
    <3>2. CASE i \in 1..n /\ \E k \in 1..m : j = n + k BY <2>3, <2>4, <3>2
    <3>3. CASE (\E k \in 1..m : i = n + k) /\ j \in 1..n BY <2>3, <2>4, <3>3
    <3>4. CASE (\E k \in 1..m : i = n + k) /\ \E k \in 1..m : j = n + k
      <4>1. PICK k \in 1..m, l \in 1..m : i = n + k /\ j = n + l BY <3>4
      <4>2. t[k] = t[l] BY <1>4, <2>4, <4>1
      <4>3. QED BY <2>2, <4>1, <4>2
    <3>5. QED BY <1>5, <3>1, <3>2, <3>3, <3>4
  <2>5. QED BY <2>4
<1>7. \A x \in X \cup Y : \E i \in 1..n + m : r[i] = x
  <2>1. ASSUME NEW x \in X PROVE \E i \in 1..n + m : r[i] = x
    <3>1. PICK i \in 1..n : s[i] = x BY DEF Laid, n
    <3>2. i \in 1..n + m BY <1>2
    <3>3. QED BY <1>3, <3>1, <3>2
  <2>2. ASSUME NEW x \in Y PROVE \E i \in 1..n + m : r[i] = x
    <3>1. PICK i \in 1..m : t[i] = x BY DEF Laid, m
    <3>2. n + i \in 1..n + m BY <1>2
    <3>3. QED BY <1>4, <3>1, <3>2
  <2>3. QED BY <2>1, <2>2
<1>8. ASSUME NEW k \in 1..n, Parent[r[k]] \in X \cup Y PROVE \E i \in 1..k - 1 : After(r, k, i)
  <2>1. r[k] = s[k] /\ s[k] \in X /\ s[k] \in gs /\ s[k] \notin Y BY <1>3
  <2>2. Parent[s[k]] \in X BY <1>8, <2>1 DEF ClosedBelow
  <2>3. PICK i \in 1..k - 1 : After(s, k, i) BY <2>2 DEF Laid, n
  <2>4. \A j \in i..k : j \in 1..n BY <1>2
  <2>5. i \in i..k BY <1>2
  <2>6. \A j \in i..k : r[j] = s[j] BY <1>3, <2>4
  <2>7. After(r, k, i) BY <2>1, <2>3, <2>5, <2>6 DEF After
  <2>8. QED BY <2>7
<1>9. ASSUME NEW k \in 1..m, Parent[r[n + k]] \in X \cup Y
      PROVE  \E i \in 1..n + k - 1 : After(r, n + k, i)
  <2>1. r[n + k] = t[k] /\ t[k] \in Y /\ t[k] \in gs /\ t[k] \notin X BY <1>4
  <2>2. Parent[t[k]] \in Y BY <1>9, <2>1 DEF ClosedBelow
  <2>3. PICK i \in 1..k - 1 : After(t, k, i) BY <2>2 DEF Laid, m
  <2>4. n + i \in 1..n + k - 1 /\ i \in 1..m BY <1>2
  <2>5. r[n + i] = t[i] BY <1>4, <2>4
  <2>6. ASSUME NEW j \in n + i..n + k PROVE Parent[t[k]] \in Line(r[j])
    <3>1. j - n \in i..k /\ j - n \in 1..m /\ j = n + (j - n) BY <1>2
    <3>2. r[j] = t[j - n] BY <1>4, <3>1
    <3>3. Parent[t[k]] \in Line(t[j - n]) BY <2>3, <3>1 DEF After
    <3>4. QED BY <3>2, <3>3
  <2>7. r[n + i] = Parent[r[n + k]] BY <2>1, <2>3, <2>5 DEF After
  <2>8. After(r, n + k, n + i) BY <2>1, <2>6, <2>7 DEF After
  <2>9. QED BY <2>4, <2>8
<1>10. \A k \in 1..n + m : Parent[r[k]] \in X \cup Y => \E i \in 1..k - 1 : After(r, k, i)
  <2>1. TAKE k \in 1..n + m
  <2>2. CASE k \in 1..n BY <1>8, <2>2
  <2>3. CASE k \notin 1..n
    <3>1. PICK j \in 1..m : k = n + j BY <1>5, <2>3
    <3>2. HAVE Parent[r[k]] \in X \cup Y
    <3>3. PICK i \in 1..n + j - 1 : After(r, n + j, i) BY <1>9, <3>1, <3>2
    <3>4. After(r, k, i) BY <3>1, <3>3, Zenon
    <3>5. i \in 1..k - 1 BY <1>2, <3>1
    <3>6. QED BY <3>4, <3>5
  <2>4. QED BY <2>2, <2>3
<1>11. QED BY <1>2, <1>6, <1>7, <1>10 DEF Laid, r

LEMMA LaidBefore ==
  ASSUME NEW Y, NEW g, g \notin Y, NEW t, Laid(t, Y),
         Parent[g] \notin {g} \cup Y, \A y \in Y : g \in Line(y)
  PROVE  Laid(<<g>> \o t, {g} \cup Y)
<1> DEFINE r == <<g>> \o t
           m == Len(t)
<1>1. t \in Seq(Y) BY DEF Laid
<1>2. m \in Nat /\ r \in Seq({g} \cup Y) /\ Len(r) = 1 + m BY <1>1
<1>3. r[1] = g BY <1>1
<1>4. \A i \in 1..m : r[1 + i] = t[i] /\ t[i] \in Y BY <1>1
<1> HIDE DEF r, m
<1>5. \A i \in 1..1 + m : i = 1 \/ \E j \in 1..m : i = 1 + j
  <2>1. TAKE i \in 1..1 + m
  <2>2. CASE i # 1
    <3>1. i - 1 \in 1..m /\ i = 1 + (i - 1) BY <1>2, <2>2
    <3>2. QED BY <3>1
  <2>3. QED BY <2>2
<1>6. \A i, j \in 1..1 + m : r[i] = r[j] => i = j
  <2>1. \A i, j \in 1..m : t[i] = t[j] => i = j BY DEF Laid, m
  <2>2. \A j \in 1..m : r[1] # r[1 + j] BY <1>3, <1>4
  <2>3. ASSUME NEW i \in 1..1 + m, NEW j \in 1..1 + m, r[i] = r[j] PROVE i = j
    <3>1. CASE i = 1 \/ j = 1 BY <1>5, <2>2, <2>3, <3>1
    <3>2. CASE i # 1 /\ j # 1
      <4>1. PICK k \in 1..m, l \in 1..m : i = 1 + k /\ j = 1 + l BY <1>5, <3>2
      <4>2. t[k] = t[l] BY <1>4, <2>3, <4>1
      <4>3. QED BY <2>1, <4>1, <4>2
    <3>3. QED BY <3>1, <3>2
  <2>4. QED BY <2>3
<1>7. \A x \in {g} \cup Y : \E i \in 1..1 + m : r[i] = x
  <2>1. ASSUME NEW x \in Y PROVE \E i \in 1..1 + m : r[i] = x
    <3>1. PICK i \in 1..m : t[i] = x BY DEF Laid, m
    <3>2. 1 + i \in 1..1 + m BY <1>2
    <3>3. QED BY <1>4, <3>1, <3>2
  <2>2. 1 \in 1..1 + m BY <1>2
  <2>3. QED BY <1>3, <2>1, <2>2
<1>8. ASSUME NEW k \in 1..m, Parent[r[1 + k]] \in {g} \cup Y
      PROVE  \E i \in 1..1 + k - 1 : After(r, 1 + k, i)
  <2>1. r[1 + k] = t[k] /\ t[k] \in Y BY <1>4
  <2>2. CASE Parent[t[k]] = g
    <3>1. \A j \in 1..1 + k : j \in 1..1 + m BY <1>2
    <3>2. \A j \in 1..1 + m : r[j] \in {g} \cup Y BY <1>3, <1>4, <1>5
    <3>3. \A j \in 1..1 + m : g \in Line(r[j]) BY <3>2 DEF Line
    <3>4. After(r, 1 + k, 1) BY <1>3, <2>1, <2>2, <3>1, <3>3 DEF After
    <3>5. 1 \in 1..1 + k - 1 BY <1>2
    <3>6. QED BY <3>4, <3>5
  <2>3. CASE Parent[t[k]] \in Y
    <3>1. PICK i \in 1..k - 1 : After(t, k, i) BY <2>3 DEF Laid, m
    <3>2. 1 + i \in 1..1 + k - 1 /\ i \in 1..m BY <1>2
    <3>3. r[1 + i] = t[i] BY <1>4, <3>2
    <3>4. ASSUME NEW j \in 1 + i..1 + k PROVE Parent[t[k]] \in Line(r[j])
      <4>1. j - 1 \in i..k /\ j - 1 \in 1..m /\ j = 1 + (j - 1) BY <1>2
      <4>2. r[j] = t[j - 1] BY <1>4, <4>1
      <4>3. Parent[t[k]] \in Line(t[j - 1]) BY <3>1, <4>1 DEF After
      <4>4. QED BY <4>2, <4>3
    <3>5. r[1 + i] = Parent[r[1 + k]] BY <2>1, <3>1, <3>3 DEF After
    <3>6. After(r, 1 + k, 1 + i) BY <2>1, <3>4, <3>5 DEF After
    <3>7. QED BY <3>2, <3>6
  <2>4. QED BY <1>8, <2>1, <2>2, <2>3
<1>9. \A k \in 1..1 + m : Parent[r[k]] \in {g} \cup Y => \E i \in 1..k - 1 : After(r, k, i)
  BY <1>3, <1>5, <1>8
<1>10. QED BY <1>2, <1>6, <1>7, <1>9 DEF Laid, r

LEMMA FiniteGroups ==
  ASSUME Tree!Forest, NEW hs \in SUBSET Groups
  PROVE  hs \in SUBSET Nat /\ IsFiniteSet(hs)
BY FS_Subset, SameSets DEF Tree!Forest

LEMMA ForEachSame ==
  ASSUME Tree!Forest, NEW hs \in SUBSET Groups, NEW f, NEW h, \A x \in hs : f[x] = h[x]
  PROVE  Tree!ForEach(f, hs) = Tree!ForEach(h, hs)
<1>1. Tree!ByName(hs) \in [1..Cardinality(hs) -> hs] BY FiniteGroups, ByNameIs
<1>2. \A i \in 1..Cardinality(hs) : f[Tree!ByName(hs)[i]] = h[Tree!ByName(hs)[i]] BY <1>1
<1>3. QED BY <1>2, SameSets DEF Tree!ForEach

(* If the search lays out what is under each of some peers, it lays out    *)
(* all of it.                                                              *)
LEMMA ForEachLaid ==
  ASSUME None \notin Groups, Tree!Forest, NEW gs \in SUBSET Groups, NEW hs, Peers(hs, gs),
         NEW f, \A c \in hs : Laid(f[c], Under(c, gs))
  PROVE  Laid(Tree!ForEach(f, hs), UNION {Under(c, gs) : c \in hs})
<1> DEFINE n == Cardinality(hs)
           b == Tree!ByName(hs)
           q == [i \in 1..n |-> f[b[i]]]
           All(m) == UNION {Under(b[i], gs) : i \in 1..m}
<1>1. hs \in SUBSET gs /\ hs \in SUBSET Groups BY DEF Peers
<1>2. n \in Nat /\ b \in [1..n -> hs] BY <1>1, FiniteGroups, ByNameIs
<1>3. \A i, j \in 1..n : b[i] = b[j] => i = j BY <1>1, FiniteGroups, ByNameIs
<1>4. \A x \in hs : \E i \in 1..n : b[i] = x BY <1>1, FiniteGroups, ByNameIs
<1>5. Tree!ForEach(f, hs) = Tree!FlattenSeq(q) BY SameSets DEF Tree!ForEach
<1> HIDE DEF n, b
<1>6. \A i \in 1..n : /\ q[i] \in Seq(gs) /\ Laid(q[i], Under(b[i], gs))
                      /\ Under(b[i], gs) \in SUBSET gs /\ ClosedBelow(Under(b[i], gs), gs)
  <2>1. TAKE i \in 1..n
  <2>2. b[i] \in hs /\ b[i] \in gs /\ q[i] = f[b[i]] BY <1>1, <1>2
  <2>3. Laid(q[i], Under(b[i], gs)) BY <2>2
  <2>4. Under(b[i], gs) \in SUBSET gs /\ ClosedBelow(Under(b[i], gs), gs) BY <2>2, UnderIs
  <2>5. q[i] \in Seq(Under(b[i], gs)) BY <2>3 DEF Laid
  <2>6. q[i] \in Seq(gs) BY <2>4, <2>5
  <2>7. QED BY <2>3, <2>4, <2>6
<1>7. q \in [1..n -> Seq(gs)] BY <1>6
<1>8. UNION {Under(c, gs) : c \in hs} = All(n)
  <2>1. \A c \in hs : \E i \in 1..n : Under(c, gs) = Under(b[i], gs) BY <1>4
  <2>2. \A i \in 1..n : \E c \in hs : Under(c, gs) = Under(b[i], gs) BY <1>2
  <2>3. QED BY <2>1, <2>2
<1>9. CASE n = 0
  <2>1. hs = {} BY <1>4, <1>9
  <2>2. q = <<>> /\ Len(q) = 0 BY <1>9
  <2>3. Tree!FlattenSeq(q) = <<>> BY <2>2 DEF Tree!FlattenSeq
  <2>4. Laid(<<>>, {}) BY DEF Laid
  <2>5. QED BY <1>5, <2>1, <2>3, <2>4
<1>10. CASE n # 0
  <2> HIDE DEF q
  <2>1. PICK p : /\ p[1] = q[1] /\ \A i \in 1..n : i # 1 => p[i] = p[i - 1] \o q[i]
                 /\ Tree!FlattenSeq(q) = p[n]
    BY <1>2, <1>7, <1>10, FlattenIs
  <2> DEFINE P == {m \in Nat : m \in 1..n => Laid(p[m], All(m))}
  <2>2. 0 \in P OBVIOUS
  <2>3. ASSUME NEW m \in Nat, m \in P PROVE m + 1 \in P
    <3>1. SUFFICES ASSUME m + 1 \in 1..n PROVE Laid(p[m + 1], All(m + 1)) OBVIOUS
    <3>2. Laid(q[m + 1], Under(b[m + 1], gs)) BY <1>6, <3>1
    <3>3. CASE m = 0
      <4>1. All(m + 1) = Under(b[m + 1], gs)
        <5>1. 1..m + 1 = {m + 1} BY <3>3
        <5>2. QED BY <5>1
      <4>2. p[m + 1] = q[m + 1] BY <2>1, <3>3
      <4>3. QED BY <3>2, <4>1, <4>2
    <3>4. CASE m # 0
      <4>1. m \in 1..n /\ m + 1 # 1 /\ (m + 1) - 1 = m BY <1>2, <3>1, <3>4
      <4>2. Laid(p[m], All(m)) BY <2>3, <4>1
      <4>3. p[m + 1] = p[m] \o q[m + 1] BY <2>1, <3>1, <4>1
      <4>4. \A i \in 1..m : i \in 1..n /\ i # m + 1 BY <1>2, <3>1
      <4>5. All(m) \in SUBSET gs BY <1>6, <4>4
      <4>6. ClosedBelow(All(m), gs)
        <5>1. ASSUME NEW h \in gs, Parent[h] \in All(m) PROVE h \in All(m)
          <6>1. PICK i \in 1..m : Parent[h] \in Under(b[i], gs) BY <5>1
          <6>2. h \in Under(b[i], gs) BY <1>6, <4>4, <6>1 DEF ClosedBelow
          <6>3. QED BY <6>2
        <5>2. QED BY <5>1 DEF ClosedBelow
      <4>7. All(m) \cap Under(b[m + 1], gs) = {}
        <5>1. ASSUME NEW i \in 1..m PROVE Under(b[i], gs) \cap Under(b[m + 1], gs) = {}
          <6>1. b[i] \in hs /\ b[m + 1] \in hs /\ b[i] # b[m + 1]
            BY <1>2, <1>3, <3>1, <4>4
          <6>2. QED BY <6>1, PeersApart
        <5>2. QED BY <5>1
      <4>8. All(m + 1) = All(m) \cup Under(b[m + 1], gs)
        <5>1. 1..m + 1 = 1..m \cup {m + 1} OBVIOUS
        <5>2. QED BY <5>1
      <4> HIDE DEF All
      <4>9. Under(b[m + 1], gs) \in SUBSET gs /\ ClosedBelow(Under(b[m + 1], gs), gs)
        BY <1>6, <3>1
      <4>10. Laid(p[m] \o q[m + 1], All(m) \cup Under(b[m + 1], gs))
        BY <3>2, <4>2, <4>5, <4>6, <4>7, <4>9, LaidJoined
      <4>11. QED BY <4>3, <4>8, <4>10
    <3>5. QED BY <3>3, <3>4
  <2>4. n \in P
    <3> HIDE DEF P
    <3>1. QED BY <1>2, <2>2, <2>3, UpFromZero
  <2>5. n \in 1..n BY <1>2, <1>10
  <2>6. Laid(p[n], All(n))
    <3> HIDE DEF All
    <3>1. QED BY <2>4, <2>5
  <2>7. QED BY <1>5, <1>8, <2>1, <2>6
<1>11. QED BY <1>9, <1>10

(* What the search adds for a group.                                       *)
Dfs(f, g, gs) == <<g>> \o Tree!ForEach(f, Tree!Children(g, gs))

(* The recursive search has values: P is the heights up to which it has.   *)
LEMMA DfsIs ==
  ASSUME None \notin Groups, Tree!Forest, NEW gs \in SUBSET Groups
  PROVE  \E f : f = [g \in gs |-> Dfs(f, g, gs)] /\ Tree!SortGroupsAsTree(gs) = Tree!ForEach(f, Tree!Roots(gs))
<1>1. PICK depth : Deep(depth) BY ForestIs
<1> DEFINE n == Cardinality(Groups)
           Low(m) == {x \in gs : n < depth[x] + m}
           P == {m \in Nat : \E f : f = [x \in Low(m) |-> f[x]]
                                    /\ \A x \in Low(m) : f[x] = Dfs(f, x, gs)}
<1>2. n \in Nat /\ \A x \in gs : x \in Groups /\ depth[x] \in 1..n BY <1>1, ForestIs DEF Deep
<1> HIDE DEF n
<1>3. 0 \in P
  <2>1. Low(0) = {} BY <1>2
  <2> DEFINE f == [x \in {} |-> {}]
  <2>2. f = [x \in Low(0) |-> f[x]] /\ \A x \in Low(0) : f[x] = Dfs(f, x, gs) BY <2>1
  <2> HIDE DEF f
  <2>3. QED BY <2>2
<1>4. ASSUME NEW m \in Nat, m \in P PROVE m + 1 \in P
  <2>1. PICK f : f = [x \in Low(m) |-> f[x]] /\ \A x \in Low(m) : f[x] = Dfs(f, x, gs)
    BY <1>4
  <2> DEFINE h == [x \in Low(m + 1) |-> Dfs(f, x, gs)]
  <2>2. h = [x \in Low(m + 1) |-> h[x]] OBVIOUS
  <2>3. \A x \in Low(m + 1) : h[x] = Dfs(f, x, gs) OBVIOUS
  <2>4. \A x \in Low(m) : x \in Low(m + 1) BY <1>2
  <2>5. \A x \in Low(m) : f[x] = Dfs(f, x, gs) BY <2>1
  <2> HIDE DEF h
  <2>6. \A x \in Low(m) : h[x] = f[x]
    <3> HIDE DEF Low
    <3>1. QED BY <2>3, <2>4, <2>5
  <2>7. \A x \in Low(m + 1) : Tree!Children(x, gs) \subseteq Low(m)
    <3>1. ASSUME NEW x \in Low(m + 1), NEW c \in Tree!Children(x, gs) PROVE c \in Low(m)
      <4>1. c \in gs /\ Parent[c] = x /\ x \in gs BY DEF Tree!Children
      <4>2. depth[x] < depth[c] BY <1>1, <1>2, <4>1 DEF Deep
      <4>3. depth[x] \in Nat /\ depth[c] \in Nat BY <1>2, <4>1
      <4>4. n < depth[x] + (m + 1) OBVIOUS
      <4>5. n < depth[c] + m BY <1>2, <4>2, <4>3, <4>4
      <4>6. QED BY <4>1, <4>5
    <3>2. QED BY <3>1
  <2>8. \A x \in Low(m + 1) : h[x] = Dfs(h, x, gs)
    <3>1. TAKE x \in Low(m + 1)
    <3>2. Tree!Children(x, gs) \in SUBSET Groups BY DEF Tree!Children
    <3>3. \A c \in Tree!Children(x, gs) : f[c] = h[c] BY <2>6, <2>7
    <3>4. Tree!ForEach(f, Tree!Children(x, gs)) = Tree!ForEach(h, Tree!Children(x, gs)) BY <3>2, <3>3, ForEachSame
    <3>5. QED BY <2>3, <3>4 DEF Dfs
  <2>9. m + 1 \in Nat OBVIOUS
  <2>10. QED
    <3> HIDE DEF Low
    <3>1. QED BY <2>2, <2>8, <2>9
<1>5. n \in P
  <2> HIDE DEF P
  <2>1. QED BY <1>2, <1>3, <1>4, UpFromZero
<1>6. Low(n) = gs BY <1>2
<1>7. \E f : f = [x \in gs |-> Dfs(f, x, gs)]
  <2>1. PICK f : f = [x \in Low(n) |-> f[x]] /\ \A x \in Low(n) : f[x] = Dfs(f, x, gs) BY <1>5
  <2> HIDE DEF Low
  <2>2. f = [x \in gs |-> f[x]] /\ \A x \in gs : f[x] = Dfs(f, x, gs) BY <1>6, <2>1
  <2>3. QED BY <2>2
<1> DEFINE d == CHOOSE f : f = [x \in gs |-> <<x>> \o Tree!ForEach(f, Tree!Children(x, gs))]
<1>8. d = [x \in gs |-> <<x>> \o Tree!ForEach(d, Tree!Children(x, gs))]
  <2>1. \E f : f = [x \in gs |-> <<x>> \o Tree!ForEach(f, Tree!Children(x, gs))] BY <1>7 DEF Dfs
  <2>2. QED BY <2>1
<1>9. Tree!SortGroupsAsTree(gs) = Tree!ForEach(d, Tree!Roots(gs)) BY DEF Tree!SortGroupsAsTree
<1> HIDE DEF d
<1>10. QED BY <1>8, <1>9 DEF Dfs

(* From the deepest groups upward, the search lays out what is under each. *)
LEMMA TreeLaid ==
  ASSUME None \notin Groups, Tree!Forest, NEW gs \in SUBSET Groups
  PROVE  Laid(Tree!SortGroupsAsTree(gs), gs)
<1>1. PICK depth : Deep(depth) BY ForestIs
<1>2. PICK f : f = [g \in gs |-> Dfs(f, g, gs)] /\ Tree!SortGroupsAsTree(gs) = Tree!ForEach(f, Tree!Roots(gs))
  BY DfsIs
<1> DEFINE n == Cardinality(Groups)
           P == {m \in Nat : \A g \in gs : n < depth[g] + m => Laid(f[g], Under(g, gs))}
<1>3. n \in Nat /\ \A x \in gs : x \in Groups /\ depth[x] \in 1..n BY <1>1, ForestIs DEF Deep
<1> HIDE DEF n
<1>4. \A g \in gs : f[g] = Dfs(f, g, gs) BY <1>2
<1>5. 0 \in P BY <1>3
<1>6. ASSUME NEW m \in Nat, m \in P PROVE m + 1 \in P
  <2>1. ASSUME NEW g \in gs, n < depth[g] + (m + 1) PROVE Laid(f[g], Under(g, gs))
    <3>1. ASSUME NEW c \in Tree!Children(g, gs) PROVE Laid(f[c], Under(c, gs))
      <4>1. c \in gs /\ Parent[c] = g BY DEF Tree!Children
      <4>2. depth[g] < depth[c] BY <1>1, <1>3, <4>1 DEF Deep
      <4>3. depth[g] \in Nat /\ depth[c] \in Nat BY <1>3, <4>1
      <4>4. n < depth[c] + m BY <1>3, <2>1, <4>2, <4>3
      <4>5. QED BY <1>6, <4>1, <4>4
    <3> DEFINE t == Tree!ForEach(f, Tree!Children(g, gs))
               Y == UNION {Under(c, gs) : c \in Tree!Children(g, gs)}
    <3>2. Peers(Tree!Children(g, gs), gs) BY ChildrenAre
    <3>3. Laid(t, Y) BY <3>1, <3>2, ForEachLaid
    <3>4. Under(g, gs) = {g} \cup Y /\ g \notin Y /\ Parent[g] \notin {g} \cup Y BY ChildrenAre
    <3>5. \A y \in Y : g \in Line(y) BY <3>4, UnderLine
    <3> HIDE DEF t, Y
    <3>6. Laid(<<g>> \o t, {g} \cup Y) BY <3>3, <3>4, <3>5, LaidBefore
    <3>7. f[g] = <<g>> \o t BY <1>4 DEF Dfs, t
    <3>8. QED BY <3>4, <3>6, <3>7
  <2>2. m + 1 \in Nat OBVIOUS
  <2>3. QED BY <2>1, <2>2
<1>7. n \in P
  <2> HIDE DEF P
  <2>1. QED BY <1>3, <1>5, <1>6, UpFromZero
<1>8. \A g \in gs : Laid(f[g], Under(g, gs)) BY <1>3, <1>7
<1>9. Peers(Tree!Roots(gs), gs) /\ gs = UNION {Under(c, gs) : c \in Tree!Roots(gs)} BY RootsAre
<1>10. \A c \in Tree!Roots(gs) : Laid(f[c], Under(c, gs)) BY <1>8 DEF Tree!Roots
<1>11. Laid(Tree!ForEach(f, Tree!Roots(gs)), UNION {Under(c, gs) : c \in Tree!Roots(gs)})
  BY <1>9, <1>10, ForEachLaid
<1>12. QED BY <1>2, <1>9, <1>11

LEMMA TreeListedIs ==
  ASSUME None \notin Groups, Tree!Forest, NEW gs \in SUBSET Groups
  PROVE  LET s == Tree!SortGroupsAsTree(gs)
             At(g) == CHOOSE i \in DOMAIN s : s[i] = g
         IN /\ Len(s) = Cardinality(gs) /\ Tree!ToSet(s) = gs
            /\ \A g \in gs : Parent[g] \in gs =>
                 /\ At(Parent[g]) < At(g)
                 /\ \A i \in At(Parent[g])..At(g) : Parent[g] \in {s[i]} \cup Tree!Ancestors[s[i]]
<1> DEFINE s == Tree!SortGroupsAsTree(gs)
           At(g) == CHOOSE i \in DOMAIN s : s[i] = g
<1>1. Laid(s, gs) BY TreeLaid
<1> HIDE DEF s
<1>2. s \in Seq(gs) /\ Len(s) \in Nat /\ DOMAIN s = 1..Len(s) BY <1>1 DEF Laid
<1>3. \A i, j \in 1..Len(s) : s[i] = s[j] => i = j BY <1>1 DEF Laid
<1>4. \A x \in gs : \E i \in 1..Len(s) : s[i] = x BY <1>1 DEF Laid
<1>5. \A i \in 1..Len(s) : s[i] \in gs BY <1>2
<1>6. Tree!ToSet(s) = gs BY <1>2, <1>4, <1>5 DEF Tree!ToSet
<1>7. Len(s) = Cardinality(gs)
  <2>1. s \in [1..Len(s) -> gs] BY <1>2, <1>5
  <2>2. s \in Injection(1..Len(s), gs) BY <1>3, <2>1 DEF Injection, IsInjective
  <2>3. s \in Surjection(1..Len(s), gs) BY <1>4, <2>1 DEF Surjection
  <2>4. IsFiniteSet(gs) BY FiniteGroups
  <2>5. Cardinality(1..Len(s)) = Cardinality(gs) BY <2>2, <2>3, <2>4, FS_Injection
  <2>6. Cardinality(1..Len(s)) = Len(s) BY <1>2, FS_Interval
  <2>7. QED BY <2>5, <2>6
<1>8. \A k \in 1..Len(s) : At(s[k]) = k
  <2>1. TAKE k \in 1..Len(s)
  <2>2. k \in DOMAIN s BY <1>2
  <2>3. At(s[k]) \in DOMAIN s /\ s[At(s[k])] = s[k] BY <2>2
  <2> HIDE DEF At
  <2>4. QED BY <1>2, <1>3, <2>3
<1> HIDE DEF At
<1>9. ASSUME NEW g \in gs, Parent[g] \in gs
      PROVE  /\ At(Parent[g]) < At(g)
             /\ \A i \in At(Parent[g])..At(g) : Parent[g] \in {s[i]} \cup Tree!Ancestors[s[i]]
  <2>1. PICK k \in 1..Len(s) : s[k] = g BY <1>4
  <2>2. PICK i \in 1..k - 1 : After(s, k, i) BY <1>1, <1>9, <2>1 DEF Laid
  <2>3. i \in 1..Len(s) /\ i < k BY <1>2
  <2>4. s[i] = Parent[g] /\ \A j \in i..k : Parent[g] \in Line(s[j]) BY <2>1, <2>2 DEF After
  <2>5. At(g) = k /\ At(Parent[g]) = i BY <1>8, <2>1, <2>3, <2>4
  <2>6. QED BY <2>3, <2>4, <2>5 DEF Line
<1>10. QED BY <1>6, <1>7, <1>9 DEF s, At

(* The sidebar lists every group that matches a search once, each before   *)
(* those below it and with no other between, for any forest of groups.     *)
THEOREM TreeListedEver ==
  ASSUME Tree!Sensible, Tree!Forest PROVE Tree!Spec => []Tree!TreeListed
<1>1. Tree!TypeOK => Tree!TreeListed
  <2> SUFFICES ASSUME Tree!TypeOK PROVE Tree!TreeListed OBVIOUS
  <2>1. None \notin Groups /\ \A gs \in SUBSET DOMAIN groups : gs \in SUBSET Groups
    BY DEF Tree!TypeOK, Tree!Sensible
  <2>2. QED BY <2>1, TreeListedIs, SameSets DEF Tree!TreeListed
<1>2. Tree!Spec => []Tree!TypeOK BY TreeTypeCorrect
<1>3. QED BY <1>1, <1>2, PTL
=============================================================================
