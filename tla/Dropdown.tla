------------------------------ MODULE Dropdown ------------------------------
(***************************************************************************)
(* Menus that open under their togglers (sass/bootstrap/js/src/            *)
(* dropdown.js).  One click passes three handlers: the capturing one of    *)
(* the data API, which makes the instance on the first click, the click    *)
(* listener of the instance, which toggles, and the bubbling clearMenus(), *)
(* which closes what the click was not meant for.                          *)
(***************************************************************************)
EXTENDS Integers

CONSTANTS
  Drops,      \* the togglers, each with its menu
  NEntries    \* items of a menu that can have the focus

VARIABLES
  dropDisabled,   \* togglers with the class `disabled`
  dropInst,       \* togglers with an instance
  toggler,        \* togglers with the class `show`
  menu,           \* togglers whose menu has the class `show`
  dropAria,       \* togglers with aria-expanded = true
  dropFocus,      \* the focused toggler or item <<d, index>>, or Nowhere
  dropForced      \* history: show() or hide() by a script, or a vetoed hide

dropdownVars ==
  <<dropDisabled, dropInst, toggler, menu, dropAria, dropFocus, dropForced>>

Entry == 0..(NEntries - 1)
DropElements == Drops \X (Entry \cup {-1})   \* -1 is the toggler itself
Nowhere == <<"page", -1>>

DropdownTypeOK ==
  /\ dropDisabled \subseteq Drops /\ dropInst \subseteq Drops
  /\ toggler \subseteq Drops /\ menu \subseteq Drops /\ dropAria \subseteq Drops
  /\ dropFocus \in DropElements \cup {Nowhere} /\ dropForced \in BOOLEAN

DropdownLoad(disabled) ==
  /\ dropDisabled = disabled /\ dropInst = {} /\ dropFocus = Nowhere
  /\ toggler = {} /\ menu = {} /\ dropAria = {} /\ dropForced = FALSE

Init == \E disabled \in SUBSET Drops : DropdownLoad(disabled)
-----------------------------------------------------------------------------
\* What clearMenus() closes: every shown toggler with an instance, except those
\* it spares (the clicked one, or the one whose menu Tab moves in) and those
\* whose hide a listener vetoes.
Cleared(spared, veto) == (toggler \cap dropInst) \ (spared \cup veto)

\* Menus S close, and then those in O open.
Switch(S, O) ==
  /\ toggler' = (toggler \ S) \cup O
  /\ menu' = (menu \ S) \cup O
  /\ dropAria' = (dropAria \ S) \cup O

\* clearMenus() as the handler of a click outside or of the keyup of Tab.
Clear(spared, veto) ==
  /\ Switch(Cleared(spared, veto), {})
  /\ dropForced' = (dropForced \/ (toggler \ spared) \cap veto # {})

\* Mutant of Toggle: clearMenus() is not called.
ToggleOnly(d, veto) ==
  /\ IF d \in toggler \cup menu THEN Switch({d}, {}) ELSE Switch({}, {d} \ dropDisabled)
  /\ UNCHANGED dropForced

\* toggle(): everything closes, then the menu opens if it was not open; what
\* the click then clears on its way up was closed already.
Toggle(d, veto) ==
  IF d \in dropDisabled THEN Clear({d}, veto)
  ELSE /\ Switch(Cleared({}, veto),
                 IF d \in toggler \cup menu THEN {} ELSE {d})
       /\ dropForced' = (dropForced \/ toggler \cap veto # {})

ClickDrop(d, veto) ==
  /\ dropInst' = dropInst \cup {d}
  /\ Toggle(d, veto)
  /\ dropFocus' = <<d, -1>>
  /\ UNCHANGED dropDisabled

\* A click elsewhere, on an item of a menu or not; not in a form field, and
\* not with the right button.
ClickOutside(target, veto) ==
  /\ target # Nowhere => target[2] # -1 /\ target[1] \in menu
  /\ Clear({}, veto)
  /\ dropFocus' = target
  /\ UNCHANGED <<dropDisabled, dropInst>>

\* Tab moves the focus; its keyup clears the menus the focus is not in.
Tab(target, veto) ==
  /\ target[2] # -1 => target[1] \in menu
  /\ Clear({target[1]}, veto)
  /\ dropFocus' = target
  /\ UNCHANGED <<dropDisabled, dropInst>>

\* dataApiKeydownHandler(), on a toggler or in a menu that has the focus.
Escape(veto) ==
  /\ dropFocus # Nowhere /\ dropFocus[1] \notin dropDisabled
  /\ dropFocus' = <<dropFocus[1], -1>>
  /\ Clear({}, veto)
  /\ UNCHANGED <<dropDisabled, dropInst>>

\* Mutant of ArrowIndex: one item too far.
ArrowIndexPast(index, isDown) ==
  IF isDown /\ index < NEntries THEN index + 1
  ELSE IF ~isDown /\ index > 0 THEN index - 1
  ELSE IF index = -1 THEN 0 ELSE index

\* The item an arrow moves to: not past either end, and the first item when
\* the toggler has the focus.
ArrowIndex(index, isDown) ==
  IF isDown /\ index < NEntries - 1 THEN index + 1
  ELSE IF ~isDown /\ index > 0 THEN index - 1
  ELSE IF index = -1 THEN 0 ELSE index

Arrow(isDown, veto) ==
  /\ dropFocus # Nowhere /\ dropFocus[1] \notin dropDisabled
  /\ LET d == dropFocus[1]
     IN IF d \notin (IF dropFocus[2] = -1 THEN toggler ELSE menu)
        THEN ClickDrop(d, veto)
        ELSE /\ NEntries > 0
             /\ dropFocus' = <<d, ArrowIndex(dropFocus[2], isDown)>>
             /\ UNCHANGED <<dropDisabled, dropInst, toggler, menu, dropAria, dropForced>>

\* show() and hide() by a script: hide() forgets aria-expanded.
ScriptShow(d) ==
  /\ d \notin dropDisabled \cup menu
  /\ Switch({}, {d}) /\ dropInst' = dropInst \cup {d}
  /\ dropFocus' = <<d, -1>> /\ dropForced' = TRUE
  /\ UNCHANGED dropDisabled

ScriptHide(d) ==
  /\ d \in (dropInst \cap menu) \ dropDisabled
  /\ toggler' = toggler \ {d} /\ menu' = menu \ {d}
  /\ dropForced' = TRUE
  /\ UNCHANGED <<dropDisabled, dropInst, dropAria, dropFocus>>

Next == \E veto \in SUBSET Drops :
  \/ \E d \in Drops : ClickDrop(d, veto)
  \/ \E target \in DropElements \cup {Nowhere} : ClickOutside(target, veto) \/ Tab(target, veto)
  \/ Escape(veto)
  \/ \E isDown \in BOOLEAN : Arrow(isDown, veto)
  \/ \E d \in Drops : ScriptShow(d) \/ ScriptHide(d)

Spec == Init /\ [][Next]_dropdownVars
-----------------------------------------------------------------------------
\* One menu is open at a time, the class of the toggler and aria-expanded say
\* which, whatever mix of first clicks, clicks, keys and Tab opened it, unless
\* a script or a veto interfered.
OneOpenMenu ==
  ~dropForced => /\ \A d, e \in menu : d = e
                 /\ toggler = menu /\ dropAria = menu

\* A click on a toggler that works opens its menu if it was closed and closes
\* it if it was open: the three handlers one click passes do not undo each
\* other, on the first click as on any other.
ClickToggles ==
  [][\A d \in Drops \ dropDisabled :
       ClickDrop(d, {}) => (d \in menu' <=> d \notin menu)]_dropdownVars
=============================================================================
