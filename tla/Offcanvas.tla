------------------------------ MODULE Offcanvas ------------------------------
(***************************************************************************)
(* Panes that slide in from the side (sass/bootstrap/js/src/offcanvas.js). *)
(* The end of an animation is a plain timer, which nothing cancels: a call *)
(* that comes before it leaves two timers that do opposite things.  A      *)
(* toggler gives up while another pane is active, and every pane hides on  *)
(* a click outside of it.                                                  *)
(***************************************************************************)
EXTENDS Integers, Sequences, PageBody

CONSTANTS
  NPanes,       \* number of panes, in document order
  MaxTimers     \* bound: timers waiting for one pane

VARIABLES
  paneConf,     \* options, the same for every pane
  panes,        \* the state of each instance and its element
  paneTrap,     \* the pane whose focusin handler is on the document, or 0
  scripted      \* history: a script showed a pane past its toggler

offcanvasVars == <<paneConf, panes, paneTrap, scripted, body>>

Pane == 1..NPanes
PaneConf == [backdrop : BOOLEAN, keyboard : BOOLEAN, scroll : BOOLEAN]

OffcanvasTypeOK ==
  /\ paneConf \in PaneConf
  /\ panes \in [Pane -> [isShown  : BOOLEAN,
                         toggling : BOOLEAN,          \* class offcanvas-toggling
                         visible  : BOOLEAN,          \* style.visibility
                         timers   : Seq({"show", "hide"}),
                         hurried  : BOOLEAN]]         \* history, see below
  /\ paneTrap \in 0..NPanes
  /\ scripted \in BOOLEAN

OffcanvasLoad(conf) ==
  /\ paneConf = conf /\ paneTrap = 0 /\ scripted = FALSE
  /\ panes = [p \in Pane |-> [isShown |-> FALSE, toggling |-> FALSE,
                visible |-> FALSE, timers |-> <<>>, hurried |-> FALSE]]
-----------------------------------------------------------------------------
\* The part of show() and of hide() past their early returns; `hurried`
\* records a call that came before the timer of the one before it.
Begin(p, op) ==
  [p EXCEPT !.isShown = (op = "show"), !.visible = @ \/ op = "show",
            !.toggling = TRUE, !.timers = Append(@, op),
            !.hurried = @ \/ p.timers # <<>>]

Room(p) == Len(panes[p].timers) < MaxTimers

Shown == {p \in Pane : panes[p].isShown}

\* show() of the panes in `shows` and hide() of those in `hides`.
PanesChange(shows, hides) ==
  /\ \A p \in shows \cup hides : Room(p)
  /\ panes' = [p \in Pane |-> IF p \in shows THEN Begin(panes[p], "show")
                              ELSE IF p \in hides THEN Begin(panes[p], "hide")
                              ELSE panes[p]]
  /\ paneTrap' = IF hides = {} THEN paneTrap ELSE 0
  /\ UNCHANGED paneConf

\* show() changes the page at once, hide() leaves it to its timer.
PageForShow(b) ==
  LET d == [b EXCEPT !.dimmed = @ \/ paneConf.backdrop]
  IN IF paneConf.scroll THEN d ELSE ScrollBarHide(d)

PageForHidden(b) ==
  LET d == [b EXCEPT !.dimmed = @ /\ ~paneConf.backdrop]
  IN IF paneConf.scroll THEN d ELSE ScrollBarReset(d)

Change(shows, hides) ==
  /\ PanesChange(shows, hides)
  /\ body' = IF shows = {} THEN body ELSE PageForShow(body)

\* findOne(ACTIVE_SELECTOR): the first pane that is shown or toggling.
ActivePanes == {p \in Pane : panes[p].isShown \/ panes[p].toggling}
AlreadyOpen(p) ==
  \E q \in ActivePanes : q # p /\ \A r \in ActivePanes : q <= r

\* A click on the toggler of p: unless another pane is active, its pane is
\* toggled; then the click reaches the other panes, which hide.
ClickPaneToggler(p) ==
  /\ Change(IF AlreadyOpen(p) \/ panes[p].isShown THEN {} ELSE {p},
            IF AlreadyOpen(p) THEN Shown \ {p} ELSE Shown)
  /\ UNCHANGED scripted

\* A click on an element inside of that toggler: the pane's own handler of the
\* document's clicks does not know it for the toggler's, and hides at once what
\* the toggler shows.  When it shows nothing, this is a click elsewhere.
ClickInsideToggler(p) ==
  /\ ~AlreadyOpen(p) /\ ~panes[p].isShown /\ Len(panes[p].timers) + 2 <= MaxTimers
  /\ \A q \in Shown : Room(q)
  /\ panes' = [q \in Pane |-> IF q = p THEN Begin(Begin(panes[p], "show"), "hide")
                              ELSE IF q \in Shown THEN Begin(panes[q], "hide")
                              ELSE panes[q]]
  /\ paneTrap' = 0 /\ body' = PageForShow(body)
  /\ UNCHANGED <<paneConf, scripted>>

\* A click anywhere else, in pane `inside` or in none (0).
ClickElsewhere(inside) == Change({}, Shown \ {inside}) /\ UNCHANGED scripted

HiddenByEscape == IF paneConf.keyboard THEN Shown ELSE {}
PaneEscape == Change({}, HiddenByEscape) /\ UNCHANGED scripted

\* show() and hide() called by a script of the page.
ScriptShows(p) == ~panes[p].isShown /\ Change({p}, {}) /\ scripted' = TRUE
ScriptHides(p) == panes[p].isShown /\ Change({}, {p}) /\ UNCHANGED scripted

\* The oldest timer of p fires: completeCallBack of show() or of hide().
PaneTimer(p) ==
  /\ panes[p].timers # <<>>
  /\ LET op == Head(panes[p].timers)
     IN /\ panes' = [panes EXCEPT ![p].timers = Tail(@), ![p].toggling = FALSE,
                                  ![p].visible = @ /\ op = "show"]
        /\ paneTrap' = IF op = "show" THEN p ELSE paneTrap
        /\ body' = IF op = "show" THEN body ELSE PageForHidden(body)
  /\ UNCHANGED <<paneConf, scripted>>

PaneUser ==
  \/ \E p \in Pane : ClickPaneToggler(p) \/ ClickInsideToggler(p)
                      \/ ScriptShows(p) \/ ScriptHides(p)
  \/ \E inside \in 0..NPanes : ClickElsewhere(inside)
  \/ PaneEscape

OffcanvasNext == PaneUser \/ \E p \in Pane : PaneTimer(p)

OffcanvasInit == /\ \E conf \in PaneConf : OffcanvasLoad(conf)
                 /\ \E long \in BOOLEAN : BodyLoad(long, "empty")
OffcanvasSpec == OffcanvasInit /\ [][OffcanvasNext]_offcanvasVars
-----------------------------------------------------------------------------
\* Togglers alone never show two panes at once, although a pane that is still
\* hiding may already have lost the class that the toggler looks for.
OnePaneByTogglers == ~scripted => \A p, q \in Shown : p = q

\* A pane whose calls waited for one another can be seen while it is shown,
\* and cannot once it has gone.
ShownIsVisible ==
  \A p \in Pane : ~panes[p].hurried =>
    /\ panes[p].isShown => panes[p].visible
    /\ panes[p].timers = <<>> => panes[p].visible = panes[p].isShown
=============================================================================
