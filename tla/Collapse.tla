------------------------------ MODULE Collapse ------------------------------
(***************************************************************************)
(* Panels that open and close with an animation, alone or as an accordion  *)
(* (sass/bootstrap/js/src/collapse.js).  A click on the trigger of a panel *)
(* toggles it; in an accordion, opening a panel hides the other active     *)
(* ones first.  The classes of a panel change at once, the animation ends  *)
(* later, in the `complete` callbacks its `transitionend` runs.            *)
(***************************************************************************)
EXTENDS Integers, Sequences, FiniteSets, SeqFilter

CONSTANTS
  NPanels,      \* number of panels, in document order, each with its trigger
  MaxEnds       \* bound: callbacks waiting on one panel

ASSUME CollapseAssumption == NPanels \in Nat /\ MaxEnds \in Nat

VARIABLES
  byScript,     \* a script of the page made all instances (else: first click)
  parentKind,   \* option `parent`: absent, a selector, or an element
  panelClass,   \* classes: "collapse", "show" (collapse show), "collapsing"
  panelInst,    \* Data.get(panel): "none", or its _isTransitioning
  panelEnds,    \* callbacks waiting for the panel's transitionend, in order
  expanded,     \* aria-expanded of the trigger, the opposite of `collapsed`
  interfered    \* history: a hide was vetoed, or an instance disposed of

collapseVars ==
  <<byScript, parentKind, panelClass, panelInst, panelEnds, expanded, interfered>>

Panel == 1..NPanels
PanelEnd == [op : {"show", "hide"}, own : BOOLEAN]

CollapseTypeOK ==
  /\ byScript \in BOOLEAN
  /\ parentKind \in {"none", "selector", "element"}
  /\ panelClass \in [Panel -> {"collapse", "show", "collapsing"}]
  /\ panelInst \in [Panel -> {"none", "idle", "transitioning"}]
  /\ panelEnds \in [Panel -> Seq(PanelEnd)]
  /\ expanded \in [Panel -> BOOLEAN]
  /\ interfered \in BOOLEAN

\* The markup shows at most one panel of an accordion.
CollapseLoad(kind, script, shown) ==
  /\ byScript = script
  /\ parentKind = kind
  /\ panelClass = [p \in Panel |-> IF p \in shown THEN "show" ELSE "collapse"]
  /\ panelInst = [p \in Panel |-> IF script THEN "idle" ELSE "none"]
  /\ panelEnds = [p \in Panel |-> <<>>]
  /\ expanded = [p \in Panel |-> p \in shown]
  /\ interfered = FALSE

Init == \E kind \in {"none", "selector", "element"}, script \in BOOLEAN,
           shown \in SUBSET Panel :
          /\ kind = "none" \/ \A p, q \in shown : p = q
          /\ CollapseLoad(kind, script, shown)
-----------------------------------------------------------------------------
\* The panels that show() looks at: with a selector those shown or moving,
\* with an element only those that still have the class `collapse`.
Actives == CASE parentKind = "none"     -> {}
             [] parentKind = "selector" -> {q \in Panel : panelClass[q] # "collapse"}
             [] parentKind = "element"  -> {q \in Panel : panelClass[q] = "show"}

Others(p) == Actives \ {p}
FirstOther(p) == CHOOSE q \in Others(p) : \A r \in Others(p) : q <= r

\* activesData: the instance of the first other active panel, if it has one.
HasActivesData(p) == Others(p) # {} /\ panelInst[FirstOther(p)] # "none"

\* A panel hidden by show() or by its own trigger, unless a listener vetoes.
Hides(q, veto) ==
  panelClass[q] = "show" /\ panelInst[q] # "transitioning" /\ q \notin veto

Started(q, op, dropped) ==
  Append([i \in DOMAIN panelEnds[q] |->
            [panelEnds[q][i] EXCEPT !.own = @ /\ q \notin dropped]],
         [op |-> op, own |-> q \notin dropped])

\* show(), past its early returns: the other active panels are hidden, their
\* instances are dropped if the first has none, and p starts to open.
Open(p, veto) ==
  LET hides   == {q \in Others(p) : Hides(q, veto)}
      dropped == IF HasActivesData(p) THEN {} ELSE Actives
  IN /\ panelClass' = [q \in Panel |-> IF q \in hides \cup {p} THEN "collapsing"
                                       ELSE panelClass[q]]
     /\ panelInst' = [q \in Panel |->
          IF q \in dropped THEN "none"
          ELSE IF q \in hides \cup {p} THEN "transitioning"
          ELSE IF q \in Others(p) /\ panelInst[q] = "none" THEN "idle"
          ELSE panelInst[q]]
     /\ panelEnds' = [q \in Panel |->
          IF q = p THEN Started(q, "show", dropped)
          ELSE IF q \in hides THEN Started(q, "hide", dropped)
          ELSE [i \in DOMAIN panelEnds[q] |->
                  [panelEnds[q][i] EXCEPT !.own = @ /\ q \notin dropped]]]
     /\ expanded' = [q \in Panel |-> IF q = p THEN TRUE
                                     ELSE expanded[q] /\ q \notin hides]
     /\ interfered' = (interfered \/ \E q \in Others(p) : q \in veto)
     /\ UNCHANGED <<byScript, parentKind>>

\* hide(), past its early returns.
Close(p) ==
  /\ panelClass' = [panelClass EXCEPT ![p] = "collapsing"]
  /\ panelInst' = [panelInst EXCEPT ![p] = "transitioning"]
  /\ panelEnds' = [panelEnds EXCEPT ![p] = Started(p, "hide", {})]
  /\ expanded' = [expanded EXCEPT ![p] = FALSE]
  /\ UNCHANGED <<byScript, parentKind, interfered>>

\* A call that returns early leaves at most a fresh instance behind.
OnlyInstance(p) ==
  /\ panelInst' = [panelInst EXCEPT ![p] = IF @ = "none" THEN "idle" ELSE @]
  /\ UNCHANGED <<byScript, parentKind, panelClass, panelEnds, expanded, interfered>>

\* Mutant of MayOpen: no look at the panel that is being hidden or shown.
MayOpenAnyway(p) == panelClass[p] # "show" /\ panelInst[p] # "transitioning"

MayOpen(p) ==
  /\ panelClass[p] # "show" /\ panelInst[p] # "transitioning"
  /\ Others(p) # {} => panelInst[FirstOther(p)] # "transitioning"

\* A click on the trigger of p; the listeners of show and hide on the panels
\* in `veto` call preventDefault().
Toggle(p, veto) ==
  /\ \A q \in Panel : Len(panelEnds[q]) < MaxEnds
  /\ IF panelClass[p] = "show"
     THEN IF Hides(p, veto) THEN Close(p) ELSE OnlyInstance(p)
     ELSE IF MayOpen(p) /\ p \notin veto THEN Open(p, veto) ELSE OnlyInstance(p)

\* Mutant of PanelTransitionEnd: only the instance of the panel may end it.
OwnTransitionEnd(p) ==
  LET own == {i \in DOMAIN panelEnds[p] : panelEnds[p][i].own}
  IN /\ panelEnds[p] # <<>>
     /\ panelClass' = [panelClass EXCEPT ![p] =
          IF \E i \in own : panelEnds[p][i].op = "show" THEN "show"
          ELSE IF own # {} THEN "collapse" ELSE @]
     /\ panelInst' = [panelInst EXCEPT ![p] = IF own # {} THEN "idle" ELSE @]
     /\ panelEnds' = [panelEnds EXCEPT ![p] = <<>>]
     /\ UNCHANGED <<byScript, parentKind, expanded, interfered>>

\* The transition of p ends: every waiting callback runs and is gone.
PanelTransitionEnd(p) ==
  LET ends == {panelEnds[p][i] : i \in DOMAIN panelEnds[p]}
  IN /\ ends # {}
     /\ panelClass' = [panelClass EXCEPT ![p] =
          IF \E e \in ends : e.op = "show" THEN "show" ELSE "collapse"]
     /\ panelInst' = [panelInst EXCEPT ![p] =
          IF \E e \in ends : e.own THEN "idle" ELSE @]
     /\ panelEnds' = [panelEnds EXCEPT ![p] = <<>>]
     /\ UNCHANGED <<byScript, parentKind, expanded, interfered>>

\* dispose(): the callbacks of the instance throw when they run, and so do
\* nothing; those of an instance that was dropped before still run.
DisposePanel(p) ==
  /\ panelInst[p] # "none"
  /\ panelInst' = [panelInst EXCEPT ![p] = "none"]
  /\ panelEnds' = [panelEnds EXCEPT ![p] = Only(@, {e \in PanelEnd : ~e.own})]
  /\ interfered' = TRUE
  /\ UNCHANGED <<byScript, parentKind, panelClass, expanded>>

Next == \E p \in Panel :
          \/ \E veto \in {{}} \cup {{q} : q \in Panel} : Toggle(p, veto)
          \/ PanelTransitionEnd(p)
          \/ DisposePanel(p)

CollapseFairness == \A p \in Panel : WF_collapseVars(PanelTransitionEnd(p))

Spec == Init /\ [][Next]_collapseVars
FairSpec == Spec /\ CollapseFairness
-----------------------------------------------------------------------------
\* A panel is open, or its last animation opens it.
Opening(p) == \E i \in DOMAIN panelEnds[p] : panelEnds[p][i].op = "show"
IsOpen(p) == panelClass[p] = "show" \/ Opening(p)

Managed == byScript /\ parentKind = "selector" /\ ~interfered

\* An accordion whose panels all have their instance never has two panels open
\* or on their way to it, whatever is clicked while panels are still moving:
\* show() hides the open one or gives up while a panel is moving.
OneOpenPanel == Managed => \A p, q \in Panel : IsOpen(p) /\ IsOpen(q) => p = q

\* The trigger says what its panel is doing: aria-expanded is set when an
\* animation starts, long before the class `show`, by whichever instance.
TriggerTellsPanel == ~interfered => \A p \in Panel : expanded[p] <=> IsOpen(p)

(***************************************************************************)
(* What makes the two inductive: a panel moves exactly until its           *)
(* transition ends; and in a managed accordion every panel keeps its       *)
(* instance, which is in transition while the panel moves.                 *)
(***************************************************************************)
MovesUntilEnd ==
  ~interfered => \A p \in Panel : panelClass[p] = "collapsing" <=> panelEnds[p] # <<>>

InstancesKept ==
  Managed => \A p \in Panel :
    /\ panelInst[p] # "none"
    /\ panelInst[p] = "transitioning" <=> panelEnds[p] # <<>>
    /\ \A i \in DOMAIN panelEnds[p] : panelEnds[p][i].own

CollapseInv == MovesUntilEnd /\ TriggerTellsPanel /\ InstancesKept /\ OneOpenPanel

\* No panel is left between open and closed: every animation ends, also when
\* the instance that started it was dropped by another panel's show().
PanelMoves(p) == panelClass[p] = "collapsing" /\ ~interfered
=============================================================================
