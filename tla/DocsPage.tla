------------------------------ MODULE DocsPage ------------------------------
(***************************************************************************)
(* The pages of the documentation site.  A page uses one widget, in any    *)
(* configuration, or a modal together with an offcanvas pane; what it does *)
(* not use stays as it was loaded, so that one specification covers them   *)
(* all and the states of the widgets add up in place of multiplying.       *)
(***************************************************************************)
EXTENDS Collapse, Teaser

CONSTANTS NItems, MaxSlides, MaxWaiting, MaxBackdrops, NPanes, MaxTimers,
          MaxTipEnds, Drops, NEntries, MaxToastEnds, MaxToastTimers,
          Page, NoBody, MaxResults

\* A carousel has an item, for one of them has the class `active`; a menu may
\* have none, a page no pane and a query no result.
ASSUME DocsAssumption ==
  /\ NItems \in Nat \ {0} /\ MaxSlides \in Nat
  /\ NPanes \in Nat /\ NEntries \in Nat /\ MaxResults \in Nat
  /\ MaxBackdrops \in Nat /\ MaxToastTimers \in Nat

VARIABLES
  widget,      \* what the page uses (fixed)
  carouselConf, carousel, modalConf, modal, mouse, body,
  paneConf, panes, paneTrap, scripted, overlapped, tipConf, tip, meddled,
  dropDisabled, dropInst, toggler, menu, dropAria, dropFocus, dropForced,
  toastConf, toast, toastVetoed, entries, hidden, focus, results

Carousels == INSTANCE Carousel
Dialog    == INSTANCE Modal
Both      == INSTANCE Overlays WITH NPanes <- 1, MaxTimers <- 1
Panes     == INSTANCE Offcanvas
Tips      == INSTANCE Tooltip
Menus     == INSTANCE Dropdown
Toasts    == INSTANCE Toast
Box       == INSTANCE SearchBox

Widgets == {"collapse", "carousel", "modal", "panes", "both", "tooltip",
            "dropdown", "toast", "search", "teaser"}

dialogVars == <<modalConf, modal, mouse>>
panesVars == <<paneConf, panes, paneTrap, scripted>>
dropdownVars ==
  <<dropDisabled, dropInst, toggler, menu, dropAria, dropFocus, dropForced>>
docsVars == <<widget, collapseVars, carouselConf, carousel, dialogVars, panesVars,
              body, overlapped, tipConf, tip, meddled, dropdownVars, toastConf,
              toast, toastVetoed, entries, hidden, focus, results, teaserVars>>
-----------------------------------------------------------------------------
PlainModal == [animated |-> TRUE, backdrop |-> "click", keyboard |-> TRUE, tall |-> FALSE]
PlainPane == [backdrop |-> TRUE, keyboard |-> TRUE, scroll |-> FALSE]

OverlaysInit ==
  \/ /\ widget = "modal"
     /\ Dialog!ModalInit /\ Panes!OffcanvasLoad(PlainPane) /\ overlapped = FALSE
  \/ /\ widget = "panes"
     /\ Dialog!ModalLoad(PlainModal) /\ Panes!OffcanvasInit /\ overlapped = FALSE
  \/ /\ widget = "both"
     /\ \E long \in BOOLEAN, padding \in {"empty", "own"} :
          Both!OverlaysLoad(PlainModal, PlainPane, long, padding)
  \/ /\ widget \notin {"modal", "panes", "both"}
     /\ Both!OverlaysLoad(PlainModal, PlainPane, FALSE, "empty")

DocsInit ==
  /\ widget \in Widgets
  /\ IF widget = "collapse" THEN Init ELSE CollapseLoad("none", FALSE, {})
  /\ IF widget = "carousel" THEN Carousels!Init
     ELSE Carousels!CarouselLoad([wrap |-> TRUE, interval |-> FALSE, hover |-> FALSE,
                                  animated |-> TRUE], FALSE)
  /\ OverlaysInit
  /\ IF widget = "tooltip" THEN Tips!Init
     ELSE Tips!TooltipLoad([triggers |-> {"click"}, delayShow |-> FALSE,
                            delayHide |-> FALSE, animation |-> TRUE])
  /\ IF widget = "dropdown" THEN Menus!Init ELSE Menus!DropdownLoad({})
  /\ IF widget = "toast" THEN Toasts!Init
     ELSE Toasts!ToastLoad([animation |-> TRUE, autohide |-> TRUE])
  /\ Box!Init
  /\ IF widget = "teaser" THEN TeaserInit ELSE TeaserLoad(<<>>, 0)

\* One widget takes a step, and the others are as they were.
DocsNext ==
  /\ UNCHANGED widget
  /\ IF widget = "collapse" THEN Next ELSE UNCHANGED collapseVars
  /\ IF widget = "carousel" THEN Carousels!Next ELSE UNCHANGED <<carouselConf, carousel>>
  /\ CASE widget = "modal" -> Dialog!ModalNext /\ UNCHANGED <<panesVars, overlapped>>
       [] widget = "panes" -> Panes!OffcanvasNext /\ UNCHANGED <<dialogVars, overlapped>>
       [] widget = "both"  -> Both!OverlaysNext
       [] OTHER            -> UNCHANGED <<dialogVars, body, panesVars, overlapped>>
  /\ IF widget = "tooltip" THEN Tips!Next ELSE UNCHANGED <<tipConf, tip, meddled>>
  /\ IF widget = "dropdown" THEN Menus!Next ELSE UNCHANGED dropdownVars
  /\ IF widget = "toast" THEN Toasts!Next ELSE UNCHANGED <<toastConf, toast, toastVetoed>>
  /\ IF widget = "search" THEN Box!SearchNext
     ELSE UNCHANGED <<entries, hidden, focus, results>>
  /\ IF widget = "teaser" THEN TeaserNext ELSE UNCHANGED teaserVars

\* Every transition ends and every timer fires; nothing is asked of the user.
DocsSpec ==
  /\ DocsInit /\ [][DocsNext]_docsVars
  /\ CollapseFairness /\ Dialog!ModalFairness
  /\ Tips!TooltipFairness
-----------------------------------------------------------------------------
\* The state of every widget is of its type: among other things the focus is on
\* an item of a menu that exists, or on a suggestion that can be seen.
DocsTypeOK ==
  /\ CollapseTypeOK /\ Carousels!CarouselTypeOK /\ Dialog!ModalTypeOK
  /\ Dialog!BodyTypeOK /\ Tips!TooltipTypeOK
  /\ IF widget \in {"modal", "panes"} THEN Panes!OffcanvasTypeOK ELSE Both!OffcanvasTypeOK
  /\ Menus!DropdownTypeOK /\ Toasts!ToastTypeOK /\ Box!SearchTypeOK

\* A carousel shows one item, the one its indicator points at (Carousel), and
\* stays where it is while it is paused.
OneActiveItem == Carousels!OneActiveItem /\ Carousels!PausedIsStill

\* Whatever slides, keys and swipes come together, a sliding carousel moves, and
\* a deferred to(index) has something to wait for (Carousel).
DeferredToIsServed == Carousels!DeferredToIsServed

\* A modal, its backdrop, the page and the focus agree on whether it is there, and
\* on a page without a pane nothing scrolls behind it (Modal).
ModalOwnsThePage ==
  Dialog!ModalOwnsThePage /\ (widget = "modal" => Dialog!PageIsLocked)

\* The lock of a page that has a pane, too (Overlays): not what the code does.
ModalKillsTheScroll == widget = "both" => Both!ModalKillsTheScroll

\* A modal and a pane that come one after the other give back the page, its
\* scrolling, its focus and, but for PaddingLeft, its padding (Overlays).
PageIsGivenBack == widget = "both" => Both!PageIsGivenBack

\* Of several menus, or of several panes, togglers open one at a time, and what
\* is open can be seen (Dropdown, Offcanvas).
OneOfMany ==
  /\ Menus!OneOpenMenu
  /\ widget = "panes" => Panes!OnePaneByTogglers /\ Panes!ShownIsVisible

\* A tip or a toast that is shown is one that can go away: the state of its
\* instance agrees with what is on the page (Tooltip, Toast).
NoticesAgree ==
  Tips!ShownTipCanBeHidden /\ Tips!TipFollowsTriggers /\ Toasts!ToastConsistent

\* The list of suggestions is that of the last query, and the excerpt of each
\* page is its best passage, where a long word is cut at its limit and never
\* inside a surrogate pair (SearchBox, Teaser).
SearchShowsResults ==
  /\ Box!SuggestionsAreResults
  /\ TeaserIsBestPassage /\ CutKeepsCharacters

\* The handlers that one click or one drag passes do not undo each other
\* (Modal, Dropdown).
ClickHandlersAgree == Dialog!DragNeverDismisses /\ Menus!ClickToggles

\* No panel stays between open and closed, no modal in transition, and no tip
\* that no trigger asks for; one of them at most is what the page uses.
Restless(p) == PanelMoves(p) \/ Dialog!ModalMoves \/ Tips!TipLingers
EverythingSettles == \A p \in Panel : Restless(p) ~> ~Restless(p)
=============================================================================
