------------------------------ MODULE Overlays ------------------------------
(***************************************************************************)
(* A page with a modal and offcanvas panes.  They know nothing of each     *)
(* other, and share what they do to the page: its overflow, the padding of *)
(* its body with the one attribute that remembers it, the document's       *)
(* clicks, keys and focus.                                                 *)
(***************************************************************************)
EXTENDS FiniteSets, Modal, Offcanvas

VARIABLE overlapped   \* history: one was shown before the other was gone

overlaysVars == <<modalVars, offcanvasVars, overlapped>>

PaneVars == <<paneConf, panes, paneTrap, scripted>>
DialogVars == <<modalConf, modal, mouse>>

OverlaysLoad(mconf, pconf, long, padding) ==
  /\ ModalLoad(mconf) /\ OffcanvasLoad(pconf) /\ BodyLoad(long, padding)
  /\ overlapped = FALSE

PaneGone(p) == ~panes[p].isShown /\ panes[p].timers = <<>>
PanesGone == \A p \in Pane : PaneGone(p)
ModalGone == ~modal.isShown /\ ModalSettled

Overlap == \/ ~PanesGone /\ ~ModalGone
           \/ \E p, q \in Pane : p # q /\ ~PaneGone(p) /\ ~PaneGone(q)

\* What only the modal hears of.
ModalAlone(A) == A /\ UNCHANGED PaneVars /\ overlapped' = (overlapped \/ Overlap')

\* A click of the mouse in the modal is a click outside of every pane.
ClickInModal(where) ==
  /\ Release(where)
  /\ PanesChange({}, IF where = "outside" THEN {} ELSE Shown)
  /\ UNCHANGED scripted

\* The focus is in the modal: Escape reaches it first, and then the panes.
EscapeInModal == /\ ModalEscape
                 /\ PanesChange({}, HiddenByEscape) /\ UNCHANGED scripted

OverlaysNext ==
  \/ \E veto \in BOOLEAN : ModalAlone(CallShow(veto))
  \/ ModalAlone(CallHide)
  \/ \E where \in {"dialog", "backdrop"} : ModalAlone(Press(where))
  \/ ModalAlone(BackdropShown) \/ ModalAlone(DialogShown)
  \/ ModalAlone(ElementTransitionEnd) \/ ModalAlone(BackdropFaded)
  \/ /\ \/ \E where \in {"dialog", "backdrop", "outside"} : ClickInModal(where)
        \/ EscapeInModal
        \/ OffcanvasNext /\ UNCHANGED DialogVars
     /\ overlapped' = (overlapped \/ Overlap')

-----------------------------------------------------------------------------
Undisturbed ==
  ~overlapped /\ ~modal.reshown /\ \A p \in Pane : ~panes[p].hurried

\* The padding that the page has between two overlays: its own, except that on a
\* page that needs no scrollbar a modal saves nothing when it comes, so that the
\* first one to go clears the padding for good.
PaddingLeft(b) == IF b.opened /\ ~b.long THEN "empty" ELSE b.loaded

\* When every overlay is gone, if they came one at a time and each was let finish,
\* the page can scroll again (its inline overflow, unset when it was loaded, is
\* auto once a pane was there), the classes and the focusin handlers are gone, and
\* its padding is the one PaddingLeft tells: what two of them save in one attribute
\* is not lost between them, and no handler is left to fight the next for the focus.
PageIsGivenBack ==
  Undisturbed =>
    /\ ~(modal.trap /\ paneTrap # 0)
    /\ PanesGone /\ ModalGone =>
         /\ ~body.open /\ ~body.dimmed /\ Scrolls(body) /\ paneTrap = 0
         /\ body.padding = PaddingLeft(body) /\ body.saved = "none"

\* What the stylesheet says of modal-open, that it kills the scroll, of a page
\* that has a pane, too: after the pane was there the page scrolls behind the modal.
ModalKillsTheScroll == Undisturbed => PageIsLocked
=============================================================================
