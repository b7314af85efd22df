------------------------------ MODULE PageBody ------------------------------
(***************************************************************************)
(* The part of document.body that overlays change to stop the page from    *)
(* scrolling: its overflow, and the padding that fills the place of the    *)
(* scrollbar, with the value it replaces kept in data-bs-padding-right     *)
(* (sass/bootstrap/js/src/util/scrollbar.js and the methods of modal.js).  *)
(***************************************************************************)
VARIABLE body

Padding == {"empty", "own", "widened"}

BodyTypeOK ==
  body \in [long     : BOOLEAN,                      \* the page needs a scrollbar
            overflow : {"unset", "hidden", "auto"},  \* inline style
            open     : BOOLEAN,                      \* class modal-open
            dimmed   : BOOLEAN,                      \* class offcanvas-backdrop
            padding  : Padding,                      \* inline padding-right
            saved    : Padding \cup {"none"},        \* data-bs-padding-right
            loaded   : {"empty", "own"},             \* history: padding at load
            opened   : BOOLEAN]                      \* history: a modal was shown

BodyLoad(long, padding) ==
  body = [long |-> long, overflow |-> "unset", open |-> FALSE, dimmed |-> FALSE,
          padding |-> padding, saved |-> "none", loaded |-> padding,
          opened |-> FALSE]

\* An inline overflow wins over the rule of .modal-open.
Scrolls(b) == b.overflow = "auto" \/ (b.overflow = "unset" /\ ~b.open)
HasScrollbar(b) == b.long /\ Scrolls(b)

\* _setElementAttributes(): remember the inline value, then widen it.
SavePadding(b, widen) ==
  [b EXCEPT !.saved = b.padding, !.padding = IF widen THEN "widened" ELSE @]

\* _resetElementAttributes(): a missing attribute clears the inline value.
RestorePadding(b) ==
  [b EXCEPT !.padding = IF b.saved = "none" THEN "empty" ELSE b.saved,
            !.saved = "none"]

\* hide() and reset() of util/scrollbar.js.
ScrollBarHide(b) ==
  SavePadding([b EXCEPT !.overflow = "hidden"], HasScrollbar(b))
ScrollBarReset(b) == RestorePadding([b EXCEPT !.overflow = "auto"])

\* _checkScrollbar() and _setScrollbar() of a modal, and what its last
\* callback undoes.
LockForModal(b) ==
  [(IF HasScrollbar(b) THEN SavePadding(b, TRUE) ELSE b) EXCEPT !.open = TRUE,
                                                                !.opened = TRUE]

\* Mutant of UnlockForModal: the padding stays.
UnlockOnly(b) == [b EXCEPT !.open = FALSE]

UnlockForModal(b) == RestorePadding([b EXCEPT !.open = FALSE])
=============================================================================
