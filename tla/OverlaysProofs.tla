--------------------------- MODULE OverlaysProofs ---------------------------
(***************************************************************************)
(* Proofs about the modal, and about a page that has a pane, too: a modal  *)
(* and the page agree on whether it is there, a drag out of the dialog     *)
(* does not dismiss it, and a modal and a pane that come one at a time     *)
(* give the page back.  With these, every variable of a page is typed.     *)
(*                                                                         *)
(* OwnsInv says at which leg of a show or a hide the page, the backdrop    *)
(* and the callbacks are taken, and is inductive; PageInv adds that one of *)
(* the two overlays is gone, and how the other one left the page; LegsInv  *)
(* that no two legs are under way, whatever overtook what.                 *)
(***************************************************************************)
EXTENDS DocsPageProofs

-----------------------------------------------------------------------------
(***************************************************************************)
(* The modal (Modal).                                                      *)
(***************************************************************************)
BodyState ==
  [long : BOOLEAN, overflow : {"unset", "hidden", "auto"}, open : BOOLEAN,
   dimmed : BOOLEAN, padding : {"empty", "own", "widened"},
   saved : {"empty", "own", "widened", "none"}, loaded : {"empty", "own"},
   opened : BOOLEAN]

\* What the overlays do to the page keeps its type, only a modal opens it, and
\* no modal touches its inline overflow.
LEMMA BodyChanges ==
  ASSUME NEW b \in BodyState
  PROVE  /\ Dialog!LockForModal(b).overflow = b.overflow
         /\ Dialog!UnlockForModal(b).overflow = b.overflow
         /\ Dialog!LockForModal(b) \in BodyState /\ Dialog!LockForModal(b).open
         /\ Dialog!UnlockForModal(b) \in BodyState /\ ~ Dialog!UnlockForModal(b).open
         /\ Panes!PageForShow(b) \in BodyState /\ Panes!PageForShow(b).open = b.open
         /\ Panes!PageForHidden(b) \in BodyState /\ Panes!PageForHidden(b).open = b.open
<1> USE DEF BodyState
<1>1. ASSUME NEW c \in BodyState, NEW w
      PROVE  /\ Dialog!SavePadding(c, w).overflow = c.overflow
             /\ Dialog!SavePadding(c, w) \in BodyState /\ Dialog!SavePadding(c, w).open = c.open
             /\ Panes!SavePadding(c, w) \in BodyState /\ Panes!SavePadding(c, w).open = c.open
  <2> DEFINE v == IF w THEN "widened" ELSE c.padding
  <2>1. /\ Dialog!SavePadding(c, w) = [c EXCEPT !.saved = c.padding, !.padding = v]
        /\ Panes!SavePadding(c, w) = [c EXCEPT !.saved = c.padding, !.padding = v]
    BY Zenon DEF Dialog!SavePadding, Panes!SavePadding
  <2>2. v \in {"empty", "own", "widened"} /\ c.padding \in {"empty", "own", "widened", "none"}
    OBVIOUS
  <2> HIDE DEF v
  <2>3. /\ [c EXCEPT !.saved = c.padding, !.padding = v] \in BodyState
        /\ [c EXCEPT !.saved = c.padding, !.padding = v].open = c.open
        /\ [c EXCEPT !.saved = c.padding, !.padding = v].overflow = c.overflow
    BY <2>2
  <2> QED
    BY <2>1, <2>3
<1>2. ASSUME NEW c \in BodyState
      PROVE  /\ Dialog!RestorePadding(c).overflow = c.overflow
             /\ Dialog!RestorePadding(c) \in BodyState /\ Dialog!RestorePadding(c).open = c.open
             /\ Panes!RestorePadding(c) \in BodyState /\ Panes!RestorePadding(c).open = c.open
  <2> DEFINE v == IF c.saved = "none" THEN "empty" ELSE c.saved
  <2>1. /\ Dialog!RestorePadding(c) = [c EXCEPT !.padding = v, !.saved = "none"]
        /\ Panes!RestorePadding(c) = [c EXCEPT !.padding = v, !.saved = "none"]
    BY Zenon DEF Dialog!RestorePadding, Panes!RestorePadding
  <2>2. v \in {"empty", "own", "widened"}
    OBVIOUS
  <2> HIDE DEF v
  <2>3. /\ [c EXCEPT !.padding = v, !.saved = "none"] \in BodyState
        /\ [c EXCEPT !.padding = v, !.saved = "none"].open = c.open
        /\ [c EXCEPT !.padding = v, !.saved = "none"].overflow = c.overflow
    BY <2>2
  <2> QED
    BY <2>1, <2>3
<1>3. /\ Dialog!LockForModal(b) \in BodyState /\ Dialog!LockForModal(b).open
      /\ Dialog!LockForModal(b).overflow = b.overflow
  <2> DEFINE c == IF Dialog!HasScrollbar(b) THEN Dialog!SavePadding(b, TRUE) ELSE b
  <2>1. c \in BodyState /\ c.overflow = b.overflow
    BY <1>1
  <2>2. Dialog!LockForModal(b) = [c EXCEPT !.open = TRUE, !.opened = TRUE]
    BY Zenon DEF Dialog!LockForModal
  <2> HIDE DEF c
  <2> QED
    BY <2>1, <2>2
<1>4. /\ Dialog!UnlockForModal(b) \in BodyState /\ ~ Dialog!UnlockForModal(b).open
      /\ Dialog!UnlockForModal(b).overflow = b.overflow
  <2>1. /\ [b EXCEPT !.open = FALSE] \in BodyState /\ ~ [b EXCEPT !.open = FALSE].open
        /\ [b EXCEPT !.open = FALSE].overflow = b.overflow
    OBVIOUS
  <2> QED
    BY <1>2, <2>1, Zenon DEF Dialog!UnlockForModal
<1>5. Panes!PageForShow(b) \in BodyState /\ Panes!PageForShow(b).open = b.open
  <2> DEFINE d == [b EXCEPT !.dimmed = b.dimmed \/ paneConf.backdrop]
  <2>1. d \in BodyState /\ d.open = b.open
    OBVIOUS
  <2>2. Panes!PageForShow(b) = IF paneConf.scroll THEN d ELSE Panes!ScrollBarHide(d)
    BY Zenon DEF Panes!PageForShow
  <2> HIDE DEF d
  <2> DEFINE h == [d EXCEPT !.overflow = "hidden"]
  <2>3. h \in BodyState /\ h.open = b.open
    BY <2>1
  <2>4. Panes!ScrollBarHide(d) = Panes!SavePadding(h, Panes!HasScrollbar(d))
    BY Zenon DEF Panes!ScrollBarHide
  <2> HIDE DEF h
  <2> QED
    BY <1>1, <2>1, <2>2, <2>3, <2>4
<1>6. Panes!PageForHidden(b) \in BodyState /\ Panes!PageForHidden(b).open = b.open
  <2> DEFINE d == [b EXCEPT !.dimmed = b.dimmed /\ ~paneConf.backdrop]
  <2>1. d \in BodyState /\ d.open = b.open
    OBVIOUS
  <2>2. Panes!PageForHidden(b) = IF paneConf.scroll THEN d ELSE Panes!ScrollBarReset(d)
    BY Zenon DEF Panes!PageForHidden
  <2> HIDE DEF d
  <2> DEFINE h == [d EXCEPT !.overflow = "auto"]
  <2>3. h \in BodyState /\ h.open = b.open
    BY <2>1
  <2>4. Panes!ScrollBarReset(d) = Panes!RestorePadding(h)
    BY Zenon DEF Panes!ScrollBarReset
  <2> HIDE DEF h
  <2> QED
    BY <1>2, <2>1, <2>2, <2>3, <2>4
<1> QED
  BY <1>3, <1>4, <1>5, <1>6
-----------------------------------------------------------------------------
\* The modal as the source keeps it, with what the page is owed by it.
ModalState ==
  [isShown : BOOLEAN, isTransitioning : BOOLEAN, displayed : BOOLEAN, trap : BOOLEAN,
   ref : BOOLEAN, backdrops : Int, backdropIn : BOOLEAN, dialogIn : BOOLEAN,
   fading : Int, onElement : Seq({"hide", "static", "overflow"}),
   static : BOOLEAN, overflowY : BOOLEAN, ignoreBackdropClick : BOOLEAN,
   mouseup : BOOLEAN, stuck : BOOLEAN, reshown : BOOLEAN]

\* The element waits for the end of its hiding.
Hiding(m) == \E i \in DOMAIN m.onElement : m.onElement[i] = "hide"

\* The modal is configured with a backdrop.
HasBackdrop == modalConf.backdrop # "none"

\* The page and the one backdrop are taken from the begin of a show to the end
\* of the last leg of a hide, which is the fading of the backdrop if there is
\* one and it is animated.
Owns(m, open) ==
  /\ open /\ m.ref = HasBackdrop /\ m.backdrops = (IF HasBackdrop THEN 1 ELSE 0)

\* Unless a hide was overtaken by a show, a modal that is shown owns the page, and
\* from the end of its backdrop's transition on it is displayed with the focus; one
\* that hides owns it until its last leg, and one that is hidden owns nothing.
OwnsInv(m, open) ==
  ~m.reshown =>
    /\ m.backdropIn \/ m.dialogIn => m.isShown
    /\ ~ (m.backdropIn /\ m.dialogIn)
    /\ m.isShown =>
         /\ Owns(m, open) /\ m.fading = 0 /\ ~ Hiding(m)
         /\ m.isTransitioning = (m.backdropIn \/ m.dialogIn)
         /\ ~m.backdropIn => m.displayed /\ m.trap
    /\ ~m.isShown => ~m.trap
    /\ ~m.isShown /\ Hiding(m) => m.isTransitioning /\ Owns(m, open) /\ m.fading = 0
    /\ ~m.isShown /\ ~ Hiding(m) =>
         /\ ~m.displayed
         /\ \/ m.fading = 0 /\ ~m.ref /\ m.backdrops = 0 /\ ~open
            \/ m.fading = 1 /\ m.ref /\ m.backdrops = 1 /\ open

\* The modal's inductive invariant: who owns the page, and that a press in the
\* dialog is remembered until the mouse is released.
ModalInv ==
  /\ modalConf \in Dialog!ModalConf
  /\ modal \in ModalState /\ body \in BodyState
  /\ OwnsInv(modal, body.open)
  /\ mouse = "dialog" => modal.mouseup

\* _showElement(), field by field.
LEMMA ShowElementFields ==
  ASSUME NEW m \in ModalState, modalConf \in Dialog!ModalConf
  PROVE  LET s == Dialog!ShowElement(m)
         IN /\ s \in ModalState /\ s.displayed /\ s.trap
            /\ s.dialogIn = modalConf.animated
            /\ s.isTransitioning = (m.isTransitioning /\ modalConf.animated)
            /\ s.isShown = m.isShown /\ s.ref = m.ref /\ s.backdrops = m.backdrops
            /\ s.backdropIn = m.backdropIn /\ s.fading = m.fading
            /\ s.onElement = m.onElement /\ s.mouseup = m.mouseup /\ s.reshown = m.reshown
BY DEF ModalState, Dialog!ModalConf, Dialog!ShowElement

\* show() after its guards, field by field.
LEMMA ShowModalFields ==
  ASSUME NEW m \in ModalState, modalConf \in Dialog!ModalConf
  PROVE  LET s == Dialog!ShowModal(m)
             waits == modalConf.animated /\ HasBackdrop
         IN /\ s \in ModalState /\ s.isShown
            /\ s.isTransitioning = modalConf.animated
            /\ s.ref = (m.ref \/ HasBackdrop)
            /\ s.backdrops = m.backdrops + (IF HasBackdrop THEN 1 ELSE 0)
            /\ s.backdropIn = (m.backdropIn \/ waits)
            /\ s.dialogIn = (IF waits THEN m.dialogIn ELSE modalConf.animated)
            /\ s.fading = m.fading /\ s.onElement = m.onElement
            /\ s.mouseup = m.mouseup /\ s.reshown = (m.reshown \/ m.fading > 0)
            /\ ~s.backdropIn => s.displayed /\ s.trap
<1> DEFINE s == [m EXCEPT !.isShown = TRUE, !.isTransitioning = modalConf.animated,
                          !.reshown = m.reshown \/ m.fading > 0]
           b == [s EXCEPT !.ref = TRUE, !.backdrops = s.backdrops + 1]
<1>1. /\ s \in ModalState /\ s.isShown /\ s.isTransitioning = modalConf.animated
      /\ s.reshown = (m.reshown \/ m.fading > 0)
      /\ s.ref = m.ref /\ s.backdrops = m.backdrops /\ s.backdropIn = m.backdropIn
      /\ s.dialogIn = m.dialogIn /\ s.fading = m.fading /\ s.onElement = m.onElement
      /\ s.mouseup = m.mouseup
  BY DEF ModalState, Dialog!ModalConf
<1>2. Dialog!ShowModal(m) = IF modalConf.backdrop = "none" THEN Dialog!ShowElement(s)
                            ELSE IF modalConf.animated THEN [b EXCEPT !.backdropIn = TRUE]
                            ELSE Dialog!ShowElement(b)
  BY DEF Dialog!ShowModal
<1> HIDE DEF s
<1>3. /\ b \in ModalState /\ b.isShown /\ b.isTransitioning = modalConf.animated
      /\ b.reshown = s.reshown /\ b.ref /\ b.backdrops = m.backdrops + 1
      /\ b.backdropIn = m.backdropIn /\ b.dialogIn = m.dialogIn /\ b.fading = m.fading
      /\ b.onElement = m.onElement /\ b.mouseup = m.mouseup
  <2>1. s.backdrops + 1 \in Int
    BY <1>1 DEF ModalState
  <2>2. b \in ModalState
    BY <1>1, <2>1 DEF ModalState
  <2>3. /\ b.isShown = s.isShown /\ b.isTransitioning = s.isTransitioning
        /\ b.reshown = s.reshown /\ b.ref /\ b.backdrops = s.backdrops + 1
        /\ b.backdropIn = s.backdropIn /\ b.dialogIn = s.dialogIn /\ b.fading = s.fading
        /\ b.onElement = s.onElement /\ b.mouseup = s.mouseup
    BY <1>1, <2>1 DEF ModalState
  <2> HIDE DEF b
  <2> QED
    BY <1>1, <2>2, <2>3
<1> HIDE DEF b
<1>4. LET i == [b EXCEPT !.backdropIn = TRUE]
      IN /\ i \in ModalState /\ i.isShown /\ i.isTransitioning = modalConf.animated
         /\ i.reshown = s.reshown /\ i.ref /\ i.backdrops = m.backdrops + 1
         /\ i.backdropIn /\ i.dialogIn = m.dialogIn /\ i.fading = m.fading
         /\ i.onElement = m.onElement /\ i.mouseup = m.mouseup
  BY <1>3 DEF ModalState
<1> DEFINE i == [b EXCEPT !.backdropIn = TRUE]
<1>5. /\ modalConf.animated \in BOOLEAN /\ s.reshown = (m.reshown \/ m.fading > 0)
      /\ Dialog!ShowModal(m) = IF ~HasBackdrop THEN Dialog!ShowElement(s)
                               ELSE IF modalConf.animated THEN i ELSE Dialog!ShowElement(b)
  BY <1>1, <1>2 DEF Dialog!ModalConf, HasBackdrop
<1>6. CASE ~HasBackdrop
  <2>1. LET n == Dialog!ShowElement(s)
        IN /\ n \in ModalState /\ n.isShown /\ n.dialogIn = modalConf.animated
           /\ n.displayed /\ n.trap
           /\ n.isTransitioning = (s.isTransitioning /\ modalConf.animated)
           /\ n.ref = s.ref /\ n.backdrops = s.backdrops /\ n.backdropIn = s.backdropIn
           /\ n.fading = s.fading /\ n.onElement = s.onElement
           /\ n.mouseup = s.mouseup /\ n.reshown = s.reshown
    BY <1>1, ShowElementFields, Zenon
  <2>2. m.backdrops + 0 = m.backdrops /\ (m.ref \/ FALSE) = m.ref
        /\ (m.backdropIn \/ FALSE) = m.backdropIn
    BY DEF ModalState
  <2> QED
    BY <1>1, <1>5, <1>6, <2>1, <2>2
<1>7. CASE HasBackdrop /\ modalConf.animated
  BY <1>4, <1>5, <1>7
<1>8. CASE HasBackdrop /\ ~modalConf.animated
  <2>1. LET n == Dialog!ShowElement(b)
        IN /\ n \in ModalState /\ n.isShown /\ n.dialogIn = modalConf.animated
           /\ n.displayed /\ n.trap
           /\ n.isTransitioning = (b.isTransitioning /\ modalConf.animated)
           /\ n.ref = b.ref /\ n.backdrops = b.backdrops /\ n.backdropIn = b.backdropIn
           /\ n.fading = b.fading /\ n.onElement = b.onElement
           /\ n.mouseup = b.mouseup /\ n.reshown = b.reshown
    BY <1>3, ShowElementFields, Zenon
  <2>2. (m.backdropIn \/ FALSE) = m.backdropIn
    BY DEF ModalState
  <2> QED
    BY <1>3, <1>5, <1>8, <2>1, <2>2
<1> QED
  BY <1>6, <1>7, <1>8

\* _hideModal(), field by field: the modal is no longer displayed, and an animated
\* backdrop begins to fade.
LEMMA HideElementFields ==
  ASSUME NEW m \in ModalState, modalConf \in Dialog!ModalConf
  PROVE  LET n == Dialog!HideElement(m)
         IN /\ n \in ModalState /\ ~n.displayed /\ ~n.isTransitioning
            /\ n.ref = (m.ref /\ modalConf.animated)
            /\ n.fading = m.fading + (IF m.ref /\ modalConf.animated THEN 1 ELSE 0)
            /\ n.backdrops = m.backdrops - (IF m.ref /\ ~modalConf.animated THEN 1 ELSE 0)
            /\ n.isShown = m.isShown /\ n.trap = m.trap
            /\ n.backdropIn = m.backdropIn /\ n.dialogIn = m.dialogIn
            /\ n.onElement = m.onElement /\ n.mouseup = m.mouseup /\ n.reshown = m.reshown
<1> DEFINE h == [m EXCEPT !.displayed = FALSE, !.isTransitioning = FALSE]
<1>1. h \in ModalState
  BY DEF ModalState
<1>2. /\ ~h.displayed /\ ~h.isTransitioning /\ h.ref = m.ref /\ h.fading = m.fading
      /\ h.backdrops = m.backdrops /\ h.isShown = m.isShown /\ h.trap = m.trap
      /\ h.backdropIn = m.backdropIn /\ h.dialogIn = m.dialogIn
      /\ h.onElement = m.onElement /\ h.mouseup = m.mouseup /\ h.reshown = m.reshown
  BY DEF ModalState
<1>3. Dialog!HideElement(m) =
        IF ~m.ref THEN h
        ELSE IF modalConf.animated THEN [h EXCEPT !.fading = h.fading + 1]
        ELSE [h EXCEPT !.ref = FALSE, !.backdrops = h.backdrops - 1]
  BY Zenon DEF Dialog!HideElement
<1> HIDE DEF h
<1>4. modalConf.animated \in BOOLEAN /\ m.ref \in BOOLEAN /\ m.fading \in Int
      /\ m.backdrops \in Int
  BY DEF Dialog!ModalConf, ModalState
<1>5. CASE ~m.ref
  BY <1>1, <1>2, <1>3, <1>4, <1>5
<1>6. CASE m.ref /\ modalConf.animated
  <2> DEFINE n == [h EXCEPT !.fading = h.fading + 1]
  <2>1. h.fading + 1 \in Int
    BY <1>2, <1>4
  <2>2. n \in ModalState
    BY <1>1, <2>1 DEF ModalState
  <2>3. /\ n.displayed = h.displayed /\ n.isTransitioning = h.isTransitioning
        /\ n.ref = h.ref /\ n.fading = h.fading + 1
        /\ n.backdrops = h.backdrops /\ n.isShown = h.isShown /\ n.trap = h.trap
        /\ n.backdropIn = h.backdropIn /\ n.dialogIn = h.dialogIn
        /\ n.onElement = h.onElement /\ n.mouseup = h.mouseup /\ n.reshown = h.reshown
    BY <1>1 DEF ModalState
  <2>4. Dialog!HideElement(m) = n
    BY <1>3, <1>6
  <2> HIDE DEF n
  <2>5. n.fading = m.fading + 1 /\ n.backdrops = m.backdrops - 0
    BY <1>2, <1>4, <2>3
  <2>6. n.ref = (m.ref /\ modalConf.animated)
    BY <1>2, <1>4, <1>6, <2>3
  <2> QED
    BY <1>2, <1>6, <2>2, <2>3, <2>4, <2>5, <2>6
<1>7. CASE m.ref /\ ~modalConf.animated
  <2> DEFINE n == [h EXCEPT !.ref = FALSE, !.backdrops = h.backdrops - 1]
  <2>1. h.backdrops - 1 \in Int
    BY <1>2, <1>4
  <2>2. n \in ModalState
    BY <1>1, <2>1 DEF ModalState
  <2>3. /\ n.displayed = h.displayed /\ n.isTransitioning = h.isTransitioning
        /\ n.ref = FALSE /\ n.fading = h.fading
        /\ n.backdrops = h.backdrops - 1 /\ n.isShown = h.isShown /\ n.trap = h.trap
        /\ n.backdropIn = h.backdropIn /\ n.dialogIn = h.dialogIn
        /\ n.onElement = h.onElement /\ n.mouseup = h.mouseup /\ n.reshown = h.reshown
    BY <1>1 DEF ModalState
  <2>4. Dialog!HideElement(m) = n
    BY <1>3, <1>7
  <2> HIDE DEF n
  <2>5. n.fading = m.fading + 0 /\ n.backdrops = m.backdrops - 1
    BY <1>2, <1>4, <2>3
  <2>6. n.ref = (m.ref /\ modalConf.animated)
    BY <1>2, <1>4, <1>7, <2>3
  <2> QED
    BY <1>2, <1>7, <2>2, <2>3, <2>4, <2>5, <2>6
<1> QED
  BY <1>4, <1>5, <1>6, <1>7

\* The parts of hide() and of the nudge of a static backdrop.
LEMMA HideModalFields ==
  ASSUME NEW m \in ModalState, modalConf \in Dialog!ModalConf
  PROVE  LET n == Dialog!HideModal(m)
         IN /\ n \in ModalState /\ n.isShown = FALSE /\ n.trap = FALSE
            /\ n.backdropIn = m.backdropIn /\ n.dialogIn = m.dialogIn
            /\ n.mouseup = m.mouseup /\ n.reshown = m.reshown
            /\ modalConf.animated =>
                 /\ n.isTransitioning /\ n.ref = m.ref /\ n.backdrops = m.backdrops
                 /\ n.fading = m.fading /\ Hiding(n)
            /\ ~modalConf.animated =>
                 /\ ~n.displayed /\ ~n.isTransitioning /\ n.ref = FALSE
                 /\ n.fading = m.fading /\ n.onElement = m.onElement
                 /\ n.backdrops = m.backdrops - (IF m.ref THEN 1 ELSE 0)
<1> DEFINE h == [m EXCEPT !.isShown = FALSE, !.trap = FALSE]
           ends == Append(h.onElement, "hide")
           a == [h EXCEPT !.isTransitioning = TRUE, !.onElement = ends]
<1>1. /\ h \in ModalState /\ h.isShown = FALSE /\ h.trap = FALSE
      /\ h.backdropIn = m.backdropIn /\ h.dialogIn = m.dialogIn
      /\ h.mouseup = m.mouseup /\ h.reshown = m.reshown
      /\ h.ref = m.ref /\ h.backdrops = m.backdrops /\ h.fading = m.fading
      /\ h.onElement = m.onElement
  BY DEF ModalState
<1>2. Dialog!HideModal(m) = IF modalConf.animated THEN a ELSE Dialog!HideElement(h)
  BY Zenon DEF Dialog!HideModal
<1> HIDE DEF h
<1>3. /\ ends \in Seq({"hide", "static", "overflow"})
      /\ Len(ends) \in DOMAIN ends /\ ends[Len(ends)] = "hide"
  BY <1>1, AppendProperties, LenProperties DEF ModalState
<1> HIDE DEF ends
<1>4. /\ a \in ModalState /\ a.isShown = h.isShown /\ a.trap = h.trap
      /\ a.backdropIn = h.backdropIn /\ a.dialogIn = h.dialogIn
      /\ a.mouseup = h.mouseup /\ a.reshown = h.reshown
      /\ a.ref = h.ref /\ a.backdrops = h.backdrops /\ a.fading = h.fading
      /\ a.isTransitioning /\ a.onElement = ends
  BY <1>1, <1>3 DEF ModalState
<1>5. Hiding(a)
  BY <1>3, <1>4, Zenon DEF Hiding
<1> HIDE DEF a
<1>6. CASE modalConf.animated
  <2>1. Dialog!HideModal(m) = a
    BY <1>2, <1>6
  <2> QED
    BY <1>1, <1>4, <1>5, <1>6, <2>1
<1>7. CASE ~modalConf.animated
  <2> DEFINE n == Dialog!HideElement(h)
  <2>1. /\ n \in ModalState /\ ~n.displayed /\ ~n.isTransitioning
        /\ n.ref = (h.ref /\ modalConf.animated)
        /\ n.fading = h.fading + (IF h.ref /\ modalConf.animated THEN 1 ELSE 0)
        /\ n.backdrops = h.backdrops - (IF h.ref /\ ~modalConf.animated THEN 1 ELSE 0)
        /\ n.isShown = h.isShown /\ n.trap = h.trap
        /\ n.backdropIn = h.backdropIn /\ n.dialogIn = h.dialogIn
        /\ n.onElement = h.onElement /\ n.mouseup = h.mouseup /\ n.reshown = h.reshown
    BY <1>1, HideElementFields, Zenon
  <2>2. Dialog!HideModal(m) = n
    BY <1>2, <1>7
  <2> HIDE DEF n
  <2>3. n.fading = m.fading /\ n.ref = FALSE
    BY <1>1, <1>7, <2>1 DEF ModalState
  <2>4. n.backdrops = m.backdrops - (IF m.ref THEN 1 ELSE 0)
    BY <1>1, <1>7, <2>1
  <2> QED
    BY <1>1, <1>7, <2>1, <2>2, <2>3, <2>4
<1> QED
  BY <1>6, <1>7

\* _triggerBackdropTransition() touches what is owed to nobody: the element's own
\* animation.
LEMMA StaticFields ==
  ASSUME NEW m \in ModalState, modalConf \in Dialog!ModalConf
  PROVE  LET n == Dialog!StaticTransition(m)
         IN /\ n \in ModalState /\ n.isShown = m.isShown /\ n.trap = m.trap
            /\ n.isTransitioning = m.isTransitioning /\ n.displayed = m.displayed
            /\ n.backdropIn = m.backdropIn /\ n.dialogIn = m.dialogIn
            /\ n.ref = m.ref /\ n.backdrops = m.backdrops /\ n.fading = m.fading
            /\ n.mouseup = m.mouseup /\ n.reshown = m.reshown /\ ~ Hiding(n)
<1> DEFINE e == <<"static">>
           y == m.overflowY \/ ~modalConf.tall
           n == [m EXCEPT !.static = TRUE, !.overflowY = y, !.onElement = e]
<1>1. Dialog!StaticTransition(m) = n
  BY Zenon DEF Dialog!StaticTransition
<1>2. e \in Seq({"hide", "static", "overflow"}) /\ \A i \in DOMAIN e : e[i] # "hide"
  OBVIOUS
<1>3. y \in BOOLEAN
  BY DEF Dialog!ModalConf, ModalState
<1> HIDE DEF e, y
<1>4. n \in ModalState /\ n.onElement = e
  BY <1>2, <1>3 DEF ModalState
<1>5. /\ n.isShown = m.isShown /\ n.trap = m.trap
      /\ n.isTransitioning = m.isTransitioning /\ n.displayed = m.displayed
      /\ n.backdropIn = m.backdropIn /\ n.dialogIn = m.dialogIn
      /\ n.ref = m.ref /\ n.backdrops = m.backdrops /\ n.fading = m.fading
      /\ n.mouseup = m.mouseup /\ n.reshown = m.reshown
  BY DEF ModalState
<1> HIDE DEF n
<1> QED
  BY <1>1, <1>2, <1>4, <1>5 DEF Hiding
-----------------------------------------------------------------------------
\* show() takes the page.
LEMMA ShowOwns ==
  ASSUME NEW m \in ModalState, modalConf \in Dialog!ModalConf, NEW open \in BOOLEAN,
         OwnsInv(m, open), ~m.isShown, ~m.isTransitioning
  PROVE  OwnsInv(Dialog!ShowModal(m), TRUE)
<1> DEFINE s == Dialog!ShowModal(m)
           waits == modalConf.animated /\ HasBackdrop
<1>1. /\ s \in ModalState /\ s.isShown
      /\ s.isTransitioning = modalConf.animated
      /\ s.ref = (m.ref \/ HasBackdrop)
      /\ s.backdrops = m.backdrops + (IF HasBackdrop THEN 1 ELSE 0)
      /\ s.backdropIn = (m.backdropIn \/ waits)
      /\ s.dialogIn = (IF waits THEN m.dialogIn ELSE modalConf.animated)
      /\ s.fading = m.fading /\ s.onElement = m.onElement
      /\ s.mouseup = m.mouseup /\ s.reshown = (m.reshown \/ m.fading > 0)
      /\ ~s.backdropIn => s.displayed /\ s.trap
  BY ShowModalFields, Zenon
<1> SUFFICES OwnsInv(s, TRUE)
  OBVIOUS
<1> HIDE DEF s
<1> SUFFICES ASSUME ~s.reshown PROVE OwnsInv(s, TRUE)
  BY DEF OwnsInv
<1>2. ~m.reshown /\ ~ (m.fading > 0)
  BY <1>1
<1>3. /\ m.backdropIn = FALSE /\ m.dialogIn = FALSE /\ ~ Hiding(m)
      /\ m.fading = 0 /\ m.ref = FALSE /\ m.backdrops = 0
  BY <1>2 DEF OwnsInv, ModalState
<1>4. ~ Hiding(s)
  BY <1>1, <1>3 DEF Hiding
<1>5. Owns(s, TRUE)
  BY <1>1, <1>3 DEF Owns, HasBackdrop
<1> QED
  BY <1>1, <1>3, <1>4, <1>5 DEF OwnsInv, HasBackdrop, Dialog!ModalConf

\* hide() keeps it until the last leg when it is animated, and gives it back at
\* once when not.
LEMMA HideOwns ==
  ASSUME NEW m \in ModalState, modalConf \in Dialog!ModalConf, NEW open \in BOOLEAN,
         OwnsInv(m, open), m.isShown, ~m.isTransitioning
  PROVE  OwnsInv(Dialog!HideModal(m), open /\ modalConf.animated)
<1> DEFINE n == Dialog!HideModal(m)
<1>1. /\ n \in ModalState /\ n.isShown = FALSE /\ n.trap = FALSE
      /\ n.backdropIn = m.backdropIn /\ n.dialogIn = m.dialogIn
      /\ n.mouseup = m.mouseup /\ n.reshown = m.reshown
      /\ modalConf.animated =>
           /\ n.isTransitioning /\ n.ref = m.ref /\ n.backdrops = m.backdrops
           /\ n.fading = m.fading /\ Hiding(n)
      /\ ~modalConf.animated =>
           /\ ~n.displayed /\ ~n.isTransitioning /\ n.ref = FALSE
           /\ n.fading = m.fading /\ n.onElement = m.onElement
           /\ n.backdrops = m.backdrops - (IF m.ref THEN 1 ELSE 0)
  BY HideModalFields, Zenon
<1> SUFFICES OwnsInv(n, open /\ modalConf.animated)
  OBVIOUS
<1> HIDE DEF n
<1> SUFFICES ASSUME ~n.reshown PROVE OwnsInv(n, open /\ modalConf.animated)
  BY DEF OwnsInv
<1>2. /\ m.backdropIn = FALSE /\ m.dialogIn = FALSE /\ ~ Hiding(m)
      /\ m.fading = 0 /\ Owns(m, open) /\ open
  BY <1>1 DEF OwnsInv, ModalState, Owns
<1>3. CASE modalConf.animated
  <2>1. Owns(n, open /\ modalConf.animated)
    BY <1>1, <1>2, <1>3 DEF Owns
  <2> QED
    BY <1>1, <1>2, <1>3, <2>1 DEF OwnsInv
<1>4. CASE ~modalConf.animated
  <2>1. ~ Hiding(n)
    BY <1>1, <1>2, <1>4 DEF Hiding
  <2>2. n.backdrops = 0
    BY <1>1, <1>2, <1>4 DEF Owns
  <2> QED
    BY <1>1, <1>2, <1>4, <2>1, <2>2 DEF OwnsInv
<1> QED
  BY <1>3, <1>4

\* What does not touch the fields of OwnsInv keeps it.
LEMMA StillOwns ==
  ASSUME NEW m \in ModalState, NEW n \in ModalState, NEW open, OwnsInv(m, open),
         n.isShown = m.isShown, n.trap = m.trap, n.displayed = m.displayed,
         n.isTransitioning = m.isTransitioning,
         n.backdropIn = m.backdropIn, n.dialogIn = m.dialogIn,
         n.ref = m.ref, n.backdrops = m.backdrops, n.fading = m.fading,
         n.reshown = m.reshown, Hiding(n) <=> Hiding(m)
  PROVE  OwnsInv(n, open)
BY DEF OwnsInv, Owns

\* A refused hide gives nothing back.
LEMMA StaticOwns ==
  ASSUME NEW m \in ModalState, modalConf \in Dialog!ModalConf, NEW open,
         OwnsInv(m, open), m.isShown
  PROVE  OwnsInv(Dialog!StaticTransition(m), open)
<1> DEFINE n == Dialog!StaticTransition(m)
<1>1. /\ n \in ModalState /\ n.isShown = m.isShown /\ n.trap = m.trap
      /\ n.isTransitioning = m.isTransitioning /\ n.displayed = m.displayed
      /\ n.backdropIn = m.backdropIn /\ n.dialogIn = m.dialogIn
      /\ n.ref = m.ref /\ n.backdrops = m.backdrops /\ n.fading = m.fading
      /\ n.mouseup = m.mouseup /\ n.reshown = m.reshown /\ ~ Hiding(n)
  BY StaticFields, Zenon
<1> SUFFICES OwnsInv(n, open)
  OBVIOUS
<1> HIDE DEF n
<1> QED
  BY <1>1 DEF OwnsInv, Owns
-----------------------------------------------------------------------------
\* The invariant after a step, from its parts.
LEMMA StepOwns ==
  ASSUME ModalInv, modalConf' = modalConf, modal' \in ModalState, body' \in BodyState,
         OwnsInv(modal', body'.open), mouse' = "dialog" => modal'.mouseup
  PROVE  ModalInv'
<1>1. OwnsInv(modal, body.open)'
  BY DEF OwnsInv, Owns, HasBackdrop, Hiding
<1> QED
  BY <1>1 DEF ModalInv

\* hide() together with what it does to the page.
LEMMA HideAndPageKeeps ==
  ASSUME NEW m \in ModalState, modalConf \in Dialog!ModalConf, body \in BodyState,
         OwnsInv(m, body.open), m.isShown, ~m.isTransitioning, Dialog!HideAndPage(m)
  PROVE  /\ modal' \in ModalState /\ body' \in BodyState
         /\ OwnsInv(modal', body'.open) /\ modal'.mouseup = m.mouseup
<1>1. /\ modal' = Dialog!HideModal(m)
      /\ body' = IF modalConf.animated THEN body ELSE Dialog!UnlockForModal(body)
  BY DEF Dialog!HideAndPage
<1>2. body.open \in BOOLEAN /\ modalConf.animated \in BOOLEAN
  BY DEF BodyState, Dialog!ModalConf
<1>3. modal' \in ModalState /\ modal'.mouseup = m.mouseup
  BY <1>1, HideModalFields
<1>4. OwnsInv(modal', body.open /\ modalConf.animated)
  BY <1>1, <1>2, HideOwns
<1>5. body' \in BodyState /\ body'.open = (body.open /\ modalConf.animated)
  BY <1>1, <1>2, BodyChanges DEF BodyState
<1>6. OwnsInv(modal', body'.open)
  BY <1>4, <1>5
<1> QED
  BY <1>3, <1>5, <1>6

\* A call of show() keeps the invariant, refused or not.
LEMMA CallShowKeeps ==
  ASSUME ModalInv, NEW veto \in BOOLEAN, Dialog!CallShow(veto)
  PROVE  ModalInv'
<1>1. /\ modalConf \in Dialog!ModalConf /\ modal \in ModalState /\ body \in BodyState
      /\ OwnsInv(modal, body.open) /\ (mouse = "dialog" => modal.mouseup)
      /\ body.open \in BOOLEAN /\ modalConf.animated \in BOOLEAN
  BY DEF ModalInv, BodyState, Dialog!ModalConf
<1>2. /\ ~modal.isShown /\ ~modal.isTransitioning
      /\ modalConf' = modalConf /\ mouse' = mouse
  BY DEF Dialog!CallShow, Dialog!MayShow
<1>3. CASE ~veto
  <2>1. modal' = Dialog!ShowModal(modal) /\ body' = Dialog!LockForModal(body)
    BY <1>3 DEF Dialog!CallShow
  <2>2. modal' \in ModalState /\ modal'.mouseup = modal.mouseup
    BY <1>1, <2>1, ShowModalFields
  <2>3. OwnsInv(modal', TRUE)
    BY <1>1, <1>2, <2>1, ShowOwns
  <2>4. body' \in BodyState /\ body'.open = TRUE
    BY <1>1, <2>1, BodyChanges DEF BodyState
  <2> QED
    BY <1>1, <1>2, <2>2, <2>3, <2>4, StepOwns
<1>4. CASE veto
  <2> DEFINE w == modal.stuck \/ modalConf.animated
             n == [modal EXCEPT !.isTransitioning = modalConf.animated, !.stuck = w]
  <2>1. modal' = n /\ body' = body
    BY <1>4 DEF Dialog!CallShow
  <2>2. w \in BOOLEAN
    BY <1>1 DEF ModalState
  <2> HIDE DEF w
  <2>3. n \in ModalState
    BY <1>1, <2>2 DEF ModalState
  <2>4. /\ n.isShown = modal.isShown /\ n.trap = modal.trap /\ n.displayed = modal.displayed
        /\ n.backdropIn = modal.backdropIn /\ n.dialogIn = modal.dialogIn
        /\ n.ref = modal.ref /\ n.backdrops = modal.backdrops /\ n.fading = modal.fading
        /\ n.reshown = modal.reshown /\ n.onElement = modal.onElement
        /\ n.mouseup = modal.mouseup
    BY <1>1 DEF ModalState
  <2> HIDE DEF n
  <2>5. OwnsInv(n, body.open)
    <3>1. ~modal.reshown => ~ Hiding(modal)
      BY <1>1, <1>2 DEF OwnsInv
    <3>2. Hiding(n) <=> Hiding(modal)
      BY <2>4 DEF Hiding
    <3> QED
      BY <1>1, <1>2, <2>4, <3>1, <3>2 DEF OwnsInv
  <2> QED
    BY <1>1, <1>2, <2>1, <2>3, <2>4, <2>5, StepOwns
<1> QED
  BY <1>3, <1>4

\* hide() and the Escape key.
LEMMA HideKeeps ==
  ASSUME ModalInv, Dialog!CallHide \/ Dialog!ModalEscape
  PROVE  ModalInv'
<1>1. /\ modalConf \in Dialog!ModalConf /\ modal \in ModalState /\ body \in BodyState
      /\ OwnsInv(modal, body.open) /\ (mouse = "dialog" => modal.mouseup)
  BY DEF ModalInv
<1>2. modalConf' = modalConf /\ mouse' = mouse
  BY DEF Dialog!CallHide, Dialog!ModalEscape
<1>3. CASE modal.isShown /\ ~modal.isTransitioning /\ Dialog!HideAndPage(modal)
  BY <1>1, <1>2, <1>3, HideAndPageKeeps, StepOwns
<1>4. CASE modal.isShown /\ modal' = Dialog!StaticTransition(modal) /\ UNCHANGED body
  <2>1. OwnsInv(modal', body.open)
    BY <1>1, <1>4, StaticOwns
  <2>2. modal' \in ModalState /\ modal'.mouseup = modal.mouseup
    BY <1>1, <1>4, StaticFields
  <2> QED
    BY <1>1, <1>2, <1>4, <2>1, <2>2, StepOwns
<1>5. CASE UNCHANGED <<modal, body>>
  BY <1>1, <1>2, <1>5, StepOwns
<1> QED
  BY <1>3, <1>4, <1>5 DEF Dialog!CallHide, Dialog!ModalEscape, Dialog!MayHide

\* A press of the mouse keeps it, and one in the dialog is remembered.
LEMMA PressKeeps ==
  ASSUME ModalInv, NEW where, Dialog!Press(where)
  PROVE  ModalInv'
<1> DEFINE w == modal.mouseup \/ (where = "dialog" /\ modal.isShown)
           n == [modal EXCEPT !.mouseup = w]
<1>1. /\ modalConf \in Dialog!ModalConf /\ modal \in ModalState /\ body \in BodyState
      /\ OwnsInv(modal, body.open)
  BY DEF ModalInv
<1>2. /\ modalConf' = modalConf /\ body' = body /\ modal' = n
      /\ mouse' = IF where = "dialog" /\ ~modal.isShown THEN "stray" ELSE where
  BY DEF Dialog!Press
<1>3. w \in BOOLEAN
  BY <1>1 DEF ModalState
<1>4. mouse' = "dialog" => w
  BY <1>2
<1> HIDE DEF w
<1>5. n \in ModalState /\ n.mouseup = w
  BY <1>1, <1>3 DEF ModalState
<1>6. /\ n.isShown = modal.isShown /\ n.trap = modal.trap /\ n.displayed = modal.displayed
      /\ n.isTransitioning = modal.isTransitioning
      /\ n.backdropIn = modal.backdropIn /\ n.dialogIn = modal.dialogIn
      /\ n.ref = modal.ref /\ n.backdrops = modal.backdrops /\ n.fading = modal.fading
      /\ n.reshown = modal.reshown /\ n.onElement = modal.onElement
  BY <1>1 DEF ModalState
<1> HIDE DEF n
<1>7. OwnsInv(n, body.open)
  <2>1. Hiding(n) <=> Hiding(modal)
    BY <1>6 DEF Hiding
  <2> QED
    BY <1>1, <1>5, <1>6, <2>1, StillOwns
<1> QED
  BY <1>1, <1>2, <1>4, <1>5, <1>7, StepOwns

\* A click, which a press inside the dialog makes harmless.
LEMMA ReleaseKeeps ==
  ASSUME ModalInv, NEW where, Dialog!Release(where)
  PROVE  ModalInv' /\ (mouse = "dialog" => modal'.isShown = modal.isShown)
<1> DEFINE w == modal.ignoreBackdropClick \/ (modal.mouseup /\ where = "backdrop")
           m == [modal EXCEPT !.mouseup = FALSE, !.ignoreBackdropClick = w]
           onElement == mouse = "backdrop" \/ where = "backdrop"
           i == [m EXCEPT !.ignoreBackdropClick = FALSE]
<1>1. /\ modalConf \in Dialog!ModalConf /\ modal \in ModalState /\ body \in BodyState
      /\ OwnsInv(modal, body.open) /\ (mouse = "dialog" => modal.mouseup)
  BY DEF ModalInv
<1>2. modalConf' = modalConf /\ mouse' = "up"
  BY DEF Dialog!Release
<1>3. \/ UNCHANGED <<modal, body>>
      \/ modal' = m /\ UNCHANGED body
      \/ modal' = i /\ UNCHANGED body
      \/ ~m.ignoreBackdropClick /\ onElement /\ m.isShown
           /\ modal' = Dialog!StaticTransition(m) /\ UNCHANGED body
      \/ ~m.ignoreBackdropClick /\ onElement /\ m.isShown /\ ~m.isTransitioning
           /\ Dialog!HideAndPage(m)
  BY DEF Dialog!Release
<1>4. w \in BOOLEAN /\ (mouse = "dialog" /\ onElement => w)
  BY <1>1 DEF ModalState
<1> HIDE DEF w
<1>5. m \in ModalState /\ m.ignoreBackdropClick = w
  BY <1>1, <1>4 DEF ModalState
<1>6. /\ m.isShown = modal.isShown /\ m.trap = modal.trap /\ m.displayed = modal.displayed
      /\ m.isTransitioning = modal.isTransitioning
      /\ m.backdropIn = modal.backdropIn /\ m.dialogIn = modal.dialogIn
      /\ m.ref = modal.ref /\ m.backdrops = modal.backdrops /\ m.fading = modal.fading
      /\ m.reshown = modal.reshown /\ m.onElement = modal.onElement
  BY <1>1, <1>4 DEF ModalState
<1> HIDE DEF m
<1>7. OwnsInv(m, body.open)
  <2>1. Hiding(m) <=> Hiding(modal)
    BY <1>6 DEF Hiding
  <2> QED
    BY <1>1, <1>5, <1>6, <2>1, StillOwns
<1>8. CASE UNCHANGED <<modal, body>>
  BY <1>1, <1>2, <1>8, StepOwns
<1>9. CASE modal' = m /\ UNCHANGED body
  BY <1>1, <1>2, <1>5, <1>6, <1>7, <1>9, StepOwns
<1>10. CASE modal' = i /\ UNCHANGED body
  <2>1. i \in ModalState
    BY <1>5 DEF ModalState
  <2>2. /\ i.isShown = m.isShown /\ i.trap = m.trap /\ i.displayed = m.displayed
        /\ i.isTransitioning = m.isTransitioning
        /\ i.backdropIn = m.backdropIn /\ i.dialogIn = m.dialogIn
        /\ i.ref = m.ref /\ i.backdrops = m.backdrops /\ i.fading = m.fading
        /\ i.reshown = m.reshown /\ i.onElement = m.onElement
    BY <1>5 DEF ModalState
  <2> HIDE DEF i
  <2>3. Hiding(i) <=> Hiding(m)
    BY <2>2 DEF Hiding
  <2>4. OwnsInv(i, body.open)
    BY <1>5, <1>7, <2>1, <2>2, <2>3, StillOwns
  <2> QED
    BY <1>1, <1>2, <1>6, <1>10, <2>1, <2>2, <2>4, StepOwns
<1>11. CASE /\ ~m.ignoreBackdropClick /\ onElement /\ m.isShown
            /\ modal' = Dialog!StaticTransition(m) /\ UNCHANGED body
  <2>1. OwnsInv(modal', body.open) /\ modal' \in ModalState
    BY <1>1, <1>5, <1>7, <1>11, StaticOwns, StaticFields
  <2>2. mouse # "dialog"
    BY <1>4, <1>5, <1>11
  <2> QED
    BY <1>1, <1>2, <1>11, <2>1, <2>2, StepOwns
<1>12. CASE /\ ~m.ignoreBackdropClick /\ onElement /\ m.isShown /\ ~m.isTransitioning
            /\ Dialog!HideAndPage(m)
  <2>1. OwnsInv(modal', body'.open) /\ modal' \in ModalState /\ body' \in BodyState
    BY <1>1, <1>5, <1>7, <1>12, HideAndPageKeeps
  <2>2. mouse # "dialog"
    BY <1>4, <1>5, <1>12
  <2> QED
    BY <1>1, <1>2, <2>1, <2>2, StepOwns
<1> QED
  BY <1>3, <1>8, <1>9, <1>10, <1>11, <1>12

\* The ends of the two legs of a show.
LEMMA ShownKeeps ==
  ASSUME ModalInv, Dialog!BackdropShown \/ Dialog!DialogShown
  PROVE  ModalInv'
<1>1. /\ modalConf \in Dialog!ModalConf /\ modal \in ModalState /\ body \in BodyState
      /\ OwnsInv(modal, body.open) /\ (mouse = "dialog" => modal.mouseup)
      /\ modalConf.animated \in BOOLEAN
  BY DEF ModalInv, Dialog!ModalConf
<1>2. modalConf' = modalConf /\ mouse' = mouse /\ body' = body
  BY DEF Dialog!BackdropShown, Dialog!DialogShown
<1>3. CASE Dialog!BackdropShown
  <2> DEFINE m == [modal EXCEPT !.backdropIn = FALSE]
             n == Dialog!ShowElement(m)
  <2>1. modal' = n /\ modal.backdropIn
    BY <1>3 DEF Dialog!BackdropShown
  <2>2. m \in ModalState /\ m.backdropIn = FALSE
    BY <1>1 DEF ModalState
  <2>3. /\ m.isShown = modal.isShown /\ m.isTransitioning = modal.isTransitioning
        /\ m.dialogIn = modal.dialogIn
        /\ m.ref = modal.ref /\ m.backdrops = modal.backdrops /\ m.fading = modal.fading
        /\ m.reshown = modal.reshown /\ m.onElement = modal.onElement
        /\ m.mouseup = modal.mouseup
    BY <1>1 DEF ModalState
  <2> HIDE DEF m
  <2>4. /\ n \in ModalState /\ n.displayed /\ n.trap
        /\ n.dialogIn = modalConf.animated
        /\ n.isTransitioning = (m.isTransitioning /\ modalConf.animated)
        /\ n.isShown = m.isShown /\ n.ref = m.ref /\ n.backdrops = m.backdrops
        /\ n.backdropIn = m.backdropIn /\ n.fading = m.fading
        /\ n.onElement = m.onElement /\ n.mouseup = m.mouseup /\ n.reshown = m.reshown
    BY <1>1, <2>2, ShowElementFields, Zenon
  <2> HIDE DEF n
  <2>5. OwnsInv(n, body.open)
    <3> SUFFICES ASSUME ~n.reshown PROVE OwnsInv(n, body.open)
      BY DEF OwnsInv
    <3>1. /\ modal.isShown /\ Owns(modal, body.open) /\ modal.fading = 0 /\ ~ Hiding(modal)
          /\ modal.isTransitioning
      BY <1>1, <2>1, <2>3, <2>4 DEF OwnsInv
    <3>2. ~ Hiding(n) /\ Owns(n, body.open)
      BY <2>3, <2>4, <3>1 DEF Hiding, Owns
    <3> QED
      BY <1>1, <2>2, <2>3, <2>4, <3>1, <3>2 DEF OwnsInv
  <2> QED
    BY <1>1, <1>2, <2>1, <2>3, <2>4, <2>5, StepOwns
<1>4. CASE Dialog!DialogShown
  <2> DEFINE n == [modal EXCEPT !.dialogIn = FALSE, !.isTransitioning = FALSE]
  <2>1. modal' = n /\ modal.dialogIn
    BY <1>4 DEF Dialog!DialogShown
  <2>2. n \in ModalState /\ n.dialogIn = FALSE /\ n.isTransitioning = FALSE
    BY <1>1 DEF ModalState
  <2>3. /\ n.isShown = modal.isShown
        /\ n.displayed = modal.displayed /\ n.trap = modal.trap
        /\ n.backdropIn = modal.backdropIn
        /\ n.ref = modal.ref /\ n.backdrops = modal.backdrops /\ n.fading = modal.fading
        /\ n.reshown = modal.reshown /\ n.onElement = modal.onElement
        /\ n.mouseup = modal.mouseup
    BY <1>1 DEF ModalState
  <2> HIDE DEF n
  <2>5. OwnsInv(n, body.open)
    <3> SUFFICES ASSUME ~n.reshown PROVE OwnsInv(n, body.open)
      BY DEF OwnsInv
    <3>1. /\ modal.isShown /\ Owns(modal, body.open) /\ modal.fading = 0 /\ ~ Hiding(modal)
          /\ modal.backdropIn = FALSE /\ modal.displayed /\ modal.trap
      BY <1>1, <2>1, <2>3 DEF OwnsInv, ModalState
    <3>2. ~ Hiding(n) /\ Owns(n, body.open)
      BY <2>3, <3>1 DEF Hiding, Owns
    <3> QED
      BY <2>2, <2>3, <3>1, <3>2 DEF OwnsInv
  <2> QED
    BY <1>1, <1>2, <2>1, <2>2, <2>3, <2>5, StepOwns
<1> QED
  BY <1>3, <1>4

\* The end of a transition of the element, which may be that of its hiding.
LEMMA ElementEndKeeps ==
  ASSUME ModalInv, Dialog!ElementTransitionEnd
  PROVE  ModalInv'
<1> DEFINE ends == {modal.onElement[i] : i \in DOMAIN modal.onElement}
           a == modal.static /\ "static" \notin ends
           b == modal.overflowY /\ "overflow" \notin ends
           c == IF "static" \in ends /\ ~modalConf.tall THEN <<"overflow">> ELSE <<>>
           m == [modal EXCEPT !.static = a, !.overflowY = b, !.onElement = c]
<1>1. /\ modalConf \in Dialog!ModalConf /\ modal \in ModalState /\ body \in BodyState
      /\ OwnsInv(modal, body.open) /\ (mouse = "dialog" => modal.mouseup)
      /\ modalConf.animated \in BOOLEAN
  BY DEF ModalInv, Dialog!ModalConf
<1>2. /\ modalConf' = modalConf /\ mouse' = mouse
      /\ modal' = IF "hide" \in ends THEN Dialog!HideElement(m) ELSE m
      /\ body' = IF "hide" \in ends /\ Dialog!PageFollows(m)
                 THEN Dialog!UnlockForModal(body) ELSE body
  BY Zenon DEF Dialog!ElementTransitionEnd
<1>3. "hide" \in ends <=> Hiding(modal)
  BY DEF Hiding
<1>4. /\ a \in BOOLEAN /\ b \in BOOLEAN /\ c \in Seq({"hide", "static", "overflow"})
      /\ \A i \in DOMAIN c : c[i] # "hide"
  <2>1. modal.static \in BOOLEAN /\ modal.overflowY \in BOOLEAN
    BY <1>1 DEF ModalState
  <2>2. /\ <<"overflow">> \in Seq({"hide", "static", "overflow"})
        /\ \A i \in DOMAIN <<"overflow">> : <<"overflow">>[i] # "hide"
        /\ <<>> \in Seq({"hide", "static", "overflow"})
        /\ \A i \in DOMAIN <<>> : <<>>[i] # "hide"
    OBVIOUS
  <2> HIDE DEF ends
  <2> QED
    BY <2>1, <2>2
<1> HIDE DEF ends, a, b, c
<1>5. m \in ModalState /\ m.onElement = c
  BY <1>1, <1>4 DEF ModalState
<1>6. /\ m.isShown = modal.isShown /\ m.trap = modal.trap /\ m.displayed = modal.displayed
      /\ m.isTransitioning = modal.isTransitioning
      /\ m.backdropIn = modal.backdropIn /\ m.dialogIn = modal.dialogIn
      /\ m.ref = modal.ref /\ m.backdrops = modal.backdrops /\ m.fading = modal.fading
      /\ m.reshown = modal.reshown /\ m.mouseup = modal.mouseup
  BY <1>1 DEF ModalState
<1> HIDE DEF m
<1>7. ~ Hiding(m)
  BY <1>4, <1>5 DEF Hiding
<1>8. CASE ~ Hiding(modal)
  <2>1. OwnsInv(m, body.open)
    BY <1>1, <1>5, <1>6, <1>7, <1>8, StillOwns
  <2> QED
    BY <1>1, <1>2, <1>3, <1>5, <1>6, <1>8, <2>1, StepOwns
<1>9. CASE Hiding(modal)
  <2> DEFINE n == Dialog!HideElement(m)
  <2>1. /\ n \in ModalState /\ ~n.displayed /\ ~n.isTransitioning
        /\ n.ref = (m.ref /\ modalConf.animated)
        /\ n.fading = m.fading + (IF m.ref /\ modalConf.animated THEN 1 ELSE 0)
        /\ n.backdrops = m.backdrops - (IF m.ref /\ ~modalConf.animated THEN 1 ELSE 0)
        /\ n.isShown = m.isShown /\ n.trap = m.trap
        /\ n.backdropIn = m.backdropIn /\ n.dialogIn = m.dialogIn
        /\ n.onElement = m.onElement /\ n.mouseup = m.mouseup /\ n.reshown = m.reshown
    BY <1>1, <1>5, HideElementFields, Zenon
  <2>2. modal' = n
    BY <1>2, <1>3, <1>9
  <2> HIDE DEF n
  <2>3. /\ body' \in BodyState
        /\ body'.open = IF ~m.ref \/ ~modalConf.animated THEN FALSE ELSE body.open
    BY <1>1, <1>2, <1>3, <1>9, BodyChanges DEF Dialog!PageFollows, BodyState
  <2>4. ~ Hiding(n)
    BY <1>7, <2>1 DEF Hiding
  <2>5. OwnsInv(n, body'.open)
    <3> SUFFICES ASSUME ~n.reshown PROVE OwnsInv(n, body'.open)
      BY DEF OwnsInv
    <3>1. modal.isShown = FALSE /\ Owns(modal, body.open) /\ modal.fading = 0
      BY <1>1, <1>6, <1>9, <2>1 DEF OwnsInv, ModalState
    <3>2. modal.backdropIn = FALSE /\ modal.dialogIn = FALSE /\ modal.trap = FALSE
      BY <1>1, <1>6, <2>1, <3>1 DEF OwnsInv, ModalState
    <3>3. /\ ~m.ref => n.fading = 0 /\ ~n.ref /\ n.backdrops = 0 /\ ~body'.open
          /\ m.ref /\ modalConf.animated =>
               n.fading = 1 /\ n.ref /\ n.backdrops = 1 /\ body'.open
          /\ m.ref /\ ~modalConf.animated =>
               n.fading = 0 /\ ~n.ref /\ n.backdrops = 0 /\ ~body'.open
      <4>1. /\ m.fading = 0 /\ m.backdrops = (IF m.ref THEN 1 ELSE 0)
            /\ body.open /\ m.ref \in BOOLEAN
        BY <1>5, <1>6, <3>1 DEF Owns, ModalState
      <4>2. n.ref <=> m.ref /\ modalConf.animated
        BY <2>1
      <4>3. ASSUME ~m.ref PROVE n.fading = 0 /\ n.backdrops = 0
        BY <2>1, <4>1, <4>3
      <4>4. ASSUME m.ref, modalConf.animated PROVE n.fading = 1 /\ n.backdrops = 1
        BY <2>1, <4>1, <4>4
      <4>5. ASSUME m.ref, ~modalConf.animated PROVE n.fading = 0 /\ n.backdrops = 0
        BY <2>1, <4>1, <4>5
      <4> QED
        BY <2>3, <4>1, <4>2, <4>3, <4>4, <4>5
    <3> QED
      BY <1>1, <1>6, <2>1, <2>4, <3>1, <3>2, <3>3 DEF OwnsInv
  <2> QED
    BY <1>1, <1>2, <1>6, <2>1, <2>2, <2>3, <2>5, StepOwns
<1> QED
  BY <1>8, <1>9

\* The end of the fading of a backdrop, the last leg of a hide.
LEMMA FadedKeeps ==
  ASSUME ModalInv, Dialog!BackdropFaded
  PROVE  ModalInv'
<1> DEFINE k == IF modal.ref THEN modal.backdrops - 1 ELSE modal.backdrops
           f == modal.fading - 1
           n == [modal EXCEPT !.fading = f, !.ref = FALSE, !.backdrops = k]
<1>1. /\ modalConf \in Dialog!ModalConf /\ modal \in ModalState /\ body \in BodyState
      /\ OwnsInv(modal, body.open) /\ (mouse = "dialog" => modal.mouseup)
      /\ modal.fading \in Int /\ modal.backdrops \in Int
  BY DEF ModalInv, ModalState
<1>2. /\ modalConf' = modalConf /\ mouse' = mouse /\ modal.fading > 0 /\ modal' = n
      /\ body' = IF modal.ref THEN Dialog!UnlockForModal(body) ELSE body
  BY Zenon DEF Dialog!BackdropFaded
<1>3. k \in Int /\ f \in Int
  BY <1>1
<1>4. modal.ref /\ modal.backdrops = 1 => k = 0
  OBVIOUS
<1>5. modal.fading = 1 => f = 0
  OBVIOUS
<1> HIDE DEF k, f
<1>6. n \in ModalState /\ n.fading = f /\ n.ref = FALSE /\ n.backdrops = k
  BY <1>1, <1>3 DEF ModalState
<1>7. /\ n.isShown = modal.isShown /\ n.trap = modal.trap /\ n.displayed = modal.displayed
      /\ n.isTransitioning = modal.isTransitioning
      /\ n.backdropIn = modal.backdropIn /\ n.dialogIn = modal.dialogIn
      /\ n.onElement = modal.onElement
      /\ n.reshown = modal.reshown /\ n.mouseup = modal.mouseup
  BY <1>1 DEF ModalState
<1> HIDE DEF n
<1>8. body' \in BodyState /\ (modal.ref => body'.open = FALSE)
  BY <1>1, <1>2, BodyChanges DEF BodyState
<1>9. OwnsInv(n, body'.open)
  <2> SUFFICES ASSUME ~n.reshown PROVE OwnsInv(n, body'.open)
    BY DEF OwnsInv
  <2>1. modal.isShown = FALSE /\ ~ Hiding(modal)
    BY <1>1, <1>2, <1>7 DEF OwnsInv, ModalState
  <2>2. /\ modal.fading = 1 /\ modal.ref /\ modal.backdrops = 1 /\ ~modal.displayed
        /\ modal.backdropIn = FALSE /\ modal.dialogIn = FALSE /\ modal.trap = FALSE
    BY <1>1, <1>2, <1>7, <2>1 DEF OwnsInv, ModalState
  <2>3. ~ Hiding(n)
    BY <1>7, <2>1 DEF Hiding
  <2> QED
    BY <1>4, <1>5, <1>6, <1>7, <1>8, <2>1, <2>2, <2>3 DEF OwnsInv
<1> QED
  BY <1>1, <1>2, <1>6, <1>7, <1>8, <1>9, StepOwns

-----------------------------------------------------------------------------
(***************************************************************************)
(* The two instances of Modal are the same, and what the panes leave alone.*)
(***************************************************************************)
\* The two instances of Modal are the same one, and so are those of PageBody.
LEMMA SameBody ==
  ASSUME NEW b
  PROVE  /\ Both!LockForModal(b) = Dialog!LockForModal(b)
         /\ Both!UnlockForModal(b) = Dialog!UnlockForModal(b)
         /\ Both!PageForShow(b) = Panes!PageForShow(b)
         /\ Both!PageForHidden(b) = Panes!PageForHidden(b)
         /\ Both!Scrolls(b) = Dialog!Scrolls(b)
<1>1. Both!LockForModal(b) = Dialog!LockForModal(b)
  BY Zenon DEF Both!LockForModal, Dialog!LockForModal, Both!HasScrollbar, Dialog!HasScrollbar,
         Both!Scrolls, Dialog!Scrolls, Both!SavePadding, Dialog!SavePadding
<1>2. Both!UnlockForModal(b) = Dialog!UnlockForModal(b)
  BY Zenon DEF Both!UnlockForModal, Dialog!UnlockForModal,
         Both!RestorePadding, Dialog!RestorePadding
<1>3. Both!PageForShow(b) = Panes!PageForShow(b)
  BY Zenon DEF Both!PageForShow, Panes!PageForShow, Both!ScrollBarHide, Panes!ScrollBarHide,
         Both!HasScrollbar, Panes!HasScrollbar, Both!Scrolls, Panes!Scrolls,
         Both!SavePadding, Panes!SavePadding
<1>4. Both!PageForHidden(b) = Panes!PageForHidden(b)
  BY Zenon DEF Both!PageForHidden, Panes!PageForHidden, Both!ScrollBarReset,
         Panes!ScrollBarReset, Both!RestorePadding, Panes!RestorePadding
<1>5. Both!Scrolls(b) = Dialog!Scrolls(b)
  BY Zenon DEF Both!Scrolls, Dialog!Scrolls
<1> QED
  BY <1>1, <1>2, <1>3, <1>4, <1>5

\* The same for what the modal does to itself,
LEMMA SameModal ==
  ASSUME NEW m
  PROVE  /\ Both!ShowElement(m) = Dialog!ShowElement(m)
         /\ Both!ShowModal(m) = Dialog!ShowModal(m)
         /\ Both!HideElement(m) = Dialog!HideElement(m)
         /\ Both!HideModal(m) = Dialog!HideModal(m)
         /\ Both!StaticTransition(m) = Dialog!StaticTransition(m)
<1>1. \A n : Both!ShowElement(n) = Dialog!ShowElement(n)
  BY Zenon DEF Both!ShowElement, Dialog!ShowElement
<1>2. Both!ShowModal(m) = Dialog!ShowModal(m)
  BY Zenon DEF Both!ShowModal, Dialog!ShowModal, Both!ShowElement, Dialog!ShowElement
<1>3. \A n : Both!HideElement(n) = Dialog!HideElement(n)
  BY Zenon DEF Both!HideElement, Dialog!HideElement
<1>4. Both!HideModal(m) = Dialog!HideModal(m)
  BY <1>3, Zenon DEF Both!HideModal, Dialog!HideModal
<1>5. Both!StaticTransition(m) = Dialog!StaticTransition(m)
  BY Zenon DEF Both!StaticTransition, Dialog!StaticTransition
<1> QED
  BY <1>1, <1>2, <1>3, <1>4, <1>5

\* and for its handlers: on the page with a pane, too, the modal takes the steps
\* of Dialog.
LEMMA SameActions ==
  /\ \A veto : Both!CallShow(veto) => Dialog!CallShow(veto)
  /\ Both!CallHide => Dialog!CallHide
  /\ Both!ModalEscape => Dialog!ModalEscape
  /\ \A where : Both!Press(where) => Dialog!Press(where)
  /\ \A where : Both!Release(where) => Dialog!Release(where)
  /\ Both!BackdropShown => Dialog!BackdropShown
  /\ Both!DialogShown => Dialog!DialogShown
  /\ Both!ElementTransitionEnd => Dialog!ElementTransitionEnd
  /\ Both!BackdropFaded => Dialog!BackdropFaded
<1>1. ASSUME NEW veto, Both!CallShow(veto) PROVE Dialog!CallShow(veto)
  BY <1>1, SameBody, SameModal, Zenon DEF Both!CallShow, Dialog!CallShow,
         Both!MayShow, Dialog!MayShow
<1>2. ASSUME NEW m, Both!HideAndPage(m) PROVE Dialog!HideAndPage(m)
  BY <1>2, SameBody, SameModal, Zenon DEF Both!HideAndPage, Dialog!HideAndPage
<1>3. Both!CallHide => Dialog!CallHide
  BY <1>2, Zenon DEF Both!CallHide, Dialog!CallHide, Both!MayHide, Dialog!MayHide
<1>4. Both!ModalEscape => Dialog!ModalEscape
  BY <1>2, SameModal, Zenon DEF Both!ModalEscape, Dialog!ModalEscape,
         Both!MayHide, Dialog!MayHide
<1>5. ASSUME NEW where, Both!Press(where) PROVE Dialog!Press(where)
  BY <1>5, Zenon DEF Both!Press, Dialog!Press
<1>6. ASSUME NEW where, Both!Release(where) PROVE Dialog!Release(where)
  BY <1>2, <1>6, SameModal, Zenon DEF Both!Release, Dialog!Release
<1>7. Both!BackdropShown => Dialog!BackdropShown
  BY SameModal, Zenon DEF Both!BackdropShown, Dialog!BackdropShown
<1>8. Both!DialogShown => Dialog!DialogShown
  BY Zenon DEF Both!DialogShown, Dialog!DialogShown
<1>9. Both!ElementTransitionEnd => Dialog!ElementTransitionEnd
  <2>1. \A m : Both!PageFollows(m) <=> Dialog!PageFollows(m)
    BY Zenon DEF Both!PageFollows, Dialog!PageFollows
  <2> QED
    BY <2>1, SameBody, SameModal, Zenon DEF Both!ElementTransitionEnd, Dialog!ElementTransitionEnd
<1>10. Both!BackdropFaded => Dialog!BackdropFaded
  BY SameBody, Zenon DEF Both!BackdropFaded, Dialog!BackdropFaded
<1> QED
  BY <1>1, <1>3, <1>4, <1>5, <1>6, <1>7, <1>8, <1>9, <1>10

\* What the panes do to the page: they never open it for a modal.
PageByPanes == \/ body' = body \/ body' = Panes!PageForShow(body)
               \/ body' = Panes!PageForHidden(body)

\* What a step of the panes does to the page is one of these.
LEMMA PanesPage ==
  /\ Panes!OffcanvasNext => PageByPanes
  /\ Both!OffcanvasNext => PageByPanes
<1>1. ASSUME NEW shows, NEW hides, Panes!Change(shows, hides) PROVE PageByPanes
  BY <1>1 DEF Panes!Change, PageByPanes
<1>2. ASSUME NEW shows, NEW hides, Both!Change(shows, hides) PROVE PageByPanes
  BY <1>2, SameBody DEF Both!Change, PageByPanes
<1>3. ASSUME NEW p, Panes!PaneTimer(p) PROVE PageByPanes
  BY <1>3 DEF Panes!PaneTimer, PageByPanes
<1>4. ASSUME NEW p, Both!PaneTimer(p) PROVE PageByPanes
  BY <1>4, SameBody DEF Both!PaneTimer, PageByPanes
<1>7. ASSUME NEW p, Panes!ClickInsideToggler(p) PROVE PageByPanes
  BY <1>7, Zenon DEF Panes!ClickInsideToggler, PageByPanes
<1>8. ASSUME NEW p, Both!ClickInsideToggler(p) PROVE PageByPanes
  BY <1>8, SameBody, Zenon DEF Both!ClickInsideToggler, PageByPanes
<1>5. Panes!PaneUser => PageByPanes
  BY <1>1, <1>7, Zenon DEF Panes!PaneUser, Panes!ClickPaneToggler, Panes!ScriptShows,
          Panes!ScriptHides, Panes!ClickElsewhere, Panes!PaneEscape
<1>6. Both!PaneUser => PageByPanes
  BY <1>2, <1>8, Zenon DEF Both!PaneUser, Both!ClickPaneToggler, Both!ScriptShows,
          Both!ScriptHides, Both!ClickElsewhere, Both!PaneEscape
<1> QED
  BY <1>3, <1>4, <1>5, <1>6 DEF Panes!OffcanvasNext, Both!OffcanvasNext

\* A step of the modal, alone or on a page with panes.
LEMMA ModalStep == ASSUME ModalInv, Dialog!ModalNext
                   PROVE  /\ ModalInv'
                          /\ mouse = "dialog" /\ mouse' = "up" => modal'.isShown = modal.isShown
<1>1. ASSUME NEW veto \in BOOLEAN, Dialog!CallShow(veto) PROVE ModalInv' /\ mouse' = mouse
  BY <1>1, CallShowKeeps DEF Dialog!CallShow
<1>2. ASSUME Dialog!CallHide \/ Dialog!ModalEscape PROVE ModalInv' /\ mouse' = mouse
  BY <1>2, HideKeeps DEF Dialog!CallHide, Dialog!ModalEscape
<1>3. ASSUME NEW where \in {"dialog", "backdrop"}, Dialog!Press(where)
      PROVE  ModalInv' /\ mouse # "dialog"
  BY <1>3, PressKeeps DEF Dialog!Press
<1>4. ASSUME NEW where, Dialog!Release(where)
      PROVE  ModalInv' /\ (mouse = "dialog" => modal'.isShown = modal.isShown)
  BY <1>4, ReleaseKeeps
<1>5. ASSUME Dialog!BackdropShown \/ Dialog!DialogShown PROVE ModalInv' /\ mouse' = mouse
  BY <1>5, ShownKeeps DEF Dialog!BackdropShown, Dialog!DialogShown
<1>6. ASSUME Dialog!ElementTransitionEnd PROVE ModalInv' /\ mouse' = mouse
  BY <1>6, ElementEndKeeps DEF Dialog!ElementTransitionEnd
<1>7. ASSUME Dialog!BackdropFaded PROVE ModalInv' /\ mouse' = mouse
  BY <1>7, FadedKeeps DEF Dialog!BackdropFaded
<1> QED
  BY <1>1, <1>2, <1>3, <1>4, <1>5, <1>6, <1>7 DEF Dialog!ModalNext

\* What the panes do to the page leaves it to the modal to open it.
LEMMA PanesLeaveModal ==
  ASSUME ModalInv, PageByPanes, UNCHANGED dialogVars
  PROVE  ModalInv'
<1>1. modalConf' = modalConf /\ modal' = modal /\ mouse' = mouse
  BY DEF dialogVars
<1>2. body' \in BodyState /\ body'.open = body.open
  BY BodyChanges DEF ModalInv, PageByPanes
<1> QED
  BY <1>1, <1>2, StepOwns DEF ModalInv

\* A step of the page with both overlays is a step of the modal, or one that
\* leaves it alone.
LEMMA BothStep ==
  Both!OverlaysNext => Dialog!ModalNext \/ (PageByPanes /\ UNCHANGED dialogVars)
<1>1. ASSUME NEW veto \in BOOLEAN, Both!CallShow(veto) PROVE Dialog!ModalNext
  BY <1>1, SameActions DEF Dialog!ModalNext
<1>2. ASSUME NEW where \in {"dialog", "backdrop"}, Both!Press(where) PROVE Dialog!ModalNext
  BY <1>2, SameActions DEF Dialog!ModalNext
<1>3. ASSUME NEW where \in {"dialog", "backdrop", "outside"}, Both!Release(where)
      PROVE  Dialog!ModalNext
  BY <1>3, SameActions DEF Dialog!ModalNext
<1>4. Both!CallHide \/ Both!ModalEscape => Dialog!ModalNext
  BY SameActions DEF Dialog!ModalNext
<1>5. Both!BackdropShown \/ Both!DialogShown \/ Both!ElementTransitionEnd
        \/ Both!BackdropFaded => Dialog!ModalNext
  BY SameActions DEF Dialog!ModalNext
<1>6. Both!OffcanvasNext /\ UNCHANGED Both!DialogVars => PageByPanes /\ UNCHANGED dialogVars
  BY PanesPage DEF dialogVars, Both!DialogVars
<1> QED
  BY <1>1, <1>2, <1>3, <1>4, <1>5, <1>6
     DEF Both!OverlaysNext, Both!ModalAlone, Both!ClickInModal, Both!EscapeInModal

\* So is every step of the site.
LEMMA DialogsStep ==
  DocsNext => Dialog!ModalNext \/ (PageByPanes /\ UNCHANGED dialogVars)
BY BothStep, PanesPage DEF DocsNext, PageByPanes

\* The page and the modal as they are loaded.
LEMMA DialogsLoad ==
  DocsInit => \E conf \in Dialog!ModalConf, long \in BOOLEAN, padding \in {"empty", "own"} :
                Dialog!ModalLoad(conf) /\ Dialog!BodyLoad(long, padding)
<1>1. PlainModal \in Dialog!ModalConf
  BY DEF PlainModal, Dialog!ModalConf
<1>2. \A conf : Both!ModalLoad(conf) => Dialog!ModalLoad(conf)
  BY Zenon DEF Both!ModalLoad, Dialog!ModalLoad
<1>3. \A long, padding : Both!BodyLoad(long, padding) => Dialog!BodyLoad(long, padding)
  BY Zenon DEF Both!BodyLoad, Dialog!BodyLoad
<1>4. \A long, padding : Panes!BodyLoad(long, padding) => Dialog!BodyLoad(long, padding)
  BY Zenon DEF Panes!BodyLoad, Dialog!BodyLoad
<1>5. ASSUME Dialog!ModalInit
      PROVE  \E conf \in Dialog!ModalConf, long \in BOOLEAN :
               Dialog!ModalLoad(conf) /\ Dialog!BodyLoad(long, "empty")
  BY <1>5 DEF Dialog!ModalInit
<1>6. ASSUME Panes!OffcanvasInit
      PROVE  \E long \in BOOLEAN : Dialog!BodyLoad(long, "empty")
  BY <1>4, <1>6 DEF Panes!OffcanvasInit
<1>7. ASSUME NEW long \in BOOLEAN, NEW padding \in {"empty", "own"},
             Both!OverlaysLoad(PlainModal, PlainPane, long, padding)
      PROVE  Dialog!ModalLoad(PlainModal) /\ Dialog!BodyLoad(long, padding)
  BY <1>2, <1>3, <1>7 DEF Both!OverlaysLoad
<1>8. FALSE \in BOOLEAN /\ "empty" \in {"empty", "own"}
  OBVIOUS
<1> QED
  BY <1>1, <1>5, <1>6, <1>7, <1>8 DEF DocsInit, OverlaysInit

\* Every page keeps what it and its modal agree on.
THEOREM ModalKept == DocsSpec => []ModalInv
<1>1. ASSUME DocsInit PROVE ModalInv
  <2>1. PICK conf \in Dialog!ModalConf, long \in BOOLEAN, padding \in {"empty", "own"} :
          Dialog!ModalLoad(conf) /\ Dialog!BodyLoad(long, padding)
    BY <1>1, DialogsLoad
  <2>2. body \in BodyState /\ ~body.open
    BY <2>1 DEF Dialog!BodyLoad, BodyState
  <2>3. modalConf \in Dialog!ModalConf /\ mouse = "up"
    BY <2>1 DEF Dialog!ModalLoad
  <2>4. /\ modal \in ModalState /\ ~modal.isShown /\ ~modal.displayed /\ ~modal.trap
        /\ ~modal.ref /\ modal.backdrops = 0 /\ ~modal.backdropIn /\ ~modal.dialogIn
        /\ modal.fading = 0 /\ modal.onElement = <<>>
    <3>1. <<>> \in Seq({"hide", "static", "overflow"})
      BY EmptySeq
    <3> QED
      BY <2>1, <3>1 DEF Dialog!ModalLoad, ModalState
  <2>5. ~ Hiding(modal)
    BY <2>4 DEF Hiding
  <2> QED
    BY <2>2, <2>3, <2>4, <2>5 DEF ModalInv, OwnsInv
<1>2. ASSUME ModalInv, [DocsNext]_docsVars PROVE ModalInv'
  <2>1. CASE UNCHANGED docsVars
    BY <1>2, <2>1 DEF docsVars, dialogVars, ModalInv, OwnsInv, Owns, HasBackdrop, Hiding
  <2>2. CASE DocsNext
    BY <1>2, <2>2, DialogsStep, ModalStep, PanesLeaveModal
  <2> QED
    BY <1>2, <2>1, <2>2
<1> QED
  BY <1>1, <1>2, PTL DEF DocsSpec

\* A step of the modal takes the page, gives it back, or leaves it.
LEMMA ModalPage ==
  Dialog!ModalNext => body' \in {body, Dialog!LockForModal(body), Dialog!UnlockForModal(body)}
<1>1. ASSUME NEW m, Dialog!HideAndPage(m) PROVE body' = body \/ body' = Dialog!UnlockForModal(body)
  BY <1>1, Zenon DEF Dialog!HideAndPage
<1>2. ASSUME NEW veto, Dialog!CallShow(veto)
      PROVE  body' = body \/ body' = Dialog!LockForModal(body)
  BY <1>2, Zenon DEF Dialog!CallShow
<1>3. Dialog!CallHide \/ Dialog!ModalEscape => body' = body \/ body' = Dialog!UnlockForModal(body)
  BY <1>1, Zenon DEF Dialog!CallHide, Dialog!ModalEscape
<1>4. ASSUME NEW where, Dialog!Press(where) PROVE body' = body
  BY <1>4, Zenon DEF Dialog!Press
<1>5. ASSUME NEW where, Dialog!Release(where)
      PROVE  body' = body \/ body' = Dialog!UnlockForModal(body)
  BY <1>1, <1>5, Zenon DEF Dialog!Release
<1>6. Dialog!BackdropShown \/ Dialog!DialogShown => body' = body
  BY Zenon DEF Dialog!BackdropShown, Dialog!DialogShown
<1>7. Dialog!ElementTransitionEnd \/ Dialog!BackdropFaded =>
        body' = body \/ body' = Dialog!UnlockForModal(body)
  BY Zenon DEF Dialog!ElementTransitionEnd, Dialog!BackdropFaded
<1> QED
  BY <1>2, <1>3, <1>4, <1>5, <1>6, <1>7 DEF Dialog!ModalNext

\* Nobody writes an inline overflow on a page whose only overlay is a modal.
OverflowInv == widget = "modal" => body.overflow = "unset"

\* It stays as it was loaded, which is what lets the class modal-open lock the page.
THEOREM OverflowKept == DocsSpec => []OverflowInv
<1>1. ASSUME DocsInit PROVE OverflowInv
  <2>1. ASSUME widget = "modal" PROVE \E long \in BOOLEAN : Dialog!BodyLoad(long, "empty")
    BY <1>1, <2>1 DEF DocsInit, OverlaysInit, Dialog!ModalInit
  <2> QED
    BY <2>1 DEF Dialog!BodyLoad, OverflowInv
<1>2. ASSUME ModalInv, OverflowInv, [DocsNext]_docsVars PROVE OverflowInv'
  <2> SUFFICES ASSUME widget' = "modal" PROVE body'.overflow = "unset"
    BY DEF OverflowInv
  <2>1. CASE UNCHANGED docsVars
    BY <1>2, <2>1 DEF docsVars, OverflowInv
  <2>2. CASE DocsNext
    <3>1. widget = "modal" /\ Dialog!ModalNext
      BY <2>2 DEF DocsNext
    <3>2. body \in BodyState /\ body.overflow = "unset"
      BY <1>2, <3>1 DEF ModalInv, OverflowInv
    <3> QED
      BY <3>1, <3>2, ModalPage, BodyChanges
  <2> QED
    BY <1>2, <2>1, <2>2
<1> QED
  BY <1>1, <1>2, ModalKept, PTL DEF DocsSpec

\* A modal that is shown has taken the page and shows its one backdrop, holds the
\* focus once its backdrop is there, and locks the page if no pane wrote on it; it
\* lets go of the focus when it begins to hide, and when it has come to rest hidden
\* the page and the backdrop are free again (Modal.show and hide, with every leg of
\* their animations), whatever was called and pressed in between, unless a show
\* overtook a hide.
THEOREM ModalAndPageAgree == DocsSpec => []ModalOwnsThePage
<1>1. ASSUME ModalInv, OverflowInv PROVE ModalOwnsThePage
  <2> SUFFICES ASSUME ~modal.reshown
               PROVE  /\ modal.isShown =>
                           /\ body.open /\ modal.backdrops =
                                IF modalConf.backdrop = "none" THEN 0 ELSE 1
                           /\ ~modal.backdropIn => modal.displayed /\ modal.trap
                           /\ widget = "modal" => ~ Dialog!Scrolls(body)
                      /\ ~modal.isShown => ~modal.trap
                      /\ ~modal.isShown /\ Dialog!ModalSettled =>
                           ~body.open /\ modal.backdrops = 0 /\ ~modal.displayed
    BY DEF ModalOwnsThePage, Dialog!ModalOwnsThePage, Dialog!PageIsLocked
  <2>1. Dialog!ModalSettled => modal.fading = 0 /\ ~ Hiding(modal)
    BY DEF Dialog!ModalSettled, Hiding
  <2>2. OwnsInv(modal, body.open)
    BY <1>1 DEF ModalInv
  <2>3. modal.isShown => body.open
    BY <2>2 DEF OwnsInv, Owns
  <2>4. modal.isShown /\ widget = "modal" => ~ Dialog!Scrolls(body)
    BY <1>1, <2>3 DEF OverflowInv, Dialog!Scrolls
  <2> QED
    BY <2>1, <2>2, <2>4 DEF OwnsInv, Owns, HasBackdrop
<1> QED
  BY <1>1, ModalKept, OverflowKept, PTL

\* A drag that begins in the dialog and is released anywhere dismisses nothing
\* (Modal._addEventListeners: the mousedown is remembered until the mouseup).
THEOREM DragsDismissNothing == DocsSpec => Dialog!DragNeverDismisses
<1>1. ModalInv /\ [DocsNext]_docsVars =>
        [mouse = "dialog" /\ mouse' = "up" => modal'.isShown = modal.isShown]_Dialog!modalVars
  <2>1. UNCHANGED docsVars => UNCHANGED Dialog!modalVars
    BY DEF docsVars, dialogVars, Dialog!modalVars
  <2>2. UNCHANGED dialogVars => mouse' = mouse
    BY DEF dialogVars
  <2> QED
    BY <2>1, <2>2, DialogsStep, ModalStep
<1> QED
  BY <1>1, ModalKept, PTL DEF DocsSpec, Dialog!DragNeverDismisses

-----------------------------------------------------------------------------
(***************************************************************************)
(* A modal and a pane on one page (Overlays).                              *)
(***************************************************************************)
\* The pane of a page that has a modal, too.
ThePane == panes[1]
PaneIsGone(r) == ~r.isShown /\ r.timers = <<>>

\* The page with its own padding, or what is left of it, the page under a modal,
\* which saves nothing of a short page, and the page behind a pane.
PageFree(b) ==
  /\ ~b.open /\ ~b.dimmed /\ b.overflow # "hidden"
  /\ b.padding = Both!PaddingLeft(b) /\ b.saved = "none"
PageUnderModal(b) ==
  /\ b.open /\ b.opened /\ ~b.dimmed /\ b.overflow # "hidden"
  /\ b.saved = (IF b.long THEN b.loaded ELSE "none")
PageBehindPane(b) ==
  /\ ~b.open /\ b.dimmed /\ b.overflow = "hidden"
  /\ b.saved = Both!PaddingLeft(b)

\* Nothing overtook anything: no overlay was shown while the other was there, no
\* modal while it hid, and no pane while it was animated.
Calm == ~overlapped /\ ~modal.reshown /\ ~ThePane.hurried

\* The modal and the pane are as the page was written for: a plain modal waits
\* for nothing but its hiding.
PlainPage ==
  /\ modalConf = PlainModal /\ paneConf = PlainPane
  /\ \A i \in DOMAIN modal.onElement : modal.onElement[i] = "hide"
  /\ panes \in [1..1 -> PaneState] /\ paneTrap \in {0, 1}

\* One of the two is gone at any time, and the page is as the other left it.
PageInv ==
  widget = "both" =>
    /\ PlainPage
    /\ Animated(ThePane)
    /\ Calm =>
         /\ paneTrap # 0 => ThePane.isShown
         /\ body.open => PaneIsGone(ThePane)
         /\ IF body.open THEN PageUnderModal(body)
            ELSE IF PaneIsGone(ThePane) THEN PageFree(body) ELSE PageBehindPane(body)

\* The two overlays take the page and give it back, with the padding that is left.
LEMMA PageTurns ==
  ASSUME NEW b \in BodyState, paneConf = PlainPane
  PROVE  /\ PageFree(b) => PageUnderModal(Dialog!LockForModal(b))
         /\ PageUnderModal(b) => PageFree(Dialog!UnlockForModal(b))
         /\ PageFree(b) => PageBehindPane(Panes!PageForShow(b))
         /\ PageBehindPane(b) => PageFree(Panes!PageForHidden(b))
<1> USE DEF BodyState, Both!PaddingLeft
<1>1. ASSUME PageFree(b) PROVE PageUnderModal(Dialog!LockForModal(b))
  <2> DEFINE c == IF Dialog!HasScrollbar(b) THEN Dialog!SavePadding(b, TRUE) ELSE b
  <2>1. Dialog!LockForModal(b) = [c EXCEPT !.open = TRUE, !.opened = TRUE]
    BY Zenon DEF Dialog!LockForModal
  <2>2. Dialog!HasScrollbar(b) <=> b.long
    BY <1>1 DEF Dialog!HasScrollbar, Dialog!Scrolls, PageFree
  <2>3. Dialog!SavePadding(b, TRUE) = [b EXCEPT !.saved = b.padding, !.padding = "widened"]
    BY DEF Dialog!SavePadding
  <2>4. CASE b.long
    <3> DEFINE d == [b EXCEPT !.saved = b.padding, !.padding = "widened"]
    <3>1. /\ d \in BodyState /\ d.overflow = b.overflow /\ d.dimmed = b.dimmed
          /\ d.long = b.long /\ d.loaded = b.loaded /\ d.saved = b.padding
      OBVIOUS
    <3>2. Dialog!LockForModal(b) = [d EXCEPT !.open = TRUE, !.opened = TRUE]
      BY <2>1, <2>2, <2>3, <2>4
    <3> HIDE DEF d
    <3>3. b.padding = b.loaded /\ ~b.dimmed /\ b.overflow # "hidden"
      BY <1>1, <2>4 DEF PageFree
    <3> DEFINE e == [d EXCEPT !.open = TRUE, !.opened = TRUE]
    <3>4. /\ e.overflow = d.overflow /\ e.dimmed = d.dimmed /\ e.long = d.long
          /\ e.loaded = d.loaded /\ e.saved = d.saved /\ e.open /\ e.opened
      BY <3>1
    <3>5. Dialog!LockForModal(b) = e
      BY <3>2
    <3> HIDE DEF e
    <3>6. PageUnderModal(e)
      BY <2>4, <3>1, <3>3, <3>4 DEF PageUnderModal
    <3> QED
      BY <3>5, <3>6, Zenon
  <2>5. CASE ~b.long
    BY <1>1, <2>1, <2>2, <2>5 DEF PageFree, PageUnderModal
  <2> QED
    BY <2>4, <2>5
<1>2. ASSUME PageUnderModal(b) PROVE PageFree(Dialog!UnlockForModal(b))
  BY <1>2 DEF Dialog!UnlockForModal, Dialog!RestorePadding, PageFree, PageUnderModal
<1>3. ASSUME PageFree(b) PROVE PageBehindPane(Panes!PageForShow(b))
  <2>1. paneConf.backdrop /\ ~paneConf.scroll
    BY DEF PlainPane
  <2>2. Panes!HasScrollbar([b EXCEPT !.dimmed = TRUE]) <=> b.long
    BY <1>3 DEF Panes!HasScrollbar, Panes!Scrolls, PageFree
  <2>3. Panes!PageForShow(b) = Panes!ScrollBarHide([b EXCEPT !.dimmed = TRUE])
    BY <2>1 DEF Panes!PageForShow
  <2> QED
    BY <1>3, <2>2, <2>3 DEF Panes!ScrollBarHide, Panes!SavePadding, PageFree, PageBehindPane
<1>4. ASSUME PageBehindPane(b) PROVE PageFree(Panes!PageForHidden(b))
  <2>1. paneConf.backdrop /\ ~paneConf.scroll
    BY DEF PlainPane
  <2>2. Panes!PageForHidden(b) = Panes!ScrollBarReset([b EXCEPT !.dimmed = FALSE])
    BY <2>1 DEF Panes!PageForHidden
  <2> QED
    BY <1>4, <2>2 DEF Panes!ScrollBarReset, Panes!RestorePadding, PageFree, PageBehindPane
<1> QED
  BY <1>1, <1>2, <1>3, <1>4

\* A sequence is empty when it has no index.
LEMMA NonEmptySeq ==
  ASSUME NEW S, NEW s \in Seq(S)
  PROVE  s # <<>> <=> \E i \in DOMAIN s : TRUE
<1>1. Len(s) \in Nat /\ DOMAIN s = 1..Len(s) /\ (s = <<>> <=> Len(s) = 0)
  BY EmptySeq, LenProperties
<1>2. ASSUME s # <<>> PROVE 1 \in DOMAIN s
  BY <1>1, <1>2
<1>3. ASSUME NEW i \in DOMAIN s PROVE s # <<>>
  BY <1>1, <1>3
<1> QED
  BY <1>2, <1>3

\* A plain modal that was never shown early is gone when the page is not open.
LEMMA GoneIsClosed ==
  ModalInv /\ PlainPage /\ ~modal.reshown =>
    /\ body.open <=> ~Both!ModalGone
    /\ modal.trap => body.open
<1> SUFFICES ASSUME ModalInv, PlainPage, ~modal.reshown
             PROVE  (body.open <=> ~Both!ModalGone) /\ (modal.trap => body.open)
  OBVIOUS
<1>1. HasBackdrop
  BY DEF PlainPage, PlainModal, HasBackdrop
<1>2. Hiding(modal) <=> modal.onElement # <<>>
  <2>1. modal.onElement \in Seq({"hide", "static", "overflow"})
    BY DEF ModalInv, ModalState
  <2>2. modal.onElement # <<>> <=> \E i \in DOMAIN modal.onElement : TRUE
    BY <2>1, NonEmptySeq
  <2> QED
    BY <2>2 DEF Hiding, PlainPage
<1>3. Both!ModalGone <=> /\ ~modal.isShown /\ ~modal.backdropIn /\ ~modal.dialogIn
                         /\ modal.fading = 0 /\ modal.onElement = <<>>
  BY DEF Both!ModalGone, Both!ModalSettled
<1>4. OwnsInv(modal, body.open) /\ modal \in ModalState
  BY DEF ModalInv
<1>5. CASE modal.isShown
  BY <1>3, <1>4, <1>5 DEF OwnsInv, Owns
<1>6. CASE ~modal.isShown /\ Hiding(modal)
  BY <1>2, <1>3, <1>4, <1>6 DEF OwnsInv, Owns
<1>7. CASE ~modal.isShown /\ ~ Hiding(modal)
  BY <1>2, <1>3, <1>4, <1>7 DEF OwnsInv
<1> QED
  BY <1>5, <1>6, <1>7

\* The same after a step.
LEMMA GoneIsClosedNext ==
  ModalInv' /\ PlainPage' /\ ~modal'.reshown => (body'.open <=> ~Both!ModalGone')
<1>1. (ModalInv /\ PlainPage /\ ~modal.reshown => (body.open <=> ~Both!ModalGone))'
  BY GoneIsClosed, PTL
<1> QED
  BY <1>1

\* A plain modal stays one, opens a page that is closed, and closes one that
\* is open.
LEMMA PlainModalStep ==
  ASSUME ModalInv, PlainPage, Dialog!ModalNext
  PROVE  /\ modalConf' = PlainModal
         /\ \A i \in DOMAIN modal'.onElement : modal'.onElement[i] = "hide"
         /\ ~modal'.reshown =>
              /\ ~modal.reshown
              /\ \/ body' = body
                 \/ ~body.open /\ body' = Dialog!LockForModal(body)
                 \/ body.open /\ body' = Dialog!UnlockForModal(body)
<1>1. /\ modalConf \in Dialog!ModalConf /\ modal \in ModalState /\ body \in BodyState
      /\ OwnsInv(modal, body.open) /\ modalConf = PlainModal
      /\ \A i \in DOMAIN modal.onElement : modal.onElement[i] = "hide"
  BY DEF ModalInv, PlainPage
<1>2. /\ modalConf.animated /\ modalConf.keyboard /\ modalConf.backdrop = "click"
      /\ HasBackdrop
  BY <1>1 DEF PlainModal, HasBackdrop
<1>3. ASSUME NEW m \in ModalState, m.onElement = modal.onElement, m.reshown = modal.reshown,
             Dialog!HideAndPage(m)
      PROVE  /\ \A i \in DOMAIN modal'.onElement : modal'.onElement[i] = "hide"
             /\ modal'.reshown = modal.reshown /\ body' = body
  <2>1. body' = body /\ modal' = Dialog!HideModal(m)
    BY <1>2, <1>3 DEF Dialog!HideAndPage
  <2>2. Dialog!HideModal(m).onElement = Append(m.onElement, "hide")
    BY <1>2, <1>3 DEF Dialog!HideModal, ModalState
  <2>3. modal'.reshown = m.reshown
    BY <1>1, <2>1, HideModalFields
  <2>4. m.onElement \in Seq({"hide", "static", "overflow"})
    BY DEF ModalState
  <2>5. \A i \in DOMAIN modal'.onElement :
          modal'.onElement[i] = "hide" \/ (i \in DOMAIN m.onElement /\ modal'.onElement[i] = m.onElement[i])
    BY <2>1, <2>2, <2>4, AppendProperties, LenProperties
  <2> QED
    BY <1>1, <1>3, <2>1, <2>3, <2>5
<1>4. ASSUME NEW veto \in BOOLEAN, Dialog!CallShow(veto)
      PROVE  /\ modal'.onElement = modal.onElement
             /\ modal.reshown => modal'.reshown
             /\ ~modal'.reshown =>
                  body' = body \/ (~body.open /\ body' = Dialog!LockForModal(body))
  <2>1. CASE veto
    BY <1>1, <1>4, <2>1 DEF Dialog!CallShow, ModalState
  <2>2. CASE ~veto
    <3>1. /\ modal' = Dialog!ShowModal(modal) /\ body' = Dialog!LockForModal(body)
          /\ ~modal.isShown /\ ~modal.isTransitioning
      BY <1>4, <2>2 DEF Dialog!CallShow, Dialog!MayShow
    <3>2. /\ modal'.onElement = modal.onElement
          /\ modal'.reshown = (modal.reshown \/ modal.fading > 0)
      BY <1>1, <3>1, ShowModalFields
    <3>3. ASSUME ~modal'.reshown PROVE ~modal.reshown /\ ~body.open
      <4>1. ~modal.reshown /\ ~ (modal.fading > 0)
        BY <3>2, <3>3
      <4>2. ~ Hiding(modal)
        BY <1>1, <3>1, <4>1 DEF OwnsInv
      <4> QED
        BY <1>1, <3>1, <4>1, <4>2 DEF OwnsInv
    <3> QED
      BY <3>1, <3>2, <3>3
  <2> QED
    BY <2>1, <2>2
<1>5. ASSUME Dialog!CallHide \/ Dialog!ModalEscape
      PROVE  /\ \A i \in DOMAIN modal'.onElement : modal'.onElement[i] = "hide"
             /\ modal'.reshown = modal.reshown /\ body' = body
  BY <1>1, <1>2, <1>3, <1>5 DEF Dialog!CallHide, Dialog!ModalEscape
<1>6. ASSUME NEW where, Dialog!Press(where)
      PROVE  modal'.onElement = modal.onElement /\ modal'.reshown = modal.reshown /\ body' = body
  BY <1>1, <1>6 DEF Dialog!Press, ModalState
<1>7. ASSUME NEW where, Dialog!Release(where)
      PROVE  /\ \A i \in DOMAIN modal'.onElement : modal'.onElement[i] = "hide"
             /\ modal'.reshown = modal.reshown /\ body' = body
  <2> DEFINE w == modal.ignoreBackdropClick \/ (modal.mouseup /\ where = "backdrop")
             m == [modal EXCEPT !.mouseup = FALSE, !.ignoreBackdropClick = w]
             i == [m EXCEPT !.ignoreBackdropClick = FALSE]
  <2>1. \/ modal' = modal /\ body' = body
        \/ modal' = m /\ body' = body
        \/ modal' = i /\ body' = body
        \/ Dialog!HideAndPage(m)
    BY <1>2, <1>7 DEF Dialog!Release
  <2>2. w \in BOOLEAN
    BY <1>1 DEF ModalState
  <2> HIDE DEF w
  <2>3. m \in ModalState /\ m.onElement = modal.onElement /\ m.reshown = modal.reshown
    BY <1>1, <2>2 DEF ModalState
  <2> HIDE DEF m
  <2>4. i.onElement = m.onElement /\ i.reshown = m.reshown
    BY <2>3 DEF ModalState
  <2> HIDE DEF i
  <2> QED
    BY <1>1, <1>3, <2>1, <2>3, <2>4
<1>8. ASSUME Dialog!BackdropShown \/ Dialog!DialogShown
      PROVE  modal'.onElement = modal.onElement /\ modal'.reshown = modal.reshown /\ body' = body
  <2>1. CASE Dialog!BackdropShown
    <3> DEFINE m == [modal EXCEPT !.backdropIn = FALSE]
    <3>1. modal' = Dialog!ShowElement(m) /\ body' = body
      BY <2>1 DEF Dialog!BackdropShown
    <3>2. m \in ModalState /\ m.onElement = modal.onElement /\ m.reshown = modal.reshown
      BY <1>1 DEF ModalState
    <3> HIDE DEF m
    <3> QED
      BY <1>1, <3>1, <3>2, ShowElementFields
  <2>2. CASE Dialog!DialogShown
    BY <1>1, <2>2 DEF Dialog!DialogShown, ModalState
  <2> QED
    BY <1>8, <2>1, <2>2
<1>9. ASSUME Dialog!ElementTransitionEnd
      PROVE  /\ modal'.onElement = <<>> /\ modal'.reshown = modal.reshown
             /\ ~modal.reshown => body' = body
  <2> DEFINE ends == {modal.onElement[i] : i \in DOMAIN modal.onElement}
             a == modal.static /\ "static" \notin ends
             b == modal.overflowY /\ "overflow" \notin ends
             c == IF "static" \in ends /\ ~modalConf.tall THEN <<"overflow">> ELSE <<>>
             m == [modal EXCEPT !.static = a, !.overflowY = b, !.onElement = c]
  <2>1. /\ modal' = IF "hide" \in ends THEN Dialog!HideElement(m) ELSE m
        /\ body' = IF "hide" \in ends /\ Dialog!PageFollows(m)
                   THEN Dialog!UnlockForModal(body) ELSE body
        /\ ends # {}
    BY <1>9, Zenon DEF Dialog!ElementTransitionEnd
  <2>2. "hide" \in ends /\ c = <<>> /\ Hiding(modal)
    BY <1>1, <2>1 DEF Hiding
  <2>3. a \in BOOLEAN /\ b \in BOOLEAN /\ c \in Seq({"hide", "static", "overflow"})
    <3>1. modal.static \in BOOLEAN /\ modal.overflowY \in BOOLEAN
      BY <1>1 DEF ModalState
    <3> HIDE DEF ends
    <3> QED
      BY <2>2, <3>1, EmptySeq
  <2> HIDE DEF ends, a, b, c
  <2>4. /\ m \in ModalState /\ m.onElement = c /\ m.reshown = modal.reshown
        /\ m.ref = modal.ref
    BY <1>1, <2>3 DEF ModalState
  <2> HIDE DEF m
  <2>5. modal'.onElement = m.onElement /\ modal'.reshown = m.reshown
    BY <1>1, <2>1, <2>2, <2>4, HideElementFields
  <2>6. ~modal.reshown => modal.ref
    BY <1>1, <1>2, <2>2 DEF OwnsInv, Owns
  <2> QED
    BY <1>2, <2>1, <2>2, <2>4, <2>5, <2>6 DEF Dialog!PageFollows
<1>10. ASSUME Dialog!BackdropFaded
       PROVE  /\ modal'.onElement = modal.onElement /\ modal'.reshown = modal.reshown
              /\ ~modal.reshown => body.open /\ body' = Dialog!UnlockForModal(body)
  <2>1. modal'.onElement = modal.onElement /\ modal'.reshown = modal.reshown
    BY <1>1, <1>10 DEF Dialog!BackdropFaded, ModalState
  <2>2. ~modal.reshown => body.open /\ modal.ref
    BY <1>1, <1>10 DEF Dialog!BackdropFaded, OwnsInv
  <2> QED
    BY <1>10, <2>1, <2>2 DEF Dialog!BackdropFaded
<1>11. modalConf' = modalConf
  BY DEF Dialog!ModalNext, Dialog!CallShow, Dialog!CallHide, Dialog!ModalEscape,
         Dialog!Press, Dialog!Release, Dialog!BackdropShown, Dialog!DialogShown,
         Dialog!ElementTransitionEnd, Dialog!BackdropFaded
<1>12. \A i \in DOMAIN <<>> : <<>>[i] = "hide"
  OBVIOUS
<1> QED
  BY <1>1, <1>4, <1>5, <1>6, <1>7, <1>8, <1>9, <1>10, <1>11, <1>12 DEF Dialog!ModalNext

\* The turns of the one pane: nothing, a show, a hide that leaves the page to
\* its timer, and the timer.
PaneStays == panes'[1] = ThePane /\ paneTrap' = paneTrap
PaneHides ==
  /\ ThePane.isShown /\ panes'[1] = Panes!Begin(ThePane, "hide") /\ paneTrap' = 0
PaneShows ==
  /\ ~ThePane.isShown /\ panes'[1] = Panes!Begin(ThePane, "show") /\ paneTrap' = paneTrap
PaneEnds ==
  /\ ThePane.timers # <<>>
  /\ panes'[1] = Ended(ThePane)
  /\ paneTrap' = (IF Head(ThePane.timers) = "show" THEN 1 ELSE paneTrap)

\* Showing or hiding the pane of the page with both overlays, at its only pane,
LEMMA BothChange ==
  ASSUME PlainPage, NEW shows \in SUBSET {1}, NEW hides \in SUBSET {1},
         Both!PanesChange(shows, hides)
  PROVE  /\ panes' = [p \in {1} |-> panes'[p]] /\ paneConf' = paneConf
         /\ paneTrap' = IF hides = {} THEN paneTrap ELSE 0
         /\ panes'[1] = IF 1 \in shows THEN Panes!Begin(ThePane, "show")
                        ELSE IF 1 \in hides THEN Panes!Begin(ThePane, "hide")
                        ELSE ThePane
<1>1. Both!Pane = {1}
  BY DEF Both!Pane
<1>2. \A op : Both!Begin(panes[1], op) = Panes!Begin(panes[1], op)
  BY Zenon DEF Both!Begin, Panes!Begin
<1> QED
  BY <1>1, <1>2 DEF Both!PanesChange, ThePane

\* and every step of that pane: it is one of the turns above.
LEMMA BothPane ==
  ASSUME PlainPage, Both!OffcanvasNext
  PROVE  /\ panes' = [p \in {1} |-> panes'[p]] /\ paneConf' = paneConf
         /\ \/ PaneStays /\ body' = body
            \/ PaneHides /\ body' = body
            \/ PaneShows /\ body' = Panes!PageForShow(body)
            \/ PaneEnds /\ body' = IF Head(ThePane.timers) = "show" THEN body
                                   ELSE Panes!PageForHidden(body)
<1>1. Both!Pane = {1} /\ Both!Shown = IF ThePane.isShown THEN {1} ELSE {}
  BY DEF Both!Pane, Both!Shown, ThePane
<1>2. Both!Pane = 1..1 /\ panes \in [1..1 -> PaneState]
  BY DEF Both!Pane, PlainPage
<1>3. ASSUME NEW hides \in SUBSET Both!Shown, Both!Change({}, hides)
      PROVE  /\ panes' = [p \in {1} |-> panes'[p]] /\ paneConf' = paneConf
             /\ (PaneStays \/ PaneHides) /\ body' = body
  <2>1. hides \in SUBSET {1} /\ {} \in SUBSET {1} /\ (hides = {} \/ (1 \in hides /\ ThePane.isShown))
    BY <1>1, <1>3
  <2>2. Both!PanesChange({}, hides) /\ body' = body
    BY <1>3 DEF Both!Change
  <2> QED
    BY <2>1, <2>2, BothChange DEF PaneStays, PaneHides
<1>4. ASSUME ~ThePane.isShown, NEW hides, hides = {}, Both!Change({1}, hides)
      PROVE  /\ panes' = [p \in {1} |-> panes'[p]] /\ paneConf' = paneConf
             /\ PaneShows /\ body' = Panes!PageForShow(body)
  <2>1. Both!PanesChange({1}, {}) /\ body' = Panes!PageForShow(body)
    BY <1>4, SameBody DEF Both!Change
  <2> QED
    BY <1>4, <2>1, BothChange DEF PaneShows
<1>5. ASSUME NEW p \in {1}, Both!ClickPaneToggler(p)
      PROVE  \/ Both!Change({}, Both!Shown)
             \/ Both!Change({}, Both!Shown \ {1})
             \/ ~ThePane.isShown /\ Both!Change({1}, {})
  <2>1. ~ Both!AlreadyOpen(p)
    BY <1>1, <1>5 DEF Both!AlreadyOpen, Both!ActivePanes
  <2>2. p = 1
    BY <1>5
  <2> QED
    BY <1>1, <1>5, <2>1, <2>2 DEF Both!ClickPaneToggler, ThePane
<1>6. ASSUME NEW inside, Both!ClickElsewhere(inside)
      PROVE  \E hides \in SUBSET Both!Shown : Both!Change({}, hides)
  BY <1>6 DEF Both!ClickElsewhere
<1>7. ASSUME Both!PaneEscape
      PROVE  \E hides \in SUBSET Both!Shown : Both!Change({}, hides)
  BY <1>7 DEF Both!PaneEscape, Both!HiddenByEscape
<1>8. ASSUME NEW p \in {1}, Both!ScriptShows(p) PROVE ~ThePane.isShown /\ Both!Change({1}, {})
  BY <1>8 DEF Both!ScriptShows, ThePane
<1>9. ASSUME NEW p \in {1}, Both!ScriptHides(p)
      PROVE  \E hides \in SUBSET Both!Shown : Both!Change({}, hides)
  BY <1>1, <1>9 DEF Both!ScriptHides, ThePane
<1>11. ASSUME NEW p \in {1}, Both!ClickInsideToggler(p) PROVE FALSE
  <2>1. Len(panes[p].timers) + 2 <= 1
    BY <1>11 DEF Both!ClickInsideToggler
  <2>2. panes[p].timers \in Seq({"show", "hide"})
    BY <1>2 DEF PaneState
  <2>3. Len(panes[p].timers) \in Nat
    BY <2>2, LenProperties
  <2> QED
    BY ONLY <2>1, <2>3
<1>10. ASSUME NEW p \in {1}, Both!PaneTimer(p)
       PROVE  /\ panes' = [q \in {1} |-> panes'[q]] /\ paneConf' = paneConf
              /\ PaneEnds /\ body' = IF Head(ThePane.timers) = "show" THEN body
                                     ELSE Panes!PageForHidden(body)
  <2>1. /\ ThePane.timers # <<>> /\ p = 1 /\ paneConf' = paneConf
        /\ panes' = [panes EXCEPT ![1].timers = Tail(@), ![1].toggling = FALSE,
                                  ![1].visible = @ /\ Head(ThePane.timers) = "show"]
        /\ paneTrap' = IF Head(ThePane.timers) = "show" THEN 1 ELSE paneTrap
        /\ body' = IF Head(ThePane.timers) = "show" THEN body ELSE Panes!PageForHidden(body)
    BY <1>10, SameBody DEF Both!PaneTimer, ThePane
  <2>2. DOMAIN panes' = {1} /\ panes'[1] = Ended(ThePane)
    BY <1>2, <2>1 DEF ThePane, PaneState, Ended
  <2>3. panes' = [q \in DOMAIN panes' |-> panes'[q]]
    BY <2>1
  <2> QED
    BY <2>1, <2>2, <2>3 DEF PaneEnds
<1> QED
  <2>1. ASSUME Both!PaneUser
        PROVE  \/ \E hides \in SUBSET Both!Shown : Both!Change({}, hides)
               \/ ~ThePane.isShown /\ Both!Change({1}, {})
    BY <1>1, <1>5, <1>6, <1>7, <1>8, <1>9, <1>11, <2>1 DEF Both!PaneUser
  <2> QED
    BY <1>1, <1>3, <1>4, <1>10, <2>1 DEF Both!OffcanvasNext

\* What every turn of the pane keeps.
Turned ==
  /\ panes' \in [1..1 -> PaneState] /\ paneTrap' \in {0, 1}
  /\ Animated(panes'[1]) /\ (ThePane.hurried => panes'[1].hurried)

\* Each turn keeps it, and says when the pane is gone.
LEMMA PaneTurns ==
  ASSUME PlainPage, Animated(ThePane), panes' = [p \in {1} |-> panes'[p]]
  PROVE  /\ PaneStays => Turned
         /\ PaneHides => Turned /\ ~ PaneIsGone(panes'[1]) /\ ~panes'[1].isShown
         /\ PaneShows =>
              /\ Turned /\ ~ PaneIsGone(panes'[1]) /\ panes'[1].isShown
              /\ ~panes'[1].hurried => PaneIsGone(ThePane)
         /\ PaneEnds =>
              /\ Turned /\ panes'[1].isShown = ThePane.isShown
              /\ ~ThePane.hurried =>
                   /\ Head(ThePane.timers) = IF ThePane.isShown THEN "show" ELSE "hide"
                   /\ ~ThePane.isShown => PaneIsGone(panes'[1])
<1>1. ThePane \in PaneState /\ ThePane.timers \in Seq({"show", "hide"})
  BY DEF PlainPage, ThePane, PaneState
<1>2. ASSUME NEW op \in {"show", "hide"}
      PROVE  LET b == Panes!Begin(ThePane, op)
             IN /\ b \in PaneState /\ Animated(b) /\ b.isShown = (op = "show")
                /\ b.timers # <<>>
                /\ (ThePane.hurried => b.hurried)
                /\ ~b.hurried => ThePane.timers = <<>>
  <2>1. LET b == Panes!Begin(ThePane, op)
        IN b \in PaneState /\ Animated(b) /\ b.isShown = (op = "show")
    BY <1>1, BeginAnimated, Zenon
  <2>2. /\ Panes!Begin(ThePane, op).timers = Append(ThePane.timers, op)
        /\ Panes!Begin(ThePane, op).hurried = (ThePane.hurried \/ ThePane.timers # <<>>)
    BY <1>1 DEF PaneState, Panes!Begin
  <2>3. Append(ThePane.timers, op) # <<>>
    BY <1>1, AppendProperties
  <2>4. /\ ThePane.hurried => Panes!Begin(ThePane, op).hurried
        /\ ~ Panes!Begin(ThePane, op).hurried => ThePane.timers = <<>>
    BY <2>2
  <2> QED
    BY <2>1, <2>2, <2>3, <2>4
<1>3. /\ panes'[1] \in PaneState => panes' \in [1..1 -> PaneState]
      /\ paneTrap \in {0, 1}
  BY DEF PlainPage
<1>4. ASSUME PaneStays PROVE Turned
  BY <1>1, <1>3, <1>4 DEF PaneStays, Turned
<1>5. ASSUME PaneHides PROVE Turned /\ ~ PaneIsGone(panes'[1]) /\ ~panes'[1].isShown
  <2>1. panes'[1] = Panes!Begin(ThePane, "hide") /\ paneTrap' = 0
    BY <1>5 DEF PaneHides
  <2> QED
    BY <1>2, <1>3, <2>1 DEF Turned, PaneIsGone
<1>6. ASSUME PaneShows
      PROVE  /\ Turned /\ ~ PaneIsGone(panes'[1]) /\ panes'[1].isShown
             /\ ~panes'[1].hurried => PaneIsGone(ThePane)
  <2>1. /\ panes'[1] = Panes!Begin(ThePane, "show") /\ paneTrap' = paneTrap
        /\ ~ThePane.isShown
    BY <1>6 DEF PaneShows
  <2> QED
    BY <1>2, <1>3, <2>1 DEF Turned, PaneIsGone
<1>7. ASSUME PaneEnds
      PROVE  /\ Turned /\ panes'[1].isShown = ThePane.isShown
             /\ ~ThePane.hurried =>
                  /\ Head(ThePane.timers) = IF ThePane.isShown THEN "show" ELSE "hide"
                  /\ ~ThePane.isShown => PaneIsGone(panes'[1])
  <2>1. /\ ThePane.timers # <<>> /\ panes'[1] = Ended(ThePane)
        /\ paneTrap' = (IF Head(ThePane.timers) = "show" THEN 1 ELSE paneTrap)
    BY <1>7 DEF PaneEnds
  <2>2. /\ panes'[1] \in PaneState /\ Animated(panes'[1])
        /\ panes'[1].isShown = ThePane.isShown /\ panes'[1].timers = Tail(ThePane.timers)
        /\ panes'[1].hurried = ThePane.hurried
    BY <1>1, <2>1, EndAnimated
  <2>3. Turned
    BY <1>3, <2>1, <2>2 DEF Turned
  <2>4. ASSUME ~ThePane.hurried
        PROVE  /\ Head(ThePane.timers) = IF ThePane.isShown THEN "show" ELSE "hide"
               /\ Tail(ThePane.timers) = <<>>
    <3>1. ThePane.timers = <<IF ThePane.isShown THEN "show" ELSE "hide">>
      BY <2>1, <2>4 DEF Animated
    <3>2. \A x : Head(<<x>>) = x /\ Tail(<<x>>) = <<>>
      OBVIOUS
    <3> QED
      BY <3>1, <3>2
  <2> QED
    BY <2>2, <2>3, <2>4 DEF PaneIsGone
<1> QED
  BY <1>4, <1>5, <1>6, <1>7

\* The modal and the pane know nothing of each other, but come one at a time.
LEMMA PageStep ==
  ASSUME widget = "both", widget' = widget, ModalInv, ModalInv', PageInv, Both!OverlaysNext
  PROVE  PageInv'
<1>1. /\ PlainPage /\ Animated(ThePane) /\ body \in BodyState /\ paneConf = PlainPane
      /\ Calm =>
           /\ paneTrap # 0 => ThePane.isShown
           /\ body.open => PaneIsGone(ThePane)
           /\ IF body.open THEN PageUnderModal(body)
              ELSE IF PaneIsGone(ThePane) THEN PageFree(body) ELSE PageBehindPane(body)
  BY DEF PageInv, PlainPage, ModalInv
<1>2. overlapped' = (overlapped \/ Both!Overlap')
  BY DEF Both!OverlaysNext, Both!ModalAlone
<1>3. Both!Pane = {1}
  BY DEF Both!Pane
<1>4. ASSUME PlainPage', Calm' PROVE /\ ~overlapped
                                     /\ body'.open => PaneIsGone(ThePane)'
                                     /\ ~ PaneIsGone(ThePane)' => ~body'.open
  <2>1. ~overlapped /\ ~ Both!Overlap'
    BY <1>2, <1>4 DEF Calm
  <2>2. body'.open <=> ~ Both!ModalGone'
    BY <1>4, GoneIsClosedNext DEF Calm
  <2>3. Both!PanesGone' => PaneIsGone(ThePane)'
    BY <1>3 DEF Both!PanesGone, Both!PaneGone, PaneIsGone, ThePane
  <2> QED
    BY <2>1, <2>2, <2>3 DEF Both!Overlap
\* The modal's steps, alone or with a click or a key that hides the pane.
<1>5. ASSUME Dialog!ModalNext, panes' = [p \in {1} |-> panes'[p]], paneConf' = paneConf,
             PaneStays \/ PaneHides
      PROVE  PageInv'
  <2>1. /\ modalConf' = PlainModal
        /\ \A i \in DOMAIN modal'.onElement : modal'.onElement[i] = "hide"
        /\ ~modal'.reshown =>
             /\ ~modal.reshown
             /\ \/ body' = body
                \/ ~body.open /\ body' = Dialog!LockForModal(body)
                \/ body.open /\ body' = Dialog!UnlockForModal(body)
    BY <1>1, <1>5, PlainModalStep
  <2>2. Turned /\ (PaneHides => ~ PaneIsGone(panes'[1]))
    BY <1>1, <1>5, PaneTurns
  <2>3. PlainPage'
    BY <1>1, <1>5, <2>1, <2>2 DEF PlainPage, Turned
  <2>4. Animated(ThePane)'
    BY <2>2 DEF Turned, ThePane, Animated
  <2>5. ASSUME Calm'
        PROVE  /\ paneTrap' # 0 => panes'[1].isShown
               /\ body'.open => PaneIsGone(panes'[1])
               /\ IF body'.open THEN PageUnderModal(body')
                  ELSE IF PaneIsGone(panes'[1]) THEN PageFree(body') ELSE PageBehindPane(body')
    <3>1. Calm /\ (body'.open => PaneIsGone(panes'[1]))
      BY <1>4, <2>1, <2>2, <2>3, <2>5 DEF Calm, ThePane, Turned, PaneIsGone
    <3>2. /\ ~body.open /\ body' = Dialog!LockForModal(body) => body'.open
          /\ body.open /\ body' = Dialog!UnlockForModal(body) => ~body'.open
      BY <1>1, BodyChanges
    <3>3. ~modal'.reshown
      BY <2>5 DEF Calm
    <3>4. CASE PaneStays
      <4>1. panes'[1] = ThePane /\ paneTrap' = paneTrap
        BY <3>4 DEF PaneStays
      <4> QED
        BY <1>1, <2>1, <3>1, <3>2, <3>3, <4>1, PageTurns
    <3>5. CASE PaneHides
      <4>1. ~ PaneIsGone(ThePane) /\ ~ PaneIsGone(panes'[1]) /\ paneTrap' = 0
        BY <2>2, <3>5 DEF PaneHides, PaneIsGone
      <4> QED
        BY <1>1, <2>1, <3>1, <3>2, <3>3, <4>1
    <3> QED
      BY <1>5, <3>4, <3>5
  <2> QED
    BY <2>3, <2>4, <2>5 DEF PageInv, ThePane, PageUnderModal, PageFree, PageBehindPane,
                            PaneIsGone, Both!PaddingLeft
\* The pane's own steps.
<1>6. ASSUME Both!OffcanvasNext, UNCHANGED Both!DialogVars PROVE PageInv'
  <2>1. /\ panes' = [p \in {1} |-> panes'[p]] /\ paneConf' = paneConf
        /\ \/ PaneStays /\ body' = body
           \/ PaneHides /\ body' = body
           \/ PaneShows /\ body' = Panes!PageForShow(body)
           \/ PaneEnds /\ body' = IF Head(ThePane.timers) = "show" THEN body
                                  ELSE Panes!PageForHidden(body)
    BY <1>1, <1>6, BothPane
  <2>2. modalConf' = modalConf /\ modal' = modal
    BY <1>6 DEF Both!DialogVars
  <2>3. Turned
    BY <1>1, <2>1, PaneTurns
  <2>4. PlainPage'
    BY <1>1, <2>1, <2>2, <2>3 DEF PlainPage, Turned
  <2>5. Animated(ThePane)'
    BY <2>3 DEF Turned, ThePane, Animated
  <2>6. ASSUME Calm'
        PROVE  /\ paneTrap' # 0 => panes'[1].isShown
               /\ body'.open => PaneIsGone(panes'[1])
               /\ IF body'.open THEN PageUnderModal(body')
                  ELSE IF PaneIsGone(panes'[1]) THEN PageFree(body') ELSE PageBehindPane(body')
    <3>1. Calm /\ (body'.open => PaneIsGone(panes'[1]))
      BY <1>4, <2>2, <2>3, <2>4, <2>6 DEF Calm, ThePane, Turned, PaneIsGone
    <3>2. body'.open = body.open
      BY <1>1, <2>1, BodyChanges
    <3>3. CASE PaneStays /\ body' = body
      BY <1>1, <3>1, <3>3 DEF PaneStays
    <3>4. CASE PaneHides /\ body' = body
      <4>1. ~ PaneIsGone(ThePane) /\ ~ PaneIsGone(panes'[1]) /\ paneTrap' = 0
        BY <1>1, <2>1, <3>4, PaneTurns DEF PaneHides, PaneIsGone
      <4> QED
        BY <1>1, <3>1, <3>4, <4>1
    <3>5. CASE PaneShows /\ body' = Panes!PageForShow(body)
      <4>1. ~panes'[1].hurried
        BY <2>6 DEF Calm, ThePane
      <4>2. PaneIsGone(ThePane) /\ ~ PaneIsGone(panes'[1]) /\ panes'[1].isShown
        BY <1>1, <2>1, <3>5, <4>1, PaneTurns
      <4>3. ~body.open /\ PageFree(body)
        BY <1>1, <3>1, <3>2, <4>2
      <4> QED
        BY <1>1, <3>2, <3>5, <4>2, <4>3, PageTurns
    <3>6. CASE PaneEnds /\ body' = IF Head(ThePane.timers) = "show" THEN body
                                   ELSE Panes!PageForHidden(body)
      <4>1. ~ThePane.hurried
        BY <3>1 DEF Calm
      <4>2. /\ panes'[1].isShown = ThePane.isShown
            /\ Head(ThePane.timers) = IF ThePane.isShown THEN "show" ELSE "hide"
            /\ ~ThePane.isShown => PaneIsGone(panes'[1])
        BY <1>1, <2>1, <3>6, <4>1, PaneTurns
      <4>3. ThePane.isShown => ~ PaneIsGone(panes'[1])
        BY <4>2 DEF PaneIsGone
      <4>4. /\ ~ PaneIsGone(ThePane)
            /\ paneTrap' = (IF Head(ThePane.timers) = "show" THEN 1 ELSE paneTrap)
        BY <3>6 DEF PaneEnds, PaneIsGone
      <4>5. ~body.open /\ PageBehindPane(body)
        BY <1>1, <3>1, <4>4
      <4> QED
        BY <1>1, <3>1, <3>2, <3>6, <4>2, <4>3, <4>4, <4>5, PageTurns
    <3> QED
      BY <2>1, <3>3, <3>4, <3>5, <3>6
  <2> QED
    BY <2>4, <2>5, <2>6 DEF PageInv, ThePane, PageUnderModal, PageFree, PageBehindPane,
                            PaneIsGone, Both!PaddingLeft
<1>7. ASSUME UNCHANGED Both!PaneVars
      PROVE  panes' = [p \in {1} |-> panes'[p]] /\ paneConf' = paneConf /\ PaneStays
  BY <1>1, <1>7 DEF Both!PaneVars, PaneStays, ThePane, PlainPage
<1>8. ASSUME NEW hides \in SUBSET Both!Shown, Both!PanesChange({}, hides)
      PROVE  /\ panes' = [p \in {1} |-> panes'[p]] /\ paneConf' = paneConf
             /\ PaneStays \/ PaneHides
  <2>1. hides \in SUBSET {1} /\ {} \in SUBSET {1} /\ (hides = {} \/ (1 \in hides /\ ThePane.isShown))
    BY <1>3, <1>8 DEF Both!Shown, ThePane
  <2> QED
    BY <1>1, <1>8, <2>1, BothChange DEF PaneStays, PaneHides
<1>9. ASSUME NEW where \in {"dialog", "backdrop", "outside"}, Both!ClickInModal(where)
      PROVE  PageInv'
  <2>1. /\ Both!PanesChange({}, IF where = "outside" THEN {} ELSE Both!Shown)
        /\ Dialog!ModalNext
    BY <1>9, SameActions DEF Both!ClickInModal, Dialog!ModalNext
  <2> QED
    BY <1>5, <1>8, <2>1
<1>10. ASSUME Both!EscapeInModal PROVE PageInv'
  <2>1. Both!PanesChange({}, Both!HiddenByEscape) /\ Dialog!ModalNext
    BY <1>10, SameActions DEF Both!EscapeInModal, Dialog!ModalNext
  <2>2. Both!HiddenByEscape \in SUBSET Both!Shown
    BY DEF Both!HiddenByEscape
  <2> QED
    BY <1>5, <1>8, <2>1, <2>2
<1>11. \/ \E where \in {"dialog", "backdrop", "outside"} : Both!ClickInModal(where)
       \/ Both!EscapeInModal
       \/ Both!OffcanvasNext /\ UNCHANGED Both!DialogVars
       \/ Dialog!ModalNext /\ UNCHANGED Both!PaneVars
  BY SameActions DEF Both!OverlaysNext, Both!ModalAlone, Dialog!ModalNext
<1> QED
  BY <1>5, <1>6, <1>7, <1>9, <1>10, <1>11

\* The page with a modal and a pane is, at any time that nothing was overtaken,
\* free, under the modal or behind the pane, as that one left it: the saved
\* padding is the one the page has between the two (util/scrollbar.js, and
\* _setScrollbar and _resetScrollbar of the modal).
THEOREM PageKept == DocsSpec => []PageInv
<1>1. ASSUME DocsInit PROVE PageInv
  <2> SUFFICES ASSUME widget = "both" PROVE PageInv
    BY DEF PageInv
  <2>1. PICK long \in BOOLEAN, padding \in {"empty", "own"} :
          Both!OverlaysLoad(PlainModal, PlainPane, long, padding)
    BY <1>1 DEF DocsInit, OverlaysInit
  <2>2. /\ modalConf = PlainModal /\ modal.onElement = <<>>
        /\ paneConf = PlainPane /\ paneTrap = 0
    BY <2>1 DEF Both!OverlaysLoad, Both!ModalLoad, Both!OffcanvasLoad
  <2>3. panes = [p \in {1} |-> [isShown |-> FALSE, toggling |-> FALSE,
                  visible |-> FALSE, timers |-> <<>>, hurried |-> FALSE]]
    BY <2>1 DEF Both!OverlaysLoad, Both!OffcanvasLoad, Both!Pane
  <2>4. body = [long |-> long, overflow |-> "unset", open |-> FALSE, dimmed |-> FALSE,
                padding |-> padding, saved |-> "none", loaded |-> padding,
                opened |-> FALSE]
    BY <2>1 DEF Both!OverlaysLoad, Both!BodyLoad
  <2>5. <<>> \in Seq({"show", "hide"})
    BY EmptySeq
  <2>6. panes \in [1..1 -> PaneState] /\ Animated(ThePane) /\ PaneIsGone(ThePane)
    <3> DEFINE z == [isShown |-> FALSE, toggling |-> FALSE, visible |-> FALSE,
                     timers |-> <<>>, hurried |-> FALSE]
    <3>1. /\ z \in PaneState /\ ~z.isShown /\ z.timers = <<>>
          /\ z.visible = z.isShown
      BY <2>5 DEF PaneState
    <3>2. panes = [p \in 1..1 |-> z]
      BY <2>3
    <3> HIDE DEF z
    <3>3. panes \in [1..1 -> PaneState] /\ ThePane = z
      BY <3>1, <3>2 DEF ThePane
    <3> QED
      BY <3>1, <3>3 DEF Animated, PaneIsGone
  <2>7. PageFree(body) /\ ~body.open
    BY <2>4 DEF PageFree, Both!PaddingLeft
  <2>8. \A i \in DOMAIN modal.onElement : modal.onElement[i] = "hide"
    BY <2>2
  <2> QED
    BY <2>2, <2>6, <2>7, <2>8 DEF PageInv, PlainPage
<1>2. ASSUME ModalInv, ModalInv', PageInv, [DocsNext]_docsVars PROVE PageInv'
  <2>1. CASE UNCHANGED docsVars
    BY <1>2, <2>1 DEF docsVars, dialogVars, panesVars, PageInv, PlainPage, Animated, ThePane,
       Calm, PaneIsGone, PageUnderModal, PageFree, PageBehindPane, Both!PaddingLeft
  <2>2. CASE DocsNext
    <3>1. widget' = widget /\ (widget = "both" => Both!OverlaysNext)
      BY <2>2 DEF DocsNext
    <3> QED
      BY <1>2, <3>1, PageStep DEF PageInv
  <2> QED
    BY <1>2, <2>1, <2>2
<1> QED
  BY <1>1, <1>2, ModalKept, PTL DEF DocsSpec

\* When both overlays are gone the page can scroll again, its backdrop and focus trap
\* are taken away, its padding is its own, or none on a short page that had a modal,
\* and the two never fight for the focus, unless one was shown over the other or a
\* call overtook another: for a page of any length, with or without padding.
THEOREM PageGivenBack == DocsSpec => []PageIsGivenBack
<1>1. ASSUME ModalInv, PageInv PROVE PageIsGivenBack
  <2> SUFFICES ASSUME widget = "both", Both!Undisturbed
               PROVE  /\ ~(modal.trap /\ paneTrap # 0)
                      /\ Both!PanesGone /\ Both!ModalGone =>
                           /\ ~body.open /\ ~body.dimmed /\ Both!Scrolls(body) /\ paneTrap = 0
                           /\ body.padding = Both!PaddingLeft(body)
                           /\ body.saved = "none"
    BY DEF PageIsGivenBack, Both!PageIsGivenBack
  <2>1. Both!Pane = {1}
    BY DEF Both!Pane
  <2>2. Calm /\ ~modal.reshown
    BY <2>1 DEF Both!Undisturbed, Calm, ThePane
  <2>3. /\ body.open <=> ~Both!ModalGone
        /\ modal.trap => body.open
    BY <1>1, <2>2, GoneIsClosed DEF PageInv
  <2>4. /\ paneTrap # 0 => ThePane.isShown
        /\ body.open => PaneIsGone(ThePane)
        /\ ~body.open /\ PaneIsGone(ThePane) => PageFree(body)
    BY <1>1, <2>2 DEF PageInv
  <2>5. Both!PanesGone <=> PaneIsGone(ThePane)
    BY <2>1 DEF Both!PanesGone, Both!PaneGone, PaneIsGone, ThePane
  <2>6. PageFree(body) => Both!Scrolls(body)
    BY <1>1 DEF PageFree, Both!Scrolls, ModalInv, BodyState
  <2> QED
    BY <2>3, <2>4, <2>5, <2>6 DEF PaneIsGone, PageFree
<1> QED
  BY <1>1, ModalKept, PageKept, PTL

\* No handler of one click or of one drag undoes another: a drag out of the
\* dialog does not dismiss it, and a click on a toggler toggles its menu.
THEOREM HandlersAgree == DocsSpec => ClickHandlersAgree
BY DragsDismissNothing, MenusToggle, PTL DEF ClickHandlersAgree
-----------------------------------------------------------------------------
(***************************************************************************)
(* The legs of the modal, one after the other.                             *)
(***************************************************************************)
\* Also when a show overtook a hide, a modal waits for the end of one leg at
\* most, and _isTransitioning is up while it does: only the nudge of a static
\* backdrop and the fading of old ones go on besides.  A modal that is shown
\* leaves room for one more backdrop to fade.
Legs(m) ==
  /\ m.backdropIn \/ m.dialogIn => m.isShown /\ m.isTransitioning
  /\ Hiding(m) => ~m.isShown /\ m.isTransitioning
  /\ ~(m.backdropIn /\ m.dialogIn)
  /\ m.backdrops \in 0..MaxBackdrops /\ m.fading \in 0..MaxBackdrops
  /\ m.ref => m.backdrops > 0
  /\ m.isShown \/ Hiding(m) => m.fading < MaxBackdrops

LegsInv == Legs(modal) /\ mouse \in {"up", "dialog", "backdrop", "stray"}

\* What does not touch the fields of Legs keeps it, and so does what drops a hide.
LEMMA StillLegs ==
  ASSUME NEW m \in ModalState, NEW n \in ModalState, Legs(m),
         n.isShown = m.isShown, n.isTransitioning = m.isTransitioning,
         n.backdropIn = m.backdropIn, n.dialogIn = m.dialogIn,
         n.ref = m.ref, n.backdrops = m.backdrops, n.fading = m.fading,
         Hiding(n) => Hiding(m)
  PROVE  Legs(n)
BY DEF Legs

\* show() begins its first leg when no other is left.
LEMMA ShowLegs ==
  ASSUME NEW m \in ModalState, modalConf \in Dialog!ModalConf, Legs(m),
         ~m.isShown, ~m.isTransitioning, m.backdrops < MaxBackdrops, m.fading < MaxBackdrops
  PROVE  Legs(Dialog!ShowModal(m))
<1> DEFINE s == Dialog!ShowModal(m)
           waits == modalConf.animated /\ HasBackdrop
<1>1. /\ s \in ModalState /\ s.isShown
      /\ s.isTransitioning = modalConf.animated
      /\ s.ref = (m.ref \/ HasBackdrop)
      /\ s.backdrops = m.backdrops + (IF HasBackdrop THEN 1 ELSE 0)
      /\ s.backdropIn = (m.backdropIn \/ waits)
      /\ s.dialogIn = (IF waits THEN m.dialogIn ELSE modalConf.animated)
      /\ s.fading = m.fading /\ s.onElement = m.onElement
  BY ShowModalFields, Zenon
<1> SUFFICES Legs(s)
  OBVIOUS
<1> HIDE DEF s
<1>2. /\ m.backdropIn = FALSE /\ m.dialogIn = FALSE /\ ~ Hiding(m)
      /\ m.backdrops \in 0..MaxBackdrops /\ m.fading \in 0..MaxBackdrops
      /\ (m.ref => m.backdrops > 0) /\ MaxBackdrops \in Nat
      /\ modalConf.animated \in BOOLEAN
  BY DocsAssumption DEF Legs, ModalState, Dialog!ModalConf
<1>3. ~ Hiding(s)
  BY <1>1, <1>2 DEF Hiding
<1>4. /\ s.backdrops \in 0..MaxBackdrops /\ s.fading \in 0..MaxBackdrops
      /\ (s.ref => s.backdrops > 0) /\ s.fading < MaxBackdrops
  <2>1. CASE HasBackdrop
    <3>1. s.backdrops = m.backdrops + 1 /\ s.fading = m.fading
      BY <1>1, <2>1
    <3> QED
      BY <1>2, <3>1
  <2>2. CASE ~HasBackdrop
    <3>1. s.backdrops = m.backdrops /\ s.fading = m.fading /\ s.ref = m.ref
      BY <1>1, <1>2, <2>2 DEF ModalState
    <3> QED
      BY <1>2, <3>1
  <2> QED
    BY <2>1, <2>2
<1>5. /\ s.backdropIn = waits /\ s.dialogIn = (~waits /\ modalConf.animated)
  BY <1>1, <1>2
<1> QED
  BY <1>1, <1>3, <1>4, <1>5 DEF Legs

\* _hideModal() begins the last leg, the fading of the backdrop, if there is one.
LEMMA HideElementLegs ==
  ASSUME NEW m \in ModalState, modalConf \in Dialog!ModalConf, Legs(m),
         ~m.isShown, ~ Hiding(m), m.fading < MaxBackdrops
  PROVE  Legs(Dialog!HideElement(m))
<1> DEFINE n == Dialog!HideElement(m)
<1>1. /\ n \in ModalState /\ ~n.displayed /\ ~n.isTransitioning
      /\ n.ref = (m.ref /\ modalConf.animated)
      /\ n.fading = m.fading + (IF m.ref /\ modalConf.animated THEN 1 ELSE 0)
      /\ n.backdrops = m.backdrops - (IF m.ref /\ ~modalConf.animated THEN 1 ELSE 0)
      /\ n.isShown = m.isShown /\ n.trap = m.trap
      /\ n.backdropIn = m.backdropIn /\ n.dialogIn = m.dialogIn
      /\ n.onElement = m.onElement /\ n.mouseup = m.mouseup /\ n.reshown = m.reshown
  BY HideElementFields, Zenon
<1> SUFFICES Legs(n)
  OBVIOUS
<1> HIDE DEF n
<1>2. /\ ~m.backdropIn /\ ~m.dialogIn
      /\ m.backdrops \in 0..MaxBackdrops /\ m.fading \in 0..MaxBackdrops
      /\ (m.ref => m.backdrops > 0) /\ MaxBackdrops \in Nat
  BY DocsAssumption DEF Legs
<1>3. ~ Hiding(n)
  BY <1>1 DEF Hiding
<1>4. /\ n.backdrops \in 0..MaxBackdrops /\ n.fading \in 0..MaxBackdrops
      /\ (n.ref => n.backdrops > 0)
  <2>1. CASE m.ref /\ modalConf.animated
    <3>1. n.fading = m.fading + 1 /\ n.backdrops = m.backdrops
      BY <1>1, <1>2, <2>1
    <3> QED
      BY <1>2, <2>1, <3>1
  <2>2. CASE m.ref /\ ~modalConf.animated
    <3>1. n.fading = m.fading /\ n.backdrops = m.backdrops - 1
      BY <1>1, <1>2, <2>2
    <3>2. ~n.ref
      BY <1>1, <2>2
    <3> QED
      BY <1>2, <2>2, <3>1, <3>2
  <2>3. CASE ~m.ref
    <3>1. n.fading = m.fading /\ n.backdrops = m.backdrops
      BY <1>1, <1>2, <2>3
    <3>2. ~n.ref
      BY <1>1, <2>3
    <3> QED
      BY <1>2, <3>1, <3>2
  <2> QED
    BY <2>1, <2>2, <2>3
<1> QED
  BY <1>1, <1>2, <1>3, <1>4 DEF Legs

\* hide() begins the first leg of hiding when no other is left.
LEMMA HideLegs ==
  ASSUME NEW m \in ModalState, modalConf \in Dialog!ModalConf, Legs(m),
         m.isShown, ~m.isTransitioning
  PROVE  Legs(Dialog!HideModal(m))
<1> DEFINE n == Dialog!HideModal(m)
<1>1. /\ n \in ModalState /\ n.isShown = FALSE /\ n.trap = FALSE
      /\ n.backdropIn = m.backdropIn /\ n.dialogIn = m.dialogIn
      /\ modalConf.animated =>
           /\ n.isTransitioning /\ n.ref = m.ref /\ n.backdrops = m.backdrops
           /\ n.fading = m.fading /\ Hiding(n)
      /\ ~modalConf.animated =>
           /\ ~n.displayed /\ ~n.isTransitioning /\ n.ref = FALSE
           /\ n.fading = m.fading /\ n.onElement = m.onElement
           /\ n.backdrops = m.backdrops - (IF m.ref THEN 1 ELSE 0)
  BY HideModalFields, Zenon
<1> SUFFICES Legs(n)
  OBVIOUS
<1> HIDE DEF n
<1>2. /\ ~m.backdropIn /\ ~m.dialogIn /\ ~ Hiding(m) /\ m.fading < MaxBackdrops
      /\ m.backdrops \in 0..MaxBackdrops /\ m.fading \in 0..MaxBackdrops
      /\ (m.ref => m.backdrops > 0) /\ MaxBackdrops \in Nat
  BY DocsAssumption DEF Legs
<1>3. CASE modalConf.animated
  BY <1>1, <1>2, <1>3 DEF Legs
<1>4. CASE ~modalConf.animated
  <2>1. ~ Hiding(n)
    BY <1>1, <1>2, <1>4 DEF Hiding
  <2>2. n.backdrops \in 0..MaxBackdrops
    <3>1. CASE m.ref
      BY <1>1, <1>2, <1>4, <3>1
    <3>2. CASE ~m.ref
      BY <1>1, <1>2, <1>4, <3>2
    <3> QED
      BY <3>1, <3>2
  <2> QED
    BY <1>1, <1>2, <1>4, <2>1, <2>2 DEF Legs
<1> QED
  BY <1>3, <1>4

\* The nudge of a static backdrop is not a leg.
LEMMA StaticLegs ==
  ASSUME NEW m \in ModalState, modalConf \in Dialog!ModalConf, Legs(m)
  PROVE  Legs(Dialog!StaticTransition(m))
<1> DEFINE n == Dialog!StaticTransition(m)
<1>1. /\ n \in ModalState /\ n.isShown = m.isShown /\ n.trap = m.trap
      /\ n.isTransitioning = m.isTransitioning /\ n.displayed = m.displayed
      /\ n.backdropIn = m.backdropIn /\ n.dialogIn = m.dialogIn
      /\ n.ref = m.ref /\ n.backdrops = m.backdrops /\ n.fading = m.fading
      /\ n.mouseup = m.mouseup /\ n.reshown = m.reshown /\ ~ Hiding(n)
  BY StaticFields, Zenon
<1> SUFFICES Legs(n)
  OBVIOUS
<1> HIDE DEF n
<1> QED
  BY <1>1, StillLegs
-----------------------------------------------------------------------------
\* Each handler keeps them: those of calls, keys and the mouse,
LEMMA CalledLegs ==
  ASSUME ModalInv, LegsInv,
         \/ \E veto \in BOOLEAN : Dialog!CallShow(veto)
         \/ Dialog!CallHide \/ Dialog!ModalEscape
  PROVE  Legs(modal') /\ mouse' = mouse
<1>1. /\ modalConf \in Dialog!ModalConf /\ modal \in ModalState /\ Legs(modal)
      /\ modalConf.animated \in BOOLEAN
  BY DEF ModalInv, LegsInv, Dialog!ModalConf
<1>2. ASSUME modal.isShown, ~modal.isTransitioning, Dialog!HideAndPage(modal)
      PROVE  Legs(modal')
  BY <1>1, <1>2, HideLegs DEF Dialog!HideAndPage
<1>3. ASSUME NEW veto \in BOOLEAN, Dialog!CallShow(veto) PROVE Legs(modal')
  <2>1. /\ ~modal.isShown /\ ~modal.isTransitioning
        /\ modal.backdrops < MaxBackdrops /\ modal.fading < MaxBackdrops
    BY <1>3 DEF Dialog!CallShow, Dialog!MayShow
  <2>2. CASE ~veto
    BY <1>1, <1>3, <2>1, <2>2, ShowLegs DEF Dialog!CallShow
  <2>3. CASE veto
    <3> DEFINE w == modal.stuck \/ modalConf.animated
               n == [modal EXCEPT !.isTransitioning = modalConf.animated, !.stuck = w]
    <3>1. modal' = n
      BY <1>3, <2>3 DEF Dialog!CallShow
    <3>2. w \in BOOLEAN
      BY <1>1 DEF ModalState
    <3> HIDE DEF w
    <3>3. /\ n.isShown = modal.isShown
          /\ n.backdropIn = modal.backdropIn /\ n.dialogIn = modal.dialogIn
          /\ n.ref = modal.ref /\ n.backdrops = modal.backdrops /\ n.fading = modal.fading
          /\ n.onElement = modal.onElement
      BY <1>1 DEF ModalState
    <3> HIDE DEF n
    <3>4. ~modal.backdropIn /\ ~modal.dialogIn /\ ~ Hiding(modal) /\ ~ Hiding(n)
      BY <1>1, <2>1, <3>3 DEF Legs, Hiding
    <3> QED
      BY <1>1, <3>1, <3>3, <3>4 DEF Legs
  <2> QED
    BY <2>2, <2>3
<1>4. ASSUME Dialog!CallHide PROVE Legs(modal')
  BY <1>2, <1>4 DEF Dialog!CallHide, Dialog!MayHide
<1>5. ASSUME Dialog!ModalEscape PROVE Legs(modal')
  <2>1. CASE Dialog!HideAndPage(modal) /\ Dialog!MayHide
    BY <1>2, <2>1 DEF Dialog!MayHide
  <2>2. CASE modal' = Dialog!StaticTransition(modal)
    BY <1>1, <2>2, StaticLegs
  <2>3. CASE modal' = modal
    BY <1>1, <2>3
  <2> QED
    BY <1>5, <2>1, <2>2, <2>3 DEF Dialog!ModalEscape
<1> QED
  BY <1>3, <1>4, <1>5 DEF Dialog!CallShow, Dialog!CallHide, Dialog!ModalEscape

\* The presses of the mouse, and its releases with the click that comes of them.
LEMMA MouseLegs ==
  ASSUME ModalInv, LegsInv, NEW where \in {"dialog", "backdrop", "outside"},
         \/ where # "outside" /\ Dialog!Press(where)
         \/ Dialog!Release(where)
  PROVE  LegsInv'
<1>1. /\ modalConf \in Dialog!ModalConf /\ modal \in ModalState /\ Legs(modal)
  BY DEF ModalInv, LegsInv
<1>2. ASSUME NEW m \in ModalState, NEW a, NEW b,
             m = [modal EXCEPT !.mouseup = a, !.ignoreBackdropClick = b]
      PROVE  Legs(m) /\ m.isShown = modal.isShown /\ m.isTransitioning = modal.isTransitioning
  <2>1. /\ m.isShown = modal.isShown /\ m.isTransitioning = modal.isTransitioning
        /\ m.backdropIn = modal.backdropIn /\ m.dialogIn = modal.dialogIn
        /\ m.ref = modal.ref /\ m.backdrops = modal.backdrops /\ m.fading = modal.fading
        /\ m.onElement = modal.onElement
    BY <1>1, <1>2 DEF ModalState
  <2>2. Hiding(m) <=> Hiding(modal)
    BY <2>1 DEF Hiding
  <2> QED
    BY <1>1, <2>1, <2>2, StillLegs
<1>3. CASE where # "outside" /\ Dialog!Press(where)
  <2> DEFINE w == modal.mouseup \/ (where = "dialog" /\ modal.isShown)
             n == [modal EXCEPT !.mouseup = w]
  <2>1. /\ modal' = n
        /\ mouse' = IF where = "dialog" /\ ~modal.isShown THEN "stray" ELSE where
    BY <1>3 DEF Dialog!Press
  <2>2. w \in BOOLEAN
    BY <1>1 DEF ModalState
  <2> HIDE DEF w
  <2>3. /\ n \in ModalState
        /\ n = [modal EXCEPT !.mouseup = w, !.ignoreBackdropClick = modal.ignoreBackdropClick]
    BY <1>1, <2>2 DEF ModalState
  <2> HIDE DEF n
  <2> QED
    BY <1>2, <1>3, <2>1, <2>3 DEF LegsInv
<1>4. CASE Dialog!Release(where)
  <2> DEFINE w == modal.ignoreBackdropClick \/ (modal.mouseup /\ where = "backdrop")
             m == [modal EXCEPT !.mouseup = FALSE, !.ignoreBackdropClick = w]
             i == [m EXCEPT !.ignoreBackdropClick = FALSE]
  <2>1. /\ mouse' = "up"
        /\ \/ modal' = modal \/ modal' = m \/ modal' = i
           \/ modal' = Dialog!StaticTransition(m)
           \/ m.isShown /\ ~m.isTransitioning /\ modal' = Dialog!HideModal(m)
    BY <1>4 DEF Dialog!Release, Dialog!HideAndPage
  <2>2. w \in BOOLEAN
    BY <1>1 DEF ModalState
  <2> HIDE DEF w
  <2>3. m \in ModalState /\ i \in ModalState
    BY <1>1, <2>2 DEF ModalState
  <2>4. i = [modal EXCEPT !.mouseup = FALSE, !.ignoreBackdropClick = FALSE]
    BY <1>1, <2>2 DEF ModalState
  <2>5. Legs(m) /\ Legs(i)
    BY <1>2, <2>3, <2>4
  <2> HIDE DEF m, i
  <2>6. Legs(modal')
    BY <1>1, <2>1, <2>3, <2>5, StaticLegs, HideLegs
  <2> QED
    BY <2>1, <2>6 DEF LegsInv
<1> QED
  BY <1>3, <1>4

\* and those of the ends of the transitions.
LEMMA EndedLegs ==
  ASSUME ModalInv, LegsInv,
         \/ Dialog!BackdropShown \/ Dialog!DialogShown
         \/ Dialog!ElementTransitionEnd \/ Dialog!BackdropFaded
  PROVE  Legs(modal') /\ mouse' = mouse
<1>1. /\ modalConf \in Dialog!ModalConf /\ modal \in ModalState /\ Legs(modal)
      /\ modalConf.animated \in BOOLEAN /\ modal.fading \in Int /\ modal.backdrops \in Int
  BY DEF ModalInv, LegsInv, Dialog!ModalConf, ModalState
<1>2. CASE Dialog!BackdropShown
  <2> DEFINE m == [modal EXCEPT !.backdropIn = FALSE]
             n == Dialog!ShowElement(m)
  <2>1. modal' = n /\ modal.backdropIn /\ mouse' = mouse
    BY <1>2 DEF Dialog!BackdropShown
  <2>2. m \in ModalState /\ m.backdropIn = FALSE
    BY <1>1 DEF ModalState
  <2>3. /\ m.isShown = modal.isShown /\ m.isTransitioning = modal.isTransitioning
        /\ m.ref = modal.ref /\ m.backdrops = modal.backdrops /\ m.fading = modal.fading
        /\ m.onElement = modal.onElement
    BY <1>1 DEF ModalState
  <2> HIDE DEF m
  <2>4. /\ n \in ModalState /\ n.displayed /\ n.trap
        /\ n.dialogIn = modalConf.animated
        /\ n.isTransitioning = (m.isTransitioning /\ modalConf.animated)
        /\ n.isShown = m.isShown /\ n.ref = m.ref /\ n.backdrops = m.backdrops
        /\ n.backdropIn = m.backdropIn /\ n.fading = m.fading
        /\ n.onElement = m.onElement /\ n.mouseup = m.mouseup /\ n.reshown = m.reshown
    BY <1>1, <2>2, ShowElementFields, Zenon
  <2> HIDE DEF n
  <2>5. modal.isShown /\ modal.isTransitioning /\ ~ Hiding(modal)
    BY <1>1, <2>1 DEF Legs
  <2>6. ~ Hiding(n)
    BY <2>3, <2>4, <2>5 DEF Hiding
  <2> QED
    BY <1>1, <2>1, <2>2, <2>3, <2>4, <2>5, <2>6 DEF Legs
<1>3. CASE Dialog!DialogShown
  <2> DEFINE n == [modal EXCEPT !.dialogIn = FALSE, !.isTransitioning = FALSE]
  <2>1. modal' = n /\ modal.dialogIn /\ mouse' = mouse
    BY <1>3 DEF Dialog!DialogShown
  <2>2. /\ n.dialogIn = FALSE /\ n.isShown = modal.isShown
        /\ n.backdropIn = modal.backdropIn
        /\ n.ref = modal.ref /\ n.backdrops = modal.backdrops /\ n.fading = modal.fading
        /\ n.onElement = modal.onElement
    BY <1>1 DEF ModalState
  <2> HIDE DEF n
  <2>3. ~modal.backdropIn /\ ~ Hiding(modal)
    BY <1>1, <2>1 DEF Legs
  <2>4. ~ Hiding(n)
    BY <2>2, <2>3 DEF Hiding
  <2> QED
    BY <1>1, <2>1, <2>2, <2>3, <2>4 DEF Legs
<1>4. CASE Dialog!ElementTransitionEnd
  <2> DEFINE ends == {modal.onElement[i] : i \in DOMAIN modal.onElement}
             a == modal.static /\ "static" \notin ends
             b == modal.overflowY /\ "overflow" \notin ends
             c == IF "static" \in ends /\ ~modalConf.tall THEN <<"overflow">> ELSE <<>>
             m == [modal EXCEPT !.static = a, !.overflowY = b, !.onElement = c]
  <2>1. /\ mouse' = mouse
        /\ modal' = IF "hide" \in ends THEN Dialog!HideElement(m) ELSE m
    BY <1>4, Zenon DEF Dialog!ElementTransitionEnd
  <2>2. "hide" \in ends <=> Hiding(modal)
    BY DEF Hiding
  <2>3. /\ a \in BOOLEAN /\ b \in BOOLEAN /\ c \in Seq({"hide", "static", "overflow"})
        /\ \A i \in DOMAIN c : c[i] # "hide"
    <3>1. modal.static \in BOOLEAN /\ modal.overflowY \in BOOLEAN
      BY <1>1 DEF ModalState
    <3>2. /\ <<"overflow">> \in Seq({"hide", "static", "overflow"})
          /\ \A i \in DOMAIN <<"overflow">> : <<"overflow">>[i] # "hide"
          /\ <<>> \in Seq({"hide", "static", "overflow"})
          /\ \A i \in DOMAIN <<>> : <<>>[i] # "hide"
      OBVIOUS
    <3> HIDE DEF ends
    <3> QED
      BY <3>1, <3>2
  <2> HIDE DEF ends, a, b, c
  <2>4. m \in ModalState /\ m.onElement = c
    BY <1>1, <2>3 DEF ModalState
  <2>5. /\ m.isShown = modal.isShown /\ m.isTransitioning = modal.isTransitioning
        /\ m.backdropIn = modal.backdropIn /\ m.dialogIn = modal.dialogIn
        /\ m.ref = modal.ref /\ m.backdrops = modal.backdrops /\ m.fading = modal.fading
    BY <1>1 DEF ModalState
  <2> HIDE DEF m
  <2>6. ~ Hiding(m)
    BY <2>3, <2>4 DEF Hiding
  <2>7. Legs(m)
    BY <1>1, <2>4, <2>5, <2>6, StillLegs
  <2>8. Hiding(modal) => ~m.isShown /\ m.fading < MaxBackdrops
    BY <1>1, <2>5 DEF Legs
  <2> QED
    BY <1>1, <2>1, <2>2, <2>4, <2>6, <2>7, <2>8, HideElementLegs
<1>5. CASE Dialog!BackdropFaded
  <2> DEFINE k == IF modal.ref THEN modal.backdrops - 1 ELSE modal.backdrops
             f == modal.fading - 1
             n == [modal EXCEPT !.fading = f, !.ref = FALSE, !.backdrops = k]
  <2>1. modal.fading > 0 /\ modal' = n /\ mouse' = mouse
    BY <1>5, Zenon DEF Dialog!BackdropFaded
  <2>2. /\ f \in 0..MaxBackdrops /\ f < MaxBackdrops /\ k \in 0..MaxBackdrops
    BY <1>1, <2>1, DocsAssumption DEF Legs
  <2> HIDE DEF k, f
  <2>3. n.fading = f /\ n.ref = FALSE /\ n.backdrops = k
    BY <1>1 DEF ModalState
  <2>4. /\ n.isShown = modal.isShown /\ n.isTransitioning = modal.isTransitioning
        /\ n.backdropIn = modal.backdropIn /\ n.dialogIn = modal.dialogIn
        /\ n.onElement = modal.onElement
    BY <1>1 DEF ModalState
  <2> HIDE DEF n
  <2>5. Hiding(n) <=> Hiding(modal)
    BY <2>4 DEF Hiding
  <2> QED
    BY <1>1, <2>1, <2>2, <2>3, <2>4, <2>5 DEF Legs
<1> QED
  BY <1>2, <1>3, <1>4, <1>5

\* Every page keeps the legs of its modal apart, whatever overtakes what: no
\* callback of a transition finds the modal in the middle of another one
\* (_isTransitioning of Modal.show and hide), and no more backdrops fade than
\* were put there.
THEOREM LegsKept == DocsSpec => []LegsInv
<1>1. ASSUME DocsInit PROVE LegsInv
  <2>1. PICK conf \in Dialog!ModalConf : Dialog!ModalLoad(conf)
    BY <1>1, DialogsLoad
  <2>2. /\ mouse = "up" /\ ~modal.isShown /\ ~modal.ref /\ modal.backdrops = 0
        /\ ~modal.backdropIn /\ ~modal.dialogIn /\ modal.fading = 0 /\ modal.onElement = <<>>
    BY <2>1 DEF Dialog!ModalLoad
  <2>3. ~ Hiding(modal)
    BY <2>2 DEF Hiding
  <2> QED
    BY <2>2, <2>3, DocsAssumption DEF LegsInv, Legs
<1>2. ASSUME ModalInv, LegsInv, [DocsNext]_docsVars PROVE LegsInv'
  <2>1. CASE UNCHANGED dialogVars
    BY <1>2, <2>1 DEF dialogVars, LegsInv, Legs, Hiding
  <2>2. CASE Dialog!ModalNext
    <3>1. ASSUME Legs(modal'), mouse' = mouse PROVE LegsInv'
      BY <1>2, <3>1 DEF LegsInv, Legs, Hiding
    <3>2. {"dialog", "backdrop"} \subseteq {"dialog", "backdrop", "outside"} \ {"outside"}
      OBVIOUS
    <3> QED
      BY <1>2, <2>2, <3>1, <3>2, CalledLegs, MouseLegs, EndedLegs DEF Dialog!ModalNext
  <2> QED
    BY <1>2, <2>1, <2>2, DialogsStep DEF docsVars
<1> QED
  BY <1>1, <1>2, ModalKept, PTL DEF DocsSpec
-----------------------------------------------------------------------------
(***************************************************************************)
(* The types of everything on a page.                                      *)
(***************************************************************************)
\* The panes of a page, as it was loaded for them.
PanesTyped ==
  IF widget \in {"modal", "panes"} THEN Panes!OffcanvasTypeOK ELSE Both!OffcanvasTypeOK

\* A script is what `scripted` tells of, and nothing else sets it.
LEMMA ScriptedStays ==
  ASSUME scripted \in BOOLEAN, Both!OverlaysNext
  PROVE  scripted' \in BOOLEAN
<1>1. Both!OffcanvasNext => scripted' = scripted \/ scripted' = TRUE
  BY Zenon DEF Both!OffcanvasNext, Both!PaneUser, Both!ClickPaneToggler,
         Both!ClickInsideToggler, Both!ScriptShows, Both!ScriptHides, Both!ClickElsewhere, Both!PaneEscape, Both!PaneTimer
<1>2. \A A : Both!ModalAlone(A) => scripted' = scripted
  BY DEF Both!ModalAlone, Both!PaneVars
<1>3. \A where : Both!ClickInModal(where) => scripted' = scripted
  BY Zenon DEF Both!ClickInModal
<1>4. Both!EscapeInModal => scripted' = scripted
  BY Zenon DEF Both!EscapeInModal
<1>5. scripted' = scripted \/ scripted' = TRUE
  BY <1>1, <1>2, <1>3, <1>4, Zenon DEF Both!OverlaysNext
<1> QED
  BY <1>5

\* The panes of every page are of their type: those of a page without a modal
\* by PanesInv, the one beside a modal by PageInv, and the others are at rest.
THEOREM PanesAreTyped == DocsSpec => []PanesTyped
<1>1. ASSUME DocsInit PROVE PanesTyped
  <2>1. PlainPane \in Panes!PaneConf /\ PlainPane \in Both!PaneConf
    BY DEF PlainPane, Panes!PaneConf, Both!PaneConf
  <2> DEFINE idle == [isShown |-> FALSE, toggling |-> FALSE, visible |-> FALSE,
                      timers |-> <<>>, hurried |-> FALSE]
  <2>2. idle \in PaneState
    BY EmptySeq DEF PaneState
  <2>3. ASSUME NEW conf \in Panes!PaneConf, Panes!OffcanvasLoad(conf)
        PROVE  Panes!OffcanvasTypeOK
    <3>1. panes = [p \in Panes!Pane |-> idle]
      BY <2>3, Zenon DEF Panes!OffcanvasLoad
    <3> HIDE DEF idle
    <3>2. panes \in [Panes!Pane -> PaneState]
      BY <2>2, <3>1, Zenon
    <3>3. paneConf = conf /\ paneTrap = 0 /\ scripted \in BOOLEAN /\ 0 \in 0..NPanes
      <4>1. paneConf = conf /\ paneTrap = 0 /\ scripted = FALSE
        BY <2>3, Zenon DEF Panes!OffcanvasLoad
      <4>2. 0 \in 0..NPanes
        BY DocsAssumption
      <4> QED
        BY <4>1, <4>2, Zenon
    <3> QED
      BY <2>3, <3>2, <3>3, Zenon DEF Panes!OffcanvasTypeOK, PaneState
  <2>4. ASSUME NEW long, NEW padding, Both!OverlaysLoad(PlainModal, PlainPane, long, padding)
        PROVE  Both!OffcanvasTypeOK
    <3>1. panes = [p \in Both!Pane |-> idle]
      BY <2>4, Zenon DEF Both!OverlaysLoad, Both!OffcanvasLoad
    <3> HIDE DEF idle
    <3>2. panes \in [Both!Pane -> PaneState]
      BY <2>2, <3>1, Zenon
    <3>3. paneConf = PlainPane /\ paneTrap = 0 /\ scripted \in BOOLEAN /\ 0 \in 0..1
      <4>1. paneConf = PlainPane /\ paneTrap = 0 /\ scripted = FALSE
        BY <2>4, Zenon DEF Both!OverlaysLoad, Both!OffcanvasLoad
      <4>2. 0 \in 0..1
        OBVIOUS
      <4> QED
        BY <4>1, <4>2, Zenon
    <3> QED
      BY <2>1, <3>2, <3>3, Zenon DEF Both!OffcanvasTypeOK, PaneState
  <2>5. widget = "modal" => Panes!OffcanvasLoad(PlainPane)
    BY <1>1 DEF DocsInit, OverlaysInit
  <2>6. widget = "panes" => \E conf \in Panes!PaneConf : Panes!OffcanvasLoad(conf)
    BY <1>1 DEF DocsInit, OverlaysInit, Panes!OffcanvasInit
  <2>7. widget \notin {"modal", "panes"} =>
          \E long, padding : Both!OverlaysLoad(PlainModal, PlainPane, long, padding)
    BY <1>1 DEF DocsInit, OverlaysInit
  <2> QED
    BY <2>1, <2>3, <2>4, <2>5, <2>6, <2>7 DEF PanesTyped
<1>2. ASSUME PanesTyped, PanesInv', PageInv', [DocsNext]_docsVars PROVE PanesTyped'
  <2>1. widget' = widget
    BY <1>2 DEF DocsNext, docsVars
  <2>2. CASE UNCHANGED panesVars
    BY <1>2, <2>1, <2>2 DEF panesVars, PanesTyped, Panes!OffcanvasTypeOK, Both!OffcanvasTypeOK
  <2>3. CASE widget = "panes"
    <3>1. /\ paneConf' \in Panes!PaneConf /\ panes' \in [Panes!Pane -> PaneState]
          /\ paneTrap' \in 0..NPanes /\ scripted' \in BOOLEAN
      BY <1>2, <2>1, <2>3 DEF PanesInv
    <3>2. Panes!OffcanvasTypeOK'
      BY <3>1, Zenon DEF Panes!OffcanvasTypeOK, PaneState, Panes!Pane, Panes!PaneConf
    <3> QED
      BY <2>1, <2>3, <3>2 DEF PanesTyped
  <2>4. CASE widget = "both" /\ Both!OverlaysNext
    <3>1. scripted' \in BOOLEAN
      BY <1>2, <2>4, ScriptedStays DEF PanesTyped, Both!OffcanvasTypeOK
    <3>2. paneConf' = PlainPane /\ panes' \in [1..1 -> PaneState] /\ paneTrap' \in 0..1
      BY <1>2, <2>1, <2>4 DEF PageInv, PlainPage
    <3>3. paneConf' \in Both!PaneConf
      BY <3>2 DEF PlainPane, Both!PaneConf
    <3>4. Both!OffcanvasTypeOK'
      BY <3>1, <3>2, <3>3, Zenon DEF Both!OffcanvasTypeOK, PaneState, Both!Pane, Both!PaneConf
    <3> QED
      BY <2>1, <2>4, <3>4 DEF PanesTyped
  <2>5. \/ UNCHANGED panesVars
        \/ widget = "panes"
        \/ widget = "both" /\ Both!OverlaysNext
    BY <1>2 DEF DocsNext, docsVars
  <2> QED
    BY <2>2, <2>3, <2>4, <2>5
<1> QED
  BY <1>1, <1>2, PanesKept, PageKept, PTL DEF DocsSpec

\* Every variable of a page keeps its type, whatever the bounds: no index leaves
\* its menu or its list, no more tips, slides or backdrops are counted than are
\* there, and no counter falls below zero.
THEOREM DocsTyped == DocsSpec => []DocsTypeOK
<1>1. ASSUME CarouselInv PROVE Carousels!CarouselTypeOK
  BY <1>1 DEF CarouselInv, CarouselState, CarouselConf, Slidable, Carousels!CarouselTypeOK
<1>2. ASSUME ModalInv, LegsInv PROVE Dialog!ModalTypeOK /\ Dialog!BodyTypeOK
  <2>1. Dialog!BodyTypeOK
    BY <1>2 DEF ModalInv, BodyState, Dialog!BodyTypeOK, Dialog!Padding
  <2>2. /\ modal \in ModalState /\ modal.backdrops \in 0..MaxBackdrops
        /\ modal.fading \in 0..MaxBackdrops
    BY <1>2 DEF ModalInv, LegsInv, Legs
  <2> QED
    BY <1>2, <2>1, <2>2 DEF ModalInv, LegsInv, ModalState, Dialog!ModalTypeOK
<1>3. ASSUME TipInv PROVE Tips!TooltipTypeOK
  BY <1>3 DEF TipInv, TipState, Tips!TooltipTypeOK
<1>4. ASSUME ToastInv PROVE Toasts!ToastTypeOK
  <2>1. toast \in ToastState /\ toast.timers \in 0..MaxToastTimers
    BY <1>4, DueCount, DocsAssumption DEF ToastInv, Due
  <2> QED
    BY <1>4, <2>1 DEF ToastInv, ToastState, Toasts!ToastTypeOK
<1>5. CollapseTypeOK /\ CarouselInv /\ ModalInv /\ LegsInv /\ TipInv /\ PanesTyped
        /\ Menus!DropdownTypeOK /\ ToastInv /\ SearchInv => DocsTypeOK
  BY <1>1, <1>2, <1>3, <1>4 DEF DocsTypeOK, PanesTyped, SearchInv
<1> QED
  BY <1>5, PanelsKept, CarouselKept, ModalKept, LegsKept, TipKept, PanesAreTyped,
     MenusKept, ToastKept, SearchKept, PTL
=============================================================================
