-------------------------------- MODULE Modal --------------------------------
(***************************************************************************)
(* A dialog over the page (sass/bootstrap/js/src/modal.js).  Showing it    *)
(* is a chain: backdrop, its transition, dialog, its transition; hiding it *)
(* is another: element, its transition, backdrop, its transition, page.    *)
(* `_isTransitioning` is down during the last leg, so that a show can      *)
(* begin while the old backdrop still fades.  A method is a function from  *)
(* the state of the modal, one record, to the next.                        *)
(***************************************************************************)
EXTENDS Integers, Sequences, PageBody

CONSTANT MaxBackdrops    \* bound: backdrops in the document

VARIABLES
  modalConf,   \* options, the class `fade`, and whether the content overflows
  modal,       \* the state of the instance and its elements
  mouse        \* where the button went down

modalVars == <<modalConf, modal, mouse, body>>

ModalConf == [animated : BOOLEAN, backdrop : {"none", "click", "static"},
              keyboard : BOOLEAN, tall : BOOLEAN]

ModalTypeOK ==
  /\ modalConf \in ModalConf
  /\ mouse \in {"up", "dialog", "backdrop", "stray"}
  /\ modal \in [isShown : BOOLEAN, isTransitioning : BOOLEAN,
                displayed  : BOOLEAN,                 \* style.display = block
                trap       : BOOLEAN,                 \* focusin handler
                ref        : BOOLEAN,                 \* _backdrop is not null
                backdrops  : 0..MaxBackdrops,         \* in the document
                backdropIn : BOOLEAN,                 \* waits for the backdrop
                dialogIn   : BOOLEAN,                 \* waits for the dialog
                fading     : 0..MaxBackdrops,         \* wait for old backdrops
                onElement  : Seq({"hide", "static", "overflow"}),
                static     : BOOLEAN, overflowY : BOOLEAN,
                ignoreBackdropClick : BOOLEAN,
                mouseup    : BOOLEAN,                 \* one(mouseup) waits
                stuck      : BOOLEAN,                 \* history: vetoed show
                reshown    : BOOLEAN]                 \* history: early show

ModalLoad(conf) ==
  /\ modalConf = conf /\ mouse = "up"
  /\ modal = [isShown |-> FALSE, isTransitioning |-> FALSE, displayed |-> FALSE,
              trap |-> FALSE, ref |-> FALSE, backdrops |-> 0,
              backdropIn |-> FALSE, dialogIn |-> FALSE, fading |-> 0,
              onElement |-> <<>>, static |-> FALSE, overflowY |-> FALSE,
              ignoreBackdropClick |-> FALSE, mouseup |-> FALSE,
              stuck |-> FALSE, reshown |-> FALSE]
-----------------------------------------------------------------------------
\* _showElement(); without animation transitionComplete runs at once.
ShowElement(m) ==
  [m EXCEPT !.displayed = TRUE, !.trap = TRUE, !.dialogIn = modalConf.animated,
            !.isTransitioning = @ /\ modalConf.animated]

\* show(), past the veto: _showBackdrop() first, if there is to be one.
ShowModal(m) ==
  LET s == [m EXCEPT !.isShown = TRUE, !.isTransitioning = modalConf.animated,
                     !.reshown = @ \/ m.fading > 0]
      b == [s EXCEPT !.ref = TRUE, !.backdrops = @ + 1]
  IN IF modalConf.backdrop = "none" THEN ShowElement(s)
     ELSE IF modalConf.animated THEN [b EXCEPT !.backdropIn = TRUE]
     ELSE ShowElement(b)

\* Mutant of HideElement: without animation the backdrop is forgotten.
HideElementOnly(m) ==
  LET h == [m EXCEPT !.displayed = FALSE, !.isTransitioning = FALSE]
  IN IF m.ref /\ modalConf.animated THEN [h EXCEPT !.fading = @ + 1] ELSE h

\* _hideModal(): the backdrop goes at once or fades; what follows it is
\* PageFollows, the callback that gives the page back.
HideElement(m) ==
  LET h == [m EXCEPT !.displayed = FALSE, !.isTransitioning = FALSE]
  IN IF ~m.ref THEN h
     ELSE IF modalConf.animated THEN [h EXCEPT !.fading = @ + 1]
     ELSE [h EXCEPT !.ref = FALSE, !.backdrops = @ - 1]

PageFollows(m) == ~m.ref \/ ~modalConf.animated

\* hide(), past its early returns and the veto.
HideModal(m) ==
  LET h == [m EXCEPT !.isShown = FALSE, !.trap = FALSE]
  IN IF modalConf.animated
     THEN [h EXCEPT !.isTransitioning = TRUE, !.onElement = Append(@, "hide")]
     ELSE HideElement(h)

\* _triggerBackdropTransition(): off() drops whatever waited on the element.
StaticTransition(m) ==
  [m EXCEPT !.static = TRUE, !.overflowY = @ \/ ~modalConf.tall,
            !.onElement = <<"static">>]
-----------------------------------------------------------------------------
MayShow == ~modal.isShown /\ ~modal.isTransitioning
MayHide == modal.isShown /\ ~modal.isTransitioning

\* show(): _isTransitioning is set before the listeners can veto.
CallShow(veto) ==
  /\ MayShow /\ modal.backdrops < MaxBackdrops /\ modal.fading < MaxBackdrops
  /\ IF veto
     THEN /\ modal' = [modal EXCEPT !.isTransitioning = modalConf.animated,
                                    !.stuck = @ \/ modalConf.animated]
          /\ UNCHANGED body
     ELSE modal' = ShowModal(modal) /\ body' = LockForModal(body)
  /\ UNCHANGED <<modalConf, mouse>>

HideAndPage(m) ==
  /\ modal' = HideModal(m)
  /\ body' = IF modalConf.animated THEN body ELSE UnlockForModal(body)

\* hide(), by a call, a dismiss button or the data API's toggle.
CallHide == MayHide /\ HideAndPage(modal) /\ UNCHANGED <<modalConf, mouse>>

\* The Escape key, heard while the modal is shown.
ModalEscape ==
  /\ modal.isShown
  /\ IF ~modalConf.keyboard
     THEN modal' = StaticTransition(modal) /\ UNCHANGED body
     ELSE IF MayHide THEN HideAndPage(modal) ELSE UNCHANGED <<modal, body>>
  /\ UNCHANGED <<modalConf, mouse>>

\* Mutant of Press: no one(mouseup).
PressOnly(where) ==
  /\ modal.displayed /\ mouse = "up"
  /\ mouse' = IF where = "dialog" /\ ~modal.isShown THEN "stray" ELSE where
  /\ UNCHANGED <<modal, modalConf, body>>

\* mousedown: inside the dialog of a shown modal it leaves a one(mouseup).
Press(where) ==
  /\ modal.displayed /\ mouse = "up"
  /\ mouse' = IF where = "dialog" /\ ~modal.isShown THEN "stray" ELSE where
  /\ modal' = [modal EXCEPT !.mouseup = @ \/ (where = "dialog" /\ modal.isShown)]
  /\ UNCHANGED <<modalConf, body>>

\* mouseup, and the click that follows it on the nearest common ancestor.
\* A release outside of the window reaches neither handler.
Release(where) ==
  LET m == [modal EXCEPT !.mouseup = FALSE,
                         !.ignoreBackdropClick = @ \/ (modal.mouseup /\ where = "backdrop")]
      onElement == mouse = "backdrop" \/ where = "backdrop"
  IN /\ mouse # "up" /\ mouse' = "up" /\ UNCHANGED modalConf
     /\ IF where = "outside" \/ ~modal.displayed THEN UNCHANGED <<modal, body>>
        ELSE IF ~m.isShown \/ modalConf.backdrop = "none"
        THEN modal' = m /\ UNCHANGED body
        ELSE IF m.ignoreBackdropClick
        THEN modal' = [m EXCEPT !.ignoreBackdropClick = FALSE] /\ UNCHANGED body
        ELSE IF onElement /\ modalConf.backdrop = "static"
        THEN modal' = StaticTransition(m) /\ UNCHANGED body
        ELSE IF onElement /\ ~m.isTransitioning THEN HideAndPage(m)
        ELSE modal' = m /\ UNCHANGED body

BackdropShown ==
  /\ modal.backdropIn
  /\ modal' = ShowElement([modal EXCEPT !.backdropIn = FALSE])
  /\ UNCHANGED <<modalConf, mouse, body>>

\* Mutant of DialogShown: _isTransitioning is not reset.
DialogShownOnly ==
  /\ modal.dialogIn
  /\ modal' = [modal EXCEPT !.dialogIn = FALSE]
  /\ UNCHANGED <<modalConf, mouse, body>>

DialogShown ==
  /\ modal.dialogIn
  /\ modal' = [modal EXCEPT !.dialogIn = FALSE, !.isTransitioning = FALSE]
  /\ UNCHANGED <<modalConf, mouse, body>>

\* transitionend of the element: the waiting callbacks run in order.
ElementTransitionEnd ==
  LET ends == {modal.onElement[i] : i \in DOMAIN modal.onElement}
      m == [modal EXCEPT
             !.static = @ /\ "static" \notin ends,
             !.overflowY = @ /\ "overflow" \notin ends,
             !.onElement = IF "static" \in ends /\ ~modalConf.tall
                           THEN <<"overflow">> ELSE <<>>]
  IN /\ ends # {}
     /\ modal' = IF "hide" \in ends THEN HideElement(m) ELSE m
     /\ body' = IF "hide" \in ends /\ PageFollows(m) THEN UnlockForModal(body) ELSE body
     /\ UNCHANGED <<modalConf, mouse>>

\* An old backdrop has faded: callbackRemove() removes whatever _backdrop is
\* now, and throws before it gives the page back if that is null.
BackdropFaded ==
  /\ modal.fading > 0
  /\ modal' = [modal EXCEPT !.fading = @ - 1, !.ref = FALSE,
                            !.backdrops = IF modal.ref THEN @ - 1 ELSE @]
  /\ body' = IF modal.ref THEN UnlockForModal(body) ELSE body
  /\ UNCHANGED <<modalConf, mouse>>

ModalNext ==
  \/ \E veto \in BOOLEAN : CallShow(veto)
  \/ CallHide
  \/ ModalEscape
  \/ \E where \in {"dialog", "backdrop"} : Press(where)
  \/ \E where \in {"dialog", "backdrop", "outside"} : Release(where)
  \/ BackdropShown \/ DialogShown \/ ElementTransitionEnd \/ BackdropFaded

ModalFairness ==
  /\ WF_modalVars(BackdropShown) /\ WF_modalVars(DialogShown)
  /\ WF_modalVars(ElementTransitionEnd) /\ WF_modalVars(BackdropFaded)

ModalInit == \E conf \in ModalConf, long \in BOOLEAN : ModalLoad(conf) /\ BodyLoad(long, "empty")
ModalSpec == ModalInit /\ [][ModalNext]_modalVars /\ ModalFairness
-----------------------------------------------------------------------------
\* Nothing of the modal is waiting for the end of a transition.
ModalSettled == ~modal.backdropIn /\ ~modal.dialogIn /\ modal.fading = 0
                  /\ modal.onElement = <<>>

\* Unless it was shown again while its old backdrop was fading, a modal that is
\* shown has the class modal-open on the page and its one backdrop there, and
\* is displayed and keeps the focus from the end of its backdrop's transition on;
\* it lets go of the focus when it begins to hide, and nothing of the rest is
\* left when it is gone.
ModalOwnsThePage ==
  ~modal.reshown =>
    /\ modal.isShown =>
         /\ body.open /\ modal.backdrops = IF modalConf.backdrop = "none" THEN 0 ELSE 1
         /\ ~modal.backdropIn => modal.displayed /\ modal.trap
    /\ ~modal.isShown => ~modal.trap
    /\ ~modal.isShown /\ ModalSettled =>
         ~body.open /\ modal.backdrops = 0 /\ ~modal.displayed

\* The page behind a modal that is shown does not scroll: the class modal-open is
\* enough for that as long as nobody wrote an inline overflow.
PageIsLocked == ~modal.reshown /\ modal.isShown => ~Scrolls(body)

\* A press inside the dialog never dismisses it, wherever it is released, and
\* whatever was pressed, released outside or shown again before.
DragNeverDismisses ==
  [][mouse = "dialog" /\ mouse' = "up" => modal'.isShown = modal.isShown]_modalVars

\* The modal can always be used again: no transition lasts for ever, also when
\* it was dismissed during the nudge of a static backdrop, except after a show
\* that a listener vetoed.
ModalMoves == modal.isTransitioning /\ ~modal.stuck
=============================================================================
