------------------------------- MODULE Tooltip -------------------------------
(***************************************************************************)
(* A tip shown beside an element while it is hovered, focused or clicked   *)
(* (sass/bootstrap/js/src/tooltip.js; popover.js inherits all of it).      *)
(* What the tip should do is spread over the set of active triggers, a     *)
(* hover state and one timeout; what it does ends later, in the callbacks  *)
(* that wait for its transition.  A method is a function from the state of *)
(* the tooltip, one record, to the next.                                   *)
(***************************************************************************)
EXTENDS Integers, SequencesExt

CONSTANT MaxTipEnds    \* bound on events: callbacks waiting for a transition

VARIABLES
  tipConf,     \* options trigger, delay.show, delay.hide and animation
  tip,         \* the state of the instance and its tip
  meddled      \* history: called by a script, or vetoed by a listener

tooltipVars == <<tipConf, tip, meddled>>

Triggers == {"click", "hover", "focus"}
TipConf == [triggers : (SUBSET Triggers) \ {{}}, delayShow : BOOLEAN,
            delayHide : BOOLEAN, animation : BOOLEAN]

TooltipTypeOK ==
  /\ tipConf \in TipConf /\ meddled \in BOOLEAN
  /\ tip \in [enabled : BOOLEAN,
              active  : SUBSET Triggers,                \* _activeTrigger
              hover   : {"", "show", "out", "null"},    \* _hoverState
              timeout : {"none", "show", "hide"},
              shown   : BOOLEAN,                        \* class show
              inDom   : BOOLEAN,
              popper  : BOOLEAN,                        \* _popper is not null
              ends    : Seq({"show", "hide"}),
              crossed : BOOLEAN]                        \* history, see Leave

TooltipLoad(conf) ==
  /\ tipConf = conf /\ meddled = FALSE
  /\ tip = [enabled |-> TRUE, active |-> {}, hover |-> "", timeout |-> "none",
            shown |-> FALSE, inDom |-> FALSE, popper |-> FALSE, ends |-> <<>>,
            crossed |-> FALSE]

Init == \E conf \in TipConf : TooltipLoad(conf)
-----------------------------------------------------------------------------
\* The callback of hide(): an active trigger keeps everything as it is.
HideComplete(t) ==
  IF t.active # {} THEN t
  ELSE [t EXCEPT !.inDom = @ /\ t.hover = "show", !.popper = FALSE]

\* hide(), past the veto: _hoverState is cleared last.
Hide(t) ==
  LET h == [t EXCEPT !.shown = FALSE, !.active = {}]
      e == IF tipConf.animation THEN [h EXCEPT !.ends = Append(@, "hide")]
           ELSE HideComplete(h)
  IN IF t.popper THEN [e EXCEPT !.hover = ""] ELSE t

\* _leave(), past the bookkeeping of the event.  `crossed` records a leave
\* that waits, with the tip still shown, while the callback of an earlier
\* hide() is to come.
Leave(t) ==
  IF t.active # {} THEN t
  ELSE LET o == [t EXCEPT !.hover = "out", !.timeout = "none"]
       IN IF tipConf.delayHide
          THEN [o EXCEPT !.timeout = "hide",
                         !.crossed = @ \/ (t.shown /\ "hide" \in Range(t.ends))]
          ELSE Hide(o)

\* The callback of show(): a leave that came too early is made up for.
ShowComplete(t) ==
  LET s == [t EXCEPT !.hover = "null"] IN IF t.hover = "out" THEN Leave(s) ELSE s

\* show(), past the veto.
Show(t) ==
  LET s == [t EXCEPT !.inDom = TRUE, !.popper = TRUE, !.shown = TRUE]
  IN IF ~t.enabled THEN t
     ELSE IF tipConf.animation THEN [s EXCEPT !.ends = Append(@, "show")]
     ELSE ShowComplete(s)

\* _enter(), past the bookkeeping of the event.
Enter(t) ==
  LET s == [t EXCEPT !.hover = "show"]
  IN IF t.shown \/ t.hover = "show" THEN s
     ELSE IF tipConf.delayShow THEN [s EXCEPT !.timeout = "show"]
     ELSE Show([s EXCEPT !.timeout = "none"])
-----------------------------------------------------------------------------
Becomes(t) == tip' = t /\ UNCHANGED tipConf

Free == UNCHANGED meddled
Meddles == meddled' = TRUE

\* mouseenter and focusin; mouseleave and focusout, to a place outside.
EnterEvent(trigger) ==
  /\ trigger \in tipConf.triggers \ {"click"}
  /\ Becomes(Enter([tip EXCEPT !.active = @ \cup {trigger}])) /\ Free

LeaveEvent(trigger) ==
  /\ trigger \in tipConf.triggers \ {"click"}
  /\ Becomes(Leave([tip EXCEPT !.active = @ \ {trigger}])) /\ Free

\* A move to another place inside of the element: a leave, which sets the
\* trigger, and at once the enter that the browser sends after it.
MoveInside(trigger) ==
  /\ trigger \in tipConf.triggers \ {"click"}
  /\ Becomes(Enter(Leave([tip EXCEPT !.active = @ \cup {trigger}]))) /\ Free

\* toggle() as the click listener calls it.
ClickEvent ==
  /\ "click" \in tipConf.triggers /\ tip.enabled
  /\ LET on == "click" \notin tip.active
         t  == [tip EXCEPT !.active = IF on THEN @ \cup {"click"} ELSE @ \ {"click"}]
     IN Becomes(IF t.active # {} THEN Enter(t) ELSE Leave(t))
  /\ Free

\* The modal around the element hides.
ModalHides == Becomes(Hide(tip)) /\ Free

\* show(), hide(), toggle() and toggleEnabled() called by a script.
ScriptCalls ==
  /\ \/ Becomes(Show(tip))
     \/ Becomes(Hide(tip))
     \/ tip.enabled /\ Becomes(IF tip.shown THEN Leave(tip) ELSE Enter(tip))
     \/ Becomes([tip EXCEPT !.enabled = ~@])
  /\ Meddles

\* A listener vetoes the show of an enter event, or the hide of a leave event.
VetoedEvent(trigger) ==
  /\ trigger \in tipConf.triggers \ {"click"} /\ Meddles
  /\ \/ /\ ~tip.shown /\ tip.hover # "show" /\ ~tipConf.delayShow
        /\ Becomes([tip EXCEPT !.active = @ \cup {trigger}, !.hover = "show"])
     \/ /\ tip.active = {trigger} /\ tip.popper /\ ~tipConf.delayHide
        /\ Becomes([tip EXCEPT !.active = {}, !.hover = "out"])

\* The timeout of _enter() or _leave(): only if the hover state still agrees.
TipTimeout ==
  LET t == [tip EXCEPT !.timeout = "none"]
  IN /\ tip.timeout # "none"
     /\ Becomes(IF tip.timeout = "show" /\ tip.hover = "show" THEN Show(t)
                ELSE IF tip.timeout = "hide" /\ tip.hover = "out" THEN Hide(t)
                ELSE t)
     /\ Free

\* The transition of the tip ends: the tip after the first n of the waiting
\* callbacks, and after all of them.
TipAfter[n \in 0..Len(tip.ends)] ==
  IF n = 0 THEN [tip EXCEPT !.ends = <<>>]
  ELSE IF tip.ends[n] = "show" THEN ShowComplete(TipAfter[n - 1])
  ELSE HideComplete(TipAfter[n - 1])

TipTransitionEnd ==
  /\ tip.ends # <<>>
  /\ Becomes(TipAfter[Len(tip.ends)]) /\ Free

TipEvent ==
  /\ Len(tip.ends) < MaxTipEnds
  /\ \/ \E trigger \in Triggers : \/ EnterEvent(trigger) \/ LeaveEvent(trigger)
                                  \/ MoveInside(trigger) \/ VetoedEvent(trigger)
     \/ ClickEvent \/ ModalHides \/ ScriptCalls

Next == TipEvent \/ TipTimeout \/ TipTransitionEnd

TooltipFairness == WF_tooltipVars(TipTimeout) /\ WF_tooltipVars(TipTransitionEnd)

Spec == Init /\ [][Next]_tooltipVars
FairSpec == Spec /\ TooltipFairness
-----------------------------------------------------------------------------
Calm == ~meddled /\ ~tip.crossed

\* A tip that is shown can be put away: hide() does nothing without a popper,
\* and a callback of an earlier hide() must not take it from a tip that has
\* been shown since.  It does take it if a script calls show() while the tip
\* fades, or if the pointer comes back and leaves for a delayed hide meanwhile.
ShownTipCanBeHidden == Calm /\ tip.shown => tip.popper /\ tip.inDom

\* Whatever the order of events, timeouts and transitions, an animated tip that
\* nothing asks for any more leaves the document.  (Without animation hide()
\* completes before it clears the hover state, and a tip that the hiding modal
\* caught in state `show` stays behind, invisible.)
TipLingers == tip.inDom /\ tip.active = {} /\ tipConf.animation /\ ~meddled

\* When nothing is waiting, the tip is shown only if a trigger asks for it, and
\* it is if one does: the active triggers, the hover state and the timeout
\* agree again.  (With a delay of show, the callback of an earlier show() can
\* clear the hover state the timeout looks at, and the tip is not shown.)
TipFollowsTriggers ==
  Calm /\ tip.ends = <<>> /\ tip.timeout = "none" =>
    /\ tip.shown => tip.active # {}
    /\ tip.active # {} /\ ~tipConf.delayShow => tip.shown
=============================================================================
