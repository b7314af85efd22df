-------------------------------- MODULE Toast --------------------------------
(***************************************************************************)
(* A notice that fades in, stays for a delay and fades out                 *)
(* (sass/bootstrap/js/src/toast.js).  The end of a fade runs a callback    *)
(* that sets the class of the opposite end of the story: `show` after the  *)
(* fade in, `hide` after the fade out.  show() cancels the timer that the  *)
(* instance remembers, which is the last one it started.                   *)
(***************************************************************************)
EXTENDS Naturals, SequencesExt

CONSTANTS
  MaxToastEnds,     \* bound: callbacks waiting for the transition
  MaxToastTimers    \* bound: timers that have not fired

VARIABLES
  toastConf,    \* options `animation` and `autohide`
  toast,        \* the classes of the element, its callbacks and its timers
  toastVetoed   \* history: a listener vetoed a hide

toastVars == <<toastConf, toast, toastVetoed>>

ToastConf == [animation : BOOLEAN, autohide : BOOLEAN]

ToastTypeOK ==
  /\ toastConf \in ToastConf /\ toastVetoed \in BOOLEAN
  /\ toast \in [show : BOOLEAN, showing : BOOLEAN, hide : BOOLEAN,   \* classes
                ends     : Seq({"show", "hide"}),
                timers   : 0..MaxToastTimers,   \* running, the last one newest
                kept     : BOOLEAN,             \* _timeout is the newest timer
                hurried  : BOOLEAN]             \* history, see Hurry

ToastLoad(conf) ==
  /\ toastConf = conf /\ toastVetoed = FALSE
  /\ toast = [show |-> FALSE, showing |-> FALSE, hide |-> FALSE, ends |-> <<>>,
              timers |-> 0, kept |-> FALSE, hurried |-> FALSE]

Init == \E conf \in ToastConf : ToastLoad(conf)
-----------------------------------------------------------------------------
\* The callbacks of show() and of hide().
ToastShown(t) ==
  LET s == [t EXCEPT !.showing = FALSE, !.show = TRUE]
  IN IF toastConf.autohide THEN [s EXCEPT !.timers = @ + 1, !.kept = TRUE] ELSE s

ToastHidden(t) == [t EXCEPT !.hide = TRUE]

\* Mutant of ClearTimeout: the timer is forgotten, not cancelled.
ForgetTimeout(t) == [t EXCEPT !.kept = FALSE]

ClearTimeout(t) ==
  [t EXCEPT !.timers = IF t.kept THEN @ - 1 ELSE @, !.kept = FALSE]

\* A call while the callback of an earlier one is waiting.
Hurry(t) == [t EXCEPT !.hurried = @ \/ t.ends # <<>>]

ShowToast(t) ==
  LET s == [ClearTimeout(Hurry(t)) EXCEPT !.hide = FALSE, !.showing = TRUE]
  IN IF toastConf.animation THEN [s EXCEPT !.ends = Append(@, "show")] ELSE ToastShown(s)

HideToast(t) ==
  LET h == [Hurry(t) EXCEPT !.show = FALSE]
  IN IF ~t.show THEN t
     ELSE IF toastConf.animation THEN [h EXCEPT !.ends = Append(@, "hide")]
     ELSE ToastHidden(h)

ToastRoom == /\ Len(toast.ends) < MaxToastEnds
             /\ toast.timers + Len(toast.ends) < MaxToastTimers

\* show() by a script, the dismiss button or hide() by a script, and a hide
\* that a listener vetoes.
ScriptShowsToast == ToastRoom /\ toast' = ShowToast(toast) /\ UNCHANGED <<toastConf, toastVetoed>>

DismissToast ==
  ToastRoom /\ toast' = HideToast(toast) /\ UNCHANGED <<toastConf, toastVetoed>>

\* The timer of autohide: the oldest fires first.
ToastTimer(veto) ==
  LET fired == [toast EXCEPT !.timers = @ - 1, !.kept = @ /\ toast.timers > 1]
  IN /\ toast.timers > 0
     /\ toast' = IF veto THEN fired ELSE HideToast(fired)
     /\ toastVetoed' = (toastVetoed \/ (veto /\ toast.show))
     /\ UNCHANGED toastConf

\* The fade ends: the toast after the first n of the waiting callbacks, and
\* after all of them.
ToastAfter[n \in 0..Len(toast.ends)] ==
  IF n = 0 THEN [toast EXCEPT !.ends = <<>>]
  ELSE IF toast.ends[n] = "show" THEN ToastShown(ToastAfter[n - 1])
  ELSE ToastHidden(ToastAfter[n - 1])

ToastTransitionEnd ==
  /\ toast.ends # <<>>
  /\ toast' = ToastAfter[Len(toast.ends)]
  /\ UNCHANGED <<toastConf, toastVetoed>>

Next == \/ ScriptShowsToast \/ DismissToast
        \/ \E veto \in BOOLEAN : ToastTimer(veto)
        \/ ToastTransitionEnd

Spec == Init /\ [][Next]_toastVars
-----------------------------------------------------------------------------
\* A toast whose calls waited for the fade before them never has the classes
\* of both ends at once and has one timer at most, and none while it fades in:
\* no timer of an earlier show is left to cut a later one short.  Whatever the
\* calls, a toast with autohide that is shown has a timer running, or a show
\* under way that will start one, unless a listener vetoed the end of it.
ToastConsistent ==
  /\ ~toast.hurried =>
       /\ ~(toast.show /\ toast.hide)
       /\ toast.timers <= 1
       /\ toast.showing => toast.timers = 0
  /\ toast.show /\ toastConf.autohide /\ ~toastVetoed =>
       toast.timers > 0 \/ "show" \in Range(toast.ends)
=============================================================================
