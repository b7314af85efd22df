------------------------------ MODULE Carousel ------------------------------
(***************************************************************************)
(* A slide show (sass/bootstrap/js/src/carousel.js).  A slide moves the    *)
(* indicator at once and the class `active` when the transition of the old *)
(* item ends; the event `slid` follows in a task of its own.  Slides come  *)
(* from buttons, keys, swipes, indicators and an interval timer, of which  *)
(* only some look whether a slide is under way.  A method is a function    *)
(* from the state of the carousel, one record, to the next.                *)
(***************************************************************************)
EXTENDS Integers, FiniteSets, SequencesExt

CONSTANTS
  NItems,       \* number of items
  MaxSlides,    \* bound on inputs: callbacks waiting on an item, `slid` tasks
  MaxWaiting    \* bound: calls of to() that wait for `slid`

VARIABLES
  carouselConf, \* options `wrap`, `interval`, `pause` and the class `slide`
  carousel      \* the state of the instance and of its items

carouselVars == <<carouselConf, carousel>>

Item == 0..(NItems - 1)

CarouselTypeOK ==
  /\ carouselConf \in [wrap : BOOLEAN, interval : BOOLEAN, hover : BOOLEAN,
                       animated : BOOLEAN]
  /\ carousel \in [active    : SUBSET Item,                \* class `active`
                   indicator : Item,                       \* active indicator
                   isSliding : BOOLEAN,
                   isPaused  : BOOLEAN,
                   interval  : BOOLEAN,                    \* a timer is running
                   slides    : [Item -> Seq(Item)],        \* targets, by old item
                   slid      : Nat,                        \* `slid` tasks waiting
                   waiting   : Seq(Item \X BOOLEAN),        \* deferred to(index)
                   touch     : BOOLEAN,                    \* touchTimeout pending
                   rushed    : BOOLEAN]                    \* history, see below

\* `data-bs-ride` starts the timer when the page is loaded.
CarouselLoad(conf, ride) ==
  /\ carouselConf = conf
  /\ carousel = [active |-> {0}, indicator |-> 0, isSliding |-> FALSE,
                 isPaused |-> FALSE, interval |-> ride /\ conf.interval,
                 slides |-> [i \in Item |-> <<>>], slid |-> 0, waiting |-> <<>>,
                 touch |-> FALSE, rushed |-> FALSE]

\* Without an interval nothing ticks, which the timer is free to do anyway.
Init == \E wrap, hover, animated, ride \in BOOLEAN :
          CarouselLoad([wrap |-> wrap, interval |-> TRUE, hover |-> hover,
                        animated |-> animated], ride)
-----------------------------------------------------------------------------
(* pause() and cycle(); with an event (the mouse) they leave _isPaused.    *)
Pause(c) == [c EXCEPT !.isPaused = TRUE, !.interval = FALSE]
PauseOnEvent(c) == [c EXCEPT !.interval = FALSE]
CycleOnEvent(c) == [c EXCEPT !.interval = carouselConf.interval /\ ~c.isPaused]
Cycle(c) == CycleOnEvent([c EXCEPT !.isPaused = FALSE])

\* findOne(SELECTOR_ACTIVE_ITEM): the first in the document.
ActiveItem(c) == CHOOSE i \in c.active : \A j \in c.active : i <= j

ItemByOrder(c, isNext) ==
  LET i == ActiveItem(c) + (IF isNext THEN 1 ELSE -1)
  IN IF i \in Item THEN i
     ELSE IF carouselConf.wrap THEN i % NItems ELSE ActiveItem(c)

\* The slides under way, each from its old item to its target.
Moving(c) == {m \in Item \X Item : m[2] \in Range(c.slides[m[1]])}

\* _slide() to an item.  Reaching the active item clears _isSliding, whatever
\* else is moving.  `rushed` records a slide begun while a different one moves.
SlideTo(c, target, veto) ==
  LET from  == ActiveItem(c)
      moved ==
        IF carouselConf.animated
        THEN [c EXCEPT !.indicator = target, !.isSliding = TRUE,
                       !.slides[from] = Append(@, target),
                       !.rushed = @ \/ ~ (Moving(c) \subseteq {<<from, target>>})]
        ELSE [c EXCEPT !.indicator = target, !.isSliding = FALSE,
                       !.active = (@ \ {from}) \cup {target}]
  IN IF target \in c.active THEN [c EXCEPT !.isSliding = FALSE]
     ELSE IF target \in veto THEN c
     ELSE IF c.interval THEN Cycle(Pause(moved)) ELSE moved

Slide(c, isNext, veto) == SlideTo(c, ItemByOrder(c, isNext), veto)

\* to(index): waits for the end of a slide that is under way.  An indicator
\* passes the text of an attribute, which never equals a number: on the active
\* item it does not restart the timer.
To(c, index, isNumber, veto) ==
  IF c.isSliding THEN [c EXCEPT !.waiting = Append(@, <<index, isNumber>>)]
  ELSE IF isNumber /\ ActiveItem(c) = index THEN Cycle(Pause(c))
  ELSE SlideTo(c, index, veto)
-----------------------------------------------------------------------------
\* Bounds what begins a slide, the interval timer too, never what ends one.
Room == /\ \A i \in Item : Len(carousel.slides[i]) < MaxSlides
        /\ carousel.slid < MaxSlides /\ Len(carousel.waiting) < MaxWaiting

Becomes(c) == carousel' = c /\ UNCHANGED carouselConf

\* The buttons; listeners of `slide` veto the targets in `veto`.
ClickControl(isNext, veto) ==
  /\ Room /\ ~carousel.isSliding
  /\ Becomes(Slide(carousel, isNext, veto))

\* nextWhenVisible(), called by the interval timer.
IntervalTick(veto) ==
  /\ Room /\ carousel.interval /\ ~carousel.isSliding
  /\ Becomes(Slide(carousel, TRUE, veto))

\* An arrow key: no look at _isSliding.
Keydown(isNext, veto) == Room /\ Becomes(Slide(carousel, isNext, veto))

\* The end of a swipe: no look at _isSliding; with `pause: hover` the timer
\* stops until a timeout restarts it.
Swipe(isNext, veto) ==
  /\ Room
  /\ LET c == Slide(carousel, isNext, veto)
     IN Becomes(IF carouselConf.hover THEN [Pause(c) EXCEPT !.touch = TRUE] ELSE c)

TouchTimeout == carousel.touch /\ Becomes(Cycle([carousel EXCEPT !.touch = FALSE]))

GoTo(index, isNumber, veto) == Room /\ Becomes(To(carousel, index, isNumber, veto))

CallPauseOrCycle == Becomes(Pause(carousel)) \/ Becomes(Cycle(carousel))

MouseEnterOrLeave ==
  /\ carouselConf.hover
  /\ Becomes(PauseOnEvent(carousel)) \/ Becomes(CycleOnEvent(carousel))

\* Mutant of ItemTransitionEnd: the old item stays active.
ItemStaysActive(i) ==
  LET targets == carousel.slides[i]
  IN /\ targets # <<>>
     /\ Becomes([carousel EXCEPT
          !.active = @ \cup {targets[k] : k \in DOMAIN targets},
          !.isSliding = FALSE, !.slides[i] = <<>>, !.slid = @ + Len(targets)])

\* Mutant of ItemTransitionEnd: _isSliding is not reset.
ItemSlidesOn(i) ==
  LET targets == carousel.slides[i]
  IN /\ targets # <<>>
     /\ Becomes([carousel EXCEPT
          !.active = (@ \cup {targets[k] : k \in DOMAIN targets}) \ {i},
          !.slides[i] = <<>>, !.slid = @ + Len(targets)])

\* The transition of item i ends: every callback waiting on it runs.
ItemTransitionEnd(i) ==
  LET targets == carousel.slides[i]
  IN /\ targets # <<>>
     /\ Becomes([carousel EXCEPT
          !.active = (@ \cup {targets[k] : k \in DOMAIN targets}) \ {i},
          !.isSliding = FALSE, !.slides[i] = <<>>, !.slid = @ + Len(targets)])

\* The task that triggers `slid`: every deferred to() runs again, in order.
SlidEvent(veto) ==
  LET calls == carousel.waiting
      after[n \in 0..Len(calls)] ==
        IF n = 0 THEN [carousel EXCEPT !.slid = @ - 1, !.waiting = <<>>]
        ELSE To(after[n - 1], calls[n][1], calls[n][2], veto)
  IN carousel.slid > 0 /\ Becomes(after[Len(calls)])

\* An input slides to one item at most: vetoed or not.
UserInput == \E veto \in {{}, Item} :
  \/ \E isNext \in BOOLEAN : \/ ClickControl(isNext, veto)
                             \/ Keydown(isNext, veto)
                             \/ Swipe(isNext, veto)
  \/ IntervalTick(veto)
  \/ \E index \in Item, isNumber \in BOOLEAN : GoTo(index, isNumber, veto)
  \/ CallPauseOrCycle
  \/ MouseEnterOrLeave

Next == \/ UserInput
        \/ TouchTimeout
        \/ \E i \in Item : ItemTransitionEnd(i)
        \/ \E veto \in {{}} \cup {{i} : i \in Item} : SlidEvent(veto)

Spec == Init /\ [][Next]_carouselVars
-----------------------------------------------------------------------------
\* Unless a key or a swipe began a slide while a different one was moving, one
\* item is shown, and between slides it is the one the indicator points at.
OneActiveItem ==
  ~carousel.rushed =>
    /\ Cardinality(carousel.active) = 1
    /\ Moving(carousel) = {} => carousel.active = {carousel.indicator}

\* A carousel that was paused by a call does not move by itself: the pause of
\* a slide that interrupts the timer is lifted before anything else runs.
PausedIsStill == carousel.isPaused => ~carousel.interval

\* A carousel that is sliding has something that moves, so that its buttons do
\* not stay dead, and a call of to() that waits for `slid` has a slide under way
\* or a `slid` task to wait for, also when several wait, or one was interrupted.
DeferredToIsServed ==
  /\ carousel.isSliding => Moving(carousel) # {}
  /\ carousel.waiting # <<>> => carousel.slid > 0 \/ Moving(carousel) # {}
=============================================================================
