SPECIFICATION DocsSpec
CONSTANTS
  NPanels = 3
  MaxEnds = 2
  NItems = 3
  MaxSlides = 2
  MaxWaiting = 2
  MaxBackdrops = 2
  NPanes = 2
  MaxTimers = 2
  MaxTipEnds = 3
  Drops = {nav, more}
  nav = nav
  more = more
  NEntries = 2
  MaxToastEnds = 3
  MaxToastTimers = 3
  Page = {intro, guide, blank}
  NoBody = {blank}
  intro = intro
  guide = guide
  blank = blank
  MaxResults = 3
  TEASER_MAX_WORDS = 2
  LongWord = 2
  MaxPage = 5
INVARIANTS
  TermsAreEnclosed
CHECK_DEADLOCK FALSE
