\* Two reloads that overlap in every way, a save and swipes.
SPECIFICATION FairSpec
CONSTANTS
  Dates = {d1, d2}
  Emails = {ana, none}
  None = none
  Loads = {l1, l2}
  Saves = {s1}
  NoLoad = NoLoad
  NoDate = NoDate
INVARIANTS
  ListComplete
  RowsAccountedFor
  SoloReloadExact
  EmptyFlagHonest
  LoadingHasACause
  SwipeHitsShown
PROPERTIES
  ReloadsEnd
  SpinnerEnds
\* The calls are bounded, and the process may end.
CHECK_DEADLOCK FALSE
