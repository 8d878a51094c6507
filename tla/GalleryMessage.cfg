\* One reload is enough to refute the message.
SPECIFICATION Spec
CONSTANTS
  Dates = {d1}
  Emails = {ana, none}
  None = none
  Loads = {l1}
  Saves = {}
  NoLoad = NoLoad
  NoDate = NoDate
INVARIANT NoPicturesMeansNone
\* The calls are bounded, and the process may end.
CHECK_DEADLOCK FALSE
