\* One user after another with every tap.
SPECIFICATION Spec
SYMMETRY Symmetry
VIEW Seen
CONSTRAINTS Bounded KeychainWorks NobodySignsUp
CONSTANTS
  Users = {ana, bob}
  NoUser = NoUser
  Requests = {r1}
  AppearOrders = {"listenFirst"}
  MaxListeners = 2
  MaxQueue = 2
  MaxBusy = 3
  None = none
  Dates = {d1}
  Loads = {l1, l2, l3}
  Saves = {s1}
  NoLoad = NoLoad
  NoDate = NoDate
  Taps = {"save", "swipe"}
INVARIANTS
  RowsAreSessions
PROPERTIES
  NoneIsNobodys
\* The calls are bounded, and the process may end.
CHECK_DEADLOCK FALSE
