\* Two requests in flight, so that one can overtake a sign-out.
SPECIFICATION Spec
CONSTANTS
  Users = {ana, bob}
  NoUser = NoUser
  Requests = {r1, r2}
  AppearOrders = {"listenFirst", "reloadFirst"}
  MaxListeners = 2
  MaxQueue = 4
INVARIANT UserHasModel
