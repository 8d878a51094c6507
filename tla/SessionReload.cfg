\* With the first call of the listener ahead of the reload, as drawn.
SPECIFICATION Spec
CONSTANTS
  Users = {ana, bob}
  NoUser = NoUser
  Requests = {r1, r2}
  AppearOrders = {"listenFirst"}
  MaxListeners = 2
  MaxQueue = 4
INVARIANT SessionAtReload
