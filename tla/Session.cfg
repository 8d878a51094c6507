\* Sign-ins, sign-outs and restarts in every order, two listeners.
SPECIFICATION FairSpec
CONSTANTS
  Users = {ana, bob}
  NoUser = NoUser
  Requests = {r1, r2}
  AppearOrders = {"listenFirst", "reloadFirst"}
  MaxListeners = 2
  MaxQueue = 4
INVARIANTS
  NeverAnotherUser
  SessionFollowsUser
  RestartRestoresUser
PROPERTY SessionCatchesUp
