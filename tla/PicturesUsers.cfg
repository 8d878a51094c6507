\* One device that changes hands, two saves that may fall in the same second.
SPECIFICATION Spec
SYMMETRY Symmetry
CONSTANTS
  Devices = {d1}
  Users = {ana, bob}
  NoUser = NoUser
  Dates = {k1}
  Saves = {s1, s2}
  NoSave = NoSave
  MaxQueue = 1
INVARIANTS
  PictureStaysOwners
PROPERTY ImplementsLifecycle
