\* Two devices of one user, one picture.
SPECIFICATION FairSpec
CONSTANTS
  Devices = {d1, d2}
  Users = {ana}
  NoUser = NoUser
  Dates = {k1}
  Saves = {s1}
  NoSave = NoSave
  MaxQueue = 1
INVARIANTS
  DocumentHasObject
  OrphanExplained
PROPERTIES
  StoredIsListed
  DeletedIsErased
