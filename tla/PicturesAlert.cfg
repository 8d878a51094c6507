\* One picture, edited once.
SPECIFICATION Spec
CONSTANTS
  Devices = {d1}
  Users = {ana}
  NoUser = NoUser
  Dates = {k1}
  Saves = {s1}
  NoSave = NoSave
  MaxQueue = 1
INVARIANT EditedSuccessfully
