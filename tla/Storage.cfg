\* Two downloads, one of them too large, an upload and a delete, two at once.
SPECIFICATION FairSpec
CONSTANTS
  fits = fits
  tooLarge = tooLarge
  upload = upload
  remove = remove
  Tasks = {fits, tooLarge, upload, remove}
  Kind <- MCKind
  Size <- MCSize
  Limit = 1
  NoTask = NoTask
  MaxBusy = 2
INVARIANTS
  AnsweredOnce
  DataIsWhole
  ErrorHasCause
PROPERTY CallsAnswered
\* Each call is made once.
CHECK_DEADLOCK FALSE
