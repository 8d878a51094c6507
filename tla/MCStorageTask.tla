--------------------------- MODULE MCStorageTask ---------------------------
(***************************************************************************)
(* Small instances of StorageTask for TLC: a download of the size allowed, *)
(* one too large, an upload and a delete.                                  *)
(***************************************************************************)
EXTENDS StorageTask

CONSTANTS fits, tooLarge, upload, remove

MCKind ==
  [t \in Tasks |-> IF t = upload THEN "put" ELSE IF t = remove THEN "delete" ELSE "get"]

\* Nothing is downloaded by an upload or a delete.
MCSize == [t \in Tasks |-> CASE t = tooLarge -> 2 [] t = fits -> 1 [] OTHER -> 0]

=============================================================================
