----------------------------- MODULE MCPictures -----------------------------
(***************************************************************************)
(* Small instances of Pictures for TLC.                                    *)
(***************************************************************************)
EXTENDS Pictures, TLC

Symmetry == Permutations(Devices) \cup Permutations(Users)
              \cup Permutations(Dates) \cup Permutations(Saves)

=============================================================================
