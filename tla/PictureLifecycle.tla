--------------------------- MODULE PictureLifecycle ---------------------------
(***************************************************************************)
(* What the application promises of a picture, named by its date: it is    *)
(* listed (it has a document) only while it is kept (it has an object) or  *)
(* after someone asked to delete it, and nothing of it goes away before    *)
(* someone asked.                                                          *)
(***************************************************************************)
CONSTANT Dates

VARIABLES listed, kept, asked

lifecycle == <<listed, kept, asked>>

TypeOK ==
  /\ listed \in [Dates -> BOOLEAN]
  /\ kept \in [Dates -> BOOLEAN]
  /\ asked \subseteq Dates

Init ==
  /\ listed = [k \in Dates |-> FALSE]
  /\ kept = [k \in Dates |-> FALSE]
  /\ asked = {}

Keep(k) ==
  /\ kept' = [kept EXCEPT ![k] = TRUE]
  /\ UNCHANGED <<listed, asked>>

List(k) ==
  /\ kept[k] \/ k \in asked
  /\ listed' = [listed EXCEPT ![k] = TRUE]
  /\ UNCHANGED <<kept, asked>>

Ask(k) ==
  /\ kept[k] \/ k \in asked
  /\ asked' = asked \cup {k}
  /\ UNCHANGED <<listed, kept>>

Unlist(k) ==
  /\ k \in asked
  /\ listed' = [listed EXCEPT ![k] = FALSE]
  /\ UNCHANGED <<kept, asked>>

Erase(k) ==
  /\ k \in asked
  /\ kept' = [kept EXCEPT ![k] = FALSE]
  /\ UNCHANGED <<listed, asked>>

Next == \E k \in Dates : Keep(k) \/ List(k) \/ Ask(k) \/ Unlist(k) \/ Erase(k)

Spec == Init /\ [][Next]_lifecycle

\* A listed picture can be looked at, unless someone asked to delete it.
ListedIsKept == \A k \in Dates : listed[k] => kept[k] \/ k \in asked

=============================================================================
