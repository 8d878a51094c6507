------------------------------ MODULE MCAppLPS ------------------------------
(***************************************************************************)
(* Small instances of AppLPS for TLC.  What is on its way at once is       *)
(* bounded; in which order it comes is not.                                *)
(***************************************************************************)
EXTENDS AppLPS, FiniteSets, TLC

CONSTANT MaxBusy  \* blocks queued, requests, reloads and uploads under way

Symmetry == Permutations(Users)

\* What the guards of the application and the properties checked here read, and
\* not what Gallery remembers for its own: of the rows, whose call brought them;
\* of the drawing, how many there are to swipe; of a call that is over and has
\* no rows, or of a save that failed, nothing more.  Calls in the same place are
\* not told apart.
Brought == {refImagenesUsuario[i].from : i \in DOMAIN refImagenesUsuario}

CallSeen(l) ==
  CASE load[l].pc \in {"unused", "swiped"} -> <<load[l].pc>>
    [] G!Running(l) ->
         <<load[l].pc, load[l].email, load[l].fetching, load[l].solo, l \in Brought>>
    [] OTHER -> IF l \in Brought THEN <<"over", load[l].email, load[l].solo>> ELSE <<"over">>

CallsSeen ==
  [c \in {CallSeen(l) : l \in Loads} |-> Cardinality({l \in Loads : CallSeen(l) = c})]

SaveSeen(s) == IF save[s].pc = "failed" THEN <<"failed">> ELSE <<save[s].pc, save[s].email>>

Seen ==
  <<userVars, loading, trapped, reloaded, Len(refImagenesUsuario), CallsSeen,
    [s \in Saves |-> SaveSeen(s)], IF shown = "main" THEN Len(screen.rows) ELSE 0>>

Bounded ==
  Len(mainQueue) + Cardinality({r \in Requests : requests[r].kind # "none"})
    + Cardinality({l \in Loads : load[l].pc = "swiped" \/ G!Running(l)})
    + Cardinality({s \in Saves : save[s].pc = "putting"}) <= MaxBusy

\* Here the keychain never fails and nobody signs up; Session alone is checked
\* with both.
KeychainWorks == loaded => keychain = currentUser
NobodySignsUp == \A r \in Requests : requests[r].kind # "signUp"

=============================================================================
