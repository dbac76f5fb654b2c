------------------------------- MODULE RouteSets -------------------------------
(***************************************************************************)
(* What exclusion sets promise, without offsets and blocks: variables that *)
(* hold sets of interlocking routes.                                       *)
(***************************************************************************)
CONSTANTS Names, Ids

VARIABLE members

Init == members \in [Names -> SUBSET Ids]

Assign(x, S) == members' = [members EXCEPT ![x] = S]

Next ==
  \E x, y, z \in Names :
    \/ Assign(x, {})
    \/ \E i \in Ids : Assign(x, members[x] \cup {i})
    \/ Assign(z, members[x] \ members[y])
    \/ Assign(z, members[x] \cup members[y])

Spec == Init /\ [][Next]_members
=============================================================================
