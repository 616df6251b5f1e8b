-------------------------------- MODULE Stash --------------------------------
(***************************************************************************)
(* What the tables with a deletedAt column promise of each row, whatever   *)
(* requests race on it: a row is created once, moves between active and    *)
(* stashed, and once destroyed never comes back.  Workspaces, memberships, *)
(* posts, roles, files and folders are kept this way.                      *)
(***************************************************************************)
CONSTANT Rows

VARIABLE row        \* the state of each row

States == {"absent", "active", "stashed", "gone"}

Init == row = [r \in Rows |-> "absent"]

\* What is there to be destroyed.
Live == {r \in Rows : row[r] \in {"active", "stashed"}}

Change(R, state) == row' = [r \in Rows |-> IF r \in R THEN state ELSE row[r]]

Create(r) == row[r] = "absent" /\ Change({r}, "active")

PutAway(r) == row[r] = "active" /\ Change({r}, "stashed")

Restore(r) == row[r] = "stashed" /\ Change({r}, "active")

\* A deletion cascades: several rows may go together.
Destroy(R) == R # {} /\ Change(R, "gone")

Next ==
    \/ \E r \in Rows : Create(r) \/ PutAway(r) \/ Restore(r)
    \/ \E R \in SUBSET Live : Destroy(R)

Spec == Init /\ [][Next]_row
=============================================================================
