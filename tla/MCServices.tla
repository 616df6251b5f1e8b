------------------------------ MODULE MCServices ------------------------------
(* Small instances of Services for TLC.                                    *)
EXTENDS Services

\* Bound: columns that the list is not ordered by do not vary, the unique name
\* but with the id; and infos, which no list reads, are there without a walk.
OneColumn ==
    /\ \A p \in plans :
        /\ order.field # "name" => p.name = p.id
        /\ order.field # "price" => p.price = 1
        /\ order.field # "createdAt" => p.createdAt = 1
    /\ infos # {} => step = "idle"
=============================================================================
