------------------------------ MODULE MCContent ------------------------------
(* Small instances of Content for TLC.                                     *)
EXTENDS Content, TLC

Symmetry == Permutations(Users) \cup Permutations(Workspaces)

TablesInUse ==
    {t \in {"post"} : posts # {} \/ \E q \in active : q.phase \in PostPhases}
    \cup {t \in {"folder"} : folders # {} \/ \E q \in active : q.phase \in FolderPhases}
    \cup {t \in {"file"} : stored # {} \/ FileRequests # {}}

\* Bound: a behaviour uses one of the tables, as no handler of one reads
\* another; memberships matter to posts alone, of which a request needs three,
\* the caller's for the header and the post and the author's; and a post is
\* created with an authorId or without, as null is no other case there.
OneTable ==
    /\ Cardinality(TablesInUse) <= 1
    /\ Cardinality(everMember) <= 3
    /\ \A q \in active : q.phase = "createPost" => q.author # None
    /\ TablesInUse \cap {"folder", "file"} # {} => everMember = {}
=============================================================================
