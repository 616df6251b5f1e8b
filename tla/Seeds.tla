-------------------------------- MODULE Seeds --------------------------------
(***************************************************************************)
(* The seeds (src/src/seed): a program that is run by hand, any number of  *)
(* times, and empties and fills the tables in five parts.  A part ends at  *)
(* its first call that fails, and main goes on to the next part.  Each     *)
(* action is one awaited write, with the reads before it.                  *)
(*                                                                         *)
(* Between two runs the service is used: somebody signs up, and a file     *)
(* with a session of its URL is uploaded.  What the cascades of the schema *)
(* take along is part of each deleteMany.  Of the privileges, passwords,   *)
(* prices and dates only that they were written is kept.                   *)
(***************************************************************************)
EXTENDS Integers, Sequences, FiniteSets

CONSTANT MaxRuns    \* bound: runs of the program

VARIABLES
    tables,         \* the rows of each table
    at,             \* the write the program is at; 0 when it does not run
    assigning,      \* creates of UserRole rows that nobody waits for
    run,            \* runs started so far
    \* Observed only by the properties:
    missed,         \* parts the latest run did not get to the end of
    fresh           \* no run is under way, and nothing was used since

seedVars == <<tables, at, assigning, run, missed, fresh>>

RoleNames == {"SUPER_ADMIN", "ADMIN", "USER"}
Regular == {"user0", "user1"}
People == {"admin", "other"} \cup Regular
PlanNames == {"Trial", "Basic", "Premium", "Ultimate"}
InfoNames == {"premiumRole", "ultimateRole", "ultimateMedia"}

Part(seed, steps) == [i \in DOMAIN steps |-> [seed |-> seed, step |-> steps[i]]]

Program ==
    Part("role", <<"deletePrivileges", "deleteRoles", "createPrivileges", "createRoles",
                   "SUPER_ADMIN", "ADMIN", "USER">>)
    \o Part("user", <<"deleteUsers", "deleteUserRoles", "createAdmin", "assignAdmin",
                      "user0", "user1", "assignUsers">>)
    \o Part("workspace", <<"deleteWorkspaces", "deleteMemberships", "createWorkspaces",
                           "createMemberships">>)
    \o Part("post", <<"deletePosts", "createPost">>)
    \o Part("subscription", <<"deletePlans", "Trial", "Basic", "Premium", "Ultimate",
                              "deleteInfos", "premiumRole", "ultimateRole",
                              "ultimateMedia", "deleteCoupons", "createCoupons",
                              "deleteSubscriptions", "createSubscriptions",
                              "deletePayments", "createPayments">>)

Parts == {Program[i].seed : i \in DOMAIN Program}

Runs == 1..MaxRuns

\* Rows are named by the run that made them, and what tells them apart in it:
\* the type of a role, the user of a subscription.  "payments" names the users
\* whose subscription has one; "signed" the workspaces with a file that has a
\* session.
Tables ==
    [privileges: SUBSET Runs, roles: SUBSET (RoleNames \X Runs),
     granted: SUBSET (RoleNames \X Runs), users: SUBSET People,
     userRoles: SUBSET (People \X (RoleNames \X Runs)), workspaces: SUBSET Runs,
     owners: SUBSET (People \X Runs), posts: SUBSET Runs, signed: SUBSET Runs,
     plans: SUBSET (PlanNames \X Runs), infos: SUBSET (InfoNames \X Runs),
     coupons: SUBSET Runs, subscriptions: SUBSET (People \X Runs),
     payments: SUBSET People]

SeedTypeOK ==
    /\ tables \in Tables
    /\ at \in 0..Len(Program) + 1
    /\ assigning \subseteq People \X (RoleNames \X Runs)
    /\ run \in 0..MaxRuns
    /\ missed \subseteq Parts
    /\ fresh \in BOOLEAN

SeedInit ==
    /\ tables = [privileges |-> {}, roles |-> {}, granted |-> {}, users |-> {},
                 userRoles |-> {}, workspaces |-> {}, owners |-> {}, posts |-> {},
                 signed |-> {}, plans |-> {}, infos |-> {}, coupons |-> {},
                 subscriptions |-> {}, payments |-> {}]
    /\ at = 0 /\ assigning = {} /\ run = 0 /\ missed = {} /\ fresh = FALSE

-----------------------------------------------------------------------------
\* The program comes to a step, and goes on to the next.
Now(step) ==
    /\ at \in DOMAIN Program
    /\ Program[at].step = step
    /\ at' = at + 1
    /\ UNCHANGED <<run, missed, fresh>>

OfType(type) == {r \in tables.roles : r[1] = type}

DeletePrivileges ==
    /\ Now("deletePrivileges")
    /\ tables' = [tables EXCEPT !.privileges = {}, !.granted = {}]
    /\ UNCHANGED assigning

WithoutRoles == [tables EXCEPT !.roles = {}, !.granted = {}, !.userRoles = {}]

DeleteRoles == Now("deleteRoles") /\ tables' = WithoutRoles /\ UNCHANGED assigning

CreatePrivileges ==
    /\ Now("createPrivileges")
    /\ tables' = [tables EXCEPT !.privileges = @ \cup {run}]
    /\ UNCHANGED assigning

CreateRoles ==
    /\ Now("createRoles")
    /\ tables' = [tables EXCEPT !.roles = @ \cup (RoleNames \X {run})]
    /\ UNCHANGED assigning

\* The privileges of a role, to the first role of the type.
GrantPrivileges(type) ==
    /\ Now(type)
    /\ \E r \in OfType(type) : tables' = [tables EXCEPT !.granted = @ \cup {r}]
    /\ UNCHANGED assigning

-----------------------------------------------------------------------------
DeleteUsers ==
    /\ Now("deleteUsers")
    /\ tables' = [tables EXCEPT !.users = {}, !.userRoles = {}, !.owners = {},
                                !.subscriptions = {}, !.payments = {}]
    /\ UNCHANGED assigning

DeleteUserRoles ==
    /\ Now("deleteUserRoles")
    /\ tables' = [tables EXCEPT !.userRoles = {}]
    /\ UNCHANGED assigning

CreateAdmin ==
    /\ Now("createAdmin")
    /\ tables' = [tables EXCEPT !.users = @ \cup {"admin"}]
    /\ UNCHANGED assigning

\* Nothing, if there is no such role.
AssignAdmin ==
    /\ Now("assignAdmin")
    /\ IF OfType("SUPER_ADMIN") = {} THEN UNCHANGED tables
       ELSE \E r \in OfType("SUPER_ADMIN") :
              tables' = [tables EXCEPT !.userRoles = @ \cup {<<"admin", r>>}]
    /\ UNCHANGED assigning

CreateRegular(u) ==
    /\ Now(u)
    /\ tables' = [tables EXCEPT !.users = @ \cup {u}]
    /\ UNCHANGED assigning

\* forEach starts the creates and waits for none of them.
AssignUsers ==
    /\ Now("assignUsers")
    /\ IF OfType("USER") = {} THEN UNCHANGED assigning
       ELSE \E r \in OfType("USER") :
              assigning' = {<<u, r>> : u \in tables.users \ {"admin"}}
    /\ UNCHANGED tables

Assigned(a) ==
    /\ a \in assigning
    /\ assigning' = assigning \ {a}
    /\ tables' = [tables EXCEPT !.userRoles = @ \cup {a}]
    /\ UNCHANGED <<at, run, missed, fresh>>

-----------------------------------------------------------------------------
\* A session of a file stands in the way of the cascade.
DeleteWorkspaces ==
    /\ Now("deleteWorkspaces")
    /\ tables.signed = {}
    /\ tables' = [tables EXCEPT !.workspaces = {}, !.owners = {}, !.posts = {}]
    /\ UNCHANGED assigning

DeleteMemberships ==
    /\ Now("deleteMemberships")
    /\ tables' = [tables EXCEPT !.owners = {}]
    /\ UNCHANGED assigning

CreateWorkspaces ==
    /\ Now("createWorkspaces")
    /\ tables' = [tables EXCEPT !.workspaces = @ \cup {run}]
    /\ UNCHANGED assigning

\* Mutant: the super admin gets no workspace.
OwnersToBeRegular == tables.users \ {"admin"}

\* Everybody is to own one of the workspaces.
OwnersToBe == tables.users

CreateMemberships ==
    /\ Now("createMemberships")
    /\ \E w \in [OwnersToBe -> tables.workspaces] :
         tables' = [tables EXCEPT !.owners = @ \cup {<<u, w[u]>> : u \in OwnersToBe}]
    /\ UNCHANGED assigning

DeletePosts ==
    /\ Now("deletePosts")
    /\ tables' = [tables EXCEPT !.posts = {}]
    /\ UNCHANGED assigning

\* In the first workspace, by the first user: an error without a workspace.
CreateSeedPost ==
    /\ Now("createPost")
    /\ tables.workspaces # {}
    /\ tables' = [tables EXCEPT !.posts = @ \cup {run}]
    /\ UNCHANGED assigning
-----------------------------------------------------------------------------
(* SubscriptionSeed                                                        *)

\* With the plans go their infos and subscriptions, and with those payments.
DeletePlans ==
    /\ Now("deletePlans")
    /\ tables' = [tables EXCEPT !.plans = {}, !.infos = {}, !.subscriptions = {},
                                !.payments = {}]
    /\ UNCHANGED assigning

CreateSeedPlan(name) ==
    /\ Now(name)
    /\ tables' = [tables EXCEPT !.plans = @ \cup {<<name, run>>}]
    /\ UNCHANGED assigning

DeleteInfos ==
    /\ Now("deleteInfos")
    /\ tables' = [tables EXCEPT !.infos = {}]
    /\ UNCHANGED assigning

CreateSeedInfo(name) ==
    /\ Now(name)
    /\ tables' = [tables EXCEPT !.infos = @ \cup {<<name, run>>}]
    /\ UNCHANGED assigning

\* The coupons take the subscriptions and payments they were used for along.
DeleteCoupons ==
    /\ Now("deleteCoupons")
    /\ tables' = [tables EXCEPT !.coupons = {}, !.subscriptions = {}, !.payments = {}]
    /\ UNCHANGED assigning

CreateCoupons ==
    /\ Now("createCoupons")
    /\ tables' = [tables EXCEPT !.coupons = @ \cup {run}]
    /\ UNCHANGED assigning

DeleteSubscriptions ==
    /\ Now("deleteSubscriptions")
    /\ tables' = [tables EXCEPT !.subscriptions = {}, !.payments = {}]
    /\ UNCHANGED assigning

Few(S) == {T \in SUBSET S : Cardinality(T) = IF Cardinality(S) < 2 THEN Cardinality(S) ELSE 2}

\* Where main goes on after a call that fails.
NextPart ==
    CHOOSE i \in at..Len(Program) + 1 :
        /\ i = Len(Program) + 1 \/ Program[i].seed # Program[at].seed
        /\ \A j \in at..i - 1 : Program[j].seed = Program[at].seed

GiveUp ==
    /\ at \in DOMAIN Program
    /\ at' = NextPart
    /\ missed' = missed \cup {Program[at].seed}
    /\ UNCHANGED <<run, fresh>>

\* Promise.all: the creates of all are started; when one fails the others have
\* been done or not, and the part is given up.
ForAll(step, all, done) ==
    /\ at \in DOMAIN Program
    /\ Program[at].step = step
    /\ done \subseteq all
    /\ IF done = all THEN Now(step) ELSE GiveUp
    /\ UNCHANGED assigning

\* For the first two regular users, in whatever order they are read.
CreateSubscriptions ==
    \E all \in Few(tables.users \ {"admin"}) : \E done \in SUBSET all :
        /\ ForAll("createSubscriptions", all, done)
        /\ tables' = [tables EXCEPT !.subscriptions = @ \cup (done \X {run})]

DeletePayments ==
    /\ Now("deletePayments")
    /\ tables' = [tables EXCEPT !.payments = {}]
    /\ UNCHANGED assigning

CreatePayments ==
    LET all == {s[1] : s \in tables.subscriptions} IN
    \E done \in SUBSET all :
        /\ ForAll("createPayments", all, done)
        /\ tables' = [tables EXCEPT !.payments = @ \cup done]

-----------------------------------------------------------------------------
BeginRun ==
    /\ at = 0
    /\ run < MaxRuns
    /\ run' = run + 1
    /\ at' = 1
    /\ missed' = {}
    /\ fresh' = FALSE
    /\ UNCHANGED <<tables, assigning>>

CallFails == GiveUp /\ UNCHANGED <<tables, assigning>>

EndRun ==
    /\ at = Len(Program) + 1
    /\ assigning = {}
    /\ at' = 0
    /\ fresh' = TRUE
    /\ UNCHANGED <<tables, assigning, run, missed>>

\* The program is killed, or a create fails that nobody waits for, which ends
\* a Node.js process.
Kill ==
    /\ at # 0
    /\ at' = 0
    /\ assigning' = {}
    /\ missed' = missed \cup {Program[i].seed : i \in at..Len(Program)}
                         \cup {p \in {"user"} : assigning # {}}
    /\ fresh' = TRUE
    /\ UNCHANGED <<tables, run>>

\* signup gives the USER role, if there is one.
SignUp ==
    /\ at = 0
    /\ "other" \notin tables.users
    /\ tables' = [tables EXCEPT !.users = @ \cup {"other"},
                                !.userRoles = @ \cup ({"other"} \X OfType("USER"))]
    /\ fresh' = FALSE
    /\ UNCHANGED <<at, assigning, run, missed>>

\* uploadMedia of a RESTRICTED file, and its deleteFile.
ToggleSigned(w) ==
    /\ at = 0
    /\ tables' = [tables EXCEPT !.signed = IF w \in @ THEN @ \ {w} ELSE @ \cup {w}]
    /\ fresh' = FALSE
    /\ UNCHANGED <<at, assigning, run, missed>>

SeedNext ==
    \/ BeginRun \/ EndRun \/ CallFails \/ Kill
    \/ DeletePrivileges \/ DeleteRoles \/ CreatePrivileges \/ CreateRoles
    \/ \E type \in RoleNames : GrantPrivileges(type)
    \/ DeleteUsers \/ DeleteUserRoles \/ CreateAdmin \/ AssignAdmin
    \/ \E u \in Regular : CreateRegular(u)
    \/ AssignUsers
    \/ \E a \in assigning : Assigned(a)
    \/ DeleteWorkspaces \/ DeleteMemberships \/ CreateWorkspaces \/ CreateMemberships
    \/ DeletePosts \/ CreateSeedPost
    \/ DeletePlans \/ \E name \in PlanNames : CreateSeedPlan(name)
    \/ DeleteInfos \/ \E name \in InfoNames : CreateSeedInfo(name)
    \/ DeleteCoupons \/ CreateCoupons
    \/ DeleteSubscriptions \/ CreateSubscriptions
    \/ DeletePayments \/ CreatePayments
    \/ SignUp \/ \E w \in tables.workspaces : ToggleSigned(w)

-----------------------------------------------------------------------------
(* Properties                                                              *)

\* There is at most one global role of a type, whatever runs failed where:
\* RoleGuard, signup and the seeds take the first they find.
OneRoleOfType == \A type \in RoleNames : Cardinality(OfType(type)) <= 1

RolesOf(u) == {r \in tables.roles : <<u, r>> \in tables.userRoles}
RolesSeeded == \A type \in RoleNames : OfType(type) # {} /\ OfType(type) \subseteq tables.granted

\* After a run each part it got to the end of left what it is to leave, however
\* earlier runs, or other parts of this one, failed: a run repairs what a
\* broken run left behind.
SeededUnlessMissed ==
    fresh =>
    /\ "role" \notin missed => Cardinality(tables.privileges) = 1 /\ RolesSeeded
    /\ {"role", "user"} \cap missed = {} =>
          /\ tables.users = {"admin"} \cup Regular
          /\ RolesOf("admin") = OfType("SUPER_ADMIN")
          /\ \A u \in Regular : RolesOf(u) = OfType("USER")
    /\ "workspace" \notin missed =>
          \A u \in tables.users : Cardinality({o \in tables.owners : o[1] = u}) = 1
    /\ "post" \notin missed => Cardinality(tables.posts) = 1
    /\ "subscription" \notin missed =>
          /\ \A name \in PlanNames : Cardinality({p \in tables.plans : p[1] = name}) = 1
          /\ \A name \in InfoNames : Cardinality({i \in tables.infos : i[1] = name}) = 1
          /\ {s[1] : s \in tables.subscriptions} = tables.payments
          /\ tables.payments \in Few(tables.users \ {"admin"})

\* Both: however often the seeds are run and wherever they fail.
SeedsRepair == OneRoleOfType /\ SeededUnlessMissed
=============================================================================
