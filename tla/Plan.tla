--------------------------------- MODULE Plan ---------------------------------
(***************************************************************************)
(* Subscription plans and their infos (src/src/subscription).  Every       *)
(* handler is one write.  RoleGuard is left out, as are durations and      *)
(* titles.  Of each column that lists are ordered by only the order of its *)
(* values is kept: a number stands for a name, a price or a time.  Ids are *)
(* random: a new one is any number that is free.                           *)
(***************************************************************************)
EXTENDS Integers, FiniteSets

CONSTANTS
    PlanIds,        \* bound: ids of plans, and of infos
    Names, Prices,  \* of plans
    Times,          \* values of createdAt
    MaxWrites       \* bound: writes

VARIABLES
    plans,          \* rows of the SubscriptionPlan table
    infos,          \* rows of the SubscriptionPlanInfo table
    writes          \* writes so far

planVars == <<plans, infos, writes>>

Plans == [id: PlanIds, name: Names, price: Prices, createdAt: Times, stashed: BOOLEAN]
Infos == [id: PlanIds, plan: PlanIds, stashed: BOOLEAN]

PlanTypeOK == plans \subseteq Plans /\ infos \subseteq Infos /\ writes \in Nat

PlanInit == plans = {} /\ infos = {} /\ writes = 0

Write == writes < MaxWrites /\ writes' = writes + 1

Stashed(rows, id) == {IF r.id = id THEN [r EXCEPT !.stashed = TRUE] ELSE r : r \in rows}

-----------------------------------------------------------------------------
\* name is unique, in the stash as well; a write that is refused changes
\* nothing and is left out.
NameFree(id, name) == \A p \in plans : p.name = name => p.id = id

\* createdAt is now: no earlier than that of any plan there is, and for two
\* plans perhaps the same.
CreatePlan(id, name, price, now) ==
    /\ Write
    /\ \A p \in plans : p.id # id /\ p.createdAt <= now
    /\ NameFree(id, name)
    /\ plans' = plans \cup {[id |-> id, name |-> name, price |-> price,
                            createdAt |-> now, stashed |-> FALSE]}
    /\ UNCHANGED infos

\* By id, in the stash or not.
UpdatePlan(id, name, price) ==
    /\ Write
    /\ NameFree(id, name)
    /\ plans' = {IF p.id = id THEN [p EXCEPT !.name = name, !.price = price] ELSE p :
                    p \in plans}
    /\ UNCHANGED infos

StashPlan(id) ==
    /\ Write
    /\ plans' = Stashed(plans, id)
    /\ UNCHANGED infos

\* onDelete: Cascade from SubscriptionPlan to SubscriptionPlanInfo.
InfosWithout(id) == {i \in infos : i.plan # id}

\* With fromStash a plan is deleted by id, in the stash or not.
DestroyPlan(id) ==
    /\ Write
    /\ plans' = {p \in plans : p.id # id}
    /\ infos' = InfosWithout(id)

\* The foreign key of planId.
PlanThere(plan) == \E p \in plans : p.id = plan

CreateInfo(id, plan) ==
    /\ Write
    /\ \A i \in infos : i.id # id
    /\ PlanThere(plan)
    /\ infos' = infos \cup {[id |-> id, plan |-> plan, stashed |-> FALSE]}
    /\ UNCHANGED plans

\* The input may name another plan.
UpdateInfo(id, plan) ==
    /\ Write
    /\ PlanThere(plan)
    /\ infos' = {IF i.id = id THEN [i EXCEPT !.plan = plan] ELSE i : i \in infos}
    /\ UNCHANGED plans

StashInfo(id) ==
    /\ Write
    /\ infos' = Stashed(infos, id)
    /\ UNCHANGED plans

DestroyInfo(id) ==
    /\ Write
    /\ infos' = {i \in infos : i.id # id}
    /\ UNCHANGED plans

PlanNext ==
    \/ \E id \in PlanIds, name \in Names, price \in Prices, now \in Times :
          CreatePlan(id, name, price, now)
    \/ \E p \in plans, name \in Names, price \in Prices : UpdatePlan(p.id, name, price)
    \/ \E p \in plans : StashPlan(p.id) \/ DestroyPlan(p.id)
    \/ \E id, plan \in PlanIds : CreateInfo(id, plan)
    \/ \E i \in infos, plan \in PlanIds : UpdateInfo(i.id, plan)
    \/ \E i \in infos : StashInfo(i.id) \/ DestroyInfo(i.id)

-----------------------------------------------------------------------------
(* Properties                                                              *)

\* An info is always one of a plan that exists: an info moved to another plan
\* goes with that one, and not with the plan it was created for.
InfosHavePlan == \A i \in infos : PlanThere(i.plan)
=============================================================================
