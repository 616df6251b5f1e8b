------------------------------- MODULE Services -------------------------------
(***************************************************************************)
(* What shares nothing with the rest of the program, or does not run       *)
(* beside it: the message gateway, the video queue, the plans with the     *)
(* lists, and the seeds.                                                   *)
(***************************************************************************)
EXTENDS Presence, Queue, Lists, Seeds

VARIABLES focus     \* bound: the one of them that a behaviour is about

vars == <<focus, presenceVars, queueVars, planVars, listVars, seedVars>>

ASSUME ServicesAssumption ==
    MaxMessages \in Nat /\ MaxJobs \in Nat /\ MaxWrites \in Nat /\ MaxRuns \in Nat
    /\ PlanIds \subseteq Nat /\ Names \subseteq Nat /\ Prices \subseteq Nat /\ Times \subseteq Nat
    /\ Sizes \subseteq Nat

TypeOK ==
    /\ focus \in {"messages", "videos", "plans", "seeds"}
    /\ PresenceTypeOK
    /\ QueueTypeOK
    /\ PlanTypeOK
    /\ ListTypeOK
    /\ SeedTypeOK

Init ==
    /\ focus \in {"messages", "videos", "plans", "seeds"}
    /\ PresenceInit
    /\ QueueInit
    /\ PlanInit
    /\ ListInit
    /\ SeedInit
    /\ focus # "messages" => owner = CHOOSE o \in [Sockets -> Users] : TRUE
    /\ focus # "plans" => size = (CHOOSE n \in Sizes : TRUE) /\ order = ByDefault

Next ==
    /\ UNCHANGED focus
    /\ \/ /\ focus = "messages" /\ PresenceNext
          /\ UNCHANGED <<queueVars, planVars, listVars, seedVars>>
       \/ /\ focus = "videos" /\ QueueNext
          /\ UNCHANGED <<presenceVars, planVars, listVars, seedVars>>
       \/ /\ focus = "plans" /\ ListNext
          /\ UNCHANGED <<presenceVars, queueVars, seedVars>>
       \/ /\ focus = "seeds" /\ SeedNext
          /\ UNCHANGED <<presenceVars, queueVars, planVars, listVars>>

\* A worker is running and BullMQ is there: see Work.
Spec == Init /\ [][Next]_vars
             /\ WF_vars(focus = "videos" /\ Work
                          /\ UNCHANGED <<focus, presenceVars, planVars, listVars, seedVars>>)
=============================================================================
