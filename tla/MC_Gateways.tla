---------------------------- MODULE MC_Gateways ----------------------------
(***************************************************************************)
(* What stands between a run and the world, four components that share no  *)
(* state: the plan and its workers, the router, the calls of models and    *)
(* the calls of tools.  A behaviour is one of them.                        *)
(***************************************************************************)
EXTENDS PlanStore, Router, ModelGateway, ToolGateway

CONSTANTS e1, o1, o2, s1, s2

Branch(id, partition, gain, cost) ==
  [id |-> id, partition |-> partition, gain |-> gain, cost |-> cost, status |-> "pending", evidence |-> {}]

\* The third branch is worth most for its cost and the second costs too much
\* beside it; a later branch may be fine, take a partition that is in use, or
\* have no valid gain.
MCFirstBranches == {Branch(1, 1, 5, 1), Branch(2, 2, 9, 2), Branch(3, 3, 8, 1)}
MCLaterBranches == {{Branch(4, 4, 4, 0)}, {Branch(4, 1, 5, 1)}, {Branch(4, 4, 11, 1)}}

Grant(read, write, network, secretRefs) ==
  [read |-> read, write |-> write, network |-> network, secretRefs |-> secretRefs]
Call(grant, plan) ==
  [grant |-> grant, plan |-> plan, tool |-> TRUE, input |-> TRUE, pinned |-> TRUE, limits |-> TRUE]
Wide == Grant({1, 2}, {2}, {o1}, {s1, s2})

MCRequests ==
  {Call(Wide, Grant(read, write, {o1}, secretRefs)) :
     read \in SUBSET {1, 2}, write \in {{}, {2}}, secretRefs \in {{}, {s1}, {s1, s2}}}
  \cup {Call(Grant({1}, {1, 2}, {}, {}), Grant({1}, {2}, {}, {})),
        Call(Grant({1}, {1}, {o1}, {}), Grant({2}, {}, {o2}, {})),
        Call(Wide, Grant({1}, {}, {o2}, {s1}))}
  \cup {[Call(Wide, Grant({1}, {2}, {o1}, {s1})) EXCEPT ![field] = FALSE] :
          field \in {"tool", "input", "pinned", "limits"}}

VARIABLE part

vars == <<part, planVars, routerVars, modelVars, toolVars>>

\* The state of a component whose turn it is not is one of its initial states.
Resting(name) ==
  /\ name # "router" => task = CHOOSE t \in RoutingFeatures : TRUE
  /\ name # "model" => providers = CHOOSE p \in SUBSET Names : p # {}
  /\ name # "tool" => /\ request = CHOOSE r \in Requests : TRUE
                      /\ links = [p \in Paths |-> p]

Init ==
  /\ part \in {"plan", "router", "model", "tool"}
  /\ Resting(part)
  /\ PlanInit /\ RouterInit /\ ModelInit /\ ToolInit

Next ==
  \/ part = "plan" /\ PlanNext /\ UNCHANGED <<part, routerVars, modelVars, toolVars>>
  \/ part = "router" /\ RouterNext /\ UNCHANGED <<part, planVars, modelVars, toolVars>>
  \/ part = "model" /\ ModelNext /\ UNCHANGED <<part, planVars, routerVars, toolVars>>
  \/ part = "tool" /\ ToolNext /\ UNCHANGED <<part, planVars, routerVars, modelVars>>

Spec == Init /\ [][Next]_vars /\ ModelFairness
=============================================================================
