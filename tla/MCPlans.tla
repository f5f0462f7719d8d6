------------------------------- MODULE MCPlans -------------------------------
(***************************************************************************)
(* What a plan is good for, for TLC: the quota under concurrent requests   *)
(* (ChatGateway), the windows it is counted in (QuotaWindows) and the      *)
(* models it reaches (Routing).  The gateway takes the answers of the two  *)
(* others as its input, so interleaving them would show nothing more: the  *)
(* initial state picks the one that moves.                                 *)
(***************************************************************************)
EXTENDS MCChatGateway

CONSTANTS
    Plans, Limits, NoLimit, OddPlan, Ends, Never, PlanCharges, Month, MaxNow, MaxRows,
    IdOrder, Rows, Seed, RoutedRequests, NoRequest

VARIABLES
    part,
    now, exempt, plan, until, usage,
    configs, phase, request, route, asked

windowVars == <<now, exempt, plan, until, usage>>
routerVars == <<configs, phase, request, route, asked>>

Windows == INSTANCE QuotaWindows WITH admin <- exempt, Charges <- PlanCharges

Router == INSTANCE Routing WITH Requests <- RoutedRequests

ASSUME PlansAssumption == Windows!QuotaAssumption /\ Router!RoutingAssumption

PlansInit == Init /\ Windows!Init /\ Router!Init /\ part \in {"quota", "windows", "router"}

PlansNext ==
    /\ UNCHANGED part
    /\ \/ part = "quota" /\ Next /\ UNCHANGED <<windowVars, routerVars>>
       \/ part = "windows" /\ Windows!Next /\ UNCHANGED <<vars, routerVars>>
       \/ part = "router" /\ Router!Next /\ UNCHANGED <<vars, windowVars>>

PlansSpec == PlansInit /\ [][PlansNext]_<<part, vars, windowVars, routerVars>>

\* Every part of the windows keeps its type.
WindowsTypeOK == Windows!TypeOK

\* The dashboard shows nothing left exactly when the next request is refused
\* (dashboard/routes.js, checkUserQuota in membership/membership.js).
DashboardAgrees == Windows!DashboardAgrees

\* The chain is the best class of models that is not empty, in order (routeChat).
ChainIsBestClass == Router!ChainIsBestClass

\* A route and its fallback keep what the user may have and what he asked for:
\* the floor of his plan, and a thinking mode that was forced (routeChat in
\* ai/router.js, pickRuntimeFallback and callProvider in ai/gateway.js).
RouteKeepsTerms == Router!PlanFloorKept /\ Router!ForcedThinkingKept

-----------------------------------------------------------------------------
\* Limits of two requests a day on the free plan, of points on both.
MCLimits == "free" :> [daily |-> 2, points |-> 2] @@ "pro" :> [daily |-> NoLimit, points |-> 3]

\* The registry of the router: the seed, edits of its rows, requests.
MCIdOrder == <<"hy3", "mimo-v2.5", "minimax-m3">>

Model(purposes, caps, floor, provider) ==
    [purposes |-> purposes, thinking |-> "thinking" \in caps, vision |-> "vision" \in caps,
     streaming |-> "streaming" \in caps, context |-> 0, priority |-> 10, plan |-> floor,
     host |-> "opencode", provider |-> provider, enabled |-> TRUE, key |-> TRUE]

Mimo == Model({"light"}, {"streaming"}, "free", "mimo")
Hy3 == Model({"chat"}, {"streaming", "thinking"}, "free", "hy3")
M3 == [Model({"chat", "reasoning", "vision"}, {"streaming", "thinking", "vision"}, "plus", "minimax")
         EXCEPT !.priority = 20, !.host = "minimaxi"]

MCSeed == "hy3" :> Hy3 @@ "mimo-v2.5" :> Mimo @@ "minimax-m3" :> M3

\* Off, cheaper, narrower, plan raised, capabilities removed, key lost.
MCRows == {[Mimo EXCEPT !.enabled = FALSE],
           [Hy3 EXCEPT !.priority = 30, !.streaming = FALSE],
           [Hy3 EXCEPT !.context = 8000, !.plan = "plus", !.host = "other"],
           [Mimo EXCEPT !.plan = "pro", !.purposes = {"light", "vision"}, !.host = "other"],
           [M3 EXCEPT !.plan = "free", !.context = 8000],
           [M3 EXCEPT !.thinking = FALSE, !.priority = 10],
           [M3 EXCEPT !.key = FALSE]}

MCRequests ==
    [caller : {"StudySuggestions", "LLMChat", "MistakeAI", "MistakeDebate", "ExamAutopsy"},
     plan : {"free", "plus"}, thinking : {"auto", "on"}, stream : {TRUE},
     images : BOOLEAN, tokens : {100, 12000}, messages : {1, 12}]
=============================================================================
