------------------------------ MODULE Routing ------------------------------
(***************************************************************************)
(* The dynamic router (ai/router.js, ai/policies.js), the routing view of  *)
(* the registry it reads (ai/model-config.js, providers/registry.js) and   *)
(* the walk of the gateway along the chain it returns (ai/gateway.js).     *)
(* One request is routed at a time: a request works on its own snapshot    *)
(* of the registry, so concurrent requests and edits cannot touch it; how  *)
(* stale a snapshot may be is the subject of ModelConfig.                  *)
(*                                                                         *)
(* A model's record keeps what routing reads: purposes, the capabilities   *)
(* vision, thinking and streaming, context (0: unlimited), priority, plan  *)
(* (min_plan), host, provider (the wire dialect), enabled, and key (an API *)
(* key resolves).                                                          *)
(***************************************************************************)
EXTENDS Naturals, FiniteSets, SequencesExt

CONSTANTS
    IdOrder,   \* model ids in the order in which the router compares them
    Rows,      \* the records an administrator may save for a model
    Seed,      \* the registry before the first edit
    Requests,  \* caller, plan, thinking, stream, images, tokens, messages
    NoRequest  \* the request of an idle router

VARIABLES
    configs,   \* the resolved configurations, by model id
    phase,     \* "idle", "routed", "asked", "fallback", "refused", "served", "failed"
    request,   \* the request being routed
    route,     \* what routeChat answered
    asked      \* the models asked, in order, with what their wire carries

vars == <<configs, phase, request, route, asked>>

Ids == ToSet(IdOrder)
Ladder == <<"chat", "light", "reasoning", "vision">>
PlanRank == [free |-> 0, plus |-> 1, pro |-> 2, admin |-> 3]

-----------------------------------------------------------------------------
(* Policies: one caller for each distinct policy of CALLER_POLICIES.       *)

Light == [purpose |-> "light", default |-> "off", allows |-> TRUE,
          escalates |-> TRUE, upgrades |-> FALSE]
ChatAuto == [Light EXCEPT !.purpose = "chat", !.default = "auto", !.escalates = FALSE]
ReasoningOn == [ChatAuto EXCEPT !.purpose = "reasoning", !.default = "on"]
VisionAuto == [ChatAuto EXCEPT !.purpose = "vision", !.allows = FALSE]

Policy == [StudySuggestions |-> [Light EXCEPT !.allows = FALSE],
           LLMChat          |-> Light,
           SimilarQuestion  |-> ChatAuto,
           MistakeAI        |-> [ChatAuto EXCEPT !.upgrades = TRUE],
           ExamReadiness    |-> [ChatAuto EXCEPT !.allows = FALSE],
           MistakeDebate    |-> ReasoningOn,
           ExamAutopsy      |-> VisionAuto]

\* What the administration lets in: a model is tagged for some purpose.
ModelRow == [purposes : (SUBSET ToSet(Ladder)) \ {{}}, thinking : BOOLEAN, vision : BOOLEAN,
             streaming : BOOLEAN, context : Nat, priority : Nat, plan : DOMAIN PlanRank,
             host : STRING, provider : STRING, enabled : BOOLEAN, key : BOOLEAN]

RoutingAssumption ==
    /\ IdOrder \in Seq(Ids) /\ IsInjective(IdOrder)
    /\ DOMAIN Seed \subseteq Ids
    /\ Rows \cup Range(Seed) \subseteq ModelRow
    /\ \A req \in Requests : req.caller \in DOMAIN Policy /\ req.plan \in DOMAIN PlanRank

MayForce(plan) == plan # "free"

EffectiveThinking(policy, wanted, plan) ==
    CASE ~policy.allows                          -> policy.default
      [] policy.allows /\ wanted = "on" /\ ~MayForce(plan) ->
            IF policy.default = "off" THEN "auto" ELSE policy.default
      [] policy.allows /\ wanted = "auto"        ->
            IF policy.default = "off" THEN "off" ELSE "auto"
      [] OTHER                                   -> wanted

\* reasoningEffortFor and buildExtraBodyFor: what the request body asks for.
Wire(provider, thinking) ==
    CASE provider = "mimo"    -> IF thinking = "on" THEN "enabled" ELSE "disabled"
      [] provider = "hy3"     -> [on |-> "high", auto |-> "low", off |-> "disabled"][thinking]
      [] provider = "minimax" -> IF thinking = "off" THEN "disabled" ELSE "adaptive"
      [] OTHER                -> "unspecified"

-----------------------------------------------------------------------------
(* Candidates.                                                             *)

Heavy(req) == req.tokens >= 6000 \/ req.messages >= 12
Complex(req) == req.tokens >= 12000 \/ req.messages >= 20

NeedsVision(req) == req.images \/ Policy[req.caller].purpose = "vision"
NeedsThinking(req) == /\ ~NeedsVision(req)
                      /\ req.thinking = "on"
                      /\ Policy[req.caller].allows
                      /\ MayForce(req.plan)

TargetPurpose(req) ==
    LET policy == Policy[req.caller] IN
    CASE NeedsVision(req)                     -> "vision"
      [] ~NeedsVision(req) /\ policy.escalates /\ Heavy(req) -> "chat"
      [] /\ ~NeedsVision(req)
         /\ ~(policy.escalates /\ Heavy(req))
         /\ policy.upgrades
         /\ NeedsThinking(req) \/ Complex(req) -> "reasoning"
      [] OTHER                                -> policy.purpose

\* [p, ...s.filter((q) => q !== p)]
ToFront(p, s) ==
    LET k == CHOOSE i \in DOMAIN s : s[i] = p
    IN  [i \in DOMAIN s |-> IF i = 1 THEN p ELSE IF i <= k THEN s[i - 1] ELSE s[i]]

\* The pools searched: the target, the caller's own purpose, the ladder.
Pools(req) ==
    IF NeedsVision(req)
    THEN <<"vision">>
    ELSE ToFront(TargetPurpose(req), ToFront(Policy[req.caller].purpose, Ladder))

\* Mutant: The capability filter forgets thinking.
CompatibleUnthinking(m, req, relaxed) ==
    /\ NeedsVision(req) => m.vision
    /\ req.stream /\ ~relaxed => m.streaming
    /\ m.context > 0 => req.tokens <= m.context

\* capabilityCompatible; the relaxed pass drops the two soft capabilities.
Compatible(m, req, relaxed) ==
    /\ NeedsVision(req) => m.vision
    /\ NeedsThinking(req) /\ ~relaxed => m.thinking
    /\ req.stream /\ ~relaxed => m.streaming
    /\ m.context > 0 => req.tokens <= m.context

PlanBlocked(m, req) == /\ PlanRank[m.plan] > PlanRank[req.plan]
                       /\ ~(NeedsVision(req) /\ m.vision)

Before(view, a, b) ==
    \/ view[a].priority < view[b].priority
    \/ /\ view[a].priority = view[b].priority
       /\ \E i, j \in DOMAIN IdOrder : i < j /\ IdOrder[i] = a /\ IdOrder[j] = b

\* The elements of S, in the order of the relation R.
Sorted(S, R) == CHOOSE s \in [1 .. Cardinality(S) -> S] :
                    /\ ToSet(s) = S
                    /\ \A i, j \in DOMAIN s : i < j => <<s[i], s[j]>> \in R

Precedence(view) == {p \in (DOMAIN view) \X (DOMAIN view) : Before(view, p[1], p[2])}

Candidates(view, pool, req, relaxed) ==
    {m \in DOMAIN view : /\ pool \in view[m].purposes
                         /\ ~PlanBlocked(view[m], req)
                         /\ Compatible(view[m], req, relaxed)}

\* Every pool adds its candidates in order, without those seen before.
CollectChain(view, req, relaxed) ==
    LET chain[i \in 0 .. Len(Pools(req))] ==
            IF i = 0 THEN <<>>
            ELSE LET seen == chain[i - 1]
                     fresh == Candidates(view, Pools(req)[i], req, relaxed) \ ToSet(seen)
                 IN  seen \o Sorted(fresh, Precedence(view))
    IN  chain[Len(Pools(req))]

BuildChain(view, req) ==
    LET strict == CollectChain(view, req, FALSE) IN
    IF strict # <<>> THEN strict ELSE CollectChain(view, req, TRUE)

\* The last resort ignores the plan floors; image requests never get there.
Downgraded(view) == [m \in DOMAIN view |-> [view[m] EXCEPT !.plan = "free"]]

RouteChat(view, req) ==
    LET chain == BuildChain(view, req)
        served == IF chain = <<>> /\ ~NeedsVision(req)
                  THEN CollectChain(Downgraded(view), req, TRUE)
                  ELSE chain
        resolved == EffectiveThinking(Policy[req.caller], req.thinking, req.plan)
    IN [chain |-> served,
        thinking |-> IF served # <<>> /\ ~view[served[1]].thinking THEN "off" ELSE resolved]

\* createProviderRegistry and toRoutingView: enabled models with a key.
RoutingView(table) ==
    [m \in {i \in DOMAIN table : table[i].enabled /\ table[i].key} |-> table[m]]

-----------------------------------------------------------------------------
NoRoute == [chain |-> <<>>, thinking |-> "off"]

Init ==
    /\ configs = Seed
    /\ phase = "idle"
    /\ request = NoRequest
    /\ route = NoRoute
    /\ asked = <<>>

\* createAdminModel / updateAdminModel between two requests.
Edit ==
    /\ phase = "idle"
    /\ \E m \in Ids, row \in Rows :
          configs' = [i \in DOMAIN configs \cup {m} |-> IF i = m THEN row ELSE configs[i]]
    /\ UNCHANGED <<phase, request, route, asked>>

Route ==
    /\ phase = "idle"
    /\ \E req \in Requests :
          /\ request' = req
          /\ route' = RouteChat(RoutingView(configs), req)
          /\ phase' = IF route'.chain = <<>> THEN "refused" ELSE "routed"
    /\ UNCHANGED <<configs, asked>>

\* callProvider: the thinking mode was resolved for the head of the chain.
Send(m) == asked' = Append(asked, [model |-> m,
                                   wire |-> Wire(configs[m].provider, route.thinking)])

AskPrimary ==
    /\ phase = "routed"
    /\ Send(route.chain[1])
    /\ phase' = "asked"
    /\ UNCHANGED <<configs, request, route>>

\* pickRuntimeFallback: the first candidate at another host than the failed one.
Elsewhere == {i \in DOMAIN route.chain :
                 /\ route.chain[i] # asked[1].model
                 /\ configs[route.chain[i]].host # configs[asked[1].model].host}

\* Mutant: The runtime fallback is looked up in the registry instead of the chain.
FallbackAnywhere ==
    /\ phase = "asked"
    /\ \E m \in DOMAIN configs :
          /\ configs[m].host # configs[asked[1].model].host
          /\ Send(m)
    /\ phase' = "fallback"
    /\ UNCHANGED <<configs, request, route>>

\* A retryable failure of the primary moves to one fallback, at most.
AskFallback ==
    /\ phase = "asked"
    /\ \E i \in Elsewhere : /\ \A j \in Elsewhere : i <= j
                            /\ Send(route.chain[i])
    /\ phase' = "fallback"
    /\ UNCHANGED <<configs, request, route>>

Answer ==
    /\ phase \in {"asked", "fallback"}
    /\ phase' = "served"
    /\ UNCHANGED <<configs, request, route, asked>>

\* A failure that is not retryable, or one with no candidate left.
Fail ==
    /\ phase \in {"asked", "fallback"}
    /\ phase' = "failed"
    /\ UNCHANGED <<configs, request, route, asked>>

Finish ==
    /\ phase \in {"refused", "served", "failed"}
    /\ phase' = "idle"
    /\ request' = NoRequest
    /\ route' = NoRoute
    /\ asked' = <<>>
    /\ UNCHANGED configs

Next == Edit \/ Route \/ AskPrimary \/ AskFallback \/ Answer \/ Fail \/ Finish

Spec == Init /\ [][Next]_vars

-----------------------------------------------------------------------------
(* Properties.                                                             *)

\* A model that could answer the request if its plan floor and the soft
\* capabilities were ignored: enabled, keyed, wide enough, and for an image
\* one that sees and is tagged for vision.
Able(m) == /\ configs[m].enabled /\ configs[m].key
           /\ configs[m].context = 0 \/ request.tokens <= configs[m].context
           /\ NeedsVision(request) => configs[m].vision /\ "vision" \in configs[m].purposes
AbleModels == {m \in DOMAIN configs : Able(m)}
Affordable(m) == NeedsVision(request) \/ PlanRank[configs[m].plan] <= PlanRank[request.plan]
Suited(m) == /\ NeedsThinking(request) => configs[m].thinking
             /\ request.stream => configs[m].streaming

\* The best class of models that is not empty: suited and affordable ones,
\* then affordable ones, then any.  A chain must hold exactly that class.
BestClass ==
    LET affordable == {m \in AbleModels : Affordable(m)}
        suited == {m \in affordable : Suited(m)}
    IN CASE suited # {} -> suited
         [] suited = {} /\ affordable # {} -> affordable
         [] OTHER -> AbleModels

Depth(m) == CHOOSE i \in DOMAIN Pools(request) :
                /\ Pools(request)[i] \in configs[m].purposes
                /\ \A j \in 1 .. i - 1 : Pools(request)[j] \notin configs[m].purposes

\* routeChat and its two nested passes compute what they are meant to: the
\* chain is the best class that is not empty, ordered by the depth of the
\* first pool a model is tagged for, then by priority and id.  So no model is
\* in it twice, and a request is refused only when no model that is enabled
\* and has a key could hold it: filters and floors alone never refuse one.
ChainIsBestClass ==
    phase # "idle" =>
        /\ ToSet(route.chain) = BestClass
        /\ \A i, j \in DOMAIN route.chain :
              LET a == route.chain[i]
                  b == route.chain[j]
              IN i < j => \/ Depth(a) < Depth(b)
                          \/ Depth(a) = Depth(b) /\ Before(configs, a, b)

\* Whichever model ends up asked, as primary or as runtime fallback, its plan
\* floor is above the user's plan only if no model within the plan could take
\* the request, or the request carries an image.
PlanFloorKept ==
    \A i \in DOMAIN asked :
        \/ Affordable(asked[i].model)
        \/ \A m \in AbleModels : ~Affordable(m)

\* A thinking mode a paying user forced survives the fallback: while a model
\* that fits the request within the plan can think, only such models are asked.
ForcedThinkingKept ==
    /\ phase # "idle"
    /\ NeedsThinking(request)
    /\ \E m \in AbleModels : Affordable(m) /\ Suited(m)
    =>
        \A i \in DOMAIN asked : /\ configs[asked[i].model].thinking
                                /\ asked[i].wire # "disabled"
=============================================================================
