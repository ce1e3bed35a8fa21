----------------------------- MODULE RoutingModes -----------------------------
(***************************************************************************)
(* routing.json and the plan a mode stands for: config/routing.rs,         *)
(* config/profile/routing.rs and route_plan.rs.                            *)
(*                                                                         *)
(* A routing configuration is [sets, modes]: `sets` maps the tags of the   *)
(* declared rule-sets to [kind, url], `modes` is the list of modes, each   *)
(* [id, final, rules].  A rule is [kind, value, route, required] with kind *)
(* "rule_set", "domain", "ip" or "private".  Names, tags and addresses are *)
(* atoms: what makes one well-formed is the set it is taken from.          *)
(***************************************************************************)
EXTENDS Integers, Sequences, SequencesExt

CONSTANTS
    BuiltinSets,   \* crate::geo::RULE_SETS: tag -> [kind, url]
    RegionTags,    \* crate::geo::region_rule_set_tags: region -> sequence of tags
    ServiceSets,   \* LEGACY_SERVICE_RULE_SETS: service -> sequence of tags
    ServiceSource  \* the sources of those tags: tag -> [kind, url]

GlobalId == "global"

-----------------------------------------------------------------------------
(* Modes *)

\* RuleRoute::cycled, forwards and backwards.
RouteCycle == <<"proxy", "direct", "block", "disabled">>

CycledRoute(route, forward) ==
    LET i == CHOOSE i \in 1..4 : RouteCycle[i] = route
    IN RouteCycle[((i - 1 + (IF forward THEN 1 ELSE 3)) % 4) + 1]

SetRule(tag, route, required) ==
    [kind |-> "rule_set", value |-> tag, route |-> route, required |-> required]

PrivateDirect == [kind |-> "private", value |-> "private", route |-> "direct", required |-> FALSE]

GlobalMode == [id |-> GlobalId, final |-> "proxy", rules |-> <<>>]

\* region_modes: private networks first, then the lists of the region.
RegionMode(region, kind, to, final) ==
    [id |-> kind \o "_" \o region, final |-> final,
     rules |-> <<PrivateDirect>> \o
               [i \in 1..Len(RegionTags[region]) |-> SetRule(RegionTags[region][i], to, TRUE)]]

RegionModes(region) ==
    IF RegionTags[region] = <<>> THEN <<>>
    ELSE <<RegionMode(region, "bypass", "direct", "proxy"),
           RegionMode(region, "only", "proxy", "direct")>>

ModeIds(routing) == {routing.modes[i].id : i \in 1..Len(routing.modes)}
ModeWith(routing, id) == SelectSeq(routing.modes, LAMBDA m : m.id = id)[1]

\* GeoRouting::mode: the selected mode, or Global when the file has none.
SelectedMode(selected, routing) ==
    IF selected \in ModeIds(routing) THEN selected ELSE GlobalId

-----------------------------------------------------------------------------
(* Checks *)

RuleValid(rule, routing) == rule.kind = "rule_set" => rule.value \in DOMAIN routing.sets

\* mode_diagnostics finds nothing.
ModesValid(routing) ==
    LET modes == routing.modes
    IN /\ \A i, j \in 1..Len(modes) : modes[i].id = modes[j].id => i = j
       /\ GlobalId \in ModeIds(routing)
       /\ \A i \in 1..Len(modes) :
            /\ modes[i].id = GlobalId =>
                 /\ modes[i].final = "proxy"
                 /\ \A k \in 1..Len(modes[i].rules) : ~modes[i].rules[k].required
            /\ \A k \in 1..Len(modes[i].rules) : RuleValid(modes[i].rules[k], routing)

\* RoutingConfig::diagnostics finds nothing.
RoutingValid(routing) ==
    /\ \A s, t \in DOMAIN routing.sets : routing.sets[s].url = routing.sets[t].url => s = t
    /\ \A t \in DOMAIN routing.sets \cap DOMAIN BuiltinSets :
         routing.sets[t].kind = BuiltinSets[t].kind
    /\ ModesValid(routing)

-----------------------------------------------------------------------------
(* What kvn adds to the file itself *)

\* add_region_modes: all of it, or nothing when the result would be invalid.
WithRegionModes(routing, region) ==
    LET missing == SelectSeq(RegionModes(region), LAMBDA m : m.id \notin ModeIds(routing))
        extended == [sets |-> routing.sets @@ Restrict(BuiltinSets, Range(RegionTags[region])),
                     modes |-> routing.modes \o missing]
    IN IF RoutingValid(extended) THEN extended ELSE routing

\* for_new_file: the modes of the regions in use, the sources of the services.
NewFile(regions, services) ==
    LET base == FoldLeft(WithRegionModes, [sets |-> [t \in {} |-> t], modes |-> <<GlobalMode>>],
                         SetToSeq(regions))
        tags == UNION {Range(ServiceSets[s]) : s \in services}
    IN [base EXCEPT !.sets = Restrict(ServiceSource, tags) @@ base.sets]

\* adopt_service_routes: the rules of the old service routes go before the
\* rules of every mode, name lists before address lists, without replacing a
\* rule a mode already has for the same rule-set.
AdoptServiceRoutes(routing, routes) ==
    LET rulesOf(service) == [i \in 1..Len(ServiceSets[service]) |->
                               SetRule(ServiceSets[service][i], routes[service], FALSE)]
        all == FlattenSeq([i \in 1..Len(SetToSeq(DOMAIN routes)) |->
                             rulesOf(SetToSeq(DOMAIN routes)[i])])
        sources == ServiceSource
        ordered == SelectSeq(all, LAMBDA r : sources[r.value].kind = "geosite")
                     \o SelectSeq(all, LAMBDA r : sources[r.value].kind # "geosite")
        tags == {all[i].value : i \in 1..Len(all)}
        adopt(mode) ==
          [mode EXCEPT !.rules =
             SelectSeq(ordered, LAMBDA r : \A k \in 1..Len(mode.rules) :
                         mode.rules[k].kind # "rule_set" \/ mode.rules[k].value # r.value) \o @]
    IN [sets |-> routing.sets @@ Restrict(sources, tags),
        modes |-> [i \in 1..Len(routing.modes) |-> adopt(routing.modes[i])]]

-----------------------------------------------------------------------------
(* The plan of a mode *)

ActionOf(route) == IF route = "block" THEN "reject" ELSE route

\* for_definition: a disabled rule, and one whose rule-set is not declared,
\* are no part of the plan.
PlanFor(mode, routing) ==
    LET kept == SelectSeq(mode.rules,
                          LAMBDA r : r.route # "disabled" /\ RuleValid(r, routing))
        entry(r) == [kind |-> IF r.kind = "rule_set" THEN routing.sets[r.value].kind ELSE r.kind,
                     value |-> r.value, action |-> ActionOf(r.route), required |-> r.required]
    IN [entries |-> [i \in 1..Len(kept) |-> entry(kept[i])],
        final |-> mode.final,
        fallback |-> IF mode.final = "proxy" THEN "global" ELSE "direct"]

EverythingThroughProxy == [entries |-> <<>>, final |-> "proxy", fallback |-> "global"]

RoutePlan(selected, routing) ==
    LET id == SelectedMode(selected, routing)
    IN IF id \in ModeIds(routing) THEN PlanFor(ModeWith(routing, id), routing)
       ELSE EverythingThroughProxy

IsRuleSet(entry) == entry.kind \in {"geosite", "geoip"}

RuleSetsOf(plan) == {plan.entries[i].value : i \in {k \in 1..Len(plan.entries) :
                                                      IsRuleSet(plan.entries[k])}}
RequiredRuleSets(plan) ==
    {plan.entries[i].value : i \in {k \in 1..Len(plan.entries) :
                                      IsRuleSet(plan.entries[k]) /\ plan.entries[k].required}}
=============================================================================
