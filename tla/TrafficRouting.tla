---------------------------- MODULE TrafficRouting ----------------------------
(***************************************************************************)
(* Where traffic and name lookups go under the configuration kvn generates.*)
(*                                                                         *)
(* The user edits the rules of a mode, rule-set files arrive, fake-IP is   *)
(* switched, regions are added; every state stands for the connection that *)
(* would be made there.  How sing-box 1.14 evaluates the generated rules   *)
(* is modelled from the comments in build_route and docs/configuration.md. *)
(***************************************************************************)
EXTENDS SingBoxConfig

CONSTANTS
    Members,     \* the contents of the rule-sets: tag -> set of names or of addresses
    AddressOf,   \* what DNS answers: name -> [direct, tunnel], which may differ
    PrivateAddresses,
    RulePool,    \* the matches a rule may have: set of [kind, value]
    Sources,     \* the rule-sets routing.json declares: tag -> [kind, url]
    Setups,      \* DNS settings and profiles: set of [dns, profile]
    LegacyRoutes,\* service routes of an old version: service -> route
    MaxRules     \* how many rules the mode of the user has at most

VARIABLES
    routing,   \* routing.json
    selected,  \* settings.geo_routing.mode
    present,   \* the rule-set files on disk
    dns,       \* settings.dns
    profile    \* the profile to connect with

vars == <<routing, selected, present, dns, profile>>

Names == DOMAIN AddressOf
Addresses == {AddressOf[n].direct : n \in Names} \cup {AddressOf[n].tunnel : n \in Names}
               \cup PrivateAddresses
UserMode == "user"

Init ==
    \E setup \in Setups, final \in {"proxy", "direct"} :
      /\ routing = [sets |-> Sources,
                    modes |-> <<GlobalMode, [id |-> UserMode, final |-> final, rules |-> <<>>]>>]
      /\ selected = UserMode
      /\ present = {}
      /\ dns = setup.dns
      /\ profile = setup.profile

UserRules == IF UserMode \in ModeIds(routing) THEN ModeWith(routing, UserMode).rules ELSE <<>>
WithUserRules(rules) ==
    [routing EXCEPT !.modes =
       [i \in 1..Len(@) |-> IF @[i].id = UserMode THEN [@[i] EXCEPT !.rules = rules] ELSE @[i]]]

\* The user writes another rule into routing.json; an invalid file is refused.
AddRule ==
    \E match \in RulePool, route \in {"proxy", "direct", "block"} :
      LET rule == [kind |-> match.kind, value |-> match.value, route |-> route, required |-> FALSE]
      IN /\ UserMode \in ModeIds(routing)
         /\ RuleValid(rule, routing)
         /\ Len(UserRules) < MaxRules
         /\ \A i \in 1..Len(UserRules) : UserRules[i].value # match.value
         /\ routing' = WithUserRules(Append(UserRules, rule))
         /\ UNCHANGED <<selected, present, dns, profile>>

\* The route of the first rule is cycled in the settings menu.
CycleRoute ==
    \E forward \in BOOLEAN :
      /\ UserRules # <<>>
      /\ routing' = WithUserRules([UserRules EXCEPT ![1].route = CycledRoute(@, forward)])
      /\ UNCHANGED <<selected, present, dns, profile>>

RuleSetArrives ==
    \E tag \in RuleSetsOf(RoutePlan(selected, routing)) \ present :
      /\ present' = present \cup {tag}
      /\ UNCHANGED <<routing, selected, dns, profile>>

ToggleFakeIp ==
    /\ dns' = [dns EXCEPT !.fakeip = ~@]
    /\ UNCHANGED <<routing, selected, present, profile>>

\* A region is added and one of its modes selected.
AddRegion ==
    \E region \in DOMAIN RegionTags :
      /\ UserRules = <<>>
      /\ routing' = WithRegionModes(routing, region)
      /\ \E id \in ModeIds(routing') : selected' = id
      /\ UNCHANGED <<present, dns, profile>>

\* The routes of an old settings file are adopted at start.
Adopt ==
    /\ UserRules = <<>>
    /\ routing' = AdoptServiceRoutes(routing, LegacyRoutes)
    /\ UNCHANGED <<selected, present, dns, profile>>

\* A missing file starts over with the regions and services in use; the mode
\* that was selected may be gone with it.
StartOver ==
    /\ UserRules = <<>>
    /\ \E regions \in SUBSET DOMAIN RegionTags : routing' = NewFile(regions, DOMAIN LegacyRoutes)
    /\ UNCHANGED <<selected, present, dns, profile>>

Next == AddRule \/ CycleRoute \/ RuleSetArrives \/ ToggleFakeIp \/ AddRegion \/ Adopt \/ StartOver

Spec == Init /\ [][Next]_vars

-----------------------------------------------------------------------------
(* How sing-box evaluates the configuration *)

Plan == RoutePlan(selected, routing)
Kinds == [t \in DOMAIN routing.sets |-> routing.sets[t].kind]
Config == GenerateConfig(dns, Plan, profile, present, Kinds)

ServerOf(config, tag) == SelectSeq(config.servers, LAMBDA s : s.tag = tag)[1]

Answer(config, tag, name) ==
    IF ServerOf(config, tag).tunnelled THEN AddressOf[name].tunnel ELSE AddressOf[name].direct

InSets(values, sets) == \E t \in sets : values \cap Members[t] # {}

\* A name lookup: the server that answers it and the ones that were asked.
Lookup(config, name, query) ==
    LET listed(r) == r.names \cup r.sets = {} \/ name \in r.names \/ InSets({name}, r.sets)
        step(acc, r) ==
          CASE acc.server # NoTag \/ query \notin r.query -> acc
            [] r.do = "evaluate" ->
                 IF listed(r) THEN [acc EXCEPT !.asked = @ \cup {r.server},
                                               !.response = Answer(config, r.server, name)]
                 ELSE [acc EXCEPT !.response = "none"]
            [] r.do = "route_matched" ->
                 IF InSets({acc.response}, r.sets) THEN [acc EXCEPT !.server = r.server] ELSE acc
            [] OTHER -> IF listed(r) THEN [acc EXCEPT !.server = r.server] ELSE acc
        found == FoldLeft(step, [server |-> NoTag, asked |-> {}, response |-> "none"],
                          config.dnsRules)
        server == IF found.server = NoTag THEN config.dnsFinal ELSE found.server
    IN [server |-> server, asked |-> found.asked \cup {server}]

RuleMatches(r, name, address) ==
    CASE r.field = "every" -> TRUE
      [] r.field = "nameless" -> name = "none"
      [] r.field = "private" -> address \in PrivateAddresses
      [] r.field = "rule_set" -> InSets({name, address}, r.values)
      [] OTHER -> {name, address} \cap r.values # {}

\* A connection: `fqdn` says that its destination is a name (fake-IP), `sni`
\* is the name its first packet carries, which sniffing puts before that of
\* the destination.
Connect(config, fqdn, name, sni, address) ==
    LET step(acc, r) ==
          LET matches == RuleMatches(r, acc.name, acc.address)
          IN CASE acc.action # "none" \/ ~matches -> acc
               [] r.do = "sniff" -> [acc EXCEPT !.name = sni]
               [] r.do = "resolve" ->
                    IF fqdn THEN [acc EXCEPT !.address = Answer(config, r.server, name),
                                             !.asked = @ \cup {r.server}] ELSE acc
               [] OTHER -> [acc EXCEPT !.action = r.action]
        end == FoldLeft(step, [name |-> IF fqdn THEN name ELSE "none", address |-> address,
                               asked |-> {}, action |-> "none"], config.rules)
        action == IF end.action = "none" THEN config.final ELSE end.action
        late == action = "direct" /\ end.address = "none"
    IN [action |-> action,
        address |-> IF late THEN Answer(config, config.defaultResolver, name) ELSE end.address,
        asked |-> end.asked \cup (IF late THEN {config.defaultResolver} ELSE {})]

\* An application looks a name up and connects to what it was given; its first
\* packet carries that name, or another one (ECH, domain fronting).
VisitAs(config, name, sni) ==
    LET lookup == Lookup(config, name, "A")
        fqdn == lookup.server = FakeIpTag
        connection == Connect(config, fqdn, name, sni,
                              IF fqdn THEN "none" ELSE Answer(config, lookup.server, name))
    IN [connection EXCEPT !.asked = @ \cup lookup.asked]

Visit(config, name) == VisitAs(config, name, name)

-----------------------------------------------------------------------------
(* Properties *)

EntryMatches(entry, name, address) ==
    CASE IsRuleSet(entry) -> entry.value \in present /\ InSets({name, address}, {entry.value})
      [] entry.kind = "private" -> address \in PrivateAddresses
      [] OTHER -> entry.value \in {name, address}

Deciding(name, address) ==
    {i \in 1..Len(Plan.entries) : EntryMatches(Plan.entries[i], name, address)}

PlannedAction(name, address) ==
    LET deciding == Deciding(name, address)
    IN IF deciding = {} THEN Plan.final ELSE Plan.entries[Min(deciding)].action

\* The address the rules see of a name: with fake-IP the final server's answer.
SeenAddress(config, name) ==
    LET server == Lookup(config, name, "A").server
    IN Answer(config, IF server = FakeIpTag THEN config.dnsFinal ELSE server, name)

\* The first rule of the mode that matches a connection decides its route
\* ("rules apply in the order of the file, and the first rule that matches a
\* connection decides"), whatever build_route puts between the rules, with
\* and without fake-IP, for names and for bare addresses.  With fake-IP it is
\* the name that was looked up that counts, also when the first packet carries
\* another ("must not move a connection to another rule").
RouteAsPlanned ==
    LET config == Config
        known(name, sni) == IF Lookup(config, name, "A").server = FakeIpTag THEN name ELSE sni
    IN /\ \A name, sni \in Names :
            VisitAs(config, name, sni).action
              = PlannedAction(known(name, sni), SeenAddress(config, name))
       /\ \A address \in Addresses :
            Connect(config, FALSE, "none", "none", address).action = PlannedAction("none", address)

\* No rule of the DNS preset is about the name, and no address rule decides it.
LeftToKvn(config, name) ==
    LET deciding == Deciding(name, SeenAddress(config, name))
        rules == ActiveDnsRules(ActiveDns(dns), Plan, present)
    IN /\ deciding # {} => Plan.entries[Min(deciding)].kind \in {"geosite", "domain"}
       /\ \A i \in 1..Len(rules) : rules[i].server = FakeIpTag

Outside(config) == {s.tag : s \in {t \in Range(config.servers) : ~t.tunnelled /\ t.type # "fakeip"}}

\* While the final DNS server is tunnelled, a name follows its route: one sent
\* directly is dialled at the address a direct lookup gave, so that a content
\* network answers for the real location, and one that is not sent directly
\* is never asked from a server outside the tunnel.
LookupFollowsRoute ==
    LET config == Config
    IN HasBootstrap(ActiveDns(dns), Plan, profile) =>
         \A name \in Names : LeftToKvn(config, name) =>
           LET visit == Visit(config, name)
           IN IF visit.action = "direct" THEN visit.address = AddressOf[name].direct
              ELSE visit.asked \cap Outside(config) = {}

\* With fake-IP, a name a rule sends through the tunnel is asked from a server
\* outside it only when rule_order_dns_warning names that rule.
LeaksAreWarned ==
    LET config == Config
    IN dns.fakeip =>
         \A name \in Names :
           LET visit == Visit(config, name)
           IN /\ LeftToKvn(config, name)
              /\ Deciding(name, SeenAddress(config, name)) # {}
              /\ visit.action # "direct"
              /\ visit.asked \cap Outside(config) # {}
              => \E m \in RuleOrderDnsWarning(dns, Plan, profile, present) :
                   RuleMatches(m, name, "none")

\* The servers that must answer before a server can be reached.
ResolvedThrough(config, tag) ==
    LET next(tags) == tags \cup ({ServerOf(config, t).resolver : t \in tags} \ {NoTag})
    IN FoldLeft(LAMBDA tags, s : next(tags), {ServerOf(config, tag).resolver} \ {NoTag},
                config.servers)

\* Every server, rule-set and resolver the configuration names is defined once,
\* no server waits for itself, and what is needed before the tunnel is up (the
\* VPN server's own name, its ECH configuration) never waits for the tunnel.
ResolversEnd ==
    LET config == Config
        tags == {s.tag : s \in Range(config.servers)}
        early == {config.defaultResolver}
                   \cup (IF profile.echName = "" THEN {}
                         ELSE {Lookup(config, profile.echName, "HTTPS").server})
    IN /\ Cardinality(tags) = Len(config.servers)
       /\ RoutingValid(routing)
       /\ \A r \in Range(config.dnsRules) : r.server \in tags /\ r.sets \subseteq config.ruleSets
       /\ \A r \in Range(config.rules) : r.server \in tags \cup {NoTag}
       /\ \A t \in tags : ResolvedThrough(config, t) \subseteq tags \ {t}
       /\ \A t \in early : \A u \in {t} \cup ResolvedThrough(config, t) : ~ServerOf(config, u).tunnelled
=============================================================================
