---------------------------- MODULE SingBoxConfig -----------------------------
(***************************************************************************)
(* The DNS and the route sections kvn generates for sing-box from a route  *)
(* plan, the rule-set files on disk and the DNS settings: singbox/config.rs.*)
(*                                                                         *)
(* A profile matters here as [udp, echName]: whether its protocol carries  *)
(* UDP and the name whose ECH configuration is looked up in DNS ("" for    *)
(* none).  Log, inbound and cache sections carry no decision and are left  *)
(* out, as are the fixed rules for IPv6, port 53 and the TUN network.      *)
(***************************************************************************)
EXTENDS RoutingModes, DnsPresets

NoTag == "no server"

-----------------------------------------------------------------------------
(* Which DNS servers go through the tunnel *)

IsUdpServer(server) == server.type \in {"udp", "quic"}

\* is_public_behind_proxy: a hostname counts as public.
PublicBehindProxy(server, plan) == plan.final = "proxy" /\ server.address \in {"public", "hostname"}

IsTunnelled(server, plan, profile) ==
    PublicBehindProxy(server, plan) /\ (profile.udp \/ ~IsUdpServer(server))

\* bootstrap: a direct copy of the final server when that one is tunnelled.
HasBootstrap(active, plan, profile) ==
    IsTunnelled(ServerWith(active.servers, active.final), plan, profile)

BootstrapTag(active, plan, profile) ==
    IF HasBootstrap(active, plan, profile) THEN UnusedName("bootstrap", TakenTags(active))
    ELSE active.final

\* Seeded fault: the bootstrap server is asked for its own address.
ResolverFor_Itself(active, server, tag) == IF IsHostname(server) THEN tag ELSE NoTag

ResolverFor(active, server, tag) ==
    CASE ~IsHostname(server) -> NoTag
      [] server.tag # tag -> tag
      [] HasLocalServer(active.servers) -> LocalServerTag(active.servers)
      [] OTHER -> NoTag

\* build_dns_server, hostname_resolver.
DnsServer(active, server, plan, profile) ==
    [tag |-> server.tag, type |-> server.type,
     resolver |-> ResolverFor(active, server, BootstrapTag(active, plan, profile)),
     tunnelled |-> IsTunnelled(server, plan, profile)]

BootstrapServer(active, plan, profile) ==
    LET final == ServerWith(active.servers, active.final)
    IN [tag |-> BootstrapTag(active, plan, profile), type |-> final.type,
        resolver |-> IF IsHostname(final) /\ HasLocalServer(active.servers)
                     THEN LocalServerTag(active.servers) ELSE NoTag,
        tunnelled |-> FALSE]

FakeIpServer == [tag |-> FakeIpTag, type |-> "fakeip", resolver |-> NoTag, tunnelled |-> FALSE]

DnsServers(active, plan, profile) ==
    [i \in 1..Len(active.servers) |-> DnsServer(active, active.servers[i], plan, profile)]
    \o (IF active.fakeip THEN <<FakeIpServer>> ELSE <<>>)
    \o (IF HasBootstrap(active, plan, profile) THEN <<BootstrapServer(active, plan, profile)>>
        ELSE <<>>)

-----------------------------------------------------------------------------
(* Route matches *)

\* RouteMatch::of: a name rule needs the name of the destination, an address
\* rule its address, `private` whatever there is.
RouteMatchOf(entry) ==
    [field |-> CASE IsRuleSet(entry) -> "rule_set" [] OTHER -> entry.kind,
     values |-> {entry.value},
     needs |-> CASE entry.kind \in {"geosite", "domain"} -> "name"
                 [] entry.kind \in {"geoip", "ip"} -> "address"
                 [] OTHER -> "any",
     action |-> entry.action]

\* Seeded fault: neighbours are merged whatever they do.
Absorbs_AnyAction(last, next) == last.field \in {"domain", "ip"} /\ last.field = next.field

Absorbs(last, next) ==
    /\ last.field \in {"domain", "ip"}
    /\ last.field = next.field
    /\ last.action = next.action

\* route_matches: entries without their file are left out, neighbours merged.
RouteMatches(plan, present) ==
    LET kept == SelectSeq(plan.entries, LAMBDA e : IsRuleSet(e) => e.value \in present)
        add(matches, entry) ==
          LET next == RouteMatchOf(entry)
              n == Len(matches)
          IN IF n > 0 /\ Absorbs(matches[n], next)
             THEN [matches EXCEPT ![n].values = @ \cup next.values]
             ELSE Append(matches, next)
    IN FoldLeft(add, <<>>, kept)

\* rule_set_definitions.
RuleSetDefinitions(plan, present) == RuleSetsOf(plan) \cap present

-----------------------------------------------------------------------------
(* DNS rules *)

\* A generated rule is [do, names, sets, query, server]: `do` is "route",
\* "evaluate" (ask the server and go on) or "route_matched" (route when the
\* evaluated answer is in one of the address lists `sets`); names and sets
\* are both empty when the rule matches every name.
DnsRuleValue(do, names, sets, query, server) ==
    [do |-> do, names |-> names, sets |-> sets, query |-> query, server |-> server]

EchLookupRules(profile, tag) ==
    IF profile.echName = "" THEN <<>>
    ELSE <<DnsRuleValue("route", {profile.echName}, {}, {"HTTPS"}, tag)>>

ActiveDnsRules(active, plan, present) ==
    SelectSeq(active.rules, LAMBDA r : r.sets \subseteq RuleSetDefinitions(plan, present))

\* dns_rule_values: an address list is checked on the final server's answer.
DnsRuleValues(rule, final, kinds) ==
    LET ipSets == {t \in rule.sets : kinds[t] = "geoip"}
        names == rule.sets \ ipSets
    IN IF ipSets = {} THEN <<DnsRuleValue("route", rule.names, names, {"A", "HTTPS"}, rule.server)>>
       ELSE <<DnsRuleValue("evaluate", rule.names, names, {"A"}, final),
              DnsRuleValue("route_matched", {}, ipSets, {"A"}, rule.server)>>

FakeIpCatchAll(active, rules) ==
    IF active.catchAll /\ \A i \in 1..Len(rules) : rules[i].server # FakeIpTag
    THEN <<DnsRuleValue("route", {}, {}, {"A"}, FakeIpTag)>> ELSE <<>>

\* Seeded fault: only the direct rules are mirrored, not the ones above them.
DirectDestinationRules_OnlyDirect(matches, active, plan, profile) ==
    LET direct == SelectSeq(matches, LAMBDA m : m.needs = "name" /\ m.action = "direct")
    IN IF ~HasBootstrap(active, plan, profile) THEN <<>>
       ELSE [i \in 1..Len(direct) |->
               DnsRuleValue("route", IF direct[i].field = "domain" THEN direct[i].values ELSE {},
                            IF direct[i].field = "rule_set" THEN direct[i].values ELSE {},
                            {"A", "HTTPS"}, BootstrapTag(active, plan, profile))]

\* direct_destination_rules: the name rules down to the last direct one, so
\* that a name sent directly is asked from the direct copy.
DirectDestinationRules(matches, active, plan, profile) ==
    LET named == SelectSeq(matches, LAMBDA m : m.needs = "name")
        direct == {i \in 1..Len(named) : named[i].action = "direct"}
        last == IF direct = {} THEN 0 ELSE Max(direct)
        rule(m) == DnsRuleValue("route", IF m.field = "domain" THEN m.values ELSE {},
                                IF m.field = "rule_set" THEN m.values ELSE {}, {"A", "HTTPS"},
                                IF m.action = "direct" THEN BootstrapTag(active, plan, profile)
                                ELSE active.final)
    IN IF ~HasBootstrap(active, plan, profile) THEN <<>>
       ELSE [i \in 1..last |-> rule(named[i])]

BuildDnsRules(active, plan, profile, present, kinds) ==
    LET rules == ActiveDnsRules(active, plan, present)
    IN EchLookupRules(profile, BootstrapTag(active, plan, profile))
       \o FlattenSeq([i \in 1..Len(rules) |-> DnsRuleValues(rules[i], active.final, kinds)])
       \o FakeIpCatchAll(active, rules)
       \o DirectDestinationRules(RouteMatches(plan, present), active, plan, profile)

-----------------------------------------------------------------------------
(* Route rules *)

\* A generated rule is a match with `do`: "sniff" and "resolve" go on, "route"
\* decides.  The field of a rule without condition is "every".
RouteRule(do, match, server) ==
    [do |-> do, field |-> match.field, values |-> match.values, action |-> match.action,
     server |-> server]

Unconditional == [field |-> "every", values |-> {}, needs |-> "any", action |-> "none"]

\* Seeded fault: a connection is sniffed whatever its destination.
Nameless_Any == Unconditional

\* An inverted domain_regex: the destination has no name yet.
Nameless == [Unconditional EXCEPT !.field = "nameless"]

\* build_route: sniff before the first name rule a destination without a name,
\* resolve before the first address rule, and resolve a name sent directly
\* below that once more.
BuildRoute(matches, active, plan, profile) ==
    LET boot == BootstrapTag(active, plan, profile)
        add(acc, m) ==
          LET sniff == m.needs = "name" /\ ~acc.sniffed
              resolve == m.needs = "address" /\ ~acc.resolved
              again == /\ acc.resolved /\ m.needs = "name" /\ m.action = "direct"
                       /\ boot # active.final
          IN [sniffed |-> acc.sniffed \/ sniff,
              resolved |-> acc.resolved \/ resolve,
              rules |-> acc.rules
                \o (IF sniff THEN <<RouteRule("sniff", Nameless, NoTag)>> ELSE <<>>)
                \o (IF resolve THEN <<RouteRule("resolve", Unconditional, active.final)>> ELSE <<>>)
                \o (IF again THEN <<RouteRule("resolve", m, boot)>> ELSE <<>>)
                \o <<RouteRule("route", m, NoTag)>>]
    IN FoldLeft(add, [sniffed |-> FALSE, resolved |-> FALSE, rules |-> <<>>], matches).rules

LacksRuleSets(plan, present) == RequiredRuleSets(plan) \ present # {}

\* generate_config and build_config.
GenerateConfig(dns, plan, profile, present, kinds) ==
    LET active == ActiveDns(dns)
    IN [servers |-> DnsServers(active, plan, profile),
        dnsRules |-> BuildDnsRules(active, plan, profile, present, kinds),
        dnsFinal |-> active.final,
        defaultResolver |-> BootstrapTag(active, plan, profile),
        rules |-> BuildRoute(RouteMatches(plan, present), active, plan, profile),
        final |-> plan.final,
        ruleSets |-> RuleSetDefinitions(plan, present)]

-----------------------------------------------------------------------------
(* Warnings *)

\* dns_bypass_warning: the servers a profile without UDP keeps out of the tunnel.
DnsBypassWarning(dns, plan, profile) ==
    {server \in Range(ActiveDns(dns).servers) :
       ~profile.udp /\ IsUdpServer(server) /\ PublicBehindProxy(server, plan)}

EchDnsWarning(dns, profile) ==
    LET active == ActiveDns(dns)
    IN profile.echName # "" /\
       ServerWith(active.servers, active.final).type \notin {"tls", "https", "quic"}

\* Seeded fault: rules that block are not looked at.
RuleOrderDnsWarning_Proxied(dns, plan, profile, present) ==
    LET active == ActiveDns(dns)
        matches == RouteMatches(plan, present)
        addressRules == {i \in 1..Len(matches) : matches[i].needs = "address"}
    IN IF ~active.catchAll \/ HasBootstrap(active, plan, profile) \/ addressRules = {} THEN {}
       ELSE {matches[i] : i \in {k \in Min(addressRules)..Len(matches) :
                                   matches[k].needs = "name" /\ matches[k].action = "proxy"}}

\* rule_order_dns_warning: the matches it names.
RuleOrderDnsWarning(dns, plan, profile, present) ==
    LET active == ActiveDns(dns)
        matches == RouteMatches(plan, present)
        addressRules == {i \in 1..Len(matches) : matches[i].needs = "address"}
    IN IF ~active.catchAll \/ HasBootstrap(active, plan, profile) \/ addressRules = {} THEN {}
       ELSE {matches[i] : i \in {k \in Min(addressRules)..Len(matches) :
                                   matches[k].needs = "name" /\ matches[k].action # "direct"}}
=============================================================================
