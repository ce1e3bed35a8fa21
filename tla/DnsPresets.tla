------------------------------ MODULE DnsPresets ------------------------------
(***************************************************************************)
(* The DNS settings: config/profile/dns.rs.                                *)
(*                                                                         *)
(* The settings are [current, custom, fakeip]: the name of the preset in   *)
(* use, the presets of the user, the fake-IP toggle.  A preset is [name,   *)
(* servers, rules, final].  A server is [tag, type, address]; what matters *)
(* of an address is whether it is "public", "private" or a "hostname", and *)
(* a local server has "none".  A rule is [names, sets, server]: the names  *)
(* it lists, the tags of the rule-sets it names.                           *)
(***************************************************************************)
EXTENDS Integers, Sequences, SequencesExt, FiniteSets

FakeIpTag == "fakeip"

Server(tag, type, address) == [tag |-> tag, type |-> type, address |-> address]

LocalServer == Server("local", "local", "none")

\* DnsPreset::canonical; the three public services differ in their address only.
BuiltinPresets ==
    { [name |-> "doh", servers |-> <<LocalServer, Server("remote", "https", "public")>>,
       rules |-> <<>>, final |-> "remote"],
      [name |-> "dot", servers |-> <<LocalServer, Server("remote", "tls", "public")>>,
       rules |-> <<>>, final |-> "remote"],
      [name |-> "system", servers |-> <<LocalServer>>, rules |-> <<>>, final |-> "local"] }

BuiltinNames == {preset.name : preset \in BuiltinPresets}
Tags(servers) == {servers[i].tag : i \in 1..Len(servers)}
ServerWith(servers, tag) == SelectSeq(servers, LAMBDA s : s.tag = tag)[1]
IsHostname(server) == server.address = "hostname"

HasLocalServer(servers) == \E i \in 1..Len(servers) : servers[i].type = "local"
LocalServerTag(servers) == SelectSeq(servers, LAMBDA s : s.type = "local")[1].tag

\* unused_name: base, or base with the first free suffix.
UnusedName(base, taken) ==
    IF base \notin taken THEN base
    ELSE LET suffixed(n) == base \o "-" \o ToString(n)
         IN suffixed(CHOOSE n \in 2..(Cardinality(taken) + 2) :
                       /\ suffixed(n) \notin taken
                       /\ \A m \in 2..(n - 1) : suffixed(m) \in taken)

\* server_set_diagnostics finds nothing.
PresetValid(preset) ==
    LET tags == Tags(preset.servers)
    IN /\ Len(preset.servers) = Cardinality(tags)
       /\ FakeIpTag \notin tags
       /\ preset.final \in tags
       /\ \A i \in 1..Len(preset.rules) : preset.rules[i].server \in tags \cup {FakeIpTag}
       /\ HasLocalServer(preset.servers)
            \/ \A i \in 1..Len(preset.servers) : ~IsHostname(preset.servers[i])

\* DnsConfig::preset_names
PresetNames(dns) == BuiltinNames \cup {preset.name : preset \in dns.custom}

\* DnsConfig::diagnostics finds nothing.
DnsValid(dns) ==
    /\ dns.current \in PresetNames(dns)
    /\ \A preset \in dns.custom : preset.name \notin BuiltinNames /\ PresetValid(preset)
    /\ \A p, q \in dns.custom : p.name = q.name => p = q

\* DnsConfig::active.
ActiveDns(dns) ==
    LET preset == CHOOSE preset \in BuiltinPresets \cup dns.custom : preset.name = dns.current
    IN [servers |-> preset.servers, rules |-> preset.rules, final |-> preset.final,
        fakeip |-> dns.fakeip \/ \E i \in 1..Len(preset.rules) : preset.rules[i].server = FakeIpTag,
        catchAll |-> dns.fakeip]

TakenTags(active) == Tags(active.servers) \cup (IF active.fakeip THEN {FakeIpTag} ELSE {})

-----------------------------------------------------------------------------
(* Settings of a version before presets *)

\* A server that used the tag now reserved for fake-IP gets another one, with
\* the references to it; references to the old fake-IP servers get that tag.
RenamedTag(legacy) == UnusedName(FakeIpTag, Tags(legacy.servers) \cup legacy.fakeipTags)

MigratedTag(legacy, tag) ==
    CASE tag = FakeIpTag /\ FakeIpTag \in Tags(legacy.servers) -> RenamedTag(legacy)
      [] tag \in legacy.fakeipTags -> FakeIpTag
      [] OTHER -> tag

\* DnsPreset::matches
Matches(preset, servers, final) ==
    /\ preset.final = final
    /\ Len(servers) = Len(preset.servers)
    /\ Range(preset.servers) \subseteq Range(servers)

\* migrate_legacy_servers, of [servers, fakeipTags, rules, final].
MigratedDns(legacy, dns) ==
    LET servers == [i \in 1..Len(legacy.servers) |->
                      IF legacy.servers[i].tag # FakeIpTag THEN legacy.servers[i]
                      ELSE [legacy.servers[i] EXCEPT !.tag = RenamedTag(legacy)]]
        rules == [i \in 1..Len(legacy.rules) |->
                    [legacy.rules[i] EXCEPT !.server = MigratedTag(legacy, @)]]
        final == IF legacy.final = FakeIpTag THEN MigratedTag(legacy, FakeIpTag) ELSE legacy.final
        builtin == {p \in BuiltinPresets :
                      rules = <<>> /\ Matches(p, servers, final)}
        name == UnusedName("custom", {preset.name : preset \in dns.custom})
    IN IF builtin # {} THEN [dns EXCEPT !.current = (CHOOSE p \in builtin : TRUE).name]
       ELSE [dns EXCEPT !.current = name,
                        !.custom = @ \cup {[name |-> name, servers |-> servers, rules |-> rules,
                                            final |-> final]}]
=============================================================================
