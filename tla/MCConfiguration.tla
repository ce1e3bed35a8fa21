--------------------------- MODULE MCConfiguration ---------------------------
(***************************************************************************)
(* What the configuration of the user becomes, each component on its own:  *)
(* a behaviour is one of the component that `part` names.  The components  *)
(* share the variables v1 to v11; the ones a component does not need keep  *)
(* Unused.                                                                 *)
(***************************************************************************)
EXTENDS Integers, Sequences, TLC

VARIABLES part, v1, v2, v3, v4, v5, v6, v7, v8, v9, v10, v11

vars == <<part, v1, v2, v3, v4, v5, v6, v7, v8, v9, v10, v11>>

Unused == "unused"

FM == INSTANCE ShareLinks
Dns == INSTANCE DnsPresets

-----------------------------------------------------------------------------
(* Links of every scheme, with the parameters that scheme knows and some   *)
(* it does not.                                                            *)

Login(scheme, user, pass, port) ==
    [scheme |-> scheme, user |-> user, pass |-> pass, port |-> port]

Logins ==
    {Login(scheme, "u", FM!Absent, "1") : scheme \in {"vless", "vmess", "trojan", "hysteria2",
        "socks4", "naive+https", "ssh", "anytls", "shadowtls"}}
    \cup {Login(scheme, "u", "p", "") : scheme \in {"tuic", "https", "naive+quic", "ssh"}}
    \cup {Login("ss", "gcm", "p", "1"), Login("ss", "rc4", "p", "1"),
          Login("socks5", "u", "p", "1"), Login("http", "", FM!Absent, "1"),
          Login("trojan", "", FM!Absent, "1")}
    \* Names and passwords that need encoding, and passwords without a name.
    \cup {Login(scheme, "a%40b", FM!Absent, "1") : scheme \in {"vless", "vmess", "ssh", "shadowtls"}}
    \cup {Login(scheme, user, "a%40b", "1") :
              user \in {"", "a%40b"}, scheme \in {"socks5", "http", "naive+quic", "ssh"}}
    \cup {Login("ss", "2022", "a%40b", "1"), Login("tuic", "u", "a%40b", "1")}

Choices(key, values) == {<<key, value>> : value \in values}

TlsParameters ==
    {<<"sni", "s">>, <<"host", "h">>, <<"pbk", "k">>, <<"sid", "i">>, <<"allowInsecure", "1">>,
     <<"insecure", "0">>, <<"disable_sni", "1">>, <<"alpn", "h2">>, <<"fp", "f">>, <<"vcn", "s">>}
    \cup Choices("ech", {"https://dns", "pem"})

TransportParameters ==
    Choices("type", {"tcp", "ws", "h2", "grpc", "quic", "kcp", "xhttp"})
    \cup Choices("headerType", {"none", "http", "srtp"})
    \cup Choices("path", {"/ws", "/ws?ed"})
    \cup {<<"serviceName", "svc">>, <<"mode", "gun">>, <<"quicSecurity", "aes">>}

SecurityParameters == Choices("security", {"tls", "reality", "none", "xtls"})

Parameters ==
    [vless |-> TlsParameters \cup TransportParameters \cup SecurityParameters
                 \cup {<<"flow", "vision">>, <<"encryption", "pq">>},
     vmess |-> TlsParameters \cup TransportParameters \cup SecurityParameters
                 \cup {<<"scy", "gcm">>},
     base64 |-> (TlsParameters \cup {<<"scy", "gcm">>, <<"mode", "gun">>}
                   \cup Choices("net", {"tcp", "ws", "h2", "grpc", "quic", "mkcp", "xhttp"})
                   \cup Choices("type", {"none", "http", "srtp"})
                   \cup Choices("path", {"/ws", "/ws?ed"})
                   \cup Choices("tls", {"tls", "reality", "none", ""})),
     trojan |-> TlsParameters \cup TransportParameters \cup SecurityParameters,
     hysteria2 |-> TlsParameters \cup Choices("obfs", {"salamander", "gecko", "other"})
                     \cup Choices("packetSize", {<<1, 9>>, <<9, 1>>, <<1, 4096>>})
                     \cup {<<"obfs-password", "obfs">>, <<"mport", "7-9">>, <<"up", 7>>},
     tuic |-> TlsParameters \cup {<<"congestion_control", "cubic">>, <<"zero_rtt_handshake", "1">>},
     anytls |-> TlsParameters,
     shadowtls |-> TlsParameters \cup {<<"ss-password", "w">>, <<"ss-method", "gcm">>,
                                       <<"version", "2">>},
     ss |-> {<<"plugin", "x">>},
     ssh |-> {<<"password", "w">>, <<"private_key_path", "x">>},
     socks5 |-> {<<"tag", "x">>}, socks4 |-> {<<"tag", "x">>},
     http |-> {<<"tag", "x">>}, https |-> {<<"sni", "s">>}]
    @@ [scheme \in {"naive+https", "naive+quic"} |->
          {<<"peer", "s">>, <<"sni", "t">>, <<"insecure", "1">>, <<"ech", "pem">>,
           <<"ech", "https://dns">>}]

Mask(kind, ports, range) == [kind |-> kind, ok |-> TRUE, ports |-> ports, range |-> range]

Masks ==
    {[FM!NoMask EXCEPT !.tcp = <<"fragment tlshello">>],
     [FM!NoMask EXCEPT !.udp = <<Mask("salamander", FM!Absent, FM!NoRange)>>],
     [FM!NoMask EXCEPT !.udp = <<Mask("salamander", FM!Absent, <<5, 9>>),
                              Mask("udphop", "1-5", <<7, 9>>)>>],
     [FM!NoMask EXCEPT !.udp = <<Mask("udphop", "1-5", <<30, 30>>)>>, !.quic.tuning = TRUE],
     [FM!NoMask EXCEPT !.udp = <<Mask("noise", FM!Absent, FM!NoRange)>>],
     [FM!NoMask EXCEPT !.quic = [@ EXCEPT !.hop = TRUE, !.ports = "1-5", !.range = <<6, 6>>,
                                       !.up = 4]]}

Links == INSTANCE LinkSharing WITH
    MaxParams <- 3, link <- v1, profile <- v2, shared <- v3, stage <- v4

-----------------------------------------------------------------------------
(* Two names, one of them with another address abroad, one list of names   *)
(* and one of addresses, and DNS settings of every kind.                   *)

Source(kind, url) == [kind |-> kind, url |-> url]

BuiltinSets == ("gs" :> Source("geosite", "1")) @@ ("gi" :> Source("geoip", "2"))
RegionTags == [ru |-> <<"gs", "gi">>, world |-> <<>>]
ServiceSets == [video |-> <<"vi", "vs">>]
ServiceSource == ("vi" :> Source("geoip", "3")) @@ ("vs" :> Source("geosite", "4"))

Members == [gs |-> {"n1"}, gi |-> {"a1", "a2"}, vi |-> {"b1"}, vs |-> {"n2"}]
AddressOf == [n1 |-> [direct |-> "a1", tunnel |-> "b1"], n2 |-> [direct |-> "a2", tunnel |-> "a2"]]
PrivateAddresses == {"lan"}

RulePool ==
    {[kind |-> "rule_set", value |-> "gs"], [kind |-> "rule_set", value |-> "gi"],
     [kind |-> "domain", value |-> "n1"], [kind |-> "domain", value |-> "n2"],
     [kind |-> "ip", value |-> "b1"], [kind |-> "private", value |-> "private"]}

Builtin(name) == [current |-> name, custom |-> {}, fakeip |-> FALSE]

\* A router at a private address and a rule for a list of addresses.
Custom ==
    [current |-> "mine", fakeip |-> TRUE,
     custom |-> {[name |-> "mine", final |-> "doq",
                  servers |-> <<Dns!Server("bootstrap", "local", "none"), Dns!Server("lan", "udp", "private"),
                                Dns!Server("doq", "quic", "hostname")>>,
                  rules |-> <<[names |-> {}, sets |-> {"gi"}, server |-> "lan"]>>]}]

\* Settings of an old version whose server had the tag of the fake-IP server.
Legacy ==
    Dns!MigratedDns([servers |-> <<Dns!LocalServer, Dns!Server("fakeip", "tls", "hostname")>>,
                 fakeipTags |-> {"fakeip-2"},
                 rules |-> <<[names |-> {"n2"}, sets |-> {"gs"}, server |-> "fakeip-2"]>>,
                 final |-> "fakeip"],
                [current |-> "", custom |-> {}, fakeip |-> FALSE])

Setup(d, udp, echName) == [dns |-> d, profile |-> [udp |-> udp, echName |-> echName]]

Setups == {Setup(Builtin("doh"), TRUE, ""), Setup(Builtin("system"), TRUE, ""),
             Setup(Custom, TRUE, "n2"), Setup(Custom, FALSE, ""), Setup(Legacy, TRUE, "n1")}

LegacyRoutes == [video |-> "direct"]

Routing == INSTANCE TrafficRouting WITH
    Sources <- BuiltinSets, MaxRules <- 2,
    routing <- v1, selected <- v2, present <- v3, dns <- v4, profile <- v5

-----------------------------------------------------------------------------
(* Edits, settings pages and migrations.                                   *)

\* One recovery file of each kind is kept, and three changes are made.
Edits == INSTANCE RoutingEdits WITH
    Retention <- 1, MaxChanges <- 3,
    disk <- v1, routing <- v2, broken <- v3, draft <- v4, view <- v5, loaded <- v6,
    session <- v7, recovery <- v8, archive <- v9, retained <- v10, changes <- v11

\* Every page, alone or beside one that shares state with it.
Settings == INSTANCE SettingsMenu WITH
    Scopes <- {{"connection"}, {"interface", "routing"}, {"dns", "routing"}},
    scope <- v1, saved <- v2, modes <- v3, presets <- v4, autoPending <- v5,
    killPending <- v6, page <- v7, help <- v8, row <- v9, draft <- v10, workers <- v11

\* One region and two commands, each of which may meet a daemon that starts.
Files == INSTANCE StoredFiles WITH
    Regions <- {"ru"}, MaxCommands <- 2,
    profiles <- v1, routing <- v2, archived <- v3, start <- v4, command <- v5,
    commands <- v6, overlapped <- v7

\* Documents a user may write: one good document of each kind with some of
\* its fields missing, misspelt, of another type or at a limit.
Nothing == <<"nothing", "">>
Str(text) == <<"string", text>>
Num(halves) == <<"number", halves>>
Bool(b) == <<"boolean", b>>
Empty == <<"object", <<>> >>
Obj(names, values) ==
    <<"object", SelectSeq([i \in DOMAIN names |-> <<names[i], values[i]>>], LAMBDA m : m[2] # Nothing)>>
Arr(items) == <<"array", items>>

ProfileOf(id, name, port, protocol, reality, uuid, version) ==
    Obj(<<"id", "name", "port", "protocol", "reality", "uuid", "version">>,
        <<id, name, port, protocol, reality, uuid, version>>)

UserProfiles ==
    {ProfileOf(id, name, port, protocol, Nothing, Str("uuid"), Nothing) :
        id \in {Nothing, Str("uuid"), Str("x")}, name \in {Str("n"), Str(" "), Num(2)},
        port \in {Num(2), Num(0), Num(3)}, protocol \in {Str("vless")}}
    \cup {ProfileOf(Nothing, Str("n"), Num(2), protocol, reality, uuid, version) :
        protocol \in {Nothing, Str("vless"), Str("socks"), Str("wireguard")},
        reality \in {Nothing, <<"null", "">>, Empty}, uuid \in {Nothing, Str("uuid"), Str("")},
        version \in {Nothing, Str("5"), Num(10)}}

UserSettings ==
    LET Logs(level, app) ==
            Obj(<<"level", "line_retention">>, <<level, Obj(<<"app">>, <<app>>)>>)
        Probe(enabled, url) == Obj(<<"enabled", "url">>, <<enabled, url>>)
        Of(probe, logs, theme, tun) ==
            Obj(<<"connectivity_probe", "logs", "theme", "tun_interface">>, <<probe, logs, theme, tun>>)
    IN  {Of(Nothing, Logs(level, app), theme, Nothing) :
            level \in {Nothing, Str("info"), Str("loud")}, theme \in {Nothing, Str("none")},
            app \in {Num(2000), Num(1998), Num(-2), Num(2000000000), Str("x")}}
        \cup {Of(probe, Nothing, Str("nord"), tun) :
            probe \in {Probe(Nothing, Str("https")), Probe(Bool(FALSE), Str("ftp")),
                      Probe(Bool(TRUE), <<"null", "">>), Probe(Num(0), Nothing), Arr(<<>>)},
            tun \in {Nothing, Str("kvn0"), Str("tun0")}}

UserModes ==
    LET Rule(key, value, required, route) ==
            Obj(IF key = "rule_set" THEN <<"required", "route", key>> ELSE <<key, "required", "route">>,
                IF key = "rule_set" THEN <<required, route, value>> ELSE <<value, required, route>>)
        Of(id, final, rules) == Obj(<<"final", "id", "rules">>, <<final, id, Arr(rules)>>)
        rules == {Rule(key, value, required, route) :
                    key \in {"domain", "ip", "rule_set"},
                    value \in {Str(""), Str("a.example"), Str("private"), Str("gs"), <<"null", "">>},
                    required \in {Nothing, Bool(TRUE)},
                    route \in {Nothing, Str("block"), Str("none")}}
                 \cup {Obj(<<"domain", "ip", "route">>, <<Str("a.example"), ip, Str("proxy")>>) :
                          ip \in {<<"null", "">>, Str("private")}}
    IN  {<<Of(Str("global"), Str("proxy"), <<>>), Of(Str("home"), Str("direct"), <<r>>)>> : r \in rules}
        \cup {<<Of(id, final, <<Rule("rule_set", Str("gs"), Bool(TRUE), Str("direct"))>>)>> :
                  id \in {Str("global"), Str("home")}, final \in {Str("proxy"), Str("direct"), Num(2)}}

UserDocuments ==
    LET Config(profiles, version, settings) ==
            [kind |-> "config", value |-> Obj(<<"profiles", "schema_version", "settings">>,
                                              <<profiles, version, settings>>)]
        RuleSets(kind) == Obj(<<"gs">>, <<Obj(<<"kind", "url">>, <<kind, Str("https")>>)>>)
        RoutingFile(modes, sets, version) ==
            [kind |-> "routing", value |-> Obj(<<"modes", "rule_sets", "schema_version">>,
                                               <<modes, sets, version>>)]
    IN  {Config(Arr(<<p>>), Num(16), Nothing) : p \in UserProfiles}
        \cup {Config(Arr(<<p, p>>), Num(16), Nothing) :
                p \in {ProfileOf(Str("uuid"), Str("n"), Num(2), Str("socks"), Nothing, Nothing, Nothing)}}
        \cup {Config(Nothing, Num(16), s) : s \in UserSettings}
        \cup {Config(Str("x"), version, Empty) : version \in {Nothing, Num(14), Num(16), Str("8")}}
        \cup {RoutingFile(Arr(modes), RuleSets(Str("geosite")), Num(2)) : modes \in UserModes}
        \cup {RoutingFile(modes, sets, version) : modes \in {Nothing, Arr(<<>>)},
                sets \in {Nothing, RuleSets(Str("x"))}, version \in {Nothing, Num(2), Num(4), Num(-2)}}

Edited == INSTANCE Documents WITH
    Documents <- UserDocuments, doc <- v1, layout <- v2, issue <- v3

Init ==
    \/ part = "documents" /\ Edited!Init
       /\ v4 = Unused /\ v5 = Unused /\ v6 = Unused /\ v7 = Unused /\ v8 = Unused /\ v9 = Unused
       /\ v10 = Unused /\ v11 = Unused
    \/ part = "links" /\ Links!Init
       /\ v5 = Unused /\ v6 = Unused /\ v7 = Unused /\ v8 = Unused /\ v9 = Unused
       /\ v10 = Unused /\ v11 = Unused
    \/ part = "routing" /\ Routing!Init
       /\ v6 = Unused /\ v7 = Unused /\ v8 = Unused /\ v9 = Unused /\ v10 = Unused /\ v11 = Unused
    \/ part = "edits" /\ Edits!Init
    \/ part = "settings" /\ Settings!Init
    \/ part = "files" /\ Files!Init
       /\ v8 = Unused /\ v9 = Unused /\ v10 = Unused /\ v11 = Unused

Next ==
    /\ UNCHANGED part
    /\ \/ part = "documents" /\ Edited!Next /\ UNCHANGED <<v4, v5, v6, v7, v8, v9, v10, v11>>
       \/ part = "links" /\ Links!Next /\ UNCHANGED <<v5, v6, v7, v8, v9, v10, v11>>
       \/ part = "routing" /\ Routing!Next /\ UNCHANGED <<v6, v7, v8, v9, v10, v11>>
       \/ part = "edits" /\ Edits!Next
       \/ part = "settings" /\ Settings!Next
       \/ part = "files" /\ Files!Next /\ UNCHANGED <<v8, v9, v10, v11>>

Spec == Init /\ [][Next]_vars

-----------------------------------------------------------------------------
(* Properties: those of the components.                                    *)

\* A link that was imported, edited and exported again connects to the same
\* server with the same protection.
LinksKeepTheirMeaning == part = "links" => Links!SameConnection /\ Links!ProtectionIsKept

\* sing-box routes every connection the way the plan of the mode says.
RouteAsPlanned == part = "routing" => Routing!RouteAsPlanned

\* The name of a connection is looked up where its traffic goes, where it is
\* not the user is warned, and no lookup waits for itself.
LookupFollowsRoute ==
    part = "routing" =>
        Routing!LookupFollowsRoute /\ Routing!LeaksAreWarned /\ Routing!ResolversEnd

\* A file the user edited is judged as its published schema says, what serde
\* refuses is explained at the line it is written on, and the rules of an
\* accepted routing.json read the same once kvn has written them.
EditsAreJudged ==
    part = "documents" =>
        /\ Edited!VerdictIsJsonSchema
        /\ Edited!ProblemsAreInPlace
        /\ Edited!SchemaFindsWhatSerdeRefuses
        /\ Edited!LimitsAgree
        /\ Edited!RulesAreWrittenBack

\* What was written in an editor is in routing.json or in a recovery file
\* once the edit is over, and rules that a draft replaces are the rules it
\* began from.
EditsAreKept ==
    [][part = "edits" => Edits!EditIsKept /\ Edits!RulesSeenBeforeReplaced]_vars

\* Enter on a settings page applies what the page shows, whatever changed
\* under it, and a page opens with the settings as they are.
EnterAppliesWhatIsShown ==
    [][part = "settings" => Settings!EnterAppliesWhatIsShown /\ Settings!PageOpensAsSaved]_vars

\* A migration keeps the routes of services in one of the two files, and a
\* file that is replaced stays as a recovery file, also when the daemon or
\* the command dies in between.
MigrationsKeepSettings ==
    [][part = "files" => Files!OverridesAreMoved /\ Files!ReplacedFileIsKept]_vars
=============================================================================
