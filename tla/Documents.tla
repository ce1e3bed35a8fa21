----------------------------- MODULE Documents ------------------------------
(***************************************************************************)
(* What kvn says of a profiles.json or routing.json that a user wrote by   *)
(* hand: the validator of config/profile/json_schema.rs, the schemas it is *)
(* given, the types serde reads afterwards, the semantic checks that come  *)
(* last (check_edit, check_routing), and the line a problem is shown at    *)
(* (config/json_pointer.rs).                                               *)
(*                                                                         *)
(* The schemas are cut to the fields that differ in how they are checked:  *)
(* a profile of an open and of a strict protocol, the settings with limits *)
(* and the routing modes.  A pointer is the sequence of its tokens, which  *)
(* escape_token keeps apart in the joined text.                            *)
(***************************************************************************)
EXTENDS Integers, FiniteSets, SequencesExt, TLC

CONSTANT Documents     \* what the user may write: [kind, value]

VARIABLES
    doc,       \* what is in the editor
    layout,    \* "lines" or "line": how it is laid out
    issue      \* the outcome of the check

vars == <<doc, layout, issue>>

-----------------------------------------------------------------------------
(* JSON values: a kind and what it holds.  The members of an object are in *)
(* the order of their names.  Numbers are counted in halves.               *)

Null == <<"null", "">>
Text(s) == <<"string", s>>
Number(halves) == <<"number", halves>>
Flag(b) == <<"boolean", b>>
Array(items) == <<"array", items>>
Object(members) == <<"object", members>>

Names(object) == {object[2][i][1] : i \in DOMAIN object[2]}
Member(object, name) ==
    object[2][CHOOSE i \in DOMAIN object[2] : object[2][i][1] = name][2]

\* matches_type
HasType(name, value) ==
    \/ name = value[1]
    \/ name = "integer" /\ value[1] = "number" /\ value[2] % 2 = 0

\* The texts that parse as the format the schemas name.
Uuids == {"uuid"}

\* The token of an array's i-th item in a pointer.
Index(i) == ToString(i - 1)

\* Part(1) to Part(n), one after the other: each is computed once.
Concat(n, Part(_)) ==
    LET joined[i \in 0 .. n] == IF i = 0 THEN <<>> ELSE joined[i - 1] \o Part(i) IN joined[n]

-----------------------------------------------------------------------------
(* The validator.                                                          *)

Problem(at, what) == [at |-> at, what |-> what, mismatch |-> "none", expected |-> <<>>]

\* dedup removes repetitions that follow each other.
Dedup(types) ==
    FoldLeft(LAMBDA seen, t : IF seen # <<>> /\ Last(seen) = t THEN seen ELSE Append(seen, t),
             <<>>, types)

TypeMismatch(at, types) ==
    [Problem(at, "type") EXCEPT !.mismatch = "type", !.expected = Dedup(types)]

\* const, enum, check_number_bounds, check_min_length, check_format
CheckScalar(schema, value, at) ==
    LET If(keyword, refused, problem) ==
            IF keyword \in DOMAIN schema /\ refused THEN <<problem>> ELSE <<>>
    IN  If("const", value # schema.const,
           [Problem(at, "const") EXCEPT !.mismatch = "const", !.expected = <<schema.const>>])
        \o If("enum", value \notin Range(schema.enum), Problem(at, "enum"))
        \o If("minimum", value[1] = "number" /\ value[2] < schema.minimum, Problem(at, "minimum"))
        \o If("maximum", value[1] = "number" /\ value[2] > schema.maximum, Problem(at, "maximum"))
        \o If("minLength", value = Text(""), Problem(at, "empty"))
        \o If("format", value[1] = "string" /\ schema.format = "uuid" /\ value[2] \notin Uuids,
              Problem(at, "format"))

\* The value is not meant for the branch that reports p.
IsShapeMismatch(p, at) == p.mismatch = "const" \/ (p.mismatch = "type" /\ p.at = at)

\* merged_mismatch: every branch is ruled out by a constant or a type.
MergedMismatch(outcomes, at) ==
    LET first == Concat(Len(outcomes),
                     LAMBDA i : <<SelectSeq(outcomes[i], LAMBDA p : IsShapeMismatch(p, at))[1]>>)
        constants == SelectSeq(first, LAMBDA p : p.mismatch = "const")
    IN  IF constants # <<>>
        THEN [Problem(constants[1].at, "constants") EXCEPT
                 !.expected = Concat(Len(constants), LAMBDA i : constants[i].expected)]
        ELSE TypeMismatch(at, Concat(Len(first), LAMBDA i : first[i].expected))

\* Seeded fault: a value that is meant for no branch passes.
Alternatives_Unmatched(outcomes, at) ==
    LET relevant == SelectSeq(outcomes,
                        LAMBDA ps : \A i \in DOMAIN ps : ~IsShapeMismatch(ps[i], at))
    IN  IF \E i \in DOMAIN outcomes : outcomes[i] = <<>> THEN <<>>
        ELSE CASE Len(relevant) = 1 -> relevant[1]
               [] Len(relevant) > 1 -> <<Problem(at, "shape")>>
               [] OTHER -> <<>>

\* check_alternatives, for the problems of each branch of anyOf or oneOf.
Alternatives(outcomes, at) ==
    LET relevant == SelectSeq(outcomes,
                        LAMBDA ps : \A i \in DOMAIN ps : ~IsShapeMismatch(ps[i], at))
    IN  IF \E i \in DOMAIN outcomes : outcomes[i] = <<>> THEN <<>>
        ELSE CASE Len(relevant) = 1 -> relevant[1]
               [] Len(relevant) > 1 -> <<Problem(at, "shape")>>
               [] OTHER -> <<MergedMismatch(outcomes, at)>>

\* check_object, but for what members with a schema report.
Missing(schema, object, at) ==
    IF "required" \in DOMAIN schema
    THEN LET missing == SelectSeq(schema.required, LAMBDA name : name \notin Names(object))
         IN  [i \in DOMAIN missing |-> Problem(at, "required")]
    ELSE <<>>

\* Validator::check.  Only the values of objects carry properties, so a
\* schema for something else contributes nothing.
RECURSIVE Check(_, _, _)
Check(schema, value, at) ==
    LET Has(keyword) == keyword \in DOMAIN schema
        OfMember(name, member, place) ==
            IF Has("properties") /\ name \in DOMAIN schema.properties
            THEN Check(schema.properties[name], member, place)
            ELSE IF Has("closed") THEN <<Problem(place, "unknown")>>
            ELSE IF Has("additional") THEN Check(schema.additional, member, place) ELSE <<>>
        Members == Concat(Len(value[2]), LAMBDA i :
            OfMember(value[2][i][1], value[2][i][2], Append(at, value[2][i][1])))
        Elements == Concat(Len(value[2]), LAMBDA i :
            Check(schema.items, value[2][i], Append(at, Index(i))))
        Branches(branches) ==
            Alternatives(Concat(Len(branches), LAMBDA i : <<Check(branches[i], value, at)>>), at)
    IN  IF Has("type") /\ ~\E i \in DOMAIN schema.type : HasType(schema.type[i], value)
        THEN <<TypeMismatch(at, schema.type)>>
        ELSE CheckScalar(schema, value, at)
             \o (IF value[1] = "object"
                 THEN Missing(schema, value, at) \o Members ELSE <<>>)
             \o (IF Has("items") /\ value[1] = "array" THEN Elements ELSE <<>>)
             \o (IF Has("anyOf") THEN Branches(schema.anyOf) ELSE <<>>)
             \o (IF Has("oneOf") THEN Branches(schema.oneOf) ELSE <<>>)
             \o (IF Has("then") /\ Check(schema.if, value, at) = <<>>
                 THEN Check(schema.then, value, at) ELSE <<>>)

-----------------------------------------------------------------------------
(* The schemas.  serde's derive and schemars are external: an enum whose   *)
(* variants are documented is a oneOf of constants, a flattened enum a     *)
(* oneOf beside the fields, Option<T> allows null.                         *)

Anything == [any |-> TRUE]
Type(name) == [type |-> <<name>>]
Optional(name) == [type |-> <<name, "null">>]
NonEmpty == [type |-> <<"string">>, minLength |-> 1]
Constant(s) == [type |-> <<"string">>, const |-> Text(s)]
OneOf(branches) == [oneOf |-> branches]
Enum(texts) == [type |-> <<"string">>, enum |-> [i \in DOMAIN texts |-> Text(texts[i])]]
Version(n) == [type |-> <<"integer">>, const |-> Number(2 * n)]

\* ProtocolConfig: its branches, and which of them deny unknown fields.
VlessBranch ==
    [type |-> <<"object">>, required |-> <<"protocol", "uuid">>,
     properties |-> [protocol |-> Constant("vless"), uuid |-> NonEmpty,
                     reality |-> [anyOf |-> <<[type |-> <<"object">>, required |-> <<"public_key">>,
                                               properties |-> [public_key |-> Type("string")]],
                                              Type("null")>>]]]
SocksBranch ==
    [type |-> <<"object">>, required |-> <<"protocol">>,
     properties |-> [protocol |-> Constant("socks"), version |-> Enum(<<"4", "5">>)]]
ProtocolBranches == <<VlessBranch, SocksBranch>>
StrictProtocols == {Text("socks")}

\* Profile as schemars derives it.
DerivedProfile ==
    [type |-> <<"object">>, required |-> <<"name", "port">>,
     properties |-> [name |-> NonEmpty,
                     id |-> [type |-> <<"string">>, format |-> "uuid"],
                     port |-> [type |-> <<"integer">>, minimum |-> 2, maximum |-> 2 * 65535]],
     oneOf |-> ProtocolBranches]

\* share_profile_fields_with_protocol_branches
ShareFields(profile) ==
    LET shared == [name \in DOMAIN profile.properties |-> Anything]
        Shared(branch) == [branch EXCEPT !.properties = @ @@ shared]
    IN  [profile EXCEPT !.oneOf =
            [i \in DOMAIN @ |->
                IF @[i].properties.protocol.const \in StrictProtocols
                THEN Shared(@[i]) @@ [closed |-> TRUE] ELSE Shared(@[i])]]

\* check_branches_only_for_known_protocols
CheckKnownOnly(profile) ==
    LET known == [enum |-> [i \in DOMAIN profile.oneOf |->
                               profile.oneOf[i].properties.protocol.const]]
    IN  [keyword \in (DOMAIN profile \ {"oneOf"}) \cup {"if", "then"} |->
            CASE keyword = "properties" -> [protocol |-> known] @@ profile.properties
              [] keyword = "if" -> [properties |-> [protocol |-> known]]
              [] keyword = "then" -> OneOf(profile.oneOf)
              [] OTHER -> profile[keyword]]

ProfileSchema == CheckKnownOnly(ShareFields(DerivedProfile))

\* LineRetention, LogsConfig, ConnectivityProbeConfig and Settings.
MinLogLines == 1000
LogLevels == <<"trace", "debug", "info", "warn", "error">>
Themes == <<"omarchy", "nord">>
SettingsSchema ==
    LET retention == [type |-> <<"object">>, closed |-> TRUE,
                      properties |-> [app |-> [type |-> <<"integer">>, minimum |-> 2 * MinLogLines]]]
        logs == [type |-> <<"object">>, closed |-> TRUE,
                 properties |-> [level |-> Enum(LogLevels), line_retention |-> retention]]
        probe == [type |-> <<"object">>, closed |-> TRUE,
                  properties |-> [enabled |-> Type("boolean"), url |-> Optional("string")]]
    IN  [type |-> <<"object">>, closed |-> TRUE,
         properties |-> [tun_interface |-> Type("string"), theme |-> Enum(Themes),
                         logs |-> logs, connectivity_probe |-> probe]]

\* Config, with pin_current_schema_version.
ConfigSchema ==
    [type |-> <<"object">>, closed |-> TRUE, required |-> <<"schema_version">>,
     properties |-> [schema_version |-> Version(8), settings |-> SettingsSchema,
                     profiles |-> [type |-> <<"array">>, items |-> ProfileSchema]]]

\* Outbound, RuleRoute and RuleSetKind: documented variants.
OutboundSchema == OneOf(<<Constant("proxy"), Constant("direct")>>)
RouteSchema ==
    OneOf(<<Constant("proxy"), Constant("direct"), Constant("block"), Constant("disabled")>>)
KindSchema == OneOf(<<Constant("geoip"), Constant("geosite")>>)

\* ModeRule::json_schema
RuleBranch(key, takesRequired) ==
    [type |-> <<"object">>, required |-> <<key, "route">>, closed |-> TRUE,
     properties |-> [name \in {key, "route"} \cup (IF takesRequired THEN {"required"} ELSE {}) |->
                        CASE name = key -> NonEmpty
                          [] name = "route" -> RouteSchema
                          [] OTHER -> Type("boolean")]]
RuleSchema ==
    OneOf(<<RuleBranch("rule_set", TRUE), RuleBranch("domain", FALSE), RuleBranch("ip", FALSE)>>)

\* RuleSetSource, ModeDefinition and RoutingConfig, with
\* pin_routing_schema_version.
RoutingSchema ==
    LET source == [type |-> <<"object">>, closed |-> TRUE, required |-> <<"kind", "url">>,
                   properties |-> [kind |-> KindSchema, url |-> Type("string")]]
        mode == [type |-> <<"object">>, closed |-> TRUE, required |-> <<"id", "final">>,
                 properties |-> [id |-> Type("string"), final |-> OutboundSchema,
                                 rules |-> [type |-> <<"array">>, items |-> RuleSchema]]]
    IN  [type |-> <<"object">>, closed |-> TRUE, required |-> <<"schema_version">>,
         properties |-> [schema_version |-> Version(1),
                         rule_sets |-> [type |-> <<"object">>, additional |-> source],
                         modes |-> [type |-> <<"array">>, items |-> mode]]]

SchemaOf(kind) == IF kind = "routing" THEN RoutingSchema ELSE ConfigSchema

-----------------------------------------------------------------------------
(* What serde makes of a document.  u32::MAX is out of TLC's integers:     *)
(* MaxU32 stands for it.                                                   *)

MaxU32 == 900000000

Has(object, name) == name \in Names(object)
IsText(object, name) == Has(object, name) /\ Member(object, name)[1] = "string"
MayBe(object, name, Fits(_)) == Has(object, name) => Fits(Member(object, name))
Within(v, limit) == HasType("integer", v) /\ v[2] \in 0 .. limit
FieldsOf(v, names) == v[1] = "object" /\ Names(v) \subseteq names
Items(v, name) == IF Has(v, name) THEN Member(v, name)[2] ELSE <<>>
EveryItem(v, name, Fits(_)) ==
    MayBe(v, name, LAMBDA a : a[1] = "array" /\ \A i \in DOMAIN a[2] : Fits(a[2][i]))

\* Profile, VlessConfig and SocksConfig.  serde refuses an unknown field of
\* a protocol only where no struct is flattened into it.
ReadsProfile(v) ==
    /\ v[1] = "object"
    /\ IsText(v, "name")
    /\ MayBe(v, "id", LAMBDA id : id[1] = "string" /\ id[2] \in Uuids)
    /\ Has(v, "port") /\ Within(Member(v, "port"), 2 * 65535)
    /\ IsText(v, "protocol")
    /\ \/ /\ Member(v, "protocol") = Text("vless")
          /\ IsText(v, "uuid")
          /\ MayBe(v, "reality", LAMBDA r : r = Null \/ (r[1] = "object" /\ IsText(r, "public_key")))
       \/ /\ Member(v, "protocol") = Text("socks")
          /\ MayBe(v, "version", LAMBDA n : n \in {Text("4"), Text("5")})
          /\ FieldsOf(v, {"id", "name", "port", "protocol", "version"})

\* Settings, LogsConfig, LineRetention and ConnectivityProbeConfig.
ReadsSettings(v) ==
    /\ FieldsOf(v, {"connectivity_probe", "logs", "theme", "tun_interface"})
    /\ \A name \in {"theme", "tun_interface"} : Has(v, name) => IsText(v, name)
    /\ MayBe(v, "logs", LAMBDA logs :
          /\ FieldsOf(logs, {"level", "line_retention"})
          /\ Has(logs, "level") => IsText(logs, "level")
          /\ MayBe(logs, "line_retention", LAMBDA retention :
                /\ FieldsOf(retention, {"app"})
                /\ MayBe(retention, "app", LAMBDA n : Within(n, 2 * MaxU32))))
    /\ MayBe(v, "connectivity_probe", LAMBDA probe :
          /\ FieldsOf(probe, {"enabled", "url"})
          /\ MayBe(probe, "enabled", LAMBDA b : b[1] = "boolean")
          /\ MayBe(probe, "url", LAMBDA u : u[1] \in {"string", "null"}))

\* ModeRuleFields, then ModeRule::try_from.
RuleKeys == {"domain", "ip", "rule_set"}
Routes == {Text("proxy"), Text("direct"), Text("block"), Text("disabled")}
ReadsRule(v) ==
    /\ FieldsOf(v, RuleKeys \cup {"required", "route"})
    /\ IsText(v, "route") /\ Member(v, "route") \in Routes
    /\ MayBe(v, "required", LAMBDA r : r[1] = "boolean")
    /\ \A name \in RuleKeys : MayBe(v, name, LAMBDA m : m[1] \in {"string", "null"})
    /\ Cardinality({name \in RuleKeys : IsText(v, name)}) = 1

\* The rule that is read: RuleMatch, the route and whether it is required.
RuleOf(v) ==
    LET key == CHOOSE name \in RuleKeys : IsText(v, name) IN
    [key |-> IF key = "ip" /\ Member(v, "ip") = Text("private") THEN "private" ELSE key,
     value |-> Member(v, key)[2], route |-> Member(v, "route")[2],
     required |-> Has(v, "required") /\ Member(v, "required") = Flag(TRUE)]

\* RuleMatch::key
KeyOf(rule) == IF rule.key = "private" THEN "ip" ELSE rule.key

\* From<ModeRule> for ModeRuleFields: what kvn writes for a rule.
WrittenRule(rule) ==
    LET field == << <<KeyOf(rule), Text(rule.value)>> >>
        required == IF rule.required THEN << <<"required", Flag(TRUE)>> >> ELSE <<>>
        route == << <<"route", Text(rule.route)>> >>
    IN  Object(IF rule.key = "rule_set" THEN required \o route \o field
                                        ELSE field \o required \o route)

\* RuleSetSource, ModeDefinition and RoutingConfig.
ReadsRouting(v) ==
    /\ FieldsOf(v, {"modes", "rule_sets", "schema_version"})
    /\ Has(v, "schema_version") /\ Within(Member(v, "schema_version"), 2 * MaxU32)
    /\ MayBe(v, "rule_sets", LAMBDA sets :
          /\ sets[1] = "object"
          /\ \A tag \in Names(sets) : LET source == Member(sets, tag) IN
                /\ FieldsOf(source, {"kind", "url"}) /\ IsText(source, "url")
                /\ IsText(source, "kind")
                /\ Member(source, "kind") \in {Text("geoip"), Text("geosite")})
    /\ EveryItem(v, "modes", LAMBDA mode :
          /\ FieldsOf(mode, {"final", "id", "rules"})
          /\ IsText(mode, "id") /\ IsText(mode, "final")
          /\ Member(mode, "final") \in {Text("proxy"), Text("direct")}
          /\ EveryItem(mode, "rules", ReadsRule))

\* parse_config, of a document with the current version, and from_value.
Reads(d) ==
    IF d.kind = "routing" THEN ReadsRouting(d.value)
    ELSE /\ FieldsOf(d.value, {"profiles", "schema_version", "settings"})
         /\ EveryItem(d.value, "profiles", ReadsProfile)
         /\ MayBe(d.value, "settings", ReadsSettings)

-----------------------------------------------------------------------------
(* What the semantic checks add.                                           *)

If(refused, at) == IF refused THEN <<at>> ELSE <<>>

\* tun_interface_problem, parse_connectivity_probe_url and the trimmed
\* texts: the members that pass.
GoodInterfaces == {"kvn0"}
GoodUrls == {"https"}
Blank == {"", " "}

\* Settings::diagnostics: the defaults of absent fields are fine.
SettingsDiagnostics(v) ==
    LET Of(object, name) == IF Has(object, name) THEN Member(object, name) ELSE Object(<<>>)
        logs == Of(v, "logs")
        retention == Of(logs, "line_retention")
        probe == Of(v, "connectivity_probe")
        Refuses(object, name, good) == Has(object, name) /\ Member(object, name)[2] \notin good
        enabled == Has(probe, "enabled") => Member(probe, "enabled") = Flag(TRUE)
    IN  If(Refuses(v, "tun_interface", GoodInterfaces), <<"settings", "tun_interface">>)
        \o If(Refuses(v, "theme", Range(Themes)), <<"settings", "theme">>)
        \o If(Refuses(logs, "level", Range(LogLevels)), <<"settings", "logs", "level">>)
        \o If(Has(retention, "app") /\ Member(retention, "app")[2] < 2 * MinLogLines,
              <<"settings", "logs", "line_retention", "app">>)
        \o If(enabled /\ Refuses(probe, "url", GoodUrls), <<"settings", "connectivity_probe", "url">>)

\* Profile::diagnostics, and the duplicate ids of Config::diagnostics.  An
\* absent id is generated.
ProfileDiagnostics(profiles, i) ==
    LET v == profiles[i]
        At(name) == <<"profiles", Index(i), name>>
    IN  If(Has(v, "id") /\ \E j \in 1 .. i - 1 :
               Has(profiles[j], "id") /\ Member(profiles[j], "id") = Member(v, "id"), At("id"))
        \o If(Member(v, "name")[2] \in Blank, At("name"))
        \o If(Member(v, "port") = Number(0), At("port"))
        \o If(Member(v, "protocol") = Text("vless") /\ Member(v, "uuid")[2] \notin Uuids, At("uuid"))

\* is_plain_domain and is_ip_or_network: the texts that pass.
PlainDomains == {"", "a.example"}
Networks == {"10.0.0.0/8"}

\* RoutingConfig::mode_diagnostics, and the addresses of diagnostics.
RoutingDiagnostics(v) ==
    LET sets == IF Has(v, "rule_sets") THEN Member(v, "rule_sets") ELSE Object(<<>>)
        modes == Items(v, "modes")
        Global(mode) == Member(mode, "id") = Text("global")
        OfRule(mode, at, r) ==
            LET rule == RuleOf(Items(mode, "rules")[r])
                place == at \o <<"rules", Index(r)>>
            IN  If(Global(mode) /\ rule.required, Append(place, "required"))
                \o If(\/ rule.key = "rule_set" /\ rule.value \notin Names(sets)
                      \/ rule.key = "domain" /\ rule.value \notin PlainDomains
                      \/ rule.key = "ip" /\ rule.value \notin Networks,
                      Append(place, KeyOf(rule)))
        OfMode(i) ==
            LET at == <<"modes", Index(i)>> IN
            If(\E j \in 1 .. i - 1 : Member(modes[j], "id") = Member(modes[i], "id"),
               Append(at, "id"))
            \o If(Global(modes[i]) /\ Member(modes[i], "final") # Text("proxy"), Append(at, "final"))
            \o Concat(Len(Items(modes[i], "rules")), LAMBDA r : OfRule(modes[i], at, r))
        OfSet(i) == If(Member(sets[2][i][2], "url")[2] \notin GoodUrls,
                       <<"rule_sets", sets[2][i][1], "url">>)
    IN  Concat(Len(sets[2]), OfSet) \o Concat(Len(modes), OfMode)
        \o If(~\E i \in DOMAIN modes : Global(modes[i]), <<"modes">>)

Semantic(d) ==
    IF d.kind = "routing" THEN RoutingDiagnostics(d.value)
    ELSE LET profiles == Items(d.value, "profiles") IN
         Concat(Len(profiles), LAMBDA i : ProfileDiagnostics(profiles, i))
         \o (IF Has(d.value, "settings")
             THEN SettingsDiagnostics(Member(d.value, "settings")) ELSE <<>>)

SchemaProblems(d) == Check(SchemaOf(d.kind), d.value, <<>>)
Places(problems) == {problems[i].at : i \in DOMAIN problems}

-----------------------------------------------------------------------------
(* The text, and the index of it.  A token of the text knows the pointer   *)
(* that begins with it; the scanner does not look at that.                 *)

Token(text, name) == [text |-> text, name |-> name, begins |-> {}]
Mark(tokens, at) == [tokens EXCEPT ![1].begins = {at}]

\* How an editor or serde_json's pretty printer lays a document out.
RECURSIVE Laid(_, _, _)
Laid(v, at, break) ==
    LET Listed(open, Part(_), close) ==
            <<Token(open, "")>>
            \o Concat(Len(v[2]), LAMBDA i :
                  break \o Part(i) \o (IF i < Len(v[2]) THEN <<Token(",", "")>> ELSE <<>>))
            \o (IF v[2] = <<>> THEN <<>> ELSE break) \o <<Token(close, "")>>
        OfMember(i) ==
            LET place == Append(at, v[2][i][1]) IN
            Mark(<<Token("string", v[2][i][1]), Token(":", "")>> \o Laid(v[2][i][2], place, break),
                 place)
        OfElement(i) == Mark(Laid(v[2][i], Append(at, Index(i)), break), Append(at, Index(i)))
    IN  CASE v[1] = "object" -> Listed("{", OfMember, "}")
          [] v[1] = "array" -> Listed("[", OfElement, "]")
          [] v[1] = "string" -> <<Token("string", "")>>
          [] OTHER -> <<Token("scalar", "")>>

TextOf(d, how) ==
    Mark(Laid(d.value, <<>>, IF how = "lines" THEN <<Token("newline", "")>> ELSE <<>>), <<>>)

\* skip_whitespace
RECURSIVE Skip(_, _)
Skip(text, pos) == IF text[pos].text = "newline" THEN Skip(text, pos + 1) ELSE pos

\* Scanner::index_value, index_members and index_elements, of a text that
\* serde_json has parsed: what is found, and where the scanner stops.
RECURSIVE IndexValue(_, _, _), IndexMembers(_, _, _, _), IndexElements(_, _, _, _, _)
IndexValue(text, pos, at) ==
    LET inner == Skip(text, pos + 1) IN
    CASE text[pos].text = "{" ->
            IF text[inner].text = "}" THEN [pos |-> inner + 1, found |-> {}]
            ELSE IndexMembers(text, inner, at, {})
      [] text[pos].text = "[" ->
            IF text[inner].text = "]" THEN [pos |-> inner + 1, found |-> {}]
            ELSE IndexElements(text, inner, at, 1, {})
      [] OTHER -> [pos |-> pos + 1, found |-> {}]
IndexMembers(text, key, at, found) ==
    LET place == Append(at, text[key].name)
        value == Skip(text, Skip(text, key + 1) + 1)
        indexed == IndexValue(text, value, place)
        all == found \cup {<<place, key>>} \cup indexed.found
        next == Skip(text, indexed.pos)
    IN  IF text[next].text = "," THEN IndexMembers(text, Skip(text, next + 1), at, all)
        ELSE [pos |-> next + 1, found |-> all]
IndexElements(text, pos, at, i, found) ==
    LET place == Append(at, Index(i))
        indexed == IndexValue(text, pos, place)
        all == found \cup {<<place, pos>>} \cup indexed.found
        next == Skip(text, indexed.pos)
    IN  IF text[next].text = "," THEN IndexElements(text, Skip(text, next + 1), at, i + 1, all)
        ELSE [pos |-> next + 1, found |-> all]

\* JsonIndex::new
Offsets(text) == {<< <<>>, 1 >>} \cup IndexValue(text, 1, <<>>).found

LineAt(text, offset) == 1 + Cardinality({i \in 1 .. offset : text[i].text = "newline"})

\* JsonIndex::nearest_line
NearestLine(text, offsets, at) ==
    LET known == {p \in offsets : IsPrefix(p[1], at)}
        nearest == CHOOSE p \in known : \A q \in known : Len(q[1]) <= Len(p[1])
    IN  LineAt(text, nearest[2])

-----------------------------------------------------------------------------

\* diagnostics_issue: every problem with its line; the editor opens at the
\* first.
Diagnosed(d, how, places) ==
    LET text == TextOf(d, how)
        offsets == Offsets(text)
        lines == [at \in places |-> NearestLine(text, offsets, at)]
    IN  [kind |-> "problems", shown |-> lines,
         line |-> CHOOSE n \in {lines[at] : at \in places} : \A at \in places : n <= lines[at]]

Outcome(kind) == [kind |-> kind, shown |-> <<>>, line |-> 1]

\* has_current_schema_version
HasCurrentVersion(v) ==
    v[1] = "object" /\ Has(v, "schema_version") /\ Member(v, "schema_version") = Number(16)

\* RoutingProblem::NewerSchema
IsNewer(v) ==
    /\ v[1] = "object" /\ Has(v, "schema_version")
    /\ HasType("integer", Member(v, "schema_version")) /\ Member(v, "schema_version")[2] > 2

\* check_edit and check_routing_edit, add_unreported included.
Verdict(d, how) ==
    LET schema == Places(SchemaProblems(d)) IN
    CASE d.kind = "routing" /\ IsNewer(d.value) -> Outcome("newer")
      [] d.kind = "config" /\ ~HasCurrentVersion(d.value) -> Diagnosed(d, how, schema)
      [] OTHER ->
            IF ~Reads(d)
            THEN IF schema = {} THEN Outcome("load") ELSE Diagnosed(d, how, schema)
            ELSE LET all == schema \cup Range(Semantic(d)) IN
                 IF all = {} THEN Outcome("accepted") ELSE Diagnosed(d, how, all)

Init == doc \in Documents /\ layout \in {"lines", "line"} /\ issue = Outcome("unchecked")

\* edit_until_saved: the editor was closed.
CheckEdit == issue.kind = "unchecked" /\ issue' = Verdict(doc, layout) /\ UNCHANGED <<doc, layout>>

\* The editor is opened again, and the text changed.
Edit(d) ==
    /\ issue.kind \in {"problems", "load", "newer"}
    /\ doc' = d /\ issue' = Outcome("unchecked") /\ UNCHANGED layout

Next == CheckEdit \/ \E d \in {e \in Documents : e.kind = doc.kind} : Edit(d)

-----------------------------------------------------------------------------
(* What the JSON Schema standard says of the same schemas, which is what   *)
(* the user's editor underlines: a oneOf is satisfied by exactly one       *)
(* branch, and keywords do not wait for each other.                        *)

RECURSIVE Valid(_, _)
Valid(schema, v) ==
    LET Uses(keyword) == keyword \in DOMAIN schema
        Holds(keyword, test) == Uses(keyword) => test
        named == IF Uses("properties") THEN DOMAIN schema.properties ELSE {}
    IN  /\ Holds("type", \E i \in DOMAIN schema.type : HasType(schema.type[i], v))
        /\ Holds("const", v = schema.const)
        /\ Holds("enum", v \in Range(schema.enum))
        /\ Holds("minimum", v[1] = "number" => v[2] >= schema.minimum)
        /\ Holds("maximum", v[1] = "number" => v[2] <= schema.maximum)
        /\ Holds("minLength", v # Text(""))
        /\ Holds("format", v[1] = "string" => v[2] \in Uuids)
        /\ v[1] = "object" =>
              /\ Holds("required", Range(schema.required) \subseteq Names(v))
              /\ \A name \in Names(v) :
                    IF name \in named THEN Valid(schema.properties[name], Member(v, name))
                    ELSE /\ ~Uses("closed")
                         /\ Holds("additional", Valid(schema.additional, Member(v, name)))
        /\ v[1] = "array" => Holds("items", \A i \in DOMAIN v[2] : Valid(schema.items, v[2][i]))
        /\ Holds("anyOf", \E i \in DOMAIN schema.anyOf : Valid(schema.anyOf[i], v))
        /\ Holds("oneOf", Cardinality({i \in DOMAIN schema.oneOf : Valid(schema.oneOf[i], v)}) = 1)
        /\ Holds("then", Valid(schema.if, v) => Valid(schema.then, v))

Checked == issue.kind # "unchecked"

\* json_schema.rs agrees with the standard on every document, though it takes
\* oneOf for anyOf, stops at a wrong type and folds the branches' problems
\* into one: what an editor with the schema leaves unmarked, kvn accepts too.
VerdictIsJsonSchema ==
    Checked => (SchemaProblems(doc) = <<>>) = Valid(SchemaOf(doc.kind), doc.value)

\* The values that exist in the document, by pointer.
RECURSIVE Exists(_, _)
Exists(v, at) ==
    \/ at = <<>>
    \/ v[1] = "object" /\ Head(at) \in Names(v) /\ Exists(Member(v, Head(at)), Tail(at))
    \/ v[1] = "array" /\ \E i \in DOMAIN v[2] :
          Index(i) = Head(at) /\ Exists(v[2][i], Tail(at))

\* A refusal names at least one problem, at the line where the value it is
\* about begins, or the nearest value around it when it is absent.
ProblemsAreInPlace ==
    issue.kind = "problems" =>
        LET text == TextOf(doc, layout)
            Line(at) == LineAt(text, CHOOSE i \in DOMAIN text : at \in text[i].begins)
        IN  /\ issue.shown # <<>>
            /\ \A at \in DOMAIN issue.shown :
                  \E n \in 0 .. Len(at) : LET near == SubSeq(at, 1, n) IN
                     /\ Exists(doc.value, near)
                     /\ n < Len(at) => ~Exists(doc.value, SubSeq(at, 1, n + 1))
                     /\ issue.shown[at] = Line(near)
            /\ \A at \in DOMAIN issue.shown : issue.line <= issue.shown[at]

RECURSIVE Numbers(_)
Numbers(v) ==
    CASE v[1] = "number" -> {v[2]}
      [] v[1] = "object" -> UNION {Numbers(v[2][i][2]) : i \in DOMAIN v[2]}
      [] v[1] = "array" -> UNION {Numbers(v[2][i]) : i \in DOMAIN v[2]}
      [] OTHER -> {}

\* Whatever serde refuses the schema refuses first, with a place, but for a
\* number that no u32 holds: only then is serde's own message shown.
SchemaFindsWhatSerdeRefuses ==
    issue.kind = "load" => \E n \in Numbers(doc.value) : n > 2 * MaxU32

\* Settings::diagnostics has nothing to add about the limits the schema
\* states: the two lists of limits are the same.
LimitsAgree ==
    Checked /\ doc.kind = "config" /\ Reads(doc) /\ Has(doc.value, "settings") =>
        \A at \in Range(SettingsDiagnostics(Member(doc.value, "settings"))) :
            at \in Places(SchemaProblems(doc)) \/ Last(at) \in {"tun_interface", "url"}

\* The rules of an accepted routing.json are written so that they are
\* accepted, and read as the same rules, the next time.
RulesAreWrittenBack ==
    issue.kind = "accepted" /\ doc.kind = "routing" =>
        \A i \in DOMAIN Items(doc.value, "modes") :
            LET rules == Items(Items(doc.value, "modes")[i], "rules") IN
            \A r \in DOMAIN rules :
                LET written == WrittenRule(RuleOf(rules[r])) IN
                /\ Check(RuleSchema, written, <<>>) = <<>>
                /\ ReadsRule(written) /\ RuleOf(written) = RuleOf(rules[r])
=============================================================================
