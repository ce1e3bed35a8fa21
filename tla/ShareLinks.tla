----------------------------- MODULE ShareLinks ------------------------------
(***************************************************************************)
(* Share links: importing one (config/profile/share_link/parse.rs) and     *)
(* exporting a profile as one (encode.rs).                                 *)
(*                                                                         *)
(* A link is [scheme, form, user, pass, port, query, fm].  `form` tells a  *)
(* URI from the base64 document of the old VMess form, whose JSON fields   *)
(* are then the `query`.  The host and the name survive both directions    *)
(* and are left out.  `user` and `pass` are spelt as in the link, percent- *)
(* encoded, as only some parsers decode them.  The values of parameters    *)
(* and base64 documents, which every parser decodes and every encoder      *)
(* encodes, are atoms.  `query` maps the parameters the link has to their  *)
(* values: the last one of a repeated key wins, as in query_map.  The      *)
(* document of the `fm` parameter is kept apart from the other parameters. *)
(*                                                                         *)
(* A profile is [protocol, port, user, pass, security, tls, transport,     *)
(* own, params, fm]: `own` are the options only its protocol has, `params` *)
(* are share_link_params, the parameters kvn keeps without reading them.   *)
(*                                                                         *)
(* A document of `fm` (Xray's finalMask) is                                *)
(*   [known |-> every key is one kvn reads, tcp |-> Seq of TCP mask kinds, *)
(*    udp   |-> Seq of UDP masks, quic |-> the quicParams block].          *)
(* A UDP mask is [kind, ok, ports, range]: `ok` says that its settings are *)
(* complete and hold no unknown field, `range` is the packet size of a     *)
(* salamander mask and the interval of a udphop mask as <<from, to>>, and  *)
(* <<0, 0>> when the document gives none.  The quicParams block is         *)
(* [hop, ports, range, up, tuning]: `hop` says that it holds the legacy    *)
(* udpHop block, `up` is the brutalUp rate (the download rate is read the  *)
(* same way and left out), `tuning` that it holds client tuning keys.      *)
(***************************************************************************)
EXTENDS Integers, Sequences, TLC

(* The `fm` parameter (config/profile/share_link/finalmask.rs).            *)

Absent == "absent"
NoRate == 0

\* Sizes and intervals: GECKO_PACKET_SIZES, MIN_HOP_INTERVAL_SECS and
\* DEFAULT_HOP_INTERVAL_SECS.
GeckoPacketSizes == 1..2048
MinHopInterval == 5
DefaultHopInterval == 30

NoRange == <<0, 0>>
NoObfs == [kind |-> Absent, range |-> NoRange]

NoMask == [known |-> TRUE, tcp |-> <<>>, udp |-> <<>>,
           quic |-> [hop |-> FALSE, ports |-> Absent, range |-> NoRange,
                     up |-> NoRate, tuning |-> FALSE]]

\* hop_interval: no interval and the default one are not stored.
HopInterval(range) ==
    IF range \in {NoRange, <<DefaultHopInterval, DefaultHopInterval>>}
    THEN NoRange ELSE range

SlowEnough(range) == HopInterval(range) = NoRange \/ range[1] >= MinHopInterval

\* read_salamander: a packet size makes the mask a gecko one.
Salamander(mask) ==
    [kind |-> IF mask.range[2] = 0 THEN "salamander" ELSE "gecko",
     range |-> IF mask.range[2] = 0 THEN NoRange ELSE mask.range]

SalamanderReadable(mask) ==
    mask.ok /\ (mask.range[2] # 0 =>
                  mask.range[1] \in GeckoPacketSizes /\ mask.range[2] \in GeckoPacketSizes)

\* read_udp_hop and set_hopping: the ports are required.
HopReadable(mask) == mask.ok /\ mask.ports # Absent /\ SlowEnough(mask.range)

UdpMasks(fm, kind) == SelectSeq(fm.udp, LAMBDA mask : mask.kind = kind)

\* read_udp_masks: at most one mask of each kind, and no other kind.
UdpReadable(fm) ==
    /\ \A i \in 1..Len(fm.udp) :
          \/ fm.udp[i].kind = "salamander" /\ SalamanderReadable(fm.udp[i])
          \/ fm.udp[i].kind = "udphop" /\ HopReadable(fm.udp[i])
    /\ \A kind \in {"salamander", "udphop"} : Len(UdpMasks(fm, kind)) <= 1

\* read_quic_params and read_legacy_udp_hop: an empty udpHop block is ignored.
QuicHops(fm) == fm.quic.hop /\ (fm.quic.ports # Absent \/ fm.quic.range # NoRange)
QuicReadable(fm) == QuicHops(fm) => fm.quic.ports # Absent /\ SlowEnough(fm.quic.range)

\* read_hysteria2_finalmask succeeds; port hopping is set only once.
Readable(fm) ==
    /\ fm.known
    /\ fm.tcp = <<>>
    /\ UdpReadable(fm)
    /\ QuicReadable(fm)
    /\ ~(UdpMasks(fm, "udphop") # <<>> /\ QuicHops(fm))

\* Hysteria2FinalMask: what a readable document carries.
Read(fm) ==
    LET salamander == UdpMasks(fm, "salamander")
        hop == UdpMasks(fm, "udphop")
    IN [obfs |-> IF salamander = <<>> THEN NoObfs ELSE Salamander(salamander[1]),
        ports |-> CASE hop # <<>> -> hop[1].ports
                    [] QuicHops(fm) -> fm.quic.ports
                    [] OTHER -> Absent,
        interval |-> CASE hop # <<>> -> HopInterval(hop[1].range)
                       [] QuicHops(fm) -> HopInterval(fm.quic.range)
                       [] OTHER -> NoRange,
        up |-> fm.quic.up,
        tuning |-> fm.quic.tuning]

\* carries_link_settings.
CarriesLinkSettings(mask) ==
    \/ mask.obfs # NoObfs
    \/ mask.ports # Absent
    \/ mask.interval # NoRange
    \/ mask.up # NoRate

\* client_tuning_param: what is left of a folded document.
ClientTuning(mask) ==
    IF mask.tuning THEN [NoMask EXCEPT !.quic.tuning = TRUE] ELSE NoMask

\* export_hysteria2_finalmask: an unreadable document is written back as it
\* is; otherwise the hop interval of the profile takes the "udp" key.
Export(interval, ports, stored) ==
    IF ~Readable(stored) THEN stored
    ELSE IF interval = NoRange \/ ports = Absent THEN stored
    ELSE [stored EXCEPT !.udp = << [kind |-> "udphop", ok |-> TRUE, ports |-> ports,
                                    range |-> <<interval[1],
                                                IF interval[2] > interval[1]
                                                THEN interval[2] ELSE interval[1]>>] >>]

\* read_stream_finalmask: only fragment masks over TCP, and no UDP mask
\* where one would apply.
StreamReadable(fm, udpMasksApply) ==
    /\ fm.known
    /\ \A i \in 1..Len(fm.tcp) : fm.tcp[i] \in {"fragment", "fragment tlshello"}
    /\ udpMasksApply => fm.udp = <<>>

FragmentsTlsHello(fm) == \E i \in 1..Len(fm.tcp) : fm.tcp[i] = "fragment tlshello"

-----------------------------------------------------------------------------
(* Parameters.                                                             *)

Get(q, k) == IF k \in DOMAIN q THEN q[k] ELSE Absent
Has(q, k) == k \in DOMAIN q
Without(q, ks) == [k \in DOMAIN q \ ks |-> q[k]]
Only(q, ks) == [k \in DOMAIN q \cap ks |-> q[k]]
NoOptions == [k \in {} |-> Absent]

\* One parameter, written only when it has a value: the Option pairs of the
\* encoder, and build_query, which drops the empty ones.
Pair(k, v) == IF v \in {Absent, ""} THEN NoOptions ELSE k :> v

Refused == [protocol |-> "refused"]

\* urlencoding::encode and decode, on texts that need encoding: a name and
\* what it is spelt as, which is encoded again where it is taken for a name.
\* Every other text here is spelt as it is.
Encoded == ("a@b" :> "a%40b") @@ ("a%40b" :> "a%2540b")

PercentEncode(text) == IF text \in DOMAIN Encoded THEN Encoded[text] ELSE text

PercentDecode(text) ==
    IF \E plain \in DOMAIN Encoded : Encoded[plain] = text
    THEN CHOOSE plain \in DOMAIN Encoded : Encoded[plain] = text ELSE text

-----------------------------------------------------------------------------
(* Which parameters a scheme maps onto fields of the profile *)

InsecureQueryKeys == {"insecure", "allowInsecure"}

TlsQueryKeys == {"ech", "disable_sni", "sni", "host", "alpn", "fp", "pbk", "sid"}
                    \cup InsecureQueryKeys

TransportQueryKeys == {"type", "path", "host", "serviceName"}

MappedQueryKeys(protocol) ==
    (IF protocol \in {"vless", "vmess", "trojan", "hysteria2", "tuic", "anytls", "shadowtls"}
       THEN TlsQueryKeys ELSE {})
    \cup (IF protocol \in {"vless", "vmess", "trojan"} THEN TransportQueryKeys ELSE {})
    \cup CASE protocol = "vless" -> {"flow", "security"}
           [] protocol = "vmess" -> {"scy", "security"}
           [] protocol = "hysteria2" -> {"up"}
           [] protocol = "tuic" -> {"congestion_control", "zero_rtt_handshake"}
           [] protocol = "naive" -> {"peer", "sni", "insecure", "allowInsecure", "ech"}
           [] protocol = "shadowtls" -> {"version", "ss-method", "ss-password"}
           [] protocol = "ssh" -> {"password", "private_key_path"}
           [] OTHER -> {}

Hysteria2ObfsKeys == {"obfs", "obfs-password", "packetSize"}

\* Seeded fault: an obfuscation that was not understood counts as mapped.
Hysteria2ObfsQueryKeys_All(obfs) == Hysteria2ObfsKeys

Hysteria2ObfsQueryKeys(obfs) ==
    CASE obfs.kind = "salamander" -> {"obfs", "obfs-password"}
      [] obfs.kind = "gecko" -> Hysteria2ObfsKeys
      [] OTHER -> {}

\* An ECH value that is a DNS query stays a parameter as well.
IsDnsQuery(ech) == ech = "https://dns"

UnmappedQueryParams(q, mapped) ==
    Without(q, mapped \ (IF IsDnsQuery(Get(q, "ech")) THEN {"ech"} ELSE {}))

-----------------------------------------------------------------------------
(* Reading the TLS and the transport settings *)

Flag(value) == value \in {"1", "true", "yes"}

NoReality == [key |-> Absent, sid |-> "", sni |-> ""]
NoEch == [enabled |-> FALSE, config |-> Absent]

PlainTls == [sni |-> Absent, insecure |-> FALSE, disableSni |-> FALSE, alpn |-> Absent,
             fp |-> Absent, reality |-> NoReality, ech |-> NoEch]

OrEmpty(value) == IF value = Absent THEN "" ELSE value

\* EchSettings::from_link_value: disabled beside REALITY, and looked up in
\* DNS (config "") when the value is a DNS query.
EchFromLink(value, reality) ==
    IF value = Absent THEN NoEch
    ELSE [enabled |-> reality = NoReality,
          config |-> IF IsDnsQuery(value) THEN "" ELSE value]

TlsFromQuery(q) ==
    LET reality == IF ~Has(q, "pbk") THEN NoReality
                   ELSE [key |-> q["pbk"], sid |-> OrEmpty(Get(q, "sid")),
                         sni |-> OrEmpty(Get(q, "sni"))]
    IN [sni |-> CASE reality # NoReality -> Absent
                  [] Has(q, "sni") -> q["sni"]
                  [] OTHER -> Get(q, "host"),
        insecure |-> \E k \in InsecureQueryKeys : Flag(Get(q, k)),
        disableSni |-> Flag(Get(q, "disable_sni")),
        alpn |-> Get(q, "alpn"),
        fp |-> Get(q, "fp"),
        reality |-> reality,
        ech |-> EchFromLink(Get(q, "ech"), reality)]

\* split_path_early_data and link_path: "/ws?ed" stands for a path that
\* carries the early data size, "/ws" for the path without it.
PathsWithEarlyData == ("/ws" :> "/ws?ed") @@ ("/" :> "/?ed")

PathWithoutEarlyData(path) ==
    IF \E base \in DOMAIN PathsWithEarlyData : PathsWithEarlyData[base] = path
    THEN CHOOSE base \in DOMAIN PathsWithEarlyData : PathsWithEarlyData[base] = path
    ELSE path

CarriesEarlyData(path) == PathWithoutEarlyData(path) # path

LinkPath(transport) ==
    IF transport.early
    THEN PathsWithEarlyData[IF transport.path = Absent THEN "/" ELSE transport.path]
    ELSE transport.path

NoTransport == [kind |-> Absent, path |-> Absent, host |-> Absent, service |-> Absent,
                early |-> FALSE]

TransportType(type) == IF type = "h2" THEN "http" ELSE type

\* A TCP header obfuscation is the HTTP transport, any other header a kind
\* sing-box does not know.
TransportKind(q) ==
    LET type == Get(q, "type") header == Get(q, "headerType")
    IN CASE type \notin {Absent, "", "tcp", "raw", "none"} -> TransportType(type)
         [] header \in {Absent, "", "none"} -> Absent
         [] header = "http" -> "http"
         [] OTHER -> "tcp"

TransportFromParams(q) ==
    LET kind == TransportKind(q)
        early == kind = "ws" /\ CarriesEarlyData(Get(q, "path"))
    IN IF kind = Absent THEN NoTransport
       ELSE [kind |-> kind,
             path |-> IF early THEN PathWithoutEarlyData(q["path"]) ELSE Get(q, "path"),
             host |-> Get(q, "host"),
             service |-> Get(q, "serviceName"),
             early |-> early]

StreamSecurity(value, tls) ==
    CASE value \in {"reality", "tls", "none"} -> value
      [] value \in {"", Absent} -> IF tls.reality # NoReality THEN "reality" ELSE "none"
      [] OTHER -> Absent

-----------------------------------------------------------------------------
(* The parser of each protocol *)

Profile(protocol, link, defaultPort) ==
    [protocol |-> protocol,
     port |-> IF link.port = "" THEN defaultPort ELSE link.port,
     user |-> PercentDecode(link.user), pass |-> Absent,
     security |-> Absent, tls |-> PlainTls, transport |-> NoTransport,
     own |-> NoOptions, params |-> NoOptions, fm |-> NoMask]

\* The name is kept as the link spells it.
ParseVless(link) ==
    LET tls == TlsFromQuery(link.query)
    IN [Profile("vless", link, "443") EXCEPT
          !.user = link.user,
          !.tls = tls,
          !.transport = TransportFromParams(link.query),
          !.security = StreamSecurity(Get(link.query, "security"), tls),
          !.own = IF Get(link.query, "flow") = "vision" THEN "flow" :> "vision" ELSE NoOptions]

VmessSecurity(value) == IF value \in {"none", "zero", "gcm"} THEN value ELSE "auto"

ParseVmessUri(link) ==
    LET tls == TlsFromQuery(link.query)
    IN [Profile("vmess", link, "443") EXCEPT
          !.user = link.user,
          !.tls = tls,
          !.transport = TransportFromParams(link.query),
          !.security = StreamSecurity(Get(link.query, "security"), tls),
          !.own = "scy" :> VmessSecurity(Get(link.query, "scy"))]

\* vmess_b64_field_keys: what the fields type, host and path of the JSON
\* form stand for depends on the transport.
VmessFieldKeys(net) ==
    CASE net = "grpc" -> [type |-> "mode", host |-> "authority", path |-> "serviceName"]
      [] net \in {"kcp", "mkcp"} -> [type |-> "headerType", host |-> "host", path |-> "seed"]
      [] net \in {"xhttp", "splithttp"} -> [type |-> "mode", host |-> "host", path |-> "path"]
      [] net = "quic" -> [type |-> "headerType", host |-> "quicSecurity", path |-> "key"]
      [] OTHER -> [type |-> "headerType", host |-> "host", path |-> "path"]

VmessMappedFields == {"ech", "disable_sni", "scy", "tls", "sni", "alpn", "fp", "insecure",
                      "allowInsecure", "pbk", "sid", "net", "type", "host", "path"}

NetOf(fields) == IF Get(fields, "net") = Absent THEN "tcp" ELSE fields["net"]

VmessTls(fields) ==
    LET text(k) == IF Get(fields, k) = "" THEN Absent ELSE Get(fields, k)
        mode == Get(fields, "tls")
        reality == IF mode = "reality" \/ text("pbk") # Absent
                   THEN [key |-> OrEmpty(text("pbk")), sid |-> OrEmpty(text("sid")),
                         sni |-> OrEmpty(text("sni"))]
                   ELSE NoReality
        hostIsSni == VmessFieldKeys(NetOf(fields)).host = "host" /\ mode = "tls"
    IN [sni |-> CASE reality # NoReality -> Absent
                  [] text("sni") # Absent -> text("sni")
                  [] OTHER -> IF hostIsSni THEN text("host") ELSE Absent,
        insecure |-> \E k \in InsecureQueryKeys : Flag(Get(fields, k)),
        disableSni |-> Flag(Get(fields, "disable_sni")),
        alpn |-> text("alpn"), fp |-> text("fp"), reality |-> reality,
        ech |-> EchFromLink(text("ech"), reality)]

\* vmess_b64_transport_params: the fields renamed to parameters; a field the
\* document already has under the parameter's name wins.
VmessTransportParams(fields) ==
    LET keys == VmessFieldKeys(NetOf(fields))
        own == UnmappedQueryParams(fields, VmessMappedFields)
    IN own @@ Pair("type", Get(fields, "net")) @@ Pair(keys.type, Get(fields, "type"))
           @@ Pair(keys.host, Get(fields, "host")) @@ Pair(keys.path, Get(fields, "path"))

ParseVmessBase64(link) ==
    LET tls == VmessTls(link.query)
        params == VmessTransportParams(link.query)
    IN [Profile("vmess", link, "443") EXCEPT
          !.user = link.user,
          !.tls = tls,
          !.transport = TransportFromParams(params),
          !.security = StreamSecurity(Get(link.query, "tls"), tls),
          !.own = "scy" :> VmessSecurity(Get(link.query, "scy")),
          !.params = Without(params, TransportQueryKeys),
          !.fm = link.fm]

ParseTrojan(link) ==
    IF link.user = "" THEN Refused
    ELSE [Profile("trojan", link, "443") EXCEPT
            !.tls = TlsFromQuery(link.query),
            !.transport = TransportFromParams(link.query)]

\* The user of a Shadowsocks link is its cipher; `ss` links always have a port.
ShadowsocksCiphers == {"chacha", "gcm", "2022"}

ParseShadowsocks(link) ==
    IF link.user \notin ShadowsocksCiphers \/ link.pass = Absent \/ link.port = ""
    THEN Refused ELSE [Profile("shadowsocks", link, "") EXCEPT !.pass = PercentDecode(link.pass)]

\* hysteria2_obfs: an obfuscation it cannot represent is not read at all.
Hysteria2Obfs(q) ==
    LET size == IF Has(q, "packetSize") THEN q["packetSize"] ELSE NoRange
    IN CASE ~Has(q, "obfs-password") -> NoObfs
         [] Get(q, "obfs") = "salamander" -> [kind |-> "salamander", range |-> NoRange]
         [] Get(q, "obfs") = "gecko" /\ size[1] <= size[2] /\
            (size # NoRange => size[1] \in GeckoPacketSizes /\ size[2] \in GeckoPacketSizes)
              -> [kind |-> "gecko", range |-> size]
         [] OTHER -> NoObfs

ParseHysteria2(link) ==
    IF link.user = "" THEN Refused
    ELSE [Profile("hysteria2", link, "443") EXCEPT
            !.tls = TlsFromQuery(link.query),
            !.own = [obfs |-> Hysteria2Obfs(link.query), interval |-> NoRange,
                     up |-> IF Has(link.query, "up") THEN link.query["up"] ELSE NoRate]]

ParseTuic(link) ==
    IF link.user = "" \/ link.pass \in {Absent, ""} THEN Refused
    ELSE [Profile("tuic", link, "443") EXCEPT
            !.pass = PercentDecode(link.pass),
            !.tls = TlsFromQuery(link.query),
            !.own = [cc |-> IF Get(link.query, "congestion_control") \in {"cubic", "new_reno"}
                            THEN link.query["congestion_control"] ELSE "bbr",
                     zeroRtt |-> Flag(Get(link.query, "zero_rtt_handshake"))]]

NoUser(link) == IF link.user = "" THEN Absent ELSE PercentDecode(link.user)

ParseSocks(link) ==
    LET version == IF link.scheme = "socks4" THEN "4" ELSE "5"
    IN IF link.port = "" \/ (link.pass # Absent /\ version # "5") THEN Refused
       ELSE [Profile("socks", link, "") EXCEPT
               !.user = NoUser(link), !.pass = PercentDecode(link.pass), !.own = "version" :> version]

ParseHttp(link) ==
    [Profile("http", link, IF link.scheme = "https" THEN "443" ELSE "80") EXCEPT
       !.user = NoUser(link), !.pass = PercentDecode(link.pass),
       !.tls.sni = IF link.scheme = "https" THEN "address" ELSE Absent]

ParseNaive(link) ==
    [Profile("naive", link, "443") EXCEPT
       !.user = NoUser(link), !.pass = PercentDecode(link.pass),
       !.own = "quic" :> (link.scheme = "naive+quic"),
       !.tls.sni = IF Has(link.query, "peer") THEN link.query["peer"] ELSE Get(link.query, "sni"),
       !.tls.insecure = \E k \in {"insecure", "allowInsecure"} : Flag(Get(link.query, k)),
       !.tls.ech = EchFromLink(Get(link.query, "ech"), NoReality)]

\* The name is kept as the link spells it, the password is decoded.
ParseSsh(link) ==
    IF link.user = "" THEN Refused
    ELSE [Profile("ssh", link, "22") EXCEPT
            !.user = link.user,
            !.pass = IF link.pass # Absent THEN PercentDecode(link.pass) ELSE Get(link.query, "password"),
            !.own = "private_key_path" :> Get(link.query, "private_key_path")]

ParseAnytls(link) ==
    IF link.user = "" THEN Refused
    ELSE [Profile("anytls", link, "443") EXCEPT !.tls = TlsFromQuery(link.query)]

ParseShadowtls(link) ==
    LET method == Get(link.query, "ss-method")
    IN IF Get(link.query, "ss-password") \in {Absent, ""} THEN Refused
       ELSE [Profile("shadowtls", link, "443") EXCEPT
               !.tls = TlsFromQuery(link.query),
               !.own = [version |-> IF Get(link.query, "version") \in {"1", "2"}
                                    THEN link.query["version"] ELSE "3",
                        method |-> IF method \in ShadowsocksCiphers THEN method ELSE "chacha",
                        password |-> link.query["ss-password"]]]

-----------------------------------------------------------------------------
(* Importing *)

ParsedByScheme(link) ==
    CASE link.scheme = "vless" -> ParseVless(link)
      [] link.scheme = "vmess" -> IF link.form = "base64" THEN ParseVmessBase64(link)
                                  ELSE ParseVmessUri(link)
      [] link.scheme = "trojan" -> ParseTrojan(link)
      [] link.scheme = "ss" -> ParseShadowsocks(link)
      [] link.scheme = "hysteria2" -> ParseHysteria2(link)
      [] link.scheme = "tuic" -> ParseTuic(link)
      [] link.scheme \in {"socks5", "socks4"} -> ParseSocks(link)
      [] link.scheme \in {"http", "https"} -> ParseHttp(link)
      [] link.scheme \in {"naive+https", "naive+quic"} -> ParseNaive(link)
      [] link.scheme = "ssh" -> ParseSsh(link)
      [] link.scheme = "anytls" -> ParseAnytls(link)
      [] link.scheme = "shadowtls" -> ParseShadowtls(link)
      [] OTHER -> Refused

\* fold_hysteria2_finalmask: what a readable document carries moves into the
\* profile; the ports of the link's own mport parameter win.
Folded(profile) ==
    LET mask == Read(profile.fm)
        params == IF mask.obfs = NoObfs THEN profile.params
                  ELSE Without(profile.params, Hysteria2ObfsKeys)
    IN IF profile.fm = NoMask \/ ~Readable(profile.fm) THEN profile
       ELSE [profile EXCEPT
               !.own.obfs = IF mask.obfs = NoObfs THEN @ ELSE mask.obfs,
               !.own.interval = mask.interval,
               !.own.up = IF mask.up = NoRate THEN @ ELSE mask.up,
               !.params = params @@ Pair("mport", mask.ports),
               !.fm = ClientTuning(mask)]

WithLinkParams(profile, link) ==
    LET mapped == MappedQueryKeys(profile.protocol)
                    \cup (IF profile.protocol = "hysteria2"
                          THEN Hysteria2ObfsQueryKeys(profile.own.obfs) ELSE {})
    IN [profile EXCEPT !.params = UnmappedQueryParams(link.query, mapped), !.fm = link.fm]

ParseShareLink(link) ==
    LET profile == ParsedByScheme(link)
    IN CASE profile = Refused -> Refused
         [] link.form = "base64" -> profile
         [] profile.protocol = "hysteria2" -> Folded(WithLinkParams(profile, link))
         [] OTHER -> WithLinkParams(profile, link)

-----------------------------------------------------------------------------
(* Exporting *)

\* exported_ech, and link_params: a stored ech parameter is written only
\* while the profile still looks its ECH configuration up in DNS.
ExportedEch(tls) ==
    IF tls.ech.enabled \/ (tls.ech # NoEch /\ tls.reality # NoReality) THEN tls.ech ELSE NoEch

\* Seeded fault: the stored parameters are written back whatever the profile says.
LinkParams_Stored(profile) == profile.params

LinkParams(profile) ==
    IF profile.tls.ech # NoEch /\ ExportedEch(profile.tls).config # ""
    THEN Without(profile.params, {"ech"}) ELSE profile.params

ExportedFm(profile) ==
    IF profile.protocol = "hysteria2"
    THEN Export(profile.own.interval, Get(profile.params, "mport"), profile.fm)
    ELSE profile.fm

When(condition, pairs) == IF condition THEN pairs ELSE NoOptions

TlsQuery(tls) ==
    When(tls.reality # NoReality,
         Pair("security", "reality")
         @@ Pair("sni", IF tls.reality.sni # "" THEN tls.reality.sni ELSE tls.sni)
         @@ Pair("pbk", tls.reality.key) @@ Pair("sid", tls.reality.sid))
    @@ Pair("sni", tls.sni)
    @@ Pair("alpn", tls.alpn) @@ Pair("fp", tls.fp)
    @@ When(tls.insecure, Pair("insecure", "1"))
    @@ When(tls.disableSni, Pair("disable_sni", "1"))
    @@ Pair("ech", ExportedEch(tls).config)

\* append_effective_sni: without it the transport host would be read back as
\* the server name.
EffectiveSni(tls, transport) ==
    When(tls.reality = NoReality /\ tls.sni = Absent /\ transport.host # Absent,
         Pair("sni", "address"))

LinkTransportType(profile) ==
    LET header == Get(profile.params, "headerType")
    IN IF profile.transport.kind = "http" /\ header \notin {Absent, "none"} THEN "tcp"
       ELSE profile.transport.kind

TransportQuery(profile) ==
    When(profile.transport # NoTransport,
         Pair("type", LinkTransportType(profile)) @@ Pair("path", LinkPath(profile.transport))
         @@ Pair("host", profile.transport.host)
         @@ Pair("serviceName", profile.transport.service))

\* A password is written only after a name.
Uri(scheme, profile, query) ==
    [scheme |-> scheme, form |-> "uri",
     user |-> PercentEncode(OrEmpty(profile.user)),
     pass |-> IF profile.user = Absent THEN Absent ELSE PercentEncode(profile.pass),
     port |-> profile.port,
     query |-> LinkParams(profile) @@ query,
     fm |-> ExportedFm(profile)]

EncodeVless(profile) ==
    LET security ==
          CASE profile.security = "none" -> When(profile.tls.reality # NoReality,
                                                 Pair("security", "none"))
            [] profile.tls.reality = NoReality -> Pair("security", "tls")
                 @@ EffectiveSni(profile.tls, profile.transport)
            [] OTHER -> NoOptions
    IN Uri("vless", profile,
           profile.own @@ security @@ TlsQuery(profile.tls) @@ TransportQuery(profile))

VmessTlsFields(profile) ==
    LET tls == profile.tls
        mode == CASE profile.security = "none" -> IF tls.reality = NoReality THEN Absent ELSE "none"
                  [] tls.reality # NoReality \/ profile.security = "reality" -> "reality"
                  [] OTHER -> "tls"
    IN Pair("tls", mode)
       @@ When(tls.reality # NoReality,
               Pair("sni", tls.reality.sni) @@ Pair("pbk", tls.reality.key)
               @@ Pair("sid", tls.reality.sid))
       @@ When(tls.reality = NoReality, Pair("sni", tls.sni))
       @@ Pair("alpn", tls.alpn) @@ Pair("fp", tls.fp)
       @@ When(tls.insecure, Pair("insecure", "1"))
       @@ When(tls.disableSni, Pair("disable_sni", "1"))
       @@ Pair("ech", ExportedEch(tls).config)

\* vmess_b64_transport_fields: the fields type, host and path take the values
\* of the parameters they stand for.
VmessTransportFields(profile) ==
    LET net == IF profile.transport = NoTransport THEN "tcp" ELSE LinkTransportType(profile)
        keys == VmessFieldKeys(net)
        params == LinkParams(profile)
        field(key) == CASE key = "host" -> profile.transport.host
                        [] key = "path" -> LinkPath(profile.transport)
                        [] key = "serviceName" -> profile.transport.service
                        [] OTHER -> Absent
        value(key) == IF field(key) # Absent THEN field(key) ELSE Get(params, key)
        moved == {key \in {keys.type, keys.host, keys.path} : field(key) = Absent}
    IN Pair("net", net) @@ Pair("type", value(keys.type)) @@ Pair("host", value(keys.host))
       @@ Pair("path", value(keys.path)) @@ Without(params, moved)

EncodeVmess(profile) ==
    LET tls == VmessTlsFields(profile)
        transport == VmessTransportFields(profile)
        hostIsSni == VmessFieldKeys(transport["net"]).host = "host"
        sni == When(Get(tls, "tls") = "tls" /\ ~Has(tls, "sni") /\ ~Has(transport, "sni")
                      /\ Has(transport, "host") /\ hostIsSni,
                    Pair("sni", "address"))
    IN [scheme |-> "vmess", form |-> "base64", user |-> profile.user, pass |-> Absent,
        port |-> profile.port, fm |-> ExportedFm(profile),
        query |-> profile.own @@ sni @@ tls @@ transport]

EncodeTrojan(profile) ==
    Uri("trojan", profile, EffectiveSni(profile.tls, profile.transport)
                           @@ TlsQuery(profile.tls) @@ TransportQuery(profile))

EncodeShadowsocks(profile) == Uri("ss", profile, NoOptions)

EncodeHysteria2(profile) ==
    LET obfs == profile.own.obfs
    IN Uri("hysteria2", profile,
           When(obfs # NoObfs, Pair("obfs", obfs.kind) @@ Pair("obfs-password", "obfs"))
           @@ When(obfs.range # NoRange, "packetSize" :> obfs.range)
           @@ When(profile.own.up # NoRate, "up" :> profile.own.up)
           @@ TlsQuery(profile.tls))

EncodeTuic(profile) ==
    Uri("tuic", profile,
        When(profile.own.cc # "bbr", Pair("congestion_control", profile.own.cc))
        @@ When(profile.own.zeroRtt, Pair("zero_rtt_handshake", "1"))
        @@ TlsQuery(profile.tls))

EncodeSocks(profile) ==
    [Uri(IF profile.own["version"] = "4" THEN "socks4" ELSE "socks5", profile, NoOptions) EXCEPT
       !.pass = IF profile.own["version"] = "4" THEN Absent ELSE @]

EncodeHttp(profile) ==
    Uri(IF profile.tls.sni # Absent \/ profile.tls.alpn # Absent \/ profile.tls.fp # Absent
           \/ profile.tls.reality # NoReality THEN "https" ELSE "http",
        profile, NoOptions)

EncodeNaive(profile) ==
    Uri(IF profile.own["quic"] THEN "naive+quic" ELSE "naive+https", profile,
        Pair("peer", profile.tls.sni) @@ When(profile.tls.insecure, Pair("insecure", "1"))
        @@ Pair("ech", ExportedEch(profile.tls).config))

EncodeSsh(profile) ==
    [Uri("ssh", profile, Pair("password", profile.pass)
                         @@ Pair("private_key_path", profile.own["private_key_path"]))
       EXCEPT !.pass = Absent]

EncodeAnytls(profile) == Uri("anytls", profile, TlsQuery(profile.tls))

EncodeShadowtls(profile) ==
    Uri("shadowtls", profile,
        Pair("version", profile.own.version) @@ Pair("ss-method", profile.own.method)
        @@ Pair("ss-password", profile.own.password) @@ TlsQuery(profile.tls))

EncodeShareLink(profile) ==
    CASE profile.protocol = "vless" -> EncodeVless(profile)
      [] profile.protocol = "vmess" -> EncodeVmess(profile)
      [] profile.protocol = "trojan" -> EncodeTrojan(profile)
      [] profile.protocol = "shadowsocks" -> EncodeShadowsocks(profile)
      [] profile.protocol = "hysteria2" -> EncodeHysteria2(profile)
      [] profile.protocol = "tuic" -> EncodeTuic(profile)
      [] profile.protocol = "socks" -> EncodeSocks(profile)
      [] profile.protocol = "http" -> EncodeHttp(profile)
      [] profile.protocol = "naive" -> EncodeNaive(profile)
      [] profile.protocol = "ssh" -> EncodeSsh(profile)
      [] profile.protocol = "anytls" -> EncodeAnytls(profile)
      [] profile.protocol = "shadowtls" -> EncodeShadowtls(profile)

-----------------------------------------------------------------------------
(* What the rest of kvn asks of a profile: is it valid, is it another one *)

RequiresUuid(protocol) == protocol \in {"vless", "vmess", "tuic"}
RequiresPassword(profile) ==
    \/ profile.protocol \in {"trojan", "hysteria2", "anytls"}
    \/ profile.protocol = "shadowtls" /\ profile.own.version = "3"

\* ProtocolConfig::diagnostics finds nothing.  The credential of most
\* protocols is the user of their link.
ProtocolValid(profile) ==
    /\ RequiresUuid(profile.protocol) \/ RequiresPassword(profile)
         \/ profile.protocol = "ssh" => profile.user # ""
    /\ profile.protocol \in {"shadowsocks", "tuic"} => profile.pass # ""
    /\ profile.protocol = "shadowtls" => profile.own.password # ""
    /\ ~(profile.tls.reality # NoReality /\ profile.tls.ech.enabled)

\* Profile::diagnostics and protocol_uuid_diagnostic: "u" stands for a UUID.
Valid(profile) ==
    /\ ProtocolValid(profile)
    /\ RequiresUuid(profile.protocol) => profile.user = "u"
    /\ profile.protocol = "vless" /\ profile.security = "reality" =>
         profile.tls.reality # NoReality

\* identity_path: early data counts the same whether the path carries it or not.
IdentityPath(transport) ==
    IF transport.kind = "ws"
    THEN <<PathWithoutEarlyData(OrEmpty(transport.path)),
           transport.early \/ CarriesEarlyData(transport.path)>>
    ELSE <<OrEmpty(transport.path), FALSE>>

TransportIdentity(profile) ==
    CASE profile.transport # NoTransport ->
           <<profile.transport.kind, IdentityPath(profile.transport),
             OrEmpty(profile.transport.host), OrEmpty(profile.transport.service)>>
      [] profile.protocol = "naive" /\ profile.own["quic"] -> <<"quic">>
      [] OTHER -> <<>>

EndpointIdentity(profile) ==
    <<profile.port, TransportIdentity(profile),
      CASE profile.protocol \in {"shadowsocks", "socks", "ssh"} -> <<>>
        [] profile.tls.reality # NoReality -> <<"reality", profile.tls.reality.sni>>
        [] OTHER -> <<"tls", OrEmpty(profile.tls.sni)>> >>

CredentialKey(profile) ==
    CASE profile.protocol = "shadowsocks" -> <<profile.pass>>
      [] profile.protocol = "naive" -> <<OrEmpty(profile.user), OrEmpty(profile.pass)>>
      [] OTHER -> <<OrEmpty(profile.user)>>

\* dedup_key: what a subscription update and an import compare profiles by.
DedupKey(profile) == <<profile.protocol, CredentialKey(profile), EndpointIdentity(profile)>>
=============================================================================
