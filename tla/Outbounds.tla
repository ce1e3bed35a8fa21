------------------------------ MODULE Outbounds ------------------------------
(***************************************************************************)
(* The sing-box outbound of a profile: singbox/outbound.rs, and            *)
(* build_outbound with the checks behind it in singbox/config.rs.          *)
(*                                                                         *)
(* An outbound is [type, tag, port, hop, user, pass, tls, transport,       *)
(* options, detour].  A profile whose link asks for something sing-box     *)
(* cannot do is refused: building it yields RefusedOutbound.               *)
(***************************************************************************)
EXTENDS ShareLinks

RefusedOutbound == << [type |-> "refused"] >>

NoTls == [enabled |-> FALSE, sni |-> Absent, insecure |-> FALSE, disableSni |-> FALSE,
          alpn |-> Absent, fp |-> Absent, key |-> Absent, ech |-> Absent, fragment |-> FALSE]

\* A parameter that is present and neither empty nor "none".
EnabledOption(params, option) == Get(params, option) \notin {Absent, "", "none"}

TlsBlock(defaultAlpn, tls) ==
    [enabled |-> TRUE,
     sni |-> CASE tls.reality # NoReality -> tls.reality.sni
               [] tls.sni # Absent -> tls.sni
               [] OTHER -> "address",
     insecure |-> tls.insecure, disableSni |-> tls.disableSni,
     alpn |-> IF tls.alpn = Absent THEN defaultAlpn ELSE tls.alpn,
     fp |-> tls.fp, key |-> tls.reality.key,
     ech |-> IF tls.ech.enabled THEN tls.ech.config ELSE Absent,
     fragment |-> FALSE]

\* The transports sing-box has, with the options it reads for each.
TransportBlock(transport) ==
    CASE transport.kind \in {"ws", "http", "httpupgrade"} -> [transport EXCEPT !.service = Absent]
      [] transport.kind = "grpc" -> [NoTransport EXCEPT !.kind = "grpc",
                                                        !.service = transport.service]
      [] OTHER -> [NoTransport EXCEPT !.kind = transport.kind]

\* reject_tcp_http_header_over_tls and reject_quic_options_sing_box_lacks.
TransportSupported(transport, tlsEnabled, params) ==
    /\ transport.kind = "http" /\ tlsEnabled => ~EnabledOption(params, "headerType")
    /\ transport.kind = "quic" => /\ ~EnabledOption(params, "quicSecurity")
                                  /\ ~EnabledOption(params, "headerType")

Outbound(profile, type, tls) ==
    [type |-> type, tag |-> "proxy", port |-> profile.port, hop |-> NoRange,
     user |-> profile.user, pass |-> profile.pass, tls |-> tls,
     transport |-> TransportBlock(profile.transport), options |-> NoOptions, detour |-> Absent]

\* drop_tls_when_disabled.
StreamTls(profile, tls) == IF profile.security = "none" THEN NoTls ELSE tls

BuildVless(profile) ==
    LET chrome == profile.tls.reality # NoReality /\ profile.tls.fp = Absent
        block == TlsBlock(Absent, IF chrome THEN [profile.tls EXCEPT !.fp = "chrome"]
                                  ELSE profile.tls)
        tls == StreamTls(profile, block)
    IN IF \/ EnabledOption(profile.params, "encryption")
          \/ ~TransportSupported(profile.transport, tls.enabled, profile.params)
       THEN RefusedOutbound
       ELSE << [Outbound(profile, "vless", tls) EXCEPT !.options = profile.own] >>

BuildVmess(profile) ==
    LET tls == StreamTls(profile, TlsBlock(Absent, profile.tls))
    IN IF ~TransportSupported(profile.transport, tls.enabled, profile.params)
       THEN RefusedOutbound
       ELSE << [Outbound(profile, "vmess", tls) EXCEPT !.options = profile.own] >>

BuildTrojan(profile) ==
    IF ~TransportSupported(profile.transport, TRUE, profile.params) THEN RefusedOutbound
    ELSE << Outbound(profile, "trojan", TlsBlock(Absent, profile.tls)) >>

BuildShadowsocks(profile) ==
    << [Outbound(profile, "shadowsocks", NoTls) EXCEPT
          !.options = When(EnabledOption(profile.params, "plugin"),
                           Only(profile.params, {"plugin"}))] >>

\* An obfuscation that was kept as a parameter, and a mask document that was
\* not folded into the profile, are refused rather than left out.
BuildHysteria2(profile) ==
    LET hops == EnabledOption(profile.params, "mport")
        stale == profile.fm # NoMask
                   /\ (~Readable(profile.fm) \/ CarriesLinkSettings(Read(profile.fm)))
    IN IF EnabledOption(profile.params, "obfs") \/ stale THEN RefusedOutbound
       ELSE << [Outbound(profile, "hysteria2", TlsBlock("h3", profile.tls)) EXCEPT
                  !.port = IF hops THEN profile.params["mport"] ELSE @,
                  !.hop = IF hops THEN profile.own.interval ELSE NoRange,
                  !.options = [obfs |-> profile.own.obfs, up |-> profile.own.up]] >>

BuildTuic(profile) ==
    << [Outbound(profile, "tuic", TlsBlock("h3", profile.tls)) EXCEPT !.options = profile.own] >>

\* Two outbounds: Shadowsocks goes through the ShadowTLS wrapper.
BuildShadowtls(profile) ==
    << [Outbound(profile, "shadowtls", TlsBlock(Absent, profile.tls)) EXCEPT
          !.tag = "shadowtls-wrap",
          !.user = IF profile.own.version = "3" THEN @ ELSE Absent,
          !.options = "version" :> profile.own.version],
       [Outbound(profile, "shadowsocks", NoTls) EXCEPT
          !.user = profile.own.method, !.pass = profile.own.password,
          !.detour = "shadowtls-wrap"] >>

BuildAnytls(profile) == << Outbound(profile, "anytls", TlsBlock(Absent, profile.tls)) >>

BuildNaive(profile) ==
    << [Outbound(profile, "naive", TlsBlock(Absent, profile.tls)) EXCEPT !.options = profile.own] >>

BuildSocks(profile) == << [Outbound(profile, "socks", NoTls) EXCEPT !.options = profile.own] >>

\* TlsCommon::is_configured.
TlsConfigured(tls) == tls # PlainTls /\ (tls.ech.enabled \/ [tls EXCEPT !.ech = NoEch] # PlainTls)

BuildHttp(profile) ==
    << Outbound(profile, "http",
                IF TlsConfigured(profile.tls) THEN TlsBlock(Absent, profile.tls) ELSE NoTls) >>

BuildSsh(profile) == << [Outbound(profile, "ssh", NoTls) EXCEPT !.options = profile.own] >>

OutboundsOf(profile) ==
    CASE profile.protocol = "vless" -> BuildVless(profile)
      [] profile.protocol = "vmess" -> BuildVmess(profile)
      [] profile.protocol = "trojan" -> BuildTrojan(profile)
      [] profile.protocol = "shadowsocks" -> BuildShadowsocks(profile)
      [] profile.protocol = "hysteria2" -> BuildHysteria2(profile)
      [] profile.protocol = "tuic" -> BuildTuic(profile)
      [] profile.protocol = "shadowtls" -> BuildShadowtls(profile)
      [] profile.protocol = "anytls" -> BuildAnytls(profile)
      [] profile.protocol = "naive" -> BuildNaive(profile)
      [] profile.protocol = "socks" -> BuildSocks(profile)
      [] profile.protocol = "http" -> BuildHttp(profile)
      [] profile.protocol = "ssh" -> BuildSsh(profile)

\* apply_stream_finalmask: UDP masks are refused where they would apply, and
\* a fragment mask turns TLS fragmentation on.
OverQuic(profile, outbound) ==
    \/ profile.protocol = "tuic"
    \/ profile.protocol = "naive" /\ profile.own["quic"]
    \/ outbound.transport.kind = "quic"

RelaysUdp(profile) ==
    \/ profile.protocol = "shadowsocks"
    \/ profile.protocol = "socks" /\ profile.own["version"] = "5"

StreamMasked(profile, outbounds) ==
    LET readable(outbound) ==
          StreamReadable(profile.fm, OverQuic(profile, outbound) \/ RelaysUdp(profile))
        masked(outbound) ==
          IF /\ FragmentsTlsHello(profile.fm) /\ ~OverQuic(profile, outbound)
             /\ profile.protocol # "naive" /\ outbound.tls.enabled
          THEN [outbound EXCEPT !.tls.fragment = TRUE] ELSE outbound
    IN IF profile.protocol = "hysteria2" \/ profile.fm = NoMask THEN outbounds
       ELSE IF \E i \in 1..Len(outbounds) : ~readable(outbounds[i]) THEN RefusedOutbound
       ELSE [i \in 1..Len(outbounds) |-> masked(outbounds[i])]

\* refuse_unverifiable_certificate_name: sing-box checks the certificate
\* against the SNI only.
CertificateNameVerifiable(profile, outbounds) ==
    Has(profile.params, "vcn") =>
      \A i \in 1..Len(outbounds) :
        LET tls == outbounds[i].tls
        IN tls.enabled /\ ~tls.insecure /\ tls.key = Absent =>
             profile.params["vcn"] = (IF tls.sni = "" THEN "address" ELSE tls.sni)

BuildOutbound(profile) ==
    LET built == OutboundsOf(profile)
        masked == IF built = RefusedOutbound THEN built ELSE StreamMasked(profile, built)
    IN IF masked = RefusedOutbound \/ ~CertificateNameVerifiable(profile, masked)
       THEN RefusedOutbound ELSE masked

ProxyCarriesUdp(profile) ==
    CASE profile.protocol \in {"http", "ssh", "shadowtls", "naive"} -> FALSE
      [] profile.protocol = "socks" -> profile.own["version"] = "5"
      [] OTHER -> TRUE
=============================================================================
