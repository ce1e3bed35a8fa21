----------------------------- MODULE LinkSharing -----------------------------
(***************************************************************************)
(* A server on its way from one kvn to another: a link a provider hands    *)
(* out is imported, the profile may be edited in profiles.json, it is      *)
(* exported as a link again and that link is imported elsewhere.           *)
(***************************************************************************)
EXTENDS Outbounds, FiniteSets

CONSTANTS
    Logins,      \* credentials and ports of the links: [scheme, user, pass, port]
    Parameters,  \* the parameters links of a scheme carry: sets of pairs <<key, value>>
    Masks,       \* the fm documents a link may carry
    MaxParams    \* how many query parameters a link carries at most

VARIABLES
    link,     \* the link that was handed out
    profile,  \* the profile it was imported as, edits included
    shared,   \* the link that profile was exported as
    stage     \* "written", "imported", "edited", "exported" or "refused"

vars == <<link, profile, shared, stage>>

Init ==
    \E login \in Logins, form \in {"uri", "base64"}, fm \in Masks \cup {NoMask} :
      /\ form = "base64" => login.scheme = "vmess"
      /\ link = [scheme |-> login.scheme, form |-> form, user |-> login.user,
                 pass |-> login.pass, port |-> login.port, query |-> NoOptions, fm |-> fm]
      /\ profile = Refused
      /\ shared = link
      /\ stage = "written"

\* The provider adds one more parameter.
AddParameter ==
    \E parameter \in Parameters[IF link.form = "base64" THEN "base64" ELSE link.scheme] :
      /\ stage = "written"
      /\ Cardinality(DOMAIN link.query) < MaxParams
      /\ ~Has(link.query, parameter[1])
      /\ link' = [link EXCEPT !.query = @ @@ (parameter[1] :> parameter[2])]
      /\ UNCHANGED <<profile, shared, stage>>

Import ==
    /\ stage = "written"
    /\ profile' = ParseShareLink(link)
    /\ stage' = IF profile' = Refused THEN "refused" ELSE "imported"
    /\ UNCHANGED <<link, shared>>

\* Edits of profiles.json the stored parameters and the stored fm document
\* have something to say about: the hop interval and the ECH configuration.
Edit ==
    /\ stage = "imported"
    /\ \/ /\ profile.protocol = "hysteria2"
          /\ \E interval \in {NoRange, <<10, 10>>, <<10, 20>>} :
               profile' = [profile EXCEPT !.own.interval = interval]
       \/ /\ profile.tls.ech # NoEch
          /\ \E ech \in {[enabled |-> FALSE, config |-> ""], [enabled |-> TRUE, config |-> "pem"]} :
               /\ ech.enabled => profile.tls.reality = NoReality
               /\ profile' = [profile EXCEPT !.tls.ech = ech]
    /\ stage' = "edited"
    /\ UNCHANGED <<link, shared>>

Share ==
    /\ stage \in {"imported", "edited"}
    /\ shared' = EncodeShareLink(profile)
    /\ stage' = "exported"
    /\ UNCHANGED <<link, profile>>

Next == AddParameter \/ Import \/ Edit \/ Share

Spec == Init /\ [][Next]_vars

-----------------------------------------------------------------------------
Reimported == ParseShareLink(shared)

\* Links no client writes: one that asks for REALITY without giving a key, and
\* one that asks for the packet header of another transport over HTTP/2.
Contradictory(l) ==
    \/ \E key \in {"security", "tls"} : Get(l.query, key) = "reality" /\ ~Has(l.query, "pbk")
    \/ \E key \in {"type", "net"} :
          /\ TransportType(Get(l.query, key)) = "http"
          /\ \E header \in {"type", "headerType"} : Get(l.query, header) = "srtp"

\* A URI with a parameter of another transport, which is no part of the
\* document form a VMess profile is exported in.
HasForeignParameter(l) ==
    LET kind == TransportKind(l.query)
        own == CASE kind = "grpc" -> {"serviceName"}
                 [] kind = "quic" -> {}
                 [] kind \in {"kcp", "mkcp"} -> {"host"}
                 [] OTHER -> {"path", "host"}
    IN /\ l.form = "uri"
       /\ \E key \in {"path", "host", "serviceName"} \ own : Has(l.query, key)

\* Logins that do not survive.  parse_ssh and parse_vless keep a name as the
\* link spells it and the encoders encode it once more; and no encoder writes
\* a password without a name.
LosesLogin(l) ==
    \/ l.scheme \in {"ssh", "vless"} /\ PercentEncode(l.user) # l.user
    \/ l.user = "" /\ l.pass # Absent

ButLogin(outbounds) ==
    IF outbounds = RefusedOutbound THEN outbounds
    ELSE [i \in DOMAIN outbounds |-> [outbounds[i] EXCEPT !.user = Absent, !.pass = Absent]]

\* Importing an exported link yields the connection that was exported: the
\* same sing-box outbound, or a refusal of both, of a profile that stays valid
\* and that an import or an update takes for the same server; of a link whose
\* login does not survive, all but the login.  (encode_share_link writes back
\* the stored parameters beside the fields of the profile, so an edited field
\* and the parameter it was read from may contradict each other.)
SameConnection ==
    stage = "exported" /\ ~Contradictory(link) =>
      /\ Reimported # Refused
      /\ Valid(profile) => Valid(Reimported)
      /\ ~HasForeignParameter(link) /\ ~LosesLogin(link) =>
           DedupKey(Reimported) = DedupKey(profile)
      /\ ~LosesLogin(link) => BuildOutbound(Reimported) = BuildOutbound(profile)
      /\ ButLogin(BuildOutbound(Reimported)) = ButLogin(BuildOutbound(profile))

\* The schemes that always mean TLS, and the links that ask for it.
AsksForTls(l) ==
    \/ l.scheme \in {"trojan", "hysteria2", "tuic", "anytls", "https", "naive+https", "naive+quic"}
    \/ /\ l.scheme \in {"vless", "vmess"}
       /\ Get(l.query, IF l.form = "base64" THEN "tls" ELSE "security") \in {"tls", "reality"}

\* What a link asks for to protect the connection is in the outbound, or the
\* server is refused: TLS, the REALITY key, an obfuscation, whether it is a
\* parameter or in the fm document, the certificate's name, a VLESS
\* encryption.  And the certificate goes unchecked only where the link says so.
ProtectionIsKept ==
    LET asked(key) == Get(link.query, key)
        out == BuildOutbound(profile)[1]
    IN stage = "imported" /\ BuildOutbound(profile) # RefusedOutbound =>
         /\ AsksForTls(link) => out.tls.enabled
         /\ asked("pbk") # Absent /\ out.tls.enabled => out.tls.key = asked("pbk")
         /\ out.tls.insecure => \E key \in InsecureQueryKeys : Flag(asked(key))
         /\ link.scheme = "hysteria2" =>
              /\ asked("obfs") # Absent => out.options.obfs # NoObfs
              /\ link.fm.udp # <<>> => out.options.obfs # NoObfs \/ out.port # link.port
         /\ asked("vcn") # Absent /\ out.tls.enabled =>
              out.tls.insecure \/ out.tls.key # Absent \/ out.tls.sni \in {"", asked("vcn")}
         /\ asked("encryption") = Absent
=============================================================================
