--------------------------- MODULE InboundModel ---------------------------
(***************************************************************************)
(* The classes of the inbound pages (web/assets/js/model/inbound.js): how  *)
(* an inbound read from the panel becomes the object a form edits, and how *)
(* that object becomes the JSON the form posts.                            *)
(*                                                                         *)
(* C(json) is C.fromJson(json), the constructor's defaults included, and   *)
(* CJson(object) is object.toJson(); a class without a CJson posts its     *)
(* object as it is.  An object has its fields under the names of its JSON  *)
(* form.  `r` stands for what a constructor draws at random (an id, a      *)
(* password, a seed): it is drawn only for a key that is missing.          *)
(***************************************************************************)
EXTENDS JsonValues
LOCAL INSTANCE SequencesExt

(*------------------------------- headers --------------------------------*)
\* A header object of the JSON form is a sequence of names with their values;
\* the forms edit a list of name and value pairs.
toHeaders(v2Headers) ==
    FlattenSeq(Map(v2Headers, LAMBDA h : Map(h.values, LAMBDA v : [name |-> h.name, value |-> v])))

\* arr: one array of values for each name; otherwise the last value wins.
toV2Headers(headers, arr) ==
    LET Put(v2, h) ==
          LET at == SelectInSeq(v2, LAMBDA e : e.name = h.name) IN
          CASE h.name = "" \/ h.value = EmptyText -> v2
            [] at = 0 -> Append(v2, [name |-> h.name, values |-> <<h.value>>])
            [] OTHER  -> [v2 EXCEPT ![at].values = IF arr THEN Append(@, h.value) ELSE <<h.value>>]
    IN  FoldLeft(Put, <<>>, headers)

(*---------------------------- stream settings ---------------------------*)
TcpRequest(json) ==
    [New([version |-> "1.1", method |-> "GET", path |-> <<"/">>, headers |-> <<>>], json)
       EXCEPT !.path = IF @ = <<>> THEN <<"/">> ELSE @, !.headers = toHeaders(@)]

TcpResponse(json) ==
    [New([version |-> "1.1", status |-> "200", reason |-> "OK", headers |-> <<>>], json)
       EXCEPT !.headers = toHeaders(@)]

TcpStreamSettings(json) ==
    LET header == Or(json, "header", NoJson)
    IN  [acceptProxyProtocol |-> Or(json, "acceptProxyProtocol", FALSE),
         type     |-> Or(header, "type", "none"),
         request  |-> TcpRequest(Or(header, "request", NoJson)),
         response |-> TcpResponse(Or(header, "response", NoJson))]

TcpStreamSettingsJson(tcp) ==
    [acceptProxyProtocol |-> tcp.acceptProxyProtocol,
     header |-> With([type |-> tcp.type], Given(tcp.type = "http",
                  [request  |-> [tcp.request EXCEPT !.headers = toV2Headers(@, TRUE)],
                   response |-> [tcp.response EXCEPT !.headers = toV2Headers(@, TRUE)]]))]

KcpStreamSettings_NoType(json, r) ==   \* mistake: the header is not read
    New([mtu |-> 1350, tti |-> 50, uplinkCapacity |-> 5, downlinkCapacity |-> 20, congestion |-> FALSE,
         readBufferSize |-> 2, writeBufferSize |-> 2, seed |-> r, type |-> "none"], json)
KcpStreamSettings(json, r) ==
    With(New([mtu |-> 1350, tti |-> 50, uplinkCapacity |-> 5, downlinkCapacity |-> 20,
              congestion |-> FALSE, readBufferSize |-> 2, writeBufferSize |-> 2, seed |-> r], json),
         [type |-> Or(Or(json, "header", NoJson), "type", "none")])

KcpStreamSettingsJson(kcp) ==
    With(Only(kcp, DOMAIN kcp \ {"type"}), [header |-> [type |-> kcp.type]])

WsStreamSettings(json) ==
    [New([acceptProxyProtocol |-> FALSE, path |-> <<"/">>, host |-> EmptyText, headers |-> <<>>,
          heartbeatPeriod |-> 0], json) EXCEPT !.headers = toHeaders(@)]

WsStreamSettingsJson(ws) == [ws EXCEPT !.headers = toV2Headers(@, FALSE)]

GrpcStreamSettings(json) ==
    New([serviceName |-> EmptyText, authority |-> EmptyText, multiMode |-> FALSE], json)

HTTPUpgradeStreamSettings(json) ==
    [New([acceptProxyProtocol |-> FALSE, path |-> <<"/">>, host |-> EmptyText, headers |-> <<>>], json)
       EXCEPT !.headers = toHeaders(@)]

HTTPUpgradeStreamSettingsJson(httpupgrade) == [httpupgrade EXCEPT !.headers = toV2Headers(@, FALSE)]

xHTTPStreamSettings(json) ==
    [New([path |-> <<"/">>, host |-> EmptyText, headers |-> <<>>, scMaxBufferedPosts |-> 30,
          scMaxEachPostBytes |-> "1000000", scStreamUpServerSecs |-> "20-80",
          noSSEHeader |-> FALSE, xPaddingBytes |-> "100-1000", mode |-> "auto"], json)
       EXCEPT !.headers = toHeaders(@)]

xHTTPStreamSettingsJson(xhttp) == [xhttp EXCEPT !.headers = toV2Headers(@, FALSE)]

\* A certificate is kept as the paths of its files or as its lines.
Cert(json) ==
    LET useFile == {"certificateFile", "keyFile"} \subseteq DOMAIN json
        files   == New([certificateFile |-> "", keyFile |-> ""], json)
        lines   == New([certificate |-> EmptyText, key |-> EmptyText], json)
    IN  With(With(New([oneTimeLoading |-> FALSE, usage |-> "encipherment", buildChain |-> FALSE], json),
                  [useFile |-> useFile]),
             IF useFile THEN With(files, [certificate |-> EmptyText, key |-> EmptyText])
             ELSE With([certificateFile |-> "", keyFile |-> ""],
                       [certificate |-> Joined(lines.certificate), key |-> Joined(lines.key)]))

CertJson(cert) ==
    Only(cert, {"oneTimeLoading", "usage", "buildChain"} \cup
               (IF cert.useFile THEN {"certificateFile", "keyFile"} ELSE {"certificate", "key"}))

\* new TlsStreamSettings.Cert(): files with empty paths.
NewCert == Cert([certificateFile |-> "", keyFile |-> ""])

TlsStreamSettings(json) ==
    LET settings == [allowInsecure |-> FALSE, fingerprint |-> "chrome", echConfigList |-> EmptyText]
    IN  [New([serverName |-> EmptyText, minVersion |-> "1.2", maxVersion |-> "1.3", cipherSuites |-> "",
              rejectUnknownSni |-> FALSE, verifyPeerCertInNames |-> <<"dns.google", "cloudflare-dns.com">>,
              disableSystemRoot |-> FALSE, enableSessionResumption |-> FALSE,
              certificates |-> <<>>, alpn |-> <<"h2", "http/1.1">>, echServerKeys |-> "",
              echForceQuery |-> "none", settings |-> NoJson], json)
           EXCEPT !.certificates = IF "certificates" \in DOMAIN json THEN Map(@, Cert) ELSE <<NewCert>>,
                  !.verifyPeerCertInNames = Joined(@),
                  !.settings = New(settings, @)]

TlsStreamSettingsJson(tls) == [tls EXCEPT !.certificates = Map(@, CertJson)]

RealityStreamSettings(json, r) ==
    LET settings == [publicKey |-> "", fingerprint |-> "chrome", serverName |-> EmptyText,
                     spiderX |-> <<"/">>, mldsa65Verify |-> ""]
    IN  [New([show |-> FALSE, xver |-> 0, target |-> "tesla.com:443",
              serverNames |-> <<"tesla.com", "www.tesla.com">>, privateKey |-> "",
              minClientVer |-> "", maxClientVer |-> "", maxTimediff |-> 0, shortIds |-> <<r>>,
              mldsa65Seed |-> "", settings |-> NoJson], json)
           EXCEPT !.serverNames = Joined(@), !.shortIds = Joined(@), !.settings = New(settings, @)]

\* No sockopt at all when the JSON has none: `undefined` is NoJson.
SockoptStreamSettings(json) ==
    Given(json # NoJson,
          New([acceptProxyProtocol |-> FALSE, tcpFastOpen |-> FALSE, mark |-> 0, tproxy |-> "off",
               tcpMptcp |-> FALSE, penetrate |-> FALSE, domainStrategy |-> "UseIP", tcpMaxSeg |-> 1440,
               dialerProxy |-> "", tcpKeepAliveInterval |-> 0, tcpKeepAliveIdle |-> 300,
               tcpUserTimeout |-> 10000, tcpcongestion |-> "bbr", V6Only |-> FALSE,
               tcpWindowClamp |-> 600, interface |-> ""], json))

\* sockoptSwitch = true: new SockoptStreamSettings().
NewSockopt == SockoptStreamSettings([mark |-> 0])

StreamSettings(json, r) ==
    LET Part(key) == Or(json, key, NoJson)
    IN  [network             |-> Or(json, "network", "tcp"),
         security            |-> Or(json, "security", "none"),
         externalProxy       |-> Or(json, "externalProxy", <<>>),
         tlsSettings         |-> TlsStreamSettings(Part("tlsSettings")),
         realitySettings     |-> RealityStreamSettings(Part("realitySettings"), r),
         tcpSettings         |-> TcpStreamSettings(Part("tcpSettings")),
         kcpSettings         |-> KcpStreamSettings(Part("kcpSettings"), r),
         wsSettings          |-> WsStreamSettings(Part("wsSettings")),
         grpcSettings        |-> GrpcStreamSettings(Part("grpcSettings")),
         httpupgradeSettings |-> HTTPUpgradeStreamSettings(Part("httpupgradeSettings")),
         xhttpSettings       |-> xHTTPStreamSettings(Part("xhttpSettings")),
         sockopt             |-> SockoptStreamSettings(Part("sockopt"))]

\* Only the settings of the chosen network and of the chosen security are posted.
StreamSettingsJson(stream) ==
    LET json == [stream EXCEPT !.tlsSettings         = TlsStreamSettingsJson(@),
                               !.tcpSettings         = TcpStreamSettingsJson(@),
                               !.kcpSettings         = KcpStreamSettingsJson(@),
                               !.wsSettings          = WsStreamSettingsJson(@),
                               !.httpupgradeSettings = HTTPUpgradeStreamSettingsJson(@),
                               !.xhttpSettings       = xHTTPStreamSettingsJson(@)]
    IN  Only(json, {"network", "security", "externalProxy"}
                   \cup {stream.network \o "Settings", stream.security \o "Settings"}
                   \cup (IF stream.sockopt = NoJson THEN {} ELSE {"sockopt"}))

Sniffing(json) ==
    LET all == <<"http", "tls", "quic", "fakedns">>
    IN  [New([enabled |-> FALSE, destOverride |-> all, metadataOnly |-> FALSE, routeOnly |-> FALSE], json)
           EXCEPT !.destOverride = IF @ # <<>> /\ @[1] = "" THEN all ELSE @]

(*------------------------- settings of a protocol -----------------------*)
\* What every kind of client has beside its credential.
ClientLimits(r) ==
    [email |-> r, limitIp |-> 0, speedLimit |-> 0, totalGB |-> 0, expiryTime |-> 0, enable |-> TRUE,
     tgId |-> "", subId |-> r, comment |-> "", reset |-> 0]

\* The two times have no default: they are there when the server has set them.
Client(credential, json, r) ==
    With(New(With(ClientLimits(r), credential), json), Only(json, {"created_at", "updated_at"}))

\* A Shadowsocks password is what was drawn and its length in bytes.
randomShadowsocksPassword(method, r) ==
    [draw |-> r, bytes |-> IF method = "2022-blake3-aes-128-gcm" THEN 16 ELSE 32]
defaultMethod == "2022-blake3-aes-256-gcm"

VMESS(json, r)       == Client([id |-> r, security |-> "auto"], json, r)
VLESS(json, r)       == Client([id |-> r, flow |-> ""], json, r)
Trojan(json, r)      == Client([password |-> r], json, r)
Shadowsocks(json, r) ==
    Client([method |-> "", password |-> randomShadowsocksPassword(defaultMethod, r)], json, r)

\* A fallback posts 0 for an xver that is no number (a cleared field is "null").
Fallback(json) == New([name |-> "", alpn |-> "", path |-> "", dest |-> "", xver |-> "0"], json)
FallbackJson(fallback) == [fallback EXCEPT !.xver = IF @ = "null" THEN "0" ELSE @]

VmessSettings(json, r) == [clients |-> Map(json.clients, LAMBDA c : VMESS(c, r))]

VLESSSettings(json, r) ==
    [New([clients |-> <<>>, decryption |-> "none", encryption |-> "", fallbacks |-> <<>>,
          selectedAuth |-> "X25519, not Post-Quantum"], json)
       EXCEPT !.clients = Map(@, LAMBDA c : VLESS(c, r)), !.fallbacks = Map(@, Fallback)]

\* An empty decryption, encryption or list of fallbacks is not posted.
VLESSSettingsJson(settings) ==
    LET json == [settings EXCEPT !.fallbacks = Map(@, FallbackJson)]
    IN  Only(json, {"clients", "selectedAuth"}
                   \cup {key \in {"decryption", "encryption"} : json[key] # ""}
                   \cup (IF json.fallbacks = <<>> THEN {} ELSE {"fallbacks"}))

TrojanSettings(json, r) ==
    [clients   |-> Map(json.clients, LAMBDA c : Trojan(c, r)),
     fallbacks |-> Map(Or(json, "fallbacks", <<>>), Fallback)]

TrojanSettingsJson(settings) == [settings EXCEPT !.fallbacks = Map(@, FallbackJson)]

ShadowsocksSettings(json, r) ==
    [New([method |-> defaultMethod, password |-> randomShadowsocksPassword(defaultMethod, r),
          network |-> "tcp,udp", clients |-> <<>>, ivCheck |-> FALSE], json)
       EXCEPT !.clients = Map(@, LAMBDA c : Shadowsocks(c, r))]

\* The address and the port of a tunnel have no default.
TunnelSettings(json) ==
    With([New([portMap |-> <<>>, network |-> "tcp,udp", followRedirect |-> FALSE], json)
            EXCEPT !.portMap = toHeaders(@)],
         Only(json, {"address", "port"}))

TunnelSettingsJson(settings) == [settings EXCEPT !.portMap = toV2Headers(@, FALSE)]

Account(json, r) == New([user |-> r, pass |-> r], json)

\* Accounts are read, and posted, only for password authentication; without them
\* the constructor makes one.
SocksSettings(json, r) ==
    LET password == Or(json, "auth", "") = "password"
    IN  With(New([auth |-> "password", udp |-> FALSE, ip |-> "127.0.0.1"], json),
             [accounts |-> Map(IF password THEN json.accounts ELSE <<NoJson>>, LAMBDA a : Account(a, r))])

SocksSettingsJson(settings) ==
    Only(settings, {"auth", "udp", "ip"} \cup (IF settings.auth = "password" THEN {"accounts"} ELSE {}))

HttpSettings(json, r) ==
    [New([accounts |-> <<>>, allowTransparent |-> FALSE], json)
       EXCEPT !.accounts = Map(@, LAMBDA a : Account(a, r))]

\* A WireGuard key is a sequence, empty when there is none; the public key is
\* computed from the private one.
PublicOf(key) == <<"public">> \o key

\* An address without a mask gets /32.
WithMask(ips) == Map(ips, LAMBDA a : IF a.ip # "" /\ a.mask = "" THEN [a EXCEPT !.mask = "/32"] ELSE a)

\* A peer without a public key gets a new pair, whatever its private key was.
Peer(json, r) ==
    LET peer == New([privateKey |-> <<>>, publicKey |-> <<>>, preSharedKey |-> "",
                     allowedIPs |-> <<[ip |-> "10.0.0.2", mask |-> "/32"]>>, keepAlive |-> 0], json)
        pair == [privateKey |-> <<r>>, publicKey |-> PublicOf(<<r>>)]
    IN  With([peer EXCEPT !.allowedIPs = WithMask(@)], Given(peer.publicKey = <<>>, pair))

PeerJson(peer) ==
    [key \in DOMAIN peer \ (IF peer.preSharedKey = "" THEN {"preSharedKey"} ELSE {}) |->
        IF key = "allowedIPs" THEN WithMask(peer.allowedIPs) ELSE peer[key]]

WireguardSettings(json, r) ==
    LET settings == New([mtu |-> 1420, secretKey |-> <<r>>, peers |-> <<>>, noKernelTun |-> FALSE], json)
    IN  With([settings EXCEPT !.peers = Map(@, LAMBDA p : Peer(p, r))],
             [pubKey |-> IF settings.secretKey = <<>> THEN <<>> ELSE PublicOf(settings.secretKey)])

WireguardSettingsJson(settings) ==
    [key \in DOMAIN settings \ {"pubKey"} |->
        IF key = "peers" THEN Map(settings.peers, PeerJson) ELSE settings[key]]

Settings(protocol, json, r) ==
    CASE protocol = "vmess"       -> VmessSettings(json, r)
      [] protocol = "vless"       -> VLESSSettings(json, r)
      [] protocol = "trojan"      -> TrojanSettings(json, r)
      [] protocol = "shadowsocks" -> ShadowsocksSettings(json, r)
      [] protocol = "tunnel"      -> TunnelSettings(json)
      [] protocol = "socks"       -> SocksSettings(json, r)
      [] protocol = "http"        -> HttpSettings(json, r)
      [] protocol = "wireguard"   -> WireguardSettings(json, r)

SettingsJson(protocol, settings) ==
    CASE protocol = "vless"     -> VLESSSettingsJson(settings)
      [] protocol = "trojan"    -> TrojanSettingsJson(settings)
      [] protocol = "tunnel"    -> TunnelSettingsJson(settings)
      [] protocol = "socks"     -> SocksSettingsJson(settings)
      [] protocol = "wireguard" -> WireguardSettingsJson(settings)
      [] OTHER                  -> settings

\* getSettings: the constructor's default is a list with one new client, account or peer.
getSettings(protocol, r) ==
    LET one == <<NoJson>>
    IN  Settings(protocol, [clients |-> one, accounts |-> one, peers |-> one, auth |-> "password"], r)

(*-------------------------------- inbounds ------------------------------*)
InboundFromJson(json, r) ==
    [listen |-> Or(json, "listen", ""), port |-> json.port, protocol |-> json.protocol,
     settings |-> Settings(json.protocol, json.settings, r),
     stream   |-> StreamSettings(json.streamSettings, r),
     sniffing |-> Sniffing(json.sniffing)]

NewInbound(port, r) ==
    [listen |-> "", port |-> port, protocol |-> "vless", settings |-> getSettings("vless", r),
     stream |-> StreamSettings(NoJson, r), sniffing |-> Sniffing(NoJson)]

\* The protocol setter replaces the settings and leaves the stream alone.
SetProtocol(inbound, protocol, r) ==
    [inbound EXCEPT !.protocol = protocol, !.settings = getSettings(protocol, r)]

isSS2022(inbound) ==
    inbound.protocol = "shadowsocks" /\
    inbound.settings.method \in {"2022-blake3-aes-128-gcm", "2022-blake3-aes-256-gcm",
                                 "2022-blake3-chacha20-poly1305"}
isSSMultiUser(inbound) ==
    inbound.protocol = "shadowsocks" => inbound.settings.method # "2022-blake3-chacha20-poly1305"

canEnableStream(inbound) == inbound.protocol \in {"vmess", "vless", "trojan", "shadowsocks"}
canEnableTls(inbound) ==
    /\ canEnableStream(inbound)
    /\ inbound.stream.network \in {"tcp", "ws", "http", "grpc", "httpupgrade", "xhttp"}
canEnableTlsFlow(inbound) ==
    /\ inbound.stream.security \in {"tls", "reality"}
    /\ inbound.stream.network = "tcp"
    /\ inbound.protocol = "vless"
canEnableReality(inbound) ==
    /\ inbound.protocol \in {"vless", "trojan"}
    /\ inbound.stream.network \in {"tcp", "http", "grpc", "xhttp"}

\* The inbound's clients, for the protocols that have them.
clients(inbound) ==
    IF canEnableStream(inbound) /\ isSSMultiUser(inbound) THEN inbound.settings.clients ELSE <<>>

\* The stream settings are posted for the protocols that use them, or with a sockopt.
InboundJson(inbound) ==
    [listen |-> inbound.listen, port |-> inbound.port, protocol |-> inbound.protocol,
     settings       |-> SettingsJson(inbound.protocol, inbound.settings),
     streamSettings |-> Given(canEnableStream(inbound) \/ inbound.stream.sockopt # NoJson,
                              StreamSettingsJson(inbound.stream)),
     sniffing       |-> inbound.sniffing]

===========================================================================
