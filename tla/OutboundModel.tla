--------------------------- MODULE OutboundModel ---------------------------
(***************************************************************************)
(* The classes of the outbound form (web/assets/js/model/outbound.js).  As *)
(* in InboundModel, C(json) is C.fromJson(json) with the constructor's     *)
(* defaults, CJson(object) is object.toJson(), and an object has its       *)
(* fields under the names of its JSON form.  A field the constructor gives *)
(* no default is absent when the JSON has none.                            *)
(***************************************************************************)
EXTENDS JsonValues

NotEmpty(keys, json) == {key \in keys \cap DOMAIN json : json[key] # ""}

(*---------------------------- stream settings ---------------------------*)
\* The form keeps the Host header and the paths as texts: an empty text and an
\* undefined one read the same.
TcpStreamSettings(json) ==
    LET header == Or(json, "header", NoJson)
        type   == Or(header, "type", "none")
        http   == type = "http" /\ "request" \in DOMAIN header
    IN  [type |-> type,
         host |-> IF http THEN Joined(header.request.headers.Host) ELSE EmptyText,
         path |-> IF http THEN Joined(header.request.path) ELSE EmptyText]

TcpStreamSettingsJson(tcp) ==
    LET request == [headers |-> [Host |-> IF tcp.host = EmptyText THEN <<>> ELSE tcp.host],
                    path    |-> IF tcp.path = EmptyText THEN <<"/">> ELSE tcp.path]
    IN  [header |-> With([type |-> tcp.type], Given(tcp.type = "http", [request |-> request]))]

KcpStreamSettings(json) ==
    With(New([mtu |-> 1350, tti |-> 50, uplinkCapacity |-> 5, downlinkCapacity |-> 20,
              congestion |-> FALSE, readBufferSize |-> 2, writeBufferSize |-> 2, seed |-> ""], json),
         [type |-> Or(Or(json, "header", NoJson), "type", "none")])

KcpStreamSettingsJson(kcp) == With(Only(kcp, DOMAIN kcp \ {"type"}), [header |-> [type |-> kcp.type]])

WsStreamSettings(json) == New([path |-> <<"/">>, host |-> EmptyText, heartbeatPeriod |-> 0], json)

GrpcStreamSettings(json) ==
    New([serviceName |-> EmptyText, authority |-> EmptyText, multiMode |-> FALSE], json)

HttpUpgradeStreamSettings(json) == New([path |-> <<"/">>, host |-> EmptyText], json)

xHTTPStreamSettings(json) ==
    New([path |-> <<"/">>, host |-> EmptyText, mode |-> "", noGRPCHeader |-> FALSE,
         scMinPostsIntervalMs |-> "30",
         xmux |-> [maxConcurrency |-> "16-32", maxConnections |-> 0, cMaxReuseTimes |-> 0,
                   hMaxRequestTimes |-> "600-900", hMaxReusableSecs |-> "1800-3000",
                   hKeepAlivePeriod |-> 0]], json)

TlsStreamSettings(json) ==
    New([serverName |-> EmptyText, alpn |-> <<>>, fingerprint |-> "", allowInsecure |-> FALSE,
         echConfigList |-> EmptyText], json)

RealityStreamSettings(json) ==
    New([publicKey |-> "", fingerprint |-> "", serverName |-> EmptyText, shortId |-> "",
         spiderX |-> EmptyText, mldsa65Verify |-> ""], json)

SockoptStreamSettings(json) ==
    Given(json # NoJson,
          New([dialerProxy |-> "", tcpFastOpen |-> FALSE, tcpKeepAliveInterval |-> 0, tcpMptcp |-> FALSE,
               penetrate |-> FALSE, addressPortStrategy |-> "none"], json))

\* new StreamSettings(network, security) is StreamSettings of those two keys.
StreamSettings(json) ==
    LET Part(key) == Or(json, key, NoJson)
    IN  [network             |-> Or(json, "network", "tcp"),
         security            |-> Or(json, "security", "none"),
         tlsSettings         |-> TlsStreamSettings(Part("tlsSettings")),
         realitySettings     |-> RealityStreamSettings(Part("realitySettings")),
         tcpSettings         |-> TcpStreamSettings(Part("tcpSettings")),
         kcpSettings         |-> KcpStreamSettings(Part("kcpSettings")),
         wsSettings          |-> WsStreamSettings(Part("wsSettings")),
         grpcSettings        |-> GrpcStreamSettings(Part("grpcSettings")),
         httpupgradeSettings |-> HttpUpgradeStreamSettings(Part("httpupgradeSettings")),
         xhttpSettings       |-> xHTTPStreamSettings(Part("xhttpSettings")),
         sockopt             |-> SockoptStreamSettings(Part("sockopt"))]

\* Only the settings of the chosen network and of the chosen security are saved.
StreamSettingsJson(stream) ==
    Only([stream EXCEPT !.tcpSettings = TcpStreamSettingsJson(@),
                        !.kcpSettings = KcpStreamSettingsJson(@)],
         {"network", "security", stream.network \o "Settings", stream.security \o "Settings"}
         \cup (IF stream.sockopt = NoJson THEN {} ELSE {"sockopt"}))

\* Mux.fromJson makes no object of {}, and Outbound makes a new one of none.
Mux(json) ==
    New([enabled |-> FALSE, concurrency |-> 8, xudpConcurrency |-> 16, xudpProxyUDP443 |-> "reject"], json)

(*------------------------- settings of a protocol -----------------------*)
Fragment(json) == New([packets |-> "1-3", length |-> "", interval |-> "", maxSplit |-> ""], json)
Noise(json)    == New([type |-> "rand", packet |-> "10-20", delay |-> "10-16", applyTo |-> "ip"], json)

FreedomSettings(json) ==
    [domainStrategy |-> Or(json, "domainStrategy", ""),
     redirect       |-> Or(json, "redirect", ""),
     fragment       |-> IF "fragment" \in DOMAIN json THEN Fragment(json.fragment) ELSE NoJson,
     noises         |-> Map(Or(json, "noises", <<>>), Noise)]

FreedomSettingsJson(settings) ==
    Only(settings, NotEmpty({"domainStrategy", "redirect"}, settings)
                   \cup {key \in {"fragment", "noises"} : settings[key] # <<>>})

BlackholeSettings(json)         == Only(Or(json, "response", NoJson), {"type"})
BlackholeSettingsJson(settings) == Given(NotEmpty({"type"}, settings) # {}, [response |-> settings])

DNSSettings(json) ==
    New([network |-> "udp", address |-> "", port |-> 53, nonIPQuery |-> "reject", blockTypes |-> <<>>], json)

\* vnext: one server with one user, flattened in the form.  (With no vnext at
\* all the code fails on vnext[0]; an empty list gives an empty form.)
Vnext(json, keys) ==
    IF json.vnext = <<>> THEN NoJson
    ELSE With(Only(json.vnext[1], {"address", "port"}), Only(json.vnext[1].users[1], keys))
VnextJson(settings, keys) ==
    [vnext |-> <<With(Only(settings, {"address", "port"}), [users |-> <<Only(settings, keys)>>])>>]

VmessSettings(json)         == Vnext(json, {"id", "security"})
VmessSettingsJson(settings) == VnextJson(settings, {"id", "security"})
VLESSSettings(json)         == Vnext(json, {"id", "flow", "encryption"})
VLESSSettingsJson(settings) == VnextJson(settings, {"id", "flow", "encryption"})

\* servers: one server; an empty list gives an empty form.
Server(json, keys) == IF json.servers = <<>> THEN NoJson ELSE Only(json.servers[1], keys)

trojanKeys == {"address", "port", "password"}
TrojanSettings(json)         == Server(json, trojanKeys)
TrojanSettingsJson(settings) == [servers |-> <<settings>>]

shadowsocksKeys == {"address", "port", "password", "method", "uot", "UoTVersion"}
ShadowsocksSettings(json)         == Server(json, shadowsocksKeys)
ShadowsocksSettingsJson(settings) == [servers |-> <<settings>>]

\* The list of users may be empty, which the form shows as an empty user.  (The
\* code fails when there is no list: isArrEmpty(undefined) is false.)
SocksSettings(json) ==
    IF json.servers = <<>> THEN NoJson
    ELSE LET users == json.servers[1].users
         IN  With(Only(json.servers[1], {"address", "port"}),
                  IF users = <<>> THEN [user |-> "", pass |-> ""] ELSE Only(users[1], {"user", "pass"}))

SocksSettingsJson(settings) ==
    LET users == IF NotEmpty({"user"}, settings) = {} THEN <<>> ELSE <<Only(settings, {"user", "pass"})>>
    IN  [servers |-> <<With(Only(settings, {"address", "port"}), [users |-> users])>>]

HttpSettings(json)         == SocksSettings(json)
HttpSettingsJson(settings) == SocksSettingsJson(settings)

Peer(json) ==
    New([publicKey |-> "", preSharedKey |-> "", allowedIPs |-> <<"0.0.0.0/0", "::/0">>, endpoint |-> "",
         keepAlive |-> 0], json)
PeerJson(peer) ==
    Only(peer, DOMAIN peer \ (IF peer.preSharedKey = "" THEN {"preSharedKey"} ELSE {}))

\* address and reserved are lists in the JSON and texts in the form; the public
\* key is computed from the private one, a sequence that is empty for no key.
WireguardSettings(json) ==
    LET settings == [New([mtu |-> 1420, secretKey |-> <<>>, address |-> EmptyText, workers |-> 2,
                          domainStrategy |-> "", reserved |-> EmptyText, peers |-> <<NoJson>>,
                          noKernelTun |-> FALSE], json)
                       EXCEPT !.address = Joined(@), !.reserved = Joined(@), !.peers = Map(@, Peer)]
    IN  With(settings, [pubKey |-> IF settings.secretKey = <<>> THEN <<>>
                                   ELSE <<"public">> \o settings.secretKey])

WireguardDomainStrategy == {"ForceIP", "ForceIPv4", "ForceIPv4v6", "ForceIPv6", "ForceIPv6v4"}

\* Mutant: the reserved bytes are forgotten.
WireguardSettingsJson_NoReserved(settings) ==
    Only([settings EXCEPT !.address = IF @ = EmptyText THEN <<>> ELSE @, !.peers = Map(@, PeerJson)],
         {"mtu", "secretKey", "address", "workers", "domainStrategy", "peers", "noKernelTun"})

WireguardSettingsJson(settings) ==
    Only([settings EXCEPT !.address = IF @ = EmptyText THEN <<>> ELSE @, !.peers = Map(@, PeerJson)],
         {"mtu", "secretKey", "address", "workers", "peers", "noKernelTun"}
         \cup (IF settings.domainStrategy \in WireguardDomainStrategy THEN {"domainStrategy"} ELSE {})
         \cup (IF settings.reserved = EmptyText THEN {} ELSE {"reserved"}))

Settings(protocol, json) ==
    CASE protocol = "freedom"     -> FreedomSettings(json)
      [] protocol = "blackhole"   -> BlackholeSettings(json)
      [] protocol = "dns"         -> DNSSettings(json)
      [] protocol = "vmess"       -> VmessSettings(json)
      [] protocol = "vless"       -> VLESSSettings(json)
      [] protocol = "trojan"      -> TrojanSettings(json)
      [] protocol = "shadowsocks" -> ShadowsocksSettings(json)
      [] protocol = "socks"       -> SocksSettings(json)
      [] protocol = "http"        -> HttpSettings(json)
      [] protocol = "wireguard"   -> WireguardSettings(json)

SettingsJson(protocol, settings) ==
    CASE protocol = "freedom"     -> FreedomSettingsJson(settings)
      [] protocol = "blackhole"   -> BlackholeSettingsJson(settings)
      [] protocol = "dns"         -> settings
      [] protocol = "vmess"       -> VmessSettingsJson(settings)
      [] protocol = "vless"       -> VLESSSettingsJson(settings)
      [] protocol = "trojan"      -> TrojanSettingsJson(settings)
      [] protocol = "shadowsocks" -> ShadowsocksSettingsJson(settings)
      [] protocol = "socks"       -> SocksSettingsJson(settings)
      [] protocol = "http"        -> HttpSettingsJson(settings)
      [] protocol = "wireguard"   -> WireguardSettingsJson(settings)

\* getSettings: the constructors without arguments.
getSettings(protocol) ==
    IF protocol \in {"freedom", "blackhole", "dns", "wireguard"} THEN Settings(protocol, NoJson) ELSE NoJson

(*------------------------------- outbounds ------------------------------*)
canEnableStream(outbound) == outbound.protocol \in {"vmess", "vless", "trojan", "shadowsocks"}
canEnableTls(outbound) ==
    /\ canEnableStream(outbound)
    /\ outbound.stream.network \in {"tcp", "ws", "http", "grpc", "httpupgrade", "xhttp"}
canEnableTlsFlow(outbound) ==
    /\ outbound.stream.security # "none"
    /\ outbound.stream.network = "tcp"
    /\ outbound.protocol = "vless"
canEnableReality(outbound) ==
    /\ outbound.protocol \in {"vless", "trojan"}
    /\ outbound.stream.network \in {"tcp", "http", "grpc", "xhttp"}

\* Asking whether the form may show Mux switches it off for a flow and for xhttp.
canEnableMux(outbound) ==
    IF Or(outbound.settings, "flow", "") # "" \/ outbound.stream.network = "xhttp"
    THEN [outbound EXCEPT !.mux.enabled = FALSE] ELSE outbound

OutboundFromJson(json) ==
    [tag |-> Or(json, "tag", EmptyText), protocol |-> Or(json, "protocol", "vless"),
     settings    |-> Settings(json.protocol, Or(json, "settings", NoJson)),
     stream      |-> StreamSettings(Or(json, "streamSettings", NoJson)),
     sendThrough |-> Or(json, "sendThrough", ""),
     mux         |-> Mux(Or(json, "mux", NoJson))]

NewOutbound(tag, protocol, settings, stream) ==
    [tag |-> tag, protocol |-> protocol, settings |-> settings, stream |-> stream,
     sendThrough |-> "", mux |-> Mux(NoJson)]

\* The protocol setter replaces the settings and the stream.
SetProtocol(outbound, protocol) ==
    [outbound EXCEPT !.protocol = protocol, !.settings = getSettings(protocol),
                     !.stream = StreamSettings(NoJson)]

OutboundJson(outbound) ==
    LET stream == IF canEnableStream(outbound) THEN StreamSettingsJson(outbound.stream)
                  ELSE Only(outbound.stream, IF outbound.stream.sockopt = NoJson THEN {} ELSE {"sockopt"})
    IN  With(With([protocol |-> outbound.protocol,
                   settings |-> SettingsJson(outbound.protocol, outbound.settings)],
                  Only(outbound, NotEmpty({"sendThrough"}, outbound)
                                 \cup (IF outbound.tag = EmptyText THEN {} ELSE {"tag"})
                                 \cup (IF outbound.mux.enabled THEN {"mux"} ELSE {}))),
             Given(stream # NoJson, [streamSettings |-> stream]))

===========================================================================
