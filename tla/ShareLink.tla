----------------------------- MODULE ShareLink -----------------------------
(***************************************************************************)
(* The links the inbound pages hand out for a client, and the outbound     *)
(* another panel makes of such a link (genLink and genAllLinks of          *)
(* web/assets/js/model/inbound.js, fromLink of outbound.js).  A link is    *)
(* its scheme and what it carries: VMess one JSON object, the others user  *)
(* data, address, port, a table of parameters and the remark.  Identifiers *)
(* and passwords are the drawn ones, which no part of a URL escapes.       *)
(***************************************************************************)
EXTENDS JsonValues

In  == INSTANCE InboundModel
Out == INSTANCE OutboundModel

CONSTANT Hostname    \* location.hostname: the name the panel is reached by

(*------------------------------ generating ------------------------------*)
SameName(a, b) == a = b \/ {a, b} = {"Host", "host"}     \* toLowerCase, for the names used here

\* The first header of that name, or the empty text.
getHeader(object, name) ==
    LET at == {i \in DOMAIN object.headers : SameName(object.headers[i].name, name)}
    IN  IF at = {} THEN EmptyText
        ELSE object.headers[CHOOSE i \in at : \A j \in at : i <= j].value

hostOf(settings) == IF settings.host # EmptyText THEN settings.host ELSE getHeader(settings, "host")

\* forceTls of an external proxy: "same" keeps the inbound's security.
linkSecurity(inbound, forceTls) == IF forceTls = "same" THEN inbound.stream.security ELSE forceTls

\* What a VMess link says of the stream.  What is left out when empty reads as
\* empty, so it is written here.
vmessStream(stream) ==
    LET n == stream.network
        tcp == stream.tcpSettings   kcp == stream.kcpSettings   ws == stream.wsSettings
        grpc == stream.grpcSettings   up == stream.httpupgradeSettings   xhttp == stream.xhttpSettings
    IN  CASE n = "tcp"  -> With([type |-> tcp.type],
                             Given(tcp.type = "http", [path |-> tcp.request.path,
                                                       host |-> getHeader(tcp.request, "host")]))
          [] n = "kcp"  -> [type |-> kcp.type, path |-> <<kcp.seed>>]
          [] n = "ws"   -> [path |-> ws.path, host |-> hostOf(ws)]
          [] n = "grpc" -> With([path |-> grpc.serviceName, authority |-> grpc.authority],
                             Given(grpc.multiMode, [type |-> "multi"]))
          [] n = "httpupgrade" -> [path |-> up.path, host |-> hostOf(up)]
          [] n = "xhttp"       -> [path |-> xhttp.path, host |-> hostOf(xhttp), type |-> xhttp.mode]

genVmessLink(inbound, address, port, forceTls, remark, client) ==
    LET tls      == linkSecurity(inbound, forceTls)
        settings == inbound.stream.tlsSettings
    IN  [scheme |-> "vmess",
         json |-> With(With([ps |-> remark, add |-> address, port |-> port, id |-> client.id,
                             scy |-> client.security, net |-> inbound.stream.network, tls |-> tls],
                            vmessStream(inbound.stream)),
                       Given(tls = "tls", [sni  |-> settings.serverName,
                                           fp   |-> settings.settings.fingerprint,
                                           alpn |-> settings.alpn,
                                           allowInsecure |-> settings.settings.allowInsecure]))]

\* The parameters of the other links for the network ...
networkParams(stream) ==
    LET n == stream.network
        tcp == stream.tcpSettings   kcp == stream.kcpSettings   ws == stream.wsSettings
        grpc == stream.grpcSettings   up == stream.httpupgradeSettings   xhttp == stream.xhttpSettings
    IN  With([type |-> n],
          CASE n = "tcp"  -> Given(tcp.type = "http", [path |-> tcp.request.path, headerType |-> "http",
                                                       host |-> getHeader(tcp.request, "host")])
            [] n = "kcp"  -> [headerType |-> kcp.type, seed |-> kcp.seed]
            [] n = "ws"   -> [path |-> ws.path, host |-> hostOf(ws)]
            [] n = "grpc" -> With([serviceName |-> grpc.serviceName, authority |-> grpc.authority],
                               Given(grpc.multiMode, [mode |-> "multi"]))
            [] n = "httpupgrade" -> [path |-> up.path, host |-> hostOf(up)]
            [] n = "xhttp"       -> [path |-> xhttp.path, host |-> hostOf(xhttp), mode |-> xhttp.mode])

\* ... and for the security, which says nothing of TLS when it is only forced.
tlsParams_NoInsecure(stream) ==   \* mistake: allowInsecure is left out
    With([security |-> "tls"],
         Given(stream.security = "tls",
               [fp   |-> stream.tlsSettings.settings.fingerprint,
                alpn |-> stream.tlsSettings.alpn,
                sni  |-> stream.tlsSettings.serverName,
                ech  |-> stream.tlsSettings.settings.echConfigList]))
tlsParams(stream) ==
    With([security |-> "tls"],
         Given(stream.security = "tls",
               [fp   |-> stream.tlsSettings.settings.fingerprint,
                alpn |-> stream.tlsSettings.alpn,
                sni  |-> stream.tlsSettings.serverName,
                ech  |-> stream.tlsSettings.settings.echConfigList,
                allowInsecure |-> stream.tlsSettings.settings.allowInsecure]))

realityParams(stream) ==
    LET reality == stream.realitySettings
    IN  [security |-> "reality", pbk |-> reality.settings.publicKey, fp |-> reality.settings.fingerprint,
         sni |-> <<reality.serverNames[1]>>, sid |-> reality.shortIds[1],
         spx |-> reality.settings.spiderX, pqv |-> reality.settings.mldsa65Verify]

securityParams(inbound, security) ==
    CASE security = "tls"     -> tlsParams(inbound.stream)
      [] security = "reality" -> realityParams(inbound.stream)
      [] OTHER                -> [security |-> "none"]

genVLESSLink(inbound, address, port, forceTls, remark, client) ==
    LET security == linkSecurity(inbound, forceTls)
        flows    == \/ security = "tls" /\ inbound.stream.security = "tls"
                    \/ security = "reality"
    IN  [scheme |-> "vless", user |-> client.id, address |-> address, port |-> port, remark |-> remark,
         params |-> With(With(With(networkParams(inbound.stream),
                                   [encryption |-> IF inbound.settings.encryption = "" THEN "none"
                                                   ELSE inbound.settings.encryption]),
                              securityParams(inbound, security)),
                         Given(flows /\ inbound.stream.network = "tcp" /\ client.flow # "",
                               [flow |-> client.flow]))]

genTrojanLink(inbound, address, port, forceTls, remark, client) ==
    [scheme |-> "trojan", user |-> client.password, address |-> address, port |-> port, remark |-> remark,
     params |-> With(networkParams(inbound.stream),
                     securityParams(inbound, linkSecurity(inbound, forceTls)))]

\* The user data of a Shadowsocks link: the method, then the server's password
\* for a 2022 method and the client's for a method with several users.
passwords(inbound, client) ==
    (IF In!isSS2022(inbound) THEN <<inbound.settings.password>> ELSE <<>>) \o
    (IF In!isSSMultiUser(inbound) THEN <<client.password>> ELSE <<>>)

\* No security but TLS is written in it.
genSSLink(inbound, address, port, forceTls, remark, client) ==
    [scheme |-> "ss", user |-> <<inbound.settings.method>> \o passwords(inbound, client),
     address |-> address, port |-> port, remark |-> remark,
     params |-> With(networkParams(inbound.stream),
                     Given(linkSecurity(inbound, forceTls) = "tls", tlsParams(inbound.stream)))]

genLink(inbound, address, port, forceTls, remark, client) ==
    CASE inbound.protocol = "vmess"  -> genVmessLink(inbound, address, port, forceTls, remark, client)
      [] inbound.protocol = "vless"  -> genVLESSLink(inbound, address, port, forceTls, remark, client)
      [] inbound.protocol = "trojan" -> genTrojanLink(inbound, address, port, forceTls, remark, client)
      [] inbound.protocol = "shadowsocks" -> genSSLink(inbound, address, port, forceTls, remark, client)

\* Where a client reaches the inbound: the external proxies, or else the address
\* it listens on and, when that is every address, the panel's own name.
endpoints(inbound) ==
    LET listen == IF inbound.listen \in {"", "0.0.0.0"} THEN Hostname ELSE inbound.listen
    IN  IF inbound.stream.externalProxy # <<>> THEN inbound.stream.externalProxy
        ELSE <<[forceTls |-> "same", dest |-> listen, port |-> inbound.port, remark |-> ""]>>

\* The remark of a link: the inbound's, the client's email and the proxy's, in the
\* order of the remark model, the empty ones left out.
linkRemark(remark, email, ep, order) ==
    LET part == [i |-> remark, e |-> email, o |-> ep.remark]
    IN  Joined(SelectSeq(Map(order, LAMBDA c : part[c]), LAMBDA text : text # ""))

genAllLinks(inbound, remark, order, client) ==
    Map(endpoints(inbound), LAMBDA ep :
        LET r == linkRemark(remark, client.email, ep, order)
        IN  [remark |-> r, link |-> genLink(inbound, ep.dest, ep.port, ep.forceTls, r, client)])

(*------------------------------- importing ------------------------------*)
\* new StreamSettings(network, security) with the settings of the network and of
\* the security replaced by objects made of the link.
streamOf(network, security, transport, secured) ==
    With(With(Out!StreamSettings([network |-> network, security |-> security]), transport), secured)

\* The kcp type and seed are written to the stream, not to its kcp settings, and
\* the xhttp mode is read under a name the link does not have.
fromVmessLink(json) ==
    LET n == json.net
        transport ==
          CASE n = "tcp"  -> [tcpSettings |-> [type |-> json.type, host |-> Or(json, "host", EmptyText),
                                               path |-> Or(json, "path", EmptyText)]]
            [] n = "kcp"  -> NoJson
            [] n = "ws"   -> [wsSettings |-> Out!WsStreamSettings(Only(json, {"path", "host"}))]
            [] n = "grpc" -> [grpcSettings |-> Out!GrpcStreamSettings(
                                [serviceName |-> json.path, authority |-> json.authority,
                                 multiMode |-> Or(json, "type", "") = "multi"])]
            [] n = "httpupgrade" -> [httpupgradeSettings |->
                                       Out!HttpUpgradeStreamSettings(Only(json, {"path", "host"}))]
            [] n = "xhttp" -> [xhttpSettings |-> Out!xHTTPStreamSettings(Only(json, {"path", "host", "mode"}))]
        secured == [tlsSettings |-> Out!TlsStreamSettings(
                      [serverName |-> json.sni, alpn |-> json.alpn, fingerprint |-> json.fp,
                       allowInsecure |-> json.allowInsecure])]
    IN  Out!NewOutbound(json.ps, "vmess",
          [address |-> json.add, port |-> json.port, id |-> json.id, security |-> json.scy],
          streamOf(n, json.tls, transport, Given(json.tls = "tls", secured)))

\* The kcp seed is read from `path`, which no link has for kcp.
fromParamLink(link) ==
    LET p        == link.params
        n        == Or(p, "type", "tcp")
        security == Or(p, "security", "none")
        transport ==
          CASE n = "tcp"  -> [tcpSettings |-> [type |-> Or(p, "headerType", "none"),
                                               host |-> Or(p, "host", EmptyText),
                                               path |-> Or(p, "path", EmptyText)]]
            [] n = "kcp"  -> [kcpSettings |-> With(Out!KcpStreamSettings(NoJson),
                                                   [type |-> Or(p, "headerType", "none")])]
            [] n = "ws"   -> [wsSettings |-> Out!WsStreamSettings(Only(p, {"path", "host"}))]
            [] n = "grpc" -> [grpcSettings |-> [serviceName |-> Or(p, "serviceName", EmptyText),
                                                authority   |-> Or(p, "authority", EmptyText),
                                                multiMode   |-> Or(p, "mode", "") = "multi"]]
            [] n = "httpupgrade" -> [httpupgradeSettings |->
                                       Out!HttpUpgradeStreamSettings(Only(p, {"path", "host"}))]
            [] n = "xhttp" -> [xhttpSettings |-> Out!xHTTPStreamSettings(Only(p, {"path", "host", "mode"}))]
        tls     == [serverName |-> Or(p, "sni", EmptyText), alpn |-> Or(p, "alpn", <<>>),
                    fingerprint |-> Or(p, "fp", "none"), allowInsecure |-> Or(p, "allowInsecure", FALSE),
                    echConfigList |-> Or(p, "ech", EmptyText)]
        reality == [publicKey |-> Or(p, "pbk", ""), fingerprint |-> Or(p, "fp", ""),
                    serverName |-> Or(p, "sni", EmptyText), shortId |-> Or(p, "sid", ""),
                    spiderX |-> Or(p, "spx", EmptyText), mldsa65Verify |-> Or(p, "pqv", "")]
        protocol == IF link.scheme = "ss" THEN "shadowsocks" ELSE link.scheme
        at       == [address |-> link.address, port |-> link.port]
        settings ==
          CASE protocol = "vless"  -> With(at, [id |-> link.user, flow |-> Or(p, "flow", ""),
                                                encryption |-> Or(p, "encryption", "none")])
            [] protocol = "trojan" -> With(at, [password |-> link.user])
            [] protocol = "shadowsocks" -> With(at, [method |-> Head(link.user), uot |-> TRUE,
                                                     password |-> Tail(link.user)])
    IN  Out!NewOutbound(IF link.remark = EmptyText THEN <<"out", protocol>> ELSE link.remark,
                        protocol, settings,
                        streamOf(n, security, transport,
                                 With(Given(security = "tls", [tlsSettings |-> tls]),
                                      Given(security = "reality", [realitySettings |-> reality]))))

fromLink(link) == IF link.scheme = "vmess" THEN fromVmessLink(link.json) ELSE fromParamLink(link)

(*--------------------- what an imported link must say -------------------*)
\* The outbound's network settings reach the inbound.  The seed of kcp, its type
\* in a VMess link and the xhttp mode of one are lost on the way.
SameNetwork(stream, out, protocol) ==
    LET n == stream.network
        tcp == stream.tcpSettings.request
    IN  /\ out.network = n
        /\ n = "tcp" => /\ out.tcpSettings.type = stream.tcpSettings.type
                        /\ stream.tcpSettings.type = "http" =>
                             /\ out.tcpSettings.path = tcp.path
                             /\ out.tcpSettings.host = getHeader(tcp, "host")
        /\ n = "kcp" /\ protocol # "vmess" => out.kcpSettings.type = stream.kcpSettings.type
        /\ n = "ws" => /\ out.wsSettings.path = stream.wsSettings.path
                       /\ out.wsSettings.host = hostOf(stream.wsSettings)
        /\ n = "grpc" => out.grpcSettings = stream.grpcSettings
        /\ n = "httpupgrade" => /\ out.httpupgradeSettings.path = stream.httpupgradeSettings.path
                                /\ out.httpupgradeSettings.host = hostOf(stream.httpupgradeSettings)
        /\ n = "xhttp" => /\ out.xhttpSettings.path = stream.xhttpSettings.path
                          /\ out.xhttpSettings.host = hostOf(stream.xhttpSettings)
                          /\ protocol # "vmess" => out.xhttpSettings.mode = stream.xhttpSettings.mode

\* Its security settings are accepted by the inbound.  A link of a protocol that
\* knows no Reality says nothing of the one left in its stream, a VMess link
\* nothing of ECH, and TLS forced by an external proxy is that proxy's own.
SameSecurity(stream, security, out, protocol) ==
    LET tls     == stream.tlsSettings
        reality == stream.realitySettings
    IN  /\ security = "tls" /\ stream.security = "tls" =>
             /\ out.tlsSettings.serverName = tls.serverName
             /\ out.tlsSettings.alpn = tls.alpn
             /\ out.tlsSettings.fingerprint = tls.settings.fingerprint
             /\ out.tlsSettings.allowInsecure = tls.settings.allowInsecure
             /\ protocol # "vmess" => out.tlsSettings.echConfigList = tls.settings.echConfigList
        /\ security = "reality" /\ protocol \in {"vless", "trojan"} =>
             /\ out.realitySettings.publicKey = reality.settings.publicKey
             /\ out.realitySettings.fingerprint = reality.settings.fingerprint
             /\ out.realitySettings.serverName[1] \in {reality.serverNames[i] : i \in DOMAIN reality.serverNames}
             /\ out.realitySettings.shortId \in {reality.shortIds[i] : i \in DOMAIN reality.shortIds}
             /\ out.realitySettings.spiderX = reality.settings.spiderX
             /\ out.realitySettings.mldsa65Verify = reality.settings.mldsa65Verify
        /\ security = "reality" /\ protocol \in {"vless", "trojan"} => out.security = "reality"
        /\ security # "reality" => out.security = security

\* It presents the credential of the client.
SameClient(inbound, client, security, settings) ==
    CASE inbound.protocol = "vmess" -> settings.id = client.id /\ settings.security = client.security
      [] inbound.protocol = "vless" ->
           /\ settings.id = client.id
           /\ settings.encryption = IF inbound.settings.encryption = "" THEN "none"
                                    ELSE inbound.settings.encryption
           /\ security = inbound.stream.security =>
                settings.flow = IF In!canEnableTlsFlow(inbound) THEN client.flow ELSE ""
      [] inbound.protocol = "trojan" -> settings.password = client.password
      [] inbound.protocol = "shadowsocks" ->
           /\ settings.method = inbound.settings.method
           /\ settings.password = passwords(inbound, client)

Serves(inbound, ep, client, out) ==
    LET security == linkSecurity(inbound, ep.forceTls)
    IN  /\ out.protocol = inbound.protocol
        /\ out.settings.address = ep.dest /\ out.settings.port = ep.port
        /\ SameClient(inbound, client, security, out.settings)
        /\ SameNetwork(inbound.stream, out.stream, inbound.protocol)
        /\ SameSecurity(inbound.stream, security, out.stream, inbound.protocol)

===========================================================================
