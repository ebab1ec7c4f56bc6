----------------------------- MODULE MCPanelParts -----------------------------
EXTENDS PanelParts

\* A stream with a text typed into every field that has one.
Typed(s) ==
    LET header(name, value) == [name |-> name, value |-> <<value>>]
    IN  [s EXCEPT
      !.tcpSettings.type = "http",
      !.tcpSettings.request.path = <<"/a", "/b">>,
      !.tcpSettings.request.headers = <<header("X", "1"), header("Host", "site"), header("X", "2"), header("", "no")>>,
      !.kcpSettings.type = "srtp",
      !.wsSettings.headers = <<header("host", "first"), header("host", "last")>>,
      !.wsSettings.path = <<"/ws">>,
      !.grpcSettings = [serviceName |-> <<"service">>, authority |-> <<"authority">>, multiMode |-> TRUE],
      !.httpupgradeSettings.host = <<"up">>,
      !.xhttpSettings.path = EmptyText,
      !.xhttpSettings.mode = "packet-up",
      !.tlsSettings.serverName = <<"sni">>,
      !.tlsSettings.alpn = <<>>,
      !.tlsSettings.settings.fingerprint = "firefox",
      !.tlsSettings.settings.allowInsecure = TRUE,
      !.tlsSettings.certificates[1].useFile = FALSE,
      !.tlsSettings.verifyPeerCertInNames = EmptyText,
      !.realitySettings.serverNames = <<"other">>,
      !.realitySettings.settings.spiderX = EmptyText,
      !.externalProxy = <<[forceTls |-> "tls", dest |-> "relay", port |-> "relay port", remark |-> "via"]>>]

\* What the form saves after these choices.
Preset(protocol, network, security, typed) ==
    LET new    == SetProtocol(NewInbound("port", "old"), protocol, "old")
        chosen == [new EXCEPT !.stream.network = network, !.stream.security = security]
    IN  [chosen EXCEPT !.stream = IF typed THEN Typed(@) ELSE @]

MCUnopened ==
    LET all == {Preset(p, n, s, typed) :
                  p \in {"vmess", "vless", "trojan", "shadowsocks", "tunnel", "socks", "http", "wireguard"},
                  n \in {"tcp", "kcp", "ws", "grpc", "httpupgrade", "xhttp"},
                  s \in {"none", "tls", "reality"}, typed \in BOOLEAN}
    IN  {NoJson} \cup {Posted(i) : i \in {i \in all :
            /\ i.stream.security = "tls" => canEnableTls(i)
            /\ i.stream.security = "reality" => canEnableReality(i)
            /\ ~canEnableStream(i) => i.stream.network = "tcp"}}

MCPresets == {Posted([Preset("vless", "tcp", "reality", TRUE) EXCEPT !.settings.clients[1].flow = "xtls-rprx-vision"]),
              Posted(Preset("shadowsocks", "tcp", "none", FALSE))}

MCProxy == {<<[forceTls |-> "same", dest |-> "panel", port |-> "port", remark |-> ""],
              [forceTls |-> "none", dest |-> "relay", port |-> "relay port", remark |-> "via"]>>}
MCPairs == <<"pair1">>

\* The outbounds: one of every protocol, everything filled in; their streams.
TypedOut(network, security) ==
    [network |-> network, security |-> security,
     tcpSettings |-> [header |-> [type |-> "http", request |-> [headers |-> [Host |-> <<"site">>], path |-> <<"/a", "/b">>]]],
     kcpSettings |-> [seed |-> "seed", header |-> [type |-> "srtp"]],
     wsSettings |-> [path |-> <<"/ws">>, host |-> <<"ws">>],
     grpcSettings |-> [serviceName |-> <<"service">>, multiMode |-> TRUE],
     httpupgradeSettings |-> [host |-> <<"up">>],
     xhttpSettings |-> [mode |-> "packet-up", noGRPCHeader |-> TRUE],
     tlsSettings |-> [serverName |-> <<"sni">>, alpn |-> <<"h2">>, fingerprint |-> "firefox"],
     realitySettings |-> [publicKey |-> "key", shortId |-> "id", spiderX |-> <<"/">>],
     sockopt |-> [dialerProxy |-> "direct", tcpMptcp |-> TRUE]]
At == [address |-> "server", port |-> 443]
MCSettings ==
    [freedom     |-> [domainStrategy |-> "UseIP", fragment |-> [packets |-> "tlshello", length |-> "1"],
                      noises |-> <<NoJson, [type |-> "str"]>>],
     blackhole   |-> [response |-> [type |-> "http"]],
     dns         |-> [network |-> "tcp", blockTypes |-> <<1>>],
     vmess       |-> [vnext |-> <<With(At, [users |-> <<[id |-> "id", security |-> "auto"]>>])>>],
     vless       |-> [vnext |-> <<With(At, [users |-> <<[id |-> "id", flow |-> "xtls-rprx-vision", encryption |-> "none"]>>])>>],
     trojan      |-> [servers |-> <<With(At, [password |-> "pw"])>>],
     shadowsocks |-> [servers |-> <<With(At, [password |-> "pw", method |-> "2022-blake3-aes-128-gcm", uot |-> TRUE])>>],
     socks       |-> [servers |-> <<With(At, [users |-> <<[user |-> "user", pass |-> "pw"]>>])>>],
     http        |-> [servers |-> <<With(At, [users |-> <<>>])>>],
     wireguard   |-> [secretKey |-> <<"secret">>, address |-> <<"10.0.0.1", "fd00::1">>, reserved |-> <<1, 2, 3>>,
                      domainStrategy |-> "ForceIP", peers |-> <<[publicKey |-> "peer", preSharedKey |-> "psk"], NoJson>>]]
FilledIn(protocol, network, security) ==
    [tag |-> <<protocol>>, protocol |-> protocol, settings |-> MCSettings[protocol],
     mux |-> [enabled |-> TRUE, concurrency |-> 4], streamSettings |-> TypedOut(network, security)]

MCPasted == {FilledIn(protocol, "tcp", "reality") : protocol \in DOMAIN MCSettings}

\* The panel's own template (web/service/config.json) with a balancer and its rule, and
\* templates of one outbound each.
MCDefault ==
    [outbounds |-> <<[tag |-> <<"direct">>, protocol |-> "freedom",
                      settings |-> [domainStrategy |-> "AsIs", redirect |-> "", noises |-> <<>>]],
                     [tag |-> <<"blocked">>, protocol |-> "blackhole", settings |-> NoJson],
                     [tag |-> <<"api">>, protocol |-> "blackhole"]>>,
     rules     |-> <<[outboundTag |-> EmptyText, balancerTag |-> <<"b1">>, domain |-> <<>>]>>,
     balancers |-> <<[tag |-> <<"b1">>, strategy |-> "leastPing", selector |-> {<<"direct">>}]>>]

OnlyOutbounds(json) == [outbounds |-> json, rules |-> <<>>, balancers |-> <<>>]

MCTemplates ==
    {MCDefault, OnlyOutbounds(<<>>)} \cup
    {OnlyOutbounds(<<FilledIn(protocol, "tcp", "tls")>>) : protocol \in DOMAIN MCSettings} \cup
    {OnlyOutbounds(<<FilledIn("vless", n, s)>>) : n \in {"tcp", "xhttp"}, s \in {"none", "tls"}}

MCLinksIn ==
    {[scheme |-> "vmess",
      json |-> [add |-> "server", port |-> 443, id |-> "id", scy |-> "auto", ps |-> <<"remark">>, net |-> "tcp",
                type |-> "http", host |-> <<"site">>, path |-> <<"/">>, tls |-> "none"]]}
MCTags == {<<"direct">>, <<"new">>}
\* (Any text may be typed for a selector, a balancer's tag too.)
MCBalancersIn ==
    {[tag |-> <<t>>, strategy |-> s, selector |-> selector] :
       t \in {"b1", "b2"}, s \in {"leastPing", "random"},
       selector \in {{<<"direct">>}, {<<"blocked">>, <<"b1">>}}}

\* A client of one byte that is renewed every second day; an expiry of so long after
\* first use, none, or a date.
MCQuota  == [c \in Metered |-> 1]
MCPeriod == [c \in Metered |-> 2]
MCTerms  == {-1, 0, 2}

===============================================================================
