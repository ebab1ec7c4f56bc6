---------------------------- MODULE InboundPages ----------------------------
(***************************************************************************)
(* The inbound pages: the list (web/html/inbounds.html), the form an       *)
(* inbound is added or edited in (web/html/modals/inbound_modal.html and   *)
(* the templates of web/html/form) and the forms that add clients.  The    *)
(* list is a copy that may be older than what the panel has stored; the    *)
(* form's buttons for new keys ask the panel and write the answer when it  *)
(* arrives, into whatever inbound the form then holds.  The panel stores   *)
(* what is posted (ClientSync models how).                                 *)
(***************************************************************************)
EXTENDS FiniteSets, InboundModel

CONSTANTS
    Ids,            \* the inbounds: 1 .. n
    Presets,        \* inbounds the panel may already have, as the form posts them
    Unopened,       \* more of them, on which no form is opened: they are only read
    Protocols,      \* the protocols the user may choose from
    Networks,       \* the networks
    Methods,        \* the Shadowsocks methods
    Pairs,          \* the key pairs the panel makes, in order; each half is named after its pair
    Proxy,          \* the external proxies the user may enter (one at a time)
    PanelName,      \* location.hostname
    MaxSteps        \* bound: forms opened, changes made in them, inbounds cloned, reset or
                    \* given clients

ASSUME PagesAssumption ==
    /\ Ids \subseteq Nat \ {0} /\ Pairs \in Seq(STRING) /\ MaxSteps \in Nat
    /\ Networks \subseteq {"tcp", "kcp", "ws", "grpc", "httpupgrade", "xhttp"}

VARIABLES
    rows,       \* id -> the inbound as posted, NoJson for a free id
    list,       \* dbInbounds: the rows the page last fetched
    inModal,    \* the form: the inbound in it, id of the row edited (0: a new one), visible, loading
    asked,      \* the requests for new keys that are not answered
    made,       \* how many key pairs the panel has made
    posted,     \* the form's save on its way: [id, row], id 0 for a new one, or NoJson
    behind,     \* rows that a client was added to from an older copy of the row
    steps

pageVars == <<rows, list, inModal, asked, made, posted, behind, steps>>

form   == inModal.inbound
stream == form.stream

(*-------------------------------- the form ------------------------------*)
\* What add and update post: unlike toJson, only the sockopt of a protocol that
\* has no stream settings.
Posted(inbound) ==
    [InboundJson(inbound) EXCEPT !.streamSettings =
        IF canEnableStream(inbound) THEN @ ELSE Only(@, {"sockopt"})]

\* toInbound, of a row of the list.
toInbound(row) == InboundFromJson(row, "again")

PagesInit ==
    /\ \E preset \in Presets \cup Unopened :
         /\ rows = [id \in Ids |-> IF id = 1 THEN preset ELSE NoJson]
         /\ steps = IF preset \in Presets THEN 0 ELSE MaxSteps
    /\ list = rows
    /\ inModal = [inbound |-> NewInbound("port", "page"), id |-> 0, visible |-> FALSE, loading |-> FALSE]
    /\ asked = {} /\ made = 0 /\ posted = NoJson /\ behind = {}

Spend == steps < MaxSteps /\ steps' = steps + 1

\* show() leaves `loading` as the form before left it.
show(inbound, id) == inModal' = [inModal EXCEPT !.inbound = inbound, !.id = id, !.visible = TRUE]

openAddInbound ==
    /\ ~inModal.visible /\ Spend
    /\ show(NewInbound("port", "new"), 0)
    /\ UNCHANGED <<rows, list, asked, made, posted, behind>>

openEditInbound(id) ==
    /\ ~inModal.visible /\ list[id] # NoJson /\ Spend
    /\ show(InboundFromJson(InboundJson(toInbound(list[id])), "again"), id)
    /\ UNCHANGED <<rows, list, asked, made, posted, behind>>

\* The close button hides the form and nothing else.
Close ==
    /\ inModal.visible
    /\ inModal' = [inModal EXCEPT !.visible = FALSE]
    /\ UNCHANGED <<rows, list, asked, made, posted, behind, steps>>

\* A change made in the open form.
Edit(inbound) ==
    /\ inModal.visible /\ Spend /\ inbound # form
    /\ inModal' = [inModal EXCEPT !.inbound = inbound]
    /\ UNCHANGED <<rows, list, asked, made, posted, behind>>

\* The protocol is fixed once the inbound exists.
ChooseProtocol(protocol) == inModal.id = 0 /\ Edit(SetProtocol(form, protocol, "new"))

\* Mistake: the flow stays.
streamNetworkChange_KeepsFlow(inbound) ==
    IF canEnableTls(inbound) THEN inbound ELSE [inbound EXCEPT !.stream.security = "none"]

\* streamNetworkChange: security that the network cannot have is switched off
\* (Reality only with all of it: inbound.reality is no setting), and the flow of
\* every client with the network that carries it.
streamNetworkChange(inbound) ==
    LET safe == IF canEnableTls(inbound) THEN inbound ELSE [inbound EXCEPT !.stream.security = "none"]
    IN  IF safe.protocol = "vless" /\ ~canEnableTlsFlow(safe)
        THEN [safe EXCEPT !.settings.clients = Map(@, LAMBDA c : [c EXCEPT !.flow = ""])]
        ELSE safe

ChooseNetwork(network) ==
    /\ canEnableStream(form)
    /\ Edit(streamNetworkChange([form EXCEPT !.stream.network = network]))

\* The security buttons: Reality only where it can be and without VLESS encryption.
ChooseSecurity(security) ==
    /\ canEnableTls(form)
    /\ security = "reality" =>
         canEnableReality(form) /\ Or(form.settings, "encryption", "") = ""
    /\ Edit([form EXCEPT !.stream.security = security])

\* The flow of the new inbound's first client.
ChooseFlow(flow) ==
    /\ inModal.id = 0 /\ canEnableTlsFlow(form)
    /\ Edit([form EXCEPT !.settings.clients[1].flow = flow])

\* Mistake: the clients keep their passwords.
SSMethodChange_OldPasswords(inbound) ==
    LET method == inbound.settings.method
        word   == IF isSS2022(inbound) THEN "" ELSE method
    IN  [inbound EXCEPT !.settings.password = randomShadowsocksPassword(method, "changed"),
           !.settings.clients = IF isSSMultiUser(inbound) THEN Map(@, LAMBDA c : [c EXCEPT !.method = word])
                                ELSE <<>>]

\* SSMethodChange: new passwords of the method's length, and the method in every
\* client unless it is a 2022 one; no clients for a method with one user.
SSMethodChange(inbound) ==
    LET method   == inbound.settings.method
        password == randomShadowsocksPassword(method, "changed")
        users    == IF inbound.settings.clients = <<>> THEN <<Shadowsocks(NoJson, "changed")>>
                    ELSE inbound.settings.clients
        word     == IF isSS2022(inbound) THEN "" ELSE method
    IN  [inbound EXCEPT !.settings.password = password,
           !.settings.clients = IF ~isSSMultiUser(inbound) THEN <<>>
                                ELSE Map(users, LAMBDA c : [c EXCEPT !.method = word, !.password = password])]

ChooseMethod(method) ==
    /\ form.protocol = "shadowsocks"
    /\ Edit(SSMethodChange([form EXCEPT !.settings.method = method]))

\* The sockopt switch, the external proxies and the password switch of Socks.
SwitchSockopt ==
    canEnableStream(form) /\ Edit([form EXCEPT !.stream.sockopt = IF @ = NoJson THEN NewSockopt ELSE NoJson])

EnterProxy(proxies) == canEnableStream(form) /\ Edit([form EXCEPT !.stream.externalProxy = proxies])

SwitchAuth ==
    /\ form.protocol = "socks"
    /\ Edit([form EXCEPT !.settings.auth = IF @ = "password" THEN "noauth" ELSE "password"])

(*---------------------------- keys from the panel -----------------------*)
\* getNewX25519Cert, getNewmldsa65, getNewEchCert and getNewVlessEnc: the form
\* shows that it waits, and stays open to everything but its OK button.
askFor(kind) ==
    /\ inModal.visible /\ kind \notin asked /\ made + Cardinality(asked) < Len(Pairs)
    /\ asked' = asked \cup {kind}
    /\ inModal' = [inModal EXCEPT !.loading = TRUE]
    /\ UNCHANGED <<rows, list, made, posted, behind, steps>>

RealityShown == stream.security = "reality" /\ Or(form.settings, "encryption", "") = ""
getNewX25519Cert == canEnableTls(form) /\ RealityShown /\ askFor("x25519")
getNewmldsa65    == canEnableTls(form) /\ RealityShown /\ askFor("mldsa65")
getNewEchCert    == canEnableTls(form) /\ stream.security = "tls" /\ askFor("ech")
getNewVlessEnc   == form.protocol = "vless" /\ stream.security # "reality" /\ askFor("vlessenc")

\* Mistake: only the private half is shown.
WithPair_Half(inbound, kind, pair) ==
    IF kind = "x25519" THEN [inbound EXCEPT !.stream.realitySettings.privateKey = pair] ELSE inbound

\* The answer is written into the inbound the form holds now; VLESS keys only
\* into settings that have chosen an authentication.
WithPair(inbound, kind, pair) ==
    CASE kind = "x25519"  -> [inbound EXCEPT !.stream.realitySettings.privateKey = pair,
                                             !.stream.realitySettings.settings.publicKey = pair]
      [] kind = "mldsa65" -> [inbound EXCEPT !.stream.realitySettings.mldsa65Seed = pair,
                                             !.stream.realitySettings.settings.mldsa65Verify = pair]
      [] kind = "ech"     -> [inbound EXCEPT !.stream.tlsSettings.echServerKeys = pair,
                                             !.stream.tlsSettings.settings.echConfigList = <<pair>>]
      [] kind = "vlessenc" -> IF "selectedAuth" \in DOMAIN inbound.settings
                              THEN [inbound EXCEPT !.settings.decryption = pair, !.settings.encryption = pair]
                              ELSE inbound

Answer_Again(kind, success) == \* mistake: an answer may come twice
    /\ kind \in asked
    /\ made' = IF success THEN made + 1 ELSE made
    /\ UNCHANGED <<rows, list, inModal, asked, posted, behind, steps>>
Answer(kind, success) ==
    /\ kind \in asked
    /\ asked' = asked \ {kind}
    /\ made' = IF success THEN made + 1 ELSE made
    /\ inModal' = [inModal EXCEPT !.loading = FALSE,
                                  !.inbound = IF success THEN WithPair(@, kind, Pairs[made + 1]) ELSE @]
    /\ UNCHANGED <<rows, list, posted, behind, steps>>

clearKeys ==
    /\ form.protocol = "vless" /\ stream.security # "reality"
    /\ Edit([form EXCEPT !.settings.decryption = "none", !.settings.encryption = ""])

(*--------------------------------- saving -------------------------------*)
\* OK: one save at a time is on its way (a bound; its button waits with the form).
Save ==
    /\ inModal.visible /\ ~inModal.loading /\ posted = NoJson
    /\ posted' = [id |-> inModal.id, row |-> Posted(form)]
    /\ inModal' = [inModal EXCEPT !.loading = TRUE]
    /\ UNCHANGED <<rows, list, asked, made, behind, steps>>

\* postWithModal: a save that succeeded closes the form, whichever it holds now.
\* A new inbound takes a free id (Ids bounds how many there can be).
Saved(success) ==
    /\ posted # NoJson
    /\ posted' = NoJson
    /\ inModal' = [inModal EXCEPT !.loading = FALSE, !.visible = @ /\ ~success]
    /\ IF success
       THEN \E id \in Ids :
              /\ IF posted.id = 0 THEN rows[id] = NoJson ELSE id = posted.id
              /\ rows' = [rows EXCEPT ![id] = posted.row]
       ELSE UNCHANGED rows
    /\ UNCHANGED <<list, asked, made, behind, steps>>

\* getDBInbounds.
getDBInbounds ==
    /\ list # rows /\ list' = rows
    /\ UNCHANGED <<rows, inModal, asked, made, posted, behind, steps>>

(*------------------------- the list's own actions -----------------------*)
\* addClient: the panel appends the posted clients to what it has stored.
addClient(id, client) ==
    /\ rows[id] # NoJson
    /\ rows' = [rows EXCEPT ![id].settings.clients = Append(@, client)]
    /\ behind' = IF list[id] = rows[id] THEN behind ELSE behind \cup {id}
    /\ UNCHANGED <<list, inModal, asked, made, posted>>

\* A new client of the listed inbound (client_modal.html).
newClient(inbound) ==
    LET method == inbound.settings.method
    IN  CASE inbound.protocol = "vmess"  -> VMESS(NoJson, "added")
          [] inbound.protocol = "vless"  -> VLESS(NoJson, "added")
          [] inbound.protocol = "trojan" -> Trojan(NoJson, "added")
          [] inbound.protocol = "shadowsocks" ->
               Shadowsocks([method |-> inbound.settings.clients[1].method,
                            password |-> randomShadowsocksPassword(method, "added")], "added")

openAddClient(id, flow) ==
    /\ list[id] # NoJson /\ Spend
    /\ LET inbound == toInbound(list[id])
       IN  /\ clients(inbound) # <<>>
           /\ flow # "" => canEnableTlsFlow(inbound)
           /\ addClient(id, With(newClient(inbound), Given(flow # "", [flow |-> flow])))

\* A client added in bulk (client_bulk_modal.html): of Shadowsocks, with a
\* password of the default length whatever the method, and with a security,
\* which toJson leaves out again for Trojan and Shadowsocks.
bulkClient(inbound, flow) ==
    LET plain == IF inbound.protocol = "shadowsocks"
                 THEN Shadowsocks([method |-> inbound.settings.clients[1].method], "bulk")
                 ELSE With(newClient(inbound), [subId |-> "bulk"])
    IN  With(With(plain, Given(inbound.protocol \in {"vmess", "vless"}, [security |-> "auto"])),
             Given(canEnableTlsFlow(inbound), [flow |-> flow]))

openAddBulkClient(id, flow) ==
    /\ list[id] # NoJson /\ Spend
    /\ LET inbound == toInbound(list[id])
       IN  /\ clients(inbound) # <<>>
           /\ addClient(id, bulkClient(inbound, flow))

\* cloneInbound: new settings, the listed stream settings whatever the protocol.
cloneInbound(id) ==
    /\ list[id] # NoJson /\ Spend
    /\ \E free \in {i \in Ids : rows[i] = NoJson} :
         LET base == toInbound(list[id])
         IN  rows' = [rows EXCEPT ![free] =
                        [InboundJson(base) EXCEPT
                           !.listen = "", !.port = "cloned",
                           !.settings = SettingsJson(base.protocol, getSettings(base.protocol, "cloned")),
                           !.streamSettings = StreamSettingsJson(base.stream)]]
    /\ UNCHANGED <<list, inModal, asked, made, posted, behind>>

\* resetTraffic posts the whole inbound as it is listed.
resetTraffic(id) ==
    /\ list[id] # NoJson /\ Spend
    /\ rows' = [rows EXCEPT ![id] = Posted(toInbound(list[id]))]
    /\ UNCHANGED <<list, inModal, asked, made, posted, behind>>

Flows == {"", "xtls-rprx-vision"}
Kinds == {"x25519", "mldsa65", "ech", "vlessenc"}

PagesNext ==
    \/ openAddInbound \/ Close \/ Save \/ getDBInbounds
    \/ SwitchSockopt \/ SwitchAuth \/ clearKeys
    \/ getNewX25519Cert \/ getNewmldsa65 \/ getNewEchCert \/ getNewVlessEnc
    \/ \E protocol \in Protocols : ChooseProtocol(protocol)
    \/ \E network \in Networks : ChooseNetwork(network)
    \/ \E security \in {"none", "tls", "reality"} : ChooseSecurity(security)
    \/ \E flow \in Flows : ChooseFlow(flow)
    \/ \E method \in Methods : ChooseMethod(method)
    \/ \E proxies \in Proxy : EnterProxy(proxies)
    \/ \E kind \in Kinds, success \in BOOLEAN : Answer(kind, success)
    \/ \E success \in BOOLEAN : Saved(success)
    \/ \E id \in Ids : openEditInbound(id) \/ cloneInbound(id) \/ resetTraffic(id)
    \/ \E id \in Ids, flow \in Flows : openAddClient(id, flow) \/ openAddBulkClient(id, flow)

PagesSpec == PagesInit /\ [][PagesNext]_pageVars

(*-------------------------------- properties ----------------------------*)
Links == INSTANCE ShareLink WITH Hostname <- PanelName

Stored == {id \in Ids : rows[id] # NoJson}

\* The page's variables keep their shape: a form that waits has a question or a
\* save unanswered or was answered out of order, and no more pairs are made than
\* the panel has.
PagesTypeOK ==
    /\ DOMAIN rows = Ids /\ DOMAIN list = Ids
    /\ \A id \in Ids : rows[id] = NoJson => list[id] = NoJson
    /\ inModal.id \in {0} \cup Stored /\ {inModal.visible, inModal.loading} \subseteq BOOLEAN
    /\ asked \subseteq Kinds /\ made + Cardinality(asked) <= Len(Pairs)
    /\ behind \subseteq Ids /\ steps <= MaxSteps

RealityPair(reality) ==
    /\ reality.privateKey = reality.settings.publicKey
    /\ reality.mldsa65Seed = reality.settings.mldsa65Verify
EchPair(tls)   == tls.settings.echConfigList = <<tls.echServerKeys>>
PeerPair(peer) == peer.publicKey = PublicOf(peer.privateKey)

KeysPair(row) ==
    LET settings == row.settings
        json     == row.streamSettings
    IN  /\ "realitySettings" \in DOMAIN json => RealityPair(json.realitySettings)
        /\ "tlsSettings" \in DOMAIN json => EchPair(json.tlsSettings)
        /\ row.protocol = "vless" =>
             Or(settings, "decryption", "none") = Or(settings, "encryption", "none")
        /\ row.protocol = "wireguard" => \A i \in DOMAIN settings.peers : PeerPair(settings.peers[i])

\* The two halves of a key pair are stored together or not at all, although the
\* answer with them may arrive after the form was closed, given another protocol
\* or opened for another inbound: a private half with the public half of another
\* pair would lock every client out.
KeysPaired == \A id \in Stored : KeysPair(rows[id])

\* Opening an inbound in the form and saving it changes nothing it was stored
\* with, and draws no credential again: no fromJson leaves out, renames or draws
\* what toJson posted, through every change of protocol, network and security that
\* came before.  Values may be added.  (A VLESS client added in bulk has a security
\* that its class does not keep; a clone of an inbound without stream settings has
\* some.)
ReopenStable ==
    \A id \in Stored :
      LET row   == rows[id]
          again == Posted(InboundFromJson(InboundJson(toInbound(row)), "twice"))
          Kept(old, new) == \A key \in DOMAIN old : key \in DOMAIN new /\ new[key] = old[key]
          lost  == IF row.protocol = "vless" THEN {"security"} ELSE {}
          users == Or(row.settings, "clients", <<>>)
      IN  /\ Posted(toInbound(row)) = again
          /\ Kept(Only(row.settings, DOMAIN row.settings \ {"clients"}), again.settings)
          /\ \A i \in DOMAIN users :
               Kept(Only(users[i], DOMAIN users[i] \ lost), again.settings.clients[i])
          /\ Len(users) = Len(Or(again.settings, "clients", <<>>))
          /\ Kept(IF canEnableStream(row) THEN row.streamSettings ELSE Only(row.streamSettings, {"sockopt"}),
                  again.streamSettings)
          /\ Kept(row.sniffing, again.sniffing)

SecurityFitsIn(row) ==
    canEnableStream(row) /\ row.streamSettings.network = "kcp" => row.streamSettings.security = "none"
FlowsFit(row) ==
    row.protocol = "vless" /\ row.streamSettings.network # "tcp" =>
        \A i \in DOMAIN row.settings.clients : row.settings.clients[i].flow = ""

\* No inbound is stored with a security its network cannot carry, nor, unless a
\* client was added to it from an older copy, with a flow on a network other than
\* tcp, whatever the order in which protocol, network, security and flow were
\* chosen: the stream of one protocol is left to the next.
SecurityFits ==
    \A id \in Stored : SecurityFitsIn(rows[id]) /\ (id \in behind \/ FlowsFit(rows[id]))

PasswordSize(method) == randomShadowsocksPassword(method, "").bytes
FitsMethod(row) ==
    LET size == PasswordSize(row.settings.method)
    IN  isSS2022(row) =>
          /\ row.settings.password.bytes = size
          /\ \A i \in DOMAIN row.settings.clients :
               LET client == row.settings.clients[i]
               IN  client.method = "" /\ (client.password.draw # "bulk" => client.password.bytes = size)

\* Every password of a 2022 Shadowsocks inbound has the length its method asks
\* for, and no client of it names a method; the length of those added in bulk,
\* and clients added from an older copy of the inbound, are not covered.
PasswordsFit == \A id \in Stored \ behind : FitsMethod(rows[id])

\* The panel starts with inbounds that a form has stored: with the fields that
\* toJson writes, the clients in a list, and with keys, security, flows and
\* passwords that are right.
Fields(row) ==
    LET json     == row.streamSettings
        settings == row.settings
    IN  /\ {"protocol", "settings", "streamSettings"} \subseteq DOMAIN row
        /\ IF canEnableStream(row) THEN {"network", "security"} \subseteq DOMAIN json
           ELSE Or(json, "network", "tcp") = "tcp"
        /\ "realitySettings" \in DOMAIN json =>
             /\ {"privateKey", "mldsa65Seed", "settings"} \subseteq DOMAIN json.realitySettings
             /\ {"publicKey", "mldsa65Verify"} \subseteq DOMAIN json.realitySettings.settings
        /\ "tlsSettings" \in DOMAIN json =>
             /\ {"echServerKeys", "settings"} \subseteq DOMAIN json.tlsSettings
             /\ "echConfigList" \in DOMAIN json.tlsSettings.settings
        /\ row.protocol \in {"vless", "shadowsocks"} =>
             /\ "clients" \in DOMAIN settings
             /\ settings.clients \in Seq({settings.clients[i] : i \in DOMAIN settings.clients})
        /\ row.protocol = "vless" => \A i \in DOMAIN settings.clients : "flow" \in DOMAIN settings.clients[i]
        /\ row.protocol = "shadowsocks" =>
             /\ {"method", "password"} \subseteq DOMAIN settings
             /\ \A i \in DOMAIN settings.clients : {"method", "password"} \subseteq DOMAIN settings.clients[i]
        /\ row.protocol = "wireguard" =>
             /\ "peers" \in DOMAIN settings
             /\ \A i \in DOMAIN settings.peers : {"privateKey", "publicKey"} \subseteq DOMAIN settings.peers[i]

ASSUME PresetsAssumption ==
    \A row \in (Presets \cup Unopened) \ {NoJson} :
      /\ Fields(row)
      /\ KeysPair(row) /\ SecurityFitsIn(row) /\ FlowsFit(row) /\ FitsMethod(row)

\* A link the pages hand out for a client of a stored inbound, imported as an
\* outbound and again once that outbound was saved, reaches the inbound through
\* its network, with its security, as that client.
LinksServe ==
    \A id \in Stored : canEnableStream(rows[id]) =>
      LET inbound == toInbound(rows[id])
          users   == clients(inbound)
          ends    == Links!endpoints(inbound)
          Reaches(client) ==
            LET links == Links!genAllLinks(inbound, "remark", <<"i", "e", "o">>, client)
            IN  \A i \in DOMAIN ends :
                  LET out == Links!fromLink(links[i].link)
                  IN  /\ out.tag = links[i].remark
                      /\ Links!Serves(inbound, ends[i], client, out)
                      /\ Links!Serves(inbound, ends[i], client,
                                      Links!Out!OutboundFromJson(Links!Out!OutboundJson(out)))
      IN  IF isSSMultiUser(inbound) THEN \A i \in DOMAIN users : Reaches(users[i])
          ELSE Reaches([email |-> "", password |-> NoJson])

=============================================================================
