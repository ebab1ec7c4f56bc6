---------------------------- MODULE OutboundPages ----------------------------
(***************************************************************************)
(* The Xray settings page (web/html/xray.html): the template's outbounds   *)
(* and the form they are edited in (modals/xray_outbound_modal.html), the  *)
(* lists of domains that are routed past the proxy, and the balancers with *)
(* the observatories that watch their outbounds.  All of it is one JSON    *)
(* text in the browser until it is saved.  Tags are texts, sequences of    *)
(* their parts.                                                            *)
(***************************************************************************)
EXTENDS JsonValues, FiniteSets

CONSTANTS
    Templates,       \* the templates: outbounds, routing rules and balancers
    Pasted,          \* outbounds that are pasted into the form's JSON tab
    LinksIn,         \* links that are imported into it
    Tags,            \* the tags the user may choose from
    OutProtocols,    \* the protocols,
    OutNetworks,     \* the networks
    BalancersIn,     \* and the balancers: each with its tag, strategy and selector
    MaxMoves         \* bound: what the user does

TagOf(outbound)  == Or(outbound, "tag", EmptyText)
TagsOf(list)     == {list[i].tag : i \in DOMAIN list}

\* Xray starts with a template: no two of its outbounds have one tag, and its rules
\* name balancers it has.
ASSUME TemplatesAssumption ==
    \A json \in Templates :
      /\ json.outbounds \in Seq({json.outbounds[i] : i \in DOMAIN json.outbounds})
      /\ json.rules \in Seq({json.rules[i] : i \in DOMAIN json.rules})
      /\ json.balancers \in Seq({json.balancers[i] : i \in DOMAIN json.balancers})
      /\ \A i \in DOMAIN json.outbounds : "protocol" \in DOMAIN json.outbounds[i]
      /\ \A i, j \in DOMAIN json.outbounds :
           TagOf(json.outbounds[i]) = TagOf(json.outbounds[j]) => i = j
      /\ \A i \in DOMAIN json.rules :
           /\ "balancerTag" \in DOMAIN json.rules[i]
           /\ json.rules[i].balancerTag \in {EmptyText} \cup TagsOf(json.balancers)

ASSUME MovesAssumption == MaxMoves \in Nat

O  == INSTANCE OutboundModel
Of == INSTANCE ShareLink WITH Hostname <- ""

VARIABLES
    outbounds,       \* templateSettings.outbounds
    rules,           \* routing.rules: of each the outbound, the balancer and the domains it names
    balancers,       \* routing.balancers
    watched,         \* the subjectSelectors of observatory and burstObservatory
    balancersData,   \* the balancers as the page lists them
    outModal,        \* the form: the outbound in it, its index (0: a new one), the other tags
    outVisible,
    lost,            \* the balancers that rules may name in vain
    unheeded,        \* those the observatories were last set without heeding
    moves

template == <<outbounds, rules, balancers, watched>>
outModalVars == <<outModal, outVisible>>
exceptions == <<lost, unheeded>>
outVars == <<template, balancersData, outModalVars, exceptions, moves>>

direct == <<"direct">>
IPv4   == <<"IPv4">>

NoOutbound == O!NewOutbound(EmptyText, "vless", O!getSettings("vless"), O!StreamSettings(NoJson))

\* What the observatories watch for a list of balancers.
Pings == {"leastPing"}
Loads == {"leastLoad", "roundRobin", "random"}

Selectors(list, strategies) ==
    UNION {list[i].selector : i \in {i \in DOMAIN list : list[i].strategy \in strategies}}

ObservatorySelectors(list) ==
    [observatory |-> Selectors(list, Pings), burstObservatory |-> Selectors(list, Loads)]

OutInit ==
    /\ \E json \in Templates :
          outbounds = json.outbounds /\ rules = json.rules /\ balancers = json.balancers
    /\ balancersData = balancers /\ watched = ObservatorySelectors(balancers)
    /\ outModal = [outbound |-> NoOutbound, index |-> 0, tags |-> {}] /\ outVisible = FALSE
    /\ lost = {} /\ unheeded = {} /\ moves = 0

Move == moves < MaxMoves /\ moves' = moves + 1

\* The page lists the balancers anew when the template's text has changed.
List == balancersData' = IF template' = template THEN balancersData ELSE balancers'

FirstOf(indices) == CHOOSE i \in indices : \A j \in indices : i <= j
Without(list, index) == SubSeq(list, 1, index - 1) \o SubSeq(list, index + 1, Len(list))

(*-------------------------------- the form ------------------------------*)
\* What is shown once the form was drawn: asking for Mux switches it off.
Drawn(outbound) == O!canEnableMux(outbound)

showOutbound(outbound, index) ==
    /\ ~outVisible /\ Move
    /\ outModal' = [outbound |-> Drawn(outbound), index |-> index,
                    tags |-> {TagOf(outbounds[i]) : i \in DOMAIN outbounds \ {index}}]
    /\ outVisible' = TRUE
    /\ UNCHANGED <<template, balancersData, exceptions>>

addOutbound         == showOutbound(NoOutbound, 0)
editOutbound(index) == showOutbound(O!OutboundFromJson(outbounds[index]), index)

Alter(outbound) ==
    /\ outVisible /\ Move /\ outModal.outbound # Drawn(outbound)
    /\ outModal' = [outModal EXCEPT !.outbound = Drawn(outbound)]
    /\ UNCHANGED <<template, balancersData, outVisible, exceptions>>

ChooseOutTag(tag)       == Alter([outModal.outbound EXCEPT !.tag = tag])
ChooseOutProtocol(name) == outModal.outbound.protocol # name /\ Alter(O!SetProtocol(outModal.outbound, name))

\* Choosing the network takes the flow away where there can be none.
streamNetworkChanged(network) ==
    LET chosen == [outModal.outbound EXCEPT !.stream.network = network]
    IN  /\ O!canEnableStream(chosen)
        /\ Alter(IF chosen.protocol = "vless" /\ ~O!canEnableTlsFlow(chosen)
                 THEN [chosen EXCEPT !.settings = Only(@, DOMAIN @ \ {"flow"})] ELSE chosen)

ChooseOutSecurity(security) ==
    /\ O!canEnableTls(outModal.outbound)
    /\ security = "reality" => O!canEnableReality(outModal.outbound)
    /\ Alter([outModal.outbound EXCEPT !.stream.security = security])

\* Mux, where it is shown.
SwitchMux ==
    /\ Or(outModal.outbound.settings, "flow", "") = "" /\ outModal.outbound.stream.network # "xhttp"
    /\ O!canEnableStream(outModal.outbound) \/ outModal.outbound.protocol \in {"http", "socks"}
    /\ Alter([outModal.outbound EXCEPT !.mux.enabled = ~@])

\* The JSON tab.
Paste(json) == Alter(O!OutboundFromJson(json))

convertLink(link) == Alter(Of!fromLink(link))

\* Mutant: only an empty tag is refused.
isValid_Empty == outModal.outbound.tag # EmptyText

\* OK, which check() disables for an empty tag and for another outbound's.
isValid == outModal.outbound.tag # EmptyText /\ outModal.outbound.tag \notin outModal.tags

okOutbound ==
    /\ outVisible /\ isValid
    /\ LET json == O!OutboundJson(outModal.outbound)
       IN  outbounds' = IF outModal.index = 0 THEN Append(outbounds, json)
                        ELSE [outbounds EXCEPT ![outModal.index] = json]
    /\ outVisible' = FALSE
    /\ UNCHANGED <<rules, balancers, watched, outModal, exceptions, moves>> /\ List

cancelOutbound ==
    outVisible /\ outVisible' = FALSE /\ UNCHANGED <<template, balancersData, outModal, exceptions, moves>>

(*----------------------- the outbounds and the rules --------------------*)
OnPage == ~outVisible /\ Move /\ UNCHANGED outModalVars

deleteOutbound(index) ==
    /\ OnPage
    /\ outbounds' = Without(outbounds, index)
    /\ UNCHANGED <<rules, balancers, watched, exceptions>> /\ List

setFirstOutbound(index) ==
    /\ OnPage
    /\ outbounds' = <<outbounds[index]>> \o Without(outbounds, index)
    /\ UNCHANGED <<rules, balancers, watched, exceptions>> /\ List

\* freedomStrategy looks for an outbound that has both the tag and the protocol.
setFreedomStrategy(strategy) ==
    LET free == {i \in DOMAIN outbounds : outbounds[i].protocol = "freedom" /\ TagOf(outbounds[i]) = direct}
    IN  /\ OnPage
        /\ outbounds' = IF free = {}
             THEN Append(outbounds, [protocol |-> "freedom", tag |-> direct,
                                     settings |-> [domainStrategy |-> strategy]])
             ELSE [outbounds EXCEPT ![FirstOf(free)] =
                     With(@, [settings |-> With(Or(@, "settings", NoJson), [domainStrategy |-> strategy])])]
        /\ UNCHANGED <<rules, balancers, watched, exceptions>> /\ List

\* templateRuleSetter: the first rule with the list holds it, a new one does when
\* there is none, and an empty list takes the rules away.
ruleSetter(tag, domains) ==
    LET named   == {i \in DOMAIN rules : rules[i].outboundTag = tag /\ rules[i].domain # <<>>}
        rule    == [outboundTag |-> tag, balancerTag |-> EmptyText, domain |-> domains]
        Held(i) == CASE i \notin named -> <<rules[i]>>
                     [] i \in named /\ domains # <<>> /\ i = FirstOf(named) -> <<rule>>
                     [] OTHER -> <<>>
        kept[n \in 0 .. Len(rules)] == IF n = 0 THEN <<>> ELSE kept[n - 1] \o Held(n)
    IN  IF named = {} THEN Append(rules, rule) ELSE kept[Len(rules)]

\* syncRulesWithOutbound: the outbound comes with the first rule that names it and
\* goes with the last one, together with every outbound after it.
syncRules(tag, list, settings) ==
    LET at        == {i \in DOMAIN outbounds : TagOf(outbounds[i]) = tag}
        haveRules == \E i \in DOMAIN list : list[i].outboundTag = tag
    IN  CASE ~haveRules /\ at # {} -> IF FirstOf(at) = 1 THEN outbounds
                                      ELSE SubSeq(outbounds, 1, FirstOf(at) - 1)
          [] haveRules /\ at = {}  -> Append(outbounds, With([tag |-> tag, protocol |-> "freedom"], settings))
          [] OTHER -> outbounds

\* directDomains and ipv4Domains.
setDomains(tag, domains) ==
    /\ OnPage
    /\ domains = <<>> => \E i \in DOMAIN rules : rules[i].outboundTag = tag /\ rules[i].domain # <<>>
    /\ rules' = ruleSetter(tag, domains)
    /\ outbounds' = syncRules(tag, rules', Given(tag = IPv4, [settings |-> [domainStrategy |-> "UseIPv4"]]))
    /\ UNCHANGED <<balancers, watched, exceptions>> /\ List

addRule(balancerTag) ==
    /\ OnPage
    /\ rules' = Append(rules, [outboundTag |-> EmptyText, balancerTag |-> balancerTag, domain |-> <<>>])
    /\ UNCHANGED <<outbounds, balancers, watched, exceptions>> /\ List

deleteRule(index) ==
    /\ OnPage
    /\ rules' = Without(rules, index)
    /\ UNCHANGED <<outbounds, balancers, watched, exceptions>> /\ List

(*-------------------------------- balancers -----------------------------*)
updateObservatorySelectors(list) ==
    /\ watched' = ObservatorySelectors(list)
    /\ unheeded' = {i \in DOMAIN list : list[i] # balancers'[i]}

addBalancer(balancer) ==
    /\ OnPage
    /\ balancer.tag \notin TagsOf(balancersData)
    /\ balancers' = Append(balancers, balancer)
    /\ updateObservatorySelectors(balancers')
    /\ UNCHANGED <<outbounds, rules, lost>> /\ List

\* The form works on the object in the list, which a cancelled edit leaves changed.
cancelBalancer(index, balancer) ==
    /\ OnPage
    /\ balancersData' = [balancersData EXCEPT ![index] = balancer]
    /\ UNCHANGED <<template, exceptions>>

\* Mutant: the rules keep the old tag.
Renamed_Forgets(oldTag, tag) == rules

\* The tag that the list had is the one that rules are searched for.
Renamed(oldTag, tag) ==
    [i \in DOMAIN rules |-> [rules[i] EXCEPT !.balancerTag =
        IF oldTag # EmptyText /\ @ = oldTag THEN tag ELSE @]]

\* The edit is stored, without the old tag among what is watched, and then the list
\* says what to watch.  It is the one that was edited in place, cancelled edits and
\* all, when the text stored is the text there was.  (Selectors are sets here: where
\* there are several, the text may still differ in their order.)
editBalancer(index, balancer) ==
    LET oldTag == balancersData[index].tag
        edited == [balancersData EXCEPT ![index] = balancer]
        same   == balancers' = balancers /\ rules' = rules
                  /\ oldTag \notin watched.observatory \cup watched.burstObservatory
        list   == IF same THEN edited ELSE balancers'
        order  == \E kind \in DOMAIN watched : \E a, b \in watched[kind] : a # b
    IN  /\ OnPage
        /\ balancer.tag \notin TagsOf(balancersData) \ {oldTag}
        /\ balancers' = [balancers EXCEPT ![index] = balancer]
        /\ rules' = Renamed(oldTag, balancer.tag)
        /\ updateObservatorySelectors(list)
        /\ balancersData' \in (IF watched' = watched THEN {list} ELSE {balancers'})
                              \cup (IF order THEN {balancers'} ELSE {})
        /\ lost' = IF oldTag = balancers[index].tag THEN lost ELSE lost \cup {balancers[index].tag}
        /\ UNCHANGED outbounds

\* The balancer that has the listed tag is deleted: splice(-1, 1), which is the last
\* one, when none has it.
deleteBalancer(index) ==
    LET named == {i \in DOMAIN balancers : balancers[i].tag = balancersData[index].tag}
        real  == IF named = {} THEN Len(balancers) ELSE FirstOf(named)
    IN  /\ OnPage
        /\ balancers' = Without(balancers, real)
        /\ updateObservatorySelectors(balancers')
        /\ lost' = lost \cup {balancers[real].tag}
        /\ UNCHANGED <<outbounds, rules>> /\ List

OutNext ==
    \/ addOutbound \/ \E index \in DOMAIN outbounds : editOutbound(index)
    \/ \E tag \in Tags : ChooseOutTag(tag)
    \/ \E name \in OutProtocols : ChooseOutProtocol(name)
    \/ \E network \in OutNetworks : streamNetworkChanged(network)
    \/ \E security \in {"none", "tls", "reality"} : ChooseOutSecurity(security)
    \/ SwitchMux
    \/ \E json \in Pasted : Paste(json)
    \/ \E link \in LinksIn : convertLink(link)
    \/ okOutbound \/ cancelOutbound
    \/ \E index \in DOMAIN outbounds : deleteOutbound(index) \/ setFirstOutbound(index)
    \/ setFreedomStrategy("UseIP")
    \/ \E tag \in {direct, IPv4}, domains \in {<<>>, <<"domain">>} : setDomains(tag, domains)
    \/ \E tag \in TagsOf(balancers) : addRule(tag)
    \/ \E index \in DOMAIN rules : deleteRule(index)
    \/ \E balancer \in BalancersIn : addBalancer(balancer)
    \/ \E index \in DOMAIN balancersData, balancer \in BalancersIn :
          cancelBalancer(index, balancer) \/ editBalancer(index, balancer)
    \/ \E index \in DOMAIN balancersData : deleteBalancer(index)

OutSpec == OutInit /\ [][OutNext]_outVars

(*------------------------------- properties -----------------------------*)
\* The protocols that the code, the choices, the templates, what is pasted and links name.
NamedProtocols ==
    {"freedom", "vless", "shadowsocks"} \cup OutProtocols
    \cup (UNION {{json.outbounds[i].protocol : i \in DOMAIN json.outbounds} : json \in Templates})
    \cup {Or(json, "protocol", "vless") : json \in Pasted} \cup {link.scheme : link \in LinksIn}

\* The variables have their types: nothing makes an outbound of a protocol that nobody
\* named, and the list of balancers has one entry for each.
OutTypeOK ==
    /\ \A i \in DOMAIN outbounds : outbounds[i].protocol \in NamedProtocols
    /\ Len(balancersData) = Len(balancers)
    /\ outVisible => outModal.index \in 0 .. Len(outbounds)
    /\ outVisible \in BOOLEAN /\ moves \in 0 .. MaxMoves

\* What the form shows of an outbound; an empty user reads like none.
Shows(outbound) ==
    LET blank == {key \in {"user", "pass"} \cap DOMAIN outbound.settings : outbound.settings[key] = ""}
        keys == {"network", "security", outbound.stream.network \o "Settings",
                 outbound.stream.security \o "Settings"}
    IN  [tag |-> outbound.tag, protocol |-> outbound.protocol, sendThrough |-> outbound.sendThrough,
         settings |-> Only(outbound.settings, DOMAIN outbound.settings \ blank),
         stream   |-> Given(O!canEnableStream(outbound), Only(outbound.stream, keys)),
         sockopt  |-> outbound.stream.sockopt,
         mux      |-> Given(outbound.mux.enabled, outbound.mux)]

\* What the outbound form shows is what it shows when the outbound is opened again,
\* whichever protocol, network and security were chosen on the way, and whether it
\* was new, stored, pasted or imported from a link (toJson and fromJson of every class;
\* what is typed into single fields comes in with the pasted and stored ones).
OutboundKept ==
    outVisible => Shows(Drawn(O!OutboundFromJson(O!OutboundJson(outModal.outbound)))) = Shows(outModal.outbound)

\* No two outbounds share a tag, whatever is added, edited, moved and brought in by
\* the lists of domains: Xray refuses a second one.  (The strategy of "direct"
\* brings one in beside an outbound of another protocol that has the tag.)
OutTagsUnique ==
    \A i, j \in DOMAIN outbounds :
        i # j /\ TagOf(outbounds[i]) = TagOf(outbounds[j])
        => TagOf(outbounds[i]) = direct /\ outbounds[i].protocol # outbounds[j].protocol

\* The observatory of a balancer's strategy watches what it selects from.
Watched(balancer) ==
    /\ balancer.strategy \in Pings => balancer.selector \subseteq watched.observatory
    /\ balancer.strategy \in Loads => balancer.selector \subseteq watched.burstObservatory

\* The balancer a rule names is there under the name it has by now, and the
\* observatories watch what each balancer selects from, and only that.  (Deleting a
\* balancer leaves its rules, and so does renaming it after a cancelled edit.  And a
\* balancer is left out whose cancelled edit was still in the list when another one's
\* form was confirmed without a change: then that list says what to watch.)
BalancersServed ==
    /\ \A i \in DOMAIN rules : rules[i].balancerTag \in {EmptyText} \cup TagsOf(balancers) \cup lost
    /\ \A i \in DOMAIN balancers \ unheeded : Watched(balancers[i])
    /\ unheeded = {} => watched = ObservatorySelectors(balancers)

==============================================================================
