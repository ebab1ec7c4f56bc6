------------------------------ MODULE Pages_proofs ------------------------------
(***************************************************************************)
(* The pages.  What the inbound pages store keeps its pairs of keys, fits  *)
(* its network and its method; no two outbounds share a tag, and the rules *)
(* and the observatories follow the balancers; for any inbounds and        *)
(* templates the panel starts with, and whatever is chosen, typed, pasted  *)
(* or imported.  An inbound that is read and written again is the same,    *)
(* but for what has headers.                                               *)
(***************************************************************************)
EXTENDS FiniteSets, InboundPages, OutboundPages, FiniteSetTheorems, SequenceTheorems, TLAPS

Order == INSTANCE WellFoundedInduction

Entries(seq) == {seq[i] : i \in DOMAIN seq}
IsList(seq)  == seq \in Seq(Entries(seq))

LEMMA ListOf ==
  ASSUME NEW S, NEW seq \in Seq(S)
  PROVE  /\ IsList(seq) /\ Len(seq) \in Nat /\ DOMAIN seq = 1 .. Len(seq)
         /\ \A i \in DOMAIN seq : seq[i] \in S
<1>1. Len(seq) \in Nat /\ DOMAIN seq = 1 .. Len(seq) /\ seq \in [1 .. Len(seq) -> S]
  OBVIOUS
<1>2. seq \in [1 .. Len(seq) -> Entries(seq)]
  BY <1>1 DEF Entries
<1>3. IsList(seq)
  BY <1>1, <1>2, SeqDef DEF IsList
<1>4. QED
  BY <1>1, <1>3

LEMMA Listed ==
  ASSUME NEW seq, IsList(seq)
  PROVE  Len(seq) \in Nat /\ DOMAIN seq = 1 .. Len(seq)
BY ListOf DEF IsList

LEMMA Appended ==
  ASSUME NEW seq, IsList(seq), NEW x
  PROVE  /\ IsList(Append(seq, x)) /\ Len(Append(seq, x)) = Len(seq) + 1
         /\ \A i \in DOMAIN seq : Append(seq, x)[i] = seq[i]
         /\ Append(seq, x)[Len(seq) + 1] = x
         /\ DOMAIN Append(seq, x) = 1 .. Len(seq) + 1
<1> DEFINE S == Entries(seq) \cup {x}
<1>1. seq \in Seq(S) /\ x \in S
  BY SeqMonotonic DEF IsList
<1> HIDE DEF S
<1>2. /\ Append(seq, x) \in Seq(S) /\ Len(Append(seq, x)) = Len(seq) + 1
      /\ \A i \in 1 .. Len(seq) : Append(seq, x)[i] = seq[i]
      /\ Append(seq, x)[Len(seq) + 1] = x
  BY <1>1, AppendProperties
<1>3. QED
  BY <1>1, <1>2, ListOf

LEMMA Single ==
  ASSUME NEW x
  PROVE  IsList(<<x>>) /\ DOMAIN <<x>> = {1} /\ <<x>>[1] = x
<1>1. <<x>> \in Seq({x}) /\ DOMAIN <<x>> = {1} /\ <<x>>[1] = x
  OBVIOUS
<1>2. QED
  BY <1>1, ListOf

LEMMA Replaced ==
  ASSUME NEW seq, IsList(seq), NEW index \in DOMAIN seq, NEW x
  PROVE  /\ IsList([seq EXCEPT ![index] = x])
         /\ Len([seq EXCEPT ![index] = x]) = Len(seq)
         /\ DOMAIN [seq EXCEPT ![index] = x] = DOMAIN seq
         /\ \A i \in DOMAIN seq : [seq EXCEPT ![index] = x][i] = IF i = index THEN x ELSE seq[i]
<1> DEFINE S == Entries(seq) \cup {x}  new == [seq EXCEPT ![index] = x]
<1>1. seq \in Seq(S) /\ x \in S
  BY SeqMonotonic DEF IsList
<1>2. /\ DOMAIN new = DOMAIN seq
      /\ \A i \in DOMAIN seq : new[i] = IF i = index THEN x ELSE seq[i]
  OBVIOUS
<1> HIDE DEF S
<1>3. index \in 1 .. Len(seq)
  BY Listed
<1>4. new \in Seq(S) /\ Len(new) = Len(seq)
  BY <1>1, <1>3, ExceptSeq
<1> HIDE DEF new
<1>5. IsList(new) /\ DOMAIN new = 1 .. Len(new) /\ Len(new) \in Nat
  BY <1>4, ListOf
<1>6. QED
  BY <1>2, <1>4, <1>5 DEF new

LEMMA CutOff ==
  ASSUME NEW seq, IsList(seq), NEW n \in 0 .. Len(seq)
  PROVE  /\ IsList(SubSeq(seq, 1, n)) /\ Len(SubSeq(seq, 1, n)) = n
         /\ \A i \in 1 .. n : SubSeq(seq, 1, n)[i] = seq[i]
         /\ DOMAIN SubSeq(seq, 1, n) = 1 .. n
<1> DEFINE S == Entries(seq)
<1>1. seq \in Seq(S) /\ Len(seq) \in Nat
  BY Listed DEF IsList
<1> HIDE DEF S
<1>2. /\ SubSeq(seq, 1, n) \in Seq(S) /\ Len(SubSeq(seq, 1, n)) = n
      /\ \A i \in 1 .. n : SubSeq(seq, 1, n)[i] = seq[i]
  BY <1>1, SubSeqProperties
<1>3. QED
  BY <1>2, ListOf

LEMMA Shortened ==
  ASSUME NEW seq, IsList(seq), NEW index \in DOMAIN seq
  PROVE  /\ IsList(Without(seq, index)) /\ Len(Without(seq, index)) = Len(seq) - 1
         /\ DOMAIN Without(seq, index) = 1 .. Len(seq) - 1
         /\ \A i \in 1 .. Len(seq) - 1 :
              Without(seq, index)[i] = IF i < index THEN seq[i] ELSE seq[i + 1]
<1> DEFINE S == Entries(seq)  a == SubSeq(seq, 1, index - 1)  b == SubSeq(seq, index + 1, Len(seq))
<1>1. seq \in Seq(S) /\ Len(seq) \in Nat /\ index \in 1 .. Len(seq)
  BY Listed DEF IsList
<1> HIDE DEF S
<1>2. /\ a \in Seq(S) /\ Len(a) = index - 1
      /\ \A i \in 1 .. index - 1 : a[i] = seq[i]
  BY <1>1, SubSeqProperties
<1>3. /\ b \in Seq(S) /\ Len(b) = Len(seq) - index
      /\ \A i \in 1 .. Len(seq) - index : b[i] = seq[index + i]
  BY <1>1, SubSeqProperties
<1> HIDE DEF a, b
<1>4. /\ a \o b \in Seq(S) /\ Len(a \o b) = Len(seq) - 1
      /\ \A i \in 1 .. Len(seq) - 1 : (a \o b)[i] = IF i <= index - 1 THEN a[i] ELSE b[i - (index - 1)]
  BY <1>1, <1>2, <1>3, ConcatProperties
<1>5. \A i \in 1 .. Len(seq) - 1 : (a \o b)[i] = IF i < index THEN seq[i] ELSE seq[i + 1]
  <2> TAKE i \in 1 .. Len(seq) - 1
  <2>1. CASE i < index
    BY <1>1, <1>2, <1>4, <2>1
  <2>2. CASE ~(i < index)
    <3>1. i - (index - 1) \in 1 .. Len(seq) - index /\ index + (i - (index - 1)) = i + 1
      BY <1>1, <2>2
    <3>2. (a \o b)[i] = b[i - (index - 1)]
      <4>1. ~(i <= index - 1)
        BY <1>1, <2>2
      <4>2. QED
        BY <1>4, <4>1
    <3>3. b[i - (index - 1)] = seq[i + 1]
      BY <1>3, <3>1
    <3>4. QED
      BY <2>2, <3>2, <3>3
  <2>3. QED
    BY <2>1, <2>2
<1>6. Without(seq, index) = a \o b
  BY DEF Without, a, b
<1>7. IsList(a \o b) /\ DOMAIN (a \o b) = 1 .. Len(a \o b)
  BY <1>4, ListOf
<1>8. QED
  BY <1>4, <1>5, <1>6, <1>7

\* A set of numbers that is not empty has a least one.
LEMMA Least ==
  ASSUME NEW S \in SUBSET Nat, S # {}
  PROVE  FirstOf(S) \in S /\ \A j \in S : FirstOf(S) <= j
<1> DEFINE Less == {pair \in Nat \X Nat : pair[1] < pair[2]}
<1>1. Order!IsWellFoundedOn(Less, Nat)
  BY Order!NatLessThanWellFounded DEF Order!OpToRel
<1>2. \E x \in S : \A y \in S : <<y, x>> \notin Less
  BY <1>1, Order!WFMin
<1>3. \A x, y \in Nat : y < x => <<y, x>> \in Less
  OBVIOUS
<1>4. \A x, y \in Nat : <<y, x>> \notin Less => x <= y
  BY <1>3
<1> HIDE DEF Less
<1>5. \E x \in S : \A y \in S : x <= y
  BY <1>2, <1>4
<1>6. QED
  BY <1>5 DEF FirstOf

(*---------------------------- the inbound pages -------------------------*)
\* A function on the places of a list is a list.
LEMMA Mapped ==
  ASSUME NEW seq, IsList(seq), NEW S, NEW new \in [DOMAIN seq -> S]
  PROVE  IsList(new)
<1>1. new \in Seq(S)
  BY Listed, SeqDef
<1>2. QED
  BY <1>1, ListOf

LEMMA NoKeys == ASSUME NEW key, NEW default PROVE Or(NoJson, key, default) = default
BY DEF Or, NoJson

\* The pairs of keys in what is stored and in what the form holds.
RealityKeys(reality) ==
    /\ {"privateKey", "mldsa65Seed", "settings"} \subseteq DOMAIN reality
    /\ {"publicKey", "mldsa65Verify"} \subseteq DOMAIN reality.settings
    /\ RealityPair(reality)
EchKeys(tls) ==
    /\ {"echServerKeys", "settings"} \subseteq DOMAIN tls
    /\ "echConfigList" \in DOMAIN tls.settings
    /\ EchPair(tls)

LEMMA RealityRead ==
  ASSUME NEW json, NEW r, json = NoJson \/ RealityKeys(json)
  PROVE  RealityKeys(RealityStreamSettings(json, r))
<1> DEFINE inner == [publicKey |-> "", fingerprint |-> "chrome", serverName |-> EmptyText,
                     spiderX |-> <<"/">>, mldsa65Verify |-> ""]
           outer == [show |-> FALSE, xver |-> 0, target |-> "tesla.com:443",
              serverNames |-> <<"tesla.com", "www.tesla.com">>, privateKey |-> "",
              minClientVer |-> "", maxClientVer |-> "", maxTimediff |-> 0, shortIds |-> <<r>>,
              mldsa65Seed |-> "", settings |-> NoJson]
           base  == New(outer, json)
           got  == RealityStreamSettings(json, r)
<1>1. got = [base EXCEPT !.serverNames = Joined(@), !.shortIds = Joined(@), !.settings = New(inner, @)]
  BY DEF RealityStreamSettings
<1>2. {"privateKey", "mldsa65Seed", "settings"} \subseteq DOMAIN outer
  OBVIOUS
<1>3. outer.privateKey = "" /\ outer.mldsa65Seed = "" /\ outer.settings = NoJson
  OBVIOUS
<1>4. {"publicKey", "mldsa65Verify"} \subseteq DOMAIN inner /\ inner.publicKey = "" /\ inner.mldsa65Verify = ""
  OBVIOUS
<1> HIDE DEF inner, outer
<1>5. /\ {"privateKey", "mldsa65Seed", "settings"} \subseteq DOMAIN base
      /\ base.privateKey = Or(json, "privateKey", "")
      /\ base.mldsa65Seed = Or(json, "mldsa65Seed", "")
      /\ base.settings = Or(json, "settings", NoJson)
  BY <1>2, <1>3 DEF New
<1> HIDE DEF base, got
<1>6. /\ {"privateKey", "mldsa65Seed", "settings"} \subseteq DOMAIN got
      /\ got.privateKey = Or(json, "privateKey", "")
      /\ got.mldsa65Seed = Or(json, "mldsa65Seed", "")
      /\ got.settings = New(inner, Or(json, "settings", NoJson))
  BY <1>1, <1>5
<1>7. /\ {"publicKey", "mldsa65Verify"} \subseteq DOMAIN got.settings
      /\ got.settings.publicKey = Or(Or(json, "settings", NoJson), "publicKey", "")
      /\ got.settings.mldsa65Verify = Or(Or(json, "settings", NoJson), "mldsa65Verify", "")
  BY <1>4, <1>6 DEF New
<1>8. RealityPair(got)
  <2>1. CASE json = NoJson
    <3>1. got.privateKey = "" /\ got.mldsa65Seed = "" /\ Or(json, "settings", NoJson) = NoJson
      BY <1>6, <2>1, NoKeys
    <3>2. got.settings.publicKey = "" /\ got.settings.mldsa65Verify = ""
      BY <1>7, <3>1, NoKeys
    <3>3. QED
      BY <3>1, <3>2 DEF RealityPair
  <2>2. CASE RealityKeys(json)
    BY <1>6, <1>7, <2>2 DEF RealityPair, RealityKeys, Or
  <2>3. QED
    BY <2>1, <2>2
<1>9. QED
  BY <1>6, <1>7, <1>8 DEF RealityKeys, got

LEMMA EchRead ==
  ASSUME NEW json, json = NoJson \/ EchKeys(json)
  PROVE  EchKeys(TlsStreamSettings(json))
<1> DEFINE inner == [allowInsecure |-> FALSE, fingerprint |-> "chrome", echConfigList |-> EmptyText]
           outer == [serverName |-> EmptyText, minVersion |-> "1.2", maxVersion |-> "1.3", cipherSuites |-> "",
              rejectUnknownSni |-> FALSE, verifyPeerCertInNames |-> <<"dns.google", "cloudflare-dns.com">>,
              disableSystemRoot |-> FALSE, enableSessionResumption |-> FALSE,
              certificates |-> <<>>, alpn |-> <<"h2", "http/1.1">>, echServerKeys |-> "",
              echForceQuery |-> "none", settings |-> NoJson]
           base  == New(outer, json)
           got  == TlsStreamSettings(json)
           certs == IF "certificates" \in DOMAIN json THEN Map(base.certificates, Cert) ELSE <<NewCert>>
<1>1. got = [base EXCEPT !.certificates = certs, !.verifyPeerCertInNames = Joined(@), !.settings = New(inner, @)]
  BY DEF TlsStreamSettings
<1>2. {"echServerKeys", "settings"} \subseteq DOMAIN outer /\ outer.echServerKeys = "" /\ outer.settings = NoJson
  OBVIOUS
<1>3. "echConfigList" \in DOMAIN inner /\ inner.echConfigList = <<"">>
  BY DEF EmptyText
<1> HIDE DEF inner, outer, certs
<1>4. /\ {"echServerKeys", "settings"} \subseteq DOMAIN base
      /\ base.echServerKeys = Or(json, "echServerKeys", "")
      /\ base.settings = Or(json, "settings", NoJson)
  BY <1>2 DEF New
<1> HIDE DEF base, got
<1>5. /\ {"echServerKeys", "settings"} \subseteq DOMAIN got
      /\ got.echServerKeys = Or(json, "echServerKeys", "")
      /\ got.settings = New(inner, Or(json, "settings", NoJson))
  BY <1>1, <1>4
<1>6. /\ "echConfigList" \in DOMAIN got.settings
      /\ got.settings.echConfigList = Or(Or(json, "settings", NoJson), "echConfigList", <<"">>)
  BY <1>3, <1>5 DEF New
<1>7. EchPair(got)
  <2>1. CASE json = NoJson
    BY <1>5, <1>6, <2>1, NoKeys DEF EchPair
  <2>2. CASE EchKeys(json)
    BY <1>5, <1>6, <2>2 DEF EchPair, EchKeys, Or
  <2>3. QED
    BY <2>1, <2>2
<1>8. QED
  BY <1>5, <1>6, <1>7 DEF EchKeys, got

LEMMA EchWritten ==
  ASSUME NEW tls, EchKeys(tls)
  PROVE  EchKeys(TlsStreamSettingsJson(tls))
BY DEF EchKeys, EchPair, TlsStreamSettingsJson

\* A kcp stream has no security.
Secure(network, security) == network = "kcp" => security = "none"

StreamRow(json) ==
    /\ "realitySettings" \in DOMAIN json => RealityKeys(json.realitySettings)
    /\ "tlsSettings" \in DOMAIN json => EchKeys(json.tlsSettings)
    /\ Secure(Or(json, "network", "tcp"), Or(json, "security", "none"))
StreamForm(strm) ==
    /\ {"network", "security", "externalProxy", "realitySettings", "tlsSettings", "sockopt"} \subseteq DOMAIN strm
    /\ RealityKeys(strm.realitySettings) /\ EchKeys(strm.tlsSettings)
    /\ Secure(strm.network, strm.security)

LEMMA StreamRead ==
  ASSUME NEW json, json = NoJson \/ StreamRow(json), NEW r
  PROVE  /\ StreamForm(StreamSettings(json, r))
         /\ StreamSettings(json, r).network = Or(json, "network", "tcp")
         /\ StreamSettings(json, r).security = Or(json, "security", "none")
<1> DEFINE got == StreamSettings(json, r)
<1>1. /\ {"network", "security", "externalProxy", "realitySettings", "tlsSettings", "sockopt"} \subseteq DOMAIN got
      /\ got.network = Or(json, "network", "tcp") /\ got.security = Or(json, "security", "none")
      /\ got.realitySettings = RealityStreamSettings(Or(json, "realitySettings", NoJson), r)
      /\ got.tlsSettings = TlsStreamSettings(Or(json, "tlsSettings", NoJson))
  BY DEF StreamSettings
<1> HIDE DEF got
<1>2. RealityKeys(got.realitySettings)
  <2>1. LET half == Or(json, "realitySettings", NoJson) IN half = NoJson \/ RealityKeys(half)
    BY DEF StreamRow, Or, NoJson
  <2>2. QED
    BY <1>1, <2>1, RealityRead
<1>3. EchKeys(got.tlsSettings)
  <2>1. LET half == Or(json, "tlsSettings", NoJson) IN half = NoJson \/ EchKeys(half)
    BY DEF StreamRow, Or, NoJson
  <2>2. QED
    BY <1>1, <2>1, EchRead
<1>4. Secure(got.network, got.security)
  BY <1>1 DEF StreamRow, Secure, Or, NoJson
<1>5. QED
  BY <1>1, <1>2, <1>3, <1>4 DEF StreamForm, got

LEMMA StreamWritten ==
  ASSUME NEW strm, StreamForm(strm)
  PROVE  /\ StreamRow(StreamSettingsJson(strm))
         /\ {"network", "security"} \subseteq DOMAIN StreamSettingsJson(strm)
         /\ StreamSettingsJson(strm).network = strm.network
         /\ StreamSettingsJson(strm).security = strm.security
<1> DEFINE json == [strm EXCEPT !.tlsSettings         = TlsStreamSettingsJson(@),
                                !.tcpSettings         = TcpStreamSettingsJson(@),
                                !.kcpSettings         = KcpStreamSettingsJson(@),
                                !.wsSettings          = WsStreamSettingsJson(@),
                                !.httpupgradeSettings = HTTPUpgradeStreamSettingsJson(@),
                                !.xhttpSettings       = xHTTPStreamSettingsJson(@)]
           keys == {"network", "security", "externalProxy"}
                   \cup {strm.network \o "Settings", strm.security \o "Settings"}
                   \cup (IF strm.sockopt = NoJson THEN {} ELSE {"sockopt"})
           wrote == StreamSettingsJson(strm)
<1>1. wrote = Only(json, keys)
  BY DEF StreamSettingsJson
<1>2. {"network", "security"} \subseteq keys
  OBVIOUS
<1>3. /\ {"network", "security"} \subseteq DOMAIN json
      /\ json.network = strm.network /\ json.security = strm.security
      /\ json.realitySettings = strm.realitySettings
      /\ json.tlsSettings = TlsStreamSettingsJson(strm.tlsSettings)
  BY DEF StreamForm
<1> HIDE DEF json, keys, wrote
<1>4. /\ {"network", "security"} \subseteq DOMAIN wrote
      /\ wrote.network = strm.network /\ wrote.security = strm.security
      /\ "realitySettings" \in DOMAIN wrote => wrote.realitySettings = strm.realitySettings
      /\ "tlsSettings" \in DOMAIN wrote => wrote.tlsSettings = TlsStreamSettingsJson(strm.tlsSettings)
  BY <1>1, <1>2, <1>3 DEF Only
<1>5. StreamRow(wrote)
  BY <1>4, EchWritten DEF StreamRow, StreamForm, Or
<1>6. QED
  BY <1>4, <1>5 DEF wrote

\* The keys of VLESS and of the peers of WireGuard.
VlessRow(settings)  == Or(settings, "decryption", "none") = Or(settings, "encryption", "none")
VlessForm(settings) ==
    /\ {"clients", "decryption", "encryption"} \subseteq DOMAIN settings
    /\ \/ settings.decryption = settings.encryption
       \/ settings.decryption = "none" /\ settings.encryption = ""
PeerKeys(peer)  == {"privateKey", "publicKey"} \subseteq DOMAIN peer /\ PeerPair(peer)
PeersKeys(settings) ==
    "peers" \in DOMAIN settings /\ \A i \in DOMAIN settings.peers : PeerKeys(settings.peers[i])

LEMMA VlessRead ==
  ASSUME NEW json, VlessRow(json), NEW r
  PROVE  VlessForm(VLESSSettings(json, r))
<1> DEFINE outer == [clients |-> <<>>, decryption |-> "none", encryption |-> "", fallbacks |-> <<>>,
                     selectedAuth |-> "X25519, not Post-Quantum"]
           base  == New(outer, json)
           got  == VLESSSettings(json, r)
<1>1. got = [base EXCEPT !.clients = Map(@, LAMBDA c : VLESS(c, r)), !.fallbacks = Map(@, Fallback)]
  BY DEF VLESSSettings
<1>2. /\ {"clients", "decryption", "encryption"} \subseteq DOMAIN outer
      /\ outer.decryption = "none" /\ outer.encryption = ""
  OBVIOUS
<1> HIDE DEF outer
<1>3. /\ {"clients", "decryption", "encryption"} \subseteq DOMAIN base
      /\ base.decryption = Or(json, "decryption", "none") /\ base.encryption = Or(json, "encryption", "")
  BY <1>2 DEF New
<1> HIDE DEF base, got
<1>4. /\ {"clients", "decryption", "encryption"} \subseteq DOMAIN got
      /\ got.decryption = Or(json, "decryption", "none") /\ got.encryption = Or(json, "encryption", "")
  BY <1>1, <1>3 DEF Map
<1>5. QED
  BY <1>4 DEF VlessRow, VlessForm, Or, got

LEMMA VlessWritten ==
  ASSUME NEW settings, VlessForm(settings)
  PROVE  VlessRow(VLESSSettingsJson(settings))
<1> DEFINE json == [settings EXCEPT !.fallbacks = Map(@, FallbackJson)]
           keys == {"clients", "selectedAuth"}
                   \cup {key \in {"decryption", "encryption"} : json[key] # ""}
                   \cup (IF json.fallbacks = <<>> THEN {} ELSE {"fallbacks"})
           wrote == VLESSSettingsJson(settings)
<1>1. wrote = Only(json, keys)
  BY DEF VLESSSettingsJson
<1>2. /\ {"decryption", "encryption"} \subseteq DOMAIN json
      /\ json.decryption = settings.decryption /\ json.encryption = settings.encryption
  BY DEF VlessForm, Map
<1>3. \A key \in {"decryption", "encryption"} : key \in keys <=> json[key] # ""
  OBVIOUS
<1> HIDE DEF json, keys, wrote
<1>4. \A key \in {"decryption", "encryption"} :
        Or(wrote, key, "none") = IF settings[key] = "" THEN "none" ELSE settings[key]
  BY <1>1, <1>2, <1>3 DEF Only, Or
<1>5. \A key \in {"decryption", "encryption"} :
        /\ settings[key] = "" => Or(wrote, key, "none") = "none"
        /\ settings[key] # "" => Or(wrote, key, "none") = settings[key]
  BY <1>4
<1>6. CASE settings.decryption = ""
  <2>1. Or(wrote, "decryption", "none") = "none"
    BY <1>5, <1>6
  <2>2. Or(wrote, "encryption", "none") = "none"
    BY <1>5, <1>6 DEF VlessForm
  <2>3. QED
    BY <2>1, <2>2 DEF VlessRow, wrote
<1>7. CASE settings.decryption # ""
  <2>1. Or(wrote, "decryption", "none") = settings.decryption
    BY <1>5, <1>7
  <2>2. Or(wrote, "encryption", "none") = settings.decryption
    BY <1>5, <1>7 DEF VlessForm
  <2>3. QED
    BY <2>1, <2>2 DEF VlessRow, wrote
<1>8. QED
  BY <1>6, <1>7

LEMMA PeerRead ==
  ASSUME NEW json, json = NoJson \/ PeerKeys(json), NEW r
  PROVE  PeerKeys(Peer(json, r))
<1> DEFINE outer == [privateKey |-> <<>>, publicKey |-> <<>>, preSharedKey |-> "",
                     allowedIPs |-> <<[ip |-> "10.0.0.2", mask |-> "/32"]>>, keepAlive |-> 0]
           peer == New(outer, json)
           ours == [peer EXCEPT !.allowedIPs = WithMask(@)]
           pair == [privateKey |-> <<r>>, publicKey |-> PublicOf(<<r>>)]
           got == Peer(json, r)
<1>1. got = With(ours, Given(peer.publicKey = <<>>, pair))
  BY DEF Peer
<1>2. /\ {"privateKey", "publicKey"} \subseteq DOMAIN outer
      /\ outer.privateKey = <<>> /\ outer.publicKey = <<>>
  OBVIOUS
<1>3. DOMAIN pair = {"privateKey", "publicKey"} /\ pair.publicKey = PublicOf(pair.privateKey)
  OBVIOUS
<1> HIDE DEF outer, pair
<1>4. /\ {"privateKey", "publicKey"} \subseteq DOMAIN peer
      /\ peer.privateKey = Or(json, "privateKey", <<>>) /\ peer.publicKey = Or(json, "publicKey", <<>>)
  BY <1>2 DEF New
<1> HIDE DEF peer
<1>5. /\ {"privateKey", "publicKey"} \subseteq DOMAIN ours
      /\ ours.privateKey = peer.privateKey /\ ours.publicKey = peer.publicKey
  BY <1>4
<1> HIDE DEF ours, got
<1>6. CASE peer.publicKey = <<>>
  <2>1. got = With(ours, pair)
    BY <1>1, <1>6 DEF Given
  <2>2. /\ {"privateKey", "publicKey"} \subseteq DOMAIN got
        /\ got.privateKey = pair.privateKey /\ got.publicKey = pair.publicKey
    BY <1>3, <1>5, <2>1 DEF With
  <2>3. QED
    BY <1>3, <2>2 DEF PeerKeys, PeerPair, got
<1>7. CASE peer.publicKey # <<>>
  <2>1. json # NoJson
    BY <1>4, <1>7, NoKeys
  <2>2. got = With(ours, NoJson)
    BY <1>1, <1>7 DEF Given
  <2>3. "privateKey" \notin DOMAIN NoJson /\ "publicKey" \notin DOMAIN NoJson
    BY DEF NoJson
  <2>4. /\ {"privateKey", "publicKey"} \subseteq DOMAIN got
        /\ got.privateKey = peer.privateKey /\ got.publicKey = peer.publicKey
    BY <1>5, <2>2, <2>3 DEF With
  <2>5. QED
    BY <1>4, <2>1, <2>4 DEF PeerKeys, PeerPair, Or, got
<1>8. QED
  BY <1>6, <1>7

LEMMA PeersRead ==
  ASSUME NEW json, "peers" \in DOMAIN json, NEW r,
         \A i \in DOMAIN json.peers : json.peers[i] = NoJson \/ PeerKeys(json.peers[i])
  PROVE  PeersKeys(WireguardSettings(json, r))
<1> DEFINE outer == [mtu |-> 1420, secretKey |-> <<r>>, peers |-> <<>>, noKernelTun |-> FALSE]
           base  == New(outer, json)
           own   == [base EXCEPT !.peers = Map(@, LAMBDA p : Peer(p, r))]
           pub   == [pubKey |-> IF base.secretKey = <<>> THEN <<>> ELSE PublicOf(base.secretKey)]
           got  == WireguardSettings(json, r)
<1>1. got = With(own, pub)
  BY DEF WireguardSettings
<1>2. "peers" \in DOMAIN outer /\ "peers" \notin DOMAIN pub
  OBVIOUS
<1> HIDE DEF outer, pub
<1>3. "peers" \in DOMAIN base /\ base.peers = json.peers
  BY <1>2 DEF New, Or
<1> HIDE DEF base
<1>4. "peers" \in DOMAIN own /\ own.peers = [i \in DOMAIN json.peers |-> Peer(json.peers[i], r)]
  BY <1>3 DEF Map
<1> HIDE DEF own, got
<1>5. "peers" \in DOMAIN got /\ got.peers = [i \in DOMAIN json.peers |-> Peer(json.peers[i], r)]
  BY <1>1, <1>2, <1>4 DEF With
<1>6. QED
  BY <1>5, PeerRead DEF PeersKeys, got

LEMMA PeersWritten ==
  ASSUME NEW settings, PeersKeys(settings)
  PROVE  PeersKeys(WireguardSettingsJson(settings))
<1>1. ASSUME NEW peer, PeerKeys(peer) PROVE PeerKeys(PeerJson(peer))
  BY <1>1 DEF PeerKeys, PeerPair, PeerJson
<1> DEFINE wrote == WireguardSettingsJson(settings)
<1>2. /\ "peers" \in DOMAIN wrote
      /\ wrote.peers = [i \in DOMAIN settings.peers |-> PeerJson(settings.peers[i])]
  BY DEF WireguardSettingsJson, PeersKeys, Map
<1> HIDE DEF wrote
<1>3. QED
  BY <1>1, <1>2 DEF PeersKeys, wrote

(*----------------------------- clients that fit -------------------------*)
LEMMA ClientRead ==
  ASSUME NEW credential, NEW json, NEW r, NEW key \in DOMAIN credential,
         key \notin {"created_at", "updated_at"}
  PROVE  /\ key \in DOMAIN Client(credential, json, r)
         /\ Client(credential, json, r)[key] = Or(json, key, credential[key])
<1> DEFINE limits == ClientLimits(r)  all == With(limits, credential)
           base == New(all, json)  times == Only(json, {"created_at", "updated_at"})
<1>1. Client(credential, json, r) = With(base, times)
  BY DEF Client
<1> HIDE DEF limits
<1>2. key \in DOMAIN all /\ all[key] = credential[key]
  BY DEF With
<1> HIDE DEF all
<1>3. key \in DOMAIN base /\ base[key] = Or(json, key, credential[key])
  BY <1>2 DEF New
<1>4. key \notin DOMAIN times
  BY DEF Only
<1> HIDE DEF base, times
<1>5. QED
  BY <1>1, <1>3, <1>4 DEF With

LEMMA ShadowRead ==
  ASSUME NEW json, NEW r
  PROVE  /\ {"method", "password"} \subseteq DOMAIN Shadowsocks(json, r)
         /\ Shadowsocks(json, r).method = Or(json, "method", "")
         /\ Shadowsocks(json, r).password
              = Or(json, "password", randomShadowsocksPassword(defaultMethod, r))
<1> DEFINE credential == [method |-> "", password |-> randomShadowsocksPassword(defaultMethod, r)]
<1>1. Shadowsocks(json, r) = Client(credential, json, r)
  BY DEF Shadowsocks
<1>2. /\ "method" \in DOMAIN credential /\ "password" \in DOMAIN credential
      /\ credential.method = "" /\ credential.password = randomShadowsocksPassword(defaultMethod, r)
  OBVIOUS
<1> HIDE DEF credential
<1>3. QED
  BY <1>1, <1>2, ClientRead

LEMMA VlessClientRead ==
  ASSUME NEW json, NEW r
  PROVE  "flow" \in DOMAIN VLESS(json, r) /\ VLESS(json, r).flow = Or(json, "flow", "")
<1> DEFINE credential == [id |-> r, flow |-> ""]
<1>1. VLESS(json, r) = Client(credential, json, r)
  BY DEF VLESS
<1>2. "flow" \in DOMAIN credential /\ credential.flow = ""
  OBVIOUS
<1> HIDE DEF credential
<1>3. QED
  BY <1>1, <1>2, ClientRead

\* Clients of VLESS and their flows.
Flowing(client, network) == "flow" \in DOMAIN client /\ (network # "tcp" => client.flow = "")
VlessFits(settings, network) ==
    /\ "clients" \in DOMAIN settings /\ IsList(settings.clients)
    /\ \A i \in DOMAIN settings.clients : Flowing(settings.clients[i], network)

LEMMA VlessFitsRead ==
  ASSUME NEW json, "clients" \in DOMAIN json, IsList(json.clients), NEW network, NEW r,
         \A i \in DOMAIN json.clients : json.clients[i] = NoJson \/ Flowing(json.clients[i], network)
  PROVE  VlessFits(VLESSSettings(json, r), network)
<1> DEFINE outer == [clients |-> <<>>, decryption |-> "none", encryption |-> "", fallbacks |-> <<>>,
                     selectedAuth |-> "X25519, not Post-Quantum"]
           base  == New(outer, json)
           got  == VLESSSettings(json, r)
           users == [i \in DOMAIN json.clients |-> VLESS(json.clients[i], r)]
<1>1. got = [base EXCEPT !.clients = Map(@, LAMBDA c : VLESS(c, r)), !.fallbacks = Map(@, Fallback)]
  BY DEF VLESSSettings
<1>2. "clients" \in DOMAIN outer
  OBVIOUS
<1> HIDE DEF outer
<1>3. "clients" \in DOMAIN base /\ base.clients = json.clients
  BY <1>2 DEF New, Or
<1> HIDE DEF base, got
<1>4. "clients" \in DOMAIN got /\ got.clients = users
  BY <1>1, <1>3 DEF Map
<1>5. IsList(users)
  <2>1. users \in [DOMAIN json.clients -> {users[i] : i \in DOMAIN json.clients}]
    OBVIOUS
  <2> HIDE DEF users
  <2>2. QED
    BY <2>1, Mapped
<1>6. ASSUME NEW i \in DOMAIN json.clients PROVE Flowing(users[i], network)
  <2>1. users[i] = VLESS(json.clients[i], r)
    OBVIOUS
  <2>2. "flow" \in DOMAIN users[i] /\ users[i].flow = Or(json.clients[i], "flow", "")
    BY <2>1, VlessClientRead
  <2> HIDE DEF users
  <2>3. CASE json.clients[i] = NoJson
    BY <2>2, <2>3, NoKeys DEF Flowing
  <2>4. CASE Flowing(json.clients[i], network)
    BY <2>2, <2>4 DEF Flowing, Or
  <2>5. QED
    BY <2>3, <2>4
<1>7. DOMAIN users = DOMAIN json.clients
  OBVIOUS
<1> HIDE DEF users
<1>8. QED
  BY <1>4, <1>5, <1>6, <1>7 DEF VlessFits, got

LEMMA VlessFitsWritten ==
  ASSUME NEW settings, NEW network, VlessFits(settings, network)
  PROVE  VlessFits(VLESSSettingsJson(settings), network)
<1> DEFINE wrote == VLESSSettingsJson(settings)
<1>1. "clients" \in DOMAIN wrote /\ wrote.clients = settings.clients
  BY DEF VLESSSettingsJson, VlessFits, Only
<1> HIDE DEF wrote
<1>2. QED
  BY <1>1 DEF VlessFits, wrote

\* Clients of Shadowsocks, their methods and passwords.
SS2022 == {"2022-blake3-aes-128-gcm", "2022-blake3-aes-256-gcm", "2022-blake3-chacha20-poly1305"}
Keyed(client, method) ==
    /\ {"method", "password"} \subseteq DOMAIN client
    /\ method \in SS2022 =>
         client.method = "" /\ (client.password.draw # "bulk" => client.password.bytes = PasswordSize(method))
ShadowFits(settings) ==
    /\ {"method", "password", "clients"} \subseteq DOMAIN settings /\ IsList(settings.clients)
    /\ settings.method \in SS2022 => settings.password.bytes = PasswordSize(settings.method)
    /\ \A i \in DOMAIN settings.clients : Keyed(settings.clients[i], settings.method)

LEMMA ShadowFitsRead ==
  ASSUME NEW json, ShadowFits(json), NEW r
  PROVE  ShadowFits(ShadowsocksSettings(json, r))
<1> DEFINE outer == [method |-> defaultMethod, password |-> randomShadowsocksPassword(defaultMethod, r),
                     network |-> "tcp,udp", clients |-> <<>>, ivCheck |-> FALSE]
           base  == New(outer, json)
           got  == ShadowsocksSettings(json, r)
           users == [i \in DOMAIN json.clients |-> Shadowsocks(json.clients[i], r)]
<1>1. got = [base EXCEPT !.clients = Map(@, LAMBDA c : Shadowsocks(c, r))]
  BY DEF ShadowsocksSettings
<1>2. {"method", "password", "clients"} \subseteq DOMAIN outer
  OBVIOUS
<1> HIDE DEF outer
<1>3. /\ {"method", "password", "clients"} \subseteq DOMAIN base
      /\ base.clients = json.clients /\ base.method = json.method /\ base.password = json.password
  BY <1>2 DEF New, Or, ShadowFits
<1> HIDE DEF base, got
<1>4. /\ {"method", "password", "clients"} \subseteq DOMAIN got
      /\ got.clients = users /\ got.method = json.method /\ got.password = json.password
  BY <1>1, <1>3 DEF Map
<1>5. IsList(users)
  <2>1. users \in [DOMAIN json.clients -> {users[i] : i \in DOMAIN json.clients}]
    OBVIOUS
  <2> HIDE DEF users
  <2>2. QED
    BY <2>1, Mapped DEF ShadowFits
<1>6. ASSUME NEW i \in DOMAIN json.clients PROVE Keyed(users[i], json.method)
  <2>1. users[i] = Shadowsocks(json.clients[i], r)
    OBVIOUS
  <2>2. Keyed(json.clients[i], json.method)
    BY DEF ShadowFits
  <2>3. /\ {"method", "password"} \subseteq DOMAIN users[i]
        /\ users[i].method = json.clients[i].method /\ users[i].password = json.clients[i].password
    BY <2>1, <2>2, ShadowRead DEF Keyed, Or
  <2> HIDE DEF users
  <2>4. QED
    BY <2>2, <2>3 DEF Keyed
<1>7. DOMAIN users = DOMAIN json.clients
  OBVIOUS
<1> HIDE DEF users
<1>8. QED
  BY <1>4, <1>5, <1>6, <1>7 DEF ShadowFits, got

\* The settings of a new Shadowsocks inbound.
LEMMA ShadowNew ==
  ASSUME NEW json, json.clients = <<NoJson>>, DOMAIN json = {"clients", "accounts", "peers", "auth"}, NEW r
  PROVE  ShadowFits(ShadowsocksSettings(json, r))
<1> DEFINE word  == randomShadowsocksPassword(defaultMethod, r)
           outer == [method |-> defaultMethod, password |-> word,
                     network |-> "tcp,udp", clients |-> <<>>, ivCheck |-> FALSE]
           base  == New(outer, json)
           got  == ShadowsocksSettings(json, r)
           one   == Shadowsocks(NoJson, r)
<1>1. got = [base EXCEPT !.clients = Map(@, LAMBDA c : Shadowsocks(c, r))]
  BY DEF ShadowsocksSettings
<1>2. /\ {"method", "password", "clients"} \subseteq DOMAIN outer
      /\ outer.method = defaultMethod /\ outer.password = word
  OBVIOUS
<1>3. word.bytes = PasswordSize(defaultMethod)
  BY DEF randomShadowsocksPassword, PasswordSize
<1> HIDE DEF outer, word
<1>4. /\ {"method", "password", "clients"} \subseteq DOMAIN base
      /\ base.clients = <<NoJson>> /\ base.method = defaultMethod /\ base.password = word
  BY <1>2 DEF New, Or
<1> HIDE DEF base, got, one
<1>5. /\ {"method", "password", "clients"} \subseteq DOMAIN got
      /\ got.method = defaultMethod /\ got.password = word
      /\ got.clients = [i \in {1} |-> one]
  BY <1>1, <1>4 DEF Map, one
<1>6. Keyed(one, defaultMethod)
  <2>1. {"method", "password"} \subseteq DOMAIN one /\ one.method = "" /\ one.password = word
    <3>1. /\ {"method", "password"} \subseteq DOMAIN one
          /\ one.method = Or(NoJson, "method", "") /\ one.password = Or(NoJson, "password", word)
      BY ShadowRead DEF one, word
    <3>2. QED
      BY <3>1, NoKeys
  <2>2. QED
    BY <1>3, <2>1 DEF Keyed
<1>7. IsList(got.clients) /\ DOMAIN got.clients = {1} /\ got.clients[1] = one
  <2>1. got.clients \in [1 .. 1 -> {one}]
    BY <1>5
  <2>2. got.clients \in Seq({one})
    BY <2>1, 1 \in Nat, SeqDef
  <2>3. IsList(got.clients)
    BY <2>2, ListOf
  <2>4. QED
    BY <1>5, <2>3
<1>8. QED
  BY <1>3, <1>5, <1>6, <1>7 DEF ShadowFits, got

(*------------------------- inbounds read and written --------------------*)
SettingsRow(protocol, settings) ==
    /\ protocol = "vless" => VlessRow(settings)
    /\ protocol = "wireguard" => PeersKeys(settings)
SettingsForm(protocol, settings) ==
    /\ protocol = "vless" => VlessForm(settings)
    /\ protocol = "wireguard" => PeersKeys(settings)
Fits(protocol, settings, network) ==
    /\ protocol = "vless" => VlessFits(settings, network)
    /\ protocol = "shadowsocks" => ShadowFits(settings)

LEMMA SettingsRead ==
  ASSUME NEW protocol, NEW json, SettingsRow(protocol, json), NEW r
  PROVE  SettingsForm(protocol, Settings(protocol, json, r))
<1>1. CASE protocol = "vless"
  <2>1. Settings(protocol, json, r) = VLESSSettings(json, r)
    BY <1>1 DEF Settings
  <2>2. QED
    BY <1>1, <2>1, VlessRead DEF SettingsRow, SettingsForm
<1>2. CASE protocol = "wireguard"
  <2>1. Settings(protocol, json, r) = WireguardSettings(json, r)
    BY <1>2 DEF Settings
  <2>2. PeersKeys(json)
    BY <1>2 DEF SettingsRow
  <2>3. PeersKeys(WireguardSettings(json, r))
    BY <2>2, PeersRead DEF PeersKeys
  <2>4. QED
    BY <1>2, <2>1, <2>3 DEF SettingsForm
<1>3. QED
  BY <1>1, <1>2 DEF SettingsForm

LEMMA FitsRead ==
  ASSUME NEW protocol, NEW json, NEW network, Fits(protocol, json, network), NEW r
  PROVE  Fits(protocol, Settings(protocol, json, r), network)
<1>1. CASE protocol = "vless"
  <2>1. Settings(protocol, json, r) = VLESSSettings(json, r)
    BY <1>1 DEF Settings
  <2>2. VlessFits(json, network)
    BY <1>1 DEF Fits
  <2>3. VlessFits(VLESSSettings(json, r), network)
    BY <2>2, VlessFitsRead DEF VlessFits
  <2>4. QED
    BY <1>1, <2>1, <2>3 DEF Fits
<1>2. CASE protocol = "shadowsocks"
  <2>1. Settings(protocol, json, r) = ShadowsocksSettings(json, r)
    BY <1>2 DEF Settings
  <2>2. QED
    BY <1>2, <2>1, ShadowFitsRead DEF Fits
<1>3. QED
  BY <1>1, <1>2 DEF Fits

LEMMA SettingsWritten ==
  ASSUME NEW protocol, NEW settings
  PROVE  /\ SettingsForm(protocol, settings) => SettingsRow(protocol, SettingsJson(protocol, settings))
         /\ \A network : Fits(protocol, settings, network) =>
              Fits(protocol, SettingsJson(protocol, settings), network)
<1>1. CASE protocol = "vless"
  <2>1. SettingsJson(protocol, settings) = VLESSSettingsJson(settings)
    BY <1>1 DEF SettingsJson
  <2>2. QED
    BY <1>1, <2>1, VlessWritten, VlessFitsWritten DEF SettingsForm, SettingsRow, Fits
<1>2. CASE protocol = "wireguard"
  <2>1. SettingsJson(protocol, settings) = WireguardSettingsJson(settings)
    BY <1>2 DEF SettingsJson
  <2>2. QED
    BY <1>2, <2>1, PeersWritten DEF SettingsForm, SettingsRow, Fits
<1>3. CASE protocol = "shadowsocks"
  <2>1. SettingsJson(protocol, settings) = settings
    BY <1>3 DEF SettingsJson
  <2>2. QED
    BY <1>3, <2>1 DEF SettingsForm, SettingsRow, Fits
<1>4. QED
  BY <1>1, <1>2, <1>3 DEF SettingsRow, Fits

LEMMA SettingsNew ==
  ASSUME NEW protocol, NEW r
  PROVE  /\ SettingsForm(protocol, getSettings(protocol, r))
         /\ \A network : Fits(protocol, getSettings(protocol, r), network)
<1> DEFINE one  == <<NoJson>>
           json == [clients |-> one, accounts |-> one, peers |-> one, auth |-> "password"]
<1>1. getSettings(protocol, r) = Settings(protocol, json, r)
  BY DEF getSettings
<1>2. /\ DOMAIN json = {"clients", "accounts", "peers", "auth"}
      /\ json.clients = <<NoJson>> /\ json.peers = <<NoJson>>
  OBVIOUS
<1>3. DOMAIN one = {1} /\ one[1] = NoJson /\ IsList(one)
  <2>1. one \in Seq({NoJson}) /\ DOMAIN one = {1} /\ one[1] = NoJson
    OBVIOUS
  <2>2. QED
    BY <2>1, ListOf
<1> HIDE DEF json
<1>4. CASE protocol = "vless"
  <2>1. getSettings(protocol, r) = VLESSSettings(json, r)
    BY <1>1, <1>4 DEF Settings
  <2>2. VlessForm(VLESSSettings(json, r))
    <3>1. Or(json, "decryption", "none") = "none" /\ Or(json, "encryption", "none") = "none"
      BY <1>2 DEF Or
    <3>2. QED
      BY <3>1, VlessRead DEF VlessRow
  <2>3. ASSUME NEW network PROVE VlessFits(VLESSSettings(json, r), network)
    BY <1>2, <1>3, VlessFitsRead
  <2>4. QED
    BY <1>4, <2>1, <2>2, <2>3 DEF SettingsForm, Fits
<1>5. CASE protocol = "wireguard"
  <2>1. getSettings(protocol, r) = WireguardSettings(json, r)
    BY <1>1, <1>5 DEF Settings
  <2>2. PeersKeys(WireguardSettings(json, r))
    BY <1>2, <1>3, PeersRead
  <2>3. QED
    BY <1>5, <2>1, <2>2 DEF SettingsForm, Fits
<1>6. CASE protocol = "shadowsocks"
  <2>1. getSettings(protocol, r) = ShadowsocksSettings(json, r)
    BY <1>1, <1>6 DEF Settings
  <2>2. ShadowFits(ShadowsocksSettings(json, r))
    BY <1>2, ShadowNew
  <2>3. QED
    BY <1>6, <2>1, <2>2 DEF SettingsForm, Fits
<1>7. QED
  BY <1>4, <1>5, <1>6 DEF SettingsForm, Fits

\* Streamed: the protocols whose inbounds post their stream settings.
Streamed == {"vmess", "vless", "trojan", "shadowsocks"}

RowKeys(row) ==
    /\ {"protocol", "settings", "streamSettings"} \subseteq DOMAIN row
    /\ row.protocol \in Streamed => {"network", "security"} \subseteq DOMAIN row.streamSettings
    /\ StreamRow(row.streamSettings) /\ SettingsRow(row.protocol, row.settings)
RowFits(row) == Fits(row.protocol, row.settings, Or(row.streamSettings, "network", "tcp"))
FormKeys(inb) ==
    /\ {"protocol", "settings", "stream"} \subseteq DOMAIN inb
    /\ StreamForm(inb.stream) /\ SettingsForm(inb.protocol, inb.settings)
FormFits(inb) == Fits(inb.protocol, inb.settings, inb.stream.network)

LEMMA InboundRead ==
  ASSUME NEW row, RowKeys(row), NEW r
  PROVE  /\ FormKeys(InboundFromJson(row, r))
         /\ RowFits(row) => FormFits(InboundFromJson(row, r))
         /\ InboundFromJson(row, r).protocol = row.protocol
         /\ InboundFromJson(row, r).settings = Settings(row.protocol, row.settings, r)
         /\ InboundFromJson(row, r).stream.network = Or(row.streamSettings, "network", "tcp")
<1> DEFINE got == InboundFromJson(row, r)
<1>1. /\ {"protocol", "settings", "stream"} \subseteq DOMAIN got
      /\ got.protocol = row.protocol /\ got.settings = Settings(row.protocol, row.settings, r)
      /\ got.stream = StreamSettings(row.streamSettings, r)
  BY DEF InboundFromJson
<1> HIDE DEF got
<1>2. StreamForm(got.stream) /\ got.stream.network = Or(row.streamSettings, "network", "tcp")
  BY <1>1, StreamRead DEF RowKeys
<1>3. SettingsForm(got.protocol, got.settings)
  BY <1>1, SettingsRead DEF RowKeys
<1>4. RowFits(row) => FormFits(got)
  BY <1>1, <1>2, FitsRead DEF RowFits, FormFits
<1>5. QED
  BY <1>1, <1>2, <1>3, <1>4 DEF FormKeys, got

LEMMA InboundNew ==
  ASSUME NEW port, NEW r
  PROVE  FormKeys(NewInbound(port, r)) /\ FormFits(NewInbound(port, r))
<1> DEFINE new == NewInbound(port, r)
<1>1. /\ {"protocol", "settings", "stream"} \subseteq DOMAIN new
      /\ new.protocol = "vless" /\ new.settings = getSettings("vless", r)
      /\ new.stream = StreamSettings(NoJson, r)
  BY DEF NewInbound
<1> HIDE DEF new
<1>2. QED
  BY <1>1, StreamRead, SettingsNew DEF FormKeys, FormFits, new

LEMMA SockoptRow ==
  ASSUME NEW json
  PROVE  /\ StreamRow(Only(json, {"sockopt"})) /\ StreamRow(NoJson)
<1>1. /\ "realitySettings" \notin DOMAIN Only(json, {"sockopt"}) /\ "tlsSettings" \notin DOMAIN Only(json, {"sockopt"})
      /\ "network" \notin DOMAIN Only(json, {"sockopt"})
  BY DEF Only
<1>2. /\ "realitySettings" \notin DOMAIN NoJson /\ "tlsSettings" \notin DOMAIN NoJson /\ "network" \notin DOMAIN NoJson
  BY DEF NoJson
<1>3. QED
  BY <1>1, <1>2 DEF StreamRow, Secure, Or

LEMMA InboundWritten ==
  ASSUME NEW inb, FormKeys(inb)
  PROVE  /\ RowKeys(InboundJson(inb)) /\ RowKeys(Posted(inb))
         /\ FormFits(inb) => RowFits(InboundJson(inb)) /\ RowFits(Posted(inb))
<1> DEFINE json == InboundJson(inb)  sent == Posted(inb)
<1>1. /\ {"protocol", "settings", "streamSettings"} \subseteq DOMAIN json
      /\ json.protocol = inb.protocol /\ json.settings = SettingsJson(inb.protocol, inb.settings)
      /\ json.streamSettings = Given(canEnableStream(inb) \/ inb.stream.sockopt # NoJson,
                                     StreamSettingsJson(inb.stream))
  BY DEF InboundJson
<1>2. sent = [json EXCEPT !.streamSettings = IF canEnableStream(inb) THEN @ ELSE Only(@, {"sockopt"})]
  BY DEF Posted
<1> HIDE DEF json, sent
<1>3. /\ {"protocol", "settings", "streamSettings"} \subseteq DOMAIN sent
      /\ sent.protocol = inb.protocol /\ sent.settings = json.settings
      /\ sent.streamSettings = IF canEnableStream(inb) THEN json.streamSettings
                               ELSE Only(json.streamSettings, {"sockopt"})
  BY <1>1, <1>2
<1>4. SettingsRow(inb.protocol, json.settings)
  BY <1>1, SettingsWritten DEF FormKeys
<1>5. StreamRow(json.streamSettings)
  BY <1>1, StreamWritten, SockoptRow DEF FormKeys, Given
<1>6. inb.protocol \in Streamed =>
        /\ sent.streamSettings = json.streamSettings
        /\ {"network", "security"} \subseteq DOMAIN json.streamSettings
        /\ json.streamSettings.network = inb.stream.network
  BY <1>1, <1>3, StreamWritten DEF FormKeys, Given, canEnableStream, Streamed
<1>7. StreamRow(sent.streamSettings)
  BY <1>3, <1>5, SockoptRow
<1>8. RowKeys(json) /\ RowKeys(sent)
  BY <1>1, <1>3, <1>4, <1>5, <1>6, <1>7 DEF RowKeys
<1>9. ASSUME FormFits(inb) PROVE RowFits(json) /\ RowFits(sent)
  <2>1. Fits(inb.protocol, json.settings, inb.stream.network)
    BY <1>1, <1>9, SettingsWritten DEF FormFits
  <2>2. CASE inb.protocol \in Streamed
    BY <1>1, <1>3, <1>6, <2>1, <2>2 DEF RowFits, Or
  <2>3. CASE inb.protocol \notin Streamed
    BY <1>1, <1>3, <2>3 DEF RowFits, Fits, Streamed
  <2>4. QED
    BY <2>2, <2>3
<1>10. QED
  BY <1>8, <1>9 DEF json, sent

(*---------------------------- steps on the form -------------------------*)
LEMMA ProtocolChosen ==
  ASSUME NEW inb, FormKeys(inb), NEW protocol, NEW r
  PROVE  FormKeys(SetProtocol(inb, protocol, r)) /\ FormFits(SetProtocol(inb, protocol, r))
<1> DEFINE new == SetProtocol(inb, protocol, r)
<1>1. /\ {"protocol", "settings", "stream"} \subseteq DOMAIN new
      /\ new.protocol = protocol /\ new.settings = getSettings(protocol, r) /\ new.stream = inb.stream
  BY DEF SetProtocol, FormKeys
<1> HIDE DEF new
<1>2. QED
  BY <1>1, SettingsNew DEF FormKeys, FormFits, new

\* A change of the stream that leaves the keys, and the network, alone.
StreamKept(inb, new) ==
    /\ {"protocol", "settings", "stream"} \subseteq DOMAIN new
    /\ new.protocol = inb.protocol /\ new.settings = inb.settings
    /\ DOMAIN new.stream = DOMAIN inb.stream
    /\ new.stream.realitySettings = inb.stream.realitySettings
    /\ new.stream.tlsSettings = inb.stream.tlsSettings

LEMMA SecurityChosen ==
  ASSUME NEW inb, FormKeys(inb), canEnableTls(inb), NEW security
  PROVE  /\ FormKeys([inb EXCEPT !.stream.security = security])
         /\ FormFits(inb) => FormFits([inb EXCEPT !.stream.security = security])
<1> DEFINE new == [inb EXCEPT !.stream.security = security]
<1>1. StreamKept(inb, new) /\ new.stream.network = inb.stream.network
  BY DEF StreamKept, FormKeys, StreamForm
<1> HIDE DEF new
<1>2. inb.stream.network # "kcp"
  BY DEF canEnableTls
<1>3. QED
  BY <1>1, <1>2 DEF StreamKept, FormKeys, FormFits, StreamForm, Secure, new

LEMMA StreamSwitched ==
  ASSUME NEW inb, FormKeys(inb), NEW x
  PROVE  /\ FormKeys([inb EXCEPT !.stream.sockopt = x]) /\ FormKeys([inb EXCEPT !.stream.externalProxy = x])
         /\ FormFits(inb) => FormFits([inb EXCEPT !.stream.sockopt = x])
                             /\ FormFits([inb EXCEPT !.stream.externalProxy = x])
<1> DEFINE a == [inb EXCEPT !.stream.sockopt = x]  b == [inb EXCEPT !.stream.externalProxy = x]
<1>1. /\ StreamKept(inb, a) /\ a.stream.network = inb.stream.network /\ a.stream.security = inb.stream.security
      /\ StreamKept(inb, b) /\ b.stream.network = inb.stream.network /\ b.stream.security = inb.stream.security
  BY DEF StreamKept, FormKeys, StreamForm
<1> HIDE DEF a, b
<1>2. QED
  BY <1>1 DEF StreamKept, FormKeys, FormFits, StreamForm, a, b

\* What each client becomes, in a list.
LEMMA EachClient ==
  ASSUME NEW seq, IsList(seq), NEW S, NEW new \in [DOMAIN seq -> S]
  PROVE  IsList(new) /\ DOMAIN new = DOMAIN seq
BY Mapped

LEMMA NetworkChosen ==
  ASSUME NEW inb, FormKeys(inb), NEW network
  PROVE  LET new == streamNetworkChange([inb EXCEPT !.stream.network = network])
         IN  FormKeys(new) /\ (FormFits(inb) => FormFits(new))
<1> DEFINE there == [inb EXCEPT !.stream.network = network]
           safe  == IF canEnableTls(there) THEN there ELSE [there EXCEPT !.stream.security = "none"]
           users == [i \in DOMAIN safe.settings.clients |-> [safe.settings.clients[i] EXCEPT !.flow = ""]]
           new   == streamNetworkChange(there)
<1>1. StreamKept(inb, there) /\ there.stream.network = network
  BY DEF StreamKept, FormKeys, StreamForm
<1>2. new = IF safe.protocol = "vless" /\ ~canEnableTlsFlow(safe)
            THEN [safe EXCEPT !.settings.clients = users] ELSE safe
  BY DEF streamNetworkChange, Map
<1> HIDE DEF there
<1>3. /\ StreamKept(inb, safe) /\ safe.stream.network = network
      /\ ~canEnableTls(there) => safe.stream.security = "none"
      /\ canEnableTls(there) => network # "kcp"
  <2>1. CASE canEnableTls(there)
    BY <1>1, <2>1 DEF canEnableTls
  <2>2. CASE ~canEnableTls(there)
    BY <1>1, <2>2 DEF StreamKept, FormKeys, StreamForm
  <2>3. QED
    BY <2>1, <2>2
<1> HIDE DEF safe, new
<1>4. FormKeys(safe)
  BY <1>3 DEF FormKeys, StreamForm, StreamKept, Secure
<1>5. CASE safe.protocol = "vless" /\ ~canEnableTlsFlow(safe)
  <2>1. VlessForm(safe.settings)
    BY <1>4, <1>5 DEF FormKeys, SettingsForm
  <2>2. /\ {"protocol", "settings", "stream"} \subseteq DOMAIN new
        /\ new.protocol = "vless" /\ new.stream = safe.stream
        /\ new.settings = [safe.settings EXCEPT !.clients = users]
    BY <1>2, <1>4, <1>5 DEF FormKeys
  <2>3. /\ DOMAIN new.settings = DOMAIN safe.settings /\ new.settings.clients = users
        /\ new.settings.decryption = safe.settings.decryption
        /\ new.settings.encryption = safe.settings.encryption
    BY <2>1, <2>2 DEF VlessForm
  <2>4. VlessForm(new.settings)
    BY <2>1, <2>3 DEF VlessForm
  <2>5. FormKeys(new)
    BY <1>4, <1>5, <2>2, <2>4 DEF FormKeys, SettingsForm
  <2>6. ASSUME FormFits(inb) PROVE FormFits(new)
    <3>1. VlessFits(safe.settings, inb.stream.network)
      BY <1>3, <1>5, <2>6 DEF FormFits, Fits, StreamKept
    <3>2. IsList(users) /\ DOMAIN users = DOMAIN safe.settings.clients
      <4>1. users \in [DOMAIN safe.settings.clients -> {users[i] : i \in DOMAIN safe.settings.clients}]
        OBVIOUS
      <4> HIDE DEF users
      <4>2. QED
        BY <3>1, <4>1, EachClient DEF VlessFits
    <3>3. ASSUME NEW i \in DOMAIN users PROVE Flowing(users[i], network)
      <4>1. "flow" \in DOMAIN safe.settings.clients[i]
        BY <3>1, <3>2 DEF VlessFits, Flowing
      <4>2. users[i] = [safe.settings.clients[i] EXCEPT !.flow = ""]
        BY <3>2
      <4> HIDE DEF users
      <4>3. QED
        BY <4>1, <4>2 DEF Flowing
    <3> HIDE DEF users
    <3>4. VlessFits(new.settings, network)
      BY <2>1, <2>3, <3>2, <3>3 DEF VlessFits, VlessForm
    <3>5. QED
      BY <1>3, <2>2, <3>4 DEF FormFits, Fits
  <2>7. QED
    BY <2>5, <2>6 DEF new, there
<1>6. CASE ~(safe.protocol = "vless" /\ ~canEnableTlsFlow(safe))
  <2>1. new = safe
    BY <1>2, <1>6
  <2>2. safe.protocol = "vless" => network = "tcp"
    BY <1>3, <1>6 DEF canEnableTlsFlow
  <2>3. ASSUME FormFits(inb) PROVE FormFits(safe)
    <3>1. Fits(safe.protocol, safe.settings, inb.stream.network)
      BY <1>3, <2>3 DEF FormFits, StreamKept
    <3>2. QED
      BY <1>3, <2>2, <3>1 DEF FormFits, Fits, VlessFits, Flowing
  <2>4. QED
    BY <1>4, <2>1, <2>3 DEF new, there
<1>7. QED
  BY <1>5, <1>6

LEMMA FlowChosen ==
  ASSUME NEW inb, FormKeys(inb), canEnableTlsFlow(inb), NEW flow
  PROVE  /\ FormKeys([inb EXCEPT !.settings.clients[1].flow = flow])
         /\ FormFits(inb) => FormFits([inb EXCEPT !.settings.clients[1].flow = flow])
<1> DEFINE new   == [inb EXCEPT !.settings.clients[1].flow = flow]
           users == [inb.settings.clients EXCEPT ![1] = [@ EXCEPT !.flow = flow]]
<1>1. inb.protocol = "vless" /\ inb.stream.network = "tcp"
  BY DEF canEnableTlsFlow
<1>2. VlessForm(inb.settings)
  BY <1>1 DEF FormKeys, SettingsForm
<1>3. /\ {"protocol", "settings", "stream"} \subseteq DOMAIN new
      /\ new.protocol = "vless" /\ new.stream = inb.stream
      /\ new.settings = [inb.settings EXCEPT !.clients = users]
  BY <1>1 DEF FormKeys
<1> HIDE DEF new
<1>4. /\ DOMAIN new.settings = DOMAIN inb.settings /\ new.settings.clients = users
      /\ new.settings.decryption = inb.settings.decryption
      /\ new.settings.encryption = inb.settings.encryption
  BY <1>2, <1>3 DEF VlessForm
<1>5. FormKeys(new)
  BY <1>1, <1>2, <1>3, <1>4 DEF FormKeys, SettingsForm, VlessForm
<1>6. ASSUME FormFits(inb) PROVE FormFits(new)
  <2>1. VlessFits(inb.settings, "tcp")
    BY <1>1, <1>6 DEF FormFits, Fits
  <2>2. DOMAIN users = DOMAIN inb.settings.clients
    OBVIOUS
  <2>3. IsList(users)
    <3>1. users \in [DOMAIN inb.settings.clients -> {users[i] : i \in DOMAIN inb.settings.clients}]
      OBVIOUS
    <3> HIDE DEF users
    <3>2. QED
      BY <2>1, <3>1, EachClient DEF VlessFits
  <2>4. ASSUME NEW i \in DOMAIN users PROVE Flowing(users[i], "tcp")
    <3>1. "flow" \in DOMAIN inb.settings.clients[i]
      BY <2>1, <2>2 DEF VlessFits, Flowing
    <3>2. users[i] = IF i = 1 THEN [inb.settings.clients[1] EXCEPT !.flow = flow] ELSE inb.settings.clients[i]
      OBVIOUS
    <3> HIDE DEF users
    <3>3. QED
      BY <3>1, <3>2 DEF Flowing
  <2> HIDE DEF users
  <2>5. VlessFits(new.settings, "tcp")
    BY <1>2, <1>4, <2>2, <2>3, <2>4 DEF VlessFits, VlessForm
  <2>6. QED
    BY <1>1, <1>3, <2>5 DEF FormFits, Fits
<1>7. QED
  BY <1>5, <1>6 DEF new

LEMMA MethodChosen ==
  ASSUME NEW inb, FormKeys(inb), inb.protocol = "shadowsocks", NEW method
  PROVE  LET new == SSMethodChange([inb EXCEPT !.settings.method = method])
         IN  FormKeys(new) /\ (FormFits(inb) => FormFits(new))
<1> DEFINE with     == [inb EXCEPT !.settings.method = method]
           password == randomShadowsocksPassword(with.settings.method, "changed")
           base     == IF with.settings.clients = <<>> THEN <<Shadowsocks(NoJson, "changed")>> ELSE with.settings.clients
           word     == IF isSS2022(with) THEN "" ELSE with.settings.method
           mapped   == [i \in DOMAIN base |-> [base[i] EXCEPT !.method = word, !.password = password]]
           users    == IF ~isSSMultiUser(with) THEN <<>> ELSE mapped
           new      == SSMethodChange(with)
<1>1. new = [with EXCEPT !.settings.password = password, !.settings.clients = users]
  BY DEF SSMethodChange, Map
<1>2. /\ {"protocol", "settings", "stream"} \subseteq DOMAIN with
      /\ with.protocol = "shadowsocks" /\ with.stream = inb.stream
      /\ with.settings = [inb.settings EXCEPT !.method = method]
  BY DEF FormKeys
<1> HIDE DEF with
<1>3. /\ {"protocol", "settings", "stream"} \subseteq DOMAIN new
      /\ new.protocol = "shadowsocks" /\ new.stream = inb.stream
      /\ new.settings = [with.settings EXCEPT !.password = password, !.clients = users]
  BY <1>1, <1>2
<1> HIDE DEF new
<1>4. FormKeys(new)
  BY <1>3 DEF FormKeys, SettingsForm
<1>5. ASSUME FormFits(inb) PROVE FormFits(new)
  <2>1. ShadowFits(inb.settings)
    BY <1>5 DEF FormFits, Fits
  <2>2. /\ {"method", "password", "clients"} \subseteq DOMAIN with.settings
        /\ with.settings.method = method /\ with.settings.clients = inb.settings.clients
    BY <1>2, <2>1 DEF ShadowFits
  <2>3. /\ {"method", "password", "clients"} \subseteq DOMAIN new.settings
        /\ new.settings.method = method /\ new.settings.password = password /\ new.settings.clients = users
    BY <1>3, <2>2
  <2>4. password.draw = "changed" /\ password.bytes = PasswordSize(method)
    BY <2>2 DEF randomShadowsocksPassword, PasswordSize
  <2>5. method \in SS2022 => word = ""
    BY <1>2, <2>2 DEF isSS2022, SS2022
  <2>6. IsList(base) /\ \A i \in DOMAIN base : {"method", "password"} \subseteq DOMAIN base[i]
    <3>1. CASE with.settings.clients = <<>>
      <4> DEFINE one == Shadowsocks(NoJson, "changed")
      <4>1. {"method", "password"} \subseteq DOMAIN one
        BY ShadowRead
      <4> HIDE DEF one
      <4>2. base = <<one>>
        BY <3>1 DEF one
      <4>3. QED
        BY <4>1, <4>2, Single
    <3>2. CASE with.settings.clients # <<>>
      BY <2>1, <2>2, <3>2 DEF ShadowFits, Keyed
    <3>3. QED
      BY <3>1, <3>2
  <2> HIDE DEF base, word, password
  <2>7. IsList(mapped) /\ DOMAIN mapped = DOMAIN base
    <3>1. mapped \in [DOMAIN base -> {mapped[i] : i \in DOMAIN base}]
      OBVIOUS
    <3> HIDE DEF mapped
    <3>2. QED
      BY <2>6, <3>1, EachClient
  <2>8. ASSUME NEW i \in DOMAIN mapped PROVE Keyed(mapped[i], method)
    <3>1. mapped[i] = [base[i] EXCEPT !.method = word, !.password = password] /\ i \in DOMAIN base
      OBVIOUS
    <3> HIDE DEF mapped
    <3>2. {"method", "password"} \subseteq DOMAIN base[i]
      BY <2>6, <3>1
    <3>3. /\ {"method", "password"} \subseteq DOMAIN mapped[i]
          /\ mapped[i].method = word /\ mapped[i].password = password
      BY <3>1, <3>2
    <3>4. QED
      BY <2>4, <2>5, <3>3 DEF Keyed
  <2> HIDE DEF mapped
  <2>9. IsList(users) /\ \A i \in DOMAIN users : Keyed(users[i], method)
    <3>1. CASE isSSMultiUser(with)
      BY <2>7, <2>8, <3>1
    <3>2. CASE ~isSSMultiUser(with)
      <4>1. users = <<>> /\ users \in Seq({}) /\ DOMAIN users = {}
        BY <3>2
      <4>2. QED
        BY <4>1, ListOf
    <3>3. QED
      BY <3>1, <3>2
  <2> HIDE DEF users
  <2>10. ShadowFits(new.settings)
    BY <2>3, <2>4, <2>9 DEF ShadowFits
  <2>11. QED
    BY <1>3, <2>10 DEF FormFits, Fits
<1>6. QED
  BY <1>4, <1>5 DEF new, with

LEMMA AuthSwitched ==
  ASSUME NEW inb, FormKeys(inb), inb.protocol = "socks", NEW x
  PROVE  FormKeys([inb EXCEPT !.settings.auth = x]) /\ FormFits([inb EXCEPT !.settings.auth = x])
<1> DEFINE new == [inb EXCEPT !.settings.auth = x]
<1>1. /\ {"protocol", "settings", "stream"} \subseteq DOMAIN new
      /\ new.protocol = "socks" /\ new.stream = inb.stream
  BY DEF FormKeys
<1> HIDE DEF new
<1>2. QED
  BY <1>1 DEF FormKeys, FormFits, SettingsForm, Fits, new

\* An answer from the panel puts both halves of its pair in place.
LEMMA PairTaken ==
  ASSUME NEW inb, FormKeys(inb), NEW kind \in Kinds, NEW pair
  PROVE  /\ FormKeys(WithPair(inb, kind, pair))
         /\ FormFits(inb) => FormFits(WithPair(inb, kind, pair))
<1> DEFINE new == WithPair(inb, kind, pair)
<1>1. CASE kind = "x25519"
  <2> DEFINE keys == [inb.stream.realitySettings EXCEPT !.privateKey = pair, !.settings.publicKey = pair]
  <2>1. /\ {"protocol", "settings", "stream"} \subseteq DOMAIN new
        /\ new.protocol = inb.protocol /\ new.settings = inb.settings
        /\ new.stream = [inb.stream EXCEPT !.realitySettings = keys]
    BY <1>1 DEF WithPair, FormKeys, StreamForm
  <2>2. RealityKeys(keys)
    BY DEF FormKeys, StreamForm, RealityKeys, RealityPair
  <2> HIDE DEF keys, new
  <2>3. /\ DOMAIN new.stream = DOMAIN inb.stream /\ new.stream.realitySettings = keys
        /\ new.stream.tlsSettings = inb.stream.tlsSettings
        /\ new.stream.network = inb.stream.network /\ new.stream.security = inb.stream.security
    BY <2>1 DEF FormKeys, StreamForm
  <2>4. QED
    BY <2>1, <2>2, <2>3 DEF FormKeys, FormFits, StreamForm, new
<1>2. CASE kind = "mldsa65"
  <2> DEFINE keys == [inb.stream.realitySettings EXCEPT !.mldsa65Seed = pair, !.settings.mldsa65Verify = pair]
  <2>1. /\ {"protocol", "settings", "stream"} \subseteq DOMAIN new
        /\ new.protocol = inb.protocol /\ new.settings = inb.settings
        /\ new.stream = [inb.stream EXCEPT !.realitySettings = keys]
    BY <1>2 DEF WithPair, FormKeys, StreamForm
  <2>2. RealityKeys(keys)
    BY DEF FormKeys, StreamForm, RealityKeys, RealityPair
  <2> HIDE DEF keys, new
  <2>3. /\ DOMAIN new.stream = DOMAIN inb.stream /\ new.stream.realitySettings = keys
        /\ new.stream.tlsSettings = inb.stream.tlsSettings
        /\ new.stream.network = inb.stream.network /\ new.stream.security = inb.stream.security
    BY <2>1 DEF FormKeys, StreamForm
  <2>4. QED
    BY <2>1, <2>2, <2>3 DEF FormKeys, FormFits, StreamForm, new
<1>3. CASE kind = "ech"
  <2> DEFINE keys == [inb.stream.tlsSettings EXCEPT !.echServerKeys = pair, !.settings.echConfigList = <<pair>>]
  <2>1. /\ {"protocol", "settings", "stream"} \subseteq DOMAIN new
        /\ new.protocol = inb.protocol /\ new.settings = inb.settings
        /\ new.stream = [inb.stream EXCEPT !.tlsSettings = keys]
    BY <1>3 DEF WithPair, FormKeys, StreamForm
  <2>2. EchKeys(keys)
    BY DEF FormKeys, StreamForm, EchKeys, EchPair
  <2> HIDE DEF keys, new
  <2>3. /\ DOMAIN new.stream = DOMAIN inb.stream /\ new.stream.tlsSettings = keys
        /\ new.stream.realitySettings = inb.stream.realitySettings
        /\ new.stream.network = inb.stream.network /\ new.stream.security = inb.stream.security
    BY <2>1 DEF FormKeys, StreamForm
  <2>4. QED
    BY <2>1, <2>2, <2>3 DEF FormKeys, FormFits, StreamForm, new
<1>4. CASE kind = "vlessenc"
  <2>1. CASE "selectedAuth" \in DOMAIN inb.settings
    <3> DEFINE keys == [inb.settings EXCEPT !.decryption = pair, !.encryption = pair]
    <3>1. /\ {"protocol", "settings", "stream"} \subseteq DOMAIN new
          /\ new.protocol = inb.protocol /\ new.settings = keys /\ new.stream = inb.stream
      BY <1>4, <2>1 DEF WithPair, FormKeys
    <3>2. /\ DOMAIN keys = DOMAIN inb.settings /\ keys.clients = inb.settings.clients
          /\ keys.peers = inb.settings.peers
          /\ keys.method = inb.settings.method /\ keys.password = inb.settings.password
          /\ "decryption" \in DOMAIN inb.settings => keys.decryption = pair
          /\ "encryption" \in DOMAIN inb.settings => keys.encryption = pair
      <4>1. \A key \in DOMAIN inb.settings \ {"decryption", "encryption"} : keys[key] = inb.settings[key]
        OBVIOUS
      <4>2. QED
        OBVIOUS
    <3> HIDE DEF keys, new
    <3>3. FormKeys(new)
      BY <3>1, <3>2 DEF FormKeys, SettingsForm, VlessForm, PeersKeys
    <3>4. FormFits(inb) => FormFits(new)
      BY <3>1, <3>2 DEF FormFits, Fits, VlessFits, ShadowFits
    <3>5. QED
      BY <3>3, <3>4 DEF new
  <2>2. CASE "selectedAuth" \notin DOMAIN inb.settings
    BY <1>4, <2>2 DEF WithPair
  <2>3. QED
    BY <2>1, <2>2
<1>5. QED
  BY <1>1, <1>2, <1>3, <1>4 DEF Kinds

LEMMA KeysCleared ==
  ASSUME NEW inb, FormKeys(inb), inb.protocol = "vless"
  PROVE  LET new == [inb EXCEPT !.settings.decryption = "none", !.settings.encryption = ""]
         IN  FormKeys(new) /\ (FormFits(inb) => FormFits(new))
<1> DEFINE keys == [inb.settings EXCEPT !.decryption = "none", !.encryption = ""]
           new  == [inb EXCEPT !.settings.decryption = "none", !.settings.encryption = ""]
<1>1. VlessForm(inb.settings)
  BY DEF FormKeys, SettingsForm
<1>2. /\ {"protocol", "settings", "stream"} \subseteq DOMAIN new
      /\ new.protocol = "vless" /\ new.settings = keys /\ new.stream = inb.stream
  BY DEF FormKeys
<1>3. /\ DOMAIN keys = DOMAIN inb.settings /\ keys.clients = inb.settings.clients
      /\ keys.decryption = "none" /\ keys.encryption = ""
  BY <1>1 DEF VlessForm
<1> HIDE DEF keys, new
<1>4. FormKeys(new)
  BY <1>1, <1>2, <1>3 DEF FormKeys, SettingsForm, VlessForm
<1>5. FormFits(inb) => FormFits(new)
  BY <1>2, <1>3 DEF FormFits, Fits, VlessFits
<1>6. QED
  BY <1>4, <1>5 DEF new

(*------------------------ clients appended by the panel -----------------*)
\* A client that the inbound's other clients are like.
FitsClient(protocol, settings, network, client) ==
    /\ protocol = "vless" => Flowing(client, network)
    /\ protocol = "shadowsocks" => Keyed(client, settings.method)

LEMMA ClientAppended ==
  ASSUME NEW row, RowKeys(row), NEW client
  PROVE  LET new == [row EXCEPT !.settings.clients = Append(@, client)]
         IN  /\ RowKeys(new)
             /\ RowFits(row) /\ FitsClient(row.protocol, row.settings, Or(row.streamSettings, "network", "tcp"), client)
                  => RowFits(new)
<1> DEFINE new  == [row EXCEPT !.settings.clients = Append(@, client)]
           more == Append(row.settings.clients, client)
<1>1. /\ {"protocol", "settings", "streamSettings"} \subseteq DOMAIN new
      /\ new.protocol = row.protocol /\ new.streamSettings = row.streamSettings
      /\ new.settings = [row.settings EXCEPT !.clients = more]
  BY DEF RowKeys
<1> HIDE DEF new, more
<1>2. /\ DOMAIN new.settings = DOMAIN row.settings
      /\ \A key \in DOMAIN row.settings \ {"clients"} : new.settings[key] = row.settings[key]
      /\ "clients" \in DOMAIN row.settings => new.settings.clients = more
  BY <1>1
<1>3. SettingsRow(new.protocol, new.settings)
  <2>1. CASE row.protocol = "vless"
    BY <1>1, <1>2, <2>1 DEF RowKeys, SettingsRow, VlessRow, Or
  <2>2. CASE row.protocol = "wireguard"
    <3>1. PeersKeys(row.settings)
      BY <2>2 DEF RowKeys, SettingsRow
    <3>2. "peers" \in DOMAIN new.settings /\ new.settings.peers = row.settings.peers
      BY <1>2, <3>1 DEF PeersKeys
    <3>3. QED
      BY <1>1, <2>2, <3>1, <3>2 DEF SettingsRow, PeersKeys
  <2>3. QED
    BY <1>1, <2>1, <2>2 DEF SettingsRow
<1>4. RowKeys(new)
  BY <1>1, <1>3 DEF RowKeys
<1> DEFINE network == Or(row.streamSettings, "network", "tcp")
<1>5. ASSUME RowFits(row), FitsClient(row.protocol, row.settings, network, client)
      PROVE  RowFits(new)
  <2>1. CASE row.protocol = "vless"
    <3>1. VlessFits(row.settings, network) /\ Flowing(client, network)
      BY <1>5, <2>1 DEF RowFits, Fits, FitsClient
    <3>2. "clients" \in DOMAIN new.settings /\ new.settings.clients = more
      BY <1>2, <3>1 DEF VlessFits
    <3>3. /\ IsList(more) /\ Len(more) = Len(row.settings.clients) + 1
          /\ \A i \in DOMAIN row.settings.clients : more[i] = row.settings.clients[i]
          /\ more[Len(row.settings.clients) + 1] = client
          /\ DOMAIN more = 1 .. Len(row.settings.clients) + 1
          /\ DOMAIN row.settings.clients = 1 .. Len(row.settings.clients) /\ Len(row.settings.clients) \in Nat
      BY <3>1, Appended, Listed DEF more, VlessFits
    <3>4. ASSUME NEW i \in DOMAIN more PROVE Flowing(more[i], network)
      <4>1. i \in DOMAIN row.settings.clients \/ i = Len(row.settings.clients) + 1
        BY <3>3
      <4>2. QED
        BY <3>1, <3>3, <4>1 DEF VlessFits
    <3>5. VlessFits(new.settings, network)
      BY <3>2, <3>3, <3>4 DEF VlessFits
    <3>6. QED
      BY <1>1, <2>1, <3>5 DEF RowFits, Fits
  <2>2. CASE row.protocol = "shadowsocks"
    <3>1. ShadowFits(row.settings) /\ Keyed(client, row.settings.method)
      BY <1>5, <2>2 DEF RowFits, Fits, FitsClient
    <3>2. /\ {"method", "password", "clients"} \subseteq DOMAIN new.settings /\ new.settings.clients = more
          /\ new.settings.method = row.settings.method /\ new.settings.password = row.settings.password
      BY <1>2, <3>1 DEF ShadowFits
    <3>3. /\ IsList(more) /\ Len(more) = Len(row.settings.clients) + 1
          /\ \A i \in DOMAIN row.settings.clients : more[i] = row.settings.clients[i]
          /\ more[Len(row.settings.clients) + 1] = client
          /\ DOMAIN more = 1 .. Len(row.settings.clients) + 1
          /\ DOMAIN row.settings.clients = 1 .. Len(row.settings.clients) /\ Len(row.settings.clients) \in Nat
      BY <3>1, Appended, Listed DEF more, ShadowFits
    <3>4. ASSUME NEW i \in DOMAIN more PROVE Keyed(more[i], row.settings.method)
      <4>1. i \in DOMAIN row.settings.clients \/ i = Len(row.settings.clients) + 1
        BY <3>3
      <4>2. QED
        BY <3>1, <3>3, <4>1 DEF ShadowFits
    <3>5. ShadowFits(new.settings)
      BY <3>1, <3>2, <3>3, <3>4 DEF ShadowFits
    <3>6. QED
      BY <1>1, <2>2, <3>5 DEF RowFits, Fits
  <2>3. QED
    BY <1>1, <2>1, <2>2 DEF RowFits, Fits
<1>6. QED
  BY <1>4, <1>5 DEF new

\* The clients that the pages offer to add to an inbound they hold.
Offered(inb) == FormFits(inb) /\ clients(inb) # <<>>

LEMMA ShadowOffered ==
  ASSUME NEW inb, Offered(inb), inb.protocol = "shadowsocks"
  PROVE  /\ ShadowFits(inb.settings) /\ Keyed(inb.settings.clients[1], inb.settings.method)
<1>1. ShadowFits(inb.settings) /\ inb.settings.clients # <<>>
  BY DEF Offered, FormFits, Fits, clients
<1>2. inb.settings.clients \in Seq(Entries(inb.settings.clients))
  BY <1>1 DEF ShadowFits, IsList
<1>3. 1 \in DOMAIN inb.settings.clients
  BY <1>1, <1>2
<1>4. QED
  BY <1>1, <1>3 DEF ShadowFits

LEMMA GivenFlow ==
  ASSUME NEW condition, NEW flow
  PROVE  /\ ~condition => DOMAIN Given(condition, [flow |-> flow]) = {}
         /\ condition => /\ "flow" \in DOMAIN Given(condition, [flow |-> flow])
                         /\ Given(condition, [flow |-> flow]).flow = flow
<1> DEFINE one == [flow |-> flow]  given == Given(condition, one)
<1>1. DOMAIN one = {"flow"} /\ one.flow = flow
  OBVIOUS
<1> HIDE DEF one
<1>2. CASE condition
  <2>1. given = one
    BY <1>2 DEF Given
  <2> HIDE DEF given
  <2>2. QED
    BY <1>1, <1>2, <2>1 DEF given, one
<1>3. CASE ~condition
  <2>1. given = NoJson
    BY <1>3 DEF Given
  <2>2. QED
    BY <1>3, <2>1 DEF NoJson, one
<1>4. QED
  BY <1>2, <1>3

LEMMA NewClientFits ==
  ASSUME NEW inb, Offered(inb), NEW flow, flow # "" => canEnableTlsFlow(inb)
  PROVE  FitsClient(inb.protocol, inb.settings, inb.stream.network,
                    With(newClient(inb), Given(flow # "", [flow |-> flow])))
<1> DEFINE made0 == newClient(inb)  more == Given(flow # "", [flow |-> flow])  new == With(made0, more)
<1>1. CASE inb.protocol = "vless"
  <2>1. made0 = VLESS(NoJson, "added")
    BY <1>1 DEF newClient
  <2>2. "flow" \in DOMAIN made0 /\ made0.flow = ""
    BY <2>1, VlessClientRead, NoKeys
  <2>3. /\ flow = "" => DOMAIN more = {}
        /\ flow # "" => "flow" \in DOMAIN more /\ more.flow = flow
    BY GivenFlow
  <2> HIDE DEF made0, more
  <2>4. "flow" \in DOMAIN new /\ new.flow = flow
    BY <2>2, <2>3 DEF With
  <2>5. flow = "" \/ inb.stream.network = "tcp"
    BY DEF canEnableTlsFlow
  <2> HIDE DEF new
  <2>6. Flowing(new, inb.stream.network)
    BY <2>4, <2>5 DEF Flowing
  <2>7. QED
    BY <1>1, <2>6 DEF FitsClient, new, made0, more
<1>2. CASE inb.protocol = "shadowsocks"
  <2> DEFINE method == inb.settings.method
             draw   == randomShadowsocksPassword(method, "added")
             json   == [method |-> inb.settings.clients[1].method, password |-> draw]
  <2>1. made0 = Shadowsocks(json, "added")
    BY <1>2 DEF newClient
  <2>2. DOMAIN json = {"method", "password"} /\ json.method = inb.settings.clients[1].method /\ json.password = draw
    OBVIOUS
  <2>3. draw.bytes = PasswordSize(method)
    BY DEF randomShadowsocksPassword, PasswordSize
  <2> HIDE DEF json, draw
  <2>4. /\ {"method", "password"} \subseteq DOMAIN made0
        /\ made0.method = inb.settings.clients[1].method /\ made0.password = draw
    <3>1. Or(json, "method", "") = inb.settings.clients[1].method
      BY <2>2 DEF Or
    <3>2. \A default : Or(json, "password", default) = draw
      BY <2>2 DEF Or
    <3> HIDE DEF made0
    <3>3. QED
      BY <2>1, <3>1, <3>2, ShadowRead
  <2>5. DOMAIN more = {}
    BY <1>2, GivenFlow DEF canEnableTlsFlow
  <2> HIDE DEF made0, more
  <2>6. /\ {"method", "password"} \subseteq DOMAIN new
        /\ new.method = made0.method /\ new.password = made0.password
    BY <2>4, <2>5 DEF With
  <2> HIDE DEF new
  <2>7. Keyed(new, method)
    BY <1>2, <2>3, <2>4, <2>6, ShadowOffered DEF Keyed
  <2>8. QED
    BY <1>2, <2>7 DEF FitsClient, new, made0, more
<1>3. QED
  BY <1>1, <1>2 DEF FitsClient

LEMMA BulkClientFits ==
  ASSUME NEW inb, Offered(inb), NEW flow
  PROVE  FitsClient(inb.protocol, inb.settings, inb.stream.network, bulkClient(inb, flow))
<1> DEFINE plain  == IF inb.protocol = "shadowsocks"
                     THEN Shadowsocks([method |-> inb.settings.clients[1].method], "bulk")
                     ELSE With(newClient(inb), [subId |-> "bulk"])
           secure == Given(inb.protocol \in {"vmess", "vless"}, [security |-> "auto"])
           flows  == Given(canEnableTlsFlow(inb), [flow |-> flow])
           new    == With(With(plain, secure), flows)
<1>1. bulkClient(inb, flow) = new
  BY DEF bulkClient
<1>2. DOMAIN secure \subseteq {"security"}
  BY DEF Given, NoJson
<1>3. CASE inb.protocol = "vless"
  <2> DEFINE made0 == VLESS(NoJson, "added")  sub == [subId |-> "bulk"]
  <2>1. plain = With(made0, sub)
    BY <1>3 DEF newClient
  <2>2. "flow" \in DOMAIN made0 /\ made0.flow = ""
    BY VlessClientRead, NoKeys
  <2>3. DOMAIN sub = {"subId"}
    OBVIOUS
  <2> HIDE DEF made0, sub, plain
  <2>4. "flow" \in DOMAIN plain /\ plain.flow = ""
    BY <2>1, <2>2, <2>3 DEF With
  <2>5. /\ canEnableTlsFlow(inb) => "flow" \in DOMAIN flows /\ inb.stream.network = "tcp"
        /\ ~canEnableTlsFlow(inb) => DOMAIN flows = {}
    BY GivenFlow DEF canEnableTlsFlow
  <2> HIDE DEF secure, flows
  <2>6. "flow" \in DOMAIN new /\ (inb.stream.network # "tcp" => new.flow = "")
    BY <1>2, <2>4, <2>5 DEF With
  <2> HIDE DEF new
  <2>7. QED
    BY <1>1, <1>3, <2>6 DEF FitsClient, Flowing
<1>4. CASE inb.protocol = "shadowsocks"
  <2> DEFINE json == [method |-> inb.settings.clients[1].method]
             draw == randomShadowsocksPassword(defaultMethod, "bulk")
  <2>1. plain = Shadowsocks(json, "bulk")
    BY <1>4
  <2>2. DOMAIN json = {"method"} /\ json.method = inb.settings.clients[1].method
    OBVIOUS
  <2>3. draw.draw = "bulk"
    BY DEF randomShadowsocksPassword
  <2> HIDE DEF json, draw, plain
  <2>4. /\ {"method", "password"} \subseteq DOMAIN plain
        /\ plain.method = inb.settings.clients[1].method /\ plain.password = draw
    <3>1. Or(json, "method", "") = inb.settings.clients[1].method
      BY <2>2 DEF Or
    <3>2. \A default : Or(json, "password", default) = default
      BY <2>2 DEF Or
    <3>3. QED
      BY <2>1, <3>1, <3>2, ShadowRead DEF draw
  <2>5. DOMAIN flows = {}
    BY <1>4, GivenFlow DEF canEnableTlsFlow
  <2> HIDE DEF secure, flows
  <2>6. /\ {"method", "password"} \subseteq DOMAIN new
        /\ new.method = plain.method /\ new.password = plain.password
    BY <1>2, <2>4, <2>5 DEF With
  <2> HIDE DEF new
  <2>7. Keyed(new, inb.settings.method)
    BY <1>4, <2>3, <2>4, <2>6, ShadowOffered DEF Keyed
  <2>8. QED
    BY <1>1, <1>4, <2>7 DEF FitsClient
<1>5. QED
  BY <1>3, <1>4 DEF FitsClient

LEMMA Cloned ==
  ASSUME NEW inb, FormKeys(inb)
  PROVE  LET new == [InboundJson(inb) EXCEPT
                       !.listen = "", !.port = "cloned",
                       !.settings = SettingsJson(inb.protocol, getSettings(inb.protocol, "cloned")),
                       !.streamSettings = StreamSettingsJson(inb.stream)]
         IN  RowKeys(new) /\ RowFits(new)
<1> DEFINE new == [InboundJson(inb) EXCEPT
                     !.listen = "", !.port = "cloned",
                     !.settings = SettingsJson(inb.protocol, getSettings(inb.protocol, "cloned")),
                     !.streamSettings = StreamSettingsJson(inb.stream)]
<1>1. /\ {"protocol", "settings", "streamSettings"} \subseteq DOMAIN new
      /\ new.protocol = inb.protocol
      /\ new.settings = SettingsJson(inb.protocol, getSettings(inb.protocol, "cloned"))
      /\ new.streamSettings = StreamSettingsJson(inb.stream)
  BY DEF InboundJson
<1> HIDE DEF new
<1>2. RowKeys(new)
  BY <1>1, StreamWritten, SettingsNew, SettingsWritten DEF RowKeys, FormKeys
<1>3. RowFits(new)
  BY <1>1, SettingsNew, SettingsWritten DEF RowFits
<1>4. QED
  BY <1>2, <1>3 DEF new

LEMMA MethodRead ==
  ASSUME NEW json, "method" \in DOMAIN json, NEW r
  PROVE  ShadowsocksSettings(json, r).method = json.method
<1> DEFINE outer == [method |-> defaultMethod, password |-> randomShadowsocksPassword(defaultMethod, r),
                     network |-> "tcp,udp", clients |-> <<>>, ivCheck |-> FALSE]
           base  == New(outer, json)
<1>1. "method" \in DOMAIN outer
  OBVIOUS
<1> HIDE DEF outer
<1>2. "method" \in DOMAIN base /\ base.method = json.method
  BY <1>1 DEF New, Or
<1>3. ShadowsocksSettings(json, r) = [base EXCEPT !.clients = Map(@, LAMBDA c : Shadowsocks(c, r))]
  BY DEF ShadowsocksSettings, outer
<1> HIDE DEF base
<1>4. QED
  BY <1>2, <1>3

(*---------------------------- the pages' invariant ----------------------*)
\* What is stored, listed, posted: sound keys, and clients that fit unless one was
\* added from an older copy.
HeldRow(row, stale)  == RowKeys(row) /\ (stale \/ RowFits(row))
HeldForm(inb, stale) == FormKeys(inb) /\ (stale \/ FormFits(inb))

PagesShape ==
    /\ PagesTypeOK
    /\ DOMAIN inModal = {"inbound", "id", "visible", "loading"}
    /\ made \in Nat /\ steps \in Nat
    /\ posted # NoJson => {"id", "row"} \subseteq DOMAIN posted /\ posted.id \in {0} \cup Stored
RowsInv   == \A id \in Stored : HeldRow(rows[id], id \in behind)
ListInv   == \A id \in Ids : list[id] # NoJson => HeldRow(list[id], id \in behind)
ModalInv  == HeldForm(form, inModal.id \in behind)
PostedInv == posted # NoJson => HeldRow(posted.row, posted.id \in behind)
PagesInv  == PagesShape /\ RowsInv /\ ListInv /\ ModalInv /\ PostedInv

LEMMA RowSound ==
  ASSUME NEW row, RowKeys(row)
  PROVE  KeysPair(row) /\ SecurityFitsIn(row) /\ (RowFits(row) => FlowsFit(row) /\ FitsMethod(row))
<1>1. KeysPair(row)
  BY DEF RowKeys, KeysPair, StreamRow, RealityKeys, EchKeys, SettingsRow, VlessRow, PeersKeys, PeerKeys
<1>2. canEnableStream(row) =>
        /\ {"network", "security"} \subseteq DOMAIN row.streamSettings
        /\ Or(row.streamSettings, "network", "tcp") = row.streamSettings.network
        /\ Or(row.streamSettings, "security", "none") = row.streamSettings.security
  BY DEF canEnableStream, RowKeys, Streamed, Or
<1>3. SecurityFitsIn(row)
  BY <1>2 DEF SecurityFitsIn, RowKeys, StreamRow, Secure
<1>4. ASSUME RowFits(row) PROVE FlowsFit(row)
  <2>1. SUFFICES ASSUME row.protocol = "vless", row.streamSettings.network # "tcp",
                        NEW i \in DOMAIN row.settings.clients
                 PROVE  row.settings.clients[i].flow = ""
    BY DEF FlowsFit
  <2>2. Or(row.streamSettings, "network", "tcp") # "tcp"
    BY <1>2, <2>1 DEF canEnableStream
  <2>3. VlessFits(row.settings, Or(row.streamSettings, "network", "tcp"))
    BY <1>4, <2>1 DEF RowFits, Fits
  <2>4. QED
    BY <2>2, <2>3 DEF VlessFits, Flowing
<1>5. ASSUME RowFits(row) PROVE FitsMethod(row)
  <2>1. SUFFICES ASSUME isSS2022(row) PROVE FitsMethod(row)
    BY DEF FitsMethod
  <2>2. row.settings.method \in SS2022 /\ ShadowFits(row.settings)
    BY <1>5, <2>1 DEF isSS2022, SS2022, RowFits, Fits
  <2>3. QED
    BY <2>2 DEF FitsMethod, ShadowFits, Keyed
<1>6. QED
  BY <1>1, <1>3, <1>4, <1>5

LEMMA PresetHeld ==
  ASSUME NEW row, row \in Presets \cup Unopened, row # NoJson
  PROVE  RowKeys(row) /\ RowFits(row)
<1>1. Fields(row) /\ KeysPair(row) /\ SecurityFitsIn(row) /\ FlowsFit(row) /\ FitsMethod(row)
  BY PresetsAssumption
<1> DEFINE json == row.streamSettings  settings == row.settings
<1>2. row.protocol \in Streamed => {"network", "security"} \subseteq DOMAIN json
  BY <1>1 DEF Fields, canEnableStream, Streamed
<1>3. StreamRow(json)
  <2>1. "realitySettings" \in DOMAIN json => RealityKeys(json.realitySettings)
    BY <1>1 DEF Fields, KeysPair, RealityKeys
  <2>2. "tlsSettings" \in DOMAIN json => EchKeys(json.tlsSettings)
    BY <1>1 DEF Fields, KeysPair, EchKeys
  <2>3. Secure(Or(json, "network", "tcp"), Or(json, "security", "none"))
    <3>1. CASE canEnableStream(row)
      BY <1>1, <3>1 DEF Fields, SecurityFitsIn, Secure, Or
    <3>2. CASE ~canEnableStream(row)
      BY <1>1, <3>2 DEF Fields, Secure
    <3>3. QED
      BY <3>1, <3>2
  <2>4. QED
    BY <2>1, <2>2, <2>3 DEF StreamRow
<1>4. SettingsRow(row.protocol, settings)
  BY <1>1 DEF Fields, KeysPair, SettingsRow, VlessRow, PeersKeys, PeerKeys
<1>5. RowKeys(row)
  BY <1>1, <1>2, <1>3, <1>4 DEF RowKeys, Fields
<1>6. row.protocol \in {"vless", "shadowsocks"} => "clients" \in DOMAIN settings /\ IsList(settings.clients)
  BY <1>1 DEF Fields, IsList, Entries
<1>7. ASSUME row.protocol = "vless" PROVE VlessFits(settings, Or(json, "network", "tcp"))
  <2>1. Or(json, "network", "tcp") = json.network
    BY <1>2, <1>7 DEF Streamed, Or
  <2>2. QED
    BY <1>1, <1>6, <1>7, <2>1 DEF Fields, FlowsFit, VlessFits, Flowing
<1>8. ASSUME row.protocol = "shadowsocks" PROVE ShadowFits(settings)
  <2>1. isSS2022(row) <=> settings.method \in SS2022
    BY <1>8 DEF isSS2022, SS2022
  <2>2. settings.method \in SS2022 =>
          /\ settings.password.bytes = PasswordSize(settings.method)
          /\ \A i \in DOMAIN settings.clients :
               /\ settings.clients[i].method = ""
               /\ settings.clients[i].password.draw # "bulk" =>
                    settings.clients[i].password.bytes = PasswordSize(settings.method)
    BY <1>1, <2>1 DEF FitsMethod
  <2>3. {"method", "password"} \subseteq DOMAIN settings
    BY <1>1, <1>8 DEF Fields
  <2>4. \A i \in DOMAIN settings.clients : {"method", "password"} \subseteq DOMAIN settings.clients[i]
    BY <1>1, <1>8 DEF Fields
  <2> HIDE DEF settings
  <2>5. QED
    BY <1>6, <1>8, <2>2, <2>3, <2>4 DEF ShadowFits, Keyed
<1>9. RowFits(row)
  BY <1>7, <1>8 DEF RowFits, Fits
<1>10. QED
  BY <1>5, <1>9

LEMMA RowThere == ASSUME NEW row, RowKeys(row) PROVE row # NoJson
BY DEF RowKeys, NoJson

\* A step that only the form takes part in.
LEMMA ModalStep ==
  ASSUME PagesInv, UNCHANGED <<rows, list, posted, behind>>, PagesShape',
         HeldForm(form', inModal'.id \in behind)
  PROVE  PagesInv'
BY DEF PagesInv, RowsInv, ListInv, PostedInv, ModalInv, Stored, form

LEMMA ShowStep ==
  ASSUME PagesInv, NEW inb, NEW id \in {0} \cup Stored, Spend, show(inb, id),
         UNCHANGED <<rows, list, asked, made, posted, behind>>, HeldForm(inb, id \in behind)
  PROVE  PagesInv'
<1>1. /\ DOMAIN inModal' = DOMAIN inModal /\ inModal'.inbound = inb /\ inModal'.id = id
      /\ inModal'.visible = TRUE /\ inModal'.loading = inModal.loading
  BY DEF show, PagesInv, PagesShape
<1>2. steps' \in Nat /\ steps' <= MaxSteps
  BY PagesAssumption DEF Spend, PagesInv, PagesShape
<1>3. PagesShape'
  BY <1>1, <1>2 DEF PagesInv, PagesShape, PagesTypeOK, Stored
<1>4. QED
  BY <1>1, <1>3, ModalStep DEF form

LEMMA EditStep ==
  ASSUME PagesInv, NEW inb, Edit(inb), FormKeys(inb), FormFits(form) => FormFits(inb)
  PROVE  PagesInv'
<1>1. /\ DOMAIN inModal' = DOMAIN inModal /\ inModal'.inbound = inb /\ inModal'.id = inModal.id
      /\ inModal'.visible = inModal.visible /\ inModal'.loading = inModal.loading
  BY DEF Edit, PagesInv, PagesShape
<1>2. steps' \in Nat /\ steps' <= MaxSteps
  BY PagesAssumption DEF Edit, Spend, PagesInv, PagesShape
<1>3. PagesShape'
  BY <1>1, <1>2 DEF Edit, PagesInv, PagesShape, PagesTypeOK, Stored
<1>4. HeldForm(inb, inModal.id \in behind)
  BY DEF PagesInv, ModalInv, HeldForm
<1>5. QED
  BY <1>1, <1>3, <1>4, ModalStep DEF form, Edit

\* The form stays as it is, and what waits for it changes.
LEMMA WaitStep ==
  ASSUME PagesInv, UNCHANGED <<rows, list, posted, behind, steps>>,
         DOMAIN inModal' = DOMAIN inModal, inModal'.id = inModal.id,
         {inModal'.visible, inModal'.loading} \subseteq BOOLEAN,
         asked' \subseteq Kinds, made' \in Nat, made' + Cardinality(asked') <= Len(Pairs),
         FormKeys(form'), FormFits(form) => FormFits(form')
  PROVE  PagesInv'
<1>1. PagesShape'
  BY DEF PagesInv, PagesShape, PagesTypeOK, Stored
<1>2. HeldForm(form', inModal'.id \in behind)
  BY DEF PagesInv, ModalInv, HeldForm
<1>3. QED
  BY <1>1, <1>2, ModalStep

LEMMA KindsFinite ==
  ASSUME NEW S, S \subseteq Kinds
  PROVE  IsFiniteSet(S) /\ Cardinality(S) \in Nat
<1>1. Kinds = {"x25519"} \cup {"mldsa65"} \cup {"ech"} \cup {"vlessenc"}
  BY DEF Kinds
<1>2. IsFiniteSet(Kinds)
  BY <1>1, FS_Singleton, FS_Union
<1>3. QED
  BY <1>2, FS_Subset, FS_CardinalityType

LEMMA AskStep ==
  ASSUME PagesInv, NEW kind \in Kinds, askFor(kind)
  PROVE  PagesInv'
<1>1. asked \subseteq Kinds /\ made \in Nat
  BY DEF PagesInv, PagesShape, PagesTypeOK
<1>2. asked' = asked \cup {kind} /\ kind \notin asked /\ made' = made /\ made + Cardinality(asked) < Len(Pairs)
  BY DEF askFor
<1>3. Cardinality(asked') = Cardinality(asked) + 1
  BY <1>1, <1>2, KindsFinite, FS_AddElement
<1>4. Len(Pairs) \in Nat
  BY PagesAssumption
<1>5. asked' \subseteq Kinds /\ made' \in Nat /\ made' + Cardinality(asked') <= Len(Pairs)
  BY <1>1, <1>2, <1>3, <1>4, KindsFinite
<1>6. /\ DOMAIN inModal' = DOMAIN inModal /\ inModal'.inbound = inModal.inbound /\ inModal'.id = inModal.id
      /\ inModal'.visible = inModal.visible /\ inModal'.loading = TRUE
  BY DEF askFor, PagesInv, PagesShape
<1>7. {inModal'.visible, inModal'.loading} \subseteq BOOLEAN
  BY <1>6 DEF PagesInv, PagesShape, PagesTypeOK
<1>8. form' = form /\ FormKeys(form)
  BY <1>6 DEF form, PagesInv, ModalInv, HeldForm
<1>9. QED
  BY <1>5, <1>6, <1>7, <1>8, WaitStep DEF askFor

LEMMA AnswerStep ==
  ASSUME PagesInv, NEW kind \in Kinds, NEW success \in BOOLEAN, Answer(kind, success)
  PROVE  PagesInv'
<1>1. asked \subseteq Kinds /\ made \in Nat /\ made + Cardinality(asked) <= Len(Pairs)
  BY DEF PagesInv, PagesShape, PagesTypeOK
<1>2. asked' = asked \ {kind} /\ kind \in asked /\ (made' = made \/ made' = made + 1)
  BY DEF Answer
<1>3. Cardinality(asked') = Cardinality(asked) - 1
  BY <1>1, <1>2, KindsFinite, FS_RemoveElement
<1>4. Len(Pairs) \in Nat
  BY PagesAssumption
<1>5. asked' \subseteq Kinds /\ made' \in Nat /\ made' + Cardinality(asked') <= Len(Pairs)
  BY <1>1, <1>2, <1>3, <1>4, KindsFinite
<1>6. /\ DOMAIN inModal' = DOMAIN inModal /\ inModal'.id = inModal.id
      /\ inModal'.visible = inModal.visible /\ inModal'.loading = FALSE
      /\ inModal'.inbound = IF success THEN WithPair(inModal.inbound, kind, Pairs[made + 1]) ELSE inModal.inbound
  BY DEF Answer, PagesInv, PagesShape
<1>7. {inModal'.visible, inModal'.loading} \subseteq BOOLEAN
  BY <1>6 DEF PagesInv, PagesShape, PagesTypeOK
<1>8. FormKeys(form') /\ (FormFits(form) => FormFits(form'))
  <2>1. PICK inb, pair : inb = form /\ pair = Pairs[made + 1]
    OBVIOUS
  <2>2. FormKeys(inb)
    BY <2>1 DEF PagesInv, ModalInv, HeldForm
  <2>3. form' = IF success THEN WithPair(inb, kind, pair) ELSE inb
    BY <1>6, <2>1 DEF form
  <2>4. QED
    BY <2>1, <2>2, <2>3, PairTaken
<1>9. QED
  BY <1>5, <1>6, <1>7, <1>8, WaitStep DEF Answer

\* A step that stores a row and leaves the form and the list alone.
LEMMA RowStep ==
  ASSUME PagesInv, NEW id \in Ids, NEW row, rows' = [rows EXCEPT ![id] = row], RowKeys(row),
         behind \subseteq behind', behind' \subseteq Ids, id \in behind' \/ RowFits(row),
         UNCHANGED <<list, asked, made>>,
         posted' \in {posted, NoJson}, form' = form, inModal'.id = inModal.id, DOMAIN inModal' = DOMAIN inModal,
         {inModal'.visible, inModal'.loading} \subseteq BOOLEAN, steps' \in Nat, steps' <= MaxSteps
  PROVE  PagesInv'
<1>1. DOMAIN rows = Ids /\ DOMAIN list = Ids
  BY DEF PagesInv, PagesShape, PagesTypeOK
<1>2. \A i \in Ids : rows'[i] = IF i = id THEN row ELSE rows[i]
  BY <1>1
<1>3. row # NoJson
  BY RowThere
<1>4. Stored' = Stored \cup {id}
  BY <1>2, <1>3 DEF Stored
<1>5. PagesShape'
  <2>1. PagesTypeOK'
    BY <1>1, <1>2, <1>3, <1>4 DEF PagesInv, PagesShape, PagesTypeOK
  <2>2. posted' # NoJson => {"id", "row"} \subseteq DOMAIN posted' /\ posted'.id \in {0} \cup Stored'
    BY <1>4 DEF PagesInv, PagesShape
  <2>3. QED
    BY <2>1, <2>2 DEF PagesInv, PagesShape
<1>6. RowsInv'
  BY <1>2, <1>4 DEF PagesInv, RowsInv, HeldRow, Stored
<1>7. ListInv'
  BY DEF PagesInv, ListInv, HeldRow
<1>8. ModalInv'
  BY DEF PagesInv, ModalInv, HeldForm
<1>9. PostedInv'
  BY DEF PagesInv, PostedInv, HeldRow
<1>10. QED
  BY <1>5, <1>6, <1>7, <1>8, <1>9 DEF PagesInv

LEMMA SpendStep ==
  ASSUME PagesInv, Spend, UNCHANGED inModal
  PROVE  /\ steps' \in Nat /\ steps' <= MaxSteps /\ form' = form
         /\ {inModal'.visible, inModal'.loading} \subseteq BOOLEAN
BY PagesAssumption DEF PagesInv, PagesShape, PagesTypeOK, Spend, form

LEMMA ClientStep ==
  ASSUME PagesInv, NEW id \in Ids, list[id] # NoJson, Spend, NEW client, addClient(id, client),
         FormFits(toInbound(list[id])) =>
           LET inb == toInbound(list[id])
           IN  FitsClient(inb.protocol, inb.settings, inb.stream.network, client)
  PROVE  PagesInv'
<1>1. PICK row : row = rows[id] /\ row # NoJson
  BY DEF addClient
<1> DEFINE new == [row EXCEPT !.settings.clients = Append(@, client)]
<1>2. RowKeys(row) /\ (id \in behind \/ RowFits(row))
  BY <1>1 DEF PagesInv, RowsInv, HeldRow, Stored
<1>3. rows' = [rows EXCEPT ![id] = new]
  BY <1>1 DEF addClient
<1>4. RowKeys(new)
  BY <1>2, ClientAppended
<1>5. /\ behind \subseteq behind' /\ behind' \subseteq Ids
      /\ id \notin behind' => list[id] = row /\ id \notin behind
  BY <1>1 DEF addClient, PagesInv, PagesShape, PagesTypeOK
<1>6. ASSUME id \notin behind' PROVE RowFits(new)
  <2>1. list[id] = row /\ RowFits(row)
    BY <1>2, <1>5, <1>6
  <2> DEFINE inb == toInbound(row)
  <2>2. FormFits(inb) /\ inb.protocol = row.protocol /\ inb.settings = Settings(row.protocol, row.settings, "again")
        /\ inb.stream.network = Or(row.streamSettings, "network", "tcp")
    BY <1>2, <2>1, InboundRead DEF toInbound
  <2>3. FitsClient(inb.protocol, inb.settings, inb.stream.network, client)
    BY <2>1, <2>2
  <2>4. row.protocol = "shadowsocks" => inb.settings.method = row.settings.method
    <3>1. SUFFICES ASSUME row.protocol = "shadowsocks" PROVE inb.settings.method = row.settings.method
      OBVIOUS
    <3>2. "method" \in DOMAIN row.settings
      BY <2>1, <3>1 DEF RowFits, Fits, ShadowFits
    <3>3. inb.settings = ShadowsocksSettings(row.settings, "again")
      BY <2>2, <3>1 DEF Settings
    <3>4. QED
      BY <3>2, <3>3, MethodRead
  <2> HIDE DEF inb
  <2>5. FitsClient(row.protocol, row.settings, Or(row.streamSettings, "network", "tcp"), client)
    BY <2>2, <2>3, <2>4 DEF FitsClient
  <2>6. QED
    BY <1>2, <2>1, <2>5, ClientAppended
<1> HIDE DEF new
<1>7. QED
  BY <1>3, <1>4, <1>5, <1>6, RowStep, SpendStep DEF addClient

LEMMA AddStep ==
  ASSUME PagesInv, NEW id \in Ids, NEW flow, openAddClient(id, flow) \/ openAddBulkClient(id, flow)
  PROVE  PagesInv'
<1>1. PICK inb : inb = toInbound(list[id])
  OBVIOUS
<1>2. list[id] # NoJson /\ Spend /\ clients(inb) # <<>>
  BY <1>1 DEF openAddClient, openAddBulkClient
<1>3. CASE openAddClient(id, flow)
  <2>1. /\ flow # "" => canEnableTlsFlow(inb)
        /\ addClient(id, With(newClient(inb), Given(flow # "", [flow |-> flow])))
    BY <1>1, <1>3 DEF openAddClient
  <2>2. FormFits(inb) => FitsClient(inb.protocol, inb.settings, inb.stream.network,
                                    With(newClient(inb), Given(flow # "", [flow |-> flow])))
    BY <1>2, <2>1, NewClientFits DEF Offered
  <2>3. QED
    BY <1>1, <1>2, <2>1, <2>2, ClientStep
<1>4. CASE openAddBulkClient(id, flow)
  <2>1. addClient(id, bulkClient(inb, flow))
    BY <1>1, <1>4 DEF openAddBulkClient
  <2>2. FormFits(inb) => FitsClient(inb.protocol, inb.settings, inb.stream.network, bulkClient(inb, flow))
    BY <1>2, BulkClientFits DEF Offered
  <2>3. QED
    BY <1>1, <1>2, <2>1, <2>2, ClientStep
<1>5. QED
  BY <1>3, <1>4

LEMMA ListedRow ==
  ASSUME PagesInv, NEW id \in Ids, list[id] # NoJson, NEW row, row = list[id]
  PROVE  /\ RowKeys(row) /\ FormKeys(toInbound(row))
         /\ id \in behind \/ (RowFits(row) /\ FormFits(toInbound(row)))
         /\ id \in Stored
BY InboundRead DEF PagesInv, ListInv, HeldRow, PagesShape, PagesTypeOK, Stored, toInbound

LEMMA CloneStep ==
  ASSUME PagesInv, NEW id \in Ids, cloneInbound(id)
  PROVE  PagesInv'
<1>1. PICK row, inb : row = list[id] /\ inb = toInbound(row)
  OBVIOUS
<1> DEFINE new == [InboundJson(inb) EXCEPT
                     !.listen = "", !.port = "cloned",
                     !.settings = SettingsJson(inb.protocol, getSettings(inb.protocol, "cloned")),
                     !.streamSettings = StreamSettingsJson(inb.stream)]
<1>2. /\ list[id] # NoJson /\ Spend /\ UNCHANGED <<list, inModal, asked, made, posted, behind>>
      /\ \E free \in Ids : rows' = [rows EXCEPT ![free] = new]
  BY <1>1 DEF cloneInbound
<1>3. PICK free \in Ids : rows' = [rows EXCEPT ![free] = new]
  BY <1>2
<1>4. RowKeys(new) /\ RowFits(new)
  BY <1>1, <1>2, ListedRow, Cloned
<1> HIDE DEF new
<1>5. behind \subseteq behind' /\ behind' \subseteq Ids /\ posted' \in {posted, NoJson}
  BY <1>2 DEF PagesInv, PagesShape, PagesTypeOK
<1>6. QED
  BY <1>2, <1>3, <1>4, <1>5, RowStep, SpendStep

LEMMA ResetStep ==
  ASSUME PagesInv, NEW id \in Ids, resetTraffic(id)
  PROVE  PagesInv'
<1>1. PICK row, new : row = list[id] /\ new = Posted(toInbound(row))
  OBVIOUS
<1>2. /\ list[id] # NoJson /\ Spend /\ UNCHANGED <<list, inModal, asked, made, posted, behind>>
      /\ rows' = [rows EXCEPT ![id] = new]
  BY <1>1 DEF resetTraffic
<1>3. RowKeys(new) /\ (id \in behind \/ RowFits(new))
  BY <1>1, <1>2, ListedRow, InboundWritten
<1>4. behind \subseteq behind' /\ behind' \subseteq Ids /\ posted' \in {posted, NoJson}
  BY <1>2 DEF PagesInv, PagesShape, PagesTypeOK
<1>5. QED
  BY <1>2, <1>3, <1>4, RowStep, SpendStep

LEMMA CloseStep == ASSUME PagesInv, Close PROVE PagesInv'
<1>1. /\ DOMAIN inModal' = DOMAIN inModal /\ inModal'.inbound = inModal.inbound /\ inModal'.id = inModal.id
      /\ inModal'.visible = FALSE /\ inModal'.loading = inModal.loading
  BY DEF Close, PagesInv, PagesShape
<1>2. {inModal'.visible, inModal'.loading} \subseteq BOOLEAN
  BY <1>1 DEF PagesInv, PagesShape, PagesTypeOK
<1>3. form' = form /\ FormKeys(form)
  BY <1>1 DEF form, PagesInv, ModalInv, HeldForm
<1>4. QED
  BY <1>1, <1>2, <1>3, WaitStep DEF Close, PagesInv, PagesShape, PagesTypeOK

LEMMA SaveStep == ASSUME PagesInv, Save PROVE PagesInv'
<1>1. /\ DOMAIN inModal' = DOMAIN inModal /\ inModal'.inbound = inModal.inbound /\ inModal'.id = inModal.id
      /\ inModal'.visible = inModal.visible /\ inModal'.loading = TRUE
  BY DEF Save, PagesInv, PagesShape
<1>2. PICK inb, row : inb = form /\ row = Posted(inb)
  OBVIOUS
<1>3. posted' = [id |-> inModal.id, row |-> row]
  BY <1>2 DEF Save
<1>4. {"id", "row"} \subseteq DOMAIN posted' /\ posted'.id = inModal.id /\ posted'.row = row
  BY <1>3
<1>5. PagesShape'
  BY <1>1, <1>4 DEF Save, PagesInv, PagesShape, PagesTypeOK, Stored
<1>6. HeldRow(row, inModal.id \in behind)
  BY <1>2, InboundWritten DEF PagesInv, ModalInv, HeldForm, HeldRow
<1>7. PostedInv'
  BY <1>4, <1>6 DEF Save, PostedInv
<1>8. QED
  BY <1>1, <1>5, <1>7 DEF Save, PagesInv, RowsInv, ListInv, ModalInv, Stored, form

LEMMA SavedStep ==
  ASSUME PagesInv, NEW success \in BOOLEAN, Saved(success)
  PROVE  PagesInv'
<1>1. /\ DOMAIN inModal' = DOMAIN inModal /\ inModal'.inbound = inModal.inbound /\ inModal'.id = inModal.id
      /\ inModal'.visible = (inModal.visible /\ ~success) /\ inModal'.loading = FALSE
  BY DEF Saved, PagesInv, PagesShape
<1>2. {inModal'.visible, inModal'.loading} \subseteq BOOLEAN
  BY <1>1
<1>3. form' = form /\ posted # NoJson /\ posted' = NoJson /\ UNCHANGED <<list, asked, made, behind, steps>>
  BY <1>1 DEF form, Saved
<1>4. CASE success
  <2>1. PICK id \in Ids : /\ IF posted.id = 0 THEN rows[id] = NoJson ELSE id = posted.id
                          /\ rows' = [rows EXCEPT ![id] = posted.row]
    BY <1>4 DEF Saved
  <2>2. RowKeys(posted.row) /\ (posted.id \in behind \/ RowFits(posted.row))
    BY <1>3 DEF PagesInv, PostedInv, HeldRow
  <2>3. posted.id \in behind => id = posted.id
    BY <2>1, PagesAssumption DEF PagesInv, PagesShape, PagesTypeOK
  <2>4. PICK row : row = posted.row
    OBVIOUS
  <2>5. behind \subseteq behind' /\ behind' \subseteq Ids /\ steps' \in Nat /\ steps' <= MaxSteps
    BY <1>3 DEF PagesInv, PagesShape, PagesTypeOK
  <2>6. QED
    BY <1>1, <1>2, <1>3, <2>1, <2>2, <2>3, <2>4, <2>5, RowStep
<1>5. CASE ~success
  <2>1. rows' = rows
    BY <1>5 DEF Saved
  <2>2. PagesShape'
    BY <1>1, <1>2, <1>3, <2>1 DEF PagesInv, PagesShape, PagesTypeOK, Stored
  <2>3. QED
    BY <1>1, <1>3, <2>1, <2>2 DEF PagesInv, RowsInv, ListInv, ModalInv, PostedInv, Stored
<1>6. QED
  BY <1>4, <1>5

LEMMA ListStep == ASSUME PagesInv, getDBInbounds PROVE PagesInv'
<1>1. PagesShape'
  BY DEF getDBInbounds, PagesInv, PagesShape, PagesTypeOK, Stored
<1>2. ListInv'
  BY DEF getDBInbounds, PagesInv, RowsInv, ListInv, Stored
<1>3. QED
  BY <1>1, <1>2 DEF getDBInbounds, PagesInv, RowsInv, ModalInv, PostedInv, Stored, form

LEMMA FormStep ==
  ASSUME PagesInv,
         \/ SwitchSockopt \/ SwitchAuth \/ clearKeys
         \/ \E protocol \in Protocols : ChooseProtocol(protocol)
         \/ \E network \in Networks : ChooseNetwork(network)
         \/ \E security \in {"none", "tls", "reality"} : ChooseSecurity(security)
         \/ \E flow \in Flows : ChooseFlow(flow)
         \/ \E method \in Methods : ChooseMethod(method)
         \/ \E proxies \in Proxy : EnterProxy(proxies)
  PROVE  PagesInv'
<1>1. PICK inb : inb = form
  OBVIOUS
<1>2. FormKeys(inb)
  BY <1>1 DEF PagesInv, ModalInv, HeldForm
<1>3. SUFFICES \E new : Edit(new) /\ FormKeys(new) /\ (FormFits(inb) => FormFits(new))
  BY <1>1, EditStep
<1>4. CASE SwitchSockopt
  <2>1. PICK x : x = IF inb.stream.sockopt = NoJson THEN NewSockopt ELSE NoJson
    OBVIOUS
  <2>2. Edit([inb EXCEPT !.stream.sockopt = x])
    BY <1>1, <1>4, <2>1 DEF SwitchSockopt
  <2>3. QED
    BY <1>2, <2>2, StreamSwitched
<1>5. CASE SwitchAuth
  <2>1. PICK x : x = IF inb.settings.auth = "password" THEN "noauth" ELSE "password"
    OBVIOUS
  <2>2. inb.protocol = "socks" /\ Edit([inb EXCEPT !.settings.auth = x])
    BY <1>1, <1>5, <2>1 DEF SwitchAuth
  <2>3. QED
    BY <1>2, <2>2, AuthSwitched
<1>6. CASE clearKeys
  <2>1. /\ inb.protocol = "vless"
        /\ Edit([inb EXCEPT !.settings.decryption = "none", !.settings.encryption = ""])
    BY <1>1, <1>6 DEF clearKeys
  <2>2. QED
    BY <1>2, <2>1, KeysCleared
<1>7. ASSUME NEW protocol, ChooseProtocol(protocol)
      PROVE  \E new : Edit(new) /\ FormKeys(new) /\ (FormFits(inb) => FormFits(new))
  BY <1>1, <1>2, <1>7, ProtocolChosen DEF ChooseProtocol
<1>8. ASSUME NEW network, ChooseNetwork(network)
      PROVE  \E new : Edit(new) /\ FormKeys(new) /\ (FormFits(inb) => FormFits(new))
  BY <1>1, <1>2, <1>8, NetworkChosen DEF ChooseNetwork
<1>9. ASSUME NEW security, ChooseSecurity(security)
      PROVE  \E new : Edit(new) /\ FormKeys(new) /\ (FormFits(inb) => FormFits(new))
  BY <1>1, <1>2, <1>9, SecurityChosen DEF ChooseSecurity
<1>10. ASSUME NEW flow, ChooseFlow(flow)
       PROVE  \E new : Edit(new) /\ FormKeys(new) /\ (FormFits(inb) => FormFits(new))
  BY <1>1, <1>2, <1>10, FlowChosen DEF ChooseFlow
<1>11. ASSUME NEW method, ChooseMethod(method)
       PROVE  \E new : Edit(new) /\ FormKeys(new) /\ (FormFits(inb) => FormFits(new))
  BY <1>1, <1>2, <1>11, MethodChosen DEF ChooseMethod
<1>12. ASSUME NEW proxies, EnterProxy(proxies)
       PROVE  \E new : Edit(new) /\ FormKeys(new) /\ (FormFits(inb) => FormFits(new))
  BY <1>1, <1>2, <1>12, StreamSwitched DEF EnterProxy
<1>13. QED
  BY <1>4, <1>5, <1>6, <1>7, <1>8, <1>9, <1>10, <1>11, <1>12

LEMMA OpenStep ==
  ASSUME PagesInv, openAddInbound \/ \E id \in Ids : openEditInbound(id)
  PROVE  PagesInv'
<1>1. CASE openAddInbound
  BY <1>1, InboundNew, ShowStep DEF openAddInbound, HeldForm
<1>2. ASSUME NEW id \in Ids, openEditInbound(id) PROVE PagesInv'
  <2>1. PICK row, inb : row = list[id] /\ inb = InboundFromJson(InboundJson(toInbound(row)), "again")
    OBVIOUS
  <2>2. list[id] # NoJson /\ Spend /\ show(inb, id) /\ UNCHANGED <<rows, list, asked, made, posted, behind>>
    BY <1>2, <2>1 DEF openEditInbound
  <2>3. HeldForm(inb, id \in behind) /\ id \in Stored
    BY <2>1, <2>2, ListedRow, InboundWritten, InboundRead DEF HeldForm
  <2>4. QED
    BY <2>2, <2>3, ShowStep
<1>3. QED
  BY <1>1, <1>2

LEMMA PagesStep == PagesInv /\ [PagesNext]_pageVars => PagesInv'
<1> SUFFICES ASSUME PagesInv, [PagesNext]_pageVars PROVE PagesInv'
  OBVIOUS
<1>1. CASE PagesNext
  <2>1. CASE \/ SwitchSockopt \/ SwitchAuth \/ clearKeys
             \/ \E protocol \in Protocols : ChooseProtocol(protocol)
             \/ \E network \in Networks : ChooseNetwork(network)
             \/ \E security \in {"none", "tls", "reality"} : ChooseSecurity(security)
             \/ \E flow \in Flows : ChooseFlow(flow)
             \/ \E method \in Methods : ChooseMethod(method)
             \/ \E proxies \in Proxy : EnterProxy(proxies)
    BY <2>1, FormStep
  <2>2. CASE getNewX25519Cert \/ getNewmldsa65 \/ getNewEchCert \/ getNewVlessEnc
    BY <2>2, AskStep DEF getNewX25519Cert, getNewmldsa65, getNewEchCert, getNewVlessEnc, Kinds
  <2>3. CASE \/ openAddInbound \/ Close \/ Save \/ getDBInbounds
             \/ \E success \in BOOLEAN : Saved(success)
             \/ \E kind \in Kinds, success \in BOOLEAN : Answer(kind, success)
             \/ \E id \in Ids : openEditInbound(id) \/ cloneInbound(id) \/ resetTraffic(id)
             \/ \E id \in Ids, flow \in Flows : openAddClient(id, flow) \/ openAddBulkClient(id, flow)
    BY <2>3, OpenStep, CloseStep, SaveStep, ListStep, SavedStep, AnswerStep, CloneStep, ResetStep, AddStep
  <2>4. QED
    BY <1>1, <2>1, <2>2, <2>3 DEF PagesNext
<1>2. CASE UNCHANGED pageVars
  <2>1. PagesShape'
    BY <1>2 DEF pageVars, PagesInv, PagesShape, PagesTypeOK, Stored
  <2>2. QED
    BY <1>2, <2>1 DEF pageVars, PagesInv, RowsInv, ListInv, ModalInv, PostedInv, Stored, form
<1>3. QED
  BY <1>1, <1>2

LEMMA PagesStart == PagesInit => PagesInv
<1> SUFFICES ASSUME PagesInit PROVE PagesInv
  OBVIOUS
<1>1. PICK preset \in Presets \cup Unopened :
        /\ rows = [id \in Ids |-> IF id = 1 THEN preset ELSE NoJson]
        /\ steps = IF preset \in Presets THEN 0 ELSE MaxSteps
  BY DEF PagesInit
<1>2. list = rows /\ asked = {} /\ made = 0 /\ posted = NoJson /\ behind = {}
  BY DEF PagesInit
<1>3. /\ DOMAIN inModal = {"inbound", "id", "visible", "loading"} /\ form = NewInbound("port", "page")
      /\ inModal.id = 0 /\ inModal.visible = FALSE /\ inModal.loading = FALSE
  BY DEF PagesInit, form
<1>4. \A id \in Ids : rows[id] # NoJson => RowKeys(rows[id]) /\ RowFits(rows[id])
  <2>1. ASSUME NEW id \in Ids, rows[id] # NoJson PROVE RowKeys(rows[id]) /\ RowFits(rows[id])
    <3>1. rows[id] = preset
      BY <1>1, <2>1
    <3>2. QED
      BY <2>1, <3>1, PresetHeld
  <2>2. QED
    BY <2>1
<1>5. PagesShape
  <2>1. Cardinality({}) = 0
    BY FS_EmptySet
  <2>2. Len(Pairs) \in Nat /\ MaxSteps \in Nat
    BY PagesAssumption
  <2>3. steps \in Nat /\ steps <= MaxSteps /\ DOMAIN rows = Ids
    BY <1>1, <2>2
  <2>4. asked \subseteq Kinds /\ made + Cardinality(asked) <= Len(Pairs)
    BY <1>2, <2>1, <2>2
  <2>5. {inModal.visible, inModal.loading} \subseteq BOOLEAN
    BY <1>3
  <2>6. PagesTypeOK
    BY <1>2, <1>3, <2>3, <2>4, <2>5 DEF PagesTypeOK
  <2>7. QED
    BY <1>2, <1>3, <2>3, <2>6 DEF PagesShape
<1>6. RowsInv /\ ListInv
  BY <1>2, <1>4 DEF RowsInv, ListInv, HeldRow, Stored
<1>7. ModalInv
  BY <1>2, <1>3, InboundNew DEF ModalInv, HeldForm
<1>8. PostedInv
  BY <1>2 DEF PostedInv
<1>9. QED
  BY <1>5, <1>6, <1>7, <1>8 DEF PagesInv

\* The pages' variables keep their shape, whatever the panel starts with.
THEOREM PagesKeepType == PagesSpec => []PagesTypeOK
<1>1. PagesInv => PagesTypeOK
  BY DEF PagesInv, PagesShape
<1>2. QED
  BY <1>1, PagesStart, PagesStep, PTL DEF PagesSpec

LEMMA StoredSound ==
  ASSUME PagesInv, NEW id \in Stored
  PROVE  /\ KeysPair(rows[id]) /\ SecurityFitsIn(rows[id])
         /\ id \in behind \/ (FlowsFit(rows[id]) /\ FitsMethod(rows[id]))
<1>1. PICK row : row = rows[id]
  OBVIOUS
<1>2. RowKeys(row) /\ (id \in behind \/ RowFits(row))
  BY <1>1 DEF PagesInv, RowsInv, HeldRow
<1>3. QED
  BY <1>1, <1>2, RowSound

\* The two halves of a key pair are stored together, whenever the panel's answer
\* comes and whatever the form then holds.
THEOREM KeysStayPaired == PagesSpec => []KeysPaired
<1>1. PagesInv => KeysPaired
  BY StoredSound DEF KeysPaired
<1>2. QED
  BY <1>1, PagesStart, PagesStep, PTL DEF PagesSpec

\* A kcp inbound is stored without security, and a flow only with tcp, whatever the
\* order in which protocol, network, security and flow were chosen.
THEOREM SecurityStaysFit == PagesSpec => []SecurityFits
<1>1. PagesInv => SecurityFits
  BY StoredSound DEF SecurityFits
<1>2. QED
  BY <1>1, PagesStart, PagesStep, PTL DEF PagesSpec

\* The passwords of a 2022 Shadowsocks inbound keep the length its method asks for,
\* through every change of method and every client added to it.
THEOREM PasswordsStayFit == PagesSpec => []PasswordsFit
<1>1. PagesInv => PasswordsFit
  BY StoredSound DEF PasswordsFit
<1>2. QED
  BY <1>1, PagesStart, PagesStep, PTL DEF PagesSpec

(*------------------------------ round trips -----------------------------*)
\* Two objects are the same when their keys and their values are.
LEMMA SameObject ==
  ASSUME NEW keys, NEW a, a = [key \in keys |-> a[key]], NEW b, b = [key \in keys |-> b[key]],
         \A key \in keys : a[key] = b[key]
  PROVE  a = b
OBVIOUS

\* A constructor that is given all its keys takes none of its defaults.
LEMMA NewGiven ==
  ASSUME NEW defaults, NEW json, DOMAIN defaults \subseteq DOMAIN json
  PROVE  New(defaults, json) = [key \in DOMAIN defaults |-> json[key]]
BY DEF New, Or

LEMMA NewAgain ==
  ASSUME NEW defaults, NEW others, DOMAIN others = DOMAIN defaults, NEW json
  PROVE  New(others, New(defaults, json)) = New(defaults, json)
BY DEF New, Or

LEMMA JoinedAgain ==
  ASSUME NEW parts
  PROVE  Joined(Joined(parts)) = Joined(parts)
<1>1. EmptyText # <<>>
  BY DEF EmptyText
<1>2. QED
  BY <1>1 DEF Joined

LEMMA KcpAgain ==
  ASSUME NEW json, NEW r, NEW again
  PROVE  KcpStreamSettings(KcpStreamSettingsJson(KcpStreamSettings(json, r)), again) = KcpStreamSettings(json, r)
<1> DEFINE d(s) == [mtu |-> 1350, tti |-> 50, uplinkCapacity |-> 5, downlinkCapacity |-> 20,
                    congestion |-> FALSE, readBufferSize |-> 2, writeBufferSize |-> 2, seed |-> s]
           own  == DOMAIN d(r)
           type == Or(Or(json, "header", NoJson), "type", "none")
           x    == KcpStreamSettings(json, r)
           out  == KcpStreamSettingsJson(x)
           y    == KcpStreamSettings(out, again)
<1>1. DOMAIN d(again) = own /\ "type" \notin own /\ "header" \notin own
  OBVIOUS
<1>2. /\ x = With(New(d(r), json), [type |-> type])
      /\ y = With(New(d(again), out), [type |-> Or(Or(out, "header", NoJson), "type", "none")])
      /\ out = With(Only(x, DOMAIN x \ {"type"}), [header |-> [type |-> x.type]])
  BY DEF KcpStreamSettings, KcpStreamSettingsJson
<1> HIDE DEF x, y, out, d, own, type
<1>3. x = [key \in own \cup {"type"} |-> x[key]] /\ x.type = type
  BY <1>1, <1>2 DEF With, New, own
<1>4. /\ DOMAIN out = own \cup {"header"} /\ out.header = [type |-> type]
      /\ \A key \in own : out[key] = x[key]
  BY <1>1, <1>2, <1>3 DEF With, Only
<1>5. Or(Or(out, "header", NoJson), "type", "none") = type
  BY <1>4 DEF Or
<1>6. New(d(again), out) = [key \in own |-> x[key]]
  BY <1>1, <1>4 DEF New, Or
<1>7. y = [key \in own \cup {"type"} |-> y[key]] /\ y.type = type /\ \A key \in own : y[key] = x[key]
  BY <1>1, <1>2, <1>5, <1>6 DEF With
<1>8. \A key \in own \cup {"type"} : y[key] = x[key]
  BY <1>3, <1>7
<1>9. y = x
  BY <1>3, <1>7, <1>8, SameObject
<1>10. QED
  BY <1>9 DEF x, y, out

LEMMA RealityAgain ==
  ASSUME NEW json, NEW r, NEW again
  PROVE  RealityStreamSettings(RealityStreamSettings(json, r), again) = RealityStreamSettings(json, r)
<1> DEFINE settings == [publicKey |-> "", fingerprint |-> "chrome", serverName |-> EmptyText,
                        spiderX |-> <<"/">>, mldsa65Verify |-> ""]
           d(s) == [show |-> FALSE, xver |-> 0, target |-> "tesla.com:443",
                    serverNames |-> <<"tesla.com", "www.tesla.com">>, privateKey |-> "",
                    minClientVer |-> "", maxClientVer |-> "", maxTimediff |-> 0, shortIds |-> <<s>>,
                    mldsa65Seed |-> "", settings |-> NoJson]
           own  == DOMAIN d(r)
           Done(n) == [n EXCEPT !.serverNames = Joined(@), !.shortIds = Joined(@),
                                !.settings = New(settings, @)]
           x    == Done(New(d(r), json))
           y    == Done(New(d(again), x))
<1>1. DOMAIN d(again) = own /\ {"serverNames", "shortIds", "settings"} \subseteq own
  OBVIOUS
<1>2. x = RealityStreamSettings(json, r) /\ y = RealityStreamSettings(x, again)
  BY DEF RealityStreamSettings
<1> HIDE DEF d, own, settings
<1>3. /\ x = [key \in own |-> x[key]]
      /\ x.serverNames = Joined(New(d(r), json).serverNames) /\ x.shortIds = Joined(New(d(r), json).shortIds)
      /\ x.settings = New(settings, New(d(r), json).settings)
  BY <1>1 DEF New, own
<1> HIDE DEF x
<1>4. New(d(again), x) = x
  BY <1>1, <1>3, NewGiven
<1>5. /\ Joined(x.serverNames) = x.serverNames /\ Joined(x.shortIds) = x.shortIds
      /\ New(settings, x.settings) = x.settings
  BY <1>3, JoinedAgain, NewAgain
<1>6. y = x
  BY <1>1, <1>3, <1>4, <1>5
<1>7. QED
  BY <1>2, <1>6

LEMMA SockoptAgain ==
  ASSUME NEW json
  PROVE  SockoptStreamSettings(SockoptStreamSettings(json)) = SockoptStreamSettings(json)
<1> DEFINE d == [acceptProxyProtocol |-> FALSE, tcpFastOpen |-> FALSE, mark |-> 0, tproxy |-> "off",
               tcpMptcp |-> FALSE, penetrate |-> FALSE, domainStrategy |-> "UseIP", tcpMaxSeg |-> 1440,
               dialerProxy |-> "", tcpKeepAliveInterval |-> 0, tcpKeepAliveIdle |-> 300,
               tcpUserTimeout |-> 10000, tcpcongestion |-> "bbr", V6Only |-> FALSE,
               tcpWindowClamp |-> 600, interface |-> ""]
<1>1. \A given : SockoptStreamSettings(given) = IF given # NoJson THEN New(d, given) ELSE NoJson
  BY DEF SockoptStreamSettings, Given
<1>2. "mark" \in DOMAIN d
  OBVIOUS
<1> HIDE DEF d
<1>3. New(d, New(d, json)) = New(d, json)
  BY NewAgain
<1>4. CASE json = NoJson
  BY <1>1, <1>4
<1>5. CASE json # NoJson
  <2>1. SockoptStreamSettings(json) = New(d, json)
    BY <1>1, <1>5
  <2>2. New(d, json) # NoJson
    <3>1. DOMAIN New(d, json) = DOMAIN d
      BY DEF New
    <3>2. DOMAIN NoJson = {}
      BY DEF NoJson
    <3>3. QED
      BY <1>2, <3>1, <3>2
  <2>3. QED
    BY <1>1, <1>3, <2>1, <2>2
<1>6. QED
  BY <1>4, <1>5

LEMMA SniffingAgain ==
  ASSUME NEW json
  PROVE  Sniffing(Sniffing(json)) = Sniffing(json)
<1> DEFINE all == <<"http", "tls", "quic", "fakedns">>
           d   == [enabled |-> FALSE, destOverride |-> all, metadataOnly |-> FALSE, routeOnly |-> FALSE]
           Named(several) == IF several # <<>> /\ several[1] = "" THEN all ELSE several
           Done(n) == [n EXCEPT !.destOverride = Named(@)]
           x == Done(New(d, json))
           y == Done(New(d, x))
<1>1. x = Sniffing(json) /\ y = Sniffing(x)
  BY DEF Sniffing
<1>2. "destOverride" \in DOMAIN d /\ all[1] # ""
  OBVIOUS
<1> HIDE DEF d, all
<1>3. x = [key \in DOMAIN d |-> x[key]] /\ x.destOverride = Named(New(d, json).destOverride)
  BY <1>2 DEF New
<1> HIDE DEF x
<1>4. New(d, x) = x
  <2>1. DOMAIN d \subseteq DOMAIN x
    BY <1>3
  <2>2. New(d, x) = [key \in DOMAIN d |-> x[key]]
    BY <2>1, NewGiven
  <2>3. QED
    BY <1>3, <2>2
<1> DEFINE given == New(d, json).destOverride
<1>5. Named(x.destOverride) = x.destOverride
  <2>1. CASE given # <<>> /\ given[1] = ""
    <3>1. Named(given) = all
      BY <2>1
    <3>2. Named(all) = all
      BY <1>2
    <3>3. QED
      BY <1>3, <3>1, <3>2
  <2>2. CASE ~(given # <<>> /\ given[1] = "")
    <3>1. Named(given) = given
      BY <2>2
    <3>2. QED
      BY <1>3, <3>1
  <2>3. QED
    BY <2>1, <2>2
<1>6. y = x
  BY <1>2, <1>3, <1>4, <1>5
<1>7. QED
  BY <1>1, <1>6


\* What a certificate has, and when it is one of files.
LEMMA CertParts ==
  ASSUME NEW from,
         NEW uses, uses = ({"certificateFile", "keyFile"} \subseteq DOMAIN from)
  PROVE  LET own   == {"oneTimeLoading", "usage", "buildChain"}
             parts == {"certificateFile", "keyFile", "certificate", "key"}
             c     == Cert(from)
         IN  /\ c = [key \in own \cup {"useFile"} \cup parts |-> c[key]]
             /\ c.useFile = uses
             /\ \A key \in own : key \in DOMAIN from => c[key] = from[key]
             /\ uses  => /\ c.certificateFile = from.certificateFile /\ c.keyFile = from.keyFile
                         /\ c.certificate = EmptyText /\ c.key = EmptyText
             /\ ~uses => /\ c.certificateFile = "" /\ c.keyFile = ""
                         /\ c.certificate = Joined(Or(from, "certificate", EmptyText))
                         /\ c.key = Joined(Or(from, "key", EmptyText))
<1> DEFINE flags == [oneTimeLoading |-> FALSE, usage |-> "encipherment", buildChain |-> FALSE]
           own   == {"oneTimeLoading", "usage", "buildChain"}
           parts == {"certificateFile", "keyFile", "certificate", "key"}
           fdef  == [certificateFile |-> "", keyFile |-> ""]
           ldef  == [certificate |-> EmptyText, key |-> EmptyText]
           files == With(New(fdef, from), ldef)
           lines == With(fdef, [certificate |-> Joined(New(ldef, from).certificate),
                                key |-> Joined(New(ldef, from).key)])
           either == IF uses THEN files ELSE lines
           mid    == With(New(flags, from), [useFile |-> uses])
           c      == Cert(from)
<1>1. c = With(mid, either)
  BY DEF Cert
<1>2. /\ mid = [key \in own \cup {"useFile"} |-> mid[key]]
      /\ \A key \in own : key \in DOMAIN from => mid[key] = from[key]
      /\ mid.useFile = uses
  BY DEF With, New, Or
<1>3. DOMAIN either = parts
  BY DEF With, New
<1>4. uses => /\ either.certificateFile = from.certificateFile /\ either.keyFile = from.keyFile
              /\ either.certificate = EmptyText /\ either.key = EmptyText
  BY DEF With, New, Or
<1>5. ~uses => /\ either.certificateFile = "" /\ either.keyFile = ""
               /\ either.certificate = Joined(Or(from, "certificate", EmptyText))
               /\ either.key = Joined(Or(from, "key", EmptyText))
  BY DEF With, New, Or
<1> HIDE DEF mid, either, c
<1>6. /\ c = [key \in own \cup {"useFile"} \cup parts |-> c[key]]
      /\ \A key \in parts : c[key] = either[key]
      /\ \A key \in own \cup {"useFile"} : c[key] = mid[key]
  BY <1>1, <1>2, <1>3 DEF With
<1>7. QED
  BY <1>2, <1>4, <1>5, <1>6 DEF c

\* A certificate stays one of files or one of lines.
LEMMA CertAgain ==
  ASSUME NEW json
  PROVE  Cert(CertJson(Cert(json))) = Cert(json)
<1> DEFINE own   == {"oneTimeLoading", "usage", "buildChain"}
           paths == {"certificateFile", "keyFile"}
           lines == {"certificate", "key"}
           all   == own \cup {"useFile"} \cup {"certificateFile", "keyFile", "certificate", "key"}
           x     == Cert(json)
           j     == CertJson(x)
           y     == Cert(j)
           xUses == paths \subseteq DOMAIN json
           yUses == paths \subseteq DOMAIN j
<1>1. j = Only(x, own \cup IF x.useFile THEN paths ELSE lines)
  BY DEF CertJson
<1>2. /\ x = [key \in all |-> x[key]]
      /\ x.useFile = xUses
      /\ xUses  => x.certificate = EmptyText /\ x.key = EmptyText
      /\ ~xUses => /\ x.certificateFile = "" /\ x.keyFile = ""
                   /\ x.certificate = Joined(Or(json, "certificate", EmptyText))
                   /\ x.key = Joined(Or(json, "key", EmptyText))
  BY CertParts
<1>3. /\ y = [key \in all |-> y[key]]
      /\ y.useFile = yUses
      /\ \A key \in own : key \in DOMAIN j => y[key] = j[key]
      /\ yUses  => /\ y.certificateFile = j.certificateFile /\ y.keyFile = j.keyFile
                   /\ y.certificate = EmptyText /\ y.key = EmptyText
      /\ ~yUses => /\ y.certificateFile = "" /\ y.keyFile = ""
                   /\ y.certificate = Joined(Or(j, "certificate", EmptyText))
                   /\ y.key = Joined(Or(j, "key", EmptyText))
  BY CertParts
<1> HIDE DEF x, j, y, xUses
<1>4. CASE xUses
  <2>1. DOMAIN j = own \cup paths /\ \A key \in own \cup paths : j[key] = x[key]
    BY <1>1, <1>2, <1>4 DEF Only
  <2>2. yUses
    BY <2>1
  <2>3. \A key \in all : y[key] = x[key]
    BY <1>2, <1>3, <1>4, <2>1, <2>2
  <2>4. QED
    BY <1>2, <1>3, <2>3, SameObject DEF x, j, y
<1>5. CASE ~xUses
  <2>1. DOMAIN j = own \cup lines /\ \A key \in own \cup lines : j[key] = x[key]
    BY <1>1, <1>2, <1>5 DEF Only
  <2>2. ~yUses
    BY <2>1
  <2>3. Joined(x.certificate) = x.certificate /\ Joined(x.key) = x.key
    BY <1>2, <1>5, JoinedAgain
  <2>4. y.certificate = x.certificate /\ y.key = x.key
    BY <1>3, <2>1, <2>2, <2>3 DEF Or
  <2>5. \A key \in all : y[key] = x[key]
    <3>1. \A key \in own : y[key] = x[key]
      BY <1>3, <2>1
    <3>2. y.useFile = x.useFile
      <4>1. x.useFile = FALSE
        BY <1>2, <1>5 DEF xUses
      <4>2. y.useFile = FALSE
        BY <1>3, <2>2
      <4>3. QED
        BY <4>1, <4>2
    <3>3. y.certificateFile = x.certificateFile /\ y.keyFile = x.keyFile
      BY <1>2, <1>3, <1>5, <2>2
    <3>4. QED
      BY <2>4, <3>1, <3>2, <3>3
  <2>6. QED
    BY <1>2, <1>3, <2>5, SameObject DEF x, j, y
<1>6. QED
  BY <1>4, <1>5

LEMMA TlsAgain ==
  ASSUME NEW json
  PROVE  TlsStreamSettings(TlsStreamSettingsJson(TlsStreamSettings(json))) = TlsStreamSettings(json)
<1> DEFINE settings == [allowInsecure |-> FALSE, fingerprint |-> "chrome", echConfigList |-> EmptyText]
           d == [serverName |-> EmptyText, minVersion |-> "1.2", maxVersion |-> "1.3", cipherSuites |-> "",
                 rejectUnknownSni |-> FALSE, verifyPeerCertInNames |-> <<"dns.google", "cloudflare-dns.com">>,
                 disableSystemRoot |-> FALSE, enableSessionResumption |-> FALSE,
                 certificates |-> <<>>, alpn |-> <<"h2", "http/1.1">>, echServerKeys |-> "",
                 echForceQuery |-> "none", settings |-> NoJson]
           own == DOMAIN d
           Certs(from, several) == IF "certificates" \in DOMAIN from THEN Map(several, Cert) ELSE <<NewCert>>
           Done(from, n) == [n EXCEPT !.certificates = Certs(from, @), !.verifyPeerCertInNames = Joined(@),
                                      !.settings = New(settings, @)]
           x == TlsStreamSettings(json)
           j == TlsStreamSettingsJson(x)
           y == TlsStreamSettings(j)
           three == {"certificates", "verifyPeerCertInNames", "settings"}
<1>1. /\ x = Done(json, New(d, json))
      /\ y = Done(j, New(d, j))
      /\ j = [x EXCEPT !.certificates = Map(@, CertJson)]
  BY DEF TlsStreamSettings, TlsStreamSettingsJson
<1>2. three \subseteq own
  OBVIOUS
<1> HIDE DEF d, own, settings, Certs, x, j, y
<1>3. /\ x = [key \in own |-> x[key]]
      /\ x.certificates = Certs(json, New(d, json).certificates)
      /\ x.verifyPeerCertInNames = Joined(New(d, json).verifyPeerCertInNames)
      /\ x.settings = New(settings, New(d, json).settings)
  BY <1>1, <1>2 DEF New, own
<1>4. /\ DOMAIN j = own /\ j.certificates = Map(x.certificates, CertJson)
      /\ \A key \in own \ {"certificates"} : j[key] = x[key]
  BY <1>1, <1>2, <1>3
<1>5. New(d, j) = [key \in own |-> j[key]]
  BY <1>4, NewGiven DEF own
<1>6. /\ y = [key \in own |-> y[key]]
      /\ y.certificates = Certs(j, j.certificates)
      /\ y.verifyPeerCertInNames = Joined(j.verifyPeerCertInNames)
      /\ y.settings = New(settings, j.settings)
      /\ \A key \in own \ three : y[key] = j[key]
  <2>1. y = Done(j, [key \in own |-> j[key]])
    BY <1>1, <1>5
  <2>2. y = [key \in own |-> CASE key = "certificates" -> Certs(j, j.certificates)
                               [] key = "verifyPeerCertInNames" -> Joined(j.verifyPeerCertInNames)
                               [] key = "settings" -> New(settings, j.settings)
                               [] OTHER -> j[key]]
    BY <1>2, <2>1
  <2>3. QED
    BY <1>2, <2>2
<1>7. y.certificates = x.certificates
  <2>1. /\ x.certificates = [i \in DOMAIN x.certificates |-> x.certificates[i]]
        /\ \A i \in DOMAIN x.certificates : \E from : x.certificates[i] = Cert(from)
    <3>1. x.certificates = Map(New(d, json).certificates, Cert) \/ x.certificates = <<NewCert>>
      BY <1>3 DEF Certs
    <3>2. CASE x.certificates = Map(New(d, json).certificates, Cert)
      BY <3>2 DEF Map
    <3>3. CASE x.certificates = <<NewCert>>
      <4>1. NewCert = Cert([certificateFile |-> "", keyFile |-> ""])
        BY DEF NewCert
      <4> HIDE DEF NewCert
      <4>2. x.certificates = [i \in {1} |-> NewCert]
        BY <3>3
      <4>3. QED
        BY <4>1, <4>2
    <3>4. QED
      BY <3>1, <3>2, <3>3
  <2>2. \A i \in DOMAIN x.certificates : Cert(CertJson(x.certificates[i])) = x.certificates[i]
    BY <2>1, CertAgain
  <2>3. y.certificates = Map(Map(x.certificates, CertJson), Cert)
    BY <1>2, <1>4, <1>6 DEF Certs
  <2>4. QED
    BY <2>1, <2>2, <2>3 DEF Map
<1>8. y.verifyPeerCertInNames = x.verifyPeerCertInNames
  BY <1>2, <1>3, <1>4, <1>6, JoinedAgain
<1>9. y.settings = x.settings
  <2>1. y.settings = New(settings, x.settings)
    BY <1>2, <1>4, <1>6
  <2>2. QED
    BY <1>3, <2>1, NewAgain
<1>10. \A key \in own : y[key] = x[key]
  BY <1>4, <1>6, <1>7, <1>8, <1>9
<1>11. QED
  BY <1>3, <1>6, <1>10, SameObject DEF x, j, y

\* A client that has its keys is read as it is, its two times too.
LEMMA ClientAgain ==
  ASSUME NEW credential, NEW other, DOMAIN other = DOMAIN credential, NEW json, NEW r, NEW again
  PROVE  Client(other, Client(credential, json, r), again) = Client(credential, json, r)
<1> DEFINE d == With(ClientLimits(r), credential)
           e == With(ClientLimits(again), other)
           times == {"created_at", "updated_at"}
           x == Client(credential, json, r)
           y == Client(other, x, again)
<1>1. DOMAIN d = DOMAIN e
  BY DEF With, ClientLimits
<1>2. x = With(New(d, json), Only(json, times)) /\ y = With(New(e, x), Only(x, times))
  BY DEF Client
<1> HIDE DEF d, e, times, x, y
<1>3. x = [key \in DOMAIN d \cup (DOMAIN json \cap times) |-> x[key]]
  BY <1>2 DEF With, New, Only
<1>4. New(e, x) = [key \in DOMAIN d |-> x[key]]
  BY <1>1, <1>3, NewGiven
<1>5. y = [key \in DOMAIN d \cup (DOMAIN x \cap times) |-> x[key]]
  BY <1>2, <1>4 DEF With, Only
<1>6. DOMAIN d \cup (DOMAIN x \cap times) = DOMAIN d \cup (DOMAIN json \cap times)
  BY <1>3
<1>7. y = x
  BY <1>3, <1>5, <1>6
<1>8. QED
  BY <1>7 DEF x, y

LEMMA UsersAgain ==
  ASSUME NEW json, NEW r, NEW again
  PROVE  /\ VMESS(VMESS(json, r), again) = VMESS(json, r)
         /\ VLESS(VLESS(json, r), again) = VLESS(json, r)
         /\ Trojan(Trojan(json, r), again) = Trojan(json, r)
         /\ Shadowsocks(Shadowsocks(json, r), again) = Shadowsocks(json, r)
         /\ Account(Account(json, r), again) = Account(json, r)
<1>1. VMESS(VMESS(json, r), again) = VMESS(json, r)
  <2> DEFINE c(s) == [id |-> s, security |-> "auto"]
  <2>1. DOMAIN c(again) = DOMAIN c(r)
    OBVIOUS
  <2>2. /\ VMESS(json, r) = Client(c(r), json, r)
        /\ \A from : VMESS(from, again) = Client(c(again), from, again)
    BY DEF VMESS
  <2> HIDE DEF c
  <2>3. QED
    BY <2>1, <2>2, ClientAgain
<1>2. VLESS(VLESS(json, r), again) = VLESS(json, r)
  <2> DEFINE c(s) == [id |-> s, flow |-> ""]
  <2>1. DOMAIN c(again) = DOMAIN c(r)
    OBVIOUS
  <2>2. /\ VLESS(json, r) = Client(c(r), json, r)
        /\ \A from : VLESS(from, again) = Client(c(again), from, again)
    BY DEF VLESS
  <2> HIDE DEF c
  <2>3. QED
    BY <2>1, <2>2, ClientAgain
<1>3. Trojan(Trojan(json, r), again) = Trojan(json, r)
  <2> DEFINE c(s) == [password |-> s]
  <2>1. DOMAIN c(again) = DOMAIN c(r)
    OBVIOUS
  <2>2. /\ Trojan(json, r) = Client(c(r), json, r)
        /\ \A from : Trojan(from, again) = Client(c(again), from, again)
    BY DEF Trojan
  <2> HIDE DEF c
  <2>3. QED
    BY <2>1, <2>2, ClientAgain
<1>4. Shadowsocks(Shadowsocks(json, r), again) = Shadowsocks(json, r)
  <2> DEFINE c(s) == [method |-> "", password |-> randomShadowsocksPassword(defaultMethod, s)]
  <2>1. DOMAIN c(again) = DOMAIN c(r)
    OBVIOUS
  <2>2. /\ Shadowsocks(json, r) = Client(c(r), json, r)
        /\ \A from : Shadowsocks(from, again) = Client(c(again), from, again)
    BY DEF Shadowsocks
  <2> HIDE DEF c
  <2>3. QED
    BY <2>1, <2>2, ClientAgain
<1>5. Account(Account(json, r), again) = Account(json, r)
  <2> DEFINE d(s) == [user |-> s, pass |-> s]
  <2>1. DOMAIN d(again) = DOMAIN d(r)
    OBVIOUS
  <2>2. New(d(again), New(d(r), json)) = New(d(r), json)
    BY <2>1, NewAgain
  <2>3. QED
    BY <2>2 DEF Account
<1>6. QED
  BY <1>1, <1>2, <1>3, <1>4, <1>5

LEMMA FallbackAgain ==
  ASSUME NEW json
  PROVE  FallbackJson(Fallback(FallbackJson(Fallback(json)))) = FallbackJson(Fallback(json))
<1> DEFINE d == [name |-> "", alpn |-> "", path |-> "", dest |-> "", xver |-> "0"]
           Number(v) == IF v = "null" THEN "0" ELSE v
           x == FallbackJson(Fallback(json))
<1>1. \A from : /\ Fallback(from) = New(d, from)
                /\ FallbackJson(Fallback(from)) = [New(d, from) EXCEPT !.xver = Number(@)]
  BY DEF Fallback, FallbackJson
<1>2. "xver" \in DOMAIN d
  OBVIOUS
<1> HIDE DEF d
<1>3. x = [key \in DOMAIN d |-> x[key]] /\ x.xver = Number(New(d, json).xver)
  BY <1>1, <1>2 DEF New
<1> HIDE DEF x
<1>4. New(d, x) = x
  <2>1. New(d, x) = [key \in DOMAIN d |-> x[key]]
    BY <1>3, NewGiven
  <2>2. QED
    BY <1>3, <2>1
<1>5. Number(x.xver) = x.xver
  <2>1. \A v : Number(Number(v)) = Number(v)
    OBVIOUS
  <2>2. QED
    BY <1>3, <2>1
<1>6. FallbackJson(Fallback(x)) = x
  BY <1>1, <1>2, <1>3, <1>4, <1>5
<1>7. QED
  BY <1>6 DEF x

\* An address has its mask after the first reading.
LEMMA MaskAgain ==
  ASSUME NEW ips
  PROVE  WithMask(WithMask(ips)) = WithMask(ips)
<1> DEFINE Full(a) == IF a.ip # "" /\ a.mask = "" THEN [a EXCEPT !.mask = "/32"] ELSE a
<1>1. \A a : Full(Full(a)) = Full(a)
  <2> TAKE a
  <2>1. CASE a.ip # "" /\ a.mask = ""
    <3> DEFINE b == Full(a)
    <3>1. b = [key \in DOMAIN a |-> IF key = "mask" THEN "/32" ELSE a[key]]
      BY <2>1
    <3> HIDE DEF b
    <3>2. [b EXCEPT !.mask = "/32"] = b
      BY <3>1
    <3>3. Full(b) = b
      BY <3>2
    <3>4. QED
      BY <3>3 DEF b
  <2>2. CASE ~(a.ip # "" /\ a.mask = "")
    BY <2>2
  <2>3. QED
    BY <2>1, <2>2
<1>2. \A several : WithMask(several) = [i \in DOMAIN several |-> Full(several[i])]
  BY DEF WithMask, Map
<1> HIDE DEF Full
<1>3. QED
  BY <1>1, <1>2

\* What a peer has: its keys as they were given, or a new pair.
LEMMA PeerParts ==
  ASSUME NEW from, NEW s
  PROVE  LET own == {"privateKey", "publicKey", "preSharedKey", "allowedIPs", "keepAlive"}
             p   == Peer(from, s)
         IN  /\ p = [key \in own |-> p[key]]
             /\ p.publicKey # <<>>
             /\ p.preSharedKey = Or(from, "preSharedKey", "")
             /\ \E ips : p.allowedIPs = WithMask(ips)
             /\ "allowedIPs" \in DOMAIN from => p.allowedIPs = WithMask(from.allowedIPs)
             /\ "keepAlive" \in DOMAIN from => p.keepAlive = from.keepAlive
             /\ {"privateKey", "publicKey"} \subseteq DOMAIN from /\ from.publicKey # <<>> =>
                  p.publicKey = from.publicKey /\ p.privateKey = from.privateKey
<1> DEFINE d == [privateKey |-> <<>>, publicKey |-> <<>>, preSharedKey |-> "",
                 allowedIPs |-> <<[ip |-> "10.0.0.2", mask |-> "/32"]>>, keepAlive |-> 0]
           own == {"privateKey", "publicKey", "preSharedKey", "allowedIPs", "keepAlive"}
           pair == [privateKey |-> <<s>>, publicKey |-> PublicOf(<<s>>)]
           n == New(d, from)
           m == [n EXCEPT !.allowedIPs = WithMask(@)]
           p == Peer(from, s)
<1>1. p = With(m, Given(n.publicKey = <<>>, pair))
  BY DEF Peer
<1>2. /\ n = [key \in own |-> n[key]]
      /\ n.preSharedKey = Or(from, "preSharedKey", "")
      /\ \A key \in own : key \in DOMAIN from => n[key] = from[key]
  BY DEF New, Or
<1>3. DOMAIN pair = {"privateKey", "publicKey"} /\ pair.publicKey # <<>>
  BY DEF PublicOf
<1> HIDE DEF n, pair, p
<1>4. /\ m = [key \in own |-> m[key]] /\ m.allowedIPs = WithMask(n.allowedIPs)
      /\ \A key \in own \ {"allowedIPs"} : m[key] = n[key]
  BY <1>2
<1> HIDE DEF m
<1>5. CASE n.publicKey = <<>>
  <2>1. p = With(m, pair)
    BY <1>1, <1>5 DEF Given
  <2>2. /\ p = [key \in own |-> p[key]] /\ p.publicKey = pair.publicKey
        /\ \A key \in own \ {"privateKey", "publicKey"} : p[key] = m[key]
    BY <1>3, <1>4, <2>1 DEF With
  <2>3. QED
    BY <1>2, <1>3, <1>4, <1>5, <2>2 DEF p
<1>6. CASE n.publicKey # <<>>
  <2>1. p = With(m, NoJson)
    BY <1>1, <1>6 DEF Given
  <2>2. DOMAIN NoJson = {}
    BY DEF NoJson
  <2>3. p = m
    BY <1>4, <2>1, <2>2 DEF With
  <2>4. QED
    BY <1>2, <1>4, <1>6, <2>3 DEF p
<1>7. QED
  BY <1>5, <1>6

\* A peer keeps the pair it was given or was made with.
LEMMA PeerAgain ==
  ASSUME NEW json, NEW r, NEW again
  PROVE  PeerJson(Peer(PeerJson(Peer(json, r)), again)) = PeerJson(Peer(json, r))
<1> DEFINE own == {"privateKey", "publicKey", "preSharedKey", "allowedIPs", "keepAlive"}
           x == Peer(json, r)
           j == PeerJson(x)
           y == Peer(j, again)
<1>1. /\ x = [key \in own |-> x[key]]
      /\ x.publicKey # <<>>
      /\ \E ips : x.allowedIPs = WithMask(ips)
  BY PeerParts
<1>2. /\ y = [key \in own |-> y[key]]
      /\ y.preSharedKey = Or(j, "preSharedKey", "")
      /\ "allowedIPs" \in DOMAIN j => y.allowedIPs = WithMask(j.allowedIPs)
      /\ "keepAlive" \in DOMAIN j => y.keepAlive = j.keepAlive
      /\ {"privateKey", "publicKey"} \subseteq DOMAIN j /\ j.publicKey # <<>> =>
           y.publicKey = j.publicKey /\ y.privateKey = j.privateKey
  BY PeerParts
<1>3. j = [key \in DOMAIN x \ (IF x.preSharedKey = "" THEN {"preSharedKey"} ELSE {}) |->
             IF key = "allowedIPs" THEN WithMask(x.allowedIPs) ELSE x[key]]
  BY DEF PeerJson
<1> HIDE DEF x, j, y
<1>4. WithMask(x.allowedIPs) = x.allowedIPs
  BY <1>1, MaskAgain
<1>5. /\ DOMAIN j = own \ (IF x.preSharedKey = "" THEN {"preSharedKey"} ELSE {})
      /\ \A key \in DOMAIN j : j[key] = x[key]
  BY <1>1, <1>3, <1>4
<1>6. y.preSharedKey = x.preSharedKey
  BY <1>2, <1>5 DEF Or
<1>7. y.allowedIPs = x.allowedIPs /\ y.keepAlive = x.keepAlive
  BY <1>2, <1>4, <1>5
<1>8. y.publicKey = x.publicKey /\ y.privateKey = x.privateKey
  BY <1>1, <1>2, <1>5
<1>9. \A key \in own : y[key] = x[key]
  BY <1>6, <1>7, <1>8
<1>10. y = x
  BY <1>1, <1>2, <1>9, SameObject
<1>11. QED
  BY <1>10 DEF x, y, j

LEMMA FallbacksAgain ==
  ASSUME NEW several
  PROVE  LET sent == Map(Map(several, Fallback), FallbackJson)
         IN  Map(Map(sent, Fallback), FallbackJson) = sent
BY FallbackAgain DEF Map

LEMMA VlessAgain ==
  ASSUME NEW json, Or(json, "decryption", "none") # "", NEW r, NEW again
  PROVE  LET sent == VLESSSettingsJson(VLESSSettings(json, r))
         IN  VLESSSettingsJson(VLESSSettings(sent, again)) = sent
<1> DEFINE d == [clients |-> <<>>, decryption |-> "none", encryption |-> "", fallbacks |-> <<>>,
                 selectedAuth |-> "X25519, not Post-Quantum"]
           own == {"clients", "decryption", "encryption", "fallbacks", "selectedAuth"}
           Users(several, s) == Map(several, LAMBDA c : VLESS(c, s))
           Falls(several) == Map(several, Fallback)
           Wrote(several) == Map(several, FallbackJson)
           Sent(o) == Only(o, {"clients", "selectedAuth"}
                              \cup {key \in {"decryption", "encryption"} : o[key] # ""}
                              \cup (IF o.fallbacks = <<>> THEN {} ELSE {"fallbacks"}))
           x == VLESSSettings(json, r)
           u == [x EXCEPT !.fallbacks = Wrote(@)]
           j == VLESSSettingsJson(x)
           y == VLESSSettings(j, again)
           v == [y EXCEPT !.fallbacks = Wrote(@)]
           k == VLESSSettingsJson(y)
<1>1. /\ x = [New(d, json) EXCEPT !.clients = Users(@, r), !.fallbacks = Falls(@)]
      /\ y = [New(d, j) EXCEPT !.clients = Users(@, again), !.fallbacks = Falls(@)]
      /\ j = Sent(u) /\ k = Sent(v)
  BY DEF VLESSSettings, VLESSSettingsJson
<1>2. /\ \A several : Users(Users(several, r), again) = Users(several, r)
      /\ \A several : Wrote(Falls(Wrote(Falls(several)))) = Wrote(Falls(several))
  <2>1. \A several : Users(Users(several, r), again) = Users(several, r)
    BY UsersAgain DEF Map
  <2>2. \A several : Wrote(Falls(Wrote(Falls(several)))) = Wrote(Falls(several))
    BY FallbacksAgain
  <2>3. QED
    BY <2>1, <2>2
<1> HIDE DEF Users, Falls, Wrote, x, j, y, k
<1>3. \A from : /\ New(d, from) = [key \in own |-> New(d, from)[key]]
                /\ \A key \in own : key \in DOMAIN from => New(d, from)[key] = from[key]
                /\ New(d, from).decryption = Or(from, "decryption", "none")
                /\ New(d, from).encryption = Or(from, "encryption", "")
                /\ New(d, from).fallbacks = Or(from, "fallbacks", <<>>)
  BY DEF New, Or
<1> HIDE DEF d
<1>4. /\ u = [key \in own |-> u[key]]
      /\ u.clients = Users(New(d, json).clients, r)
      /\ u.decryption # ""
      /\ u.fallbacks = Wrote(Falls(New(d, json).fallbacks))
  BY <1>1, <1>3
<1>5. /\ v = [key \in own |-> v[key]]
      /\ v.clients = Users(New(d, j).clients, again)
      /\ v.decryption = New(d, j).decryption /\ v.encryption = New(d, j).encryption
      /\ v.selectedAuth = New(d, j).selectedAuth
      /\ v.fallbacks = Wrote(Falls(New(d, j).fallbacks))
  <2> DEFINE n == New(d, j)
  <2>1. n = [key \in own |-> n[key]]
    BY <1>3
  <2>2. y = [n EXCEPT !.clients = Users(@, again), !.fallbacks = Falls(@)]
    BY <1>1
  <2> HIDE DEF n
  <2>3. y = [key \in own |-> CASE key = "clients" -> Users(n.clients, again)
                               [] key = "fallbacks" -> Falls(n.fallbacks)
                               [] OTHER -> n[key]]
    BY <2>1, <2>2
  <2>4. QED
    BY <2>3 DEF n
<1> HIDE DEF u, v
<1>6. /\ DOMAIN j \subseteq own
      /\ {"clients", "selectedAuth", "decryption"} \subseteq DOMAIN j
      /\ "encryption" \in DOMAIN j <=> u.encryption # ""
      /\ "fallbacks" \in DOMAIN j <=> u.fallbacks # <<>>
      /\ \A key \in DOMAIN j : j[key] = u[key]
  BY <1>1, <1>4 DEF Only
<1>7. New(d, j).clients = u.clients /\ New(d, j).decryption = u.decryption
      /\ New(d, j).selectedAuth = u.selectedAuth
  BY <1>3, <1>6
<1>8. New(d, j).encryption = u.encryption /\ New(d, j).fallbacks = u.fallbacks
  BY <1>3, <1>6 DEF Or
<1>9. v.clients = u.clients /\ v.fallbacks = u.fallbacks
  BY <1>2, <1>4, <1>5, <1>7, <1>8
<1>10. v = u
  <2>1. \A key \in own : v[key] = u[key]
    BY <1>5, <1>7, <1>8, <1>9
  <2>2. QED
    BY <1>4, <1>5, <2>1, SameObject
<1>11. k = j
  BY <1>1, <1>10
<1>12. QED
  BY <1>11 DEF k, j, y, x

LEMMA VmessAgain ==
  ASSUME NEW json, NEW r, NEW again
  PROVE  VmessSettings(VmessSettings(json, r), again) = VmessSettings(json, r)
BY UsersAgain DEF VmessSettings, Map

LEMMA TrojanAgain ==
  ASSUME NEW json, NEW r, NEW again
  PROVE  LET sent == TrojanSettingsJson(TrojanSettings(json, r))
         IN  TrojanSettingsJson(TrojanSettings(sent, again)) = sent
<1> DEFINE Users(several, s) == Map(several, LAMBDA c : Trojan(c, s))
           Wrote(several) == Map(Map(several, Fallback), FallbackJson)
           Sent(from, s) == TrojanSettingsJson(TrojanSettings(from, s))
           j == Sent(json, r)
<1>1. \A from, s : Sent(from, s) = [clients   |-> Users(from.clients, s),
                                    fallbacks |-> Wrote(Or(from, "fallbacks", <<>>))]
  <2> TAKE from, s
  <2>1. TrojanSettings(from, s) = [clients   |-> Users(from.clients, s),
                                   fallbacks |-> Map(Or(from, "fallbacks", <<>>), Fallback)]
    BY DEF TrojanSettings
  <2> DEFINE falls == Map(Or(from, "fallbacks", <<>>), Fallback)
             users == Users(from.clients, s)
  <2>2. Sent(from, s) = [[clients |-> users, fallbacks |-> falls] EXCEPT !.fallbacks = Map(@, FallbackJson)]
    BY <2>1 DEF TrojanSettingsJson
  <2> HIDE DEF falls, users
  <2>3. Sent(from, s) = [clients |-> users, fallbacks |-> Map(falls, FallbackJson)]
    BY <2>2
  <2>4. QED
    BY <2>3 DEF falls, users
<1>2. \A several : Users(Users(several, r), again) = Users(several, r)
  BY UsersAgain DEF Map
<1>3. \A several : Wrote(Wrote(several)) = Wrote(several)
  BY FallbacksAgain
<1> HIDE DEF Users, Wrote, Sent
<1>4. Or(j, "fallbacks", <<>>) = Wrote(Or(json, "fallbacks", <<>>)) /\ j.clients = Users(json.clients, r)
  BY <1>1 DEF Or
<1>5. Sent(j, again) = j
  BY <1>1, <1>2, <1>3, <1>4
<1>6. QED
  BY <1>5 DEF Sent

LEMMA ShadowsocksAgain ==
  ASSUME NEW json, NEW r, NEW again
  PROVE  ShadowsocksSettings(ShadowsocksSettings(json, r), again) = ShadowsocksSettings(json, r)
<1> DEFINE d(s) == [method |-> defaultMethod, password |-> randomShadowsocksPassword(defaultMethod, s),
                    network |-> "tcp,udp", clients |-> <<>>, ivCheck |-> FALSE]
           Users(several, s) == Map(several, LAMBDA c : Shadowsocks(c, s))
           own == DOMAIN d(r)
           x == ShadowsocksSettings(json, r)
           n == New(d(r), json)
<1>1. \A from, s : ShadowsocksSettings(from, s) = [New(d(s), from) EXCEPT !.clients = Users(@, s)]
  BY DEF ShadowsocksSettings
<1>2. \A several : Users(Users(several, r), again) = Users(several, r)
  BY UsersAgain DEF Map
<1>3. DOMAIN d(again) = own /\ "clients" \in own
  OBVIOUS
<1> HIDE DEF Users, d
<1>4. n = [key \in own |-> n[key]]
  BY DEF New
<1>5. x = [n EXCEPT !.clients = Users(@, r)]
  BY <1>1
<1> HIDE DEF x, n, own
<1>6. x = [key \in own |-> x[key]] /\ x.clients = Users(n.clients, r)
  BY <1>3, <1>4, <1>5
<1>7. New(d(again), x) = x
  <2>1. New(d(again), x) = [key \in own |-> x[key]]
    BY <1>3, <1>6, NewGiven
  <2>2. QED
    BY <1>6, <2>1
<1>8. [x EXCEPT !.clients = Users(@, again)] = x
  BY <1>2, <1>6
<1>9. QED
  BY <1>1, <1>7, <1>8 DEF x

LEMMA HttpAgain ==
  ASSUME NEW json, NEW r, NEW again
  PROVE  HttpSettings(HttpSettings(json, r), again) = HttpSettings(json, r)
<1> DEFINE d == [accounts |-> <<>>, allowTransparent |-> FALSE]
           Users(several, s) == Map(several, LAMBDA a : Account(a, s))
           x == HttpSettings(json, r)
           n == New(d, json)
<1>1. \A from, s : HttpSettings(from, s) = [New(d, from) EXCEPT !.accounts = Users(@, s)]
  BY DEF HttpSettings
<1>2. \A several : Users(Users(several, r), again) = Users(several, r)
  BY UsersAgain DEF Map
<1>3. "accounts" \in DOMAIN d
  OBVIOUS
<1> HIDE DEF Users, d
<1>4. n = [key \in DOMAIN d |-> n[key]]
  BY DEF New
<1>5. x = [n EXCEPT !.accounts = Users(@, r)]
  BY <1>1
<1> HIDE DEF x, n
<1>6. x = [key \in DOMAIN d |-> x[key]] /\ x.accounts = Users(n.accounts, r)
  BY <1>3, <1>4, <1>5
<1>7. New(d, x) = x
  <2>1. New(d, x) = [key \in DOMAIN d |-> x[key]]
    BY <1>6, NewGiven
  <2>2. QED
    BY <1>6, <2>1
<1>8. [x EXCEPT !.accounts = Users(@, again)] = x
  BY <1>2, <1>6
<1>9. QED
  BY <1>1, <1>7, <1>8 DEF x

\* Accounts are sent, and read, for password authentication only.
LEMMA SocksAgain ==
  ASSUME NEW json, NEW r, NEW again
  PROVE  LET sent == SocksSettingsJson(SocksSettings(json, r))
         IN  SocksSettingsJson(SocksSettings(sent, again)) = sent
<1> DEFINE d == [auth |-> "password", udp |-> FALSE, ip |-> "127.0.0.1"]
           own == {"auth", "udp", "ip"}
           Users(several, s) == Map(several, LAMBDA a : Account(a, s))
           Read(from) == IF Or(from, "auth", "") = "password" THEN from.accounts ELSE <<NoJson>>
           Sent(o) == Only(o, own \cup (IF o.auth = "password" THEN {"accounts"} ELSE {}))
           x == SocksSettings(json, r)
           j == SocksSettingsJson(x)
           y == SocksSettings(j, again)
           k == SocksSettingsJson(y)
<1>1. /\ x = With(New(d, json), [accounts |-> Users(Read(json), r)])
      /\ y = With(New(d, j), [accounts |-> Users(Read(j), again)])
      /\ j = Sent(x) /\ k = Sent(y)
  BY DEF SocksSettings, SocksSettingsJson
<1>2. \A several : Users(Users(several, r), again) = Users(several, r)
  BY UsersAgain DEF Map
<1>3. DOMAIN d = own
  OBVIOUS
<1> HIDE DEF d, Users, Read, x, j, y, k
<1>4. x = [key \in own \cup {"accounts"} |-> x[key]] /\ x.accounts = Users(Read(json), r)
  BY <1>1, <1>3 DEF With, New
<1>5. /\ DOMAIN j = own \cup (IF x.auth = "password" THEN {"accounts"} ELSE {})
      /\ \A key \in DOMAIN j : j[key] = x[key]
  BY <1>1, <1>4 DEF Only
<1>6. New(d, j) = [key \in own |-> x[key]]
  <2>1. New(d, j) = [key \in own |-> j[key]]
    BY <1>3, <1>5, NewGiven
  <2>2. QED
    BY <1>5, <2>1
<1>7. /\ y = [key \in own \cup {"accounts"} |-> y[key]] /\ y.accounts = Users(Read(j), again)
      /\ \A key \in own : y[key] = x[key]
  BY <1>1, <1>6 DEF With
<1>8. CASE x.auth = "password"
  <2>1. Read(j) = x.accounts
    BY <1>5, <1>8 DEF Read, Or
  <2>2. y.accounts = x.accounts
    BY <1>2, <1>4, <1>7, <2>1
  <2>3. \A key \in own \cup {"accounts"} : y[key] = x[key]
    BY <1>7, <2>2
  <2>4. y = x
    BY <1>4, <1>7, <2>3, SameObject
  <2>5. QED
    BY <1>1, <2>4 DEF k, y, j, x
<1>9. CASE x.auth # "password"
  <2>1. j = [key \in own |-> x[key]]
    BY <1>1, <1>4, <1>9 DEF Only
  <2>2. k = [key \in own |-> y[key]]
    BY <1>1, <1>7, <1>9 DEF Only
  <2>3. k = j
    BY <1>7, <2>1, <2>2
  <2>4. QED
    BY <2>3 DEF k, y, j, x
<1>10. QED
  BY <1>8, <1>9

\* The public key of the server is not posted: it follows from the secret one.
LEMMA WireguardAgain ==
  ASSUME NEW json, NEW r, NEW again
  PROVE  LET sent == WireguardSettingsJson(WireguardSettings(json, r))
         IN  WireguardSettingsJson(WireguardSettings(sent, again)) = sent
<1> DEFINE d(s) == [mtu |-> 1420, secretKey |-> <<s>>, peers |-> <<>>, noKernelTun |-> FALSE]
           own == {"mtu", "secretKey", "peers", "noKernelTun"}
           Peers(several, s) == Map(several, LAMBDA p : Peer(p, s))
           Wrote(several) == Map(several, PeerJson)
           Public(key) == [pubKey |-> IF key = <<>> THEN <<>> ELSE PublicOf(key)]
           Sent(from, s) == WireguardSettingsJson(WireguardSettings(from, s))
           n == New(d(r), json)
           j == Sent(json, r)
           m == New(d(again), j)
           k == Sent(j, again)
           Filled(o, several) == [key \in own |-> IF key = "peers" THEN several ELSE o[key]]
<1>1. \A from, s : WireguardSettings(from, s)
                     = With([New(d(s), from) EXCEPT !.peers = Peers(@, s)], Public(New(d(s), from).secretKey))
  BY DEF WireguardSettings
<1>2. \A several : Wrote(Peers(Wrote(Peers(several, r)), again)) = Wrote(Peers(several, r))
  BY PeerAgain DEF Map
<1>3. DOMAIN d(r) = own /\ DOMAIN d(again) = own
  OBVIOUS
<1> HIDE DEF Peers, Public, Wrote, d
<1>4. \A o, s, key : o = [keys \in own |-> o[keys]] =>
        WireguardSettingsJson(With([o EXCEPT !.peers = Peers(@, s)], Public(key))) = Filled(o, Wrote(Peers(o.peers, s)))
  <2> SUFFICES ASSUME NEW o, NEW s, NEW key, o = [keys \in own |-> o[keys]]
               PROVE  WireguardSettingsJson(With([o EXCEPT !.peers = Peers(@, s)], Public(key)))
                        = Filled(o, Wrote(Peers(o.peers, s)))
    OBVIOUS
  <2> DEFINE w == [o EXCEPT !.peers = Peers(@, s)]
             z == With(w, Public(key))
  <2>1. w = [keys \in own |-> IF keys = "peers" THEN Peers(o.peers, s) ELSE o[keys]]
    OBVIOUS
  <2>2. DOMAIN Public(key) = {"pubKey"}
    BY DEF Public
  <2> HIDE DEF w
  <2>3. /\ DOMAIN z = own \cup {"pubKey"}
        /\ \A keys \in own : z[keys] = w[keys]
    BY <2>1, <2>2 DEF With
  <2> HIDE DEF z
  <2>4. WireguardSettingsJson(z) = [keys \in DOMAIN z \ {"pubKey"} |->
                                       IF keys = "peers" THEN Wrote(z.peers) ELSE z[keys]]
    BY DEF WireguardSettingsJson, Wrote
  <2>5. DOMAIN z \ {"pubKey"} = own
    BY <2>3
  <2>6. WireguardSettingsJson(z) = Filled(o, Wrote(Peers(o.peers, s)))
    BY <2>1, <2>3, <2>4, <2>5
  <2>7. QED
    BY <2>6 DEF z, w
<1>5. n = [key \in own |-> n[key]] /\ m = [key \in own |-> m[key]]
  BY <1>3 DEF New
<1>6. j = Filled(n, Wrote(Peers(n.peers, r)))
  <2> DEFINE z == With([n EXCEPT !.peers = Peers(@, r)], Public(n.secretKey))
  <2>1. n = [key \in own |-> n[key]]
    BY <1>5
  <2> HIDE DEF n, Filled
  <2>2. WireguardSettingsJson(z) = Filled(n, Wrote(Peers(n.peers, r)))
    BY <1>4, <2>1
  <2>3. WireguardSettings(json, r) = z
    BY <1>1 DEF n
  <2>4. QED
    BY <2>2, <2>3 DEF j
<1>7. k = Filled(m, Wrote(Peers(m.peers, again)))
  <2> DEFINE z == With([m EXCEPT !.peers = Peers(@, again)], Public(m.secretKey))
  <2>1. m = [key \in own |-> m[key]]
    BY <1>5
  <2> HIDE DEF m, Filled
  <2>2. WireguardSettingsJson(z) = Filled(m, Wrote(Peers(m.peers, again)))
    BY <1>4, <2>1
  <2>3. WireguardSettings(j, again) = z
    BY <1>1 DEF m
  <2>4. QED
    BY <2>2, <2>3 DEF k
<1> HIDE DEF n, j, k
<1>8. m = [key \in own |-> j[key]]
  BY <1>3, <1>6, NewGiven
<1> HIDE DEF m
<1>9. Wrote(Peers(m.peers, again)) = j.peers
  BY <1>2, <1>6, <1>8
<1>10. k = j
  BY <1>6, <1>7, <1>8, <1>9
<1>11. QED
  BY <1>10 DEF k, j

\* The protocols whose settings keep no headers.
Headerless == {"vmess", "vless", "trojan", "shadowsocks", "socks", "http", "wireguard"}

\* A VLESS decryption is never stored as the empty text, which toJson leaves out.
Decrypts(protocol, settings) == protocol = "vless" => Or(settings, "decryption", "none") # ""

LEMMA SettingsAgain ==
  ASSUME NEW protocol \in Headerless, NEW json, Decrypts(protocol, json), NEW r, NEW again
  PROVE  LET posts == SettingsJson(protocol, Settings(protocol, json, r))
         IN  SettingsJson(protocol, Settings(protocol, posts, again)) = posts
<1> USE DEF Settings, SettingsJson
<1>1. CASE protocol = "vmess"
  BY <1>1, VmessAgain
<1>2. CASE protocol = "vless"
  BY <1>2, VlessAgain DEF Decrypts
<1>3. CASE protocol = "trojan"
  BY <1>3, TrojanAgain
<1>4. CASE protocol = "shadowsocks"
  BY <1>4, ShadowsocksAgain
<1>5. CASE protocol = "socks"
  BY <1>5, SocksAgain
<1>6. CASE protocol = "http"
  BY <1>6, HttpAgain
<1>7. CASE protocol = "wireguard"
  BY <1>7, WireguardAgain
<1>8. QED
  BY <1>1, <1>2, <1>3, <1>4, <1>5, <1>6, <1>7 DEF Headerless

\* Opening an inbound in the form and saving it, twice, posts the same settings the
\* second time as the first, whatever the row was: no id, password, account, key or
\* peer is drawn again, none is dropped, and what toJson leaves out is what fromJson
\* puts back.  (A VLESS decryption that is the empty text is posted as "none" the
\* second time; the settings of a tunnel keep headers.)
THEOREM SettingsReopen ==
  ASSUME NEW row, row.protocol \in Headerless, Decrypts(row.protocol, row.settings)
  PROVE  LET once  == Posted(toInbound(row))
             again == Posted(InboundFromJson(InboundJson(toInbound(row)), "twice"))
         IN  \A key \in {"settings", "sniffing", "protocol", "listen", "port"} : once[key] = again[key]
<1> DEFINE inbound == toInbound(row)
           json    == InboundJson(inbound)
           twice   == InboundFromJson(json, "twice")
           plain   == {"settings", "sniffing", "protocol", "listen", "port"}
<1>1. \A from, r : LET read == InboundFromJson(from, r)
                   IN  /\ read.settings = Settings(from.protocol, from.settings, r)
                       /\ read.sniffing = Sniffing(from.sniffing)
                       /\ read.protocol = from.protocol
                       /\ read.listen = Or(from, "listen", "") /\ read.port = from.port
  BY DEF InboundFromJson
<1>2. \A from : LET wrote == InboundJson(from)
                IN  /\ wrote.settings = SettingsJson(from.protocol, from.settings)
                    /\ wrote.sniffing = from.sniffing
                    /\ wrote.protocol = from.protocol
                    /\ "listen" \in DOMAIN wrote /\ wrote.listen = from.listen /\ wrote.port = from.port
                    /\ plain \subseteq DOMAIN wrote
  BY DEF InboundJson
<1>3. \A from : \A key \in plain : Posted(from)[key] = InboundJson(from)[key]
  <2> TAKE from
  <2> DEFINE wrote == InboundJson(from)
  <2>1. plain \subseteq DOMAIN wrote
    BY <1>2
  <2>2. Posted(from) = [wrote EXCEPT !.streamSettings = IF canEnableStream(from) THEN @ ELSE Only(@, {"sockopt"})]
    BY DEF Posted
  <2> HIDE DEF wrote
  <2>3. QED
    BY <2>1, <2>2 DEF wrote
<1>4. /\ inbound.settings = Settings(row.protocol, row.settings, "again")
      /\ inbound.protocol = row.protocol /\ inbound.sniffing = Sniffing(row.sniffing)
  BY <1>1 DEF toInbound
<1> HIDE DEF inbound
<1>5. /\ json.settings = SettingsJson(row.protocol, inbound.settings)
      /\ json.protocol = row.protocol /\ json.sniffing = Sniffing(row.sniffing)
      /\ "listen" \in DOMAIN json /\ json.listen = inbound.listen /\ json.port = inbound.port
  BY <1>2, <1>4
<1> HIDE DEF json
<1>6. /\ twice.settings = Settings(row.protocol, json.settings, "twice")
      /\ twice.protocol = row.protocol /\ twice.sniffing = Sniffing(json.sniffing)
      /\ twice.listen = json.listen /\ twice.port = json.port
  BY <1>1, <1>5 DEF Or
<1> HIDE DEF twice
<1>7. SettingsJson(row.protocol, twice.settings) = json.settings
  <2>1. json.settings = SettingsJson(row.protocol, Settings(row.protocol, row.settings, "again"))
    BY <1>4, <1>5
  <2>2. SettingsJson(row.protocol, Settings(row.protocol, SettingsJson(row.protocol,
          Settings(row.protocol, row.settings, "again")), "twice"))
              = SettingsJson(row.protocol, Settings(row.protocol, row.settings, "again"))
    BY SettingsAgain
  <2>3. QED
    BY <1>6, <2>1, <2>2
<1>8. twice.sniffing = json.sniffing
  BY <1>5, <1>6, SniffingAgain
<1>9. \A key \in plain : InboundJson(twice)[key] = json[key]
  BY <1>2, <1>5, <1>6, <1>7, <1>8
<1>10. \A key \in plain : Posted(twice)[key] = Posted(inbound)[key]
  BY <1>3, <1>9 DEF json
<1>11. QED
  BY <1>10 DEF twice, json, inbound

\* Opening an inbound in the form and saving it gives back the TLS, Reality, kcp,
\* grpc and socket settings and the sniffing that the form held: no certificate
\* turns from files to lines, no short id or seed is drawn again, and no sockopt
\* appears where there was none.
THEOREM StreamPartsReopen ==
  ASSUME NEW json, NEW r, NEW again
  PROVE  /\ TlsStreamSettings(TlsStreamSettingsJson(TlsStreamSettings(json))) = TlsStreamSettings(json)
         /\ RealityStreamSettings(RealityStreamSettings(json, r), again) = RealityStreamSettings(json, r)
         /\ KcpStreamSettings(KcpStreamSettingsJson(KcpStreamSettings(json, r)), again)
              = KcpStreamSettings(json, r)
         /\ GrpcStreamSettings(GrpcStreamSettings(json)) = GrpcStreamSettings(json)
         /\ SockoptStreamSettings(SockoptStreamSettings(json)) = SockoptStreamSettings(json)
         /\ Sniffing(Sniffing(json)) = Sniffing(json)
<1>1. GrpcStreamSettings(GrpcStreamSettings(json)) = GrpcStreamSettings(json)
  BY NewAgain DEF GrpcStreamSettings
<1>2. QED
  BY <1>1, TlsAgain, RealityAgain, KcpAgain, SockoptAgain, SniffingAgain

(*------------------------------ the outbounds ---------------------------*)
\* The tag of an outbound that OutboundJson writes is the form's.
LEMMA TagWritten ==
  ASSUME NEW out, "tag" \in DOMAIN out, out.tag # EmptyText
  PROVE  /\ TagOf(O!OutboundJson(out)) = out.tag
         /\ "protocol" \in DOMAIN O!OutboundJson(out)
         /\ O!OutboundJson(out).protocol = out.protocol
<1> DEFINE kept == O!NotEmpty({"sendThrough"}, out)
                   \cup (IF out.tag = EmptyText THEN {} ELSE {"tag"})
                   \cup (IF out.mux.enabled THEN {"mux"} ELSE {})
           strm == IF O!canEnableStream(out) THEN O!StreamSettingsJson(out.stream)
                   ELSE Only(out.stream, IF out.stream.sockopt = NoJson THEN {} ELSE {"sockopt"})
           base == [protocol |-> out.protocol,
                    settings |-> O!SettingsJson(out.protocol, out.settings)]
           own  == Only(out, kept)
           more == Given(strm # NoJson, [streamSettings |-> strm])
<1>1. O!OutboundJson(out) = With(With(base, own), more)
  BY DEF O!OutboundJson, Only, With, Given, NoJson, O!Only, O!With, O!Given, O!NoJson, O!EmptyText, EmptyText
<1>2. "tag" \in DOMAIN own /\ own.tag = out.tag
  BY DEF Only
<1>n. "protocol" \notin kept
  BY DEF O!NotEmpty
<1>3. "tag" \notin DOMAIN more /\ "protocol" \notin DOMAIN more /\ "protocol" \notin DOMAIN own
  BY <1>n DEF Given, NoJson, Only
<1>4. "protocol" \in DOMAIN base /\ base.protocol = out.protocol
  OBVIOUS
<1> HIDE DEF own, more, base
<1>5. /\ "tag" \in DOMAIN With(base, own) /\ With(base, own).tag = out.tag
      /\ "protocol" \in DOMAIN With(base, own) /\ With(base, own).protocol = out.protocol
  BY <1>2, <1>3, <1>4 DEF With
<1>6. /\ "tag" \in DOMAIN With(With(base, own), more)
      /\ With(With(base, own), more).tag = With(base, own).tag
      /\ "protocol" \in DOMAIN With(With(base, own), more)
      /\ With(With(base, own), more).protocol = With(base, own).protocol
  BY <1>3, <1>5 DEF With
<1>7. QED
  BY <1>1, <1>5, <1>6 DEF TagOf, Or

\* What the form holds has a tag, and a protocol that was named.
Shown(out) == {"tag", "protocol"} \subseteq DOMAIN out /\ out.protocol \in NamedProtocols

LEMMA TagDrawn ==
  ASSUME NEW out, Shown(out)
  PROVE  Shown(Drawn(out)) /\ Drawn(out).tag = out.tag
BY DEF Drawn, O!canEnableMux, Shown

LEMMA TagNew ==
  ASSUME NEW tag, NEW protocol \in NamedProtocols, NEW settings, NEW strm
  PROVE  /\ Shown(O!NewOutbound(tag, protocol, settings, strm))
         /\ Shown(Of!Out!NewOutbound(tag, protocol, settings, strm))
BY DEF O!NewOutbound, Of!Out!NewOutbound, Shown

LEMMA TagRead ==
  ASSUME NEW json, Or(json, "protocol", "vless") \in NamedProtocols
  PROVE  Shown(O!OutboundFromJson(json))
BY DEF O!OutboundFromJson, Shown, O!Or, Or

LEMMA TagImported ==
  ASSUME NEW link \in LinksIn
  PROVE  Shown(Of!fromLink(link))
<1>1. (IF link.scheme = "ss" THEN "shadowsocks" ELSE link.scheme) \in NamedProtocols
  BY DEF NamedProtocols
<1>2. QED
  BY <1>1, TagNew DEF Of!fromLink, Of!fromVmessLink, Of!fromParamLink

\* Tags are unique as OutTagsUnique says, in a list whose entries say what they are.
Unique(seq) ==
    \A i, j \in DOMAIN seq :
        i # j /\ TagOf(seq[i]) = TagOf(seq[j])
        => TagOf(seq[i]) = direct /\ seq[i].protocol # seq[j].protocol
InOrder(seq) ==
    /\ IsList(seq) /\ Unique(seq)
    /\ \A i \in DOMAIN seq : "protocol" \in DOMAIN seq[i] /\ seq[i].protocol \in NamedProtocols

\* The form knows the tags of all outbounds but the one it edits.
FormInv ==
    /\ {"outbound", "index", "tags"} \subseteq DOMAIN outModal
    /\ outVisible =>
         /\ Shown(outModal.outbound)
         /\ outModal.index \in 0 .. Len(outbounds)
         /\ outModal.tags = {TagOf(outbounds[i]) : i \in DOMAIN outbounds \ {outModal.index}}

TagsInv == InOrder(outbounds) /\ FormInv

\* Some of the entries, each once, in whatever order.
LEMMA SomeInOrder ==
  ASSUME NEW seq, InOrder(seq), NEW some, IsList(some),
         NEW from \in [DOMAIN some -> DOMAIN seq],
         \A i, j \in DOMAIN some : i # j => from[i] # from[j],
         \A i \in DOMAIN some : some[i] = seq[from[i]]
  PROVE  InOrder(some)
<1>1. Unique(some)
  BY DEF InOrder, Unique
<1>2. QED
  BY <1>1 DEF InOrder

LEMMA AppendedInOrder ==
  ASSUME NEW seq, InOrder(seq), NEW x, "protocol" \in DOMAIN x, x.protocol \in NamedProtocols,
         \A i \in DOMAIN seq : TagOf(seq[i]) = TagOf(x) =>
           TagOf(x) = direct /\ seq[i].protocol # x.protocol
  PROVE  InOrder(Append(seq, x))
<1> DEFINE new == Append(seq, x)
<1>1. /\ IsList(new) /\ Len(seq) \in Nat /\ DOMAIN seq = 1 .. Len(seq)
      /\ DOMAIN new = 1 .. Len(seq) + 1
      /\ \A i \in DOMAIN seq : new[i] = seq[i]
      /\ new[Len(seq) + 1] = x
  BY Appended, Listed DEF InOrder
<1> HIDE DEF new
<1>2. \A i \in DOMAIN new : i \in DOMAIN seq \/ i = Len(seq) + 1
  BY <1>1
<1>3. Unique(new)
  BY <1>1, <1>2 DEF Unique, InOrder
<1>4. QED
  BY <1>1, <1>2, <1>3 DEF InOrder, new

LEMMA ReplacedInOrder ==
  ASSUME NEW seq, InOrder(seq), NEW index \in DOMAIN seq, NEW x, "protocol" \in DOMAIN x, x.protocol \in NamedProtocols,
         \/ \A i \in DOMAIN seq \ {index} : TagOf(seq[i]) # TagOf(x)
         \/ TagOf(x) = TagOf(seq[index]) /\ x.protocol = seq[index].protocol
  PROVE  InOrder([seq EXCEPT ![index] = x])
<1> DEFINE new == [seq EXCEPT ![index] = x]
<1>1. /\ IsList(new) /\ DOMAIN new = DOMAIN seq
      /\ \A i \in DOMAIN seq : new[i] = IF i = index THEN x ELSE seq[i]
  BY Replaced DEF InOrder
<1> HIDE DEF new
<1>2. Unique(new)
  BY <1>1 DEF Unique, InOrder
<1>3. QED
  BY <1>1, <1>2 DEF InOrder, new

\* An outbound is taken away.
LEMMA WithoutInOrder ==
  ASSUME NEW seq, InOrder(seq), NEW index \in DOMAIN seq
  PROVE  InOrder(Without(seq, index))
<1> DEFINE new == Without(seq, index)
           from == [i \in DOMAIN new |-> IF i < index THEN i ELSE i + 1]
<1>1. /\ IsList(new) /\ DOMAIN new = 1 .. Len(seq) - 1
      /\ Len(seq) \in Nat /\ DOMAIN seq = 1 .. Len(seq)
      /\ \A i \in 1 .. Len(seq) - 1 : new[i] = IF i < index THEN seq[i] ELSE seq[i + 1]
  BY Shortened, Listed DEF InOrder
<1> HIDE DEF new
<1>2. /\ from \in [DOMAIN new -> DOMAIN seq]
      /\ \A i, j \in DOMAIN new : i # j => from[i] # from[j]
      /\ \A i \in DOMAIN new : new[i] = seq[from[i]]
  BY <1>1
<1>3. IsList(new)
  BY <1>1
<1> HIDE DEF from
<1>4. InOrder(new)
  BY <1>2, <1>3, SomeInOrder
<1>5. QED
  BY <1>4 DEF new

\* An outbound is moved to the front.
LEMMA FirstInOrder ==
  ASSUME NEW seq, InOrder(seq), NEW index \in DOMAIN seq
  PROVE  InOrder(<<seq[index]>> \o Without(seq, index))
<1> DEFINE rest == Without(seq, index)  one == <<seq[index]>>  new == one \o rest
           from == [i \in DOMAIN new |-> IF i = 1 THEN index ELSE IF i <= index THEN i - 1 ELSE i]
<1>1. /\ IsList(rest) /\ Len(rest) = Len(seq) - 1
      /\ Len(seq) \in Nat /\ DOMAIN seq = 1 .. Len(seq)
      /\ \A i \in 1 .. Len(seq) - 1 : rest[i] = IF i < index THEN seq[i] ELSE seq[i + 1]
  BY Shortened, Listed DEF InOrder
<1> DEFINE S == Entries(rest) \cup {seq[index]}
<1>2. rest \in Seq(S) /\ one \in Seq(S)
  BY <1>1, SeqMonotonic DEF IsList
<1>3. Len(one) = 1 /\ one[1] = seq[index]
  OBVIOUS
<1> HIDE DEF rest, one, S
<1>4. /\ new \in Seq(S) /\ Len(new) = Len(seq)
      /\ \A i \in 1 .. Len(seq) : new[i] = IF i <= 1 THEN one[i] ELSE rest[i - 1]
  <2>1. /\ new \in Seq(S) /\ Len(new) = Len(one) + Len(rest)
        /\ \A i \in 1 .. Len(one) + Len(rest) :
             new[i] = IF i <= Len(one) THEN one[i] ELSE rest[i - Len(one)]
    BY <1>2, ConcatProperties
  <2> HIDE DEF new
  <2>2. Len(one) + Len(rest) = Len(seq)
    BY <1>1, <1>3
  <2>3. QED
    BY <1>3, <2>1, <2>2
<1> HIDE DEF new
<1>5. IsList(new) /\ DOMAIN new = 1 .. Len(seq)
  BY <1>4, ListOf
<1>6. \A i \in DOMAIN new : new[i] = seq[from[i]]
  <2> TAKE i \in DOMAIN new
  <2>1. CASE i = 1
    BY <1>1, <1>3, <1>4, <1>5, <2>1
  <2>2. CASE i # 1
    <3>1. i - 1 \in 1 .. Len(seq) - 1 /\ new[i] = rest[i - 1]
      BY <1>1, <1>4, <1>5, <2>2
    <3>2. rest[i - 1] = IF i - 1 < index THEN seq[i - 1] ELSE seq[i]
      <4>1. (i - 1) + 1 = i
        BY <1>1, <1>5
      <4>2. QED
        BY <1>1, <3>1, <4>1
    <3>3. from[i] = IF i - 1 < index THEN i - 1 ELSE i
      BY <1>1, <1>5, <2>2
    <3>4. QED
      BY <3>1, <3>2, <3>3
  <2>3. QED
    BY <2>1, <2>2
<1>7. /\ from \in [DOMAIN new -> DOMAIN seq]
      /\ \A i, j \in DOMAIN new : i # j => from[i] # from[j]
  BY <1>1, <1>5
<1>8. IsList(new)
  BY <1>5
<1> HIDE DEF from
<1>9. InOrder(new)
  BY <1>6, <1>7, <1>8, SomeInOrder
<1>10. QED
  BY <1>9 DEF new, one, rest

\* The outbounds from some place on are taken away.
LEMMA CutInOrder ==
  ASSUME NEW seq, InOrder(seq), NEW n \in 0 .. Len(seq)
  PROVE  InOrder(SubSeq(seq, 1, n))
<1> DEFINE new == SubSeq(seq, 1, n)  from == [i \in DOMAIN new |-> i]
<1>1. /\ IsList(new) /\ DOMAIN new = 1 .. n /\ \A i \in 1 .. n : new[i] = seq[i]
      /\ Len(seq) \in Nat /\ DOMAIN seq = 1 .. Len(seq)
  BY CutOff, Listed DEF InOrder
<1> HIDE DEF new
<1>2. /\ from \in [DOMAIN new -> DOMAIN seq]
      /\ \A i, j \in DOMAIN new : i # j => from[i] # from[j]
      /\ \A i \in DOMAIN new : new[i] = seq[from[i]]
  BY <1>1
<1>3. IsList(new)
  BY <1>1
<1> HIDE DEF from
<1>4. InOrder(new)
  BY <1>2, <1>3, SomeInOrder
<1>5. QED
  BY <1>4 DEF new

(*------------------------- steps on the outbounds -----------------------*)
LEMMA ShowTags ==
  ASSUME TagsInv, NEW out, Shown(out), NEW index \in 0 .. Len(outbounds),
         showOutbound(out, index)
  PROVE  TagsInv'
<1>1. /\ outbounds' = outbounds
      /\ outModal' = [outbound |-> Drawn(out), index |-> index,
                      tags |-> {TagOf(outbounds[i]) : i \in DOMAIN outbounds \ {index}}]
  BY DEF showOutbound, template
<1>2. FormInv'
  BY <1>1, TagDrawn DEF FormInv
<1>3. QED
  BY <1>1, <1>2 DEF TagsInv, InOrder, Unique, IsList, Entries, TagOf

LEMMA AlterTags ==
  ASSUME TagsInv, NEW out,
         outVisible /\ Shown(outModal.outbound) => Shown(out),
         Alter(out)
  PROVE  TagsInv'
<1>1. /\ outbounds' = outbounds /\ outVisible /\ outVisible' = outVisible
      /\ outModal' = [outModal EXCEPT !.outbound = Drawn(out)]
  BY DEF Alter, template
<1>2. Shown(Drawn(out))
  BY <1>1, TagDrawn DEF TagsInv, FormInv
<1>3. /\ DOMAIN outModal' = DOMAIN outModal /\ outModal'.outbound = Drawn(out)
      /\ outModal'.index = outModal.index /\ outModal'.tags = outModal.tags
  BY <1>1 DEF TagsInv, FormInv
<1>4. FormInv'
  BY <1>1, <1>2, <1>3 DEF TagsInv, FormInv
<1>5. QED
  BY <1>1, <1>4 DEF TagsInv, InOrder, Unique, IsList, Entries, TagOf

\* Every change made in the form.
LEMMA EditTags ==
  ASSUME TagsInv,
         \/ \E tag \in Tags : ChooseOutTag(tag)
         \/ \E name \in OutProtocols : ChooseOutProtocol(name)
         \/ \E network \in OutNetworks : streamNetworkChanged(network)
         \/ \E security \in {"none", "tls", "reality"} : ChooseOutSecurity(security)
         \/ SwitchMux
         \/ \E json \in Pasted : Paste(json)
         \/ \E link \in LinksIn : convertLink(link)
  PROVE  TagsInv'
<1> DEFINE held == outModal.outbound
<1>1. CASE \E tag \in Tags : ChooseOutTag(tag)
  <2>1. PICK tag \in Tags : Alter([held EXCEPT !.tag = tag])
    BY <1>1 DEF ChooseOutTag
  <2>2. QED
    BY <2>1, AlterTags DEF Shown
<1>2. CASE \E name \in OutProtocols : ChooseOutProtocol(name)
  <2>1. PICK name \in OutProtocols : Alter(O!SetProtocol(held, name))
    BY <1>2 DEF ChooseOutProtocol
  <2>2. Shown(held) => Shown(O!SetProtocol(held, name))
    BY DEF O!SetProtocol, Shown, NamedProtocols
  <2>3. QED
    BY <2>1, <2>2, AlterTags
<1>3. CASE \E network \in OutNetworks : streamNetworkChanged(network)
  <2>1. PICK network \in OutNetworks : streamNetworkChanged(network)
    BY <1>3
  <2> DEFINE chosen == [held EXCEPT !.stream.network = network]
             plain  == [chosen EXCEPT !.settings = Only(@, DOMAIN @ \ {"flow"})]
             keeps  == chosen.protocol = "vless" /\ ~O!canEnableTlsFlow(chosen)
  <2>2. Alter(IF keeps THEN plain ELSE chosen)
    BY <2>1 DEF streamNetworkChanged
  <2>3. Shown(held) => Shown(chosen) /\ Shown(plain)
    BY DEF Shown
  <2> HIDE DEF plain, chosen, keeps
  <2>4. QED
    BY <2>2, <2>3, AlterTags
<1>4. CASE \E security \in {"none", "tls", "reality"} : ChooseOutSecurity(security)
  <2>1. PICK security : Alter([held EXCEPT !.stream.security = security])
    BY <1>4 DEF ChooseOutSecurity
  <2>2. QED
    BY <2>1, AlterTags DEF Shown
<1>5. CASE SwitchMux
  <2>1. PICK mux : Alter([held EXCEPT !.mux = mux])
    BY <1>5 DEF SwitchMux
  <2>2. QED
    BY <2>1, AlterTags DEF Shown
<1>6. CASE \E json \in Pasted : Paste(json)
  BY <1>6, TagRead, AlterTags DEF Paste, NamedProtocols
<1>7. CASE \E link \in LinksIn : convertLink(link)
  BY <1>7, TagImported, AlterTags DEF convertLink
<1>8. QED
  BY <1>1, <1>2, <1>3, <1>4, <1>5, <1>6, <1>7

\* OK: the tag is no other outbound's.
LEMMA SaveTags == ASSUME TagsInv, okOutbound PROVE TagsInv'
<1> DEFINE json == O!OutboundJson(outModal.outbound)
<1>1. /\ outVisible /\ ~outVisible' /\ outModal' = outModal
      /\ outModal.outbound.tag # EmptyText /\ outModal.outbound.tag \notin outModal.tags
      /\ outbounds' = IF outModal.index = 0 THEN Append(outbounds, json)
                      ELSE [outbounds EXCEPT ![outModal.index] = json]
  BY DEF okOutbound, isValid
<1>2. TagOf(json) = outModal.outbound.tag /\ "protocol" \in DOMAIN json /\ json.protocol \in NamedProtocols
  BY <1>1, TagWritten DEF TagsInv, FormInv, Shown
<1> HIDE DEF json
<1>3. /\ Len(outbounds) \in Nat /\ DOMAIN outbounds = 1 .. Len(outbounds)
      /\ outModal.index \in 0 .. Len(outbounds)
      /\ \A i \in DOMAIN outbounds \ {outModal.index} : TagOf(outbounds[i]) # TagOf(json)
  BY <1>1, <1>2, Listed DEF TagsInv, FormInv, InOrder
<1>4. CASE outModal.index = 0
  <2>1. \A i \in DOMAIN outbounds : TagOf(outbounds[i]) # TagOf(json)
    BY <1>3, <1>4
  <2>2. InOrder(Append(outbounds, json))
    BY <1>2, <2>1, AppendedInOrder DEF TagsInv
  <2>3. QED
    BY <1>1, <1>4, <2>2 DEF TagsInv, FormInv, InOrder, Unique, IsList, Entries, TagOf
<1>5. CASE outModal.index # 0
  <2>1. outModal.index \in DOMAIN outbounds
    BY <1>3, <1>5
  <2>2. InOrder([outbounds EXCEPT ![outModal.index] = json])
    BY <1>2, <1>3, <2>1, ReplacedInOrder DEF TagsInv
  <2>3. QED
    BY <1>1, <1>5, <2>2 DEF TagsInv, FormInv, InOrder, Unique, IsList, Entries, TagOf
<1>6. QED
  BY <1>4, <1>5

\* What is done with the form closed.
LEMMA ClosedTags ==
  ASSUME TagsInv, ~outVisible, UNCHANGED outModalVars, InOrder(outbounds)' PROVE TagsInv'
BY DEF TagsInv, FormInv, outModalVars

\* Deleting an outbound and moving one to the front.
LEMMA MoveTags ==
  ASSUME TagsInv, NEW index \in DOMAIN outbounds, deleteOutbound(index) \/ setFirstOutbound(index)
  PROVE  TagsInv'
<1>1. ~outVisible /\ UNCHANGED outModalVars
  BY DEF deleteOutbound, setFirstOutbound, OnPage
<1>2. \/ outbounds' = Without(outbounds, index)
      \/ outbounds' = <<outbounds[index]>> \o Without(outbounds, index)
  BY DEF deleteOutbound, setFirstOutbound
<1>3. InOrder(Without(outbounds, index)) /\ InOrder(<<outbounds[index]>> \o Without(outbounds, index))
  BY WithoutInOrder, FirstInOrder DEF TagsInv
<1>4. QED
  BY <1>1, <1>2, <1>3, ClosedTags DEF InOrder, Unique, IsList, Entries, TagOf

\* The strategy of "direct": there is none of protocol freedom when one is added.
LEMMA FreedomTags ==
  ASSUME TagsInv, NEW strategy, setFreedomStrategy(strategy) PROVE TagsInv'
<1> DEFINE free == {i \in DOMAIN outbounds : outbounds[i].protocol = "freedom" /\ TagOf(outbounds[i]) = direct}
           added == [protocol |-> "freedom", tag |-> direct, settings |-> [domainStrategy |-> strategy]]
           old   == outbounds[FirstOf(free)]
           more  == [settings |-> With(Or(old, "settings", NoJson), [domainStrategy |-> strategy])]
<1>1. /\ ~outVisible /\ UNCHANGED outModalVars
      /\ outbounds' = IF free = {} THEN Append(outbounds, added)
                      ELSE [outbounds EXCEPT ![FirstOf(free)] = With(old, more)]
  BY DEF setFreedomStrategy, OnPage
<1>2. InOrder(outbounds) /\ free \in SUBSET Nat
  BY Listed DEF TagsInv, InOrder
<1>3. CASE free = {}
  <2>1. /\ "protocol" \in DOMAIN added /\ TagOf(added) = direct
        /\ added.protocol = "freedom" /\ added.protocol \in NamedProtocols
    BY DEF TagOf, Or, NamedProtocols
  <2> HIDE DEF added
  <2>2. \A i \in DOMAIN outbounds : TagOf(outbounds[i]) = TagOf(added) =>
          TagOf(added) = direct /\ outbounds[i].protocol # added.protocol
    BY <1>3, <2>1
  <2>3. InOrder(Append(outbounds, added))
    BY <1>2, <2>1, <2>2, AppendedInOrder
  <2>4. QED
    BY <1>1, <1>3, <2>3, ClosedTags DEF InOrder, Unique, IsList, Entries, TagOf
<1>4. CASE free # {}
  <2>1. FirstOf(free) \in DOMAIN outbounds
    BY <1>2, <1>4, Least
  <2>2. "protocol" \in DOMAIN old /\ old.protocol \in NamedProtocols
    BY <1>2, <2>1 DEF InOrder
  <2>3. "tag" \notin DOMAIN more /\ "protocol" \notin DOMAIN more
    OBVIOUS
  <2> HIDE DEF more, old
  <2>4. /\ "protocol" \in DOMAIN With(old, more) /\ With(old, more).protocol = old.protocol
        /\ TagOf(With(old, more)) = TagOf(old)
        /\ With(old, more).protocol \in NamedProtocols
    BY <2>2, <2>3 DEF With, TagOf, Or
  <2>5. InOrder([outbounds EXCEPT ![FirstOf(free)] = With(old, more)])
    BY <1>2, <2>1, <2>4, ReplacedInOrder DEF old
  <2>6. outbounds' = [outbounds EXCEPT ![FirstOf(free)] = With(old, more)]
    BY <1>1, <1>4
  <2> HIDE DEF free
  <2>7. InOrder(outbounds)'
    BY <2>5, <2>6 DEF InOrder, Unique, IsList, Entries, TagOf
  <2>8. QED
    BY <1>1, <2>7, ClosedTags
<1>5. QED
  BY <1>3, <1>4

\* The lists of domains: an outbound is brought in only when none has the tag.
LEMMA DomainsTags ==
  ASSUME TagsInv, NEW tag, NEW domains, setDomains(tag, domains) PROVE TagsInv'
<1> DEFINE settings == Given(tag = IPv4, [settings |-> [domainStrategy |-> "UseIPv4"]])
           at    == {i \in DOMAIN outbounds : TagOf(outbounds[i]) = tag}
           base  == [tag |-> tag, protocol |-> "freedom"]
           added == With(base, settings)
<1>1. ~outVisible /\ UNCHANGED outModalVars /\ outbounds' = syncRules(tag, rules', settings)
  BY DEF setDomains, OnPage
<1>2. InOrder(outbounds) /\ at \in SUBSET Nat /\ Len(outbounds) \in Nat /\ DOMAIN outbounds = 1 .. Len(outbounds)
  BY Listed DEF TagsInv, InOrder
<1>3. \/ /\ at # {}
         /\ \/ outbounds' = outbounds
            \/ outbounds' = SubSeq(outbounds, 1, FirstOf(at) - 1)
      \/ at = {} /\ outbounds' = Append(outbounds, added)
      \/ outbounds' = outbounds
  <2> HIDE DEF settings
  <2>1. QED
    BY <1>1 DEF syncRules
<1>4. InOrder(outbounds)'
  <2>1. CASE outbounds' = outbounds
    BY <1>2, <2>1 DEF InOrder, Unique, IsList, Entries, TagOf
  <2>2. CASE at # {} /\ outbounds' = SubSeq(outbounds, 1, FirstOf(at) - 1)
    <3>1. FirstOf(at) \in 1 .. Len(outbounds)
      BY <1>2, <2>2, Least
    <3>2. InOrder(SubSeq(outbounds, 1, FirstOf(at) - 1))
      BY <1>2, <3>1, CutInOrder
    <3>3. QED
      BY <2>2, <3>2 DEF InOrder, Unique, IsList, Entries, TagOf
  <2>3. CASE at = {} /\ outbounds' = Append(outbounds, added)
    <3>1. DOMAIN settings \subseteq {"settings"}
      BY DEF Given, NoJson
    <3> HIDE DEF settings
    <3>2. /\ "protocol" \in DOMAIN added /\ TagOf(added) = tag
          /\ added.protocol = "freedom" /\ added.protocol \in NamedProtocols
      BY <3>1 DEF With, TagOf, Or, NamedProtocols
    <3> HIDE DEF added
    <3>3. InOrder(Append(outbounds, added))
      BY <1>2, <2>3, <3>2, AppendedInOrder
    <3>4. QED
      BY <2>3, <3>3 DEF InOrder, Unique, IsList, Entries, TagOf
  <2>4. QED
    BY <1>3, <2>1, <2>2, <2>3
<1>5. QED
  BY <1>1, <1>4, ClosedTags

LEMMA NextTags == TagsInv /\ [OutNext]_outVars => TagsInv'
<1> SUFFICES ASSUME TagsInv, [OutNext]_outVars PROVE TagsInv'
  OBVIOUS
<1>1. CASE OutNext
  <2>h. Len(outbounds) \in Nat /\ DOMAIN outbounds = 1 .. Len(outbounds)
    BY Listed DEF TagsInv, InOrder
  <2>1. CASE addOutbound \/ \E index \in DOMAIN outbounds : editOutbound(index)
    <3>1. \A index \in DOMAIN outbounds : Or(outbounds[index], "protocol", "vless") \in NamedProtocols
      BY DEF TagsInv, InOrder, Or
    <3>2. Shown(NoOutbound) /\ 0 \in 0 .. Len(outbounds)
      BY <2>h, TagNew DEF NoOutbound, NamedProtocols
    <3>3. CASE addOutbound
      BY <3>2, <3>3, ShowTags DEF addOutbound
    <3>4. CASE \E index \in DOMAIN outbounds : editOutbound(index)
      <4>1. PICK index \in DOMAIN outbounds : editOutbound(index)
        BY <3>4
      <4>2. Shown(O!OutboundFromJson(outbounds[index])) /\ index \in 0 .. Len(outbounds)
        BY <2>h, <3>1, TagRead
      <4>3. QED
        BY <4>1, <4>2, ShowTags DEF editOutbound
    <3>5. QED
      BY <2>1, <3>3, <3>4
  <2>2. CASE \/ \E tag \in Tags : ChooseOutTag(tag)
             \/ \E name \in OutProtocols : ChooseOutProtocol(name)
             \/ \E network \in OutNetworks : streamNetworkChanged(network)
             \/ \E security \in {"none", "tls", "reality"} : ChooseOutSecurity(security)
             \/ SwitchMux
             \/ \E json \in Pasted : Paste(json)
             \/ \E link \in LinksIn : convertLink(link)
    BY <2>2, EditTags
  <2>3. CASE okOutbound
    BY <2>3, SaveTags
  <2>4. CASE cancelOutbound
    <3>1. ~outVisible' /\ outbounds' = outbounds /\ outModal' = outModal
      BY <2>4 DEF cancelOutbound, template
    <3>2. QED
      BY <3>1 DEF TagsInv, FormInv, InOrder, Unique, IsList, Entries, TagOf
  <2>5. CASE \E index \in DOMAIN outbounds : deleteOutbound(index) \/ setFirstOutbound(index)
    BY <2>5, MoveTags
  <2>6. CASE setFreedomStrategy("UseIP")
    BY <2>6, FreedomTags
  <2>7. CASE \E tag \in {direct, IPv4}, domains \in {<<>>, <<"domain">>} : setDomains(tag, domains)
    BY <2>7, DomainsTags
  <2>8. CASE \/ \E tag \in TagsOf(balancers) : addRule(tag)
             \/ \E index \in DOMAIN rules : deleteRule(index)
             \/ \E balancer \in BalancersIn : addBalancer(balancer)
             \/ \E index \in DOMAIN balancersData, balancer \in BalancersIn :
                   cancelBalancer(index, balancer) \/ editBalancer(index, balancer)
             \/ \E index \in DOMAIN balancersData : deleteBalancer(index)
    <3>1. ~outVisible /\ UNCHANGED outModalVars /\ outbounds' = outbounds
      BY <2>8 DEF addRule, deleteRule, addBalancer, cancelBalancer, editBalancer, deleteBalancer, OnPage, template
    <3>2. QED
      BY <3>1, ClosedTags DEF TagsInv, InOrder, Unique, IsList, Entries, TagOf
  <2>9. QED
    BY <1>1, <2>1, <2>2, <2>3, <2>4, <2>5, <2>6, <2>7, <2>8 DEF OutNext
<1>2. CASE UNCHANGED outVars
  BY <1>2 DEF outVars, template, outModalVars, TagsInv, FormInv, InOrder, Unique, IsList, Entries, TagOf
<1>3. QED
  BY <1>1, <1>2

LEMMA InitTags == OutInit => TagsInv
<1> SUFFICES ASSUME OutInit PROVE TagsInv
  OBVIOUS
<1>1. PICK json \in Templates : outbounds = json.outbounds
  BY DEF OutInit
<1>2. InOrder(outbounds)
  <2>1. IsList(outbounds)
    <3>1. json.outbounds \in Seq({json.outbounds[i] : i \in DOMAIN json.outbounds})
      BY TemplatesAssumption
    <3>2. QED
      BY <1>1, <3>1, ListOf
  <2>2. /\ \A i \in DOMAIN outbounds : "protocol" \in DOMAIN outbounds[i]
        /\ \A i, j \in DOMAIN outbounds : TagOf(outbounds[i]) = TagOf(outbounds[j]) => i = j
    BY <1>1, TemplatesAssumption
  <2> DEFINE named(t) == {t.outbounds[i].protocol : i \in DOMAIN t.outbounds}
  <2>3. \A i \in DOMAIN outbounds : outbounds[i].protocol \in named(json)
    BY <1>1
  <2>4. named(json) \subseteq NamedProtocols
    BY DEF NamedProtocols
  <2>5. QED
    BY <2>1, <2>2, <2>3, <2>4 DEF InOrder, Unique
<1>3. FormInv
  BY DEF OutInit, FormInv
<1>4. QED
  BY <1>2, <1>3 DEF TagsInv

\* No two outbounds share a tag but "direct" of different protocols, whatever is
\* typed, pasted, imported, moved, deleted and brought in by the lists of domains.
THEOREM TagsStayUnique == OutSpec => []OutTagsUnique
<1>1. TagsInv => OutTagsUnique
  BY DEF TagsInv, InOrder, Unique, OutTagsUnique
<1>2. QED
  BY <1>1, InitTags, NextTags, PTL DEF OutSpec

(*--------------------------------- rules --------------------------------*)
\* What holds of 0, and of m if of m - 1, holds up to N.
LEMMA UpTo ==
  ASSUME NEW N \in Nat, NEW good, 0 \in good, \A m \in 1 .. N : m - 1 \in good => m \in good
  PROVE  \A m \in 0 .. N : m \in good
<1> DEFINE bad == {m \in 0 .. N : m \notin good}
<1>1. SUFFICES ASSUME bad # {} PROVE FALSE
  OBVIOUS
<1>2. bad \in SUBSET Nat
  OBVIOUS
<1>3. PICK m : m \in bad /\ \A j \in bad : m <= j
  <2> HIDE DEF bad
  <2>1. QED
    BY <1>1, <1>2, Least
<1>4. m \in 1 .. N /\ m - 1 \in 0 .. N /\ ~(m <= m - 1)
  BY <1>3
<1>5. m - 1 \in good
  BY <1>3, <1>4
<1>6. QED
  BY <1>3, <1>4, <1>5

\* A list put together piece by piece, as ruleSetter does it, exists and has
\* the pieces' entries.
Built(f, m, piece) == f = [n \in 0 .. m |-> IF n = 0 THEN <<>> ELSE f[n - 1] \o piece[n]]

LEMMA Pieced ==
  ASSUME NEW N \in Nat, NEW piece
  PROVE  \E f : Built(f, N, piece)
<1> DEFINE good == {m \in 0 .. N : \E f : Built(f, m, piece)}
<1>1. 0 \in good
  <2>1. Built([n \in 0 .. 0 |-> <<>>], 0, piece)
    BY DEF Built
  <2>2. QED
    BY <2>1
<1>2. ASSUME NEW m \in 1 .. N, m - 1 \in good PROVE m \in good
  <2>1. PICK f : Built(f, m - 1, piece)
    BY <1>2
  <2> DEFINE g == [n \in 0 .. m |-> IF n = m THEN f[m - 1] \o piece[m] ELSE f[n]]
  <2>2. \A n \in 0 .. m - 1 : f[n] = IF n = 0 THEN <<>> ELSE f[n - 1] \o piece[n]
    BY <2>1 DEF Built
  <2>3. g[m] = g[m - 1] \o piece[m] /\ m # 0
    OBVIOUS
  <2>4. \A n \in 0 .. m - 1 : g[n] = f[n]
    OBVIOUS
  <2>5. g = [n \in 0 .. m |-> g[n]]
    OBVIOUS
  <2> HIDE DEF g
  <2>6. \A n \in 0 .. m - 1 : g[n] = IF n = 0 THEN <<>> ELSE g[n - 1] \o piece[n]
    <3> TAKE n \in 0 .. m - 1
    <3>1. n # 0 => n - 1 \in 0 .. m - 1
      OBVIOUS
    <3>2. QED
      BY <2>2, <2>4, <3>1
  <2>7. \A n \in 0 .. m : g[n] = IF n = 0 THEN <<>> ELSE g[n - 1] \o piece[n]
    <3> TAKE n \in 0 .. m
    <3>1. n \in 0 .. m - 1 \/ n = m
      OBVIOUS
    <3>2. QED
      BY <2>3, <2>6, <3>1
  <2>8. Built(g, m, piece)
    BY <2>5, <2>7 DEF Built
  <2>9. m \in 0 .. N
    OBVIOUS
  <2>10. QED
    BY <2>8, <2>9
<1> HIDE DEF good
<1>3. N \in good
  BY <1>1, <1>2, UpTo
<1>4. QED
  BY <1>3 DEF good

LEMMA PiecedOf ==
  ASSUME NEW N \in Nat, NEW S, NEW piece, \A n \in 1 .. N : piece[n] \in Seq(S),
         NEW f, Built(f, N, piece)
  PROVE  f[N] \in Seq(S)
<1> DEFINE good == {m \in 0 .. N : f[m] \in Seq(S)}
<1>1. \A m \in 0 .. N : f[m] = IF m = 0 THEN <<>> ELSE f[m - 1] \o piece[m]
  BY DEF Built
<1>2. 0 \in good
  <2>1. 0 \in 0 .. N /\ f[0] = <<>>
    BY <1>1
  <2>2. f[0] \in Seq(S)
    BY <2>1, EmptySeq
  <2>3. QED
    BY <2>1, <2>2
<1>3. ASSUME NEW m \in 1 .. N, m - 1 \in good PROVE m \in good
  <2>1. f[m - 1] \in Seq(S) /\ piece[m] \in Seq(S) /\ m \in 0 .. N /\ m # 0
    BY <1>3
  <2>2. f[m - 1] \o piece[m] \in Seq(S)
    BY <2>1, ConcatProperties
  <2>3. QED
    BY <1>1, <2>1, <2>2
<1> HIDE DEF good
<1>4. \A m \in 0 .. N : m \in good
  BY <1>2, <1>3, UpTo
<1>5. QED
  BY <1>4 DEF good

\* Every rule names one of these balancers.
Naming(seq, tags) ==
    /\ IsList(seq)
    /\ \A i \in DOMAIN seq : "balancerTag" \in DOMAIN seq[i] /\ seq[i].balancerTag \in tags

\* The rules ruleSetter leaves are rules there were, and one that names no balancer.
LEMMA RulesSet ==
  ASSUME NEW tags, EmptyText \in tags, Naming(rules, tags), NEW tag, NEW domains
  PROVE  Naming(ruleSetter(tag, domains), tags)
<1> DEFINE named   == {i \in DOMAIN rules : rules[i].outboundTag = tag /\ rules[i].domain # <<>>}
           rule    == [outboundTag |-> tag, balancerTag |-> EmptyText, domain |-> domains]
           Held(i) == CASE i \notin named -> <<rules[i]>>
                        [] i \in named /\ domains # <<>> /\ i = FirstOf(named) -> <<rule>>
                        [] OTHER -> <<>>
           kept[n \in 0 .. Len(rules)] == IF n = 0 THEN <<>> ELSE kept[n - 1] \o Held(n)
           S       == Entries(rules) \cup {rule}
<1>1. ruleSetter(tag, domains) = IF named = {} THEN Append(rules, rule) ELSE kept[Len(rules)]
  BY DEF ruleSetter
<1>2. Len(rules) \in Nat /\ DOMAIN rules = 1 .. Len(rules)
  BY Listed DEF Naming
<1>3. "balancerTag" \in DOMAIN rule /\ rule.balancerTag \in tags
  OBVIOUS
<1>4. \A r \in S : "balancerTag" \in DOMAIN r /\ r.balancerTag \in tags
  BY <1>3 DEF Naming, Entries
<1>5. ASSUME NEW seq \in Seq(S) PROVE Naming(seq, tags)
  <2>1. IsList(seq) /\ \A i \in DOMAIN seq : seq[i] \in S
    BY <1>5, ListOf
  <2> HIDE DEF S
  <2>2. QED
    BY <1>4, <2>1 DEF Naming
<1>6. Append(rules, rule) \in Seq(S)
  <2>1. rules \in Seq(S) /\ rule \in S
    BY SeqMonotonic DEF Naming, IsList
  <2> HIDE DEF rule, S
  <2>2. QED
    BY <2>1, AppendProperties
<1>7. kept[Len(rules)] \in Seq(S)
  <2> DEFINE piece == [n \in 1 .. Len(rules) |-> Held(n)]
  <2>1. \A n \in 1 .. Len(rules) : piece[n] \in Seq(S)
    <3> TAKE n \in 1 .. Len(rules)
    <3>1. rules[n] \in S /\ rule \in S
      BY <1>2 DEF Entries
    <3>2. Held(n) \in {<<rules[n]>>, <<rule>>, <<>>}
      <4> HIDE DEF named, rule
      <4>1. QED
        OBVIOUS
    <3> HIDE DEF S, rule, Held
    <3>3. <<rules[n]>> \in Seq(S) /\ <<rule>> \in Seq(S) /\ <<>> \in Seq(S)
      BY <3>1
    <3>4. QED
      BY <3>2, <3>3
  <2>2. \A f : f = [n \in 0 .. Len(rules) |-> IF n = 0 THEN <<>> ELSE f[n - 1] \o Held(n)]
               <=> Built(f, Len(rules), piece)
    <3> HIDE DEF Held
    <3>1. \A n \in 0 .. Len(rules) : n # 0 => piece[n] = Held(n)
      BY <1>2
    <3> HIDE DEF piece
    <3>2. QED
      BY <3>1 DEF Built
  <2> HIDE DEF S, Held, piece
  <2>3. \E f : f = [n \in 0 .. Len(rules) |-> IF n = 0 THEN <<>> ELSE f[n - 1] \o Held(n)]
    BY <1>2, <2>2, Pieced
  <2>4. kept = [n \in 0 .. Len(rules) |-> IF n = 0 THEN <<>> ELSE kept[n - 1] \o Held(n)]
    BY <2>3
  <2> HIDE DEF kept
  <2>5. QED
    BY <1>2, <2>1, <2>2, <2>4, PiecedOf
<1> HIDE DEF S, kept, named, rule
<1>8. QED
  BY <1>1, <1>5, <1>6, <1>7

(*------------------------------- balancers ------------------------------*)
\* What a rule may name.
Namable == {EmptyText} \cup TagsOf(balancers) \cup lost

\* The observatories have heeded the balancers, but for those named.
Heeded ==
    /\ \A i \in DOMAIN balancers \ unheeded : Watched(balancers[i])
    /\ unheeded = {} => watched = ObservatorySelectors(balancers)

RefsInv ==
    /\ IsList(balancers) /\ IsList(balancersData) /\ Len(balancersData) = Len(balancers)
    /\ Naming(rules, Namable) /\ Heeded

\* Names that can be given may become more.
LEMMA NamingMore ==
  ASSUME NEW seq, NEW tags, NEW more, Naming(seq, tags), tags \subseteq more
  PROVE  Naming(seq, more)
BY DEF Naming

\* What a list says is heeded where it says what the template does.
LEMMA UpdateHeeds ==
  ASSUME NEW listed, IsList(listed), IsList(balancers'), Len(listed) = Len(balancers'),
         updateObservatorySelectors(listed)
  PROVE  Heeded'
<1>1. /\ Len(listed) \in Nat /\ DOMAIN listed = 1 .. Len(listed)
      /\ DOMAIN balancers' = DOMAIN listed
  BY Listed
<1>2. /\ watched' = ObservatorySelectors(listed)
      /\ unheeded' = {i \in DOMAIN listed : listed[i] # balancers'[i]}
  BY DEF updateObservatorySelectors
<1>3. ASSUME NEW i \in DOMAIN balancers' \ unheeded' PROVE Watched(balancers[i])'
  <2>1. i \in DOMAIN listed /\ listed[i] = balancers'[i]
    BY <1>1, <1>2, <1>3
  <2>2. watched'.observatory = Selectors(listed, Pings) /\ watched'.burstObservatory = Selectors(listed, Loads)
    BY <1>2 DEF ObservatorySelectors
  <2>3. \A S : listed[i].strategy \in S => listed[i].selector \subseteq Selectors(listed, S)
    BY <2>1 DEF Selectors
  <2>4. QED
    BY <2>1, <2>2, <2>3 DEF Watched
<1>4. ASSUME unheeded' = {} PROVE watched' = ObservatorySelectors(balancers')
  <2>1. \A i \in DOMAIN listed : listed[i] = balancers'[i]
    BY <1>2, <1>4
  <2>2. listed = balancers'
    BY <1>1, <2>1 DEF IsList
  <2>3. QED
    BY <1>2, <2>2
<1>5. QED
  BY <1>3, <1>4 DEF Heeded

LEMMA ListRefs ==
  ASSUME RefsInv, List, IsList(balancers'), Heeded', Naming(rules', Namable')
  PROVE  RefsInv'
<1>1. IsList(balancersData') /\ Len(balancersData') = Len(balancers')
  <2>1. CASE template' = template
    <3>1. balancersData' = balancersData /\ balancers' = balancers
      BY <2>1 DEF List, template
    <3>2. QED
      BY <3>1 DEF RefsInv
  <2>2. CASE template' # template
    <3>1. balancersData' = balancers'
      BY <2>2 DEF List
    <3>2. QED
      BY <3>1
  <2>3. QED
    BY <2>1, <2>2
<1>2. QED
  BY <1>1 DEF RefsInv, IsList, Entries, Naming, Namable

\* Steps that leave the rules and the balancers alone.
LEMMA ElseRefs ==
  ASSUME RefsInv, UNCHANGED <<rules, balancers, watched, exceptions>>, List \/ balancersData' = balancersData
  PROVE  RefsInv'
<1>0. Heeded'
  BY DEF RefsInv, Heeded, Watched, exceptions
<1>1. CASE List
  <2>1. IsList(balancers') /\ Naming(rules', Namable')
    BY DEF RefsInv, IsList, Entries, Naming, Namable, exceptions
  <2>2. QED
    BY <1>0, <1>1, <2>1, ListRefs
<1>2. CASE balancersData' = balancersData
  BY <1>0, <1>2 DEF RefsInv, IsList, Entries, Naming, Namable, exceptions
<1>3. QED
  BY <1>1, <1>2

\* The rules: of a list of domains, of a balancer, and deleted ones.
LEMMA RuleRefs ==
  ASSUME RefsInv,
         \/ \E tag \in {direct, IPv4}, domains \in {<<>>, <<"domain">>} : setDomains(tag, domains)
         \/ \E tag \in TagsOf(balancers) : addRule(tag)
         \/ \E index \in DOMAIN rules : deleteRule(index)
  PROVE  RefsInv'
<1>1. List /\ UNCHANGED <<balancers, watched, exceptions>>
  BY DEF setDomains, addRule, deleteRule
<1>2. Naming(rules, Namable) /\ EmptyText \in Namable
  BY DEF RefsInv, Namable
<1>3. Naming(rules', Namable)
  <2>1. CASE \E tag \in {direct, IPv4}, domains \in {<<>>, <<"domain">>} : setDomains(tag, domains)
    <3>1. PICK tag, domains : rules' = ruleSetter(tag, domains)
      BY <2>1 DEF setDomains
    <3>2. QED
      BY <1>2, <3>1, RulesSet
  <2>2. CASE \E tag \in TagsOf(balancers) : addRule(tag)
    <3>1. PICK tag \in TagsOf(balancers) : addRule(tag)
      BY <2>2
    <3> DEFINE rule == [outboundTag |-> EmptyText, balancerTag |-> tag, domain |-> <<>>]
    <3>2. rules' = Append(rules, rule) /\ "balancerTag" \in DOMAIN rule /\ rule.balancerTag \in Namable
      BY <3>1 DEF addRule, Namable
    <3> HIDE DEF rule
    <3>3. /\ IsList(rules') /\ Len(rules) \in Nat /\ DOMAIN rules = 1 .. Len(rules)
          /\ DOMAIN rules' = 1 .. Len(rules) + 1
          /\ \A i \in DOMAIN rules : rules'[i] = rules[i]
          /\ rules'[Len(rules) + 1] = rule
      BY <1>2, <3>2, Appended, Listed DEF Naming
    <3>4. \A i \in DOMAIN rules' : i \in DOMAIN rules \/ i = Len(rules) + 1
      BY <3>3
    <3>5. QED
      BY <1>2, <3>2, <3>3, <3>4 DEF Naming
  <2>3. CASE \E index \in DOMAIN rules : deleteRule(index)
    <3>1. PICK index \in DOMAIN rules : rules' = Without(rules, index)
      BY <2>3 DEF deleteRule
    <3>2. /\ IsList(rules') /\ Len(rules) \in Nat /\ DOMAIN rules = 1 .. Len(rules)
          /\ DOMAIN rules' = 1 .. Len(rules) - 1
          /\ \A i \in 1 .. Len(rules) - 1 :
               rules'[i] = IF i < index THEN rules[i] ELSE rules[i + 1]
      BY <1>2, <3>1, Shortened, Listed DEF Naming
    <3>3. \A i \in DOMAIN rules' : \E j \in DOMAIN rules : rules'[i] = rules[j]
      BY <3>2
    <3>4. QED
      BY <1>2, <3>2, <3>3 DEF Naming
  <2>4. QED
    BY <2>1, <2>2, <2>3
<1>4. Namable' = Namable
  BY <1>1 DEF Namable, exceptions
<1>5. Heeded' /\ IsList(balancers')
  BY <1>1 DEF RefsInv, Heeded, Watched, exceptions, IsList, Entries
<1>6. QED
  BY <1>1, <1>3, <1>4, <1>5, ListRefs

LEMMA AddRefs ==
  ASSUME RefsInv, NEW balancer \in BalancersIn, addBalancer(balancer) PROVE RefsInv'
<1>1. /\ balancers' = Append(balancers, balancer) /\ List /\ UNCHANGED <<rules, lost>>
      /\ updateObservatorySelectors(balancers')
  BY DEF addBalancer
<1>2. /\ IsList(balancers') /\ Len(balancers) \in Nat /\ DOMAIN balancers = 1 .. Len(balancers)
      /\ DOMAIN balancers' = 1 .. Len(balancers) + 1
      /\ \A i \in DOMAIN balancers : balancers'[i] = balancers[i]
  BY <1>1, Appended, Listed DEF RefsInv
<1>3. TagsOf(balancers) \subseteq TagsOf(balancers')
  <2>1. \A i \in DOMAIN balancers : i \in DOMAIN balancers' /\ balancers'[i].tag = balancers[i].tag
    BY <1>2
  <2>2. QED
    BY <2>1 DEF TagsOf
<1>4. Naming(rules', Namable')
  BY <1>1, <1>3, NamingMore DEF RefsInv, Namable
<1>5. Heeded'
  BY <1>1, <1>2, UpdateHeeds
<1>6. QED
  BY <1>1, <1>2, <1>4, <1>5, ListRefs

\* A cancelled edit changes the list on the page only.
LEMMA CancelRefs ==
  ASSUME RefsInv, NEW index \in DOMAIN balancersData, NEW balancer, cancelBalancer(index, balancer)
  PROVE  RefsInv'
<1>1. /\ balancersData' = [balancersData EXCEPT ![index] = balancer]
      /\ UNCHANGED <<rules, balancers, watched, exceptions>>
  BY DEF cancelBalancer, template
<1>2. IsList(balancersData') /\ Len(balancersData') = Len(balancersData)
  BY <1>1, Replaced DEF RefsInv
<1>3. Heeded'
  BY <1>1 DEF RefsInv, Heeded, Watched, exceptions
<1>4. QED
  BY <1>1, <1>2, <1>3 DEF RefsInv, IsList, Entries, Naming, Namable, exceptions

\* A balancer is renamed: the rules that name what the page listed follow, and
\* those that name what the template had may lose it.
LEMMA EditRefs ==
  ASSUME RefsInv, NEW index \in DOMAIN balancersData, NEW balancer, editBalancer(index, balancer)
  PROVE  RefsInv'
<1> DEFINE oldTag == balancersData[index].tag
<1> DEFINE edited == [balancersData EXCEPT ![index] = balancer]
<1>1. /\ balancers' = [balancers EXCEPT ![index] = balancer]
      /\ rules' = Renamed(oldTag, balancer.tag)
      /\ lost' = IF oldTag = balancers[index].tag THEN lost ELSE lost \cup {balancers[index].tag}
      /\ \E listed \in {edited, balancers'} :
           updateObservatorySelectors(listed) /\ balancersData' \in {listed, balancers'}
  BY DEF editBalancer
<1> HIDE DEF oldTag, edited
<1>2. index \in DOMAIN balancers
  BY Listed DEF RefsInv
<1>3. /\ IsList(balancers') /\ DOMAIN balancers' = DOMAIN balancers
      /\ \A i \in DOMAIN balancers : balancers'[i] = IF i = index THEN balancer ELSE balancers[i]
  BY <1>1, <1>2, Replaced DEF RefsInv
<1>4. \A tag \in Namable : tag \in Namable' \/ (oldTag # EmptyText /\ tag = oldTag)
  <2> TAKE tag \in Namable
  <2>1. CASE tag \in {EmptyText} \cup lost
    BY <1>1, <2>1 DEF Namable
  <2>2. CASE tag \in TagsOf(balancers)
    <3>1. PICK i \in DOMAIN balancers : tag = balancers[i].tag
      BY <2>2 DEF TagsOf
    <3>2. CASE i = index
      BY <1>1, <3>1, <3>2 DEF Namable
    <3>3. CASE i # index
      BY <1>3, <3>1, <3>3 DEF Namable, TagsOf
    <3>4. QED
      BY <3>2, <3>3
  <2>3. QED
    BY <2>1, <2>2 DEF Namable
<1>5. balancer.tag \in Namable'
  BY <1>2, <1>3 DEF Namable, TagsOf
<1>6. /\ DOMAIN rules' = DOMAIN rules
      /\ \A i \in DOMAIN rules :
           /\ "balancerTag" \in DOMAIN rules'[i]
           /\ rules'[i].balancerTag = IF oldTag # EmptyText /\ rules[i].balancerTag = oldTag
                                      THEN balancer.tag ELSE rules[i].balancerTag
  BY <1>1 DEF Renamed, RefsInv, Naming
<1>7. IsList(rules')
  <2>1. Len(rules) \in Nat /\ DOMAIN rules = 1 .. Len(rules)
    BY Listed DEF RefsInv, Naming
  <2>2. rules' \in [1 .. Len(rules) -> Entries(rules')]
    BY <1>1, <2>1 DEF Renamed, Entries
  <2>3. QED
    BY <2>1, <2>2, SeqDef DEF IsList
<1>8. Naming(rules', Namable')
  BY <1>4, <1>5, <1>6, <1>7 DEF RefsInv, Naming
<1>9. IsList(edited) /\ Len(edited) = Len(balancersData)
  BY Replaced DEF RefsInv, edited
<1>10. Len(balancers') = Len(balancers)
  BY <1>1, <1>2, Replaced DEF RefsInv
<1>11. PICK listed \in {edited, balancers'} :
         updateObservatorySelectors(listed) /\ balancersData' \in {listed, balancers'}
  BY <1>1
<1>12. IsList(listed) /\ Len(listed) = Len(balancers')
  BY <1>3, <1>9, <1>10 DEF RefsInv
<1>13. Heeded'
  BY <1>3, <1>11, <1>12, UpdateHeeds
<1>14. IsList(balancersData') /\ Len(balancersData') = Len(balancers')
  BY <1>3, <1>11, <1>12
<1>15. QED
  BY <1>3, <1>8, <1>13, <1>14 DEF RefsInv, IsList, Entries, Naming, Namable

LEMMA DeleteRefs ==
  ASSUME RefsInv, NEW index \in DOMAIN balancersData, deleteBalancer(index) PROVE RefsInv'
<1> DEFINE named == {i \in DOMAIN balancers : balancers[i].tag = balancersData[index].tag}
           real  == IF named = {} THEN Len(balancers) ELSE FirstOf(named)
<1>1. /\ balancers' = Without(balancers, real) /\ List
      /\ updateObservatorySelectors(balancers')
      /\ lost' = lost \cup {balancers[real].tag} /\ UNCHANGED <<outbounds, rules>>
  BY DEF deleteBalancer
<1>2. /\ IsList(balancers) /\ Len(balancers) \in Nat /\ DOMAIN balancers = 1 .. Len(balancers)
      /\ index \in 1 .. Len(balancers)
  BY Listed DEF RefsInv
<1>3. real \in DOMAIN balancers
  <2>1. named \in SUBSET Nat /\ named \subseteq DOMAIN balancers
    BY <1>2
  <2> HIDE DEF named
  <2>2. CASE named = {}
    BY <1>2, <2>2
  <2>3. CASE named # {}
    <3>1. FirstOf(named) \in named
      BY <2>1, <2>3, Least
    <3>2. QED
      BY <2>1, <2>3, <3>1
  <2>4. QED
    BY <2>2, <2>3
<1> HIDE DEF real
<1>4. /\ IsList(balancers') /\ DOMAIN balancers' = 1 .. Len(balancers) - 1
      /\ \A i \in 1 .. Len(balancers) - 1 :
           balancers'[i] = IF i < real THEN balancers[i] ELSE balancers[i + 1]
  BY <1>1, <1>2, <1>3, Shortened
<1>5. \A i \in DOMAIN balancers : balancers[i].tag \in Namable'
  <2> TAKE i \in DOMAIN balancers
  <2>1. CASE i = real
    BY <1>1, <2>1 DEF Namable
  <2>2. CASE i < real
    <3>1. i \in DOMAIN balancers' /\ balancers'[i] = balancers[i]
      BY <1>2, <1>3, <1>4, <2>2
    <3>2. QED
      BY <3>1 DEF Namable, TagsOf
  <2>3. CASE i > real
    <3>1. i - 1 \in 1 .. Len(balancers) - 1 /\ ~(i - 1 < real) /\ (i - 1) + 1 = i
      BY <1>2, <1>3, <2>3
    <3>2. balancers'[i - 1] = balancers[i]
      BY <1>4, <3>1
    <3>3. QED
      BY <1>4, <3>1, <3>2 DEF Namable, TagsOf
  <2>4. QED
    BY <1>2, <1>3, <2>1, <2>2, <2>3
<1>6. Namable \subseteq Namable'
  <2>1. EmptyText \in Namable' /\ lost \subseteq Namable'
    BY <1>1 DEF Namable
  <2>2. TagsOf(balancers) \subseteq Namable'
    BY <1>5 DEF TagsOf
  <2>3. QED
    BY <2>1, <2>2 DEF Namable
<1>7. Naming(rules', Namable')
  BY <1>1, <1>6, NamingMore DEF RefsInv
<1>8. Heeded'
  BY <1>1, <1>4, UpdateHeeds
<1>9. QED
  BY <1>1, <1>4, <1>7, <1>8, ListRefs

LEMMA NextRefs == RefsInv /\ [OutNext]_outVars => RefsInv'
<1> SUFFICES ASSUME RefsInv, [OutNext]_outVars PROVE RefsInv'
  OBVIOUS
<1>1. CASE OutNext
  <2>1. CASE \/ addOutbound \/ \E index \in DOMAIN outbounds : editOutbound(index)
             \/ \E tag \in Tags : ChooseOutTag(tag)
             \/ \E name \in OutProtocols : ChooseOutProtocol(name)
             \/ \E network \in OutNetworks : streamNetworkChanged(network)
             \/ \E security \in {"none", "tls", "reality"} : ChooseOutSecurity(security)
             \/ SwitchMux
             \/ \E json \in Pasted : Paste(json)
             \/ \E link \in LinksIn : convertLink(link)
    <3>1. \/ \E out, index : showOutbound(out, index)
          \/ \E out : Alter(out)
      BY <2>1 DEF addOutbound, editOutbound, ChooseOutTag, ChooseOutProtocol, streamNetworkChanged,
           ChooseOutSecurity, SwitchMux, Paste, convertLink
    <3>2. UNCHANGED <<rules, balancers, watched, exceptions, balancersData>>
      BY <3>1 DEF showOutbound, Alter, template
    <3>3. QED
      BY <3>2, ElseRefs
  <2>2. CASE \/ okOutbound \/ cancelOutbound
             \/ \E index \in DOMAIN outbounds : deleteOutbound(index) \/ setFirstOutbound(index)
             \/ setFreedomStrategy("UseIP")
    <3>1. UNCHANGED <<rules, balancers, watched, exceptions>> /\ (List \/ balancersData' = balancersData)
      BY <2>2 DEF okOutbound, cancelOutbound, deleteOutbound, setFirstOutbound, setFreedomStrategy, template
    <3>2. QED
      BY <3>1, ElseRefs
  <2>3. CASE \/ \E tag \in {direct, IPv4}, domains \in {<<>>, <<"domain">>} : setDomains(tag, domains)
             \/ \E tag \in TagsOf(balancers) : addRule(tag)
             \/ \E index \in DOMAIN rules : deleteRule(index)
    BY <2>3, RuleRefs
  <2>4. CASE \E balancer \in BalancersIn : addBalancer(balancer)
    BY <2>4, AddRefs
  <2>5. CASE \E index \in DOMAIN balancersData, balancer \in BalancersIn :
               cancelBalancer(index, balancer) \/ editBalancer(index, balancer)
    BY <2>5, CancelRefs, EditRefs
  <2>6. CASE \E index \in DOMAIN balancersData : deleteBalancer(index)
    BY <2>6, DeleteRefs
  <2>7. QED
    BY <1>1, <2>1, <2>2, <2>3, <2>4, <2>5, <2>6 DEF OutNext
<1>2. CASE UNCHANGED outVars
  BY <1>2, ElseRefs DEF outVars, template
<1>3. QED
  BY <1>1, <1>2

LEMMA InitRefs == OutInit => RefsInv
<1> SUFFICES ASSUME OutInit PROVE RefsInv
  OBVIOUS
<1>1. PICK json \in Templates : rules = json.rules /\ balancers = json.balancers
  BY DEF OutInit
<1>2. balancersData = balancers /\ watched = ObservatorySelectors(balancers) /\ lost = {} /\ unheeded = {}
  BY DEF OutInit
<1>3. IsList(rules) /\ IsList(balancers)
  <2>1. /\ json.rules \in Seq({json.rules[i] : i \in DOMAIN json.rules})
        /\ json.balancers \in Seq({json.balancers[i] : i \in DOMAIN json.balancers})
    BY TemplatesAssumption
  <2>2. QED
    BY <1>1, <2>1, ListOf
<1>4. \A i \in DOMAIN rules : "balancerTag" \in DOMAIN rules[i] /\ rules[i].balancerTag \in Namable
  BY <1>1, <1>2, TemplatesAssumption DEF Namable
<1>5. \A i \in DOMAIN balancers : Watched(balancers[i])
  <2>1. \A i \in DOMAIN balancers : \A S :
           balancers[i].strategy \in S => balancers[i].selector \subseteq Selectors(balancers, S)
    BY DEF Selectors
  <2>2. watched.observatory = Selectors(balancers, Pings) /\ watched.burstObservatory = Selectors(balancers, Loads)
    BY <1>2 DEF ObservatorySelectors
  <2>3. QED
    BY <2>1, <2>2 DEF Watched
<1>6. Heeded
  BY <1>2, <1>5 DEF Heeded
<1>7. QED
  BY <1>2, <1>3, <1>4, <1>6 DEF RefsInv, Naming

\* A rule names a balancer there is, unless that was deleted or renamed after a
\* cancelled edit, and the observatories watch what a balancer selects from, unless a
\* cancelled edit of it was still listed when another one was confirmed unchanged.
THEOREM BalancersStayServed == OutSpec => []BalancersServed
<1>1. RefsInv => BalancersServed
  BY DEF RefsInv, Naming, Namable, Heeded, BalancersServed
<1>2. QED
  BY <1>1, InitRefs, NextRefs, PTL DEF OutSpec

\* The page's variables keep their types: the list of balancers has an entry for
\* each, the form edits an outbound there is, and its protocol is one that was named.
THEOREM OutKeepsType == OutSpec => []OutTypeOK
<1> DEFINE Clicks == outVisible \in BOOLEAN /\ moves \in 0 .. MaxMoves
<1>1. OutInit => Clicks
  <2> SUFFICES ASSUME OutInit PROVE Clicks
    OBVIOUS
  <2>1. outVisible = FALSE /\ moves = 0
    BY DEF OutInit
  <2>2. outVisible \in BOOLEAN
    BY <2>1, Zenon
  <2>3. moves \in 0 .. MaxMoves
    BY <2>1, MovesAssumption
  <2>4. QED
    BY <2>2, <2>3
<1>2. Clicks /\ [OutNext]_outVars => Clicks'
  <2> SUFFICES ASSUME Clicks, [OutNext]_outVars PROVE Clicks'
    OBVIOUS
  <2> DEFINE Clicked == /\ outVisible' = TRUE \/ outVisible' = FALSE \/ outVisible' = outVisible
                        /\ moves' = moves \/ (moves < MaxMoves /\ moves' = moves + 1)
  <2>1. CASE OutNext
    <3>1. ASSUME NEW out, NEW index, showOutbound(out, index) PROVE Clicked
      BY <3>1 DEF showOutbound, Move
    <3>2. ASSUME NEW out, Alter(out) PROVE Clicked
      BY <3>2 DEF Alter, Move
    <3>3. ASSUME OnPage PROVE Clicked
      BY <3>3 DEF OnPage, outModalVars, Move
    <3>4. Clicked
      <4>1. CASE addOutbound \/ \E index \in DOMAIN outbounds : editOutbound(index)
        BY <3>1, <4>1 DEF addOutbound, editOutbound
      <4>2. CASE \/ \E tag \in Tags : ChooseOutTag(tag)
                 \/ \E name \in OutProtocols : ChooseOutProtocol(name)
                 \/ \E network \in OutNetworks : streamNetworkChanged(network)
                 \/ \E security \in {"none", "tls", "reality"} : ChooseOutSecurity(security)
                 \/ SwitchMux
                 \/ \E json \in Pasted : Paste(json)
                 \/ \E link \in LinksIn : convertLink(link)
        <5>1. \E out : Alter(out)
          BY <4>2 DEF ChooseOutTag, ChooseOutProtocol, streamNetworkChanged, ChooseOutSecurity, SwitchMux,
               Paste, convertLink
        <5>2. QED
          BY <3>2, <5>1
      <4>3. CASE okOutbound \/ cancelOutbound
        BY <4>3 DEF okOutbound, cancelOutbound
      <4>4. CASE \/ \E index \in DOMAIN outbounds : deleteOutbound(index) \/ setFirstOutbound(index)
                 \/ setFreedomStrategy("UseIP")
                 \/ \E tag \in {direct, IPv4}, domains \in {<<>>, <<"domain">>} : setDomains(tag, domains)
                 \/ \E tag \in TagsOf(balancers) : addRule(tag)
                 \/ \E index \in DOMAIN rules : deleteRule(index)
                 \/ \E balancer \in BalancersIn : addBalancer(balancer)
                 \/ \E index \in DOMAIN balancersData, balancer \in BalancersIn :
                       cancelBalancer(index, balancer) \/ editBalancer(index, balancer)
                 \/ \E index \in DOMAIN balancersData : deleteBalancer(index)
        <5>1. OnPage
          BY <4>4 DEF deleteOutbound, setFirstOutbound, setFreedomStrategy, setDomains, addRule, deleteRule,
               addBalancer, cancelBalancer, editBalancer, deleteBalancer
        <5>2. QED
          BY <3>3, <5>1
      <4>5. QED
        BY <2>1, <4>1, <4>2, <4>3, <4>4 DEF OutNext
    <3>5. outVisible' \in BOOLEAN
      BY <3>4, Zenon
    <3>6. moves' \in 0 .. MaxMoves
      BY <3>4, MovesAssumption
    <3>7. QED
      BY <3>5, <3>6
  <2>2. CASE UNCHANGED outVars
    BY <2>2 DEF outVars, outModalVars
  <2>3. QED
    BY <2>1, <2>2
<1>3. TagsInv /\ RefsInv /\ Clicks => OutTypeOK
  BY DEF TagsInv, InOrder, FormInv, RefsInv, OutTypeOK
<1>4. QED
  BY <1>1, <1>2, <1>3, InitTags, NextTags, InitRefs, NextRefs, PTL DEF OutSpec

================================================================================
