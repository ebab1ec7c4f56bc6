SPECIFICATION PartsSpec
CONSTANTS
  \* the inbound pages
  Ids = {1, 2}
  Presets <- MCPresets
  Unopened <- MCUnopened
  Protocols = {"vless", "shadowsocks", "socks"}
  Networks = {"tcp", "kcp", "ws"}
  Methods = {"2022-blake3-aes-128-gcm", "2022-blake3-chacha20-poly1305"}
  Pairs <- MCPairs
  Proxy <- MCProxy
  PanelName = "panel"
  MaxSteps = 3
  \* the outbound page
  Templates <- MCTemplates
  Pasted <- MCPasted
  LinksIn <- MCLinksIn
  Tags <- MCTags
  OutProtocols = {"freedom", "blackhole", "dns", "vmess", "vless", "trojan", "shadowsocks", "socks", "http", "wireguard"}
  OutNetworks = {"tcp", "kcp", "ws", "grpc", "httpupgrade", "xhttp"}
  BalancersIn <- MCBalancersIn
  MaxMoves = 3
  \* the traffic accounting
  Metered = {"a"}
  Outbound = "out"
  Nobody = "nobody"
  Quota <- MCQuota
  Period <- MCPeriod
  Terms <- MCTerms
  MaxCarried = 1
  MaxNow = 3
  MaxWork = 2
  \* the access log
  MaxLines = 2
  MaxFaults = 1
  \* the V2board job
  Users = 2
  SyncPorts = {1, 2, 3}
  MaxRows = 3
  MaxChanges = 2
INVARIANTS
  PartsTypeOK
  KeysPaired ReopenStable SecurityFits PasswordsFit LinksServe
  OutboundKept OutTagsUnique BalancersServed
  CreditedOnce DisabledForCause DatesAgree
  ReadOnce ReadUpTo LinesKept
  SyncServes SyncMetered
PROPERTIES
  CutInTime PeriodRuns SyncKeeps
CHECK_DEADLOCK FALSE
