-------------------------- MODULE V2boardSync_proofs --------------------------
(***************************************************************************)
(* Every client has its traffic row and every traffic row its client, what *)
(* the job saves keeps the other users' clients, and after a calm run      *)
(* Xray serves each user, for any number of users, inbounds and changes.   *)
(***************************************************************************)
EXTENDS V2boardSync, TLAPS
LOCAL INSTANCE FiniteSetsExt
LOCAL INSTANCE SequencesExt

WellFounded == INSTANCE WellFoundedInduction
Sequence    == INSTANCE SequenceTheorems

(*------------------------------- invariants -----------------------------*)
SyncName   == ({0} \X SyncPorts) \cup ((1..Users) \X Nat)
SyncClient == [uuid : SyncName, email : SyncName]
SyncTag    == {"none", "inbound", "remote"} \X (SyncPorts \cup Nat)
SyncRow    == [remark : Nat \X Nat, enable : BOOLEAN, vless : BOOLEAN, tag : SyncTag,
               port : SyncPorts \cup {0}, key : Nat \X Nat, clients : Seq(SyncClient)]
SyncUser   == [listed : BOOLEAN, uuid : Nat, email : Nat, port : SyncPorts, key : Nat]
SyncState  == [pc : {"idle", "find", "update", "again", "create"}, list : [1..Users -> SyncUser],
               at : 1..Users + 1, id : Nat, read : SyncRow, copy : SyncRow,
               changed : BOOLEAN, failed : SUBSET (1..Users), calm : BOOLEAN]
XrayInbound == [tag : SyncTag, port : SyncPorts, key : Nat \X Nat, uuids : SUBSET SyncName]

\* What the remote panel says; what the job was told of a user only grows.
RemoteInv ==
    /\ remote \in [1..Users -> SyncUser] /\ changes \in 0..MaxChanges
    /\ \A u \in 1..Users : remote[u].uuid <= changes /\ remote[u].email <= changes /\ remote[u].key <= changes
    /\ \A u \in 1..Users : sync.list[u].uuid <= remote[u].uuid /\ sync.list[u].email <= remote[u].email

\* A client's uuid and email are of one user, and none is newer than the job was told.
Known(list, c) ==
    /\ c.uuid[1] = c.email[1]
    /\ c.email[1] # 0 => c.uuid[2] <= list[c.email[1]].uuid /\ c.email[2] <= list[c.email[1]].email
\* Of two clients of one user one has both the older uuid and the older email.
Older(c, d) == c.uuid[2] < d.uuid[2] /\ c.email[2] < d.email[2]
Apart(c, d) == c.email[1] = d.email[1] => c.email[1] # 0 /\ (Older(c, d) \/ Older(d, c))
Orderly(list, clients) ==
    /\ \A i \in DOMAIN clients : Known(list, clients[i])
    /\ \A i, j \in DOMAIN clients : i # j => Apart(clients[i], clients[j])

\* The tables. No two inbounds have one port or one tag; a tag is the port's or a user's.
TableTypes ==
    /\ DOMAIN inbounds \subseteq 1..MaxRows /\ inbounds \in [DOMAIN inbounds -> SyncRow]
    /\ \A id \in DOMAIN inbounds : inbounds[id].port \in SyncPorts
    /\ xray \subseteq XrayInbound
RowTags ==
    /\ \A i \in DOMAIN inbounds :
         inbounds[i].tag[1] # "remote" => inbounds[i].tag = <<"inbound", inbounds[i].port>>
    /\ \A i, j \in DOMAIN inbounds : i # j =>
         inbounds[i].port # inbounds[j].port /\ inbounds[i].tag # inbounds[j].tag
CutThere == \A s \in cut : s[1] \in DOMAIN inbounds
TableInv ==
    /\ TableTypes /\ RowTags /\ SyncMetered /\ CutThere
    /\ \A id \in DOMAIN inbounds : Orderly(sync.list, inbounds[id].clients)

\* The job, and what it has edited against what it has read.
Others(u, clients) == {c \in {clients[i] : i \in DOMAIN clients} : c.email[1] # u}
Edits(u, read, copy) ==
    /\ Others(u, copy.clients) = Others(u, read.clients)
    /\ copy.enable = read.enable /\ copy.remark = read.remark
    /\ read.remark[1] # u => copy.port = read.port /\ copy.key = read.key
JobInv ==
    /\ sync \in SyncState
    /\ sync.pc # "idle" => sync.at <= Users
    /\ sync.pc \in {"update", "again"} => sync.id \in 1..MaxRows /\ sync.copy.port \in SyncPorts
    /\ Orderly(sync.list, sync.copy.clients)
    /\ sync.pc = "update" => Edits(sync.at, sync.read, sync.copy)

SyncInv == RemoteInv /\ TableInv /\ JobInv

\* The row UpdateInbound saves of the row it is given.
Rewritten(row) == [row EXCEPT !.tag = <<"inbound", row.port>>]

\* What a run has done for the users before the one it is at.
ServedBy(u, row) ==
    /\ [uuid |-> uuidOf(u), email |-> emailOf(u)] \in {row.clients[i] : i \in DOMAIN row.clients}
    /\ row.remark # remarkOf(u) => getInboundByRemark(u) = {}
    /\ row.remark = remarkOf(u) => row.port = sync.list[u].port /\ row.key = <<u, sync.list[u].key>>
Has(u, id) ==
    /\ ServedBy(u, inbounds[id])
    /\ inbounds[id].enable /\ inbounds[id].vless =>
         \E x \in xray : /\ x.tag = inbounds[id].tag /\ x.port = inbounds[id].port /\ x.key = inbounds[id].key
                         /\ uuidOf(u) \in x.uuids
ServesInv ==
    sync.calm =>
      /\ \A u \in 1..Users : u < sync.at /\ u \notin sync.failed /\ sync.list[u].listed =>
           \E id \in DOMAIN inbounds : Has(u, id)
      /\ sync.pc = "update" => sync.id \in DOMAIN inbounds /\ inbounds[sync.id] = sync.read
      /\ sync.pc = "again" =>
           /\ sync.id \in DOMAIN inbounds
           /\ inbounds[sync.id] = Rewritten(sync.copy)
      /\ sync.pc \in {"update", "again"} => ServedBy(sync.at, sync.copy)

(*------------------------- the operators of the model -------------------*)
\* A set of numbers that is not empty has a least one.
LEMMA LeastIn == ASSUME NEW S \in SUBSET Nat, S # {} PROVE Min(S) \in S
<1> DEFINE Less == {pair \in Nat \X Nat : pair[1] < pair[2]}
<1>1. WellFounded!IsWellFoundedOn(Less, Nat)
  BY WellFounded!NatLessThanWellFounded DEF WellFounded!OpToRel
<1>2. \E x \in S : \A y \in S : <<y, x>> \notin Less
  BY <1>1, WellFounded!WFMin
<1>3. \A x, y \in Nat : y < x => <<y, x>> \in Less
  OBVIOUS
<1>4. \A x, y \in Nat : <<y, x>> \notin Less => x <= y
  BY <1>3
<1>5. \E x \in S : \A y \in S : x <= y
  BY <1>2, <1>4
<1> QED BY <1>5 DEF Min

\* The id an inbound is added with is free.
LEMMA FreeID ==
    ASSUME DOMAIN inbounds \subseteq 1..MaxRows
    PROVE  nextID \in 1..MaxRows + 1 /\ nextID \notin DOMAIN inbounds
<1> DEFINE S == (1..MaxRows + 1) \ DOMAIN inbounds
<1>1. S \in SUBSET Nat /\ MaxRows + 1 \in S
  BY UsersAssumption
<1>2. Min(S) \in S
  BY <1>1, LeastIn
<1> QED BY <1>2 DEF nextID

\* An email or a uuid is a pair.
LEMMA NamePair ==
    ASSUME NEW name \in SyncName
    PROVE  /\ name = <<name[1], name[2]>> /\ name[1] \in 0..Users
           /\ name[1] # 0 => name[1] \in 1..Users /\ name[2] \in Nat
  BY UsersAssumption DEF SyncName

\* What the job was told of a user names his uuid and his email.
LEMMA NamesOf ==
    ASSUME sync \in SyncState, NEW u \in 1..Users
    PROVE  /\ uuidOf(u) = <<u, sync.list[u].uuid>> /\ emailOf(u) = <<u, sync.list[u].email>>
           /\ uuidOf(u) \in SyncName /\ emailOf(u) \in SyncName
           /\ sync.list[u].uuid \in Nat /\ sync.list[u].email \in Nat /\ sync.list[u].key \in Nat
           /\ sync.list[u].port \in SyncPorts
<1>1. sync.list[u] \in SyncUser
  BY DEF SyncState
<1>2. sync.list[u].uuid \in Nat /\ sync.list[u].email \in Nat
  BY <1>1 DEF SyncUser
<1>3. <<u, sync.list[u].uuid>> \in (1..Users) \X Nat /\ <<u, sync.list[u].email>> \in (1..Users) \X Nat
  BY <1>2
<1> QED BY <1>1, <1>2, <1>3 DEF SyncUser, SyncName, uuidOf, emailOf

\* Of clients that are in order at most one has the user's email or uuid, and it is not
\* newer; the others are older than what the job was told.
LEMMA OneMatch ==
    ASSUME sync \in SyncState, NEW u \in 1..Users, NEW clients \in Seq(SyncClient), Orderly(sync.list, clients),
           NEW i \in DOMAIN clients, clients[i].email = emailOf(u) \/ clients[i].uuid = uuidOf(u),
           NEW j \in DOMAIN clients, j # i, clients[j].email[1] = u
    PROVE  Older(clients[j], [uuid |-> uuidOf(u), email |-> emailOf(u)])
<1> DEFINE c == clients[i]
           d == clients[j]
<1>1. c \in SyncClient /\ d \in SyncClient /\ Known(sync.list, c) /\ Known(sync.list, d) /\ Apart(d, c)
  BY DEF Orderly
<1>2. /\ c.uuid \in SyncName /\ c.email \in SyncName /\ d.uuid \in SyncName /\ d.email \in SyncName
      /\ u # 0 /\ u \in Nat
  BY <1>1 DEF SyncClient
<1> HIDE DEF c, d
<1>3. c.email[1] = u /\ c.uuid[1] = u /\ d.email[1] = u /\ d.uuid[1] = u
  BY <1>1, NamesOf DEF c, d, Known
<1>4. c.uuid[2] \in Nat /\ c.email[2] \in Nat /\ d.uuid[2] \in Nat /\ d.email[2] \in Nat
  BY <1>2, <1>3, NamePair
<1>5. /\ c.uuid[2] <= sync.list[u].uuid /\ c.email[2] <= sync.list[u].email
      /\ d.uuid[2] <= sync.list[u].uuid /\ d.email[2] <= sync.list[u].email
      /\ c.uuid[2] = sync.list[u].uuid \/ c.email[2] = sync.list[u].email
  BY <1>1, <1>2, <1>3, NamesOf DEF c, Known
<1>6. Older(d, c) \/ Older(c, d)
  BY <1>1, <1>2, <1>3 DEF Apart
<1>8. sync.list[u].uuid \in Nat /\ sync.list[u].email \in Nat
  BY NamesOf
<1>7. d.uuid[2] < sync.list[u].uuid /\ d.email[2] < sync.list[u].email
  <2>1. CASE Older(c, d)
    BY <1>4, <1>5, <1>8, <2>1 DEF Older
  <2>2. CASE Older(d, c)
    BY <1>4, <1>5, <1>8, <2>2 DEF Older
  <2> QED BY <1>6, <2>1, <2>2
<1> QED BY <1>7, NamesOf DEF Older, d

\* With no match nobody of the user's is as new.
LEMMA NoMatch ==
    ASSUME sync \in SyncState, NEW u \in 1..Users, NEW d \in SyncClient, Known(sync.list, d), d.email[1] = u,
           d.email # emailOf(u), d.uuid # uuidOf(u)
    PROVE  Older(d, [uuid |-> uuidOf(u), email |-> emailOf(u)])
<1>1. d.uuid \in SyncName /\ d.email \in SyncName /\ u # 0 /\ u \in Nat
  BY DEF SyncClient
<1>2. d.uuid[1] = u
  BY DEF Known
<1>3. /\ d.uuid[2] \in Nat /\ d.email[2] \in Nat
      /\ d.uuid = <<u, d.uuid[2]>> /\ d.email = <<u, d.email[2]>>
  BY <1>1, <1>2, NamePair
<1>4. d.uuid[2] # sync.list[u].uuid /\ d.email[2] # sync.list[u].email
  BY <1>3, NamesOf
<1>5. d.uuid[2] <= sync.list[u].uuid /\ d.email[2] <= sync.list[u].email
  BY <1>1, <1>2 DEF Known
<1>6. d.uuid[2] < sync.list[u].uuid /\ d.email[2] < sync.list[u].email
  BY <1>3, <1>4, <1>5, NamesOf
<1> QED BY <1>6, NamesOf DEF Older

\* updateUserInbound puts the user into the clients, keeps those of the other users
\* and leaves all of them in order.
LEMMA Updated ==
    ASSUME sync \in SyncState, NEW u \in 1..Users, NEW clients \in Seq(SyncClient), Orderly(sync.list, clients)
    PROVE  LET new  == updateUserInbound(clients, u)
               user == [uuid |-> uuidOf(u), email |-> emailOf(u)]
           IN  /\ new \in Seq(SyncClient) /\ Orderly(sync.list, new)
               /\ \E i \in DOMAIN new : new[i] = user
               /\ \A c : c.email[1] # u =>
                    ((\E i \in DOMAIN new : new[i] = c) <=> (\E i \in DOMAIN clients : clients[i] = c))
<1> DEFINE new  == updateUserInbound(clients, u)
           user == [uuid |-> uuidOf(u), email |-> emailOf(u)]
           at   == {i \in DOMAIN clients : clients[i].email = emailOf(u) \/ clients[i].uuid = uuidOf(u)}
<1>1. /\ user \in SyncClient /\ user.email[1] = u /\ user.uuid[1] = u
      /\ user.email[2] = sync.list[u].email /\ user.uuid[2] = sync.list[u].uuid
  BY NamesOf DEF SyncClient
<1>2. Known(sync.list, user)
  BY <1>1, NamesOf DEF Known
<1>3. u # 0 /\ \A i \in DOMAIN clients : clients[i] \in SyncClient /\ Known(sync.list, clients[i])
  BY DEF Orderly
<1>4. CASE at = {}
  <2>1. new = Append(clients, user)
    BY <1>4 DEF updateUserInbound
  <2> DEFINE last == Len(clients) + 1
  <2>2. /\ new \in Seq(SyncClient) /\ DOMAIN new = DOMAIN clients \cup {last} /\ new[last] = user
        /\ \A i \in DOMAIN clients : new[i] = clients[i] /\ i # last
    <3> HIDE DEF user, new
    <3> QED BY <1>1, <2>1
  <2>3. \A i \in DOMAIN clients : clients[i].email[1] = u => Older(clients[i], user)
    BY <1>3, <1>4, NoMatch
  <2> HIDE DEF new, last, user
  <2>4. \A i \in DOMAIN new : Known(sync.list, new[i])
    BY <1>2, <1>3, <2>2
  <2>5. \A i, j \in DOMAIN new : i # j => Apart(new[i], new[j])
    <3>1. \A i \in DOMAIN clients : Apart(clients[i], user) /\ Apart(user, clients[i])
      BY <1>1, <1>3, <2>3 DEF Apart
    <3> QED BY <2>2, <3>1 DEF Orderly
  <2>6. \A c : c.email[1] # u =>
          ((\E i \in DOMAIN new : new[i] = c) <=> (\E i \in DOMAIN clients : clients[i] = c))
    BY <1>1, <2>2
  <2> QED BY <2>2, <2>4, <2>5, <2>6 DEF Orderly, new, user
<1>5. CASE at # {}
  <2> DEFINE k == Min(at)
  <2>1. k \in at
    <3>1. at \in SUBSET Nat
      OBVIOUS
    <3> QED BY <1>5, <3>1, LeastIn
  <2>2. new = [clients EXCEPT ![k] = user]
    BY <1>5 DEF updateUserInbound
  <2>a. k \in DOMAIN clients /\ (clients[k].email = emailOf(u) \/ clients[k].uuid = uuidOf(u))
    BY <2>1
  <2> HIDE DEF k, at
  <2>3. /\ new \in Seq(SyncClient) /\ DOMAIN new = DOMAIN clients /\ new[k] = user
        /\ \A i \in DOMAIN clients : i # k => new[i] = clients[i]
    <3> HIDE DEF user, new
    <3> QED BY <1>1, <2>2, <2>a
  <2>4. clients[k].email[1] = u
    BY <1>1, <1>3, <2>a DEF Known
  <2>5. \A j \in DOMAIN clients : j # k /\ clients[j].email[1] = u => Older(clients[j], user)
    BY <2>a, OneMatch
  <2> HIDE DEF new, user
  <2>6. \A i \in DOMAIN new : Known(sync.list, new[i])
    BY <1>2, <1>3, <2>3
  <2>7. \A i, j \in DOMAIN new : i # j => Apart(new[i], new[j])
    <3>1. \A i \in DOMAIN clients : i # k => Apart(clients[i], user) /\ Apart(user, clients[i])
      BY <1>1, <1>3, <2>5 DEF Apart
    <3> QED BY <2>3, <3>1 DEF Orderly
  <2>8. \A c : c.email[1] # u =>
          ((\E i \in DOMAIN new : new[i] = c) <=> (\E i \in DOMAIN clients : clients[i] = c))
    BY <1>1, <2>3, <2>4
  <2> QED BY <2>3, <2>6, <2>7, <2>8, <2>a DEF Orderly, new, user
<1> QED BY <1>4, <1>5

(*--------------------------------- rows ---------------------------------*)
\* A row in which one thing is set is a row, and the rest of it is as it was.
LEMMA RowClients ==
    ASSUME NEW row \in SyncRow, NEW clients \in Seq(SyncClient)
    PROVE  LET new == [row EXCEPT !.clients = clients]
           IN  /\ new \in SyncRow /\ new.clients = clients
               /\ new.remark = row.remark /\ new.enable = row.enable /\ new.vless = row.vless
               /\ new.tag = row.tag /\ new.port = row.port /\ new.key = row.key
  BY DEF SyncRow

\* Its tag is its port's, and nothing else of it differs.
LEMMA RowTagged ==
    ASSUME NEW row \in SyncRow, row.port \in SyncPorts
    PROVE  LET new == Rewritten(row)
           IN  /\ new \in SyncRow /\ new.clients = row.clients
               /\ new.remark = row.remark /\ new.enable = row.enable /\ new.vless = row.vless
               /\ new.tag = <<"inbound", row.port>> /\ new.port = row.port /\ new.key = row.key
<1>1. <<"inbound", row.port>> \in SyncTag
  BY DEF SyncTag
<1> QED BY <1>1 DEF SyncRow, Rewritten

\* A blank row is a row, and has no clients.
LEMMA BlankRow == Blank \in SyncRow /\ Blank.clients = <<>> /\ \A list : Orderly(list, <<>>)
<1>1. <<>> \in Seq(SyncClient) /\ <<"none", 0>> \in SyncTag
  BY DEF SyncTag
<1> QED BY <1>1 DEF Blank, SyncRow, Orderly

\* What Xray is given of a row.
LEMMA Config ==
    ASSUME NEW row \in SyncRow, row.port \in SyncPorts
    PROVE  LET new == GenXrayInboundConfig(row)
           IN  /\ new \in XrayInbound /\ new.tag = row.tag /\ new.port = row.port /\ new.key = row.key
               /\ row.vless => \A i \in DOMAIN row.clients : row.clients[i].uuid \in new.uuids
<1> DEFINE uuids == IF row.vless THEN {c.uuid : c \in ToSet(row.clients)} ELSE {}
<1>1. /\ row.tag \in SyncTag /\ row.key \in Nat \X Nat
      /\ \A i \in DOMAIN row.clients : row.clients[i] \in SyncClient
  BY DEF SyncRow
<1>2. uuids \in SUBSET SyncName /\ (row.vless => \A i \in DOMAIN row.clients : row.clients[i].uuid \in uuids)
  BY <1>1 DEF ToSet, SyncClient
<1>3. GenXrayInboundConfig(row) = [tag |-> row.tag, port |-> row.port, key |-> row.key, uuids |-> uuids]
  BY DEF GenXrayInboundConfig
<1> HIDE DEF uuids
<1> QED BY <1>1, <1>2, <1>3 DEF XrayInbound

\* A push leaves what Xray has of the other tags; one that does not fail gives it the
\* row when the row is enabled.
LEMMA Push ==
    ASSUME NEW has \in SUBSET XrayInbound, NEW tag, NEW row \in SyncRow, row.port \in SyncPorts
    PROVE  /\ Pushed(has, tag, row) \subseteq XrayInbound
           /\ \A x \in has : x.tag # tag => x \in Pushed(has, tag, row)
           /\ row.enable /\ ~PushFails(has, tag, row) => GenXrayInboundConfig(row) \in Pushed(has, tag, row)
  BY Config DEF Pushed, PushFails

\* The emails of a row.
LEMMA EmailsOf ==
    ASSUME NEW row
    PROVE  \A e : e \in Emails(row) <=> \E i \in DOMAIN row.clients : row.clients[i].email = e
  BY DEF Emails, ToSet

(*-------------------------------- handlers ------------------------------*)
\* UpdateInbound saves the row it is given under the tag of its port.
LEMMA SavedRow ==
    ASSUME TableTypes, NEW id, NEW row \in SyncRow, row.port \in SyncPorts, NEW reached \in BOOLEAN,
           UpdateInboundRow(id, row, reached)
    PROVE  LET new == Rewritten(row)
           IN  /\ id \in DOMAIN inbounds /\ DOMAIN inbounds' = DOMAIN inbounds
               /\ inbounds'[id] = new /\ new \in SyncRow
               /\ \A i \in DOMAIN inbounds : i # id => inbounds'[i] = inbounds[i] /\ inbounds[i].port # row.port
               /\ stats' = updateClientTraffics(id, inbounds[id], new)
               /\ xray' = (IF reached THEN Pushed(xray, inbounds[id].tag, new) ELSE xray)
               /\ TableTypes'
<1> DEFINE new == Rewritten(row)
<1>1. /\ id \in DOMAIN inbounds /\ inbounds' = [inbounds EXCEPT ![id] = new]
      /\ stats' = updateClientTraffics(id, inbounds[id], new)
      /\ xray' = (IF reached THEN Pushed(xray, inbounds[id].tag, new) ELSE xray)
      /\ \A i \in DOMAIN inbounds : i # id => inbounds[i].port # row.port
  BY DEF UpdateInboundRow, Refused, checkPortExist, Rewritten
<1>2. new \in SyncRow /\ new.port = row.port
  BY RowTagged
<1> HIDE DEF new
<1>3. xray' \subseteq XrayInbound
  BY <1>1, <1>2, Push DEF TableTypes
<1>4. /\ DOMAIN inbounds' = DOMAIN inbounds /\ inbounds'[id] = new
      /\ \A i \in DOMAIN inbounds : i # id => inbounds'[i] = inbounds[i]
      /\ inbounds' \in [DOMAIN inbounds -> SyncRow]
  BY <1>1, <1>2 DEF TableTypes
<1>5. TableTypes'
  BY <1>2, <1>3, <1>4 DEF TableTypes
<1> QED BY <1>1, <1>2, <1>4, <1>5 DEF new

\* What is in the table after a save, for those who need no more of it.
LEMMA SavedThere ==
    ASSUME TableTypes, NEW id, NEW row, row \in SyncRow, row.port \in SyncPorts,
           NEW reached \in BOOLEAN, UpdateInboundRow(id, row, reached)
    PROVE  inbounds'[id] = Rewritten(row)
<1> DEFINE new == Rewritten(row)
<1>1. id \in DOMAIN inbounds /\ inbounds' = [inbounds EXCEPT ![id] = new]
  BY DEF UpdateInboundRow, Refused, checkPortExist, Rewritten
<1> HIDE DEF new
<1>2. inbounds'[id] = new
  BY <1>1 DEF TableTypes
<1> QED BY <1>2 DEF new

\* An inbound is stored under an id that is free.
LEMMA StoredInbound ==
    ASSUME TableTypes, NEW row \in SyncRow, row.port \in SyncPorts, StoreInbound(row)
    PROVE  /\ nextID \in 1..MaxRows /\ nextID \notin DOMAIN inbounds
           /\ DOMAIN inbounds' = DOMAIN inbounds \cup {nextID} /\ inbounds'[nextID] = row
           /\ \A i \in DOMAIN inbounds :
                /\ inbounds'[i] = inbounds[i] /\ inbounds[i].port # row.port /\ inbounds[i].tag # row.tag
                /\ Emails(inbounds[i]) \cap Emails(row) = {}
           /\ stats' = stats \cup {<<nextID, e>> : e \in Emails(row)}
           /\ xray' \subseteq XrayInbound => TableTypes'
           /\ \A i \in DOMAIN inbounds' : inbounds'[i] \in SyncRow /\ inbounds'[i].port \in SyncPorts
<1>1. nextID \in 1..MaxRows /\ nextID \notin DOMAIN inbounds
  <2>1. nextID \in 1..MaxRows + 1 /\ nextID \notin DOMAIN inbounds
    BY FreeID DEF TableTypes
  <2> QED BY <2>1, UsersAssumption DEF StoreInbound
<1> DEFINE new == nextID
<1> HIDE DEF new
<1>2. /\ inbounds' = [i \in DOMAIN inbounds \cup {new} |-> IF i = new THEN row ELSE inbounds[i]]
      /\ stats' = stats \cup {<<new, e>> : e \in Emails(row)}
      /\ ~AddRefused(row)
  BY DEF StoreInbound, new
<1>3. \A i \in DOMAIN inbounds : /\ inbounds[i].port # row.port /\ inbounds[i].tag # row.tag
                                 /\ Emails(inbounds[i]) \cap Emails(row) = {}
  <2>1. 0 \notin DOMAIN inbounds
    BY DEF TableTypes
  <2> QED BY <1>2, <2>1 DEF AddRefused, checkPortExist, checkEmailExist
<1>4. /\ DOMAIN inbounds' = DOMAIN inbounds \cup {new} /\ inbounds'[new] = row
      /\ \A i \in DOMAIN inbounds : inbounds'[i] = inbounds[i]
      /\ inbounds' \in [DOMAIN inbounds \cup {new} -> SyncRow]
  BY <1>1, <1>2 DEF TableTypes, new
<1>5. \A i \in DOMAIN inbounds' : inbounds'[i] \in SyncRow /\ inbounds'[i].port \in SyncPorts
  BY <1>4 DEF TableTypes
<1>6. xray' \subseteq XrayInbound => TableTypes'
  BY <1>1, <1>4, <1>5 DEF TableTypes, new
<1> QED BY <1>1, <1>2, <1>3, <1>4, <1>5, <1>6 DEF new

\* What Xray takes of a row that is added.
LEMMA AddedXray ==
    ASSUME TableTypes, NEW row \in SyncRow, row.port \in SyncPorts, NEW reached \in BOOLEAN,
           AddInbound(row, reached)
    PROVE  /\ StoreInbound(row) /\ xray' \subseteq XrayInbound
           /\ xray' = (IF reached THEN Pushed(xray, row.tag, row) ELSE xray)
<1>1. StoreInbound(row) /\ xray' = (IF reached THEN Pushed(xray, row.tag, row) ELSE xray)
  BY DEF AddInbound
<1>2. xray' \subseteq XrayInbound
  BY <1>1, Push DEF TableTypes
<1> QED BY <1>1, <1>2

\* A list without its i-th element.
LEMMA Removed ==
    ASSUME NEW S, NEW s \in Seq(S), NEW i \in DOMAIN s
    PROVE  LET new == RemoveAt(s, i)
           IN  /\ new \in Seq(S) /\ DOMAIN new = 1 .. Len(s) - 1
               /\ \A j \in DOMAIN new : new[j] = IF j < i THEN s[j] ELSE s[j + 1]
<1> DEFINE one == SubSeq(s, 1, i - 1)
           two == SubSeq(s, i + 1, Len(s))
<1>1. Len(s) \in Nat /\ DOMAIN s = 1 .. Len(s) /\ i \in 1 .. Len(s)
  OBVIOUS
<1>2. /\ one \in Seq(S) /\ Len(one) = i - 1
      /\ \A j \in 1 .. i - 1 : one[j] = s[j]
  <2>1. \A j \in 1 .. i - 1 : s[j] \in S
    BY <1>1
  <2> QED BY <1>1, <2>1, Sequence!SubSeqProperties
<1>3. /\ two \in Seq(S) /\ Len(two) = Len(s) - i
      /\ \A j \in 1 .. Len(s) - i : two[j] = s[i + j]
  <2>1. \A j \in i + 1 .. Len(s) : s[j] \in S
    BY <1>1
  <2>2. /\ two \in Seq(S) /\ Len(two) = (IF i + 1 <= Len(s) THEN Len(s) - (i + 1) + 1 ELSE 0)
        /\ \A j \in 1 .. Len(s) - (i + 1) + 1 : two[j] = s[i + 1 + j - 1]
    BY <1>1, <2>1, Sequence!SubSeqProperties
  <2> QED BY <1>1, <2>2
<1> HIDE DEF one, two
<1>4. /\ one \o two \in Seq(S) /\ Len(one \o two) = Len(s) - 1
      /\ \A j \in 1 .. Len(s) - 1 : (one \o two)[j] = IF j <= i - 1 THEN one[j] ELSE two[j - (i - 1)]
  <2>1. Len(one) + Len(two) = Len(s) - 1
    BY <1>1, <1>2, <1>3
  <2>2. one \in Seq(S) /\ two \in Seq(S)
    BY <1>2, <1>3
  <2>3. /\ one \o two \in Seq(S) /\ Len(one \o two) = Len(one) + Len(two)
        /\ \A j \in 1 .. Len(one) + Len(two) :
             (one \o two)[j] = IF j <= Len(one) THEN one[j] ELSE two[j - Len(one)]
    BY <2>2, Sequence!ConcatProperties
  <2> QED BY <1>2, <2>1, <2>3
<1>5. ASSUME NEW j \in 1 .. Len(s) - 1 PROVE (one \o two)[j] = IF j < i THEN s[j] ELSE s[j + 1]
  <2>1. CASE j < i
    <3>1. j \in 1 .. i - 1 /\ j <= i - 1
      BY <1>1, <2>1
    <3> QED BY <1>2, <1>4, <2>1, <3>1
  <2>2. CASE j >= i
    <3>1. j - (i - 1) \in 1 .. Len(s) - i /\ ~(j <= i - 1) /\ i + (j - (i - 1)) = j + 1 /\ ~(j < i)
      BY <1>1, <2>2
    <3>2. (one \o two)[j] = two[j - (i - 1)]
      BY <1>4, <3>1
    <3>3. \A k \in 1 .. Len(s) - i : two[k] = s[i + k]
      BY <1>3
    <3>4. two[j - (i - 1)] = s[i + (j - (i - 1))]
      BY <3>1, <3>3
    <3> QED BY <3>1, <3>2, <3>4
  <2>3. j < i \/ j >= i
    <3>1. i \in Int /\ j \in Int
      BY <1>1
    <3> QED BY <3>1
  <2> QED BY <2>1, <2>2, <2>3
<1>6. RemoveAt(s, i) = one \o two /\ DOMAIN (one \o two) = 1 .. Len(one \o two)
  BY <1>4 DEF RemoveAt, one, two
<1> QED BY <1>1, <1>4, <1>5, <1>6

\* The clients that stay are the others, in order, when they were.
LEMMA RemovedClients ==
    ASSUME NEW clients \in Seq(SyncClient), Orderly(sync.list, clients), NEW i \in DOMAIN clients
    PROVE  LET new == RemoveAt(clients, i)
           IN  /\ new \in Seq(SyncClient) /\ Orderly(sync.list, new)
               /\ \A e : (\E j \in DOMAIN new : new[j].email = e)
                         <=> (\E j \in DOMAIN clients : clients[j].email = e) /\ e # clients[i].email
<1> DEFINE new == RemoveAt(clients, i)
           from(j) == IF j < i THEN j ELSE j + 1
<1>1. /\ new \in Seq(SyncClient) /\ DOMAIN new = 1 .. Len(clients) - 1
      /\ \A j \in DOMAIN new : new[j] = clients[from(j)]
  BY Removed
<1> HIDE DEF new
<1>2. /\ \A j \in DOMAIN new : from(j) \in DOMAIN clients /\ from(j) # i
      /\ \A j, k \in DOMAIN new : j # k => from(j) # from(k)
      /\ \A k \in DOMAIN clients : k # i => \E j \in DOMAIN new : from(j) = k
  <2>1. Len(clients) \in Nat /\ DOMAIN clients = 1 .. Len(clients) /\ i \in 1 .. Len(clients)
    OBVIOUS
  <2>2. ASSUME NEW k \in DOMAIN clients, k # i PROVE \E j \in DOMAIN new : from(j) = k
    <3>1. CASE k < i
      BY <1>1, <2>1, <2>2, <3>1
    <3>2. CASE k > i
      <4>1. k - 1 \in DOMAIN new /\ from(k - 1) = k
        BY <1>1, <2>1, <2>2, <3>2
      <4> QED BY <4>1
    <3> QED BY <2>1, <2>2, <3>1, <3>2
  <2>3. \A j \in DOMAIN new : from(j) \in DOMAIN clients /\ from(j) # i
    BY <1>1, <2>1
  <2>4. \A j, k \in DOMAIN new : j # k => from(j) # from(k)
    BY <1>1, <2>1
  <2> QED BY <2>2, <2>3, <2>4
<1> HIDE DEF from
<1>3. Orderly(sync.list, new)
  BY <1>1, <1>2 DEF Orderly
<1>4. \A j \in DOMAIN clients : j # i => clients[j].email # clients[i].email
  <2> SUFFICES ASSUME NEW j \in DOMAIN clients, j # i, clients[j].email = clients[i].email PROVE FALSE
    OBVIOUS
  <2>1. /\ clients[i] \in SyncClient /\ clients[j] \in SyncClient
        /\ Apart(clients[j], clients[i]) /\ Known(sync.list, clients[i])
    BY DEF Orderly
  <2>2. clients[i].email \in SyncName /\ clients[i].email[1] # 0
    BY <2>1 DEF SyncClient, Apart
  <2>3. clients[i].email[2] \in Nat
    BY <2>2, NamePair
  <2> QED BY <2>1, <2>2, <2>3 DEF Apart, Older
<1>5. \A e : (\E j \in DOMAIN new : new[j].email = e)
             <=> (\E j \in DOMAIN clients : clients[j].email = e) /\ e # clients[i].email
  BY <1>1, <1>2, <1>4
<1> QED BY <1>1, <1>3, <1>5 DEF new

(*----------------------------- traffic rows -----------------------------*)
\* SyncMetered, row by row.
LEMMA MeteredRows ==
    SyncMetered <=> \A s : s \notin cut =>
                      (s \in stats <=> \E id \in DOMAIN inbounds : \E e \in Emails(inbounds[id]) : s = <<id, e>>)
<1> DEFINE clients == UNION {{<<id, e>> : e \in Emails(inbounds[id])} : id \in DOMAIN inbounds}
<1>1. \A s : s \in clients <=> \E id \in DOMAIN inbounds : \E e \in Emails(inbounds[id]) : s = <<id, e>>
  OBVIOUS
<1>2. SyncMetered <=> stats \ cut = clients \ cut
  BY DEF SyncMetered
<1> HIDE DEF clients
<1>3. stats \ cut = clients \ cut <=> \A s : s \notin cut => (s \in stats <=> s \in clients)
  <2>1. ASSUME stats \ cut = clients \ cut, NEW s, s \notin cut PROVE s \in stats <=> s \in clients
    <3>1. s \in stats \ cut <=> s \in clients \ cut
      BY <2>1
    <3> QED BY <2>1, <3>1
  <2>2. ASSUME \A s : s \notin cut => (s \in stats <=> s \in clients) PROVE stats \ cut = clients \ cut
    BY <2>2
  <2> QED BY <2>1, <2>2
<1> QED BY <1>1, <1>2, <1>3

\* The same of the next state.
LEMMA MeteredNext ==
    ASSUME \A s : s \notin cut' =>
             (s \in stats' <=> \E id \in DOMAIN inbounds' : \E e \in Emails(inbounds'[id]) : s = <<id, e>>)
    PROVE  SyncMetered'
<1> DEFINE clients == UNION {{<<id, e>> : e \in Emails(inbounds[id])} : id \in DOMAIN inbounds}
<1>1. \A s : s \in clients' <=> \E id \in DOMAIN inbounds' : \E e \in Emails(inbounds'[id]) : s = <<id, e>>
  BY DEF Emails
<1>2. SyncMetered' <=> stats' \ cut' = clients' \ cut'
  BY DEF SyncMetered
<1> HIDE DEF clients
<1>3. stats' \ cut' = clients' \ cut'
  BY <1>1
<1> QED BY <1>2, <1>3

\* updateClientTraffics follows the clients of the stored row to those of the new one.
LEMMA SavedMetered ==
    ASSUME SyncMetered, NEW id \in DOMAIN inbounds, NEW new,
           DOMAIN inbounds' = DOMAIN inbounds, inbounds'[id] = new,
           \A i \in DOMAIN inbounds : i # id => inbounds'[i] = inbounds[i],
           stats' = updateClientTraffics(id, inbounds[id], new), cut' = cut
    PROVE  SyncMetered'
<1> DEFINE Mail(i) == Emails(inbounds[i])
           Next(i) == Emails(inbounds'[i])
<1>1. \A s : s \notin cut => (s \in stats <=> \E i \in DOMAIN inbounds : \E e \in Mail(i) : s = <<i, e>>)
  BY MeteredRows
<1>2. Next(id) = Emails(new) /\ \A i \in DOMAIN inbounds : i # id => Next(i) = Mail(i)
  OBVIOUS
<1>3. stats' = {s \in stats : s[1] # id \/ s[2] \notin Mail(id) \ Next(id)}
                 \cup {<<id, e>> : e \in Next(id) \ Mail(id)}
  BY <1>2 DEF updateClientTraffics
<1> HIDE DEF Mail, Next
<1>4. ASSUME NEW s, s \notin cut PROVE s \in stats' <=> \E i \in DOMAIN inbounds : \E e \in Next(i) : s = <<i, e>>
  <2>1. ASSUME s \in stats' PROVE \E i \in DOMAIN inbounds : \E e \in Next(i) : s = <<i, e>>
    <3>1. CASE s \in {<<id, e>> : e \in Next(id) \ Mail(id)}
      BY <3>1
    <3>2. CASE s \in stats /\ (s[1] # id \/ s[2] \notin Mail(id) \ Next(id))
      <4>1. PICK i \in DOMAIN inbounds : \E e \in Mail(i) : s = <<i, e>>
        BY <1>1, <1>4, <3>2
      <4> QED BY <1>2, <3>2, <4>1
    <3> QED BY <1>3, <2>1, <3>1, <3>2
  <2>2. ASSUME NEW i \in DOMAIN inbounds, NEW e \in Next(i), s = <<i, e>> PROVE s \in stats'
    <3>1. CASE e \in Mail(i)
      <4>1. s \in stats
        BY <1>1, <1>4, <2>2, <3>1
      <4> QED BY <1>2, <1>3, <2>2, <4>1
    <3>2. CASE e \notin Mail(i)
      BY <1>2, <1>3, <2>2, <3>2
    <3> QED BY <3>1, <3>2
  <2> QED BY <2>1, <2>2
<1>5. \A s : s \notin cut' =>
        (s \in stats' <=> \E i \in DOMAIN inbounds' : \E e \in Emails(inbounds'[i]) : s = <<i, e>>)
  BY <1>4 DEF Next
<1> QED BY <1>5, MeteredNext

\* Rows of one inbound that come, or go, with it.
LEMMA OneMetered ==
    ASSUME SyncMetered, NEW id,
           \A i : i # id => (i \in DOMAIN inbounds' <=> i \in DOMAIN inbounds),
           \A i \in DOMAIN inbounds : i # id => inbounds'[i] = inbounds[i],
           \A s : s[1] # id => (s \in stats' <=> s \in stats) /\ (s \in cut' <=> s \in cut),
           \A s : s[1] = id /\ s \notin cut' =>
             (s \in stats' <=> id \in DOMAIN inbounds' /\ \E e \in Emails(inbounds'[id]) : s = <<id, e>>)
    PROVE  SyncMetered'
<1>1. \A s : s \notin cut => (s \in stats <=> \E i \in DOMAIN inbounds : \E e \in Emails(inbounds[i]) : s = <<i, e>>)
  BY MeteredRows
<1>2. \A s : s \notin cut' =>
        (s \in stats' <=> \E i \in DOMAIN inbounds' : \E e \in Emails(inbounds'[i]) : s = <<i, e>>)
  <2> SUFFICES ASSUME NEW s, s \notin cut'
               PROVE  s \in stats' <=> \E i \in DOMAIN inbounds' : \E e \in Emails(inbounds'[i]) : s = <<i, e>>
    OBVIOUS
  <2>1. CASE s[1] = id
    BY <2>1
  <2>2. CASE s[1] # id
    <3>1. (s \in stats' <=> s \in stats) /\ s \notin cut
      BY <2>2
    <3>2. (\E i \in DOMAIN inbounds' : \E e \in Emails(inbounds'[i]) : s = <<i, e>>)
          <=> (\E i \in DOMAIN inbounds : \E e \in Emails(inbounds[i]) : s = <<i, e>>)
      BY <2>2
    <3> QED BY <1>1, <3>1, <3>2
  <2> QED BY <2>1, <2>2
<1> QED BY <1>2, MeteredNext

(*------------------------- the tables, step by step ---------------------*)
\* UpdateInbound keeps the tables in order when the row it is given is.
LEMMA SavedTable ==
    ASSUME TableInv, NEW id, NEW row \in SyncRow, row.port \in SyncPorts, NEW reached \in BOOLEAN,
           Orderly(sync.list, row.clients), UpdateInboundRow(id, row, reached), sync'.list = sync.list, cut' = cut
    PROVE  TableInv'
<1>0. TableTypes
  BY DEF TableInv
<1>1. /\ id \in DOMAIN inbounds /\ DOMAIN inbounds' = DOMAIN inbounds /\ inbounds'[id] = Rewritten(row)
      /\ \A i \in DOMAIN inbounds : i # id => inbounds'[i] = inbounds[i] /\ inbounds[i].port # row.port
  BY <1>0, SavedRow
<1>2. TableTypes'
  BY <1>0, SavedRow
<1>3. stats' = updateClientTraffics(id, inbounds[id], Rewritten(row))
  BY DEF UpdateInboundRow, Rewritten
<1> DEFINE new == Rewritten(row)
<1>4. new.clients = row.clients /\ new.port = row.port /\ new.tag = <<"inbound", row.port>>
  BY RowTagged
<1>5. inbounds'[id] = new /\ stats' = updateClientTraffics(id, inbounds[id], new)
  BY <1>1, <1>3
<1> HIDE DEF new
<1>6. RowTags'
  <2>1. \A i \in DOMAIN inbounds : i # id => inbounds[i].tag # new.tag
    BY <1>1, <1>4 DEF TableInv, RowTags
  <2> QED BY <1>1, <1>4, <1>5, <2>1 DEF TableInv, RowTags
<1>7. SyncMetered'
  BY <1>1, <1>5, SavedMetered DEF TableInv
<1>8. \A i \in DOMAIN inbounds' : Orderly(sync'.list, inbounds'[i].clients)
  BY <1>1, <1>4, <1>5 DEF TableInv
<1>9. CutThere'
  BY <1>1 DEF TableInv, CutThere
<1> QED BY <1>2, <1>6, <1>7, <1>8, <1>9 DEF TableInv

\* An inbound that is stored does so too; its tag is the user's or the port's.
LEMMA StoredTable ==
    ASSUME TableInv, NEW row \in SyncRow, row.port \in SyncPorts,
           row.tag[1] # "remote" => row.tag = <<"inbound", row.port>>, Orderly(sync.list, row.clients),
           StoreInbound(row), xray' \subseteq XrayInbound, sync'.list = sync.list, cut' = cut
    PROVE  TableInv'
<1> DEFINE id == nextID
<1> HIDE DEF id
<1>1. /\ id \notin DOMAIN inbounds /\ DOMAIN inbounds' = DOMAIN inbounds \cup {id} /\ inbounds'[id] = row
      /\ \A i \in DOMAIN inbounds :
           inbounds'[i] = inbounds[i] /\ inbounds[i].port # row.port /\ inbounds[i].tag # row.tag
      /\ stats' = stats \cup {<<id, e>> : e \in Emails(row)} /\ TableTypes'
  BY StoredInbound DEF TableInv, id
<1>2. RowTags'
  BY <1>1 DEF TableInv, RowTags
<1>3. SyncMetered'
  <2>1. \A s \in stats : s[1] # id
    BY <1>1, MeteredRows DEF TableInv, CutThere
  <2>2. \A s : s[1] = id => (s \in stats' <=> \E e \in Emails(row) : s = <<id, e>>)
    BY <1>1, <2>1
  <2> QED BY <1>1, <2>2, OneMetered DEF TableInv
<1>4. \A i \in DOMAIN inbounds' : Orderly(sync'.list, inbounds'[i].clients)
  BY <1>1 DEF TableInv
<1>5. CutThere'
  BY <1>1 DEF TableInv, CutThere
<1> QED BY <1>1, <1>2, <1>3, <1>4, <1>5 DEF TableInv

\* AddInbound, whether or not Xray is reached.
LEMMA AddedTable ==
    ASSUME TableInv, NEW row \in SyncRow, row.port \in SyncPorts, NEW reached \in BOOLEAN,
           row.tag[1] # "remote" => row.tag = <<"inbound", row.port>>, Orderly(sync.list, row.clients),
           AddInbound(row, reached), sync'.list = sync.list, cut' = cut
    PROVE  TableInv'
<1>1. StoreInbound(row) /\ xray' \subseteq XrayInbound
  BY AddedXray DEF TableInv
<1> QED BY <1>1, StoredTable

\* A call that is cut off after its traffic rows leaves the rest of the tables as it was.
LEMMA CutTable ==
    ASSUME TableInv, inbounds' = inbounds, xray' \subseteq XrayInbound, sync'.list = sync.list,
           \A s : s \notin cut' => s \notin cut /\ (s \in stats' <=> s \in stats),
           \A s \in cut' : s \in cut \/ s[1] \in DOMAIN inbounds
    PROVE  TableInv'
<1>1. TableTypes' /\ RowTags'
  BY DEF TableInv, TableTypes, RowTags
<1>2. \A s : s \notin cut' =>
        (s \in stats' <=> \E id \in DOMAIN inbounds' : \E e \in Emails(inbounds'[id]) : s = <<id, e>>)
  BY MeteredRows DEF TableInv
<1>3. SyncMetered'
  BY <1>2, MeteredNext
<1>4. CutThere' /\ \A id \in DOMAIN inbounds' : Orderly(sync'.list, inbounds'[id].clients)
  BY DEF TableInv, CutThere
<1> QED BY <1>1, <1>3, <1>4 DEF TableInv

\* DelInboundClient takes the traffic row of the one client that has the email.
LEMMA DroppedWhole ==
    ASSUME TableInv, NEW id \in DOMAIN inbounds, NEW i \in DOMAIN inbounds[id].clients,
           inbounds' = [inbounds EXCEPT ![id].clients = RemoveAt(@, i)],
           stats' = stats \ {<<id, inbounds[id].clients[i].email>>},
           xray' = {[x EXCEPT !.uuids = IF x.tag = inbounds[id].tag
                                        THEN @ \ {inbounds[id].clients[i].uuid} ELSE @] : x \in xray},
           cut' = cut, sync'.list = sync.list
    PROVE  TableInv'
<1> DEFINE row     == inbounds[id]
           email   == row.clients[i].email
           clients == RemoveAt(row.clients, i)
           new     == [row EXCEPT !.clients = clients]
<1>1. row \in SyncRow /\ row.clients \in Seq(SyncClient) /\ row.port \in SyncPorts /\ Orderly(sync.list, row.clients)
  BY DEF TableInv, TableTypes, SyncRow
<1>2. /\ clients \in Seq(SyncClient) /\ Orderly(sync.list, clients)
      /\ \A e : (\E j \in DOMAIN clients : clients[j].email = e)
                <=> (\E j \in DOMAIN row.clients : row.clients[j].email = e) /\ e # email
  BY <1>1, RemovedClients
<1> HIDE DEF clients
<1>3. /\ new \in SyncRow /\ new.clients = clients /\ new.port = row.port /\ new.tag = row.tag
  BY <1>1, <1>2, RowClients
<1>4. /\ inbounds' = [inbounds EXCEPT ![id] = new]
      /\ stats' = stats \ {<<id, email>>}
      /\ xray' = {[x EXCEPT !.uuids = IF x.tag = row.tag THEN @ \ {row.clients[i].uuid} ELSE @] : x \in xray}
  BY DEF TableInv, TableTypes, clients
<1> HIDE DEF new
<1>5. /\ DOMAIN inbounds' = DOMAIN inbounds /\ inbounds'[id] = new
      /\ \A j \in DOMAIN inbounds : j # id => inbounds'[j] = inbounds[j]
      /\ inbounds' \in [DOMAIN inbounds -> SyncRow]
  BY <1>3, <1>4 DEF TableInv, TableTypes
<1>6. xray' \subseteq XrayInbound
  <2>1. ASSUME NEW x \in XrayInbound, NEW uuids \in SUBSET SyncName
        PROVE  [x EXCEPT !.uuids = uuids] \in XrayInbound
    BY <2>1 DEF XrayInbound
  <2>2. ASSUME NEW x \in xray
        PROVE  (IF x.tag = row.tag THEN x.uuids \ {row.clients[i].uuid} ELSE x.uuids) \in SUBSET SyncName
    BY DEF TableInv, TableTypes, XrayInbound
  <2>3. ASSUME NEW x \in xray
        PROVE  [x EXCEPT !.uuids = IF x.tag = row.tag THEN @ \ {row.clients[i].uuid} ELSE @] \in XrayInbound
    BY <2>1, <2>2 DEF TableInv, TableTypes
  <2> QED BY <1>4, <2>3
<1>7. TableTypes'
  BY <1>1, <1>3, <1>5, <1>6 DEF TableInv, TableTypes
<1>8. RowTags'
  BY <1>3, <1>5 DEF TableInv, RowTags
<1>9. SyncMetered'
  <2>1. \A e : e \in Emails(new) <=> e \in Emails(row) /\ e # email
    <3>1. \A e : e \in Emails(new) <=> \E j \in DOMAIN clients : clients[j].email = e
      BY <1>3, EmailsOf
    <3>2. \A e : e \in Emails(row) <=> \E j \in DOMAIN row.clients : row.clients[j].email = e
      BY EmailsOf
    <3> HIDE DEF row, email
    <3> QED BY <1>2, <3>1, <3>2
  <2>2. \A s : s[1] = id /\ s \notin cut => (s \in stats <=> \E e \in Emails(row) : s = <<id, e>>)
    BY MeteredRows DEF TableInv
  <2>3. \A s : s[1] = id /\ s \notin cut => (s \in stats' <=> \E e \in Emails(new) : s = <<id, e>>)
    BY <1>4, <2>1, <2>2
  <2>4. \A s : s[1] # id => (s \in stats' <=> s \in stats)
    BY <1>4
  <2> QED BY <1>5, <2>3, <2>4, OneMetered DEF TableInv
<1>a. \A j \in DOMAIN inbounds' : Orderly(sync'.list, inbounds'[j].clients)
  BY <1>2, <1>3, <1>5 DEF TableInv
<1>b. CutThere'
  BY <1>5 DEF TableInv, CutThere
<1> QED BY <1>7, <1>8, <1>9, <1>a, <1>b DEF TableInv

\* So does the one that is cut off before the settings are saved.
LEMMA DroppedTable ==
    ASSUME TableInv, NEW id \in DOMAIN inbounds, NEW i \in DOMAIN inbounds[id].clients,
           AdminDropsClient(id, i), sync'.list = sync.list
    PROVE  TableInv'
<1> DEFINE pair == <<id, inbounds[id].clients[i].email>>
<1>1. stats' = stats \ {pair}
  BY DEF AdminDropsClient
<1>2. CASE cut' = cut \cup {pair} /\ inbounds' = inbounds /\ xray' = xray
  <2>1. xray' \subseteq XrayInbound
    BY <1>2 DEF TableInv, TableTypes
  <2>2. pair[1] \in DOMAIN inbounds
    OBVIOUS
  <2> HIDE DEF pair
  <2>3. /\ \A s : s \notin cut' => s \notin cut /\ (s \in stats' <=> s \in stats)
        /\ \A s \in cut' : s \in cut \/ s[1] \in DOMAIN inbounds
    BY <1>1, <1>2, <2>2
  <2> QED BY <1>2, <2>1, <2>3, CutTable
<1>3. CASE ~(cut' = cut \cup {pair} /\ inbounds' = inbounds /\ xray' = xray)
  <2>1. /\ inbounds' = [inbounds EXCEPT ![id].clients = RemoveAt(@, i)] /\ cut' = cut
        /\ xray' = {[x EXCEPT !.uuids = IF x.tag = inbounds[id].tag
                                        THEN @ \ {inbounds[id].clients[i].uuid} ELSE @] : x \in xray}
    BY <1>3 DEF AdminDropsClient
  <2> QED BY <1>1, <2>1, DroppedWhole
<1> QED BY <1>2, <1>3

\* An inbound that goes takes its traffic rows with it.
LEMMA DeletedTable ==
    ASSUME TableInv, NEW id \in DOMAIN inbounds, AdminDeletes(id), sync'.list = sync.list
    PROVE  TableInv'
<1>1. /\ inbounds' = [i \in DOMAIN inbounds \ {id} |-> inbounds[i]]
      /\ stats' = {s \in stats : s[1] # id} /\ cut' = {s \in cut : s[1] # id} /\ xray' \subseteq xray
  BY DEF AdminDeletes
<1>2. /\ DOMAIN inbounds' = DOMAIN inbounds \ {id}
      /\ \A i \in DOMAIN inbounds : i # id => inbounds'[i] = inbounds[i]
  BY <1>1
<1>3. TableTypes'
  BY <1>1 DEF TableInv, TableTypes
<1>4. RowTags' /\ \A i \in DOMAIN inbounds' : Orderly(sync'.list, inbounds'[i].clients)
  BY <1>2 DEF TableInv, RowTags
<1>5. SyncMetered'
  BY <1>1, <1>2, OneMetered DEF TableInv
<1>6. CutThere'
  BY <1>1, <1>2 DEF TableInv, CutThere
<1> QED BY <1>3, <1>4, <1>5, <1>6 DEF TableInv

\* A start of Xray gives it the rows that are enabled.
LEMMA StartTypes ==
    ASSUME NEW rows, \A id \in DOMAIN rows : rows[id] \in SyncRow /\ rows[id].port \in SyncPorts
    PROVE  StartedWith(rows) \subseteq XrayInbound
<1>1. \A id \in DOMAIN rows : GenXrayInboundConfig(rows[id]) \in XrayInbound
  BY Config
<1> QED BY <1>1 DEF StartedWith

LEMMA StartedTable ==
    ASSUME TableInv, XrayStarts
    PROVE  TableInv'
<1>1. \A id \in DOMAIN inbounds : inbounds[id] \in SyncRow /\ inbounds[id].port \in SyncPorts
  BY DEF TableInv, TableTypes
<1>2. xray' \subseteq XrayInbound
  BY <1>1, StartTypes DEF XrayStarts
<1> QED BY <1>2 DEF XrayStarts, TableInv, TableTypes, RowTags, SyncMetered, CutThere

\* What the job is told next is newer; clients that were in order remain so.
LEMMA OlderTable ==
    ASSUME TableInv, UNCHANGED <<inbounds, stats, xray, cut>>,
           \A u \in 1..Users : /\ sync.list[u].uuid \in Nat /\ sync'.list[u].uuid \in Nat
                               /\ sync.list[u].email \in Nat /\ sync'.list[u].email \in Nat
                               /\ sync.list[u].uuid <= sync'.list[u].uuid
                               /\ sync.list[u].email <= sync'.list[u].email
    PROVE  TableInv'
<1>1. TableTypes' /\ RowTags' /\ SyncMetered' /\ CutThere'
  BY DEF TableInv, TableTypes, RowTags, SyncMetered, CutThere
<1>2. ASSUME NEW c \in SyncClient, Known(sync.list, c) PROVE Known(sync'.list, c)
  <2>1. c.email \in SyncName /\ c.uuid \in SyncName
    BY DEF SyncClient
  <2>2. CASE c.email[1] = 0
    BY <1>2, <2>2 DEF Known
  <2>3. CASE c.email[1] # 0
    <3>1. c.email[1] \in 1..Users /\ c.email[2] \in Nat /\ c.uuid[1] = c.email[1]
      BY <1>2, <2>1, <2>3, NamePair DEF Known
    <3>2. c.uuid[2] \in Nat
      BY <2>1, <2>3, <3>1, NamePair
    <3> QED BY <1>2, <2>3, <3>1, <3>2 DEF Known
  <2> QED BY <2>2, <2>3
<1>3. \A id \in DOMAIN inbounds : \A i \in DOMAIN inbounds[id].clients : inbounds[id].clients[i] \in SyncClient
  BY DEF TableInv, TableTypes, SyncRow
<1>4. \A id \in DOMAIN inbounds : Orderly(sync'.list, inbounds[id].clients)
  BY <1>2, <1>3 DEF TableInv, Orderly
<1> QED BY <1>1, <1>4 DEF TableInv

(*--------------------------------- the job ------------------------------*)
\* The job at its next user.
LEMMA NextState ==
    ASSUME sync \in SyncState, sync.at \in 1..Users, NEW ok \in BOOLEAN
    PROVE  LET next == NextUser(sync, ok)
           IN  /\ next \in SyncState /\ next.list = sync.list /\ next.at = sync.at + 1
               /\ next.pc \in {"idle", "find"} /\ (next.pc # "idle" => next.at <= Users)
               /\ next.copy = Blank /\ next.calm = sync.calm
               /\ next.failed = IF ok THEN sync.failed ELSE sync.failed \cup {sync.at}
<1> DEFINE pc     == IF sync.at = Users THEN "idle" ELSE "find"
           failed == IF ok THEN sync.failed ELSE sync.failed \cup {sync.at}
<1>1. /\ pc \in {"idle", "find"} /\ (pc # "idle" => sync.at + 1 <= Users)
      /\ sync.at + 1 \in 1..Users + 1
  BY UsersAssumption
<1>2. failed \in SUBSET (1..Users)
  BY DEF SyncState
<1>3. NextUser(sync, ok) =
        [pc |-> pc, list |-> sync.list, at |-> sync.at + 1, id |-> 0, read |-> Blank, copy |-> Blank,
         changed |-> FALSE, failed |-> failed, calm |-> sync.calm]
  <2>1. sync = [pc |-> sync.pc, list |-> sync.list, at |-> sync.at, id |-> sync.id, read |-> sync.read,
                copy |-> sync.copy, changed |-> sync.changed, failed |-> sync.failed, calm |-> sync.calm]
    BY DEF SyncState
  <2>2. NextUser(sync, ok) = [sync EXCEPT !.pc = pc, !.at = sync.at + 1, !.failed = failed, !.id = 0,
                                          !.read = Blank, !.copy = Blank, !.changed = FALSE]
    BY DEF NextUser, SyncState
  <2> HIDE DEF pc, failed
  <2> QED BY <2>1, <2>2
<1> HIDE DEF pc, failed
<1>4. /\ sync.list \in [1..Users -> SyncUser] /\ sync.calm \in BOOLEAN
      /\ Blank \in SyncRow /\ 0 \in Nat
      /\ pc \in {"idle", "find", "update", "again", "create"}
  BY <1>1, BlankRow DEF SyncState
<1>5. NextUser(sync, ok) \in SyncState
  BY <1>1, <1>2, <1>3, <1>4 DEF SyncState
<1>6. /\ NextUser(sync, ok).list = sync.list /\ NextUser(sync, ok).at = sync.at + 1
      /\ NextUser(sync, ok).pc = pc /\ NextUser(sync, ok).copy = Blank
      /\ NextUser(sync, ok).failed = failed /\ NextUser(sync, ok).calm = sync.calm
  BY <1>3
<1> QED BY <1>1, <1>5, <1>6 DEF failed

\* Whether the run is calm is noted beside the rest.
LEMMA Calmed ==
    ASSUME NEW s \in SyncState, NEW calm \in BOOLEAN
    PROVE  LET t == [s EXCEPT !.calm = calm]
           IN  /\ t \in SyncState /\ t.calm = calm /\ t.pc = s.pc /\ t.list = s.list /\ t.at = s.at /\ t.id = s.id
               /\ t.read = s.read /\ t.copy = s.copy /\ t.changed = s.changed /\ t.failed = s.failed
  BY DEF SyncState

\* What the remote panel says is as before, and as much has happened or more.
LEMMA SameRemote ==
    ASSUME RemoteInv, remote' = remote, sync'.list = sync.list, changes' = changes \/ Changes
    PROVE  RemoteInv'
<1>1. changes' \in 0..MaxChanges /\ changes <= changes' /\ changes \in Nat
  BY UsersAssumption DEF RemoteInv, Changes
<1>2. \A u \in 1..Users : remote[u].uuid \in Nat /\ remote[u].email \in Nat /\ remote[u].key \in Nat
  BY DEF RemoteInv, SyncUser
<1>3. ASSUME NEW n \in Nat, n <= changes PROVE n <= changes'
  BY <1>1, <1>3
<1> QED BY <1>1, <1>2, <1>3 DEF RemoteInv

\* The tables as they were.
LEMMA SameTable ==
    ASSUME TableInv, UNCHANGED <<inbounds, stats, xray, cut>>, sync'.list = sync.list
    PROVE  TableInv'
<1>1. TableTypes' /\ RowTags' /\ SyncMetered' /\ CutThere'
  BY DEF TableInv, TableTypes, RowTags, SyncMetered, CutThere
<1>2. \A id \in DOMAIN inbounds' : Orderly(sync'.list, inbounds'[id].clients)
  BY DEF TableInv
<1> QED BY <1>1, <1>2 DEF TableInv

\* A job that is as it was but for its calm.
LEMMA TouchedJob ==
    ASSUME JobInv, NEW calm \in BOOLEAN, sync' = [sync EXCEPT !.calm = calm]
    PROVE  JobInv' /\ sync'.list = sync.list
<1>1. /\ sync' \in SyncState /\ sync'.pc = sync.pc /\ sync'.list = sync.list /\ sync'.at = sync.at
      /\ sync'.id = sync.id /\ sync'.read = sync.read /\ sync'.copy = sync.copy
  BY Calmed DEF JobInv
<1> QED BY <1>1 DEF JobInv

\* A job that goes on to the next user.
LEMMA NextJob ==
    ASSUME JobInv, sync.pc # "idle", NEW ok \in BOOLEAN, NEW calm \in BOOLEAN,
           sync' = [NextUser(sync, ok) EXCEPT !.calm = calm]
    PROVE  /\ JobInv' /\ sync'.list = sync.list /\ sync'.at = sync.at + 1 /\ sync'.calm = calm
           /\ sync'.failed = (IF ok THEN sync.failed ELSE sync.failed \cup {sync.at})
           /\ sync'.pc \in {"idle", "find"}
<1>1. sync \in SyncState /\ sync.at \in 1..Users
  BY DEF JobInv, SyncState
<1> DEFINE next == NextUser(sync, ok)
<1>2. /\ next \in SyncState /\ next.list = sync.list /\ next.at = sync.at + 1
      /\ next.pc \in {"idle", "find"} /\ (next.pc # "idle" => next.at <= Users) /\ next.copy = Blank
      /\ next.failed = IF ok THEN sync.failed ELSE sync.failed \cup {sync.at}
  BY <1>1, NextState
<1> HIDE DEF next
<1>3. /\ sync' \in SyncState /\ sync'.pc = next.pc /\ sync'.list = sync.list /\ sync'.at = next.at
      /\ sync'.copy = Blank /\ sync'.calm = calm /\ sync'.failed = next.failed
  BY <1>2, Calmed DEF next
<1>4. JobInv'
  BY <1>2, <1>3, BlankRow DEF JobInv
<1> QED BY <1>2, <1>3, <1>4

\* A step that fails leaves the job's calm, and one that does not can only lose it.
LEMMA FailedJob ==
    ASSUME JobInv, sync.pc # "idle", NEW ok \in BOOLEAN, sync' = NextUser(sync, ok)
    PROVE  /\ JobInv' /\ sync'.list = sync.list /\ sync'.at = sync.at + 1 /\ sync'.calm = sync.calm
           /\ sync'.failed = (IF ok THEN sync.failed ELSE sync.failed \cup {sync.at})
           /\ sync'.pc \in {"idle", "find"}
<1>1. sync \in SyncState /\ sync.at \in 1..Users
  BY DEF JobInv, SyncState
<1> DEFINE next == NextUser(sync, ok)
<1>2. /\ next \in SyncState /\ next.list = sync.list /\ next.at = sync.at + 1
      /\ next.pc \in {"idle", "find"} /\ (next.pc # "idle" => next.at <= Users) /\ next.copy = Blank
      /\ next.failed = (IF ok THEN sync.failed ELSE sync.failed \cup {sync.at}) /\ next.calm = sync.calm
  BY <1>1, NextState
<1> HIDE DEF next
<1>3. sync' = next
  BY DEF next
<1>4. JobInv'
  BY <1>2, <1>3, BlankRow DEF JobInv
<1> QED BY <1>2, <1>3, <1>4

\* An inbound is edited for the user: he is put into its clients, the others stay.
LEMMA EditedJob ==
    ASSUME TableInv, JobInv, sync.pc = "find", NEW id \in DOMAIN inbounds, NEW row \in SyncRow,
           row.port \in SyncPorts, NEW changed \in BOOLEAN,
           row.clients = inbounds[id].clients, row.enable = inbounds[id].enable, row.remark = inbounds[id].remark,
           inbounds[id].remark[1] # sync.at => row.port = inbounds[id].port /\ row.key = inbounds[id].key,
           sync' = [sync EXCEPT !.pc = "update", !.id = id, !.read = inbounds[id],
                                !.copy = [row EXCEPT !.clients = updateUserInbound(@, sync.at)],
                                !.changed = changed]
    PROVE  /\ JobInv' /\ sync'.pc = "update" /\ sync'.id = id /\ sync'.read = inbounds[id]
           /\ sync'.list = sync.list /\ sync'.at = sync.at /\ sync'.failed = sync.failed
           /\ sync'.calm = sync.calm
           /\ [uuid |-> uuidOf(sync.at), email |-> emailOf(sync.at)]
                \in {sync'.copy.clients[i] : i \in DOMAIN sync'.copy.clients}
           /\ sync'.copy.remark = row.remark /\ sync'.copy.port = row.port /\ sync'.copy.key = row.key
<1> DEFINE u       == sync.at
           clients == updateUserInbound(row.clients, u)
           copy    == [row EXCEPT !.clients = clients]
           user    == [uuid |-> uuidOf(u), email |-> emailOf(u)]
<1>1. /\ sync \in SyncState /\ u \in 1..Users /\ row.clients \in Seq(SyncClient)
      /\ Orderly(sync.list, row.clients) /\ inbounds[id] \in SyncRow /\ id \in 1..MaxRows
  <2>1. sync \in SyncState /\ u \in 1..Users
    BY DEF JobInv, SyncState
  <2>2. row.clients \in Seq(SyncClient)
    BY DEF SyncRow
  <2>3. inbounds[id] \in SyncRow /\ id \in 1..MaxRows
    BY DEF TableInv, TableTypes
  <2>4. Orderly(sync.list, row.clients)
    BY DEF TableInv
  <2> QED BY <2>1, <2>2, <2>3, <2>4
<1>2. /\ clients \in Seq(SyncClient) /\ Orderly(sync.list, clients)
      /\ \E i \in DOMAIN clients : clients[i] = user
      /\ \A c : c.email[1] # u =>
           ((\E i \in DOMAIN clients : clients[i] = c) <=> (\E i \in DOMAIN row.clients : row.clients[i] = c))
  BY <1>1, Updated
<1>3. sync' = [sync EXCEPT !.pc = "update", !.id = id, !.read = inbounds[id], !.copy = copy, !.changed = changed]
  OBVIOUS
<1> HIDE DEF clients
<1>4. /\ copy \in SyncRow /\ copy.clients = clients /\ copy.enable = row.enable
      /\ copy.remark = row.remark /\ copy.port = row.port /\ copy.key = row.key
  BY <1>1, <1>2, RowClients
<1> HIDE DEF copy, u
<1>5. /\ sync'.pc = "update" /\ sync'.id = id /\ sync'.read = inbounds[id] /\ sync'.copy = copy
      /\ sync'.list = sync.list /\ sync'.at = sync.at /\ sync'.failed = sync.failed /\ sync'.calm = sync.calm
      /\ sync'.changed = changed
  BY <1>1, <1>3 DEF SyncState
<1>6. sync' \in SyncState
  <2>1. id \in Nat /\ "update" \in {"idle", "find", "update", "again", "create"}
    BY <1>1, UsersAssumption
  <2> QED BY <1>1, <1>3, <1>4, <2>1 DEF SyncState
<1>7. Edits(u, inbounds[id], copy)
  <2>1. Others(u, copy.clients) = Others(u, inbounds[id].clients)
    BY <1>2, <1>4 DEF Others
  <2>2. inbounds[id].remark[1] # u => copy.port = inbounds[id].port /\ copy.key = inbounds[id].key
    BY <1>4 DEF u
  <2> QED BY <1>4, <2>1, <2>2 DEF Edits
<1>8. JobInv'
  <2>1. sync'.at <= Users
    BY <1>1, <1>5 DEF u
  <2>2. Edits(sync'.at, sync'.read, sync'.copy)
    BY <1>5, <1>7 DEF u
  <2>3. Orderly(sync'.list, sync'.copy.clients)
    BY <1>2, <1>4, <1>5
  <2>4. sync'.id \in 1..MaxRows /\ sync'.copy.port \in SyncPorts
    BY <1>1, <1>4, <1>5
  <2> QED BY <1>6, <2>1, <2>2, <2>3, <2>4 DEF JobInv
<1>9. user \in {sync'.copy.clients[i] : i \in DOMAIN sync'.copy.clients}
  BY <1>2, <1>4, <1>5
<1> QED BY <1>4, <1>5, <1>8, <1>9 DEF u

\* processUserInbound skips the user, edits an inbound that then serves him, or goes on
\* to create one.
LEMMA FoundJob ==
    ASSUME TableInv, JobInv, processUserInbound
    PROVE  /\ JobInv' /\ UNCHANGED <<remote, inbounds, stats, xray, cut, changes>>
           /\ sync'.list = sync.list /\ sync'.calm = sync.calm /\ sync'.failed = sync.failed
           /\ \/ ~sync.list[sync.at].listed /\ sync'.at = sync.at + 1 /\ sync'.pc \in {"idle", "find"}
              \/ sync'.at = sync.at /\ sync'.pc = "create"
              \/ /\ sync'.at = sync.at /\ sync'.pc = "update" /\ sync'.id \in DOMAIN inbounds
                 /\ sync'.read = inbounds[sync'.id] /\ ServedBy(sync.at, sync'.copy)
<1> DEFINE u     == sync.at
           user  == sync.list[u]
           own   == getInboundByRemark(u)
           other == getInboundByPort(u)
<1>1. /\ sync.pc = "find" /\ sync \in SyncState /\ u \in 1..Users
      /\ UNCHANGED <<remote, inbounds, stats, xray, cut, changes>>
  BY DEF processUserInbound, JobInv, SyncState
<1>2. own \in SUBSET Nat /\ other \in SUBSET Nat
  BY UsersAssumption DEF getInboundByRemark, getInboundByPort, TableInv, TableTypes
<1>3. CASE ~user.listed
  <2>1. sync' = NextUser(sync, TRUE)
    BY <1>3 DEF processUserInbound
  <2> QED BY <1>1, <1>3, <2>1, FailedJob
<1>4. CASE user.listed /\ own # {}
  <2> DEFINE id      == Min(own)
             row     == [inbounds[id] EXCEPT !.port = user.port, !.key = <<u, user.key>>]
             changed == own # {} /\ row # inbounds[id]
  <2>1. id \in own
    BY <1>2, <1>4, LeastIn
  <2>2. id \in DOMAIN inbounds /\ inbounds[id].remark = emailOf(u) /\ inbounds[id] \in SyncRow
    BY <2>1 DEF getInboundByRemark, remarkOf, TableInv, TableTypes
  <2>3. sync' = [sync EXCEPT !.pc = "update", !.id = id, !.read = inbounds[id],
                             !.copy = [row EXCEPT !.clients = updateUserInbound(@, sync.at)],
                             !.changed = changed]
    BY <1>4 DEF processUserInbound
  <2> HIDE DEF id, own
  <2>4. user.port \in SyncPorts /\ <<u, user.key>> \in Nat \X Nat
    BY <1>1, NamesOf
  <2> HIDE DEF user
  <2>5. /\ row \in SyncRow /\ row.clients = inbounds[id].clients /\ row.remark = inbounds[id].remark
        /\ row.enable = inbounds[id].enable /\ row.port = user.port /\ row.key = <<u, user.key>>
    <3> DEFINE port == user.port
               key  == <<u, user.key>>
               read == inbounds[id]
    <3>1. read \in SyncRow /\ port \in SyncPorts /\ key \in Nat \X Nat
      BY <2>2, <2>4
    <3>2. row = [read EXCEPT !.port = port, !.key = key]
      OBVIOUS
    <3> HIDE DEF port, key, read, row
    <3>3. /\ row \in SyncRow /\ row.clients = read.clients /\ row.remark = read.remark
          /\ row.enable = read.enable /\ row.port = port /\ row.key = key
      BY <3>1, <3>2 DEF SyncRow
    <3> QED BY <3>3 DEF port, key, read
  <2> HIDE DEF row
  <2>6. inbounds[id].remark[1] = sync.at /\ changed \in BOOLEAN
    BY <2>2 DEF emailOf
  <2> HIDE DEF changed
  <2>7. /\ JobInv' /\ sync'.pc = "update" /\ sync'.id = id /\ sync'.read = inbounds[id]
        /\ sync'.list = sync.list /\ sync'.at = sync.at /\ sync'.failed = sync.failed
        /\ sync'.calm = sync.calm
        /\ [uuid |-> uuidOf(sync.at), email |-> emailOf(sync.at)]
             \in {sync'.copy.clients[i] : i \in DOMAIN sync'.copy.clients}
        /\ sync'.copy.remark = row.remark /\ sync'.copy.port = row.port /\ sync'.copy.key = row.key
    BY <1>1, <2>2, <2>3, <2>4, <2>5, <2>6, EditedJob
  <2>8. ServedBy(sync.at, sync'.copy)
    BY <2>2, <2>5, <2>7 DEF ServedBy, remarkOf, user
  <2> QED BY <1>1, <2>2, <2>7, <2>8
<1>5. CASE user.listed /\ own = {} /\ other # {}
  <2> DEFINE id == Min(other)
  <2>1. id \in other
    BY <1>2, <1>5, LeastIn
  <2>2. id \in DOMAIN inbounds /\ inbounds[id] \in SyncRow /\ inbounds[id].port \in SyncPorts
    BY <2>1 DEF getInboundByPort, TableInv, TableTypes
  <2>3. sync' = [sync EXCEPT !.pc = "update", !.id = id, !.read = inbounds[id],
                             !.copy = [inbounds[id] EXCEPT !.clients = updateUserInbound(@, sync.at)],
                             !.changed = FALSE]
    BY <1>5 DEF processUserInbound
  <2> HIDE DEF id
  <2>4. /\ JobInv' /\ sync'.pc = "update" /\ sync'.id = id /\ sync'.read = inbounds[id]
        /\ sync'.list = sync.list /\ sync'.at = sync.at /\ sync'.failed = sync.failed
        /\ sync'.calm = sync.calm
        /\ [uuid |-> uuidOf(sync.at), email |-> emailOf(sync.at)]
             \in {sync'.copy.clients[i] : i \in DOMAIN sync'.copy.clients}
        /\ sync'.copy.remark = inbounds[id].remark
    BY <1>1, <2>2, <2>3, EditedJob
  <2>5. inbounds[id].remark # remarkOf(u)
    BY <1>5, <2>2 DEF getInboundByRemark
  <2>6. ServedBy(sync.at, sync'.copy)
    BY <1>5, <2>4, <2>5 DEF ServedBy
  <2> QED BY <1>1, <2>2, <2>4, <2>6
<1>6. CASE user.listed /\ own = {} /\ other = {}
  <2>1. sync' = [sync EXCEPT !.pc = "create"]
    BY <1>6 DEF processUserInbound
  <2>2. /\ sync' \in SyncState /\ sync'.pc = "create" /\ sync'.list = sync.list /\ sync'.at = sync.at
        /\ sync'.copy = sync.copy /\ sync'.calm = sync.calm /\ sync'.failed = sync.failed
    BY <1>1, <2>1 DEF SyncState
  <2>3. JobInv'
    BY <1>1, <2>2 DEF JobInv
  <2> QED BY <1>1, <2>2, <2>3
<1> QED BY <1>3, <1>4, <1>5, <1>6

\* The inbound of a new user is a row that serves him.
LEMMA CreatedRow ==
    ASSUME sync \in SyncState, NEW u \in 1..Users
    PROVE  /\ Created(u) \in SyncRow /\ Created(u).port \in SyncPorts /\ Created(u).tag = <<"remote", u>>
           /\ Created(u).remark = remarkOf(u)
           /\ Orderly(sync.list, Created(u).clients) /\ ServedBy(u, Created(u))
<1> DEFINE client == [uuid |-> uuidOf(u), email |-> emailOf(u)]
           remark == remarkOf(u)
           tag    == <<"remote", u>>
           port   == sync.list[u].port
           key    == <<u, sync.list[u].key>>
<1>1. /\ client \in SyncClient /\ client.email = emailOf(u) /\ client.uuid = uuidOf(u)
      /\ remark \in Nat \X Nat /\ tag \in SyncTag /\ port \in SyncPorts /\ key \in Nat \X Nat
  BY NamesOf DEF SyncClient, SyncTag, remarkOf
<1>2. Known(sync.list, client)
  BY <1>1, NamesOf DEF Known
<1>3. Created(u) = [Blank EXCEPT !.remark = remark, !.tag = tag, !.port = port, !.key = key, !.clients = <<client>>]
  BY DEF Created
<1> HIDE DEF client, remark, tag, port, key
<1>4. /\ Created(u) \in SyncRow /\ Created(u).remark = remark /\ Created(u).tag = tag
      /\ Created(u).port = port /\ Created(u).key = key /\ Created(u).clients = <<client>>
  <2>1. <<client>> \in Seq(SyncClient)
    BY <1>1
  <2> QED BY <1>1, <1>3, <2>1 DEF Blank, SyncRow
<1>5. Orderly(sync.list, Created(u).clients)
  BY <1>2, <1>4 DEF Orderly
<1>6. client \in {Created(u).clients[i] : i \in DOMAIN Created(u).clients}
  BY <1>4
<1> QED BY <1>1, <1>4, <1>5, <1>6 DEF ServedBy, client, remark, tag, port, key

\* A step of the job that writes leaves the run calm only when Xray took what was written.
LEMMA WroteJob ==
    ASSUME NEW next, NEW reached \in BOOLEAN, NEW failed \in BOOLEAN,
           Wrote(next, reached, failed)
    PROVE  /\ remote' = remote /\ cut' = cut /\ (changes' = changes \/ Changes)
           /\ \E calm \in BOOLEAN : /\ sync' = [next EXCEPT !.calm = calm]
                                    /\ calm => next.calm /\ reached /\ ~failed
<1> DEFINE calm == next.calm /\ reached /\ ~failed
<1>1. sync' = [next EXCEPT !.calm = calm] /\ calm \in BOOLEAN
  BY DEF Wrote
<1>2. remote' = remote /\ cut' = cut /\ (changes' = changes \/ Changes)
  BY DEF Wrote
<1> QED BY <1>1, <1>2

\* createUserInbound adds the inbound, or notes that the user failed.
LEMMA CreatedJob ==
    ASSUME RemoteInv, TableInv, JobInv, NEW reached \in BOOLEAN, createUserInbound(reached)
    PROVE  /\ RemoteInv' /\ TableInv' /\ JobInv'
           /\ sync.at \in 1..Users /\ sync'.list = sync.list /\ sync'.at = sync.at + 1
           /\ sync'.pc \in {"idle", "find"}
           /\ sync'.calm =>
                /\ sync.calm
                /\ \/ UNCHANGED <<inbounds, xray>> /\ sync'.failed = sync.failed \cup {sync.at}
                   \/ /\ AddInbound(Created(sync.at), TRUE) /\ sync'.failed = sync.failed
                      /\ ~PushFails(xray, Created(sync.at).tag, Created(sync.at))
<1> DEFINE row == Created(sync.at)
<1>1. sync \in SyncState /\ sync.at \in 1..Users /\ sync.pc # "idle" /\ sync.pc # "update"
  BY DEF createUserInbound, JobInv, SyncState
<1>2. /\ row \in SyncRow /\ row.port \in SyncPorts /\ row.tag = <<"remote", sync.at>>
      /\ Orderly(sync.list, row.clients)
  BY <1>1, CreatedRow
<1>3. \/ /\ AddInbound(row, reached)
         /\ Wrote(NextUser(sync, TRUE), reached, PushFails(xray, row.tag, row))
      \/ Failed
  BY DEF createUserInbound, Created
<1> HIDE DEF row
<1>4. CASE AddInbound(row, reached) /\ Wrote(NextUser(sync, TRUE), reached, PushFails(xray, row.tag, row))
  <2> DEFINE failed == PushFails(xray, row.tag, row)
  <2>1. failed \in BOOLEAN
    BY DEF PushFails
  <2>2. Wrote(NextUser(sync, TRUE), reached, failed)
    BY <1>4
  <2> HIDE DEF failed
  <2>3. /\ remote' = remote /\ cut' = cut /\ (changes' = changes \/ Changes)
        /\ \E calm \in BOOLEAN : /\ sync' = [NextUser(sync, TRUE) EXCEPT !.calm = calm]
                                 /\ calm => NextUser(sync, TRUE).calm /\ reached /\ ~failed
    BY <2>1, <2>2, WroteJob
  <2>4. PICK calm \in BOOLEAN : /\ sync' = [NextUser(sync, TRUE) EXCEPT !.calm = calm]
                                /\ calm => NextUser(sync, TRUE).calm /\ reached /\ ~failed
    BY <2>3
  <2>5. /\ JobInv' /\ sync'.list = sync.list /\ sync'.at = sync.at + 1 /\ sync'.calm = calm
        /\ sync'.failed = sync.failed /\ sync'.pc \in {"idle", "find"}
    BY <1>1, <2>4, NextJob
  <2>6. NextUser(sync, TRUE).calm = sync.calm
    BY <1>1, NextState
  <2>c. cut' = cut /\ sync'.list = sync.list /\ AddInbound(row, reached)
    BY <1>4, <2>3, <2>5
  <2>d. row.tag[1] # "remote" => row.tag = <<"inbound", row.port>>
    BY <1>2
  <2>7. TableInv'
    BY <1>2, <2>c, <2>d, AddedTable
  <2>8. RemoteInv'
    BY <2>3, <2>5, SameRemote
  <2>9. sync'.calm => sync.calm /\ AddInbound(row, TRUE) /\ ~failed
    <3>1. SUFFICES ASSUME calm PROVE sync.calm /\ AddInbound(row, TRUE) /\ ~failed
      BY <2>5
    <3>2. reached = TRUE /\ sync.calm /\ ~failed
      BY <2>4, <2>6, <3>1
    <3> QED BY <1>4, <3>2
  <2> QED BY <1>1, <2>5, <2>7, <2>8, <2>9 DEF failed, row
<1>5. CASE Failed
  <2>1. sync' = NextUser(sync, FALSE) /\ UNCHANGED <<remote, inbounds, stats, xray, cut, changes>>
    BY <1>5 DEF Failed
  <2>2. /\ JobInv' /\ sync'.list = sync.list /\ sync'.at = sync.at + 1 /\ sync'.calm = sync.calm
        /\ sync'.failed = sync.failed \cup {sync.at} /\ sync'.pc \in {"idle", "find"}
    BY <1>1, <2>1, FailedJob
  <2>3. TableInv'
    BY <2>1, <2>2, SameTable
  <2>4. RemoteInv'
    BY <2>1, <2>2, SameRemote
  <2> QED BY <1>1, <2>1, <2>2, <2>3, <2>4
<1> QED BY <1>3, <1>4, <1>5

\* A job that updates the inbound once more.
LEMMA AgainJob ==
    ASSUME JobInv, sync.pc = "update", NEW calm \in BOOLEAN, NEW next, next = [sync EXCEPT !.pc = "again"],
           sync' = [next EXCEPT !.calm = calm]
    PROVE  /\ JobInv' /\ sync'.list = sync.list /\ sync'.at = sync.at /\ sync'.calm = calm
           /\ sync'.failed = sync.failed /\ sync'.pc = "again" /\ sync'.id = sync.id /\ sync'.copy = sync.copy
<1>1. /\ next \in SyncState /\ next.pc = "again" /\ next.list = sync.list /\ next.at = sync.at
      /\ next.id = sync.id /\ next.copy = sync.copy /\ next.failed = sync.failed
  BY DEF JobInv, SyncState
<1>3. /\ sync' \in SyncState /\ sync'.pc = "again" /\ sync'.list = sync.list /\ sync'.at = sync.at
      /\ sync'.id = sync.id /\ sync'.copy = sync.copy /\ sync'.failed = sync.failed /\ sync'.calm = calm
  BY <1>1, Calmed
<1>4. JobInv'
  BY <1>3 DEF JobInv
<1> QED BY <1>3, <1>4

\* updateInboundClients saves the copy, or notes that the user failed.
LEMMA UpdatedJob ==
    ASSUME RemoteInv, TableInv, JobInv, NEW reached \in BOOLEAN, updateInboundClients(reached)
    PROVE  /\ RemoteInv' /\ TableInv' /\ JobInv'
           /\ sync.pc \in {"update", "again"} /\ sync.at \in 1..Users /\ sync'.list = sync.list
           /\ \/ /\ UNCHANGED <<inbounds, xray>> /\ sync'.at = sync.at + 1 /\ sync'.pc \in {"idle", "find"}
                 /\ sync'.failed = sync.failed \cup {sync.at} /\ sync'.calm = sync.calm
              \/ /\ UpdateInboundRow(sync.id, sync.copy, reached) /\ sync'.failed = sync.failed
                 /\ sync'.calm => /\ sync.calm /\ UpdateInboundRow(sync.id, sync.copy, TRUE)
                                  /\ ~PushFails(xray, inbounds[sync.id].tag, Rewritten(sync.copy))
                 /\ \/ sync'.at = sync.at + 1 /\ sync'.pc \in {"idle", "find"}
                    \/ /\ sync.pc = "update" /\ sync'.pc = "again" /\ sync'.at = sync.at
                       /\ sync'.id = sync.id /\ sync'.copy = sync.copy
<1> DEFINE id     == sync.id
           copy   == sync.copy
           next   == IF sync.pc = "update" /\ sync.changed THEN [sync EXCEPT !.pc = "again"] ELSE NextUser(sync, TRUE)
           pushed == inbounds'[id]
           failed == PushFails(xray, inbounds[id].tag, pushed)
<1>1. /\ sync \in SyncState /\ sync.at \in 1..Users /\ sync.pc # "idle" /\ sync.pc \in {"update", "again"}
      /\ copy \in SyncRow /\ copy.port \in SyncPorts /\ Orderly(sync.list, copy.clients) /\ TableTypes
  BY DEF updateInboundClients, JobInv, SyncState, TableInv
<1>2. (UpdateInboundRow(id, copy, reached) /\ Wrote(next, reached, failed)) \/ Failed
  BY DEF updateInboundClients
<1>3. CASE UpdateInboundRow(id, copy, reached) /\ Wrote(next, reached, failed)
  <2>1. failed \in BOOLEAN
    BY DEF PushFails
  <2>2. pushed = Rewritten(copy)
    <3> HIDE DEF id, copy
    <3> QED BY <1>1, <1>3, SavedThere
  <2> HIDE DEF failed, pushed, id, copy, next
  <2>3. /\ remote' = remote /\ cut' = cut /\ (changes' = changes \/ Changes)
        /\ \E calm \in BOOLEAN : sync' = [next EXCEPT !.calm = calm] /\ (calm => next.calm /\ reached /\ ~failed)
    BY <1>3, <2>1, WroteJob
  <2>4. PICK calm \in BOOLEAN : sync' = [next EXCEPT !.calm = calm] /\ (calm => next.calm /\ reached /\ ~failed)
    BY <2>3
  <2>5. CASE sync.pc = "update" /\ sync.changed
    <3>1. next = [sync EXCEPT !.pc = "again"]
      BY <2>5 DEF next
    <3>2. next.calm = sync.calm
      BY <1>1, <3>1 DEF SyncState
    <3>3. /\ JobInv' /\ sync'.list = sync.list /\ sync'.at = sync.at /\ sync'.calm = calm
          /\ sync'.failed = sync.failed /\ sync'.pc = "again" /\ sync'.id = sync.id /\ sync'.copy = sync.copy
      BY <2>4, <2>5, <3>1, AgainJob
    <3>4. TableInv' /\ RemoteInv'
      BY <1>1, <1>3, <2>3, <3>3, SavedTable, SameRemote
    <3>5. sync'.calm => sync.calm /\ UpdateInboundRow(id, copy, TRUE) /\ ~failed
      <4>1. SUFFICES ASSUME calm PROVE sync.calm /\ UpdateInboundRow(id, copy, TRUE) /\ ~failed
        BY <3>3
      <4>2. reached = TRUE /\ sync.calm /\ ~failed
        BY <2>4, <3>2, <4>1
      <4> QED BY <1>3, <4>2
    <3> QED BY <1>1, <1>3, <2>2, <2>5, <3>3, <3>4, <3>5 DEF failed, id, copy
  <2>6. CASE ~(sync.pc = "update" /\ sync.changed)
    <3>1. next = NextUser(sync, TRUE)
      BY <2>6 DEF next
    <3>2. next.calm = sync.calm
      BY <1>1, <3>1, NextState
    <3>3. /\ JobInv' /\ sync'.list = sync.list /\ sync'.at = sync.at + 1 /\ sync'.calm = calm
          /\ sync'.failed = sync.failed /\ sync'.pc \in {"idle", "find"}
      BY <1>1, <2>4, <3>1, NextJob
    <3>4. TableInv' /\ RemoteInv'
      BY <1>1, <1>3, <2>3, <3>3, SavedTable, SameRemote
    <3>5. sync'.calm => sync.calm /\ UpdateInboundRow(id, copy, TRUE) /\ ~failed
      <4>1. SUFFICES ASSUME calm PROVE sync.calm /\ UpdateInboundRow(id, copy, TRUE) /\ ~failed
        BY <3>3
      <4>2. reached = TRUE /\ sync.calm /\ ~failed
        BY <2>4, <3>2, <4>1
      <4> QED BY <1>3, <4>2
    <3> QED BY <1>1, <1>3, <2>2, <3>3, <3>4, <3>5 DEF failed, id, copy
  <2> QED BY <2>5, <2>6
<1>4. CASE Failed
  <2>1. sync' = NextUser(sync, FALSE) /\ UNCHANGED <<remote, inbounds, stats, xray, cut, changes>>
    BY <1>4 DEF Failed
  <2>2. /\ JobInv' /\ sync'.list = sync.list /\ sync'.at = sync.at + 1 /\ sync'.calm = sync.calm
        /\ sync'.failed = sync.failed \cup {sync.at} /\ sync'.pc \in {"idle", "find"}
    BY <1>1, <2>1, FailedJob
  <2>3. TableInv' /\ RemoteInv'
    BY <2>1, <2>2, SameTable, SameRemote
  <2> QED BY <1>1, <2>1, <2>2, <2>3
<1> QED BY <1>2, <1>3, <1>4

\* GetUserList begins a run with what the remote panel says now, which is no older.
LEMMA FetchedJob ==
    ASSUME SyncInv, GetUserList
    PROVE  SyncInv' /\ sync'.at = 1 /\ sync'.pc = "find"
<1>1. /\ remote \in [1..Users -> SyncUser] /\ sync \in SyncState
      /\ UNCHANGED <<remote, inbounds, stats, xray, cut, changes>>
  BY DEF GetUserList, SyncInv, RemoteInv, JobInv
<1>2. sync' = [pc |-> "find", list |-> remote, at |-> 1, id |-> 0, read |-> Blank, copy |-> Blank,
               changed |-> FALSE, failed |-> {}, calm |-> TRUE]
  BY DEF GetUserList, Asleep
<1>3. 1 \in 1..Users + 1 /\ 1 <= Users
  BY UsersAssumption
<1>4. sync' \in SyncState
  BY <1>1, <1>2, <1>3, BlankRow DEF SyncState
<1>5. sync'.pc = "find" /\ sync'.at = 1 /\ sync'.list = remote /\ sync'.copy = Blank
  BY <1>2
<1>6. JobInv'
  BY <1>3, <1>4, <1>5, BlankRow DEF JobInv
<1>7. \A u \in 1..Users : /\ sync.list[u].uuid \in Nat /\ remote[u].uuid \in Nat
                          /\ sync.list[u].email \in Nat /\ remote[u].email \in Nat
                          /\ sync.list[u].uuid <= remote[u].uuid /\ sync.list[u].email <= remote[u].email
  BY <1>1 DEF SyncState, SyncUser, SyncInv, RemoteInv
<1>8. TableInv'
  BY <1>1, <1>5, <1>7, OlderTable DEF SyncInv
<1>9. RemoteInv'
  BY <1>1, <1>5, <1>7 DEF SyncInv, RemoteInv
<1> QED BY <1>5, <1>6, <1>8, <1>9 DEF SyncInv

\* A change of the remote panel is counted, and what it says does not grow older.
LEMMA ChangedRemote ==
    ASSUME SyncInv, NEW u \in 1..Users, RemoteChanges(u)
    PROVE  SyncInv' /\ UNCHANGED <<inbounds, stats, xray, cut, sync>>
<1>1. PICK user : Remotely(u, user) /\ \/ user = [remote[u] EXCEPT !.listed = ~@]
                                       \/ user = [remote[u] EXCEPT !.uuid = @ + 1]
                                       \/ user = [remote[u] EXCEPT !.email = @ + 1]
                                       \/ user = [remote[u] EXCEPT !.key = @ + 1]
                                       \/ \E port \in SyncPorts : user = [remote[u] EXCEPT !.port = port]
  BY DEF RemoteChanges
<1>2. /\ remote \in [1..Users -> SyncUser] /\ remote[u] \in SyncUser
      /\ remote' = [remote EXCEPT ![u] = user] /\ UNCHANGED <<inbounds, stats, xray, cut, sync>>
  BY <1>1 DEF Remotely, SyncInv, RemoteInv
<1>3. changes \in Nat /\ changes' = changes + 1 /\ changes' \in 0..MaxChanges
  BY <1>1, UsersAssumption DEF Remotely, Changes, SyncInv, RemoteInv
<1>4. /\ user \in SyncUser
      /\ user.uuid \in {remote[u].uuid, remote[u].uuid + 1}
      /\ user.email \in {remote[u].email, remote[u].email + 1}
      /\ user.key \in {remote[u].key, remote[u].key + 1}
  <2> DEFINE said == remote[u]
  <2>1. said \in SyncUser
    BY <1>2
  <2> HIDE DEF said
  <2>2. ASSUME user = [said EXCEPT !.listed = ~said.listed]
        PROVE  user \in SyncUser /\ user.uuid = said.uuid /\ user.email = said.email /\ user.key = said.key
    BY <2>1, <2>2 DEF SyncUser
  <2>3. ASSUME user = [said EXCEPT !.uuid = said.uuid + 1]
        PROVE  user \in SyncUser /\ user.uuid = said.uuid + 1 /\ user.email = said.email /\ user.key = said.key
    BY <2>1, <2>3 DEF SyncUser
  <2>4. ASSUME user = [said EXCEPT !.email = said.email + 1]
        PROVE  user \in SyncUser /\ user.uuid = said.uuid /\ user.email = said.email + 1 /\ user.key = said.key
    BY <2>1, <2>4 DEF SyncUser
  <2>5. ASSUME user = [said EXCEPT !.key = said.key + 1]
        PROVE  user \in SyncUser /\ user.uuid = said.uuid /\ user.email = said.email /\ user.key = said.key + 1
    BY <2>1, <2>5 DEF SyncUser
  <2>6. ASSUME NEW port \in SyncPorts, user = [said EXCEPT !.port = port]
        PROVE  user \in SyncUser /\ user.uuid = said.uuid /\ user.email = said.email /\ user.key = said.key
    BY <2>1, <2>6 DEF SyncUser
  <2>7. /\ user \in SyncUser
        /\ user.uuid \in {said.uuid, said.uuid + 1}
        /\ user.email \in {said.email, said.email + 1}
        /\ user.key \in {said.key, said.key + 1}
    BY <1>1, <2>2, <2>3, <2>4, <2>5, <2>6 DEF said
  <2> QED BY <2>7 DEF said
<1>5. RemoteInv'
  <2>1. remote' \in [1..Users -> SyncUser]
    BY <1>2, <1>4
  <2>2. ASSUME NEW v \in 1..Users
        PROVE  /\ remote'[v].uuid <= changes' /\ remote'[v].email <= changes' /\ remote'[v].key <= changes'
               /\ sync.list[v].uuid <= remote'[v].uuid /\ sync.list[v].email <= remote'[v].email
    <3>1. /\ remote[v].uuid \in Nat /\ remote[v].email \in Nat /\ remote[v].key \in Nat
          /\ sync.list[v].uuid \in Nat /\ sync.list[v].email \in Nat
          /\ remote[v].uuid <= changes /\ remote[v].email <= changes /\ remote[v].key <= changes
          /\ sync.list[v].uuid <= remote[v].uuid /\ sync.list[v].email <= remote[v].email
      BY <1>2 DEF SyncUser, SyncInv, RemoteInv, JobInv, SyncState
    <3>2. CASE v = u
      <4>1. remote'[v] = user
        BY <1>2, <3>2
      <4> QED BY <1>3, <1>4, <3>1, <3>2, <4>1
    <3>3. CASE v # u
      <4>1. remote'[v] = remote[v]
        BY <1>2, <3>3
      <4> QED BY <1>3, <3>1, <4>1
    <3> QED BY <3>2, <3>3
  <2> QED BY <1>2, <1>3, <2>1, <2>2 DEF RemoteInv
<1>6. TableInv' /\ JobInv'
  BY <1>2, SameTable DEF SyncInv, JobInv
<1> QED BY <1>2, <1>5, <1>6 DEF SyncInv

(*------------------------- the administrator ----------------------------*)
\* A step of the administrator's is counted, and leaves of the job all but its calm.
LEMMA TouchedInv ==
    ASSUME RemoteInv, JobInv, Touched
    PROVE  RemoteInv' /\ JobInv' /\ sync'.list = sync.list /\ sync'.calm = FALSE /\ sync'.pc = sync.pc
<1>1. sync' = [sync EXCEPT !.calm = FALSE] /\ remote' = remote /\ Changes
  BY DEF Touched
<1>2. JobInv' /\ sync'.list = sync.list
  BY <1>1, TouchedJob
<1>3. sync'.calm = FALSE /\ sync'.pc = sync.pc
  BY <1>1, Calmed DEF JobInv
<1> QED BY <1>1, <1>2, <1>3, SameRemote

\* The administrator adds an inbound.
LEMMA AdminAdded ==
    ASSUME SyncInv, NEW port \in SyncPorts, NEW vless \in BOOLEAN, NEW reached \in BOOLEAN,
           AdminAdds(port, vless, reached)
    PROVE  SyncInv' /\ sync'.calm = FALSE
<1> DEFINE client == [uuid |-> <<0, port>>, email |-> <<0, port>>]
           tag    == <<"inbound", port>>
           row    == [Blank EXCEPT !.vless = vless, !.tag = tag, !.port = port, !.clients = <<client>>]
<1>1. RemoteInv' /\ JobInv' /\ sync'.list = sync.list /\ sync'.calm = FALSE
  BY TouchedInv DEF AdminAdds, SyncInv
<1>2. AddInbound(row, reached) /\ cut' = cut
  BY DEF AdminAdds
<1>3. <<0, port>> \in SyncName /\ tag \in SyncTag /\ tag[1] = "inbound"
  BY DEF SyncName, SyncTag
<1>4. client \in SyncClient /\ Known(sync.list, client)
  BY <1>3 DEF SyncClient, Known
<1>a. tag = <<"inbound", port>>
  OBVIOUS
<1> HIDE DEF client, tag
<1>5. row \in SyncRow /\ row.tag = tag /\ row.port = port /\ row.clients = <<client>>
  <2>1. <<client>> \in Seq(SyncClient)
    BY <1>4
  <2> QED BY <1>3, <2>1 DEF Blank, SyncRow
<1> HIDE DEF row
<1>6. Orderly(sync.list, row.clients)
  BY <1>4, <1>5 DEF Orderly
<1>7. TableInv'
  BY <1>1, <1>2, <1>5, <1>6, <1>a, AddedTable DEF SyncInv
<1> QED BY <1>1, <1>7 DEF SyncInv

\* The administrator switches an inbound on or off.
LEMMA AdminSwitched ==
    ASSUME SyncInv, NEW id \in DOMAIN inbounds, AdminSwitches(id)
    PROVE  SyncInv' /\ sync'.calm = FALSE
<1> DEFINE read == inbounds[id]
           row  == [read EXCEPT !.enable = ~@]
<1>1. RemoteInv' /\ JobInv' /\ sync'.list = sync.list /\ sync'.calm = FALSE
  BY TouchedInv DEF AdminSwitches, SyncInv
<1>2. UpdateInboundRow(id, row, TRUE) /\ cut' = cut
  BY DEF AdminSwitches
<1>3. read \in SyncRow /\ read.port \in SyncPorts /\ Orderly(sync.list, read.clients)
  BY DEF SyncInv, TableInv, TableTypes
<1> HIDE DEF read
<1>4. row \in SyncRow /\ row.port = read.port /\ row.clients = read.clients
  BY <1>3 DEF SyncRow
<1> HIDE DEF row
<1>5. TableInv'
  BY <1>1, <1>2, <1>3, <1>4, SavedTable DEF SyncInv
<1> QED BY <1>1, <1>5 DEF SyncInv

\* A panic of the job ends it; what the call had written stays, and Xray starts with it.
LEMMA PanickedJob ==
    ASSUME SyncInv, JobPanics
    PROVE  /\ SyncInv' /\ sync'.pc = "idle" /\ sync'.at = 1
           /\ sync.pc # "create" => inbounds' = inbounds
<1> DEFINE id == sync.id
<1>1. /\ sync' = Asleep(sync.list) /\ sync \in SyncState /\ remote' = remote /\ Changes
      /\ xray' = StartedWith(inbounds')
  BY DEF JobPanics, SyncInv, JobInv
<1>2. sync' = [pc |-> "idle", list |-> sync.list, at |-> 1, id |-> 0, read |-> Blank, copy |-> Blank,
               changed |-> FALSE, failed |-> {}, calm |-> TRUE]
  BY <1>1 DEF Asleep
<1>3. 1 \in 1..Users + 1
  BY UsersAssumption
<1>4. sync' \in SyncState
  BY <1>1, <1>2, <1>3, BlankRow DEF SyncState
<1>5. sync'.pc = "idle" /\ sync'.at = 1 /\ sync'.list = sync.list /\ sync'.copy = Blank
  BY <1>2
<1>6. JobInv' /\ RemoteInv'
  BY <1>1, <1>4, <1>5, BlankRow, SameRemote DEF SyncInv, JobInv
<1>7. CASE sync.pc = "create" /\ StoreInbound(Created(sync.at)) /\ cut' = cut
  <2> DEFINE row == Created(sync.at)
  <2>1. sync.at \in 1..Users
    BY <1>7 DEF SyncInv, JobInv, SyncState
  <2>2. /\ row \in SyncRow /\ row.port \in SyncPorts /\ row.tag = <<"remote", sync.at>>
        /\ Orderly(sync.list, row.clients)
    BY <1>1, <2>1, CreatedRow
  <2>3. StoreInbound(row)
    BY <1>7
  <2> HIDE DEF row
  <2>4. \A i \in DOMAIN inbounds' : inbounds'[i] \in SyncRow /\ inbounds'[i].port \in SyncPorts
    BY <2>2, <2>3, StoredInbound DEF SyncInv, TableInv
  <2>5. xray' \subseteq XrayInbound
    BY <1>1, <2>4, StartTypes
  <2>6. row.tag[1] # "remote" => row.tag = <<"inbound", row.port>>
    BY <2>2
  <2>7. TableInv'
    BY <1>5, <1>7, <2>2, <2>3, <2>5, <2>6, StoredTable DEF SyncInv
  <2> QED BY <1>5, <1>6, <1>7, <2>7 DEF SyncInv
<1>8. CASE ~(sync.pc = "create" /\ StoreInbound(Created(sync.at)) /\ cut' = cut)
  <2> DEFINE old == Emails(inbounds[id])
             new == Emails(sync.copy)
  <2>1. /\ inbounds' = inbounds /\ id \in DOMAIN inbounds /\ sync.pc \in {"update", "again"}
        /\ stats' = updateClientTraffics(id, inbounds[id], sync.copy)
        /\ cut' = cut \cup {<<id, e>> : e \in (old \ new) \cup (new \ old)}
    BY <1>8 DEF JobPanics, Refused
  <2>2. stats' = {s \in stats : s[1] # id \/ s[2] \notin old \ new} \cup {<<id, e>> : e \in new \ old}
    BY <2>1 DEF updateClientTraffics
  <2> HIDE DEF old, new, id
  <2>3. \A s \in stats : s \in cut \/ s = <<s[1], s[2]>>
    BY MeteredRows DEF SyncInv, TableInv
  <2>4. \A s : s \notin cut' => s \notin cut /\ (s \in stats' <=> s \in stats)
    BY <2>1, <2>2, <2>3
  <2>5. \A s \in cut' : s \in cut \/ s[1] \in DOMAIN inbounds
    BY <2>1
  <2>6. \A i \in DOMAIN inbounds' : inbounds'[i] \in SyncRow /\ inbounds'[i].port \in SyncPorts
    BY <2>1 DEF SyncInv, TableInv, TableTypes
  <2>7. xray' \subseteq XrayInbound
    BY <1>1, <2>6, StartTypes
  <2>8. TableInv'
    BY <1>5, <2>1, <2>4, <2>5, <2>7, CutTable DEF SyncInv
  <2> QED BY <1>5, <1>6, <2>1, <2>8 DEF SyncInv
<1> QED BY <1>7, <1>8

(*-------------------------- the inductive invariant ---------------------*)
LEMMA InvHolds == SyncSpec => []SyncInv
<1>1. SyncInit => SyncInv
  <2> SUFFICES ASSUME SyncInit PROVE SyncInv
    OBVIOUS
  <2>1. /\ remote \in [1..Users -> SyncUser] /\ changes = 0 /\ sync = Asleep(remote)
        /\ \A u \in 1..Users : remote[u].uuid = 0 /\ remote[u].email = 0 /\ remote[u].key = 0
    <3> DEFINE First == [listed : {TRUE}, uuid : {0}, email : {0}, port : SyncPorts, key : {0}]
    <3>1. remote \in [1..Users -> First] /\ changes = 0 /\ sync = Asleep(remote)
      BY DEF SyncInit
    <3>2. ASSUME NEW user \in First
          PROVE  user \in SyncUser /\ user.uuid = 0 /\ user.email = 0 /\ user.key = 0
      <4>1. /\ user = [listed |-> user.listed, uuid |-> user.uuid, email |-> user.email, port |-> user.port,
                       key |-> user.key]
            /\ user.listed \in {TRUE} /\ user.uuid = 0 /\ user.email = 0 /\ user.port \in SyncPorts /\ user.key = 0
        OBVIOUS
      <4>a. {TRUE} \subseteq BOOLEAN
        OBVIOUS
      <4>b. user.listed \in BOOLEAN
        BY <4>1, <4>a
      <4>2. user.listed \in BOOLEAN /\ user.uuid \in Nat /\ user.email \in Nat /\ user.key \in Nat
        BY <4>1, <4>b
      <4> HIDE DEF First
      <4> QED BY <4>1, <4>2 DEF SyncUser
    <3> HIDE DEF First
    <3> QED BY <3>1, <3>2
  <2>2. inbounds = << >> /\ stats = {} /\ xray = {} /\ cut = {}
    BY DEF SyncInit
  <2>3. sync = [pc |-> "idle", list |-> remote, at |-> 1, id |-> 0, read |-> Blank, copy |-> Blank,
                changed |-> FALSE, failed |-> {}, calm |-> TRUE]
    BY <2>1 DEF Asleep
  <2>4. sync \in SyncState
    <3>1. 1 \in 1..Users + 1
      BY UsersAssumption
    <3> QED BY <2>1, <2>3, <3>1, BlankRow DEF SyncState
  <2>5. sync.pc = "idle" /\ sync.list = remote /\ sync.copy = Blank
    BY <2>3
  <2>6. JobInv
    BY <2>4, <2>5, BlankRow DEF JobInv
  <2>7. TableInv
    <3>1. DOMAIN inbounds = {}
      BY <2>2
    <3>2. TableTypes /\ RowTags /\ \A id \in DOMAIN inbounds : Orderly(sync.list, inbounds[id].clients)
      BY <2>2, <3>1 DEF TableTypes, RowTags
    <3>3. SyncMetered
      <4>1. {{<<id, e>> : e \in Emails(inbounds[id])} : id \in DOMAIN inbounds} = {}
        BY <3>1
      <4> QED BY <2>2, <4>1 DEF SyncMetered
    <3>4. CutThere
      BY <2>2 DEF CutThere
    <3> QED BY <3>2, <3>3, <3>4 DEF TableInv
  <2>8. RemoteInv
    BY <2>1, <2>5, UsersAssumption DEF RemoteInv
  <2> QED BY <2>6, <2>7, <2>8 DEF SyncInv
<1>2. SyncInv /\ [SyncNext]_syncVars => SyncInv'
  <2> SUFFICES ASSUME SyncInv, [SyncNext]_syncVars PROVE SyncInv'
    OBVIOUS
  <2>1. CASE GetUserList
    BY <2>1, FetchedJob
  <2>2. CASE processUserInbound
    <3>1. JobInv' /\ UNCHANGED <<remote, inbounds, stats, xray, cut, changes>> /\ sync'.list = sync.list
      BY <2>2, FoundJob DEF SyncInv
    <3> QED BY <3>1, SameTable, SameRemote DEF SyncInv
  <2>3. CASE \E reached \in BOOLEAN : createUserInbound(reached)
    BY <2>3, CreatedJob DEF SyncInv
  <2>4. CASE \E reached \in BOOLEAN : updateInboundClients(reached)
    BY <2>4, UpdatedJob DEF SyncInv
  <2>5. CASE \E u \in 1..Users : RemoteChanges(u)
    BY <2>5, ChangedRemote
  <2>c. CASE JobPanics
    BY <2>c, PanickedJob
  <2>6. CASE \E port \in SyncPorts, vless, reached \in BOOLEAN : AdminAdds(port, vless, reached)
    BY <2>6, AdminAdded
  <2>7. ASSUME NEW id \in DOMAIN inbounds, AdminSwitches(id) PROVE SyncInv'
    BY <2>7, AdminSwitched
  <2>8. ASSUME NEW id \in DOMAIN inbounds, AdminDeletes(id) PROVE SyncInv'
    <3>1. RemoteInv' /\ JobInv' /\ sync'.list = sync.list
      BY <2>8, TouchedInv DEF AdminDeletes, SyncInv
    <3> QED BY <2>8, <3>1, DeletedTable DEF SyncInv
  <2>9. ASSUME NEW id \in DOMAIN inbounds, NEW i \in DOMAIN inbounds[id].clients, AdminDropsClient(id, i)
        PROVE  SyncInv'
    <3>1. RemoteInv' /\ JobInv' /\ sync'.list = sync.list
      BY <2>9, TouchedInv DEF AdminDropsClient, SyncInv
    <3> QED BY <2>9, <3>1, DroppedTable DEF SyncInv
  <2>a. CASE XrayStarts
    <3>1. UNCHANGED <<remote, inbounds, stats, cut, sync, changes>>
      BY <2>a DEF XrayStarts
    <3>2. JobInv' /\ RemoteInv'
      BY <3>1, SameRemote DEF SyncInv, JobInv
    <3> QED BY <2>a, <3>2, StartedTable DEF SyncInv
  <2>b. CASE UNCHANGED syncVars
    <3>1. UNCHANGED <<remote, inbounds, stats, xray, cut, sync, changes>>
      BY <2>b DEF syncVars
    <3>2. JobInv'
      BY <3>1 DEF SyncInv, JobInv
    <3> QED BY <3>1, <3>2, SameTable, SameRemote DEF SyncInv
  <2> QED BY <2>1, <2>2, <2>3, <2>4, <2>5, <2>6, <2>7, <2>8, <2>9, <2>a, <2>b, <2>c DEF SyncNext
<1> QED BY <1>1, <1>2, PTL DEF SyncSpec

(*--------------------------------- theorems -----------------------------*)
\* The type invariant: what the tables, the job and Xray may hold.
THEOREM SyncTypes == SyncSpec => []SyncTypeOK
<1>1. SyncInv => SyncTypeOK
  <2> SUFFICES ASSUME SyncInv PROVE SyncTypeOK
    OBVIOUS
  <2>1. remote \in [1..Users -> [listed : BOOLEAN, uuid : 0..MaxChanges, email : 0..MaxChanges,
                                 port : SyncPorts, key : 0..MaxChanges]]
    <3> DEFINE User == [listed : BOOLEAN, uuid : 0..MaxChanges, email : 0..MaxChanges,
                        port : SyncPorts, key : 0..MaxChanges]
    <3>1. remote \in [1..Users -> SyncUser] /\ changes \in 0..MaxChanges
      BY DEF SyncInv, RemoteInv
    <3>2. ASSUME NEW u \in 1..Users PROVE remote[u] \in User
      <4>1. /\ remote[u] \in SyncUser
            /\ remote[u].uuid <= changes /\ remote[u].email <= changes /\ remote[u].key <= changes
        BY <3>1 DEF SyncInv, RemoteInv
      <4>2. /\ remote[u].uuid \in 0..MaxChanges /\ remote[u].email \in 0..MaxChanges
            /\ remote[u].key \in 0..MaxChanges
        BY <3>1, <4>1, UsersAssumption DEF SyncUser
      <4> QED BY <4>1, <4>2 DEF SyncUser
    <3> HIDE DEF User
    <3> QED BY <3>1, <3>2 DEF User
  <2>2. DOMAIN inbounds \subseteq 1..MaxRows /\ \A x \in xray : x.port \in SyncPorts
    BY DEF SyncInv, TableInv, TableTypes, XrayInbound
  <2>3. ASSUME NEW id \in DOMAIN inbounds
        PROVE  /\ inbounds[id].port \in SyncPorts /\ {inbounds[id].enable, inbounds[id].vless} \subseteq BOOLEAN
               /\ \A c \in ToSet(inbounds[id].clients) : DOMAIN c = {"uuid", "email"}
    <3>1. inbounds[id] \in SyncRow /\ inbounds[id].port \in SyncPorts
      BY DEF SyncInv, TableInv, TableTypes
    <3>2. {inbounds[id].enable, inbounds[id].vless} \subseteq BOOLEAN /\ inbounds[id].clients \in Seq(SyncClient)
      BY <3>1 DEF SyncRow
    <3>3. \A c \in ToSet(inbounds[id].clients) : c \in SyncClient
      BY <3>2 DEF ToSet
    <3>4. \A c \in SyncClient : DOMAIN c = {"uuid", "email"}
      BY DEF SyncClient
    <3> QED BY <3>1, <3>2, <3>3, <3>4
  <2>4. \A s \in stats \cup cut : s[1] \in 1..MaxRows
    <3>1. \A s \in stats : s \notin cut => \E id \in DOMAIN inbounds : \E e \in Emails(inbounds[id]) : s = <<id, e>>
      BY MeteredRows DEF SyncInv, TableInv
    <3>2. \A s \in cut : s[1] \in DOMAIN inbounds
      BY DEF SyncInv, TableInv, CutThere
    <3> QED BY <2>2, <3>1, <3>2
  <2>5. /\ sync.pc \in {"idle", "find", "update", "again", "create"} /\ sync.at \in 1..Users + 1
        /\ sync.failed \subseteq 1..Users /\ changes \in 0..MaxChanges
    BY DEF SyncInv, JobInv, SyncState, RemoteInv
  <2> QED BY <2>1, <2>2, <2>3, <2>4, <2>5 DEF SyncTypeOK
<1> QED BY <1>1, InvHolds, PTL

\* Every client of an inbound has its traffic row and every traffic row its client, whatever
\* the job saves of what it has read, but for the rows of a call that was cut off.
THEOREM EveryClientMetered == SyncSpec => []SyncMetered
<1>1. SyncInv => SyncMetered
  BY DEF SyncInv, TableInv
<1> QED BY <1>1, InvHolds, PTL

\* What the job writes over a row that is as it was read keeps the other users' clients, and
\* of an inbound that is not the user's own the port, the stream and the switch.
THEOREM GuestsKeep == SyncSpec => SyncKeeps
<1> DEFINE Old       == inbounds[sync.id]
           New       == inbounds'[sync.id]
           Else(row) == {c \in ToSet(row.clients) : c.email[1] # sync.at}
           Kept == /\ Else(New) = Else(Old) /\ New.enable = Old.enable /\ New.remark = Old.remark
                   /\ Old.remark[1] # sync.at => New.port = Old.port /\ New.key = Old.key
           Step == sync.id \in DOMAIN inbounds /\ sync.pc = "update" /\ sync'.pc # "update" /\ Old = sync.read
                     => Kept
<1>1. SyncInv /\ [SyncNext]_syncVars => Step
  <2> SUFFICES ASSUME SyncInv, [SyncNext]_syncVars, sync.pc = "update", sync'.pc # "update",
                      sync.id \in DOMAIN inbounds, inbounds[sync.id] = sync.read
               PROVE  Kept
    BY DEF Step
  <2> HIDE DEF Kept, Step
  <2>1. JobPanics \/ \E reached \in BOOLEAN : updateInboundClients(reached)
    <3>1. ~GetUserList /\ ~processUserInbound /\ ~XrayStarts /\ ~UNCHANGED syncVars
      BY DEF GetUserList, processUserInbound, XrayStarts, syncVars
    <3>2. \A reached \in BOOLEAN : ~createUserInbound(reached)
      BY DEF createUserInbound
    <3>3. \A u \in 1..Users : ~RemoteChanges(u)
      BY DEF RemoteChanges, Remotely
    <3>4. ~Touched
      BY TouchedInv DEF SyncInv
    <3>5. /\ \A port \in SyncPorts, vless, reached \in BOOLEAN : ~AdminAdds(port, vless, reached)
          /\ \A id \in DOMAIN inbounds : ~AdminSwitches(id) /\ ~AdminDeletes(id)
          /\ \A id \in DOMAIN inbounds : \A i \in DOMAIN inbounds[id].clients : ~AdminDropsClient(id, i)
      BY <3>4 DEF AdminAdds, AdminSwitches, AdminDeletes, AdminDropsClient
    <3> QED BY <3>1, <3>2, <3>3, <3>5 DEF SyncNext
  <2>6. CASE JobPanics
    <3>1. inbounds' = inbounds
      BY <2>6, PanickedJob
    <3> QED BY <3>1 DEF Kept
  <2>7. SUFFICES ASSUME \E reached \in BOOLEAN : updateInboundClients(reached) PROVE Kept
    BY <2>1, <2>6
  <2>2. PICK reached \in BOOLEAN : updateInboundClients(reached)
    BY <2>7
  <2>3. \/ inbounds' = inbounds
        \/ UpdateInboundRow(sync.id, sync.copy, reached)
    BY <2>2, UpdatedJob DEF SyncInv
  <2>4. CASE inbounds' = inbounds
    BY <2>4 DEF Kept
  <2>5. CASE UpdateInboundRow(sync.id, sync.copy, reached)
    <3>1. /\ sync.copy \in SyncRow /\ sync.copy.port \in SyncPorts /\ TableTypes
          /\ Edits(sync.at, sync.read, sync.copy)
      BY DEF SyncInv, JobInv, SyncState, TableInv
    <3>2. New = Rewritten(sync.copy)
      BY <2>5, <3>1, SavedThere
    <3>3. /\ New.clients = sync.copy.clients /\ New.remark = sync.copy.remark
          /\ New.enable = sync.copy.enable /\ New.port = sync.copy.port /\ New.key = sync.copy.key
      BY <3>1, <3>2, RowTagged
    <3>4. \A row : Else(row) = Others(sync.at, row.clients)
      BY DEF ToSet, Others
    <3>5. Old = sync.read
      OBVIOUS
    <3> HIDE DEF New, Old, Else
    <3>6. Else(New) = Else(Old)
      BY <3>1, <3>3, <3>4, <3>5 DEF Edits
    <3> QED BY <3>1, <3>3, <3>5, <3>6 DEF Edits, Kept
  <2> QED BY <2>3, <2>4, <2>5
<1>2. Step => \A id \in DOMAIN inbounds :
          sync.pc = "update" /\ sync'.pc # "update" /\ sync.id = id /\ inbounds[id] = sync.read =>
            LET old == inbounds[id]
                new == inbounds'[id]
                Rest(row) == {c \in ToSet(row.clients) : c.email[1] # sync.at}
            IN  /\ Rest(new) = Rest(old) /\ new.enable = old.enable /\ new.remark = old.remark
                /\ old.remark[1] # sync.at => new.port = old.port /\ new.key = old.key
  OBVIOUS
<1> QED BY <1>1, <1>2, InvHolds, PTL DEF SyncSpec, SyncKeeps

(*----------------------- a calm run serves its users --------------------*)
\* Nobody's inbound has another user's remark.
LEMMA RemarksApart ==
    ASSUME NEW u, NEW v, u # v
    PROVE  remarkOf(u) # remarkOf(v)
  BY DEF remarkOf, emailOf

\* A user is served by a row when the step leaves his client, and what is his own, there.
LEMMA StillHas ==
    ASSUME sync'.list = sync.list, NEW u, NEW id,
           [uuid |-> uuidOf(u), email |-> emailOf(u)]
             \in {inbounds'[id].clients[i] : i \in DOMAIN inbounds'[id].clients},
           inbounds'[id].remark # remarkOf(u) =>
             \A i \in DOMAIN inbounds' : inbounds'[i].remark # remarkOf(u),
           inbounds'[id].remark = remarkOf(u) =>
             inbounds'[id].port = sync.list[u].port /\ inbounds'[id].key = <<u, sync.list[u].key>>,
           inbounds'[id].enable /\ inbounds'[id].vless =>
             \E x \in xray' : /\ x.tag = inbounds'[id].tag /\ x.port = inbounds'[id].port
                              /\ x.key = inbounds'[id].key /\ uuidOf(u) \in x.uuids
    PROVE  Has(u, id)'
<1>1. uuidOf(u)' = uuidOf(u) /\ remarkOf(u)' = remarkOf(u) /\ emailOf(u)' = emailOf(u)
  BY DEF uuidOf, emailOf, remarkOf
<1>2. inbounds'[id].remark # remarkOf(u) => getInboundByRemark(u)' = {}
  BY <1>1 DEF getInboundByRemark
<1>3. ServedBy(u, inbounds[id])'
  BY <1>1, <1>2 DEF ServedBy
<1> QED BY <1>1, <1>3 DEF Has

\* What is said of a user who is served.
LEMMA HasMeans ==
    ASSUME NEW u, NEW id, Has(u, id)
    PROVE  /\ [uuid |-> uuidOf(u), email |-> emailOf(u)] \in {inbounds[id].clients[i] : i \in DOMAIN inbounds[id].clients}
           /\ inbounds[id].remark # remarkOf(u) => \A i \in DOMAIN inbounds : inbounds[i].remark # remarkOf(u)
           /\ inbounds[id].remark = remarkOf(u) =>
                inbounds[id].port = sync.list[u].port /\ inbounds[id].key = <<u, sync.list[u].key>>
           /\ inbounds[id].enable /\ inbounds[id].vless =>
                \E x \in xray : /\ x.tag = inbounds[id].tag /\ x.port = inbounds[id].port
                                /\ x.key = inbounds[id].key /\ uuidOf(u) \in x.uuids
  BY DEF Has, ServedBy, getInboundByRemark

\* A push that goes through gives Xray the row, with the user among its uuids.
LEMMA PushedServes ==
    ASSUME NEW has \in SUBSET XrayInbound, NEW tag, NEW row \in SyncRow, row.port \in SyncPorts, NEW u,
           ~PushFails(has, tag, row), row.enable, row.vless,
           [uuid |-> uuidOf(u), email |-> emailOf(u)] \in {row.clients[i] : i \in DOMAIN row.clients}
    PROVE  \E x \in Pushed(has, tag, row) :
             x.tag = row.tag /\ x.port = row.port /\ x.key = row.key /\ uuidOf(u) \in x.uuids
<1> DEFINE x == GenXrayInboundConfig(row)
<1>1. x \in Pushed(has, tag, row)
  BY Push
<1>2. /\ x.tag = row.tag /\ x.port = row.port /\ x.key = row.key
      /\ \A i \in DOMAIN row.clients : row.clients[i].uuid \in x.uuids
  BY Config
<1> HIDE DEF x
<1>3. PICK i \in DOMAIN row.clients : row.clients[i] = [uuid |-> uuidOf(u), email |-> emailOf(u)]
  OBVIOUS
<1>4. uuidOf(u) \in x.uuids
  BY <1>2, <1>3
<1> QED BY <1>1, <1>2, <1>4

\* A row that is added serves the user it is of, and leaves the others served.
LEMMA AddedServes ==
    ASSUME SyncInv, NEW v \in 1..Users, NEW row, row = Created(v), NEW new, new = nextID,
           sync'.list = sync.list, AddInbound(row, TRUE), ~PushFails(xray, row.tag, row)
    PROVE  /\ new \in DOMAIN inbounds' /\ Has(v, new)'
           /\ \A u \in 1..Users : \A id \in DOMAIN inbounds :
                u # v /\ Has(u, id) => id \in DOMAIN inbounds' /\ Has(u, id)'
<1>1. /\ sync \in SyncState /\ TableTypes /\ xray \in SUBSET XrayInbound
  BY DEF SyncInv, JobInv, TableInv, TableTypes
<1>2. /\ row \in SyncRow /\ row.port \in SyncPorts /\ row.remark = remarkOf(v) /\ ServedBy(v, row)
  BY <1>1, CreatedRow
<1>3. /\ new \notin DOMAIN inbounds /\ DOMAIN inbounds' = DOMAIN inbounds \cup {new} /\ inbounds'[new] = row
      /\ \A i \in DOMAIN inbounds : inbounds'[i] = inbounds[i] /\ inbounds[i].tag # row.tag
      /\ xray' = Pushed(xray, row.tag, row)
  <2>1. StoreInbound(row) /\ xray' = Pushed(xray, row.tag, row)
    BY DEF AddInbound
  <2> QED BY <1>1, <1>2, <2>1, StoredInbound
<1>4. [uuid |-> uuidOf(v), email |-> emailOf(v)] \in {row.clients[i] : i \in DOMAIN row.clients}
  BY <1>2 DEF ServedBy
<1>5. row.port = sync.list[v].port /\ row.key = <<v, sync.list[v].key>>
  BY <1>2 DEF ServedBy
<1>6. row.enable /\ row.vless =>
        \E x \in xray' : x.tag = row.tag /\ x.port = row.port /\ x.key = row.key /\ uuidOf(v) \in x.uuids
  BY <1>1, <1>2, <1>3, <1>4, PushedServes
<1>7. Has(v, new)'
  BY <1>2, <1>3, <1>4, <1>5, <1>6, StillHas
<1>8. ASSUME NEW u \in 1..Users, NEW id \in DOMAIN inbounds, u # v, Has(u, id)
      PROVE  Has(u, id)'
  <2>1. inbounds'[id] = inbounds[id] /\ inbounds[id].tag # row.tag
    BY <1>3
  <2>2. inbounds'[id].remark # remarkOf(u) => \A i \in DOMAIN inbounds' : inbounds'[i].remark # remarkOf(u)
    <3> SUFFICES ASSUME inbounds[id].remark # remarkOf(u), NEW i \in DOMAIN inbounds'
                 PROVE  inbounds'[i].remark # remarkOf(u)
      BY <2>1
    <3>1. \A j \in DOMAIN inbounds : inbounds[j].remark # remarkOf(u)
      BY <1>8, HasMeans
    <3>2. remarkOf(u) # remarkOf(v)
      BY <1>8, RemarksApart
    <3> QED BY <1>2, <1>3, <3>1, <3>2
  <2>3. \A x \in xray : x.tag # row.tag => x \in xray'
    BY <1>1, <1>2, <1>3, Push
  <2>4. inbounds'[id].enable /\ inbounds'[id].vless =>
          \E x \in xray' : /\ x.tag = inbounds'[id].tag /\ x.port = inbounds'[id].port
                           /\ x.key = inbounds'[id].key /\ uuidOf(u) \in x.uuids
    <3> SUFFICES ASSUME inbounds[id].enable, inbounds[id].vless
                 PROVE  \E x \in xray' : /\ x.tag = inbounds[id].tag /\ x.port = inbounds[id].port
                                         /\ x.key = inbounds[id].key /\ uuidOf(u) \in x.uuids
      BY <2>1
    <3>1. PICK x \in xray : /\ x.tag = inbounds[id].tag /\ x.port = inbounds[id].port
                            /\ x.key = inbounds[id].key /\ uuidOf(u) \in x.uuids
      BY <1>8, HasMeans
    <3> QED BY <2>1, <2>3, <3>1
  <2>5. /\ [uuid |-> uuidOf(u), email |-> emailOf(u)]
             \in {inbounds'[id].clients[i] : i \in DOMAIN inbounds'[id].clients}
        /\ inbounds'[id].remark = remarkOf(u) =>
             inbounds'[id].port = sync.list[u].port /\ inbounds'[id].key = <<u, sync.list[u].key>>
    BY <1>8, <2>1, HasMeans
  <2> QED BY <2>2, <2>4, <2>5, StillHas
<1> QED BY <1>3, <1>7, <1>8

\* A row that is saved keeps the other users served, and serves the one the copy serves, when
\* nothing came between its reading and its writing.
LEMMA SavedServes ==
    ASSUME SyncInv, ServesInv, sync.calm, sync.pc \in {"update", "again"}, sync'.list = sync.list,
           NEW v \in 1..Users, v = sync.at, NEW id, id = sync.id, NEW copy, copy = sync.copy,
           UpdateInboundRow(id, copy, TRUE), ~PushFails(xray, inbounds[id].tag, Rewritten(copy))
    PROVE  /\ id \in DOMAIN inbounds' /\ Has(v, id)' /\ inbounds'[id] = Rewritten(copy)
           /\ \A i \in DOMAIN inbounds : i \in DOMAIN inbounds' /\ inbounds'[i].remark = inbounds[i].remark
           /\ DOMAIN inbounds' = DOMAIN inbounds
           /\ \A u \in 1..Users : \A i \in DOMAIN inbounds :
                u # v /\ Has(u, i) => i \in DOMAIN inbounds' /\ Has(u, i)'
<1> DEFINE new == Rewritten(copy)
           old == inbounds[id]
<1>1. /\ sync \in SyncState /\ TableTypes /\ xray \in SUBSET XrayInbound /\ RowTags
      /\ copy \in SyncRow /\ copy.port \in SyncPorts
  BY DEF SyncInv, JobInv, TableInv, TableTypes, SyncState
<1>2. /\ id \in DOMAIN inbounds /\ DOMAIN inbounds' = DOMAIN inbounds /\ inbounds'[id] = new /\ new \in SyncRow
      /\ \A i \in DOMAIN inbounds : i # id => inbounds'[i] = inbounds[i]
      /\ xray' = Pushed(xray, old.tag, new)
  <2>1. id \in DOMAIN inbounds /\ DOMAIN inbounds' = DOMAIN inbounds /\ inbounds'[id] = new
    BY <1>1, SavedRow
  <2>2. new \in SyncRow
    BY <1>1, RowTagged
  <2>4. \A i \in DOMAIN inbounds : i # id => inbounds'[i] = inbounds[i]
    BY DEF UpdateInboundRow
  <2>3. xray' = Pushed(xray, old.tag, new)
    BY DEF UpdateInboundRow, Rewritten
  <2> QED BY <2>1, <2>2, <2>3, <2>4
<1>3. /\ new.clients = copy.clients /\ new.remark = copy.remark /\ new.port = copy.port /\ new.key = copy.key
  BY <1>1, RowTagged
<1>a. ~PushFails(xray, old.tag, new)
  OBVIOUS
<1>4. /\ new.remark = old.remark
      /\ Others(v, new.clients) = Others(v, old.clients)
      /\ old.remark[1] # v => new.port = old.port /\ new.key = old.key
  <2>1. CASE sync.pc = "update"
    <3>1. old = sync.read /\ Edits(v, sync.read, copy)
      BY <2>1 DEF ServesInv, SyncInv, JobInv
    <3> QED BY <1>3, <3>1 DEF Edits
  <2>2. CASE sync.pc = "again"
    BY <2>2 DEF ServesInv
  <2> QED BY <2>1, <2>2
<1>5. ServedBy(v, copy)
  BY DEF ServesInv
<1> HIDE DEF new
<1>6. \A i \in DOMAIN inbounds : inbounds'[i].remark = inbounds[i].remark
  BY <1>2, <1>4
<1>7. ASSUME NEW u, [uuid |-> uuidOf(u), email |-> emailOf(u)] \in {new.clients[i] : i \in DOMAIN new.clients}
      PROVE  inbounds'[id].enable /\ inbounds'[id].vless =>
               \E x \in xray' : /\ x.tag = inbounds'[id].tag /\ x.port = inbounds'[id].port
                                /\ x.key = inbounds'[id].key /\ uuidOf(u) \in x.uuids
  <2>1. new.port \in SyncPorts
    BY <1>1, <1>3
  <2> QED BY <1>1, <1>2, <1>7, <1>a, <2>1, PushedServes
<1>8. Has(v, id)'
  <2>1. /\ [uuid |-> uuidOf(v), email |-> emailOf(v)] \in {new.clients[i] : i \in DOMAIN new.clients}
        /\ new.remark # remarkOf(v) => \A i \in DOMAIN inbounds : inbounds[i].remark # remarkOf(v)
        /\ new.remark = remarkOf(v) => new.port = sync.list[v].port /\ new.key = <<v, sync.list[v].key>>
    BY <1>3, <1>5 DEF ServedBy, getInboundByRemark
  <2>2. new.remark # remarkOf(v) => \A i \in DOMAIN inbounds' : inbounds'[i].remark # remarkOf(v)
    BY <1>2, <1>6, <2>1
  <2> QED BY <1>2, <1>7, <2>1, <2>2, StillHas
<1>9. ASSUME NEW u \in 1..Users, NEW i \in DOMAIN inbounds, u # v, Has(u, i)
      PROVE  Has(u, i)'
  <2>1. inbounds'[i].remark # remarkOf(u) => \A j \in DOMAIN inbounds' : inbounds'[j].remark # remarkOf(u)
    <3> SUFFICES ASSUME inbounds[i].remark # remarkOf(u), NEW j \in DOMAIN inbounds'
                 PROVE  inbounds'[j].remark # remarkOf(u)
      BY <1>6
    <3>1. inbounds[j].remark # remarkOf(u)
      BY <1>2, <1>9, HasMeans
    <3> QED BY <1>2, <1>6, <3>1
  <2>2. CASE i = id
    <3> DEFINE c == [uuid |-> uuidOf(u), email |-> emailOf(u)]
    <3>1. c \in {new.clients[j] : j \in DOMAIN new.clients}
      <4>1. c \in {old.clients[j] : j \in DOMAIN old.clients} /\ c.email[1] # v
        BY <1>9, <2>2, HasMeans DEF emailOf
      <4>2. c \in Others(v, old.clients)
        BY <4>1 DEF Others
      <4> HIDE DEF c
      <4> QED BY <1>4, <4>2 DEF Others
    <3>2. new.remark = remarkOf(u) => new.port = sync.list[u].port /\ new.key = <<u, sync.list[u].key>>
      <4>1. SUFFICES ASSUME old.remark = remarkOf(u)
                     PROVE  new.port = sync.list[u].port /\ new.key = <<u, sync.list[u].key>>
        BY <1>4
      <4>2. old.port = sync.list[u].port /\ old.key = <<u, sync.list[u].key>>
        BY <1>9, <2>2, <4>1, HasMeans
      <4>3. old.remark[1] # v
        BY <1>9, <4>1 DEF remarkOf, emailOf
      <4> QED BY <1>4, <4>2, <4>3
    <3> QED BY <1>2, <1>7, <2>1, <2>2, <3>1, <3>2, StillHas
  <2>3. CASE i # id
    <3>1. inbounds'[i] = inbounds[i] /\ inbounds[i].tag # old.tag
      BY <1>1, <1>2, <2>3 DEF RowTags
    <3>2. \A x \in xray : x.tag # old.tag => x \in xray'
      <4>1. new.port \in SyncPorts
        BY <1>1, <1>3
      <4> QED BY <1>1, <1>2, <4>1, Push
    <3>3. inbounds'[i].enable /\ inbounds'[i].vless =>
            \E x \in xray' : /\ x.tag = inbounds'[i].tag /\ x.port = inbounds'[i].port
                             /\ x.key = inbounds'[i].key /\ uuidOf(u) \in x.uuids
      <4> SUFFICES ASSUME inbounds[i].enable, inbounds[i].vless
                   PROVE  \E x \in xray' : /\ x.tag = inbounds[i].tag /\ x.port = inbounds[i].port
                                           /\ x.key = inbounds[i].key /\ uuidOf(u) \in x.uuids
        BY <3>1
      <4>1. PICK x \in xray : /\ x.tag = inbounds[i].tag /\ x.port = inbounds[i].port
                              /\ x.key = inbounds[i].key /\ uuidOf(u) \in x.uuids
        BY <1>9, HasMeans
      <4> QED BY <3>1, <3>2, <4>1
    <3>4. /\ [uuid |-> uuidOf(u), email |-> emailOf(u)]
               \in {inbounds'[i].clients[j] : j \in DOMAIN inbounds'[i].clients}
          /\ inbounds'[i].remark = remarkOf(u) =>
               inbounds'[i].port = sync.list[u].port /\ inbounds'[i].key = <<u, sync.list[u].key>>
      BY <1>9, <3>1, HasMeans
    <3> QED BY <2>1, <3>3, <3>4, StillHas
  <2> QED BY <2>2, <2>3
<1> QED BY <1>2, <1>6, <1>8, <1>9 DEF new

\* Users who are served stay so while nothing is written.
LEMMA SameHas ==
    ASSUME sync'.list = sync.list, inbounds' = inbounds, xray' = xray, NEW u, NEW id, Has(u, id)
    PROVE  Has(u, id)'
<1>1. uuidOf(u)' = uuidOf(u) /\ remarkOf(u)' = remarkOf(u) /\ emailOf(u)' = emailOf(u)
  BY DEF uuidOf, emailOf, remarkOf
<1>2. getInboundByRemark(u)' = getInboundByRemark(u)
  BY <1>1 DEF getInboundByRemark
<1> QED BY <1>1, <1>2 DEF Has, ServedBy

\* The job's user is served by the copy still when no remark has changed.
LEMMA SameCopy ==
    ASSUME sync'.list = sync.list, sync'.at = sync.at, DOMAIN inbounds' = DOMAIN inbounds,
           \A i \in DOMAIN inbounds : inbounds'[i].remark = inbounds[i].remark,
           ServedBy(sync.at, sync'.copy)
    PROVE  ServedBy(sync.at, sync.copy)'
<1>1. uuidOf(sync.at)' = uuidOf(sync.at) /\ remarkOf(sync.at)' = remarkOf(sync.at)
      /\ emailOf(sync.at)' = emailOf(sync.at)
  BY DEF uuidOf, emailOf, remarkOf
<1>2. getInboundByRemark(sync.at)' = getInboundByRemark(sync.at)
  BY <1>1 DEF getInboundByRemark
<1> QED BY <1>1, <1>2 DEF ServedBy

\* A start of Xray gives it every row that is enabled.
LEMMA StartedServes ==
    ASSUME TableInv, XrayStarts, NEW u, NEW id \in DOMAIN inbounds, Has(u, id)
    PROVE  Has(u, id)'
<1>1. /\ inbounds' = inbounds /\ sync' = sync
      /\ xray' = {GenXrayInboundConfig(inbounds[i]) : i \in {j \in DOMAIN inbounds : inbounds[j].enable}}
  BY DEF XrayStarts, StartedWith
<1>2. ASSUME inbounds[id].enable, inbounds[id].vless
      PROVE  \E x \in xray' : /\ x.tag = inbounds[id].tag /\ x.port = inbounds[id].port /\ x.key = inbounds[id].key
                              /\ uuidOf(u) \in x.uuids
  <2> DEFINE row == inbounds[id]
             x   == GenXrayInboundConfig(row)
  <2>1. x \in xray'
    BY <1>1, <1>2
  <2>2. row \in SyncRow /\ row.port \in SyncPorts
    BY DEF TableInv, TableTypes
  <2>3. /\ x.tag = row.tag /\ x.port = row.port /\ x.key = row.key
        /\ \A i \in DOMAIN row.clients : row.clients[i].uuid \in x.uuids
    <3> HIDE DEF row
    <3> QED BY <1>2, <2>2, Config DEF row
  <2> HIDE DEF x
  <2>4. PICK i \in DOMAIN row.clients : row.clients[i] = [uuid |-> uuidOf(u), email |-> emailOf(u)]
    BY HasMeans
  <2>5. uuidOf(u) \in x.uuids
    BY <2>3, <2>4
  <2> QED BY <2>1, <2>3, <2>5
<1>3. /\ [uuid |-> uuidOf(u), email |-> emailOf(u)] \in {inbounds[id].clients[i] : i \in DOMAIN inbounds[id].clients}
      /\ inbounds[id].remark # remarkOf(u) => \A i \in DOMAIN inbounds : inbounds[i].remark # remarkOf(u)
      /\ inbounds[id].remark = remarkOf(u) =>
           inbounds[id].port = sync.list[u].port /\ inbounds[id].key = <<u, sync.list[u].key>>
  BY HasMeans
<1>4. inbounds[id].enable /\ inbounds[id].vless =>
        \E x \in xray' : /\ x.tag = inbounds[id].tag /\ x.port = inbounds[id].port /\ x.key = inbounds[id].key
                         /\ uuidOf(u) \in x.uuids
  BY <1>2
<1> QED BY <1>1, <1>3, <1>4, StillHas

\* Whoever a step that leaves the run calm finds served is served after it.
LEMMA ServesStep ==
    ASSUME SyncInv, ServesInv, [SyncNext]_syncVars
    PROVE  ServesInv'
<1> DEFINE Served == \A u \in 1..Users : u < sync.at /\ u \notin sync.failed /\ sync.list[u].listed =>
                       \E id \in DOMAIN inbounds : Has(u, id)
<1>1. CASE GetUserList
  <2>1. sync'.at = 1 /\ sync'.pc = "find"
    BY <1>1, FetchedJob
  <2> QED BY <2>1 DEF ServesInv
<1>2. CASE processUserInbound
  <2>1. /\ inbounds' = inbounds /\ xray' = xray
        /\ sync'.list = sync.list /\ sync'.calm = sync.calm /\ sync'.failed = sync.failed
    BY <1>2, FoundJob DEF SyncInv
  <2>2. SUFFICES ASSUME sync.calm PROVE ServesInv'
    BY <2>1 DEF ServesInv
  <2>3. Served
    BY <2>2 DEF ServesInv
  <2>a. sync.at \in 1..Users + 1
    BY DEF SyncInv, JobInv, SyncState
  <2>4. CASE ~sync.list[sync.at].listed /\ sync'.at = sync.at + 1 /\ sync'.pc \in {"idle", "find"}
    <3>1. Served'
      BY <2>1, <2>3, <2>4, <2>a, SameHas
    <3> QED BY <2>4, <3>1 DEF ServesInv
  <2>5. CASE sync'.at = sync.at /\ sync'.pc = "create"
    <3>1. Served'
      BY <2>1, <2>3, <2>5, SameHas
    <3> QED BY <2>5, <3>1 DEF ServesInv
  <2>6. CASE /\ sync'.at = sync.at /\ sync'.pc = "update" /\ sync'.id \in DOMAIN inbounds
             /\ sync'.read = inbounds[sync'.id] /\ ServedBy(sync.at, sync'.copy)
    <3>1. Served'
      BY <2>1, <2>3, <2>6, SameHas
    <3>2. ServedBy(sync.at, sync.copy)'
      BY <2>1, <2>6, SameCopy
    <3> QED BY <2>1, <2>6, <3>1, <3>2 DEF ServesInv
  <2> QED BY <1>2, <2>4, <2>5, <2>6, FoundJob DEF SyncInv
<1>3. ASSUME NEW reached \in BOOLEAN, createUserInbound(reached) PROVE ServesInv'
  <2>1. /\ sync.at \in 1..Users /\ sync'.list = sync.list /\ sync'.at = sync.at + 1
        /\ sync'.pc \in {"idle", "find"}
    BY <1>3, CreatedJob DEF SyncInv
  <2>2. SUFFICES ASSUME sync'.calm PROVE Served'
    BY <2>1 DEF ServesInv
  <2>3. sync.calm
    BY <1>3, <2>2, CreatedJob DEF SyncInv
  <2>4. Served
    BY <2>3 DEF ServesInv
  <2>5. CASE UNCHANGED <<inbounds, xray>> /\ sync'.failed = sync.failed \cup {sync.at}
    BY <2>1, <2>4, <2>5, SameHas
  <2>6. CASE /\ AddInbound(Created(sync.at), TRUE) /\ sync'.failed = sync.failed
             /\ ~PushFails(xray, Created(sync.at).tag, Created(sync.at))
    <3>1. PICK v \in 1..Users : v = sync.at
      BY <2>1
    <3>2. PICK row : row = Created(v)
      OBVIOUS
    <3>3. PICK new : new = nextID
      OBVIOUS
    <3>4. AddInbound(row, TRUE) /\ ~PushFails(xray, row.tag, row)
      BY <2>6, <3>1, <3>2
    <3>5. /\ new \in DOMAIN inbounds' /\ Has(v, new)'
          /\ \A u \in 1..Users : \A id \in DOMAIN inbounds :
               u # v /\ Has(u, id) => id \in DOMAIN inbounds' /\ Has(u, id)'
      BY <2>1, <3>2, <3>3, <3>4, AddedServes
    <3> QED BY <2>1, <2>4, <2>6, <3>1, <3>5
  <2> QED BY <1>3, <2>2, <2>5, <2>6, CreatedJob DEF SyncInv
<1>4. ASSUME NEW reached \in BOOLEAN, updateInboundClients(reached) PROVE ServesInv'
  <2>1. sync.pc \in {"update", "again"} /\ sync.at \in 1..Users /\ sync'.list = sync.list
    BY <1>4, UpdatedJob DEF SyncInv
  <2>2. CASE /\ UNCHANGED <<inbounds, xray>> /\ sync'.at = sync.at + 1 /\ sync'.pc \in {"idle", "find"}
             /\ sync'.failed = sync.failed \cup {sync.at} /\ sync'.calm = sync.calm
    <3>1. sync.calm => Served
      BY DEF ServesInv
    <3>2. sync.calm => Served'
      BY <2>1, <2>2, <3>1, SameHas
    <3> QED BY <2>2, <3>2 DEF ServesInv
  <2>3. CASE /\ UpdateInboundRow(sync.id, sync.copy, reached) /\ sync'.failed = sync.failed
             /\ sync'.calm => /\ sync.calm /\ UpdateInboundRow(sync.id, sync.copy, TRUE)
                              /\ ~PushFails(xray, inbounds[sync.id].tag, Rewritten(sync.copy))
             /\ \/ sync'.at = sync.at + 1 /\ sync'.pc \in {"idle", "find"}
                \/ /\ sync.pc = "update" /\ sync'.pc = "again" /\ sync'.at = sync.at
                   /\ sync'.id = sync.id /\ sync'.copy = sync.copy
    <3>1. SUFFICES ASSUME sync'.calm PROVE ServesInv'
      BY DEF ServesInv
    <3>2. sync.calm /\ Served
      BY <2>3, <3>1 DEF ServesInv
    <3>3. PICK v \in 1..Users : v = sync.at
      BY <2>1
    <3>4. PICK id, copy : id = sync.id /\ copy = sync.copy
      OBVIOUS
    <3>5. UpdateInboundRow(id, copy, TRUE) /\ ~PushFails(xray, inbounds[id].tag, Rewritten(copy))
      BY <2>3, <3>1, <3>4
    <3>6. /\ id \in DOMAIN inbounds' /\ Has(v, id)' /\ inbounds'[id] = Rewritten(copy)
          /\ \A i \in DOMAIN inbounds : i \in DOMAIN inbounds' /\ inbounds'[i].remark = inbounds[i].remark
          /\ DOMAIN inbounds' = DOMAIN inbounds
          /\ \A u \in 1..Users : \A i \in DOMAIN inbounds :
               u # v /\ Has(u, i) => i \in DOMAIN inbounds' /\ Has(u, i)'
      BY <2>1, <3>2, <3>3, <3>4, <3>5, SavedServes
    <3>7. CASE sync'.at = sync.at + 1 /\ sync'.pc \in {"idle", "find"}
      <4>1. Served'
        BY <2>1, <2>3, <3>2, <3>3, <3>6, <3>7
      <4> QED BY <3>7, <4>1 DEF ServesInv
    <3>8. CASE /\ sync.pc = "update" /\ sync'.pc = "again" /\ sync'.at = sync.at
               /\ sync'.id = sync.id /\ sync'.copy = sync.copy
      <4>1. Served'
        BY <2>1, <2>3, <3>2, <3>3, <3>6, <3>8
      <4>2. ServedBy(sync.at, sync'.copy)
        BY <3>2, <3>8 DEF ServesInv
      <4>3. ServedBy(sync.at, sync.copy)'
        BY <2>1, <3>6, <3>8, <4>2, SameCopy
      <4>4. sync'.id \in DOMAIN inbounds' /\ inbounds'[sync'.id] = Rewritten(sync'.copy)
        BY <3>4, <3>6, <3>8
      <4> QED BY <3>8, <4>1, <4>3, <4>4 DEF ServesInv, Rewritten
    <3> QED BY <2>3, <3>7, <3>8
  <2> QED BY <1>4, <2>2, <2>3, UpdatedJob DEF SyncInv
<1>5. ASSUME NEW u \in 1..Users, RemoteChanges(u) PROVE ServesInv'
  <2>1. UNCHANGED <<inbounds, xray, sync>>
    BY <1>5, ChangedRemote
  <2>2. sync.calm => Served'
    BY <2>1, SameHas DEF ServesInv
  <2>3. ServedBy(sync.at, sync.copy) => ServedBy(sync.at, sync.copy)'
    BY <2>1, SameCopy
  <2> QED BY <2>1, <2>2, <2>3 DEF ServesInv
<1>6. CASE XrayStarts
  <2>1. inbounds' = inbounds /\ sync' = sync
    BY <1>6 DEF XrayStarts
  <2>2. sync.calm => Served'
    BY <1>6, <2>1, StartedServes DEF ServesInv, SyncInv
  <2>3. ServedBy(sync.at, sync.copy) => ServedBy(sync.at, sync.copy)'
    BY <2>1, SameCopy
  <2> QED BY <2>1, <2>2, <2>3 DEF ServesInv
<1>7. CASE UNCHANGED syncVars
  <2>1. UNCHANGED <<inbounds, xray, sync>>
    BY <1>7 DEF syncVars
  <2>2. sync.calm => Served'
    BY <2>1, SameHas DEF ServesInv
  <2>3. ServedBy(sync.at, sync.copy) => ServedBy(sync.at, sync.copy)'
    BY <2>1, SameCopy
  <2> QED BY <2>1, <2>2, <2>3 DEF ServesInv
<1>8. CASE Touched
  <2>1. sync'.calm = FALSE
    BY <1>8, TouchedInv DEF SyncInv
  <2> QED BY <2>1 DEF ServesInv
<1>9. /\ \A port \in SyncPorts, vless, reached \in BOOLEAN : AdminAdds(port, vless, reached) => Touched
      /\ \A id \in DOMAIN inbounds : (AdminSwitches(id) => Touched) /\ (AdminDeletes(id) => Touched)
      /\ \A id \in DOMAIN inbounds : \A i \in DOMAIN inbounds[id].clients : AdminDropsClient(id, i) => Touched
  BY DEF AdminAdds, AdminSwitches, AdminDeletes, AdminDropsClient
<1>a. CASE JobPanics
  <2>1. sync'.at = 1 /\ sync'.pc = "idle"
    BY <1>a, PanickedJob
  <2> QED BY <2>1 DEF ServesInv
<1> QED BY <1>1, <1>2, <1>3, <1>4, <1>5, <1>6, <1>7, <1>8, <1>9, <1>a DEF SyncNext

\* After a run in which every push went through and no administrator interfered, each user
\* the job reports no error for is let in by Xray with the uuid the run was told, and finds an
\* inbound of his own at his port with his key, whatever moved before.
THEOREM CalmRunServes == SyncSpec => []SyncServes
<1>1. SyncInit => ServesInv
  <2> SUFFICES ASSUME SyncInit PROVE ServesInv
    OBVIOUS
  <2>1. sync.at = 1 /\ sync.pc = "idle"
    BY DEF SyncInit, Asleep
  <2> QED BY <2>1 DEF ServesInv
<1>2. SyncInv /\ SyncInv' /\ ServesInv /\ [SyncNext]_syncVars => ServesInv'
  BY ServesStep
<1>3. SyncInv /\ ServesInv => SyncServes
  <2> SUFFICES ASSUME SyncInv, ServesInv, sync.pc = "idle", sync.at > Users, sync.calm,
                      NEW u \in 1..Users \ sync.failed, sync.list[u].listed
               PROVE  \E id \in DOMAIN inbounds :
                        LET row == inbounds[id]
                        IN  /\ [uuid |-> uuidOf(u), email |-> emailOf(u)] \in ToSet(row.clients)
                            /\ row.remark # remarkOf(u) => getInboundByRemark(u) = {}
                            /\ row.remark = remarkOf(u) => row.port = sync.list[u].port /\ row.key = <<u, sync.list[u].key>>
                            /\ row.enable /\ row.vless =>
                                 \E x \in xray : /\ x.tag = row.tag /\ x.port = row.port /\ x.key = row.key
                                                 /\ uuidOf(u) \in x.uuids
    BY DEF SyncServes
  <2>1. u < sync.at
    BY UsersAssumption DEF SyncInv, JobInv, SyncState
  <2>2. PICK id \in DOMAIN inbounds : Has(u, id)
    BY <2>1 DEF ServesInv
  <2>3. [uuid |-> uuidOf(u), email |-> emailOf(u)] \in ToSet(inbounds[id].clients)
    BY <2>2 DEF Has, ServedBy, ToSet
  <2> QED BY <2>2, <2>3 DEF Has, ServedBy
<1> QED BY <1>1, <1>2, <1>3, InvHolds, PTL DEF SyncSpec

================================================================================
