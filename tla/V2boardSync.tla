----------------------------- MODULE V2boardSync -----------------------------
(***************************************************************************)
(* The job that brings the users of a remote V2board panel into the        *)
(* inbounds, once a minute (web/job/v2board_sync_job.go).  A user has an   *)
(* inbound of his own, found by the remark it was created with, or is a    *)
(* guest of the inbound that has his port.                                 *)
(*                                                                         *)
(* The job reads the inbounds, edits a copy and hands it to UpdateInbound, *)
(* which saves the whole of it and gives it to Xray; the pages' handlers   *)
(* come in between.  A handler is one step here, and so is a start of Xray *)
(* with the rows it reads (ClientSync has what comes between).  A uuid or  *)
(* an email is its user and how often it was changed, those of the         *)
(* administrator's own client <<0, port>>.                                 *)
(***************************************************************************)
EXTENDS Integers, Sequences, FiniteSets
LOCAL INSTANCE FiniteSetsExt
LOCAL INSTANCE SequencesExt

CONSTANTS
    Users,       \* the remote panel's users: 1 .. Users
    SyncPorts,   \* the ports an inbound may have
    MaxRows,     \* bound: inbounds
    MaxChanges   \* bound: changes on either panel, calls to Xray that fail

ASSUME UsersAssumption == Users \in Nat \ {0} /\ MaxRows \in Nat /\ MaxChanges \in Nat

VARIABLES
    remote,   \* what the remote panel says of each user
    inbounds, \* the inbounds: a function from some of the ids 1 .. MaxRows
    stats,    \* the rows of client_traffics: an inbound's id and an email
    xray,     \* the inbounds Xray has
    cut,      \* the traffic rows that a call cut off in the middle wrote or took
    sync,     \* the job: where it is and what it has read
    changes   \* how much has happened

syncVars == <<remote, inbounds, stats, xray, cut, sync, changes>>

uuidOf(u)  == <<u, sync.list[u].uuid>>
emailOf(u) == <<u, sync.list[u].email>>
Changes == changes < MaxChanges /\ changes' = changes + 1

Blank  == [remark |-> <<0, 0>>, enable |-> TRUE, vless |-> TRUE, tag |-> <<"none", 0>>, port |-> 0,
           key |-> <<0, 0>>, clients |-> <<>>]
Asleep(list) == [pc |-> "idle", list |-> list, at |-> 1, id |-> 0, read |-> Blank, copy |-> Blank,
                  changed |-> FALSE, failed |-> {}, calm |-> TRUE]

SyncInit ==
    /\ remote \in [1..Users -> [listed : {TRUE}, uuid : {0}, email : {0}, port : SyncPorts, key : {0}]]
    /\ inbounds = << >> /\ stats = {} /\ xray = {} /\ cut = {}
    /\ sync = Asleep(remote) /\ changes = 0

(*------------------------------ what Xray has ---------------------------*)
\* GenXrayInboundConfig: every client is in it, and a client is known by its id
\* to VLESS only.
GenXrayInboundConfig(row) ==
    [tag |-> row.tag, port |-> row.port, key |-> row.key,
     uuids |-> IF row.vless THEN {c.uuid : c \in ToSet(row.clients)} ELSE {}]

\* What Xray is started with.
StartedWith(rows) == {GenXrayInboundConfig(rows[id]) : id \in {i \in DOMAIN rows : rows[i].enable}}

\* Xray refuses a tag it has, and a port it listens at.
Accepts(has, new) == \A i \in has : i.tag # new.tag /\ i.port # new.port
\* DelInbound of the old tag, then AddInbound.
Pushed_NewTag(has, tag, row) ==   \* mistake: the tag is set before it is used for DelInbound
    LET rest == {i \in has : i.tag # row.tag}
        new  == GenXrayInboundConfig(row)
    IN  IF row.enable /\ Accepts(rest, new) THEN rest \cup {new} ELSE rest
Pushed(has, tag, row) ==
    LET rest == {i \in has : i.tag # tag}
        new  == GenXrayInboundConfig(row)
    IN  IF row.enable /\ Accepts(rest, new) THEN rest \cup {new} ELSE rest
PushFails(has, tag, row) ==
    row.enable /\ ~Accepts({i \in has : i.tag # tag}, GenXrayInboundConfig(row))

(*------------------------------ the handlers ----------------------------*)
Emails(row) == {c.email : c \in ToSet(row.clients)}
checkPortExist(port, ignoreId) == \E id \in DOMAIN inbounds \ {ignoreId} : inbounds[id].port = port
checkEmailExist(row) == \E id \in DOMAIN inbounds : Emails(inbounds[id]) \cap Emails(row) # {}
nextID == Min((1..MaxRows + 1) \ DOMAIN inbounds)

\* updateClientTraffics compares the clients with those of the stored row, not
\* with those the caller has read.
updateClientTraffics_Read(id, old, new) ==   \* mistake: those the job has read
    {s \in stats : s[1] # id \/ s[2] \notin Emails(sync.read) \ Emails(new)}
      \cup {<<id, e>> : e \in Emails(new) \ Emails(sync.read)}
updateClientTraffics(id, old, new) ==
    {s \in stats : s[1] # id \/ s[2] \notin Emails(old) \ Emails(new)}
      \cup {<<id, e>> : e \in Emails(new) \ Emails(old)}

\* One inbound has one row of an email: a client that a call cut off has left one
\* cannot be given his.
Recorded(id, row) == \E e \in Emails(row) \ Emails(inbounds[id]) : <<id, e>> \in stats
Refused(id, row) ==
    \/ checkPortExist(row.port, id)
    \/ id \notin DOMAIN inbounds
    \/ id \in DOMAIN inbounds /\ Recorded(id, row)

\* InboundService.UpdateInbound saves the row it is given under the tag of its port, whatever was
\* stored; it does not look at the emails of other inbounds.  reached: Xray's API
\* answers.  The restart that a failed push asks for is the caller's to order.
UpdateInboundRow(id, row, reached) ==
    LET new == [row EXCEPT !.tag = <<"inbound", row.port>>]
    IN  /\ ~Refused(id, row)
        /\ inbounds' = [inbounds EXCEPT ![id] = new]
        /\ stats' = updateClientTraffics(id, inbounds[id], new)
        /\ xray' = IF reached THEN Pushed(xray, inbounds[id].tag, new) ELSE xray

AddRefused(row) ==
    \/ checkPortExist(row.port, 0) \/ checkEmailExist(row)
    \/ \E id \in DOMAIN inbounds : inbounds[id].tag = row.tag

\* The lowest free id is taken: that of an inbound deleted a moment ago.
StoreInbound(row) ==
    /\ ~AddRefused(row) /\ nextID <= MaxRows
    /\ inbounds' = [id \in DOMAIN inbounds \cup {nextID} |-> IF id = nextID THEN row ELSE inbounds[id]]
    /\ stats' = stats \cup {<<nextID, e>> : e \in Emails(row)}
AddInbound(row, reached) ==
    /\ StoreInbound(row)
    /\ xray' = IF reached THEN Pushed(xray, row.tag, row) ELSE xray

(*--------------------------------- the job ------------------------------*)
\* GetUserList; a request that fails ends the run.
GetUserList ==
    /\ sync.pc = "idle" /\ sync' = [Asleep(remote) EXCEPT !.pc = "find"]
    /\ UNCHANGED <<remote, inbounds, stats, xray, cut, changes>>

NextUser(s, ok) ==
    [s EXCEPT !.pc = IF s.at = Users THEN "idle" ELSE "find", !.at = @ + 1,
              !.failed = IF ok THEN @ ELSE @ \cup {s.at}, !.id = 0, !.read = Blank, !.copy = Blank,
              !.changed = FALSE]

remarkOf(u) == emailOf(u)
getInboundByRemark(u) == {id \in DOMAIN inbounds : inbounds[id].remark = remarkOf(u)}
getInboundByPort(u)   == {id \in DOMAIN inbounds : inbounds[id].port = sync.list[u].port}

\* updateUserInbound: the first client with his email or his uuid, or a new one.
updateUserInbound_Alone(clients, u) == <<[uuid |-> uuidOf(u), email |-> emailOf(u)]>>   \* mistake
updateUserInbound(clients, u) ==
    LET at   == {i \in DOMAIN clients : clients[i].email = emailOf(u) \/ clients[i].uuid = uuidOf(u)}
        user == [uuid |-> uuidOf(u), email |-> emailOf(u)]
    IN  IF at = {} THEN Append(clients, user) ELSE [clients EXCEPT ![Min(at)] = user]

\* processUserInbound, up to the first write: a user without vless_config is
\* skipped; an inbound of his own is edited whole, another's only in its clients.
processUserInbound ==
    LET u     == sync.at
        user  == sync.list[u]
        own   == getInboundByRemark(u)
        other == getInboundByPort(u)
        Edited(id, row) ==
          [sync EXCEPT !.pc = "update", !.id = id, !.read = inbounds[id],
                       !.copy = [row EXCEPT !.clients = updateUserInbound(@, u)],
                       !.changed = own # {} /\ row # inbounds[id]]
    IN  /\ sync.pc = "find"
        /\ sync' =
             IF ~user.listed THEN NextUser(sync, TRUE)
             ELSE IF own # {}
             THEN Edited(Min(own), [inbounds[Min(own)] EXCEPT !.port = user.port, !.key = <<u, user.key>>])
             ELSE IF other # {} THEN Edited(Min(other), inbounds[Min(other)])
             ELSE [sync EXCEPT !.pc = "create"]
        /\ UNCHANGED <<remote, inbounds, stats, xray, cut, changes>>

\* What a step of the job does beside its write: whether the push failed is noted
\* here and nowhere in the code.
Wrote(next, reached, failed) ==
    /\ sync' = [next EXCEPT !.calm = @ /\ reached /\ ~failed]
    /\ IF reached THEN UNCHANGED changes ELSE Changes
    /\ UNCHANGED <<remote, cut>>
Failed == sync' = NextUser(sync, FALSE) /\ UNCHANGED <<remote, inbounds, stats, xray, cut, changes>>

Created(u) ==
    [Blank EXCEPT !.remark = remarkOf(u), !.tag = <<"remote", u>>, !.port = sync.list[u].port,
                  !.key = <<u, sync.list[u].key>>,
                  !.clients = <<[uuid |-> uuidOf(u), email |-> emailOf(u)]>>]
createUserInbound(reached) ==
    LET row == Created(sync.at)
    IN  /\ sync.pc = "create"
        /\ \/ AddInbound(row, reached) /\ Wrote(NextUser(sync, TRUE), reached, PushFails(xray, row.tag, row))
           \/ reached /\ AddRefused(row) /\ Failed

\* The inbound is updated for the user, and once more when its port or its stream
\* was changed, although the first update has saved them.
updateInboundClients(reached) ==
    /\ sync.pc \in {"update", "again"}
    /\ \/ /\ UpdateInboundRow(sync.id, sync.copy, reached)
          /\ Wrote(IF sync.pc = "update" /\ sync.changed THEN [sync EXCEPT !.pc = "again"]
                   ELSE NextUser(sync, TRUE),
                   reached, PushFails(xray, inbounds[sync.id].tag, inbounds'[sync.id]))
       \/ reached /\ Refused(sync.id, sync.copy) /\ Failed

\* While Xray is being started its API has no port, and a call to it panics, in the
\* middle of the transaction; what was written until then is committed: the new
\* inbound, or the traffic rows without the clients they are of.  Nothing recovers
\* the job: the panel dies, and what starts next starts Xray.
JobPanics ==
    /\ \/ sync.pc = "create" /\ StoreInbound(Created(sync.at)) /\ UNCHANGED cut
       \/ /\ sync.pc \in {"update", "again"} /\ ~Refused(sync.id, sync.copy)
          /\ LET id  == sync.id
                 old == Emails(inbounds[id])
                 new == Emails(sync.copy)
             IN  /\ stats' = updateClientTraffics(id, inbounds[id], sync.copy)
                 /\ cut' = cut \cup {<<id, e>> : e \in (old \ new) \cup (new \ old)}
          /\ UNCHANGED inbounds
    /\ xray' = StartedWith(inbounds') /\ sync' = Asleep(sync.list)
    /\ Changes /\ UNCHANGED remote

(*-------------------------- around the job ------------------------------*)
\* The remote panel adds or drops a user or changes what it says of one.
Remotely(u, user) ==
    /\ remote' = [remote EXCEPT ![u] = user] /\ user # remote[u]
    /\ Changes /\ UNCHANGED <<inbounds, stats, xray, cut, sync>>

RemoteChanges(u) ==
    \/ Remotely(u, [remote[u] EXCEPT !.listed = ~@])
    \/ Remotely(u, [remote[u] EXCEPT !.uuid = @ + 1])
    \/ Remotely(u, [remote[u] EXCEPT !.email = @ + 1])
    \/ Remotely(u, [remote[u] EXCEPT !.key = @ + 1])
    \/ \E port \in SyncPorts : Remotely(u, [remote[u] EXCEPT !.port = port])

\* The administrator's pages.  Xray is reached, or the restart follows at once, or the
\* call panics: the page's handler is recovered and asks for no restart.  An update or
\* a deletion of an inbound that panics then changes nothing.
Touched == sync' = [sync EXCEPT !.calm = FALSE] /\ Changes /\ UNCHANGED remote

AdminAdds(port, vless, reached) ==
    /\ AddInbound([Blank EXCEPT !.vless = vless, !.tag = <<"inbound", port>>, !.port = port,
                                !.clients = <<[uuid |-> <<0, port>>, email |-> <<0, port>>]>>], reached)
    /\ Touched /\ UNCHANGED cut
AdminSwitches(id) == UpdateInboundRow(id, [inbounds[id] EXCEPT !.enable = ~@], TRUE) /\ Touched /\ UNCHANGED cut
AdminDropsClient(id, i) ==   \* DelInboundClient, which reads the traffic row first
    LET client == inbounds[id].clients[i]
    IN  /\ Len(inbounds[id].clients) > 1 /\ <<id, client.email>> \in stats
        /\ stats' = stats \ {<<id, client.email>>}
        /\ \/ /\ inbounds' = [inbounds EXCEPT ![id].clients = RemoveAt(@, i)]
              /\ xray' = {[x EXCEPT !.uuids = IF x.tag = inbounds[id].tag THEN @ \ {client.uuid} ELSE @] : x \in xray}
              /\ UNCHANGED cut
           \/ cut' = cut \cup {<<id, client.email>>} /\ UNCHANGED <<inbounds, xray>>
        /\ Touched
AdminDeletes(id) ==
    /\ inbounds' = [i \in DOMAIN inbounds \ {id} |-> inbounds[i]]
    /\ stats' = {s \in stats : s[1] # id} /\ cut' = {s \in cut : s[1] # id}
    /\ xray' = {i \in xray : i.tag # inbounds[id].tag}
    /\ Touched

XrayStarts ==
    /\ xray' = StartedWith(inbounds) /\ xray' # xray
    /\ UNCHANGED <<remote, inbounds, stats, cut, sync, changes>>

SyncNext ==
    \/ GetUserList
    \/ processUserInbound
    \/ \E reached \in BOOLEAN : createUserInbound(reached) \/ updateInboundClients(reached)
    \/ JobPanics
    \/ \E u \in 1..Users : RemoteChanges(u)
    \/ \E port \in SyncPorts, vless, reached \in BOOLEAN : AdminAdds(port, vless, reached)
    \/ \E id \in DOMAIN inbounds :
         \/ AdminSwitches(id) \/ AdminDeletes(id)
         \/ \E i \in DOMAIN inbounds[id].clients : AdminDropsClient(id, i)
    \/ XrayStarts

SyncSpec == SyncInit /\ [][SyncNext]_syncVars

SyncTypeOK ==
    /\ remote \in [1..Users -> [listed : BOOLEAN, uuid : 0..MaxChanges, email : 0..MaxChanges,
                                port : SyncPorts, key : 0..MaxChanges]]
    /\ DOMAIN inbounds \subseteq 1..MaxRows
    /\ \A id \in DOMAIN inbounds :
         /\ inbounds[id].port \in SyncPorts /\ {inbounds[id].enable, inbounds[id].vless} \subseteq BOOLEAN
         /\ \A c \in ToSet(inbounds[id].clients) : DOMAIN c = {"uuid", "email"}
    /\ \A s \in stats \cup cut : s[1] \in 1..MaxRows
    /\ \A x \in xray : x.port \in SyncPorts
    /\ sync.pc \in {"idle", "find", "update", "again", "create"} /\ sync.at \in 1..Users + 1
    /\ sync.failed \subseteq 1..Users /\ changes \in 0..MaxChanges

\* After a run in which every push went through and no administrator interfered,
\* each user the job reports no error for is let in by Xray with the uuid the run
\* was told, and the one who has an inbound of his own finds it at his port with
\* his key: whatever moved before, among the users after him in the list, or in
\* runs whose pushes were lost and whose restarts nobody ordered.
SyncServes ==
    sync.pc = "idle" /\ sync.at > Users /\ sync.calm =>
      \A u \in 1..Users \ sync.failed : sync.list[u].listed =>
        \E id \in DOMAIN inbounds :
          LET row == inbounds[id]
          IN  /\ [uuid |-> uuidOf(u), email |-> emailOf(u)] \in ToSet(row.clients)
              /\ row.remark # remarkOf(u) => getInboundByRemark(u) = {}
              /\ row.remark = remarkOf(u) => row.port = sync.list[u].port /\ row.key = <<u, sync.list[u].key>>
              /\ row.enable /\ row.vless =>
                   \E x \in xray : /\ x.tag = row.tag /\ x.port = row.port /\ x.key = row.key
                                   /\ uuidOf(u) \in x.uuids

\* Every client of an inbound has its traffic row and every traffic row its client,
\* although the job saves copies it read before a client or the whole inbound was
\* deleted, and an inbound that was added since may have the deleted one's id: but for
\* the rows of a call that was cut off.
SyncMetered ==
    stats \ cut = (UNION {{<<id, e>> : e \in Emails(inbounds[id])} : id \in DOMAIN inbounds}) \ cut

\* What the job writes over a row that is as it was read leaves every other user's
\* client there, and the port, the stream and the switch of an inbound that is not
\* the user's own: a guest never takes over the inbound he is put in.
SyncKeeps ==
    [][ \A id \in DOMAIN inbounds :
          sync.pc = "update" /\ sync'.pc # "update" /\ sync.id = id /\ inbounds[id] = sync.read =>
            LET old == inbounds[id]
                new == inbounds'[id]
                Others(row) == {c \in ToSet(row.clients) : c.email[1] # sync.at}
            IN  /\ Others(new) = Others(old) /\ new.enable = old.enable /\ new.remark = old.remark
                /\ old.remark[1] # sync.at => new.port = old.port /\ new.key = old.key ]_syncVars

==============================================================================
