# X-Panel: a verification project

X-Panel is a Go web panel (a fork of 3x-ui) for one Xray-core server. It keeps
inbounds and clients in SQLite, starts and supervises an `xray` child process,
pushes client edits to it over its gRPC API, meters traffic, enforces quotas,
expiry dates and device limits, synchronises users with V2board panels, sends
reports through a Telegram bot and serves subscriptions. This directory holds
TLA+ modules of the parts where order, concurrency, failure and time matter,
TLC configurations that check them on small instances, and TLAPS proofs of the
results that hold for every instance.

## 1. The system

### Components, state, operations

| component | code | state | operations |
|---|---|---|---|
| Xray process supervisor | `web/service/xray.go`, `xray/process.go`, `web/job/check_xray_running_job.go`, `web/web.go` | global `p` (current `*xray.Process`), mutex `lock`, flags `isNeedXrayRestart`, `isManuallyStopped`, the child | `RestartXray`, `StopXray`, `Start`, `Stop`, `IsRunning`, the 1 s crash job, the 30 s pending-restart job, the finalizer |
| Inbound and client management | `web/service/inbound.go`, `web/controller/inbound.go` | tables `inbounds` (settings JSON with the clients) and `client_traffics`, the users of the live Xray | add, update, delete inbound and client, enable/disable, reset traffic, delete depleted |
| Configuration builder | `web/service/xray.go` `GetXrayConfig`, `xray/config.go` | none | filters the clients Xray is started with, compares configurations |
| Traffic accounting | `web/job/xray_traffic_job.go`, `xray/api.go`, `web/service/inbound.go` `AddTraffic`, `web/service/outbound.go` | counters, enable flags, expiry times | take Xray's counters, credit, first-use expiry, auto-renew, disable depleted, report |
| Device limit | `web/job/check_client_ip_job.go` (`CheckDeviceLimitJob`) | active IPs, ban flags, position in the access log | scan, ban by replacing the UUID, unban |
| IP limit | `web/job/check_client_ip_job.go` (`CheckClientIpJob`), `clear_logs_job.go` | access log, `inbound_client_ips`, fail2ban log | scan, log, truncate |
| V2board sync | `web/job/v2board_sync_job.go`, `web/service/v2board.go` | remote user lists, shared inbounds | poll, create, update, report traffic |
| Telegram bot | `web/service/tgbot.go`, `web/global/hashStorage.go` | conversation state, pending client, hashed queries | commands, callbacks, reports |
| Server maintenance | `web/service/server.go` | database file, Xray binary | import/export database, update Xray, update geo files |
| Database | `database/` | schema, seeders, history | migrations, seeding, link history |
| Panel life cycle | `main.go`, `web/web.go` | servers, cron | start, stop, SIGHUP restart, signal handling |
| Web panel, inbounds | `web/html/inbounds.html`, `web/html/modals`, `web/html/form`, `web/assets/js/model/{inbound,dbinbound}.js` | the fetched list, the inbound in the form, requests on their way | open, edit, ask for keys, save, add clients, clone, reset, links |
| Web panel, Xray settings | `web/html/xray.html`, `web/html/modals/xray_*`, `web/assets/js/model/outbound.js` | the template's JSON text, the outbound in the form, the list of balancers | edit outbounds, routes and balancers, paste, import a link |
| Web panel, the rest | `web/controller`, `web/session`, `web/middleware`, other pages and scripts | sessions | routes, log-in, dashboard |
| Subscription server | `sub/` | none | renders links and configurations |
| Settings | `web/service/setting.go`, `web/entity` | table `settings` | get, set, validate, defaults |
| WARP, network, utilities | `web/service/warp.go`, `web/network`, `util`, `logger` | | |

### How they interact

Everything runs in one process. gin serves every HTTP request in a goroutine,
robfig/cron starts every tick of every job in a goroutine of its own (it skips
no tick while an earlier one still runs), the bot and the device-limit loop
have goroutines of their own, and Xray is a child process reached by signals
and by gRPC. They share package-level globals (`p`, the two atomic flags, the
job's maps) and the database. Only `RestartXray` and `StopXray` take the mutex
`lock`; handlers and jobs read and write the database around it and call the
live Xray without it. A push to the live Xray that fails sets
`isNeedXrayRestart`, which a job polls every 30 seconds.

### What is hard

* interleaving: several goroutines decide to stop or start the one child;
  handlers read a row, work on it and save it whole while jobs update it;
* partial failure: an edit has three parts (settings JSON, `client_traffics`
  row, live user) that are written one after the other;
* time: first-use expiry, renewal, ban delays, overlapping cron ticks;
* restarts: a restart rebuilds the live users from the database and forgets
  whatever was done to the live process only (bans);
* external processes: the child may ignore SIGTERM, exit by itself, be reaped
  by either of two waiters.

### What makes each part correct

* *Supervisor*: at most one child serves; a manual stop holds; a crash is
  repaired; every caller returns; nobody loses sight of a child.
* *Clients*: settings and traffic rows name the same clients; Xray lets in
  exactly whom the database admits once nothing is pending; an edit touches the
  client it is about.
* *Device limit*: a marked client is shut out; nobody unmarked is; every ban
  ends.
* *Traffic*: no byte is credited twice; who is over a quota or past a date is
  disabled by the commit that finds it, and nobody else; a period is renewed
  when it ends and not before; the two copies of an expiry time agree.
* *Access log*: a line is read by the device-limit job at most once, and moved
  on to exactly one later log; only lines written between a copy and a
  truncation may be lost.
* *Pages*: what a form stores is what it showed, and shows again; keys, methods
  and security fit each other however they were chosen; a link reaches the
  inbound it was made for; tags and balancers that rules name exist.
* *V2board*: after a sync that meets no failure Xray lets in each user it
  reports no error for; what it writes leaves other clients alone, and every
  client has its traffic row. *Maintenance*: after an import or an update that
  fails, database and Xray are what they were; that does not hold of the code
  (hazards) and is not modelled.

`PROJECT.json` lists every component with its status and every hazard at its
line with the property that covers it, or a note of what is open.

## 2. Plan

| order | module | models | abstract specification, theorems |
|---|---|---|---|
| done | `Worker`, `XraySupervisor` | the child process, its lock and its jobs | refines `Worker`; types, `StopHolds` and the refinement proved |
| done | `ClientSync` | handlers, traffic job and restarts on one inbound | types, `Paired`, `OwnClientsOnly`, `NoGhost`, `NoLockout` proved |
| done | `DeviceLimit` | the ban loop beside handlers and restarts | types, `BanHolds`, `Served` proved |
| done | `JsonValues`, `InboundModel`, `OutboundModel`, `ShareLink` | the classes that read and write Xray's JSON, and share links; operators only | every `fromJson` undoes its `toJson`: checked through the pages, proved of settings and parts without headers |
| done | `InboundPages`, `OutboundPages` | the inbound list and form; the Xray settings page with the outbound form | types, `KeysPaired`, `SecurityFits`, `PasswordsFit`, `OutTagsUnique`, `BalancersServed` proved |
| done | `TrafficAccounting` | traffic job and handlers on counters and dates | types and all five properties proved |
| done | `AccessLog` | three jobs on one file | types and all three properties proved |
| done | `V2boardSync` | the sync job over inbounds with shared ports, beside the administrator | types and all three properties proved |
| done | `PanelParts` | the five state machines above side by side | implements each of them: proved |
| open | `Maintenance` | `ImportDB`, `UpdateXray` | an atomic replacement |
| open | proofs | the round trips: the rest of `ReopenStable` (headers and what a network's settings are named after), `OutboundKept`, `LinksServe` |

`ClientSync` and `DeviceLimit` each carry the part of the other that they need
(a restart, an edit) as one coarse step. Invariants are conjunctions of named
parts and every operation is one action, so that the proofs follow the
structure of `Next`; no module declares a RECURSIVE operator.

## 3. The modules

### XraySupervisor, Worker

One thread per goroutine that may touch the child: panel requests (`Panels`),
ticks of the crash job (`CrashTicks`, which may overlap), of the 30 s job
(`RestartTicks`), and handlers that push an edit and may ask for a restart.
`os[h]` follows a child from `process` object to reaped; two waiters (`cmd.Run`
and the goroutine `Stop` starts) may reap it, and only the first sets
`ProcessState`. The lock is a variable, each step between two visible effects
under it an action. `LateSpawn` says whether `Start` may return before the
goroutine it starts has forked: nothing in the code forbids it.
`Worker` is what all of this is for: no second child while one serves.

### ClientSync

One inbound (`row`: is it there, is it enabled, how is each client marked in
its settings JSON), the `client_traffics` rows (`stat`), and the live Xray
(`live`). A handler is a thread that reads the row (`AddRead`, `DelRead`, ...),
works on its snapshot, and saves it whole; `AddTraffic`, `Disable` and
`CommitTraffic` are the three parts of `InboundService.AddTraffic`, run by the
traffic job and by `GetXrayConfig`; `RestartBegin` to `StartXray` are
`RestartXray`. `need` is `isNeedXrayRestart`.

Choices a reader should know:

* SQLite has one writer. A transaction is taken when it first writes
  (`writer`), its changes appear at its commit, and a death rolls it back.
  Statements outside a transaction are steps of their own.
* The duplicate check and the read of the row are one read (both come before
  any write); the two queries of `GetAllInbounds` are one step; the end of a
  handler and the controller's `SetToNeedRestart` are one step.
* `proc` is the global `p`: nil, a process that has no API port yet, or one
  that has it. `XrayAPI.Init` refuses port 0 and the handlers ignore that, so
  that the next call panics; while `p` is nil, asking it for the port does. Each
  handler that calls Xray has an action for it (`AddBreak`, `DelBreak`, ...):
  gin recovers the request, nobody asks for a restart, and the deferred function,
  which finds `err` nil, commits what the transaction has written so far. The
  handlers share one `XrayAPI`, which another's `Close` empties (`MayPanic`).
  The traffic job's panic ends the panel (`TickPanic`), as cron recovers nothing;
  `autoRenewClients` alone looks at `Init`'s error.
* `cut` remembers the clients of requests that ended between two of their
  writes, by a panic or, in a deletion, by the end of the panel. `Paired` is
  about the others.
* The template has the `api` inbound, so that a process that has started has a
  port, and `Start` does not fail here (it does in `XraySupervisor`).
* There is one inbound: what two inbounds add (a port that is taken, an email
  in the other inbound, `DelDepletedClients` over all of them) is left out.
* `due` abstracts counters and dates: a client is over its limits or not.
* `Ops`, `ApiMayFail` and `RestartsOverlap` choose what an instance looks at.

### DeviceLimit

`CheckDeviceLimitJob` is one goroutine: `Run` reads the log (`Refresh` leaves
open which addresses have expired and which new lines are missed), the first
loop bans and releases (`BanUser`, `UnbanUser`), the second releases who is no
longer online (`SecondLoop`, `ReleaseUser`); the five seconds between removing
a user and adding it again separate `RemoveUser` from `BanAdd` and `UnbanAdd`.
Handlers, the traffic job's disabling and restarts are one step each; their API
calls work. A client in `Shadowsocks` is of an inbound of that protocol: `AddUser`
asks its map for a cipher, which a map made from a `Client` has not, and the
panic ends the panel (`Panic`); Xray goes down with it or goes on, as the panel
was started. `live[e]` is the credential Xray knows the client by: its own, a
random one, an older one, or none. `stale` remembers that the settings were
changed after the job had read them, so that what it adds is an older credential.

### JsonValues, InboundModel, OutboundModel, ShareLink

A JavaScript object is a record of the keys that are defined, a text that is
split or joined somewhere is the sequence of its parts (`JsonValues`).
`InboundModel` has one operator per class of `web/assets/js/model/inbound.js`:
`TlsStreamSettings(json)` is the object `fromJson(json)` makes, with the
defaults of its constructor, and `TlsStreamSettingsJson(tls)` its `toJson`,
where that is more than the fields. `OutboundModel` does the same for
`outbound.js`. What a class draws at random (ids, passwords, keys) is named
after the occasion, so that a value drawn twice differs; a password also has
its length. `ShareLink` has the four generators of links
(`genVmessLink`, `genVLESSLink`, `genTrojanLink`, `genSSLink`), the external
proxies and remarks of `genAllLinks`, and the import `Outbound.fromLink`; a
link is a record of its parts. `Serves` says what a link is for: the outbound
it imports to has the inbound's address, network, security and credential.

### InboundPages

`rows` is what the panel has stored, `list` what the page last fetched,
`inModal` the form, `asked` and `posted` the requests that are not answered.
Each button and each field with a watcher is an action: opening, choosing
protocol, network, security, flow and method, switches, the four kinds of new
keys, saving, and the list's own actions. Answers come in any order, fail, and
find the form closed or with another inbound in it. The panel's side is coarse
(it stores what is posted, or refuses): `ClientSync` has the handlers.

### OutboundPages

`outbounds`, `rules`, `balancers` and `watched` are the parts of the template
the page edits, `outModal` the outbound form, `balancersData` the list of
balancers, which the balancer form edits in place: `balancersData` is a value
computed from the template's text and kept until that text changes, so a
cancelled edit stays in it, and `updateObservatorySelectors` reads it. An edit
that changes the text gives it anew before the observatories are set; one that
leaves the text as it was does not. `lost` collects the balancers that the code
removes or renames without their rules, `unheeded` those whose cancelled edit
was listed when the observatories were last set.

### TrafficAccounting

The job goes through `GetTraffic`, `AddTraffic`, `AddOutboundTraffic` and
`ReportTraffic`; between any two of them Xray carries more, restarts, the panel
stops, days pass and handlers run. `AddTraffic` is one step because SQLite lets
nobody in between its reads and its writes; it is the composition of `Added`
(first use, bytes), `Renewed` and `Disabled`, in the order of the code. What a
handler read before its own transaction is in `edit` and `reset`. `crossed`
names the clients of which a handler has saved an older copy since, `lowered`
those whose bytes were set by hand while they were disabled: the properties
say what they promise of the others.

### AccessLog

`reader` is `parseAccessLog` with its place in the file and `lastPosition`,
`limiter` is `CheckClientIpJob` up to the copy and the truncation, `cleaner`
`ClearLogsJob`. Xray appends at any moment. A copy may stop short, a truncation
may fail, the panel may restart.

### V2boardSync

`sync` is the job's run: `list` as fetched, the user it is `at`, the row it has
`read` and its edited `copy`, the users that met an error, and whether the run
was `calm` (no push failed and no administrator acted; the code has no such
note). `processUserInbound` looks for the user's own inbound by its remark,
then for one at his port, up to the first write; `updateInboundClients` is
`UpdateInbound` with the copy, twice when port or stream changed;
`createUserInbound` is `AddInbound` with its checks and the lowest free id.
`stats` are the traffic rows and `xray` the inbounds Xray has, which refuses a
tag or a port twice. Between two steps of the job the remote panel changes its
list, and the administrator adds, switches, deletes inbounds or drops clients.
A start of Xray brings it back to the database. While it is being started a
call to it panics: the job's ends the panel with the traffic rows of
`UpdateInbound` committed and its settings not (`JobPanics`), the
administrator's is recovered. `cut` has the traffic rows such a call wrote or
took. Left out: a tag of the remote
panel that equals a generated `inbound-<port>`, an inbound that listens on one
address only, and a second run of the job beside a first that takes longer than
a minute.

### PanelParts

The five state machines share no variable. `part` says which one moves; the
others stay where they began. A behaviour of one part is then a behaviour of
`PanelParts` and the other way round, and one run looks at all five without
multiplying their states.

## 4. What the runs show

| run | instance | shows |
|---|---|---|
| `XraySupervisor_safety` | one goroutine of each kind, two slots, one client | types; `StopHolds`: a manual stop holds until a restart, kill after five seconds included; `OneXray`: `Worker` is implemented |
| `XraySupervisor_liveness` | a crash tick and a panel request, forks may come late | `CrashRecovered`, `EveryCallReturns`; `OrphansStopped`: the finalizer ends a child that `p` no longer points to |
| `XraySupervisor_running` (violated) | as safety | `IsXrayRunning` is true for ever on a child that `Stop` reaped |
| `ClientSync_paired` | one handler: add, delete and edit of clients, delete of the inbound; the traffic job, which may end the panel; the inbound runs out; restarts whenever one is asked for, so that calls find no port | types, `Paired`, `OwnClientsOnly` |
| `ClientSync_recovery` | one handler, every operation but the purge, nobody runs out; the panel dying at any step, requests before the next one has started Xray, restarts between requests | `Paired` survives deaths and panics but for whom they cut off; `NoLockout`: who is admitted is let in once all is quiet |
| `ClientSync_ghosts` | deletions, edits and the purge of depleted clients beside the traffic job, no restart | `NoGhost`: nobody the database excludes stays in Xray |
| `ClientSync_filter` (violated) | a restart while a client runs out | the configuration is filtered by rows read before `AddTraffic` changed them |
| `ClientSync_writers` (violated) | two requests that add a client | one of the clients is lost from the settings |
| `DeviceLimit_bans` | two clients, two addresses, limit 1; clients switched off and added, the limit toggled, any call of the job failing, one client of Shadowsocks | `BanHolds` |
| `DeviceLimit_lifted` | the same without Shadowsocks, with restarts, edits and deletions, calls that work | types, `Served`, `BanLifted` |
| `DeviceLimit_restart` (violated) | a restart while a client is banned | the client is back by its own credential, marked, and never banned again |
| `PanelParts` | one part at a time, the others resting | the properties of the five parts, below |

`PanelParts` checks, of the inbound pages: `KeysPaired`, `ReopenStable` (of
every protocol, network and security, with every field filled in or left
alone, and of what the form makes of them), `SecurityFits`, `PasswordsFit`,
`LinksServe`; of the outbound page: `OutboundKept`, `OutTagsUnique`,
`BalancersServed`; of the traffic: `CreditedOnce`, `DisabledForCause`,
`DatesAgree`, `CutInTime`, `PeriodRuns`; of the log: `ReadOnce`, `ReadUpTo`,
`LinesKept`; of the V2board job: `SyncServes`, `SyncMetered`, `SyncKeeps`; and
the types of all (`PartsTypeOK`). 503 093 distinct states. The runs of
`ClientSync` have 1.9 million (`paired`), 250 000 (`recovery`) and 62 000
(`ghosts`). `paired` uses the symmetry of its two clients, of whom neither renews
and none is named by a definition; without it the states would be twice as many.
Clients that run out are in `ghosts` only, as `paired` would have many times the
states with them; `PairedAlways` has them.

### Bounds

Two clients suffice to tell "the client asked about" from "another one", and
to overlap two edits; the values of a client are three marks. Two slots for
child processes let an old child overlap a new one; a third would have to be
started while two exist, which `OneXray` already excludes for two. Two
addresses with limit 1 make a client exceed its limit and return within it.
Nothing is counted except `checkTime`, capped at 2, the value the code compares
with; so runs of every length are covered there. Deadlock is checked in every
passing run but `PanelParts`, whose parts stop at their bounds.

`PanelParts` is bounded. *Inbound pages*: two inbounds; three steps (forms
opened, changes, list actions) from a panel that has one with Reality and a
flow or one of Shadowsocks; one key pair; every other combination of protocol,
network and security is stored from the start and only read (`Unopened`). Three
steps open a form, change it and change it again, or change an inbound behind a
form. *Outbounds*: three moves from the panel's own template with a balancer,
from none, and from one outbound of every protocol with everything filled in
(of VLESS, on two networks, with and without TLS); balancers select from "direct"
or from two other names, one of them a balancer's. *Traffic*: one client with a
quota of one byte and a period of two days, an outbound beside it, three days,
a byte each and two handlers: enough for a first use, an expiry, a renewal to
that very day and, a day later, to the next, with handlers in between; the
proofs have no such bounds. *Log*: two lines, one fault: the file can be
truncated before, inside and after a scan; the proofs have no such bounds.
*V2board*: two users, three ports, three inbounds and two changes, of which a
failed push or a panic is one: users share a port, move to a free one, to each other's or
swap; an inbound is deleted and another takes its id between a read and a
write; a push fails and the next run makes up for it.

### Fairness

*Supervisor.* Cron ticks recur and goroutines that can run do (WF); Go's mutex
is starvation-free after a millisecond, hence SF of its acquisition; building a
configuration, writing it and forking may fail any number of times but not for
ever (SF); a child exits for certain only when killed; the runtime collects
garbage, hence WF of the finalizer. Users and crashes have no fairness.

*Device limit.* The ticker goes on (WF of `Job`); of the runs that find Xray
up, some find the three minutes passed for every address that no longer
connects (SF of `Run /\ Expired`); Xray, when down, is started again (WF of
`RestartXray`, which the supervisor's `CrashRecovered` justifies). Nothing is
assumed of handlers and devices. The liveness run has an API that works.

### What the passing runs leave out, and why

The four findings are not all the code gets wrong.
These scenarios were excluded from passing runs because the property there does
not hold of the code; the hazards' notes repeat them at their lines.

* *Purge*: `DelDepletedClients` chooses clients before its transaction and
  deletes rows by a condition inside it; a client disabled in between loses its
  traffic row and stays in the settings (`Paired`).
* *Death in a deletion*: `DelInboundClient` and `DelInbound` write without a
  transaction; a death between two statements leaves the pair broken. The runs
  have it, and `Paired` leaves out the clients it is about (`cut`).
* *No port yet*: a request whose call panics leaves half of what it was to do:
  a traffic row without a client, a client without a traffic row, a row under
  a new name (`cut`), an old user in Xray no more. An inbound that is added after
  a restart has built its configuration and before the new process has its port
  is stored and pushed to nobody, and no restart is asked for, although
  `inbound.go:306` says that a call that fails leads to one (`NoLockout`; with
  `RestartsOverlap` and the operations addinb and crash).
* *Form*: `UpdateInbound` gives Xray all clients of the form, switched off and
  depleted ones too (`NoGhost`).
* *Renewal*: a client switched off by hand that expires and renews is let in
  (`NoGhost`).
* *Reset of all*: the restart it asks for is skipped when the configuration
  equals the one Xray was started with, as the 30 s job has cleared the flag
  that would have forced it; disabled clients stay out (`NoLockout`). The same
  happens to a failed push that is undone by a later edit.
* *Reset race*: a client disabled between the read and the save of a reset is
  enabled in the database and stays out (`NoLockout`).
* *Overlap*: a client added while a restart is under way is in neither the old
  nor the new Xray (`NoLockout`); a snapshot saved over the traffic job's
  change of the inbound's enable flag undoes it.
* *V2board*: a guest whose port moves to another inbound stays in the old one
  too, so that one email is in two inbounds; one whose port moves to a free one
  is refused by his own email for ever; so is one whose update a panic has cut
  off, by the traffic row it left; users that swap ports are refused
  at every run; an inbound whose push failed may stay at its old port
  (`SyncServes` excepts users with an error and says nothing of what is left).
* *Shadowsocks*: a ban of such a client ends the panel and may leave the client
  outside of an Xray that goes on, unmarked (`Served` is about other protocols),
  although `check_client_ip_job.go:317` speaks of Shadowsocks.
* *Bans*: an edit, a restart, or a deletion and a new client of the same email
  undo a ban and leave the mark (`BanHolds`); calls that fail leave an unmarked
  client outside, and so does a ban that meets a client switched off and renewed
  or deleted and added again (`Served`); a device limit that is removed leaves its banned
  clients banned (`BanLifted`); a release lets in a client that is switched off.
* *Traffic*: a row or settings saved as a handler read them bring a negative
  expiry back (`crossed`); bytes set by hand leave a client disabled below its
  quota (`lowered`); the remote panel is told of bytes a failed transaction
  never credited.
* *Logs*: lines written between a copy and its truncation (`late`) and those of
  a copy that failed are gone; lines written between a scan and its seek to the
  end, or after a truncation while the file is shorter than it was, are not read.
* *Passwords*: clients added in bulk get 32 bytes, whatever the method.
* *Flows*: a client added from an older copy of the inbound may carry a flow
  its network has not; a flow also stays when security alone is switched off.
* *Links*: type and seed of kcp and the mode of xhttp in a Vmess link are lost,
  and a password is escaped but not unescaped (`Serves` leaves them out).
* *Outbounds*: when the last rule for a tag goes, `splice(index)` takes every
  outbound after the tag's too; a balancer whose cancelled edit is still listed
  when another one's form is confirmed without a change is not watched as the
  template says (`unheeded`); the strategy of "direct" may bring a second
  outbound of that tag; deleting a balancer, or renaming it after a cancelled
  edit, leaves its rules, and deleting it after a cancelled edit takes the last
  balancer instead.
* *Crash job*: `DidXrayCrash` is checked outside the lock, so the restart it
  leads to may undo a manual stop, or replace a child that came up meanwhile.

## 5. What is proved

For every value of the constants that meets the named assumptions:

| theorem | statement | argument |
|---|---|---|
| `XraySupervisor_proofs!TypeCorrect` | `Spec => []TypeOK` | inductive |
| `StopHoldsAlways` | `~LateSpawn`: `Spec => []StopHolds` | `IInv`: the lock is held by the thread in its critical section (`LockInv`), only the child of `p` serves and only a `Start` under way has not forked (`ProcInv`), launch and return of a stop are reached with no child serving (`StepInv`), the flag speaks of the last critical section (`ManualInv`) |
| `ImplementsWorker` | `~LateSpawn`: `Spec => W!Spec` | under `IInv` each step is a step of `Worker` or a stutter; `serving` is mapped to the children that are alive and have not been sent SIGKILL |
| `ClientSync_proofs!TypeCorrect` | `Spec => []TypeOK`, any number of handlers | `TypeInv`: with `ArgInv`, a handler's arguments are clients where it uses them. `TypeOK` includes that the write lock is held exactly by the thread whose transaction has written, and that only clients with a row are due |
| `PairedAlways` | `OneHandler`, `CleanOps`: `Spec => []Paired` | `PairInv`: between handlers the pair is intact but for the clients in `cut` (`RowInv`), the batch of a traffic transaction names clients that have rows (`BatchInv`), and inside a handler the snapshot equals the row but for what it is changing (`HandlerInv`, one clause per place) |
| `OwnClientsAlways` | the same: `Spec => OwnClientsOnly` | a save writes the snapshot, which `HandlerInv` says is the row |
| `NoGhostEver` | `GhostWays`: `Spec => []NoGhost` | `GhostInv`: who is let in is admitted, or about to be saved as such, and is not about to be removed by the handler or disabled by the job (`UsersInv`); what the handler has read still stands and no row outlives its client (`StatInv`); a call fails, and a restart is asked for, only for an inbound that is disabled or on its way out, and so brings nobody back (`RestartInv`) |
| `NoLockoutEver` | `LockWays`: `Spec => []NoLockout` | `LockInv`: Xray that is up has the inbound exactly when the tables say so or the handler is about to save that (`GivenInb`), and lets in those they are about to admit (`GivenUsers`); a restart that has built its configuration starts what the tables hold (`LockRestart`) |
| `DeviceLimit_proofs!TypeCorrect` | `Spec => []TypeOK` | inductive |
| `BansHold` | `UnmarkedWays`: `Spec => []BanHolds` | `BanInv`: where nobody is deleted, who is marked or being banned is in the settings, so that who is added is not marked (`MarkedPresent`) |
| `UnmarkedServed` | `ServedWays`, which leaves Shadowsocks out: `Spec => []Served` | `ServedInv`: who may yet be renewed or added is out of Xray, unmarked and forgotten by the job (`UnservedOut`); who is being released stays marked until it is added, and an edit during the sleep has put it into Xray again (`RemovedInv`) |
| `Pages_proofs!PagesKeepType` | `PagesSpec => []PagesTypeOK` | `PagesInv`, below |
| `KeysStayPaired` | `PagesSpec => []KeysPaired` | `PagesInv`: what is stored (`RowsInv`), what the page lists (`ListInv`), what the form holds (`ModalInv`) and the save on its way (`PostedInv`) all have keys that pair (`RowKeys`, `FormKeys`). `KeysPaired` alone is not inductive: a save writes what was posted, that was read off the form, and the form was filled from the list, which may be older than the row. An answer with keys is put into whatever the form then holds, both halves in one step (`PairTaken`) |
| `SecurityStaysFit` | `PagesSpec => []SecurityFits` | the same `PagesInv`: kcp goes with no security in every form, not only in what is posted, because a change of protocol or network acts on what was chosen before; a flow is taken away with the network that can carry it |
| `PasswordsStayFit` | `PagesSpec => []PasswordsFit` | the same `PagesInv`: a change of method draws every password anew, a client is offered with the method of the inbound the page holds (`NewClientFits`, `BulkClientFits`) and fits it unless the row has changed since, which puts the row into `behind` |
| `SettingsReopen` | `Posted` of an inbound and `Posted` of the same inbound opened once more have the same settings, sniffing, protocol, listen and port: the first conjunct of `ReopenStable` without the stream, for every row of the seven protocols in `Headerless` whose VLESS decryption, if it has one, is not the empty text | a lemma for each class, of the form C(CJson(C(json))) = C(json) with other random draws the second time (`ClientAgain`, `FallbackAgain`, `PeerAgain`, `MaskAgain`, ...), and one for each protocol |
| `StreamPartsReopen` | the same of the TLS, Reality, kcp, grpc, sockopt and sniffing classes, for any JSON | `CertAgain` (a certificate stays one of files or one of lines), `NewAgain` (a constructor given all its keys uses no default) |
| `TagsStayUnique` | `OutSpec => []OutTagsUnique` | `TagsInv`: while the form is open it knows the tags of all outbounds but its own (`FormInv`), and what it holds has a tag, pasted and imported ones included; taking away, moving and cutting off keep a list `InOrder` |
| `BalancersStayServed` | `OutSpec => []BalancersServed` | `RefsInv`: the list on the page is as long as the template's, so that its index is the balancer's, and the observatories watch what the balancers outside `unheeded` select from (`Heeded`); each step gives back what it takes from the names a rule may use (`Namable`). `RulesSet` says what `ruleSetter`'s recursive function returns, by least counterexample (`UpTo`) |
| `OutKeepsType` | `OutSpec => []OutTypeOK` | `TagsInv` and `RefsInv`: what the form makes has a protocol that the code, a template, a choice, a paste or a link named (`NamedProtocols`) |
| `TrafficAccounting_proofs!TrafficTypes` | `TrafficSpec => []TrafficTypeOK` | inductive; needed by all the others for the arithmetic |
| `BytesCreditedOnce` | `TrafficSpec => []CreditedOnce` | inductive with the types: bytes move from the counter to the batch and from the batch to the totals, or vanish |
| `EnabledWithinLimits` | `TrafficSpec => CutInTime` | a commit ends with `Disabled`, which leaves nobody enabled that is due (`DisabledRow`), whatever `Added` and `Renewed` did |
| `DisabledWithCause` | `TrafficSpec => []DisabledForCause` | a step that takes a cause away (renewal, reset, edit) enables the client, or sets the bytes by hand; time only adds causes |
| `AccessLog_proofs!LinesReadOnce` | `LogSpec => []ReadOnce` | `ReadInv`: no line is in the file twice (`Distinct`), nothing beyond the reader's place was read, and nothing at all of a file that has become shorter than where the pass began (`Unread`) |
| `DatesAlwaysAgree` | `TrafficSpec => []DatesAgree` | a commit gives both copies the date of its row (`CommitDates`); a handler that saves one of them puts the client into `crossed` |
| `PeriodsRunOut` | `TrafficSpec => PeriodRuns` | only `Renewed` moves a date that counts; that the whole periods it adds lead to the first date not past is `FirstDate` |
| `AccessLog_proofs!LogTypesKept` | `LogSpec => []LogTypeOK` | inductive |
| `LinesReadUpTo` | `LogSpec => []ReadUpTo` | `Followed`: while nobody disturbs the job, its place lies within the file and every line up to it is read |
| `NoLineLost` | `LogSpec => []LinesKept` | `KeptInv`: between a copy and its truncation the lines about to be cut are in the later log or `late` (`CopyHeld`) |
| `V2boardSync_proofs!SyncTypes` | `SyncSpec => []SyncTypeOK` | `SyncInv`, below |
| `EveryClientMetered` | `SyncSpec => []SyncMetered` | `SyncInv`: what the remote panel says only grows newer (`RemoteInv`); tags and ports are unique, and of two clients of one user in an inbound one has both the older uuid and the older email (`Orderly`), so that no email is there twice and a deletion takes the one traffic row it is for; the copy the job edits is in order too (`JobInv`) |
| `GuestsKeep` | `SyncSpec => SyncKeeps` | `JobInv`: at a write the copy differs from what was read only in the user's client and, if the inbound is his, in port and key (`Edits`); for `updateUserInbound` this needs `Orderly`: it replaces the first match, and there is no other |
| `CalmRunServes` | `SyncSpec => []SyncServes` | `ServesInv`, of the users before the one the run is at: in a calm run a write to another row leaves theirs and its entry in Xray alone, as tags differ, and one to the same row keeps their clients and is pushed whole (`AddedServes`, `SavedServes`); what was read is still there when it is written |
| `PanelParts_proofs!PartsImplement` | `PartsSpec` implies `PagesSpec`, `OutSpec`, `TrafficSpec`, `LogSpec` and `SyncSpec` | a step of the composition is a step of the part that moves and a stutter of the others |
| `PartsKeepType` | `PartsSpec => []PartsTypeOK` | from the five type theorems |
| `PartsSafe` | `PartsSpec` implies the 13 invariants and 3 action properties proved of the five parts | `PartsImplement` and their theorems |

The premises are the code's, not the prover's: `~LateSpawn` (a fork is in time),
`OneHandler` (requests come one at a time), `CleanOps` (no purge of depleted
clients), `GhostWays` (one handler, calls that Xray can serve work, a
restart waits for the request under way, nobody renews, and none of the
operations that give Xray a whole list: a restart on request or after a death,
the page's inbound form), `LockWays` (the same about handler, calls and restarts,
and nobody runs out; every operation and a death anywhere are allowed),
`UnmarkedWays` (no restart, no edit, no email that is reused), `ServedWays`
(no client of Shadowsocks, calls that Xray can serve work, no edit renews who was switched off, no email
is reused): section 4 says what happens without them. The runs
`ClientSync_ghosts` and `ClientSync_recovery` meet `GhostWays` and `LockWays`.
Names are assumed distinct where the modules' ASSUMEs say so, and the remote
panel has at least one user (one it does not list is the empty list). A
template is one Xray starts with (`TemplatesAssumption`): no tag is there twice,
and its rules name balancers it has; Xray refuses others. An inbound the panel
already has has the fields its protocol's class reads, keys that pair, and
security, flows and passwords that fit (`PresetsAssumption`); what the page does
with one that was stored otherwise is not claimed. Ids are positive, as 0 stands
for a new inbound (`PagesAssumption`). Nothing is assumed of what is pasted,
imported or typed into the outbound form; the page that stores inbounds offers
its networks from a list, and `Networks` is part of it.

Only model-checked: liveness (`CrashRecovered`, `EveryCallReturns`,
`OrphansStopped`, `BanLifted`), which needs fairness and ENABLED; the round
trips of the pages' classes as wholes (`ReopenStable`, `OutboundKept`,
`LinksServe`); the violated runs. Of `ReopenStable`, `SettingsReopen` and
`StreamPartsReopen` prove what does not pass through headers, which are folded
over a list (an induction), nor through `network \o "Settings"`, a text put
together from two, of which the provers know nothing. A VLESS row whose
decryption is the empty text is outside `SettingsReopen`: `toJson` leaves it out
and the next `fromJson` makes it "none". The form never stores such a row.
The proofs about pages, traffic, log and V2board are about the parts' own
specifications; `PartsImplement` takes them to `PartsSpec`, which the run
`PanelParts` checks.

The proofs of the two pages share a module, `Pages_proofs`, because they share
the lemmas on lists (`Appended`, `Replaced`, `CutOff`, ...), and those of
`ClientSync` fill one. Strings are opaque to the provers, even "a literal is a
STRING": `OutTypeOK` names the protocols one by one for that reason.

## 6. Not modelled

See the components of status `partly` and `not_modelled` in `PROJECT.json`.

* *Third-party scripts.* `web/assets` holds CodeMirror with `jshint.js`
  (32,000 of the repository's 39,000 lines of JavaScript), Vue, Ant Design,
  axios, moment and others. They are not the panel's code.
* *The panel's own scripts.* Modelled are the classes of `inbound.js`,
  `outbound.js` and `dbinbound.js` that carry settings. Left out are
  formatting (sizes, times, numbers, colours), cookies, clipboard, languages
  and themes, and the class `AllSetting`, a list of defaults.
  Curve25519 in `util/index.js` is a function from private to public keys here.
* *Maintenance* (`ImportDB`, `UpdateXray`, geo files, certificates): sequences
  of file and network operations whose failures are listed as hazards.
* *Telegram bot, subscriptions, settings, log-in, migrations, WARP*: rendering,
  one request on one row, or calls to the outside without state.
* *Inbounds' own quotas and counters* in `TrafficAccounting`: they follow the
  clients' path without renewal.
* In pages: what several browsers do at a time beyond one stale list, the
  routing rules' own form, DNS, fake DNS, reverse and WARP dialogs, sorting and
  searching.
