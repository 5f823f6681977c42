# aiul: specifications and proofs

aiul records how a company's people use AI tools. An agent on each machine (Go, `agent/`)
is a local HTTPS proxy that opens only the AI services' connections, copies the exchanges
beside the client's own traffic and spools them; a backend (Laravel, `backend/`) takes them
in, stores the text encrypted in an object store and shows it, keeps it for a limited time
and lets people delete it.

This directory holds TLA+ modules translated from that code, TLC configurations that check
them on small instances, and TLAPS proofs. `PROJECT.json` is the index: every run, every
definition's source lines, the hazards the properties are aimed at, the findings, the
theorems. Line references are to the repository's files; `controller` below is
`backend/app/Http/Controllers/Api/EventIngestionController.php`.

Run a model with `tlc -config X.cfg MCY` (the configuration's name begins with the module's:
`Sessions_counts.cfg` goes with `MCSessions`; `Lifecycle` and `Exchange` are run as they are),
a proof with `tlapm Y_proofs.tla`, for `Y` one of Delivery, Retention, Interception, Lifecycle,
Exchange, Attribution, Sessions and Enrolment.

## 1. The system

```
 AI client --TLS--> proxy ==capture==> parsers, redact, tasks --> Spool (files)
                     | certificates: root, device intermediate,        |
                     | leaf cache                                      v
   agentLoop (30 s): health check <-> system proxy setting,      Forwarder.DrainOnce
                     certificate renewal, drain ------------------------+
                                                              POST /api/aiul/events
                                                                        v
  people: consent, pairing --> AuthenticateDevice --> EventIngestionController
                                                        |            |
                                                 ai_interactions   BodyStore (objects)
                                                 ai_sessions         ^
  people: Deleted prompts --> UsageEraser --------------+------------+
  nightly: purge-bodies, purge-deleted -----------------+------------+
```

| component | state | operations | what is hard | what makes it correct |
|---|---|---|---|---|
| Spool (`forward/spool.go`) | a directory, one JSON file per record, a counter under a mutex | Record, Pending | concurrent recorders publish out of order; crash between write and rename; no flush before the rename | a file that is listed is whole, or is set aside; nothing disappears |
| Forwarder (`forward/forwarder.go`, `run.go` agentLoop) | the batch in hand; otherwise only the spool | DrainOnce, sendBatch | timeouts whose request is still being served; partial acceptance; two files with one event id; full batches | delete only what was dealt with; deliver the rest; return to the caller |
| Event ingestion (controller) | `ai_interactions`, objects, `ai_sessions` | store, storeEvent, fillAnswer | several PHP processes, no transaction; the same event twice; two copies of one event; consent changing meanwhile | contract of controller:19-22; first copy kept, answer added; a deleted row stays deleted |
| Body store (`Services/BodyStore.php`) | objects keyed tenant/day/event-kind | put, get, delete | the key depends on the day | an object is named by a row |
| Erasure (`Services/UsageEraser.php`, DeletedPrompts, PurgeDeleted, DeleteUserData) | `deleted_at`, rows, objects | trash, restore, delete, tidySessions | read the keys, delete objects, delete rows, with everything else in between | objects first, rows second; erased means erased |
| Retention (`Commands/PurgeBodies.php`, `routes/console.php`) | keys in rows, objects | the nightly purge | works on rows read up to 200 rows ago; dies half-way | text past retention goes, the rest of the row stays |
| Interception (`proxy/proxy.go`, `capture.go`, `hosts.go`) | tunnel list in memory, per host and program, never shortened | Classify, AddTunnel, handleConnect, capture | a client that refuses the certificate; the program is identified after the first decision; wildcards | AI hosts are captured, others never; one program's refusal does not hide others |
| Capture (`proxy/forward.go`, `stream.go`, `event.go`, `websocket.go`, `cowork_stream.go`) | the copies of the request and the response, the turn that is being assembled, a bounded channel beside a session's stream | forward, streamBody, relayWebSocket, feed and decode, record | the client must never wait for the capture; two pumps share one turn; replays; connections end anywhere | the client gets what was sent; a turn is recorded whole, with its own answer, under one id |
| Certificates (`ca/*`, `proxy/certs.go`, `device.go`) | root, intermediate (two files), leaf cache | ProvisionDevice, Load/Save, Get, renewal, ca ensure/init | crash between the two files; leaf that outlives its issuer; concurrent misses | a leaf that is served verifies, and belongs to the current issuer |
| Lifecycle (`run.go`, `agent.go`, `helper/*`, `platform/*`) | the system proxy setting of each service or person, jobs, account, binary, root, trust store, environment | start, health check, stop; install, uninstall, rollback | four writers of one setting; the stop handler beside the health check; requests served after their caller gave up; a step that fails half-way | the setting follows the listener; nothing is left behind; an install that says so is complete |
| Attribution (`tasks/tasks.go`, `dircache.go`, `helper/*`, `platform/process_*`) | two caches, by process and by directory | process lookup, remember, ResolveWith | ages add up over reply and caches; pids are reused; late replies | the branch is a recent one of the process's own directory |
| Enrolment (`Models/Device.php`, pairing, consent, people) | devices, tokens, codes, consent records, roles | provision, rename, login, enter code, accept, change role | every request is several queries with columns read earlier; two administrators at once | one row per machine, its owner whoever was last named, nothing stored without consent, somebody in charge |
| Sessions (controller sessionFor, `tidySessions`) | `ai_sessions` | find or create, increment, end, hide, re-measure | two workers creating one session; events out of order; measuring beside storing | count and visibility are those of the rows |
| Parsers, redaction, reports, screens, command line | none of their own | decode, match, query, render | formats | unit tests |

## 2. What is modelled

`Events` is the data: a *copy* of an event is what one spool file holds. A Claude desktop
cloud message has two copies under one id (the prompt when it is posted, the finished turn
from the session's stream, which replays turns when it reconnects, `claude_cowork.go:19-31`);
other events have one. Of its content only three things matter: the id, whether it brings
an answer, and its *fate*: it fits, the validator refuses it, or the validator passes it and
the column does not.

`Spool` -- `content[n]` is the record under the n-th name; `writing`, `files`, `aside` are
the names with a temporary, a `.json` and a `.json.bad` file; `corrupt` the files whose bytes
were lost. `BeginRecord` is `write` up to the unlock, `Publish` the rename, `RecordFails`
its error, which `Record` prints and drops. Names are given in the order of the lock; the
order matters only for which of two copies comes later, and both orders occur.

`Forwarder` -- `fpc` is where the housekeeping goroutine is; `sent`, `full`, `doomed` are the
local variables of DrainOnce/sendBatch. `ReadBatch` lists, cuts to `BatchSize`, reads, sets
aside; a file it cannot read (`ReadErrors`, a fault) is passed over and stays. `LastCopies` is the map `byID`, which keeps one path per id: of two copies in one
batch only the later file is deleted, the other goes out again next time. The backoff is not
state: it is logged and nothing waits for it.

`Ingestion` -- PHP processes (`wpc`, `todo`, `accepted`, ...) work through a request's items.
No transaction spans an event, so the lookup, the puts, the INSERT, the session bookkeeping
and, in fillAnswer, the put and the UPDATE are steps of their own between which other
processes run. `rows` has one row per event id (the unique index), with its primary key (a
row that is erased and stored again is another row) and the *day* of its object keys.

`Delivery` composes the three. `link` is the process whose reply the forwarder waits for: a
request given up is still being served. Faults are a timeout/lost or unreadable reply
(`GiveUp`), a PHP process dying, the agent dying, a power cut (any file may lose its bytes),
people changing what the token is worth (`AccessChanges`, unbounded).

`Outbox` is what the three promise together: an entry leaves only when its event is settled,
never comes back, and nothing is settled that was not entered. `Delivery!Ledger` maps the
files, the rows and the discarded ids to it.

`Retention` composes `Ingestion` with deletion, restoration, permanent erasure and the
nightly purge on the same rows. Every copy in `Recordable` may arrive any number of times.
Erasure and purge are split where the code reads, deletes objects and changes rows. `strays`
is a history variable: the objects that the three known races and deaths leave without a row
(see `Dropped`, `Raced`, `WorkerDies`); `TextIsAccounted` says there are no others.

`Hosts` -- a hostname is its sequence of labels. `Matches` is matchHost, `PermittedDomains`
what the device's intermediate is constrained to, `Within` what clients make of it.

`Certificates` -- `disk` is the pair of files, `inter` the pair deviceIssuer holds, `cache`
the leaf of each host, `clock` and `gap` the time and how long ago the agent loop last found
or made its issuer good. A key pair is a number. `KeepIssuer`, `ReuseIssuer` and `Issue` are
the three outcomes of a tick or a start; `SaveCert` and `SaveKey` the two writes, between
which connections go on, the write can fail (`IssueFails`) or the agent die (`CertCrash`), leaving
the old file or one that does not parse. `Reinstall` brings another allow-list and/or root.

`Interception` -- a connection is a goroutine of handleConnect: `dialing` (first decision
taken), `upstream` (program looked up, second decision taken), `handshake` (our certificate
shown), then `open`, or `sealed`. `Identify` may fail to find the program out, which is the
identity `""` (`Unknown`). A client is willing or not by constant `Unwilling`, and never
accepts a chain that does not verify; it may also go away at any point (`HangUp`).

`SystemProxy` -- the setting, `setting[t]`, of each macOS network service or person, as two
halves and a switch, because each system writes it in several commands: `Outcomes` says what
`Set` and `Unset` can leave when one of them fails (`DarwinSet`, `LinuxUnset`, ...). A *sweep*
is one run of Set or Unset over its places, one step each. `WantsReapply` is what the health
check sees; on Linux and Windows it cannot look and always asks.

`Provision` -- `machine` is what is on it: account, directories, jobs, binary, environment,
the root pair, the worker's copy of it, what the trust store holds. `InstallPlan`,
`UninstallPlan`, `RollbackPlan` and `EnsurePlan` are the commands as sequences of steps in the
order of each system's code; `Whole` and `Part` are what a step leaves when it goes through
and when it fails or is the last one before the command dies.

`Lifecycle` -- `worker` (`pc`, where its `health` check is, where its `stop` handler is),
`helper`, `call` (the one request the client's mutex lets through), `late` (a request the
helper still serves although its caller gave up or ended), `admin` (the command that is being
carried out) and `loaded` (what launchd, systemd or the service manager keeps running). Faults
are failing commands, time-outs, kills, a reboot, a listener that stops answering, another
program or a person changing the setting. `excused` is a history variable: the places whose
last write failed, that every Unset passed over, or that were set while somebody was already
undoing.

`Exchange` is one intercepted connection after its handshakes: the loop of `capture` with
`forward` and `streamBody` (`phase`, `produced`, `got`, `seen`, `copy`), composed with the two
things it may carry. `Recording` is `record` with the parser's decision: whether there is an
event, its id, and whether its prompt and answer can be read. Of what is posted to a cloud
session only a body that can be read and has no typed text is skipped; one that cannot be read is
an event of its own, without prompt or answer. `Socket` is the WebSocket relay:
two pumps, each noting a message when its last byte is read and then passing it on, one turn
under a mutex, finished turns in goroutines of their own. `SessionStream` is the copy of a
cloud session's event stream: the session's log, which every connection replays from its
start, the bounded channel, and the decoder with the splitter of `CoworkTurns`.

`Attribution` -- a connection is `asked` (the helper reads process, directory and checkout),
`identified` (reply parked by pid), `resolving`, `missed`, `read`, `open`. An open connection
keeps the context it was given (`info`) for all its events, as the code does. `dirCache` is the
worker's, by process, `cache` the resolver's, by directory, both with ages; `since` is a
history variable, how long ago each branch was last the one at a directory. A body may name
another directory (`BodyNamesDir`), for that event only. `recent` is history too: whether every
answer the resolver gave on this connection was recent at that moment.

`Sessions` -- `worker` stores one event: `Take` (look for the session), `Create`, `Insert`,
`Count`, `End`. `eraser` hides, restores or erases a turn and then measures its sessions
again: `Tidy`, `Measure`, `Act`. Every query is a step and no transaction spans two. `upset`
is a history variable: sessions that changed between somebody's reading and writing, or whose
worker died; `CountsAgree` says the others are right, and the next undisturbed
`tidySessions` takes a session out of it.

`Enrolment` -- `devices` is the table, in the order of its ids; a request (`request[r].pc`) is
the queries of one web page, console command, `aiul login` or batch of events. `save()` and
`update()` write the columns that differ from the row as it was read: that is the `saw` of
`Granted` and `LinkedTo`. `given` and `stored` are history: whom the machine was last given
to, and whose events were stored last, under which notice.

Each `MC` module gives the instances of one composed module (`Lifecycle` and `Exchange` need
none: their constants are plain values), each `_proofs` module the theorems.
Definitions whose comment begins with "Slip" are not part of any behaviour: each is one of
the code's steps with a plausible mistake, and the property it is paired with in
`PROJECT.json` has been seen to fail when it takes the step's place.

### Abstractions

* Ingestion and retention have one tenant and one device: keys and ids are per tenant and no
  operation of theirs crosses tenants. Tenants and devices are Enrolment's.
* Prompt and answer puts are one step; both keys are made in one moment of one day. A prompt
  is never blank.
* In Ingestion the session of a row is only a step (`BeginStore`, `TouchSession`), with no
  state: it decides nothing about what is stored or accepted. What becomes of sessions is in
  `Sessions`, which leaves out texts and repeated copies instead, and has one device, tool and
  checkout, because sessionFor and tidySessions look at nothing across them.
* An INSERT also raises when the session it names was erased since the lookup; ingestion has no
  sessions, and a request that ends there leaves what a worker's death leaves (`WorkerDies`).
* `ReadBatch` is one step: it is one goroutine, files are only added behind it, and a file
  it lists stays unchanged (rename into place).
* Renaming to `.bad` and os.Remove succeed unless the agent dies first; a Remove that fails
  has the effect of a crash before it: the file is sent again.
* A timeout is not tied to a clock: a request can be given up at any moment.
* `Certificates` counts time in a unit of the instance's choosing, and what takes seconds
  (saving, a handshake, which is cut off after 30 s) happens between two units. How long a
  device sleeps, or a drain holds the agent loop up, is `MaxGap`.
* Minting, under the cache's lock, is one step with the look at the issuer. Which leaf is
  evicted is left open instead of ordered by last use.
* Whether a client refuses is fixed by `Unwilling` or by a chain that does not verify. Any alert
  of the client's, and a client that speaks none of our protocols, count as a refusal in the code
  (capture.go:46-104): such a program is an unwilling one.
* The allow-list and the root change only while the agent is down: the list is compiled in,
  and the installer replaces a root only when no agent can run with it (`ca ensure`). `ca init --force` is in
  `Provision`; `ca device --renew` by hand is left out.
* In `Lifecycle` a step of a command changes the machine in one go, except where a failure
  leaves part of it behind. The text of unit files, registry values and shell profiles is left
  out; which of them are there is not. One abandoned request at a time.
* In `Exchange` bodies are counted in units, with the caps at one unit, and messages are kinds
  with the number of their turn. `Interim`, `Overtaking` and `Impatient` say whether peers do
  three things that the code does not expect; the passing run sets them to FALSE, has no
  compression with a kept window, and findings 10 to 13 are what happens otherwise. A response
  ends when the upstream's last unit is read or the upstream goes; that a chunked response is
  given its last chunk also after a read error is left out.
* In `Attribution` only the helper's reply takes time, and an entry past its lifetime is
  dropped at the tick, as good as none to the code that would look at it. The task is a function
  of the branch. An event has no step of its own: it has the context its connection has, or the
  one its body's directory was given. The helper's account lookups decide nothing and are left out.
* In `Enrolment` tokens and codes are fresh numbers (random in the code), an expired code is as
  good as none, and `first()` without an order may find any of several rows. `revoked_at` and
  `revoked` are left out: nothing in the repository sets them. Passwords, sign-in, the
  permission to read prompts and a seeder that is run again are left out. `stored` keeps only
  the last batch. With `Rushed` FALSE the web and the console do one thing at a time, while the
  machines' requests still come between any two queries.

## 3. Runs

| run | instance | shows |
|---|---|---|
| `delivery_safety` | 2 records out of 5 kinds of copy over 2 events, batches of 2, 2 PHP processes, 1 fault | `DeliveryTypeOK`, `NoLoss`, `AnswerNotLost`, `ImplementsOutbox` hold (878 000 states) |
| `delivery_liveness` | 2 records, of which at most 1 is rejected, 2 processes, 1 fault, fair | `Delivered`, `DrainReturns` hold (90 000 states) |
| `retention_days` | 1 event, both copies, 2 processes, 2 days, 1 death, no erasure, fair | `TextIsAccounted`, `FirstPromptKept`, `PurgeReaches` hold (451 000 states) |
| `retention_erasure` | 1 event, both copies, 2 processes, 1 day, 1 death, 1 erasure | `RetentionTypeOK`, `TextIsAccounted`, `TrashedStaysHidden` hold (576 000 states) |
| `interception_certificates` | 1 connection, 2 hosts, 2 lists, 2 roots, cache of 1, 1 fault; days: leaf 1, intermediate 7, renewed with 2 left, 9 in all, asleep for 1 at most | `InterceptionTypeOK`, `ServedVerifies` hold (555 000 states) |
| `interception_tunnels` | 2 connections, 1 host, 2 programs of which 1 pins, 2 roots, 3 units of time, 1 fault | `SealedForAReason`, `RefusedFinitely` hold (236 000 states) |
| `lifecycle` | each of the three systems, 1 place, 1 mishap, fair | `LifecycleTypeOK`, `LeftBehindForAReason`, `InstalledIsComplete`, `PointedAtARunningWorker`, `Managed`, `FailsOpen` hold (244 000 states) |
| `lifecycle_orphan` | the same without any mishap | `NothingLeftBehind` fails: finding 8 |
| `exchange` | 2 requests of 5 kinds, a socket with 2 turns of up to 2 messages, 2 of them too large, a session of 4 events with 2 prompts, channel of 1, turns of at most 3 events, fair | `ExchangeTypeOK`, `AsSeen`, `TurnsPaired`, `NoTurnLost`, `NoGap`, `OneEventPerTurn`, `NeverHeldUp` hold (1.26 million states) |
| `attribution` | 2 pids, 2 directories, 1 branch or none, 2 connections, both lifetimes and the reply 1 tick, 1 change | `AttributionTypeOK`, `RecentWhenResolved`, `OwnDirectory` hold; put in their place, `NextInteraction` fails: finding 21 (2.1 million states) |
| `sessions` | 2 events out of 3, idle window of 1, 2 workers, 2 erasers, 2 sessions, 2 changes | `SessionsTypeOK`, `CountsAgree`, `OneStretch` hold (2.1 million states) |
| `enrolment` | 2 people of one company, machines of a second one, 2 names, 2 requests, 2 tokens, 2 codes, 2 notices | `EnrolmentTypeOK`, `OneRecordPerMachine`, `OwnerIsTheOneNamed`, `CapturedWithConsent`, `SomebodyManages` hold (2.5 million states) |

These configurations are kept as well; TLC refutes the one property each of them names:

| configuration | differs by | refuted |
|---|---|---|
| `Delivery_oversize` | a good event and an oversize one, no fault | `Delivered`: finding 1 |
| `Delivery_refused` | 3 records, 2 rejected ones fill a batch | `DrainReturns`: finding 2 |
| `Retention_erased` | 1 process, no fault | `ErasedForGood`: finding 3; put in its place, the invariant `NoTextWithoutRow` fails too: finding 4 |
| `Interception_pair` | 1 host, 1 root | `UsableIssuer`: finding 5 |
| `Interception_weekend` | half days: leaf 2, intermediate 14, renewed with 4 left, asleep for 5; no fault | `ChainIsValid`: finding 6 |
| `Lifecycle_ensured` | as `lifecycle` | `EnsuredIsUsable`: finding 9 |
| `Exchange_interim`, `_overtaking`, `_impatient`, `_takeover` | one assumption on the peers dropped | `AnsweredFirst`, `NoGap`, `NoTurnLost`, `TurnsPaired`: findings 10 to 13 |
| `Enrolment_rushed` | web and console requests overlap | `OwnerIsTheOneNamed`: finding 17; put in its place, `OneRecordPerMachine` and `SomebodyManages` fail too: findings 16, 18 |
| `Enrolment_notice` | a page with an earlier notice may be open; 1 code | `ShownIsAccepted`: finding 19; put in its place, `WaitsForTheCode` fails too: finding 20 |

Why the bounds are enough to be interesting. Two records are the least with which a batch is
full, two copies of one event meet in one batch, or a bad record stands before a good one.
Two processes are the least with which a request given up overlaps its repetition. One fault
of any kind, at any moment, already covers every overlap; that more faults and records change
nothing for `DeliveryTypeOK`, `NoLoss`, `AnswerNotLost` and `ImplementsOutbox` is proved.
Retention's properties speak of one event at a time, and processes share nothing but its row
and objects (its safety properties are proved for any number of events and processes); two days are the
least with which a key changes. Erasure is bounded to the first row of the event, so the
second row, if a copy brings one, is not erased.

For certificates, one connection is enough: connections share nothing but the issuer and the
cache, and whether a leaf verifies does not depend on another connection. Two hosts make the
cache of one evict, one wildcard and one exact list make a host fall off the list, and one
fault is what it takes to restart. Nine days cover an intermediate's whole life and a renewal.
For the tunnel list, two connections overlap at every pair of points; the list is per host, so
one host is enough. These instances end (`CHECK_DEADLOCK FALSE`) when their time and faults
are used up. That more of anything changes nothing for `ServedVerifies` and
`SealedForAReason` is proved.

For the lifecycle, a sweep treats its places one after the other and each for itself, so that one
place, with a writer between any two steps of another, shows every race; one mishap at any
moment covers every step that can fail or be the last. That more places and mishaps change
nothing for its four invariants is proved. The run ends where nobody begins a command any more, as do all runs
whose bounds are used up; they set `CHECK_DEADLOCK FALSE`.

For an exchange, the channel of one is full after one event, a turn of four events is one too
long to keep, two prompts and two requests are the least for a replay and for a turn that
could be mixed with another, and two turns on a socket the least for a question that closes
the turn before it. Caps of one make a body of two one that is cut off.
Two messages too large are an end and the next request, which is what it takes to mix two turns
(finding 14); with one this does not happen. That larger numbers change nothing for its six
invariants is proved.

For attribution one tick is the least lifetime at which an entry can be young, about to end
and gone, and two of everything the least for one connection to be given what another found. That
larger numbers change nothing is proved. Sessions needs an event within the idle window and
one outside it (of the three, two arrive at a time), two writers of each kind, and a deletion
that is restored or erased by somebody else; that larger numbers change nothing for
its three invariants is proved. A second company is needed for codes and notices
to be looked for in the wrong one; its people would do what the first company's do. That
larger numbers change nothing for `enrolment` is proved. The last three runs use the symmetry
of names and of requests, workers or erasers; they check no temporal property.

The liveness run keeps the number of refused copies below a batch, because the property is
false otherwise (finding 2), and has no oversize copy (finding 1).

### Fairness

`Delivery!Fairness` assumes weak fairness of the forwarder's and the recorders' goroutines
(the runtime schedules them; the ticker ticks), of the PHP processes (a request in progress
goes on; the web server hands a waiting request to a free process) and of the arrival of
replies. It assumes nothing of the proxy, of people or of faults; the number of faults is
bounded. `Retention!Fairness` assumes only the purge, which is scheduled every night
(`routes/console.php:15`) and goes on once started. `RefusedFinitely` needs no fairness: it
says that something stops happening, in every behaviour with finitely many restarts.

`Lifecycle!Fairness`: the worker's and the helper's goroutines run, the service manager starts
what is loaded, and a command that was begun goes on. The request of each caller has strong
fairness, because a Go mutex does not starve a goroutine that waits for it, whoever takes it
in between. Nothing makes an administrator begin a command, and mishaps are bounded. `Managed` and
`FailsOpen` speak of behaviours that settle down with both processes up.

`Exchange!Fairness`: the connection's goroutine and the two pumps run. Nothing is assumed of
the client, the upstream, the decoder or the goroutines that record: `NeverHeldUp` says that
the client does not depend on them. Attribution, Sessions and Enrolment state safety only.

## 4. Findings

1. *One event that fits the validator and not its column stops delivery* (controller:182,
   against controller:80-81). `Delivery_oversize.cfg`.
2. *A full batch of rejected events spins DrainOnce for ever* and takes the health checks and
   the certificate renewal with it (forwarder.go:142). `Delivery_refused.cfg`.
3. *A permanently erased prompt is stored again* when a copy of it is sent again
   (UsageEraser.php:125 against :18). `Retention_erased.cfg`.
4. *An answer filled in during an erasure stays in the object store with no row*
   (UsageEraser.php:121-125 against :24-25). `Retention_erased.cfg`.
5. *A certificate and a key that do not match are taken for a usable issuer* after a crash or
   failed write between the two files (intermediate.go:282-286 and :318-326, against :313);
   every AI connection is then closed. `Interception_pair.cfg`.
6. *Two days left are not a weekend*: a device asleep from Friday evening to Monday morning
   comes back with an intermediate that has ended (intermediate.go:45-48). 
   `Interception_weekend.cfg`.
7. *One refusal by a program that could not be identified turns capture off for all programs*
   on that host, because the first Classify asks for the unknown identity (proxy.go:199
   against :196-198 and hosts.go:194). `SealedForAReason` makes an exception of this case,
   and fails without it.
8. *A health check's request, overtaken by the stop handler, is served last*: the uninstalled
   machine keeps a setting that points at nothing (run.go:178 against agent.go:182 and
   helper.go:83-84). Run `lifecycle_orphan`, without any fault.
9. *`ca ensure` keeps a key and a certificate that do not belong together* (device.go:245
   against :232-235). `Lifecycle_ensured.cfg`.
10. *An interim response is taken for the final one* and the connection is out of step from
    there on (forward.go:63 against :20-22). `Exchange_interim.cfg`.
11. *Two turns of a cloud session are merged* when a message is typed before the last answer
    ended (claude_cowork.go:207). `Exchange_overtaking.cfg`.
12. *A request on a socket that comes before its predecessor is answered* closes that turn and
    takes the rest of its answer (websocket.go:336 against :37-38). `Exchange_impatient.cfg`.
13. *A compressed message too large to copy* leaves the ones after it unreadable or read as
    something else, with context takeover (websocket.go:249). `Exchange_takeover.cfg`.
14. *A turn whose end and whose successor's request are both too large to copy* stays open, and
    takes the answer to that request (websocket.go:336 and :349-351 against :37-38).
    `TurnsPaired` makes an exception of this case, and fails without it.
15. *An event from before a session began joins it* and moves its end before its start;
    workers that look at the same time make two sessions of one stretch (controller:257
    against :220-224). `OneStretch` asks for orderly events, and fails without that.
16. *Two requests for a new machine make two rows* (Device.php:70 against :55-56).
17. *Provisioning without a person undoes a code entered meanwhile* (Device.php:76 against
    :57). `Enrolment_rushed.cfg`.
18. *Two administrators demote each other*, and there is none (PeopleController.php:90).
19. *The notice that is recorded as accepted is not the one that was shown*
    (ConsentController.php:39 against :30). `Enrolment_notice.cfg`.
20. *`aiul login` ends before its code is entered* on a machine that is somebody's already
    (login.go:103 against :20-21). `Enrolment_notice.cfg`, with this invariant.
21. *A connection that is kept open keeps its task*: its context is looked up once, before the
    handshake, and every later request or turn on it is recorded with it (capture.go:240 against
    tasks.go:83-84, "the next interaction should land on the new task"). `NextInteraction`, in
    `Attribution_caches.cfg`. `RecentWhenResolved` says only that what is looked up is recent
    when it is looked up.

## 5. Theorems

`Delivery_proofs`, for every set of ids, copies and processes, every batch size and every
bound, from the modules' own assumptions on their constants:

* `TypesHold`: `Spec => []DeliveryTypeOK`.
* `NothingIsLost`: `Spec => []NoLoss`. `NoLoss` alone is not inductive: between the reply and
  the deletion only the forwarder's `doomed` knows what may go, before that only a process's
  `accepted`, before that only its program counter. The inductive invariant `LossInv` follows
  an id back along this path: what is `doomed` is settled, what a process lists as accepted
  is settled, a process past the INSERT works on an id with a row or a stored one, a row that
  exists is in `stored`, and the items of a request are copies that were published. One lemma
  per action and conjunct.
* `NoAnswerIsLost`: `Spec => []AnswerNotLost`. An accepted id is not enough here, since the
  prompt's copy gets it accepted too. `AnswerInv` therefore follows the copy and not the id: a row
  never loses an answer (`FilledOK`), what a process has in hand is about to be filled or
  has been (`AtWorkOK`), an item leaves a request only once it is answered for (`SentOK`,
  `ReplyOK`), and `byID` dooms no file but those of the batch it waits for (`DoomedAnswers`).
* `DeliveryImplementsOutbox`: `Spec => ImplementsOutbox`, from the same invariant: every step
  maps to a step of the outbox or leaves its variables alone.

`Retention_proofs`, for every set of ids, copies and processes, any number of days, deaths and
erasures:

* `TypesHold`: `Spec => []RetentionTypeOK`.
* `TextStaysAccounted`: `Spec => []TextIsAccounted`. An erasure or a purge takes texts off a row
  long after it read it, so the invariant, `TextInv`, says of every row that was read
  (`Watched`): unless its key is another one by now, what it names is about to be deleted, in a
  process's hands, or one of the `strays` of the named races. An erasure's row has nothing left
  that is about to be (`EraserOK`), nor has a row whose objects a purge deleted (`ClearedOK`).
  A row inserted again has a greater key, which is what makes the old snapshot harmless.
* `DeletedComesBackOnlyRestored`, `PromptsAreNeverReplaced`: `Spec => TrashedStaysHidden`, `Spec =>
  FirstPromptKept`, action properties that follow from what one step does to one row
  (`RowServed`), given the types.

Both begin with the same lemmas about the steps of `Ingestion`, which each of them composes with
another system: types, and what a worker leaves alone.

`Interception_proofs`, for every set of hosts, lists and programs, every lifetime, cache size
and bound:

* `TypesHold`: `Spec => []InterceptionTypeOK`, with the invariant that what is being saved
  has a key, so that an agent that is up has an issuer.
* `ServedCertificatesVerify`: `Spec => []ServedVerifies` under `Timely`: `MaxGap + LeafLife <=
  RenewBefore + LeafMargin` and `LeafMargin <= LeafLife`. `ChainInv` carries the margin along:
  the issuer of a running agent was good for `RenewBefore` when it was last looked at, `gap`
  ago (`IssuerInv`); so a cached leaf ends at most `LeafLife + MaxGap - RenewBefore` after its
  issuer (`CacheInv`); only allowed hosts are opened (`ConnInv`), and an allowed host is within
  the constraints (`AllowedIsWithin`). With the code's constants `Timely` says that the agent
  loop looks at its issuer every 25 hours; finding 6 is what happens otherwise.
* `SealedOnlyForAReason`: `Spec => []SealedForAReason`. `ListInv`: the tunnel list holds
  nothing but refusals, entered under the program's own identity or none. `DecisionInv`: a
  decision taken before the program was known stays justified until it is carried out.

`Lifecycle_proofs`, on each of the three systems, for any number of places and of mishaps:

* `TypesHold`: `Spec => []LifecycleTypeOK`. `TypeInv` adds that a command that is not under way
  has no plan and no sweep, and that a worker that has only started has asked for nothing.
  That a sweep has a next place rests on the well-foundedness of the natural numbers.
* `InstallsAreComplete`, `PointsAtARunningWorker`: `Spec => []InstalledIsComplete`, `Spec =>
  []PointedAtARunningWorker`. Plans are sequences; `PlanInv` says that what install has before
  it is a suffix of `InstallPlan`, so that its length says where install is, and that an undoing
  plan takes our setting away with its first step if at all. `Achieved(n)` then lists what
  install has behind it with `n` steps left, one conjunct per thing that a later step or the
  invariants rely on: from the moment the copy is current, the root made, the jobs loaded, the
  worker asked. It holds whatever was on the machine before and whatever fails, but for what
  it says of a worker that goes on serving, which nothing disturbs without a mishap
  (`Undisturbed`).
* `LeavesForAReason`: `Spec => []LeftBehindForAReason`. `LeftInv`: a place that an undoing has
  been at, while it sweeps or once it is over (`Undone`), is tidy or the helper still has to take
  our setting away there (`Handled`); no request outlives the helper, and a helper that stops
  unsets (`HelperInv`). A setting half written on Linux, which Unset does not recognise there,
  has its own reason (`HalfInv`). This part was not inductive at first: `excused` was
  forgotten when Unset went through at a place without recognising the half-written setting it
  found, which takes two mishaps and is beyond the run's bound. The history variable
  now keeps such a place (`Excuse`); the modelled code is as it was.

`Exchange_proofs`, for any caps, sizes and channel, and any numbers of requests, turns, messages
and events:

* `TypesHold`: `Spec => []ExchangeTypeOK`, with the limits of channel, copy and turn.
* `RecordedAsSeen`: `Spec => []AsSeen`. `SeenInv` adds what the copy is while the response is
  under way (`CopyOK`: a beginning of what the client has, and all of it below the cap), and
  that what is recorded belongs to this exchange or to an earlier one (`SeenOK`).
* `TurnsArePaired`, `TurnsAreKept`: `Spec => []TurnsPaired`, `Spec => []NoTurnLost`, under
  `Polite`: the client asks when it has been answered, and no window is kept from one message to
  the next. Findings 12 and 13 are what happens otherwise. Neither property says anything of the
  messages under way, so `PairInv` describes the whole relay. `Dialogue`: the two sides take
  turns, at most one request is under way, and what is under way to the client is the rest of
  the current answer, in order and with its end last. `Pairing`: the open turn has the current
  request, or that one was too large to be noted, and what it holds comes before what is under way. 
  `Keeping`: an open turn of which nothing was too large holds what has been noted of the
  answer, and one whose end was noted is in a goroutine's hands or recorded. The proof goes by what
  a message does to the turn, and that depends on its kind, on whether it is too large and
  on whether the two pumps are between noting and passing on. Working it out turned up finding
  14, which an instance with one message too large does not have.
* `TurnsAreWhole`, `TurnsAreOne`: `Spec => []NoGap`, `Spec => []OneEventPerTurn`, under
  `~Overtaking` (finding 11 is what happens otherwise). `ReadInv` describes the log, whose turns
  follow one another and whose results close them (`LogInv`); the decoders (`Reading`:
  what a decoder has not taken yet are the log's events from some position on without a gap,
  and a channel that gave up is never fed again; the turn it assembles begins at a prompt and
  has all that follows, as far as there was room); and what is recorded of a turn, which reaches
  from its prompt to the first result after something was said (`TurnsRecorded`). A log closes
  a turn once, so every replay ends it at the same place, and two records of one turn are
  equal. `OneEventPerTurn` says this of what a channel assembles, and of what is posted that it is
  recorded without an answer: under the id of its prompt if the body can be read, and otherwise
  under a random id and without the prompt. The answer of a turn is a recursive function (`AnswerOf`); that there is such a function,
  and what it gives for one event more, rests on the well-foundedness of the natural numbers.

`Attribution_proofs`, for any processes, directories, branches, connections and lifetimes:

* `TypesHold`: `Spec => []AttributionTypeOK`.
* `RecentAnswers`: `Spec => []RecentWhenResolved`, about the moment the resolver's answer is
  given to a new connection or to an event that names its own directory; what a connection
  carries afterwards is finding 21. `AgeInv` carries a bound on `since` along
  the way of a branch: at most as old as the reply has taken while it is `asked`, `ReplyTime`
  more than its entry while it is parked, `DirTTL` more again while the resolver keeps it. It
  rests on `Tick` being blocked while a worker is in the middle of a lookup, and on entries
  that end at their lifetime.
* `DirectoriesAreTheirOwn`: `Spec => []OwnDirectory`. `Own` follows a directory from the
  helper's reply to the context; a pid can be reused only when its connections are gone, and
  the reply of a new connection overwrites the entry before anybody of that connection reads it.

`Sessions_proofs`, for any finite sets of events and workers, any erasers and idle window:

* `TypesHold`: `Spec => []SessionsTypeOK`; `TypeInv` adds that whatever a worker, an eraser or a
  row refers to by id was created and, for a row, not erased since.
* `CountsHold`: `Spec => []CountsAgree`. `CountInv` says of every session that no eraser is about
  to measure and that is not in `upset`: its count and the workers between the INSERT and the
  increment make up the number of its visible rows, and it is shown without rows only while
  somebody is about to insert one. An eraser that still has rows to change has their sessions on
  its list (`IdsInv`), so that they are measured afterwards; what a `clean` eraser has read of
  the session it is measuring still holds (`ReadInv`), so that what it writes is right. The
  proof has one general lemma for a worker's step and one for an eraser's, which name what
  such a step may disturb. That a turn has a first prompt rests on the well-foundedness of
  the natural numbers (`LastBefore`).
* `SessionsAreStretches`: `Spec => []OneStretch`. sessionFor never looks at rows, only at the
  sessions' ends, so `StretchInv` ties the two together while everything is orderly: a session
  ends with its last row, but for the row that the one busy worker is storing (`Ends`); that
  worker's event either comes a gap after everything stored and begins a session, or within the
  idle window of the last row and joins that one's (`AtHand`). Whether a gap lies between two
  events is not changed by a later event (`GapKept`, `GapJoined`, `GapBegun`).

`Enrolment_proofs`, for any people, companies, names, requests and bounds:

* `TypesHold`: `Spec => []EnrolmentTypeOK`; `TypeInv` adds what a request has read, and that
  the rows it names are there.
* `OnlyWithConsent`: `Spec => []CapturedWithConsent`, rushed or not. `AgreedInv`: whoever a
  machine is or is about to be given to works for its company, a batch about to be stored was
  agreed to under the version it was checked with; rows stay with their company and consents
  are never taken back.
* `MachinesHaveOneRecord`, `OwnersAreTheOnesNamed`, `SomebodyStaysInCharge`: under `~Rushed`.
  `LineInv` says that one request of the web or the console is under way at a time, and that
  what it read is still so when it writes, whatever the machines' own requests write in
  between: a code and nothing else. Findings 16 to 18 are what happens without the assumption.

Only model-checked is what is out of the prover's reach: liveness under fairness (`Delivered`,
`DrainReturns`, `PurgeReaches`, `Managed`, `FailsOpen`, `NeverHeldUp`, `RefusedFinitely`). Every
invariant and action property that a passing run checks is a theorem, and so is the refinement
of `Outbox`.

## 6. Not modelled

* *The formats the parsers read*, *what redaction matches*, *what reports and screens show*: pure
  functions of their input, with unit tests over recorded traffic. Whether an exchange is
  recorded, by which parser and under which id is in `Recording`.
* *Packages' own scripts, unit files, command lines*: text. What their steps leave on the
  machine is in `Provision`.
* *Encryption of bodies, the tenant's data key, deletion of a tenant*: single calls with no
  state between them that anything else sees.
* *Passwords, sign-in, who may see which screen*: single reads of the role.
* *`ca device --renew` and the other one-shot commands*: one person's own files, once.
