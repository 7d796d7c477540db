# Agent Browser Bridge, in TLA+

TLA+ models of the bridge, the TLC configurations that check them, and proofs
that TLAPS checks. Paths are relative to the repository; `src/` is its root
here. Which lines a definition stands for is in `PROJECT.json` under "map".
Good reading order: RouteTable, Broker, Link, Registration, HostRelay, Session,
then any of the smaller modules of section 6, each with its proofs beside it.

    tlc -workers 2 -config Broker.cfg MCBroker      # one run
    tlapm BrokerProofs.tla                          # one module's proofs

## 1. The system

    agent session -- stdio -- mcp-server --\
                                            +-- local socket -- bridged (the broker)
    browser: extension -- stdio -- host ---/

An agent's session talks to its own `mcp-server`, which asks the one `bridged`
for everything. Each browser profile's extension owns one native port, behind
which one `host` process relays to the broker. The broker joins an install to a
profile on disk, names the route, decides what each role may ask, and forwards.

### Inventory

| Component | State | Operations and who calls them | Hard behaviour |
|---|---|---|---|
| **Route table** `bridged/routes.mjs` | `#byInstall`: route per install: join, desired label, label, generation, link, missed beats | attach, detach, setDesiredLabel re-resolve every label; mint and validateHandle for tab handles | a label is a function of the whole table, so one profile's change renames others; handles outlive names |
| **Profile store and identity** `bridged/profiles.mjs` | `#data` (claim, label, generation, fingerprint) and `state.json`; candidates; Local State readings | resolveIdentity at REGISTER, noteIdentity and recheckIdentity on heartbeats, claim, forgetClaim | saves that fail are swallowed; Local State is flushed late, so drift is seen late; restart reads the file |
| **Broker** `bridged/index.mjs` | connections, `pendings`, held profiles, pending reloads | HELLO, REGISTER, PING/PONG, REQ, RES, EVENT; registration deadline, heartbeat, request timers, socket close | registration awaits; replacement; eviction before close; five ways for a request to end |
| **Policy** `bridged/policy.mjs` | `ArmingState`, `PanicSwitch` (a flag and a file) | arm, disarm, expiry; check, trip, clear, watcher | a file a person edits is the truth, memory is a cache; writing it may fail |
| **Audit** `bridged/audit.mjs` | the log, its rotation | record, for every op but the polled ones | one line per request whatever ends it |
| **Token relay** `bridged/token-relay.mjs`, `extension/lib/token-relay.js` | token files; relayed values | RELAY_TOKEN from the extension's web-request listener | two writers of one file; newer must win |
| **Upload rails** `bridged/upload.mjs`, `shared/upload-folder.mjs` | none (reads the folder) | before an upload is forwarded | order of the checks |
| **Host relay** `host/index.mjs` | socket, proof, outbound buffer, pending ids, registered/void/replaced flags, stdout queue | redial with backoff; forwards both ways; chunks | a REGISTER lost with the socket; buffers at their limit; both pipes blocked |
| **Extension link** `extension/lib/link.js`, `outage.js`, `sw.js` | worker memory (port, timers, epoch), session storage (state, attempt, heartbeat, hold) | ensureConnected from alarms and events, REGISTER_ACK, PING, disconnect, reconnect | the worker dies between any two awaits; every handler has awaits; late acks of an old port |
| **Extension operations** `ops.js`, `inject.js`, `snapshot.js` | the debugger's list and the snapshot's refs in session storage; sign-in tabs in worker memory | REQ from the broker; tab, request and debugger events | the page moves between a check and the key; the worker dies while it holds the debugger |
| **Tab groups and ages** `tab-groups.js`, `tab-ages.js` | the strip is the browser's; ledgers of opened tabs and of ages in storage | REQ; tab events; a start of the browser | a person drags between two calls; ids change at a restart |
| **Contract** `shared/protocol.mjs`, `framing.mjs`, `extension/lib/protocol.js` | none | envelopes, timings, handles, backoff, chunking, reload rule | boundaries |
| **Authentication** `shared/auth.mjs` | recent nonces | HELLO proof and host proof | window and replay bookkeeping |
| **MCP server** `mcp-server/*.mjs` | one client connection, pending calls | tool calls | many calls share one dial; local timeout against a late answer |
| **Pages** `options.js`, `popup.js` | what was last shown, a poll timer, an outage clock | polls, the person's clicks | polls overlap with hiding, clicks and outages |
| **Commands** `read-page.mjs`, `close-duplicates.mjs`, `reload-extension.mjs` | a plan made from one listing | one run each | the tabs and the profile change while they work |
| **Other scripts, guards, configuration** | none that lasts, or files on the machine | one-shot | sequential |

What makes each part correct, in one line:

* **Route table**: no two live routes share a label; a contested name reaches
  nobody; a tab handle is accepted exactly as long as the session and the name
  it was minted under; the store never lags behind the board.
* **Identity**: a claim is honoured only for the person it was made for; when
  the person changes the name, the arm and the handles go with the claim.
* **Broker**: a request waits only on a live route, ends once, ends always; a
  silent browser loses its route; a replaced connection is the older one.
* **Policy**: once the panic file exists no request reaches a browser and no
  profile joins, and nobody stays held when it is gone; an arm is for the person
  it was granted to.
* **Host and link**: whenever both ends are up, the extension ends registered;
  READY means a live route; one port per worker; no REGISTER is replayed.
* **Client and relays**: one dial at a time, each call ends once and runs at most
  once; the newest token is the one on disk; one keep-alive tab a session.
* **Extension**: what is rearranged ends as asked and nothing of the person's is
  taken; an age is one that was heard of at the tab's address; no key reaches a secret
  field nobody agreed to; refs end with the address they were read at, and the debugger
  with the operation.
* **Pages**: a visible page polls on; an outage is shown only when there is one.
* **Commands**: a tab they opened is closed or reported, the last copy of a page
  stays, a reload is for a version that differs.

## 2. Plan

The order was by how much of the system rests on the part. All of it is built;
what is left follows the list.

1. **RouteTable**: the table, the store, every handler that changes them. All proved.
2. **Broker**: connections, requests, panic. Types, panic, requests and holds proved.
3. **Link**: link.js cut at its awaits. Every safety property proved, the two on steps included.
4. **HostRelay**, which implements the abstract **Registration**. Both, and what is lost, proved.
5. **Session**: broker processes, the runtime file and the client. Safety proved.
6. **Gates, Reload, TokenRelay, Commands**: what a request passes, the reload
   gate, the token's way to its file, the commands that close tabs. All proved.
7. **Identity, KeepAlive, BoardPage**: who is behind a line, the relay a profile
   is told of, the pages. All proved.
8. **PageOps, Strip, TabAges**: what the extension does to pages and tabs. All proved.

Left, most useful first: the framing and chunking of
`shared/framing.mjs` as operators; page uploads and waits inside PageOps; and the composition of Link, HostRelay and Broker in one state space.

RouteTable and Broker are kept apart on purpose. What a route is called depends
on every other route and on the disk; whether a request ends depends on
connections and timers; no handler reads both kinds of state for one property.
They meet in the same handlers: `Register`, `ClaimProfile`, `Drift` and
`Disconnect` of RouteTable are the naming half of `RegisterResumes`,
`ClaimProfile`, `Heartbeat` and the ends of a route in Broker. Identity decides
the verdict that RouteTable's `Register` takes from `Verdicts`. Link sees the host
as `far`, HostRelay sees the extension as what it says on its port, and
`Registration` is what the two agree on.

## 3. RouteTable

| TLA+ | Code |
|---|---|
| `routes`, `Route` | `RouteTable.#byInstall`; a route's profile join, `desiredLabel`, `label`, `labelIsCustom`, `generation` |
| `store`, `disk` | `ProfileStore.#data` and the `state.json` it last wrote |
| `handle` | one tab handle an agent kept, with the history of whether its session still lasts |
| `chosen` | history: the name an operator last typed for an install |
| `Group`, `Suffixed`, `Proposal`, `Resolved`, `ResolveTable` | `#applyLabels`, `#resolveTable` with `onLabelChanged` |
| `Register`, `RegisterAbandoned` | `handleRegister` after its awaits, and when it turns out closed or held |
| `ClaimProfile`, `SetLabel`, `Drift` | `claimProfile`, `setLabel`, `recheckIdentity` with `dropClaim` |
| `Disconnect` | `releaseConnection`, eviction, panic: `RouteTable.detach` |
| `Mint`, `Validates`, `Answers` | `mint`, `validateHandle`, `resolveAddress` |
| `BrokerRestart` | a new process's `ProfileStore.load` |

A label is a sequence of parts, because the code only ever compares labels and
appends `-something` to them; `<<chrome, work, default>>` may be the suffixed
form of one name and the name typed for another, which is what the safety net is
for. Hashes are parts of their own, distinct per install. What resolveIdentity
decides is a choice over the verdicts it can return for the saved record
(`Verdicts`): it may join any row, honour a claim unverified, or forget the
claim. A handler may save several times, and each save writes the whole file. When
`SavesFail` is TRUE any of them may be lost, so the file holds of every record, and of
every generation, what it held before or what one of the handler's saves would have
written (`Torn`); that allows a little more than a lost save does, never less.

## 4. Broker

| TLA+ | Code |
|---|---|
| `conn` | a `Connection`: `open`; `closing` after sendAndClose; `destroyed` until its close event; `gone` |
| `reg`, `held` | `registerTimer` and `handleRegister` at its await; `conn.panicHeld` |
| `route`, `who`, `pings` | the live route's connection, its join, `pingSentAt` with `missed` |
| `armed`, `panic`, `file` | `ArmingState`, `PanicSwitch.#active`, the panic file |
| `req`, `at`, `audits`, `answers` | `pendings`, `pending.route.conn`, `audit.record` and `reply` in `finish` |
| `unwritten`, `newest`, the person in `armed` | history |

Each handler computes with a record of the broker's state (`Now`), passes it
through the helpers in the code's order and becomes the result: `EnterPanic`,
`LeavePanic`, `Check`, `FailPendingsFor`, `Detach`, `Destroy`, `SendAndClose` are
the functions of those names. A message to the broker first re-reads the panic
file where the code does (`Check`). `handleRegister` is cut at its await:
`RegisterArrives`, then `RegisterResumes`, which looks at the connection and at
panic again. A message of a chunk that was already read is still handled after
`destroy()`: that is `Heard`.

Abstractions: a pong of an older ping changes nothing the model keeps and is a
stutter; requests are of page operations that are audited; the other gates of a
request are in Gates, the reload gate in Reload; board and status only read; a connection's
name is used again only when nothing refers to the one that had it; a
connection registers once, as the extension does; an identity is any person or
none.

## 5. Link, HostRelay, Session

### Link

One worker of the extension, its session storage, and what is behind each of its
ports. JavaScript runs one handler at a time up to an `await`, so a handler is a
sequence of steps and between two of them any other may run. `task[s]` is where
the handler in slot s is, named for what it is about to do when it resumes; the
code has no bound on handlers, the model has `Slots`.

| TLA+ | Code |
|---|---|
| `port`, `ack`, `retry`, `arming` | `port`, the port the ack timer was set for, `retryTimer`, `retryArming`: a scheduleReconnect at its await |
| `task[s].dial`, `.moved` | this handler is `connectInFlight`; `linkEpoch` changed since it was read |
| `.sawReady`, `.sawHeld`, `.sawStale` | what ensureConnected read before it decides |
| `state`, `held`, `fresh` | `K_STATE`, `K_PANIC_HELD`, a `K_HEARTBEAT` within the stale window |
| `far` | the host behind a port and the broker behind that: asked, routed, held, silent, gone |
| `Alarm`, `RetryFires`, `Booted`; `StateRead`, `HeldRead`, `StaleRead` | ensureConnected: its guard, its three reads, `Decide` |
| `ConnectClearsHeld`, `Opens`, `OpenFails`, `Posts`, `IdentityFails` | connect |
| `Teardown`, `HeldCleared`, `Downed`, `AfterTeardown` | teardown and what its caller does next |
| `ScheduleReconnect`, `Bumped` | scheduleReconnect |
| `RegisterAck` then `OkHeld` .. `OkReady`, `Settles` | handleRegisterAck, one step per write, each behind its check that the port is still the current one |
| `PanicAck` then `PanicHold`, `PanicDown`, `Settles`; `Refused`, `AckTimeout`, `PostFails`, `Disconnect`, `Ping` | the refusals, the ack timer, a post that throws, handleDisconnect, PING |
| `ForceReconnect` | forceReconnect |
| `Evicted`, `WorkerDies`, `BrowserRestarts` | the end of a worker; only the last clears session storage |

What goes wrong uses up `trouble`, at most `MaxTrouble` times, so that liveness
can say "once things stop going wrong". Left out: requests of the popup waiting
for an answer, partial chunks, the attempt number behind the delay, storage reads
that fail; the pages' outage clock is in BoardPage. teardown's branch for a port that is not
the current one is not there because every caller passes the current one.

### HostRelay and Registration

One relay process behind one port. No handler of `host/index.mjs` awaits, so each
is one step, computed like Broker's with a record (`Now`, `Become`) and the
functions of the code.

| TLA+ | Code |
|---|---|
| `link`, `sock`, `awaiting`, `retry` | `link`, the socket, the wait for the first frame, `reconnectTimer` |
| `registered`, `replaced`, `shut` | `browserRegistered`, `replaced`, `shuttingDown` |
| `outbound`, `pending` | the buffer that drops its oldest frame, the remembered ids |
| `socketBlocked`, `stdinPaused`, `stdoutBlocked`, `sockPaused` | backpressure, both ways |
| `peer`, `has` | who is behind the pipe's name, and what it was given |
| `told`, `answered`, `posted`, `lost` | what the extension said and heard; history |
| `Connect`, `Connected`, `DialFails`, `AckTimeout`, `FirstFrame`, `Breaks`, `Closed` | connect, its events, judgeFirstFrame, onSocketClosed |
| `BrowserSays` with `FromBrowserConnecting`, `FromBrowserDown` | handleFromBrowser in its three link states |
| `RefuseRegistration`, `FailPendingRequests`, `FlushOutbound`, `HandOver` | the functions of those names, forwardToBroker |
| `Speaks`, `Answers`, `RegisterAcked`, `NoticeReplaced` | what a linked broker sends |
| `Drains`, `StdoutDrains`, `PortCloses`, `PortOpens` | drain events, the end of stdin with shutdown, a new process |

`Registration` is what a native port promises the extension that introduced
itself on it: a broker holds the introduction only between the introduction and
the word that it is void, and forgets it in silence only for a newer one.
HostRelay implements it under `told`, `Register \in has` and `replaced`: the
PROPERTY `Registers`, which the proofs establish for every buffer and bound.
Abstracted: the bytes of a frame, the delay between dials, the two files the
dial reads (they are there or not).

### Session

Broker processes that start, publish a token and end, and the client of one
agent session.

| TLA+ | Code |
|---|---|
| `proc`, `path`, `runtime`, `posix` | `main` and its start: probe and removal of a dead socket, listen, publish; the pipe's name; `runtime.json` |
| `Starts`, `Probes`, `Binds`, `Publishes` | main, cut where it awaits |
| `Leaves`, `Closes`, `Dies` | shutdown (the file first, then the pipe), a crash |
| `phase`, `cred`, `peer`, `closed` | `#connecting` and `#socket`, credentials read for a dial, where it leads, `#closed` |
| `Request`, `Dials`, `DialFails`, `Greeted`, `Unproven`, `HelloTimeout` | request, the shared dial, HELLO and its answer |
| `ClientSocketCloses`, `LocalTimeout`, `Close`, `Teardown` | the ends, which fail what was in flight and resend nothing |
| `Runs`, `Answered`, `CallRefused` | the broker's side of a call |

A stranger may hold the pipe's name, and the file may be stale or from a broker
without the proof (`Legacy`). A promise's continuation runs before the next
event, so it belongs to the step that settles it.

## 6. The other modules

Each of these is a small machine of its own. MCExtension, MCGates and MCProfile
bundle several that share no state: a behaviour is of one of them, chosen in the
initial state, while the others rest. One run then stands for one side of the
system without the product of states that nothing in the code relates.

### The extension: PageOps, Strip, TabAges

| TLA+ | Code |
|---|---|
| `tab`, `attached`, `calls`, `events` | the tab, the debugger, the line of debugger requests, what the browser tells the worker, in order |
| `signingIn`, `listed`, `snap`, `job`, `sweep` | the sign-in tabs the worker remembers, `attachedTabs`, the snapshot's refs, an operation at its await, `sweepDebuggees` |
| `Starts` .. `Finally`, `LooksAt` | an operation of `ops.js` from its first check to its finally |
| `BuildSnapshot`, `ResolveRef`, `Navigate`, `Click`, `Fill`, `GuardFocus`, `SettleAfterEnter`, `GuardSecretField` | the functions of those names; `SecretFieldVerdict` is secretFieldVerdict |
| `ServeAttach`, `CommandRuns`, `ServeDetach`, `KeyLands` | `chrome.debugger`, one request at a time, and the page under a key |
| `Lands`, `since` | the browser's word of a new page, which comes only when the address changed (`changeInfo.url`): a reload is a new document without one; `since` is the first document at the address of now |
| `OnBeforeRequest`, `OnUpdated`, `OnRemoved`, `NoteDebuggerDetached`, `DetachForSignIn` | the events of `sw.js` |
| `Strip.b`, `op`, `ours` | both windows' strips with groups, pins, folds; one operation between two calls to the browser; the tabs openOrFocus opened |
| `Group`, `JoinGroup`, `OrderTab`, `UpdateGroup`, `MoveGroup`, `UngroupTabs`, `GatherGroup` .. `FoldPlan`, `SortOneWindow` .. `SortEnds` | groupTabs, updateGroup, moveGroup, ungroupTabs, gatherGroup, sortWindow |
| `PlanGroupOrder`, `PlanWindowSort`, `PlanOpenOrFocus` | the plans of `protocol.js`, as operators on sequences |
| `OpenOrFocus` .. `MoveKeeper`, `OpenTab`, `ActivateTab`, `RemoveTab` | the functions of `ops.js` |
| `PicksUp`, `Drags`, `Pins`, `Closes`, `Selects`, `TypesAddress` | the person, between any two calls |
| `ledger`, `keyed`, `chain`, `writing` of TabAges | the ledger in local storage, the mark of this browser session, the promise chain of updates, the one that has read |
| `RecordOpened`, `RefreshPositions`, `PruneClosed`, `RekeyLedger` with `MatchExact`, `MatchUnique`, `CarryPair` | the functions of `tab-ages.js` |
| `BrowserQuits`, `BrowserStarts`, `WindowComesBack`, `ExtensionReloads`, `WriterDies` | new ids, window by window; a worker that died between read and write |

Abstracted: an operation's load wait only reads; what injected functions compute
is a choice; scrolling, waiting for a selector, cookies, dialogs and screenshots'
bytes; split views, which a sort moves as one unit (tab-ages.js:369); one operation on
the strip at a time, one that types at a time. What an
edit re-reads right before it writes is one step with it: the gap between is one
no API of the browser closes.

### The broker's gates: Gates, Reload, TokenRelay, Commands

| TLA+ | Code |
|---|---|
| `CanOriginate`, `Admission`, `Destination`, `Handles`, `UrlAllowed` | handleReq's checks in order: role, panic, address, tier, handles |
| `Refuse`, `AnswerHere`, `Panic`, `Resume`, `RelayToken`, `Forward` | the exits of handleReq |
| `UploadStarts`, `CanWrite`, `ResolveFile`, `OpenFile`, `RecheckFile`, `ReadFile`, `SendUpload` | prepareUpload and `upload-folder.mjs`, one step per look at the disk |
| `Appends`, `Rotations`, `Record`, `LogBecomes` | `audit.mjs`: append, rotate, a log held open, a full disk that takes half a line |
| `HandleRes`, `TimesOut`, `RouteEnds`, `BrokerRestarts` | the ends of a request |
| `Allows`, `AllowReload`, `FlagExpires`, `ComesBack` of Reload | allowReload with `pendingReloads`, reloadRefusal |
| `Fires`, `LoadsTheFolder`; `ReadsFolder` .. `TimesUp` | the extension's delayed reload; reload-extension.mjs |
| `Sees`, `Considers`, `ReadsBag`, `Patches` of TokenRelay | consider of `token-relay.js` at its awaits |
| `Judges`, `LaterWins`, `Keeps`, `Retries`, `LetGo` | judgeAndWrite, writeReplacing and its retried rename |
| `OpenRefused` .. `CloseOwnTab`; `PlanDuplicates`, `FreshListing`, `CheckClose`, `CloseCopy` of Commands | read-page.mjs; close-duplicates.mjs |

Abstracted: a file's content is its size; an unusable name or a folder that is not
configured resolves to nowhere; the second look at an opened file is one step; a
full disk still opens the log, so only a log held open fails the probe; while
an upload is prepared the broker does nothing else, as in the code, which reads
synchronously, and only the disk changes. A token is its moment of issue and whose
it is. In Commands the browser does not restart.

### The profile: Identity, KeepAlive, BoardPage

| TLA+ | Code |
|---|---|
| `file`, `browser`, `live`, `name` | Local State as last written, and what is true |
| `record`, `route` | `state.json`'s entry for the install, its line |
| `ResolveIdentity`, `Inferred`, `DriftByAddress`, `Drift`, `MatchByEmail`, `Contradicted`, `Fingerprint` | the functions of `profiles.mjs` |
| `Probe`, `VendorOf`, `NameRead` | the walk up the process table |
| `Register`, `RecheckIdentity`, `ClaimProfile`, `Rename` | the handlers of `bridged/index.mjs` |
| `LoadTokenRelays`, `RelaySpecsFor`, `BrokerAnswers` of KeepAlive | `bridged/token-relay.mjs` and the answer to REGISTER |
| `Records`, `StorageChanged`, `BootReads`, `BootApplies`, `Apply` | how the worker comes to watch what it was told |
| `Begins`, `Decision`, `FindsTab`, `OwnTab`, `Opens`, `Notes`, `ReadsRecord`, `WritesRecord` | keepAlive and patchState, at their awaits |
| `polls`, `timer`, `ticking`, `page` of BoardPage | refresh's calls under way, the poll timer, the clock, the state of the page |
| `Boots`, `PollDue`, `Shows`, `Hides`, `Arrives`, `Fails`, `Settles`, `ScheduleNextPoll`, `OutageState` | boot, refresh, bindVisibility, scheduleNextPoll, `outage.js` |
| `PicksProfile` .. `ClearsPanic`, `BrokerAsked`, `AsksInOutage` | the page's buttons and handleUiMessage of `sw.js` |

Abstracted: in Identity one extension, generations, arming, unique labels and the
slugs of consumer mail domains; in KeepAlive one relay, time in checks, session
storage there, nobody unpins the tab; in BoardPage the other lines, the audit
tail, the theme, layout and wording, and more than one request of the person at a
time. A browser with a user data directory of its own is excepted in `ClaimsAreKept`
and `SwitchIsCaught`: the code can only recognise it while it sees its process.

## 7. What the runs show

| Run | Instance | Result |
|---|---|---|
| `routes_two` (`RouteTable.cfg`) | two installs, one account in two directories, both handles followed, generations to 5 and 3, saves succeed | a handle lives exactly as long as its session and name; the store agrees with the table |
| `routes_three` (`RouteTable_names.cfg`) | three installs, generations to 3, 3, 2 | labels are unique; none of the routes that want one name answers to it; the name of a claim dropped on a settled board reaches nobody |
| `broker` (`Broker.cfg`) | two connections of one install, one session, one armed request, panic by file and operation | panic is total; no request waits on a dead route or ends twice; nobody stays held; the file is obeyed before it is noticed |
| `broker_live` (`Broker_live.cfg`) | one connection, one session, one request | every request ends; a silent browser loses its route |
| `link` (`Link.cfg`) | three ports, two handlers at a time, two troubles | one port and one dial, READY and the hold are that port's; the worker gives up only where a dial loses its port or its own retry; only trouble or silence drops a working link; the profile recovers |
| `host_relay` (`HostRelay.cfg`) | two requests and an introduction, two frames of buffer, one remembered id, two troubles | what is lost with a link is said; the relay implements `Registration`; it is linked in the end |
| `session` (`Session.cfg`) | two broker processes, two calls, two troubles, either kind of pipe | nothing runs twice or reaches a stranger; nothing fails for what an earlier call left; the runtime file is the broker's; every call ends |
| `extension` (`Extension.cfg`) | four layouts of four tabs in two windows with one act of the person; two addresses, four ids, three changes and one restart or reload; two operations on one tab over three documents, two keys, one mishap | the strip ends as asked and is the person's; ages are true; no key at a secret nobody agreed to; refs end with their address, the debugger with its operation |
| `gates` (`Gates.cfg`) | three requests, two names, three files, a log of two lines; three tokens, three moments, one fault; three tabs, two acts; three versions, two asks, two mishaps | an upload's line is on disk first and its bytes are the folder's; one line per request; the token file never goes back; the commands close what they may; a reload is needed |
| `profile` (`Profile.cfg`) | two directories, three addresses, two moves; two tabs, two hours; one name, two polls, two events | a switched account is caught and a claim kept; the relay watched is the one stored, one tab a session; a page polls on, and shows an outage only when it is one |
| `two_brokers` (`Session_two.cfg`), `rename_eaten` (`Profile_rename.cfg`) | as small as the behaviour allows; `two_brokers` starts from the socket file of a broker that died, and has no trouble | a counterexample to a sentence of the repository (section 9) |

**Bounds.** Two installs are a collision; three are a collision next to a name
that equals its suffixed form, the smallest table in which the safety net acts.
Generations bound the number of sessions; 5 and 3 let one install register,
be renamed by the other's arrival, claim, drift and register again with the
followed handle minted at any of these points. `Parts` holds what the derived
and typed names are made of, typed names included that equal a derived name and
its suffixed form. In Broker, two connections of one install are what
replacement, a stale close event and an out-of-order registration need; one
request suffices since requests do not read one another; StaleAfter 1 and
EvictAfter 2 keep the stale band (constants 3 and 6 in the code) of one beat.
One armed request covers the plain one, whose guards are fewer. The live run
has a plain request and no panic bound: the file may come and go forever. In
Link, three ports are the current one, one let go of whose disconnect has not
come, and the next; two handlers are what any
of its races needs; two troubles let a link be lost while it recovers.

In HostRelay a buffer of two with three frames to send drops the REGISTER or a
request, whichever was first, and one remembered id forgets another (32 and 256
in the code). In Session two processes are a restart or a race, two
calls share a dial. In PageOps a third document lets a page be loaded again at its address,
of which no word comes, and then be left. In Strip, the four layouts have two windows each
and, between them, a pinned tab, a folded group, a window without tabs and two groups of one
title outside the window that gathers them, and a fifth id is the tab an operation opens; ids
for tabs and groups do run out in the model (`TabsLeft`, `GroupsLeft`: an operation that needs another then waits), in
a browser they do not; one act of the
person may come between any two calls of an operation. The strip alone was also checked with two
acts. In TabAges six ids, two starts, two minutes and two changes are two tabs that are
brought back twice, as late as it takes to tell old from new, or a reload after a restart; it
was also checked with three changes. One start was not enough: two sentences about ages
that hold up to the first restart turned out false at the second (section 8). A ledger of two
entries is already past its soft cap. A log of two
lines rotates within a behaviour of three requests. Two operations on one tab
are what a lost debugger, a snapshot across a navigation and a focus moved by a
neighbour need; with two mishaps they were checked too. KeepAlive's budgets let either the broker say something new or the
tab live through two hours and a death: the two do not read each other's state.

**Fairness.** Only what the runtime provides: Node's timers fire (a request's
timeout, the heartbeat's interval, sendAndClose's backstop) and a destroyed
socket gets its close event. Nothing is assumed of browsers, hosts, sessions or
operators; they may fall silent for good, and the broker may die at any time
(a request it dies on counts as lost). In the extension, a handler goes on
(`Step`), the worker is woken and its alarm fires (`chrome.alarms`), a port whose
host died says so, an unanswered REGISTER runs into its deadline, one that the
broker took is answered, and a heartbeat nobody renews goes stale. Where only the
bound on handlers could disable an action for a while, its fairness is strong.
That panic ever ends is not assumed: `Recovers` allows a profile held for good.
The retry timer is not assumed to fire either; the 30 s alarm is enough.
The relay's redial timer fires, a dial ends, a destroyed socket closes, a broker
answers HELLO (strongly: a dial may be lost before it does, but only while trouble
lasts), stdout drains because the browser reads, and a port that closed is opened
again. The client has its own timers and nothing else.

**Deadlock** is checked where the system always has a step: RouteTable, Broker, Link
and HostRelay, whose processes can always die and be started or woken. The other
runs set CHECK_DEADLOCK FALSE: a client whose calls have all ended, a command that
has reported and a page nobody touches have really stopped, and the counters of
what may still happen run out.

## 8. What is proved

`RouteTableProofs` proves seven theorems for any installs, rows, names and bounds, from
`RouteTableAssumption` and `NoneAssumption`:

| Theorem | Statement |
|---|---|
| `TypeCorrect` | `Spec => []TypeOK` |
| `TheStoreAgrees` | `Spec => []StoreAgreesWithRoutes`, whichever save fails |
| `HandlesLive` | `Spec => []HandleLivesAsLongAsItsSession`, if `~SavesFail` |
| `NamesAreUnique` | `Spec => []LabelsUnique`, if `HashesMark` |
| `NoneHolds` | `Spec => []NoneHoldsTheNameTheyContest` |
| `Unambiguous` | `Spec => []NamesAreUnambiguous`, the two before, if `HashesMark` |
| `ADroppedNameIsFree` | `Spec => SettledNameReachesNobody`, if `HashesMark`, `UnclaimedStandOut` and `~SavesFail` |

The handlers compute with values [routes, store], so each function of the code is shown
once to keep what matters and each action follows from its functions.

* *The store agrees.* In the middle of a handler it does not: the route that is being
  registered or renamed has its new name before `remember` has it. `SoundBut(b, i)` says
  that everybody else's record is right and that of i lacks only the name; `ResolveTable`
  keeps it for the others, `remember` makes it `Sound` again. It needs that every name in
  the store or the file is a name (`Named`), since an entry whose custom name is blank
  would be given a derived one and kept as custom; of a torn file that is `TornNamed`.
* *Handles.* `HandleSound` adds that a handle's generation is at most the stored one of its
  owner, and below it unless the session lasts. Every end of a session raises the
  generation (`Follows`, for the routes that somebody else's collision moves; `Handled`, for
  the one the handler is about), so the handle can never match again. Over a restart this
  rests on the file, hence on saves that succeed: after a lost one the same generation is
  given out twice.
* *Names.* Why a second look at the suffixed names makes them unique: it appends the
  hash of the install, so two names can only meet if one ends in the other's hash.
  `HashesMark` says that hashes differ and that no directory, derived or typed name ends in
  the hash of another install; `Own` is that of every name in the table and the store.
  What a collision left in the store and a reconnect takes up as the custom name is covered:
  it ends in its own hash at most. The hypothesis is needed: the code does not look again
  after the hash (routes.mjs:336), and with four installs and an operator who types a name
  that ends in another's hash two routes do share a label. It holds in every instance here.
* *None holds.* Whoever shares a wanted name is called by a longer one (`Bare`); no
  hypothesis on names is needed, and a claim that re-resolves nothing keeps it.
* *A dropped name.* DropClaim makes the route want its unclaimed name and re-resolves the
  table, and a route that shared the wanted name may then get it bare. That is never the
  name which was left: on a settled board it was suffixed if anybody shared it, and a suffix
  is nobody else's (`Unhashed`, `LeftNameIsFree`). It needs that the unclaimed name is wanted
  by no one else and not by a route that is claimed or named. `AllFree` is that of table and
  store, whatever suffix is put behind a name (`Clear`), kept by each handler (`Tended`).
  `UnclaimedStandOut` asks it of what names are made of: somebody may type
  `chrome-unclaimed-<hex>` for a line, in another's hex, and then it is not so. And a broker
  that dies between two of the saves of one drop leaves a record that is still claimed under
  its unclaimed name, hence `~SavesFail`. TLC evaluates both hypotheses on names to TRUE in
  the instance of `routes_three`.

The proofs are also where `DroppedNameReachesNobody` and `NobodyHoldsAContestedName` of
section 9 come from: both sentences held on the small instances, neither was inductive, and
what the proof lacked in each was a behaviour beyond the bounds.

`BrokerProofs` proves seven theorems for any connections, installs and requests
from `BrokerAssumption`:

| Theorem | Statement |
|---|---|
| `TypeCorrect` | `Spec => []TypeOK`; it bounds `pings`, so no route outlives EvictAfter silent beats |
| `PanicIsTotal` | `Spec => []PanicStopsEverything` |
| `RequestsFollowTheirRoute` | `Spec => []NoRequestWaitsOnADeadRoute` |
| `RequestsEndOnce` | `Spec => []EndedOnce` |
| `EveryRequestIsAccountedFor` | `Spec => []RequestsAreSettled`, the two before together |
| `NobodyStaysHeld` | `Spec => []HeldOnlyThroughPanic` |
| `FileObeyedUnseen` | `Spec => TheFileIsObeyedUnseen`, an action property |

The invariant is `IInv`: `Sound(Now)` and the types of what no handler computes
with. `Sound` has four parts that need each other. Panic is total (`Quiet`)
only if what RegisterResumes attaches is checked; requests follow their route
(`Waiting`) only because a live route's connection is of that install and its
registration is over (`RoutesLive`): otherwise two installs could share a
connection, and failing the requests of one would leave the other's record
behind, or a resuming registration would attach a connection that already has a
route. `Once` is needed with `Waiting` because a request may only be finished
while it is pending. The helper lemmas (`FinishEffect`, `DetachEffect`,
`EnterPanicSound`, `CheckSound`, ...) say what each function of the code changes,
and each action has its own lemma that it keeps `IInv`.

The last two theorems rest on what a handler can never do outside registration:
open a connection, route a profile, put a request in flight. `Tamer` says that of
a step of a handler and is transitive, so it passes from function to function;
only `RegisterResumes` and `Req` do more, and both have looked at the file before
(`CheckLetsGo`). `HeldOnlyThroughPanic` is inductive next to `IInv`: leaving panic
destroys every held connection before the flag falls.

`LinkProofs` proves eight theorems for any ports, handlers and amount of trouble
from `LinkAssumption`, with no bound on how many handlers interleave:

| Theorem | Statement |
|---|---|
| `TypeCorrect` | `Spec => []TypeOK` |
| `OnePortPerWorker` | `Spec => []OnePort` |
| `ReadyIsRegistered` | `Spec => []ReadyMeansRegistered` |
| `HoldIsOfThisPort` | `Spec => []HeldMeansThisPort` |
| `OneDialAtATime` | `Spec => []OneDial` |
| `TheLinkIsOne` | `Spec => []OneLink`, the four together |
| `ARetryIsLeft` | `Spec => NeverGivesUp`, an action property |
| `AWorkingLinkIsKept` | `Spec => OnlyTroubleDropsALink`, an action property |

None of the first six is inductive alone. `Sane` says what a handler under way relies on: a dial
that has not opened its port yet owns a link without one, whose state is not
READY and whose hold is cleared by the time it opens it, so what storage says
cannot be taken for the new port's; a handler that records an answer holds the
answer of its port, for as long as that port is the current one. With one dial at
a time this is `Sound(Now)`. `SoundBut(b, s)` is the same of a worker one of whose
handlers is running; each function of link.js takes it there (`TeardownSound`,
`ConnectSound`, `DecideSound`, ...) and the handler's last `Awaits` makes it
`Sound` again (`AwaitsSound`).

The last two speak of steps, and need more of the handlers under way: `Acked`, the second
half of `LInv`. Nobody waits for the answer of a port but the current one (`Asks`); the
ack timer of a port runs until its answer is recorded, and one handler
records it (`Knows`, `Apart`); a handler that read the link before it was up knows that it
moved, or saw READY. So a handler that tears down a link that works, on
the strength of what it read some awaits ago, had read a stale heartbeat. `AckedBut(b, s)` is
the same of a worker one of whose handlers is running, and `Careful` collects what a whole
handler has to show.

`HostRelayProofs` proves, from `HostAssumption` and for any buffer, ids and trouble:

| Theorem | Statement |
|---|---|
| `TheRelayRegisters` | `Spec => Registers`, the refinement of Registration |
| `AnOrphanHears` | `Spec => []OrphanHears` |
| `WhatIsLostIsSaid` | `Spec => []NothingIsLostInSilence` |

A step of the relay maps to a step of Registration only because of what else holds
of it. An extension that takes its introduction to stand is `registered`, and linked or
being linked (`Posted`); the introduction waits in the buffer at most once, and then no
broker has it (`Waits`); a broker has it only over a proven link (`Linked`). So a socket
that closes always finds something to refuse. Together these are `Stands`, which
speaks of the relay as a value, so each function of the code is shown once to keep it
and to change told, route and newer as Registration lets it (`Allowed`); a handler is
a composition of functions and `Good(b, c)`, which says both, is what each is proved to do.

What is lost is counted request by request (`Counted`): one that was posted and has no answer
is in the buffer, remembered as pending, or lost to a bound; one that was answered is
nowhere any more. The ids that are remembered are those of the buffer's requests, in
order: `Only`, a recursive function, and what it keeps and drops of every buffer is shown
by taking the shortest one for which it would fail.

Of Session, `BrokerProofs` proves four theorems from `SessionAssumption`, for any number of
processes and calls: `SessionTypes` (`SessionSpec => []SessionTypeOK`), `CallsAreCarriedOutOnce`
(`[]CarriedOutOnce`), `TheFileIsOfWhoAnswers` (`[]TheFileIsTheBrokers`) and
`NothingIsLeftBehind` (`[]NoLeftovers`). The third is inductive once it says that off POSIX nobody probes or clears a name
(`NameInv`): then whoever is past the bind holds the name, and only the one that holds it
writes the file. `OnceInv` follows a call: one not yet written has no broker and has not
run, one that a broker still has to carry out has not run either, and a socket that was
proved leads to a broker, so nothing is written to a stranger.
`NoLeftovers` speaks of the calls that were made when nothing was wrong: then one broker has
the name and the file, nobody else is past the probe, and whatever dial is under way
was made with that broker's credentials (`Settled`). Only trouble ends that.

`GatesProofs` proves, of the four machines of MCGates and each of its own specification:

| Theorem | Statement |
|---|---|
| `EveryRequestHasItsLine` | `GatesSpec => []OneLineEach` |
| `UploadsStayOnTheirRails` | `GatesSpec => []UploadsKeepTheirRails` |
| `TheFileNeverGoesBack` | `RelaySpec => FileNeverGoesBack`, an action property |
| `NoTabIsForgotten` | `CommandsSpec => []TabsAccountedFor` |
| `OnlyCopiesGo` | `CommandsSpec => CarefulCloses`, an action property |
| `NoReloadIsWasted` | `ReloadSpec => ReloadsAreNeeded`, an action property |

* *Gates*, from `GatesAssumption`, for any requests, names, files, limits and size of the log.
  `GatesInv` says of the log, the rotated one, what was lost and the calls together that each
  request that is done has one line among them and nobody else has any (`ToldOf`). A
  record is several appends, and before each of them the log may rotate or the disk be
  full; `AfterKeeps` shows by induction over the lines that what holds of the log before
  holds after all of them, with the new line added once. Of an upload under way it says
  what has been read so far: files of the folder under the names they had there, within
  the limit (`UpOK`). `seen`, the history of what each name led to inside the folder, only grows,
  so a check made before an await is still good for the file that was opened.
* *Token relay*, from `RelayAssumption`. The property compares the file at the moment it is
  written, the code compares when a job's turn comes, with the time at which it arrived.
  `RelayInv` closes the gap: the queue is in order of arrival and nobody arrives in the
  future (`QueueInOrder`), and the job being written is the operator's and newer than the file,
  or the file is of no use (`WorkIsDue`). It stays so while the job waits for its rename,
  since a token that has expired stays expired as the clock moves on.
* *Commands*, from `CommandsAssumption`. read-page keeps the handle of the tab it opened from the
  answer on (`Own`); what close-duplicates learned from its fresh listing holds as long
  as nobody touches a tab (`StillSpare`). That tab ids are positive is an assumption: the model
  writes 0 for "opened none".
* *Reload*, from `ReloadAssumption`. A timer is set only for a worker that is behind (`Due`), the
  broker knows the version that runs as long as the connection stands (`Known`), and the
  command saw the version it reports after it asked (`SeenSince`).

`ProfileProofs` proves, of the three machines of MCProfile:

| Theorem | Statement |
|---|---|
| `AnotherAccountLosesTheLine` | `IdentitySpec => []SwitchIsCaught` |
| `TheirClaimIsKept` | `IdentitySpec => ClaimsAreKept`, an action property |
| `TheDropStays` | `IdentitySpec => DropIsRemembered`, an action property |
| `TheWatchFollowsTheStore` | `KeepSpec => []WatchesWhatIsStored` |
| `ASecondTabNeverOpens` | `KeepSpec => OneTabASession`, an action property |
| `ThePageGoesOnPolling` | `BoardSpec => []PollingGoesOn` |
| `TheOutageIsEarned` | `BoardSpec => []OutageIsEarned` |

* *Identity*, from `IdentityAssumption`, for any directories, addresses and accounts. The route
  is what the store keeps (`SameLine`), a browser with its vendor's own data directory is never
  taken for another (`OneVendor`), and the print of a claim names the account it was made for
  (`PrintNames`). `Steadiness` is what makes `ClaimsAreKept` inductive: as long as the same
  person has been there since the claim, whatever Local State says late or in part
  either matches the print or contradicts nothing.
* *KeepAlive*, from `KeepAliveAssumption`. `ToldInv` follows the list of relays from the broker's
  answer to the store and from the store's events to what is watched: the last event still to
  come carries what is stored. `TabInv`: what session storage notes is the worker's own tab and
  still there, and a check that is about to open one has seen the note empty.
* *BoardPage*, from `BoardAssumption`. A poll, a timer or a call under way that is not an immediate
  one is always there while the page is visible, and the clock of the outage starts no
  earlier than the last board that arrived (`PagesInv`).

`ExtensionProofs` proves four theorems of PageOps from `BoundsAssumption` and `OpsAssumption`, for
any number of operations, documents, keys and mishaps, and one of TabAges from `AgesAssumption`,
for any addresses and number of tabs, minutes, starts, changes and updates in line.
From `StripAssumption`, three theorems of Strip hold for any tabs, groups, titles and pages, any first
layout that a browser can have, any requests and any number of acts of the person: the first two
are proved in `StripProofs`, which also holds the lemmas for the third, and `ExtensionProofs`
extends it and finishes the third:

| Theorem | Statement |
|---|---|
| `PageInvariant` | `PageSpec => []PageInv` |
| `KeysLandWhereAgreed` | `PageSpec => []NoSecretWithoutAYes` |
| `RefsDie` | `PageSpec => []RefsDieWithTheirAddress` |
| `TheDebuggerEnds` | `PageSpec => []DebuggerEnds` |
| `TheAgesAreTrue` | `AgesSpec => []AgesAreTrue` |
| `TheStripStaysSound` | `StripSpec => []BrowserSound` |
| `ThePersonKeepsTheStrip` | `StripSpec => TheStripIsThePersons`, an action property |
| `TheStripIsLeftAsAsked` | `StripSpec => []LeftAsAsked` |

`PageInv` says what an operation may rely on when it resumes. It is inside withDebugger
exactly between the note of its attachment and the detach (`JobsSound`), and a command in
the debugger's line is the one it waits for, or was left by a dead worker (`LineSound`).
A key in flight was judged for the field that has the focus, unless the focus was moved
after the check, and while an operation waits for the page after an Enter nothing else
types (`KeysSound`). A ref that names an element of a document at an address the
tab has left is followed by word of the navigation on its way to the worker (`RefsSound`);
of a document that was loaded again at the same address there is no such word, and the
stronger `RefsDieWithTheirDocument` is not kept (section 9). At a sign-in page either
that word is on its way or the last thing in the debugger's line is a detach
(`SignInSound`); and whoever still holds the debugger is an operation that will let go, or
written down for the sweep of the next worker (`DebuggerLetGo`). The exceptions `raced` and
`torn` of the properties are the two gaps section 9 describes, not hypotheses of the proofs.

`TheAgesAreTrue` rests on `AgesInv`, which has two halves, one for each half of the property.
`Good` is what a ledger may say: each of its ages was heard of at the address the entry
carries and at the address its tab has now. Recording, forgetting, moving the
positions, pruning and every re-key, whatever pairing of windows it takes, keep it
(`ApplyIsGood`, `RekeyIsGood`), so it holds of the ledger and of what an update that has read
is about to write; a created event in the chain brings an age that may be heard of when it
is taken up (`EventSound`). For what is not lost, `SavedLasts` follows the ledger of a browser that
quit up to date: between quitting and starting there is nothing left to do that would change
it (`LedgerRests`), and afterwards it says of each saved tab where it was until the first update
re-keys it. If the tabs are then back where they were (`Tidy`), a tab t that shares its
address with none pairs its old window with its new one: every entry of the old
window is an exact match there, while a clashing pair misses t's (`OwnBeats`), so
whichever pairing is taken contains that pair (`OwnIsChosen`), the exact match carries t's entry
(`OwnCarries`), and no operator loses it afterwards while t is open (`ApplyKeeps`).

The attempt corrected two properties of the model. As first stated both held with one start of
the browser or reload of the extension; neither was inductive, and with a second TLC refutes both. The age of a
tab was compared with the tabs that showed its address and with the return of that tab only; but a
tab that was on screen a moment before it came back may be stamped as new, and its next re-key
hands that age to another tab of the address: hence `heard`, all the times that a tab of an
address could be taken to be from. And the places saved at a quit were held against every later
re-key, also one after a reload, when the ledger had moved on: hence `saved` ends with
the first re-key of the session.

`ThePersonKeepsTheStrip` is about single steps, but a step can only be judged by what the
operation believes of the browser when it takes it, and that is some calls old. `BrowserSound` is the
invariant: the browser is one that can be (`WellFormed`: a tab in one place, a group together
in one window and never pinned, each window showing a tab of its own), and the operation at
work has been told what its stage needs (`Told`): the tabs it names once each, a group that
is none or had a title when it was picked, duplicates that openOrFocus itself opened. Nothing
the person does takes any of that away; what he can take away (that the tabs are still open, in
that window, unpinned) is what each edit re-reads. The rest is what the browser's calls do:

* A strip is known by which tabs are on it and which of two stands before the other (`Before`).
  So stated, a strip regrouped keeps its tabs, kin keep their order and stand where the first of
  them stood (`RegroupedIs`), and one whose groups stand together is left alone; a flattened
  list, a selection and a splice have lemmas of the same kind.
* Every call is a plain change of the strips followed by `Settled`. If the change leaves each tab in
  one place and each group in one window (`Ready`), what is settled is `WellFormed`, has the same tabs
  in each window, and shows another tab only where the one shown has left. There is one
  lemma for each call, which shows its change `Ready`, and one for each action.
* An action then has little left: a tab that `StillIn` finds in its window stays in it when its group is
  joined there, and is not pinned, so a join unpins nothing. This is where the check right
  before each edit is needed, the retry after a drag included: with a check made
  once, before the wait, the theorem and the run both fail.

`TheStripIsLeftAsAsked` needs more: not what a stage may rely on whatever happens, but what an
operation has achieved so far when nothing happened to it. `BrowserSound /\ Untouched` is inductive:
as long as the person has done nothing, no drag is on and the operation `Goes` as one of its kind does.
`op.was`, the browser it began with, is what its progress is measured against.

* *Grouping*. The tabs named are in one window and can join (`JoinReady`); they have joined the group
  that `TitledIn` names first (`Together`); of the order they are to stand in, a first part stands
  already and the rest is still to be moved (`Ordering`); they stand in it (`Ordered`). One move takes
  a member to the place after the last of its group, and leaves the order of the others.
* *Gathering*. Every tab that had the title has it, or is about to be put back in a group that has it
  (`Wanted`); those outside the window belong to a group still listed in `rest` (`Standing`); while a
  group is moved, its tabs are either in the list of what has moved or still in the group
  (`MovingIn`); while groups are folded, those left are in the kept one or in `todo` (`Folding`). The
  window's own first group stays its first (`Foremost`), because tabs come in at the right end:
  this is why the nested groupTabs always joins that group and no other of the title.
* *Sorting*. The strip is cut in units; those that have gone to the end, or may stay, stand in
  order of age, and any unit still to go is younger than each of them (`Sorting`). A unit moved to
  the end keeps its own order, also when it must be ungrouped and grouped again.
* *Showing*, *ungrouping*. The keeper is among the tabs that showed the page at the start, or is the
  tab just opened, and what is still to be closed is neither; the tabs to loosen are those named.

The attempt found a fault of the model. A gather calls groupTabs for each group it moves in, and the model
kept the list of groups still to come in the field in which groupTabs keeps the tabs it has to
order: after the first group the list was gone, and the second was never gathered. The code has no such
fault, the lists are locals of two functions. No layout of the run had two groups of a title
outside the window, so TLC had not met it; the list has a field of its own now (`rest`),
and the third layout makes a gather meet two. The sort of the community modules could not be reasoned
about; `OldestFirst` says in its place what a sort by `compareUnits` gives.

`StripAssumption` asks that the ids of a request be distinct, as checkTabIds makes them, and
that a request to activate a tab say so; that a request to group or gather names a title (the model
writes "same" for a label that leaves it), as checkTitle requires; that ids are positive, since 0 is
no tab; and that the first layout is `WellFormed`, which TLC evaluates for those of the run.

**Induction over data.** The library's induction theorems take a predicate, which no backend
here can instantiate. Where a proof needs one, the set of the counterexamples is named, and
`WFMin`, which takes a set, yields a least one: so for `Only` over buffers (HostRelayProofs),
for the lines of a record and the files of an upload (GatesProofs), and for the selections
and the flattened strips of Strip, by the least index that fails (`UpTo`). It asks that the
operator be a recursive function, as these are.

**Model-checked only.** Liveness (`EveryRequestEnds`, `SilentBrowserLosesItsRoute`,
`Recovers`, `RelayRecovers`, `EveryCallEnds`): fairness and ENABLED are beyond the
prover. The runs that refute a sentence (section 9), which are instances by nature. Every other
property of the runs, each invariant among them, is stated by a theorem.

Where a theorem proves a type invariant, no run repeats it.

## 9. Where the code and its words disagree

Two runs show a sentence of the repository refuted, and PROJECT.json lists them:

| Run | Sentence | What happens |
|---|---|---|
| `two_brokers` | bridged/index.mjs:2424: exit rather than race, two brokers would mean two route tables, two tokens | on POSIX, two brokers started over a dead socket file both probe it before either listens; the second removes the socket the first has just bound, and both are up |
| `rename_eaten` | sw.js:375: the local copy stands and the next REGISTER carries it up | the broker names the line from its own store whatever the REGISTER says, and the answer overwrites the extension's copy |

These are stated as definitions and refuted by the configuration named, on the
module in the second column, within a minute:

| Definition, configuration | Module | Sentence | What happens |
|---|---|---|---|
| `HandleNeverCrossesProfiles`, `RouteTable_cross.cfg` | MCRouteTable | protocol.mjs:1475, routes.mjs:369: a handle of one profile is never accepted for another | generations count per install; another profile that later has the label at the same generation accepts it |
| `ChosenNameNeverReachesAnother`, `RouteTable_chosen.cfg` | MCRouteTable | DESIGN.md:241: a custom label always wins | the store keeps the suffixed form a collision gave, a reconnect takes that for the custom name, and the other profile then answers to the typed one |
| `NobodyHoldsAContestedName`, `RouteTable_contested.cfg` | MCRouteTable | routes.mjs:286: the bare name resolves to nothing | suffixed proposals are compared with one another, not with the names that are wanted (:315): two routes want `chrome-work-default` and are suffixed, a third, contested on `chrome-work` in the directory `default`, is named `chrome-work-default`; it takes four installs |
| `DroppedNameReachesNobody`, `RouteTable_dropped.cfg` | MCRouteTable | profiles.mjs:685: its old name no longer addresses anything | claimProfile of a line with a custom name re-resolves nothing (index.mjs:1573), so the board keeps a suffix that is out of date; a claim dropped later on another line resolves the table, and the first one moves into the very name the dropped line left |
| `RenameTakesTheTypedName`, `RouteTable_rename.cfg` | MCRouteTable | index.mjs:1624: refuse rather than silently suffix | leaving a collision group moves another route into the name that was just typed, and both are suffixed |
| `PanicHoldsWithoutTheFile`, `Broker_panic.cfg` | MCBroker | policy.mjs:406: memory refuses for this broker lifetime | the next message re-reads the file that could not be written, and panic is over |
| `ArmIsForThePersonThere`, `Broker_arm.cfg` | MCBroker | index.mjs:1455: an arm cannot outlive the person | claiming an armed line for another directory keeps the arm |
| `OnlyTheOldSocketIsReplaced`, `Broker_replaced.cfg` | MCBroker | index.mjs:739, :753: the old socket is replaced by the newer registration | two registrations that await their identity resume in either order |
| `RetryAlwaysComing`, `Link_retry.cfg` | MCLink | link.js:182, :364: whatever took the port from a dial owns the link now | the retry it scheduled fires into the dial, which is still collecting the identity, and is let go; the dial then finds its port gone and returns: no port and no retry until the 30 s alarm |
| `RefsDieWithTheirDocument`, `Extension_refs.cfg` | MCExtension | shared/shape.mjs:696: refs are void after the page navigates; sw.js:127: same tab id, entirely different document | onUpdated clears only on an update with an address (sw.js:129), which the browser gives only when the address changed; after a reload the document is new and the refs of the old one stay. openOrFocus clears by hand after its own reload for this reason (ops.js:851); a reload by the person or the page has no one to do so |
| `OnlyAGatherChangesWindows`, `Extension_crosses.cfg` | MCExtension | README.md:433: only `browser_gather_group` moves anything to another window | a sort moves each tab of its plan to the end of its window (moveUnitToEnd, tab-ages.js:347), and so takes back one that the person has dragged to another window since it was read |
| `UploadsAreNamed`, `Gates_unnamed.cfg` | MCGates | audit.mjs:135: this line says which tab and which files, by bare name and size | the log drops a name longer than its pattern takes, and a line appended after half a line a full disk left is glued to it |

Met while modelling, with no run of their own:

* **Names and claims.** A claim made before the browser flushed Local State records only
  the name and is never upgraded to the account id. A claim on the wrong directory is
  taken as proved by that directory's row for ever (profiles.mjs:868). A directory that
  is gone keeps its custom label, and a match by address in the same register can carry
  the label to another person. A custom name given to a drifted line is lost at its next
  register.
* **Pages.** An older poll's answer may be applied after a newer one. A failure before
  the page was hidden counts through the hidden time, so the first failed poll on return
  shows the outage at once. The board's button to clear panic is always refused while
  panicking. The popup decides between trip and resume by what the board said at the end
  of the hold.
* **Strip and ages.** groupTabs joins a collapsed group without opening it. The
  settling of tabs accepts two equal counts of zero. A first re-key whose worker dies
  between its mark and its write loses the ages; so does a ledger past its soft cap whose
  position refresh fires while the browser quits, when no tab is open. Two openOrFocus calls for one page can
  each close the other's tab.
* **Page operations.** After an Enter guardFocus looks at the deadline before it settles.
  A snapshot written down after the navigation has cleared the last one leaves refs of the
  old document; an attachment made just before a worker's death is missed by the sweep, and
  so is one whose note was wiped out by late word of an earlier detach. These are the
  `raced` and `torn` exceptions of the properties.
* **Token relay.** protocol.mjs:1698 says that the token that lives longest is kept; the
  code orders by issue time. patchState's read and write can lose `openedAt`, after which
  a second keep-alive tab opens the same day (token-relay.js:23); so can a death of the
  worker between the opened tab and its note. A broker that is killed while it retries a
  rename leaves its temporary file. The answer to REGISTER and the refusal of panic race in
  storage, and relays may be watched in panic (token-relay.js:20).
* **Commands and reload.** Two runs of close-duplicates at once can remove the last copy.
  A restart of the browser renames the tab read-page opened, which it then reports as gone.
  A second reload request passes if the old worker registers again before its timer fires.

## 10. Not modelled

Not at all: the HMAC and the nonce window of `shared/auth.mjs` (what a proof proves is
in HostRelay and Session); frames, chunks and back-off times (`shared/framing.mjs`,
the pure part of `protocol.mjs`), which hold no state between calls but a partial frame;
the visit guard and the account words, which are rules over strings; the MCP server's table
of tools and the shaping of results; installers, doctor and one-shot clients, which run
once and alone and whose effects are on the machine; file locations and configuration.

In part: of the extension's operations, split views, scrolling, waiting for a selector, cookies, page
uploads and what injected functions compute; of the worker, the badge and the menu; of the
pages, layout and the sort; of Link, the popup's requests and chunks. Sections 4 to 6 say
what each module leaves out.
