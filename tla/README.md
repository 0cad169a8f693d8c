# TLA+ models of VPNHub

VPNHub is a VPN client: a desktop application (`packages/app`, Tauri and React),
a privileged daemon (`packages/daemon`, Rust and tokio) that owns the host's
network configuration, and a set of OpenVPN crates (`crates/ovpn-*`) that
implement the protocol. This directory models the parts whose correctness
depends on the order of events, checks them with TLC, and proves the central
results with TLAPS. `PROJECT.json` maps every definition to its source lines.

Running it:

    tlc -config MCOrchestratorOverlap.cfg MCOrchestrator   # any run: cfg and module
    tlapm OrchestratorProofs.tla                           # any *Proofs module

## 1. Inventory

| Component | State it keeps | Operations | Talks to | What is hard | What makes it correct |
|---|---|---|---|---|---|
| `DaemonOrchestrator` (`daemon/src/core/orchestrator.rs`) | `active_session`, `active_driver`, metrics flag, one monitor task per connect | connect, disconnect, kill-switch request, monitor loop | StateManager, drivers, NetworkManager, IPC server | requests and monitors interleave at every await; monitors outlive their request | no session that nobody can stop; a kill switch only released on purpose; every request answered |
| `StateManager` (`core/state.rs`) | watched state, session clock | `transition_to` | everyone reads it | validate and store are two steps | moves along the table only; never stuck in Disconnecting |
| Drivers (`engine/openvpn`, `engine/wireguard`) | session handle, pushed configuration | start, stop, event bridge | ClientSession, orchestrator | events and configuration travel separately | a stop is obeyed; what is confirmed exists |
| `NetworkManager` and the Linux managers (`network/**`) | tunnel context, injected routes, DNS backup, firewall and IPv6 flags | set-up, teardown, kill switch, Drop | `ip`, `nft`, `iptables`, `resolvectl`, `/etc/resolv.conf` | commands fail one by one; set-up runs twice without teardown | everything changed is remembered; no leaks while the switch is on |
| `ClientSession` (`ovpn-core/src/session.rs`) | remotes, pipeline | fail-over, packet loop, commands | transports, ProtocolEngine | commands are read in the loop only; any error ends the pipeline | stop ends it; all remotes tried |
| `ProtocolEngine` (`ovpn-protocol/src/engine.rs`) | handshake state, key slots, push accumulator | packets, ticks | reliable queues, TLS | ordering of handshake, push, keys | Connected only with keys and configuration |
| Reliable channel (`ovpn-protocol/src/reliable.rs`) | ids, unacked queue, reorder buffer | enqueue, ack, retransmit, receive | ProtocolEngine | loss, duplication, reordering, full windows | in order, exactly once, nothing acknowledged is lost |
| Anti-replay window (`ovpn-crypto/src/anti_replay.rs`) | newest id, 128-bit bitmap in two words | check, update, reset | ProtocolEngine | shifts that meet at 64 and 128 | exactly the fresh packets are accepted |
| IPC client and monitor worker (`src-tauri/src/ipc/`) | one stream, its unread answers, last known health | requests with a 10 s timeout, a poll each second | daemon, store | a late answer is taken for the next one's | the interface ends up showing what the daemon does |
| Application storage (`src-tauri/src/storage/`) | profile list, vault cache, settings, each in memory and in a file | save, delete, load | commands of the store, file system | commands run side by side, writes fail, crashes tear files | what is shown is what is kept; deletions erase; no secret lost by another's command |
| Store, connection (`state/useVpnStore.ts`) | `connectionState`, `daemonHealth`, prompt, operations under way | connect, disconnect, retry, event listeners | IPC client, views, tray | everything it knows is stale; commands overtake each other | follows the daemon, never hangs, passwords go where they belong |
| Profile dialogs (`components/profiles/*Modal.tsx`) | form, certificate editor, import in progress | import, create, edit, save | store, file readers, timers | results arrive in another dialog than they were asked for in | no mixture of two profiles, no profile overwritten by an import |
| Views and layout (`components/**`) | active view, mini widget, spotlight, filters, sidebar, logs | every handler a control calls | store | each view decides by itself, in five widths | a tunnel can be stopped, one story is told, preferences persist |
| Metrics, log ring buffer | counters, capped list | start/stop, push | orchestrator | stop and start within a sleep | one sampling loop |

`PROJECT.json` lists all of them with what is modelled, and under `hazards` the
places where things can go wrong that tests hardly reach.

## 2. Modules

| Module | Contents |
|---|---|
| `NetworkContract` | What the orchestrator may assume of the network manager: which session the tunnel context belongs to, whether the kill switch is on, whether the host is clean. |
| `NetworkManager` | The Linux network manager with the managers it owns, next to the host state they change. Implements `NetworkContract`. |
| `Orchestrator` | Requests, state transitions, drivers, bridges and monitor tasks. Instantiates `NetworkContract` for every call into the network manager, so that the two modules compose (`OrchestratorUsesContract`): what is shown of the orchestrator holds with the detailed network manager in its place. |
| `ReplayFilter`, `AntiReplay` | The promise of an anti-replay filter, and the two-word window that implements it. |
| `OrderedChannel`, `ReliableChannel` | The ordered channel that TLS relies on, and one direction of the control channel's reliable layer between two peers, which implements it. |
| `VpnStore` | The store's connection state, the IPC client's stream, the poll worker and the daemon behind them. |
| `ProfileStorage` | The store's profiles and settings, the commands on their way, the back end's memory and files. |
| `ProfileCodec` | The conversions a profile goes through: file, form, payload, store, disk, connection request. |
| `ProfileForm` | The dialogs for importing, creating and editing, on top of `ProfileCodec`. |
| `Screen` | What each view claims and which controls it offers, as functions of the state. |
| `AppShell` | The window in use, on top of `Screen`: presses, events, navigation, logs, preferences. |
| `MC*` | Instances for TLC. |
| `*Proofs` | Theorems and their proofs, one module for each detailed component. |

### NetworkManager

Every method of the manager is synchronous and runs under the orchestrator's
mutex, so `setup_vpn_network`, `teardown_vpn_network`, `set_kill_switch` and
`drop_and_restart` (Drop, then a new manager on the host as it was left) are one
action each, built from one operator per sub-manager method, in the order of the
code. The host is part of the state: routes by destination, the blocks of the
nftables chain in the order they were appended, the iptables fallback,
`resolv.conf`, per-link DNS, the IPv6 default route, links. A command in `Failing`
may succeed or fail each time (`Status`); routes succeed or fail one by one.

Abstractions. The two `/1` halves of the default route are one destination.
Deletions (`ip route del`, `nft delete`, `iptables -F`, `resolvectl revert`) succeed.
A rule set is a block that says what its rules depend on, and `BlockVerdict` reads them
in the order of the code: the tunnel's interface, the server's endpoint, DHCP and local
broadcast, the LAN and multicast, WebRTC, the intranet's subnets, established connections.
`Dropped` takes the first match over all blocks in the chain, then the chain's policy.
A failing write of `resolv.conf` may have truncated it. Windows and macOS are not modelled.

### Orchestrator

Clients are tasks that submit requests (IPC connections, the exit path). `connect`
and `disconnect` are split at each await and mutex, and `transition_to` into the
step that reads and validates (`TransitionAccepted`, noted in `pending`) and the
step that stores (`TransitionStore`), since other tasks run in between. A session
is a connect attempt that reached `driver.start` (`StartOpenVpn`, `StartWireGuard`); its task (`Dial`, `DialFails`,
`DialProxy`, `ProxyConnects`, `ProxyRefuses`, `HandshakeDone`, `NetworkConfigured`, `PipelineFails`, `AllRemotesFailed`, `ObeyStop`,
`HandleDropped`) sends events through `chan` to its monitor (`MonitorRecv` ...
`MonitorStore`). `DriverMutexFree` is the active-driver mutex that disconnect holds
while it awaits `driver.stop()`.

Abstractions. One `Connecting` event stands for the engine's several states before
Connected; the bridge's field-by-field writes of the configuration are one step;
the 128-slot broadcast channel never lags; authentication challenges during a
session are left out. `Reconnecting` is in the transition table but no code enters it.

### AntiReplay

A word is the set of its bits, `WordBits` of them (64 in the code), and shifts lose
what leaves the word. `seen` and `verdict` are history variables: the packets
accepted since the last reset, and the latest decision. `check_and_update` repeats
the tests of `check_only` in the code; the model states them once.

### ReliableChannel

Sender and receiver are the two queues of `reliable.rs`, at the two ends of a network
that may lose, repeat and reorder datagrams and acknowledgements. Each handler of the
engine is one step: a datagram is processed, ready chunks are drained to TLS and the
acknowledgement leaves at once (`flush_control_channel`), and any error ends that
side's session (`session.rs` leaves its loop). Acknowledgements that ride on datagrams
of the other direction are separate messages here. Deadlines and back-off are not
measured: at a tick any set of unacknowledged packets may be due. The receiver's own
replies, which could overflow its send queue, belong to the other direction and are
not modelled.

### VpnStore

`connect`, `disconnect` and `retryDaemonIpc` are cut at their awaits: the part before
(`ConnectProfile`, `DisconnectNow`, `RetryDaemonIpc`), the request (`SendRequest`), the
part after (`ConnectReturns`, ...). The stream is locked from request to answer, so a
request is one step, but the commands reach the lock in any order. A request that times
out leaves its answer in `unread`, and the next one reads that. The worker's ping and
status are two steps, its events a queue. `daemon-status` has two listeners whose order
is open. The daemon answers requests as the orchestrator does, seen from outside
(`Handled`: a connect may fail in `driver.start`, a disconnect may end in a refused
transition), and changes its state with its driver's events (`DaemonMoves`), a late
Connecting after Disconnected included; it dies and starts. Requests of one connection are
handled one at a time, so its own polls never meet the Disconnecting of its own
disconnect; another instance that quits disconnects over a connection of its own
(`OtherDisconnect`), and its Disconnecting is there for the polls to see.
A second connection opened after a frame that cannot be decoded is not modelled.
Left out: telemetry, latency pings, log entries, the metrics' contents; the store is
given an abort as a kind of call of its own because its answer changes nothing.

### ProfileStorage

The store changes at once (`AddProfile`, `UpdateProfile`, `ToggleFavorite`, `DeleteProfile`,
`SetKillSwitch`, `UpdateSecuritySettings`) and issues commands it does not await. In the
back end a command passes through its lock sections one by one (`CacheStep`, `VaultStep`,
`ListStep`, `SettingsFileStep`, `SettingsMemoryStep`, `DaemonStep`), each write may fail, leaving
its file as it was or truncated (`fs::write` truncates first), and `Crash` may come at any
point and leave the files that were being written truncated, which the code reads as empty.
A secret is the number of the command that carried it. `dirty`, `killStale`, `deleted` and
`damaged` are history: subjects whose own commands overlapped or failed are excused, because
the code has nothing that orders or repeats them, and so is a file that a failed write
truncated, until the next write of it completes; all others are not.
`daemonKill` is the policy in force with a tunnel: `Connect` captures the policy shown,
`TunnelUp` applies what was captured, and `DaemonStep` changes it only while there is a tunnel.
The split-tunnel rules are stored by the same pattern and left out.

### ProfileCodec and ProfileForm

Credential material is a token that says where it came from (typed or picked in which
session of the form, read from which file, on disk for which profile). The conversions
work on the fields of the code, with its defaults and its `||`. The renegotiation interval
tells `undefined` (`None`), `null` (`Null`, what the back end returns for a missing one) and 0
(`Zero`, what `Number(null)` makes of it) apart. In `ProfileForm` file
reads, the 300 ms timer of an import, a certificate file being picked, re-renders (which
resynchronise the certificate editor) and the user interleave. Name, host, port, transport
(UDP or TCP) and routing policy are copied like the fields modelled and left out.

### Screen and AppShell

`Screen` has one operator per view and layout for its controls and one for its claims,
from the conditions in the JSX, each view with its own reading of the kill switch (the hero
has two cases, the status bar three, the security view enforced or not); `AppShell` lets the user press any control on the screen,
runs the handler up to its first await, and lets events, tray, network adapter, window
size, reloads and the operating system's answers come in between. Texts, styles, sparklines,
clipboard and export are left out. `MaxTweaks` bounds changes of filters, sizes and
settings apart from `MaxActs`, the bound on presses and events.

## 3. Runs

| Run | Checks | Bounds, and why they are enough |
|---|---|---|
| `net_manager` | `RollbackRemembered`, `NoTunnelNoTrace`, `NftBlocksLeaks`, `ImplementsContract` | Three kinds of session (split tunnel, full tunnel, not yet provisioned) on one interface, with and without LAN bypass and WebRTC shield, a user route that collides with a pushed subnet, failing `ip route`, `nft`, `resolvectl` and writes of `resolv.conf`. Any two set-ups can follow each other without teardown, which is where memory and host can part. The chain needs no bound: a block that is already present changes no verdict and is not repeated (see `enable_kill_switch`). |
| `orch_overlap` | `NoOrphanedSession`, `SessionsAccountedFor`, `DisconnectingHasOwner` | Two clients, one of which disconnects, two sessions: every overlap of two connects and a disconnect. |
| `orch_live` | `FailClosed`, `StoppedSessionEnds`, `RequestsAnswered` | Two clients, one session of either driver, every failure (addresses, proxies, pipelines, `wg-quick`), kill-switch requests, weak fairness. |
| `anti_replay` | `WindowExact`, `ImplementsFilter` | Words of 3 bits, ids 0..11: jumps within a word, over one word, over both, and packets older than the window. `MaxRejects` bounds a counter only. |
| `reliable_channel` | `DeliveredPrefix`, `NothingLost`, `AwaitedIsKept`, `ImplementsChannel`, `EventuallyDelivered` | Four packets, window 2, buffer limit 1, two retransmissions: a lost first packet makes the buffer overflow, and both give-up limits are reached. Sessions end, so deadlock is not checked here. |
| `vpn_store` | `DisconnectingIsAwaited`, `PasswordGoesToItsProfile`, `UiFollowsDaemon`, `NoGhostTunnel`, `DisconnectingEnds` | Three profiles, two of which ask for a password; the start-up's auto-connect and one act of the user, the tray or the adapter, so that two operations overlap; one crash, timeout or other instance that quits; one event on its way. It takes more faults for the news of one death to meet the state of another life: `NoGhostTunnel` and `DisconnectingEnds` were also checked with one profile (`PasswordMode <- MCStaticOnly`), with three faults and no act (225,000 states) and with two faults and one act (1.3 million). The application never has to stop or to go on, so deadlock is not checked. |
| `profile_storage` | `SettledIsDurable`, `ConnectUsesShownSecret`, `DeletedIsErased`, `KillSwitchAgrees`, `SecretsOnlyDeleted` | One profile on disk, three commands in flight at once, any write failing with or without truncating its file, connections among the commands, one crash with any set of files torn. Two commands are enough to overlap, the third disturbs them. |
| `profile_form` | `FormIsOneProfile`, `SubmitSurvivesRestart`, `OnlyItsFormChangesAProfile`, `LoadingEnds` | Two files (OpenVPN with both kinds of TLS key, WireGuard), two stored profiles, the form shown twice, imports included: what the first showing leaves behind meets the second. |
| `app_shell` | `StopWithinReach`, `OneStory`, `LogsAreNewest`, `ConsoleShowsLog`, `ConnectsWhatItShows`, `PreferencesSurvive` | Two profiles, one with a prompt, three widths to start from (the others by resizing), a log of two entries, four presses or events and one change of settings, filter or window. |

The type invariant of `AppShell` is checked with its run; those of the other modules are
proved without one.
Each property has a mutant of a mapped definition under which TLC finds it violated.

### Disagreements between code and its comments

Three runs state what a comment says and end in a counterexample:

- `disconnect_rolls_back`: a monitor that has received Connected runs its set-up after
  disconnect's teardown; the daemon rests in Disconnected with the network set up.
- `kill_switch_blocks_leaks`: when `nft` fails the iptables fallback has no DROP rule
  and no jump from OUTPUT.
- `routes_restored`: `network/mod.rs:174` says that teardown "reverts original routes" and
  `routing/linux.rs:225` that it "restores standard network connectivity"; a static route of
  the user's that `ip route replace` overwrote is deleted and not brought back.

### Refuted without a run of its own

These statements are in the modules; put in place of the properties of the configuration
named, TLC finds a counterexample at once.

- `OnlyValidTransitions` (as PROPERTY, `MCOrchestratorOverlap.cfg`): two tasks validate against
  the same state and store one after the other, a pair the table forbids, although
  `state.rs:14` calls the transitions atomic.
- `SetupUsesPushedConfig` (`MCOrchestratorLive.cfg`): Connected is announced before the
  pushed configuration is stored, and the monitor reacts to the first.
- `SetupOnlyEstablished` (`MCOrchestratorLive.cfg`): a failing `wg-quick` is logged and
  Connected is reported.
- `TunnelTrafficAdmitted` (`MCNetworkManager.cfg` with `Requests <- TwoIfaces` and the interfaces
  `"tun0"`, `"wg0"`): after a reconnect on another interface the earlier session's drop rule
  comes first. On one interface it holds.
- `NoTunnelNoTrace` with the same `Requests` and interfaces: the link and the DNS override of the
  first interface are forgotten when a reconnect uses another.
- `RollbackRemembered` (`MCNetworkManager.cfg` with `Failing = {"resolvectl", "resolv_restore"}`):
  when restoring `resolv.conf` fails, its only backup is dropped.
- `SubnetsSealed` (`MCNetworkManager.cfg`): `linux_nft.rs:76` says "Drop any packet destined for VPN
  corporate subnets if not going through the tunnel"; the accept of established connections
  in an earlier session's block comes before the drop of a later one.
- `VaultWriteAtomic` (as PROPERTY, `MCProfileStorage.cfg`): `vault.rs:146` says "Atomic write" above
  an `fs::write` in place, which truncates the file before it writes; a failed write or a crash
  leaves a vault that reads as empty.
- `OpenIntervalStaysOpen` (`MCProfileForm.cfg`): a renegotiation interval left unset is `null` after a
  restart, and submitting the form again sends `Number(null)`, that is 0.

Also seen, without a comment that says otherwise: the session clock keeps running in
Error and Disconnecting; a late Connecting event of an old session can move
Disconnected back to Connecting. `protocol.rs:80` describes the standard kill switch as
"Activates blocking only upon unexpected disconnect", while the daemon treats it like the
strict one; the model follows the code. In the application: a kill switch that is changed
while the connection is being made stays as it was on the daemon, since `set_kill_switch` does
nothing without a tunnel and set-up applies what `connect` sent; a settings file with the mode
"standard", which no control sets, shows "Strict Lock" in the hero and "AUTO DROPOUT" in the
status bar; after the connected profile is deleted the hero names the first of the list as
connected; a daemon that dies after a poll has shown another instance's disconnect leaves
"disconnecting" on the screen until it is back; an abort can reach the daemon before the connect it aborts, and the tunnel
comes up after all; once a request has timed out, every later poll shows the answer to
the one before; clearing a WireGuard key keeps the old one in the vault; a settings change
before the storage is loaded saves defaults; the listener registered first hides the
daemon's return from the one that would resynchronise (a poll does it later); unsaved
edits of the certificate editor are lost when the form is rendered again; the mini widget
takes "reconnecting" for idle and does not show the password prompt; resetting the settings
leaves the operating system's autostart on; a daemon that dies before any poll has met it,
or whose answer to a resynchronisation returns after the event that reports its death,
leaves "connecting" or "connected" on the screen (`NoGhostTunnel` excepts those two); a
refused retry that returns after the worker's event of the daemon's return leaves the
health at offline, since the worker reports changes only.

## 4. Fairness

`Orchestrator!FairSpec` assumes weak fairness of each client's steps after a request is
submitted, of each session's own steps and of each monitor: tokio schedules runnable
tasks, `select!` polls all its branches, and connects have a timeout of the operating
system. Users owe nothing (requests are not fair), nor does the network (no handshake
need complete, no pipeline need fail), nor a proxy: its answers are awaited without a
timeout, so `StoppedSessionEnds` is stated of sessions that no proxy keeps for ever. That a
write to a TCP stream whose peer reads nothing ends is assumed. `ReliableChannel!FairSpec` assumes that the
session's 50 ms ticker keeps polling each unacknowledged packet; datagrams are never
owed delivery. `VpnStore!FairSpec` assumes that the worker keeps polling (a loop with a
sleep), that events are delivered, that a request is sent and its promise resolves (the
client's timeout guarantees it), that start-up finishes, and that another instance's
disconnect is completed by the daemon (`RequestsAnswered` of the orchestrator); the user, the
tray, the adapter and otherwise the daemon owe nothing. `ProfileForm!LiveSpec` assumes that a file read ends,
with its text or an error, and that a timer fires.

## 5. Theorems

All hold for every value of the constants that satisfies the named assumptions.

- **NetworkManagerProofs**. `NetworkTypeCorrect`. The inductive invariant is
  `Remembered` = `TypeOK /\ RollbackRemembered`, the latter a conjunction per manager:
  routes, kill switch, IPv6, DNS. It is inductive because each manager's memory grows
  with the host change it records; `RollbackIsRemembered`, `NoTraceWithoutTunnel` and the
  refinement `NetworkImplementsContract` follow. They assume `Restorable`: reading
  and restoring `resolv.conf` do not fail. Any other command may fail, and any
  requests and sessions are allowed, so these go beyond the run. `NoTraceWithoutTunnel`
  also assumes `OneInterface`, since links and their DNS are forgotten otherwise (above).
  `ChainBlocksLeaks` (no assumption beyond the module's) is about the order of the rules
  in a chain that sessions keep appending to. `Enforced` says that while nft accepted
  every rule set the chain contains the rules of the tunnel the switch is wanted for and
  has its policy. A block accepts on the physical interface what it exempts and established
  connections, so for any other packet the first block that decides drops it
  (`FirstMatchDrops`); that there is a first one is `Least`, the well-ordering of the naturals.
- **OrchestratorProofs**. `Core` = `TypeOK /\ TasksInStep` (a task about to store a state
  has validated the one its request calls for) carries the rest. `KillSwitchFailsClosed`
  follows from the contract's steps. `DisconnectingIsOwned` needs that only disconnect
  validates Disconnecting, and that a disconnect leaves its last step by storing
  Disconnected. `SessionsNeverOrphaned` follows who holds a session from its start through
  `active_driver` to the disconnect that takes it. `SessionsHandedOn` is the other half:
  nobody holds a session twice, one that was told to end is held by nobody, and its monitor
  is there or will be spawned by the connect that started it, also when a disconnect has
  stopped the session first. It needs `Unborn`: a session that never started is nowhere.
  Liveness of stopping and of requests rests on it. `OrchestratorUsesContract`: every step
  is a step of `NetworkContract` or leaves its variables alone.
- **AntiReplayProofs**. `WindowExact` is inductive with `TypeOK`. The lemma `AdvanceMarks`
  shows that the three ways of shifting two words all move every mark by the advance;
  `OffsetPlace` handles division and remainder. From there `DecisionExact`,
  `NeverAcceptedTwice` and the refinement `RefinesFilter`. The width is a parameter, so the
  code's 64 is covered.
- **ReliableChannelProofs**. `IInv` adds to the properties that every copy of a packet
  carries the chunk written with its id (`Genuine`), that counters and delivered
  chunks agree (`InStep`), and that an acknowledgement under way names a packet the receiver
  holds (`AcksHonest`): without the last, forgetting an acknowledged packet could not be
  justified. `DeliveryInOrder` and `NoPacketLost` follow. `AwaitedStaysKept`, the safety half of
  `EventuallyDelivered`, needs in addition that the buffer never holds the packet waited for
  (`GapAhead`, which draining after each delivery restores): so a packet that was not
  delivered cannot have been acknowledged. `ImplementsOrderedChannel` is the refinement: what
  was delivered is the chunks with the ids below `next_expected_id` (`DeliveredUpto`), a
  datagram delivers the next ones or nothing, and an end whose session is over does neither.
- **VpnStoreProofs**. `StoreTypeCorrect`: the messages between store, client, worker and daemon
  keep their types; that a new operation finds a free number needs that only finitely many
  are under way (`FreeNumber`). `PasswordsStayWithTheirProfile`: `PasswordGoesToItsProfile` is
  inductive together with `TypedForPrompt`, what is typed was typed for the profile shown,
  which every way of opening a prompt re-establishes. `DisconnectingAlwaysAwaited`, the safety
  half of `DisconnectingEnds`: `DisconnectingIsAwaited` needs that as long as no other instance has
  interfered no answer, event or poll result on its way says "disconnecting" (`NoEcho`: the
  daemon handles the requests of a connection one at a time, so its own Disconnecting is over
  before the next poll is answered), and that nothing else brings the state back after its
  disconnect has returned.
- **ProfileStorageProofs**. One inductive invariant, `IInv`, carries all six theorems. Of a
  profile that is not excused, `ProfileInv` says where each copy of it stands: before the
  store is loaded nothing is on its way and the snapshot is right (`NotLoaded`); afterwards
  at most one command is on its way for it, which carries what the library shows, and
  without one the lists agree (`Loaded`, `Agree`); its secret is on its way to the cache or
  there (`SecretKept`); a deleted one is gone or its deletion is on its way (`Erased`).
  `SettingsInv` and `KillInv` say the same of the settings and of the daemon's policy.
  `OnlyDeletedMissing` (the cache lacks a secret of the vault file only if that profile
  was deleted) is what makes writing the whole cache harmless, and repairs a vault that a
  failed write truncated: `ConcurrentSavesKeepSecrets`.
  The excuse has to be part of the argument: without it, two saves of one profile that
  overtake each other refute `SettledIsDurable`. The user's operations are reduced to two
  (`SaveOp`, `DeleteOp`), and the lemmas about lists say how adding, replacing and
  removing an entry change which ids and marks a list has. Any number of profiles, commands
  and crashes.
- **AppShellProofs**. `ShellInv` conjoins the types of the parts (`StoreOK`, `ViewOK`, `PrefOK`,
  `LogViewOK`), `CompactClear` (the mini widget and the spotlight are never open together),
  `Sync` (memory holds what `localStorage` would bring back) and `LogKept` (the log's
  entries are numbered without a gap up to the last one written). `StopAlwaysWithinReach`
  needs `CompactClear`: one press uncovers the window (`Uncover`), one leads to the dashboard at
  every width (`DashboardNear`), whose hero has the button (`HeroStops`). `PreferencesKept` is
  `Sync`. `ConnectsShown` needs that a prompt, and every control, names a listed profile.
  `WindowTellsOneStory` needs that the controls set the kill switch to "off" or "strict" only
  (`TwoModes`, a part of `StoreOK`): then each view's claims are `Honest`, and honest claims
  agree. `ConsoleIsExact` is about the console's list, which has in place k
  the matched entry with k - 1 newer ones: each place is filled by exactly one position of the
  log (`PlacesFilled`), because ranks map the matched positions one to one to the places and
  a finite set of that size leaves none empty. Any profiles, log limits and sidebar limits; ids are distinct and the
  list is not empty at first.
- **ProfileFormProofs**. First the conversions: what each yields for any profile or form of its
  type (`FormOfTyped`, `ParseTyped`, `ApplyTyped`, `KeptSays`), and `KeptSurvives`, the round trip
  from a form through the store, the metadata file and the vault and back, the unset
  renegotiation interval aside (`FormBesidesInterval`). It is false of
  arbitrary profiles (an OpenVPN profile with a WireGuard key would lose it), so `Coherent`
  is assumed of the profiles that are there at the start, since they were saved by this code,
  and proved of all later ones (`LibInv`). `FormInv` says of the form, open or closed, that each
  field is `Own` to the profile shown, and `CertInv` the same of the certificate editor, which
  lies over an OpenVPN form only: an import that arrives while the editor is open must be an
  OpenVPN one (`HubInv`, since WireGuard files are refused before the timer starts).
  `FormTypeCorrect`, `FormShowsOneProfile`, `SubmittedSurvivesRestart` and `OnlyOwnFormChanges` follow,
  for any files, profiles and number of sessions.

Only model-checked: the liveness properties (`StoppedSessionEnds`, `RequestsAnswered`,
`EventuallyDelivered`, `UiFollowsDaemon`, `NoGhostTunnel`, `DisconnectingEnds`, `LoadingEnds`),
because fairness and ENABLED are beyond the prover; what they rest on is proved where it can be
stated as an invariant (`AwaitedIsKept`, `SessionsAccountedFor`, `DisconnectingIsAwaited`). Every
invariant, action property and refinement of the passing runs is stated by a theorem.

## 6. Not modelled, and the plan

Next, in this order:

1. `ProtocolEngine`: handshake states, push accumulation, key slots, and the data channel's
   use of the anti-replay window before authentication; with `ReliableChannel` beneath it.
2. `ClientSession`: fail-over, the bounded event channel and its lagging bridge.
3. The metrics sampling loops.

Left out for good: ciphers and key derivation, TLS, byte layouts, sockets and TUN devices,
the configuration parser's text handling, the Windows and macOS managers, rendering, texts
and the components that no view mounts.
