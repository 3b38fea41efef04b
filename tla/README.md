# Cubicraftia: a verification development

TLA+ modules of the parts of Cubicraftia whose correctness depends on the order
in which things happen: the Go signaling hub, the multiplayer session of the
Godot client (joining, version gate, hand-over to a new host, keepalive), the
files of a saved world, the inventory with its chests, crafting grids and death
piles, the scripts that make the game's art files, and the parental consent that
guards the hub.  TLC checks the modules on small instances; TLAPS proves the
most important properties for every value of the constants.

Paths below are relative to the repository.  `hub/` abbreviates
`signaling-server/internal/hub/`, `network_manager.gd` and `session_registry.gd`
are in `src/autoload/`, `world_save.gd` is in `src/autoload/`,
`world_save_io.gd` in `src/persistence/`, `inventory.gd` in `src/autoload/`,
`death_pile.gd` and `dropped_item.gd` in `src/world/`.

Contents: 1 The system, 2 The modules and the code, 3 The runs, 4 Fairness,
5 The proofs, 6 What the checks found, 7 What is not modelled, 8 Plan,
9 Running it.

## 1. The system

Cubicraftia is a brick-building sandbox for one to four friends.  One player
hosts a world and simulates it; the others connect to the host over WebRTC data
channels.  A small Go service, the *signaling hub*, lists sessions and relays
the offers, answers and ICE candidates with which a WebRTC link is set up; it
never sees game state.  Accounts, friends, blocks and consents are rows of a
Supabase database that the hub and the clients reach over HTTP.  When the host
disappears, the players that remain elect one of themselves and go on.

```
   player A (host)  <==== WebRTC: RPCs, replicated events ====>  player B
      |  \                                                      /   |
      |   `--- WebSocket: publish, offer, answer, ice ---------'    |
      |                          |                                  |
   world files            signaling hub  --HTTP-->  Supabase (blocks, consents)
   (SQLite)               (Go, in memory)
```

### 1.1 Components

| Component | State | Operations | Interacts with | What is hard | What makes it correct |
|---|---|---|---|---|---|
| **Signaling hub** `hub/hub.go`, `session.go`, `relay.go`, `blocks.go` | table of connections by account, table of published sessions with a player count, per connection a bounded send channel | connect, replace, read loop with seven message types, relay, count a player, change host, prune | players over WebSockets; Supabase over HTTP for two gates of an offer | two goroutines per connection and a pruner over two mutexes; state read before an HTTP call and used after it; a channel closed under a sender; a bounded channel whose reader is gone | a player that is served is reachable; never more than four counted; a dead connection ends; unused sessions leave the list |
| **Parental consent** `hub/consent.go`, `supabase/migrations/006_*.sql` | one row per under-13 account, metadata in the account | request, confirm, revoke, the gate `isConsentRequired` | e-mail links, database, offers of the hub | fetch, decide, patch over HTTP in several requests at once; each call may fail or lose its answer | a revocation stands; a valid link works |
| **Multiplayer sessions** `network_manager.gd` | a ten-valued state, the multiplayer peer, version gate, three one-shot timers, the players shown | host, join, version report, kick, leave, keepalive, failover, reconnect | other players' RPCs, the hub, SessionRegistry, Inventory | RPCs, openings and closings of links in any order, notices lost with their link, awaits, timers of earlier attempts | nobody hangs; no other build is let in; a hand-over only replaces a host that is gone; the survivors agree |
| **Session registry** `session_registry.gd` | peers by id, versions, round-trip times | register, unregister, elect | NetworkManager of the same player | every player elects from its own copy | same answer everywhere |
| **World persistence** `world_save.gd`, `world_save_io.gd` | SQLite file, staged copy, three backups, set of dirty chunks | open with promotion and fallback, checkpoint, rotation, upserts | Inventory, StudGrid, the file system | the process may end between two steps; files half written, missing or damaged; a step that fails while the rest goes on | what a checkpoint saved is found again; every change is marked; the best backup is tried first |
| **Inventory** `inventory.gd` | slots, hotbar, crafting grids, chests, event journal | one event kind per gesture, replicated from the host | NetworkManager, WorldSave, chests, death piles | events that succeed partly; retries; several replicas | items are neither lost nor made |
| **Chests** `chest_entity.gd`, `chest_panel.gd` | kept in Inventory by position | open, move, lock, double chest | Inventory | positions that share a key | contents follow the chest |
| **Death piles, dropped items** `death_pile.gd`, `dropped_item.gd` | items to be given back | pick up by ADD | Inventory | ADD may place a part | what was dropped is picked up once |
| **Recipes, workbench** `src/crafting/` | a table | match, autofill | Inventory | recipes with an ingredient twice | a match takes what it lists |
| **Friends, invites, blocks, reports** `friends_client.gd`, `supabase/migrations/` | HTTP client; tables with row policies | request, accept, redeem, block | database, hub gates | an invite redeemed twice | used once |
| **Stud grid, fluids, dynamite** `stud_grid.gd`, `fluid_sim.gd`, `dynamite_handler.gd` | cells by chunk; a queue of cells to update | place, break, flow, explode | WorldSave (dirty chunks) | a queue with a budget per tick | the fluid settles |
| **World clock, beds, spawning, crops, weather** | time of day, respawn point, counters | tick, sleep, spawn | WorldSave, players | skipped or doubled days | one day boundary per day |
| **Chunk codec, loot, profanity filter, username policy, deep links, auto update** | none or one value | pure functions | callers | - | inverse of each other, bounds |
| **Art scripts** `scripts/`, `scripts/triposr/`, `scripts/blender/`, `tools/` | files in the asset directories, a cache of sheets, a licence beside each file | crop a sheet, generate, reconstruct a mesh from a picture, recolour | each other, through the files | any order, two terminals, failures in the middle, files written by two scripts | a licence names the maker; a batch publishes its own result; nobody overwrites another's file |
| **Terrain, avatar, mobs, user interface, build** | engine objects | rendering, physics, input | the engine | continuous | - |

`PROJECT.json` lists all 34 components with their files and status.

### 1.2 Where they meet

* A player's `NetworkManager` talks to the hub through the messages publish,
  offer, answer, ICE, update_host.  In the modules the meeting point is small:
  `SignalingHub` models every message as the hub handles it, whoever sends it;
  `NetworkManager` reduces the hub to `published`, the host that the hub names,
  and to the action `Open`, an offer and answer that came through.
* `NetworkManager` calls `SessionRegistry` in every handler: `NetworkManager`
  EXTENDS `SessionRegistry` and every player has a registry of its own.
* The hub's gates of an offer read the database: `SignalingHub` takes any answer
  (clear, hit, error) at `BlockGate` and `ConsentGate`; `Consent` models how the
  row behind the second gate comes to be what it is.
* The inventory's builders and chests are rows of the same database:
  `Inventory` writes them (`Flush`, `StoreChests`), `WorldSave` counts them under
  `ChangeMeta`.  A death pile and a dropped item reach the inventory by the same
  ADD event as mining does.
* Terrain and brick changes reach `WorldSave` as `ChangeChunk`, everything that
  is written without a checkpoint (chests, clock, snapshots) as `ChangeMeta`.

## 2. The modules and the code

| Module | Role |
|---|---|
| `SessionBook` | abstract: what the hub promises of the sessions it lists |
| `SignalingHub` | the hub; implements `SessionBook` |
| `MCSignalingHub` | instances: symmetry, and a next-state relation restricted to some kinds of message |
| `SignalingHub_proofs` | types, peer cap, client table, refinement |
| `SessionRegistry` | the registry and its election, as operators on a record |
| `NetworkManager` | the session state machine of every player |
| `MCNetworkManager` | instances: builds, attempts and unstable links |
| `NetworkManager_proofs` | types, players shown, version gate, promotion, connection |
| `Keepalive`, `Keepalive_proofs` | pings, pongs, warnings, time-outs |
| `WorldSave` | the files of a world |
| `MCWorldSave`, `WorldSave_proofs` | instance; types, checkpoints, dirty chunks, backups |
| `Inventory` | slots, crafting grids, chests, piles, the event handlers, the writer |
| `MCInventory`, `Inventory_proofs` | instance with three recipes; types, items in and out, the journal, what is written, unique match |
| `AssetScripts` | every art script as steps on files |
| `AssetPipeline`, `MCAssetPipeline` | scripts of any table run by somebody in several terminals; the instance is the table of `AssetScripts` |
| `AssetPipeline_proofs` | types, licences, what a batch publishes |
| `ArtGeometry`, `ArtGeometry_proofs` | the arithmetic of cells, frames, studs and the atlas |
| `Consent` | the consent of one account |

`PROJECT.json` maps each definition to its lines.  In each module an operator
whose comment begins with *Mutant* is a deliberately wrong version of the
definition after it and is used by no specification: replacing the definition
by it makes the property named in `PROJECT.json` fail, which shows that the
property does depend on that piece of code.

### 2.1 SignalingHub

An action is the code between two points where another goroutine may run: the
release of a mutex, an HTTP call, a channel operation that may block.

| Code | Module |
|---|---|
| `Hub.clients`, `SessionRegistry.sessions` | `clients`, `sessions` |
| `Client.uid`, `sessionID`, `conn`, `send` | `uid`, `joined`, `link`, `buffered` and `closed` |
| handler goroutine and its locals | `pc`, `loc` |
| write pump | `pump` |
| `HandleConn` up to the read loop, with the closing of a replaced channel | `Connect` |
| `HandleConn` after the loop | `ReadError`, `CleanUp` |
| `client.send <- ...` of a reply (blocks) | `SendReply`, one message per step |
| write pump's loop | `PumpTake`, `PumpWrote`, `PumpFails`, `PumpStops` |
| `handleMessage` by type | `Malformed`, `Register`, `Publish`, `Unpublish`, `Offer`, `AnswerOrIce`, `UpdateHost` |
| rest of an offer | `BlockGate`, `ConsentGate`, `CountPeer` |
| `relay` | `Route` (look up), `Deliver` (send or drop; panic on a closed channel), `Nack` |
| rest of update_host | `CheckNewHost`, `SetHost`, `NotifyNewHost` |
| `Run`, `PruneIdle` | `Idle` (time passes), `PruneIdle` |

A send on a closed channel is a run-time panic that `net/http` recovers: the
handler ends without its clean-up, which is not deferred (`panicked`).  Message
payloads are left out; a send channel is the number of messages in it.

### 2.2 SessionRegistry and NetworkManager

`chan[<<a, b>>]` is what player b has still to process of its link with a: the
opening, RPCs, the closing, in order, because the RPCs of the session are sent
reliably.  A link that is closed may lose what was under way, though not the
opening; `setting.flushing` says whether a closing link delivers, loses, or
may do either.  `setting` is chosen once, in `Init`, among the constant
`Settings`: how often each player may join, how many events are under way, which
links break by themselves, and the flushing.  One action is one handler of one player: GDScript runs on one
thread, so a handler is atomic up to an `await`.  The two handlers that await a
frame (`kick_peer`, `_reject_connecting_peer`) are split there:
`KickPeer`/`VersionReported` put the peer in `dropping`, `DropAfterFrame` is the
rest.

| Code | Module |
|---|---|
| `start_host`, `start_peer`, `begin_graceful_disconnect` | `StartHost`, `StartPeer`, `Leave` |
| `_on_peer_connected` on the host / on a client | `PeerOpened` / `HostOpened`, `HostTells` (players relayed by the engine) |
| `_handle_reported_protocol_version`, `_sync_peer_protocol_version` | `VersionReported`, `HostTells` |
| `kick_peer`, `_disconnect_peer`, `_on_peer_disconnected` | `KickPeer`, `DropAfterFrame`, `PeerLeft`, `DisconnectPeer` |
| `_check_peer_timeouts` (its counters are in `Keepalive`) | `KeepaliveTimeout` |
| `broadcast_event`, `_receive_replicated_event` | `BroadcastEvent`, `EventReceived` |
| `_receive_connection_rejected`, `_receive_kicked_notice` | `TurnedAway` |
| `_receive_snapshot_reset` | `SnapshotReceived` |
| `_on_peer_disconnected(1)`, `_on_host_disconnected` | `HostClosed` |
| `_on_connecting_timeout`, `_on_failover_timer_timeout`, `_on_reconnect_grace_timeout` | `ConnectingTimeout`, `FailoverTimeout` (with `Promote`, `Await`), `GraceTimeout` |
| `_do_failover_waiting_reconnect` on `update_host` | `NewHostAnnounced` |
| WebRTC, ICE, process and network failures | `Open`, `LinkBreaks`, `Crash` |

The engine reports the loss of the host by two signals whose order it chooses;
`HostClosed` takes either order.  `multiplayer.get_unique_id()` of a player
without a link may be its own id or 1; `FailoverTimeout` takes either.

`SessionRegistry` keeps the peers in the order of their registration, because
the election sorts by round-trip times that are all INF: `absf(INF - INF)` is
NaN, both comparisons are false, and the order of the dictionary decides.  That
they are INF follows from the source: a peer's average starts at INF
(`session_registry.gd:113`), and every measurement makes it `INF * 0.9 + rtt * 0.1`
(`:160`), which is INF again.

### 2.3 Keepalive

`_keepalive_miss_count`, `_laggy_peers` and the signal last shown; pings and pongs are counts of messages under way that may be
lost (`Lose`) and are answered in any order (`Answer`, `Pong`).  `Tick` is the
part of `_process` that runs once a second, for all peers: ping, count, warn,
drop.

### 2.4 WorldSave

A file is absent, partial, or a content: for every chunk and for the rest of the
database (`Meta`) the number of changes it holds.  `pc` is where the single
thread is; between any two steps the process may end (`Crash`).

| Code | Module |
|---|---|
| `open_world`, `load_canonical_or_bak` | `OpenWorld`, `RemoveCanonical`, `PromoteAtomic`, `OpenCanonical`, `CanonicalRefused`, `TryBackup`, `RestoreBackup` |
| `_on_stud_placed`, `_on_stud_removed`, `mark_chunk_dirty` | `ChangeChunk` |
| `set_world_meta`, `save_chest`, `save_world_snapshot` (no checkpoint) | `ChangeMeta` |
| `checkpoint`, `_save_chunk`, `close_world` | `BeginCheckpoint`, `SaveChunk`, `Stage`, `EndCheckpoint`, `ReopenFails` |
| `atomic_write_sqlite` | `CopyToTmp`, `RenameTmp` |
| `rotate_backups` | `MakeRoom`, `ShiftBackup`, `OpenFirstBackup`, `CopyToFirstBackup` |
| disk | `Damage` |

The constant `Failing` lists what may fail: the statement that writes a row
(`_save_chunk` does not look at its result, and the checkpoint clears the mark all
the same), staging, promotion, reopening, the medium.  `mishaps` remembers what did
harm to the files, at most `MaxMishaps` kinds of it, and each property names the
mishaps it excludes.  Reopening is not among these: a checkpoint whose database
cannot be opened again only gives it up (`_db = null`), the files are as they should
be.  This is `pc = "lost"`: the chunks in memory and their marks stay, bricks are
still placed and marked, nothing is saved any more, and `open_world` may be called
again.  `saved` is history: the content at the last checkpoint that
succeeded.

### 2.5 Consent

Each request is a goroutine that fetches the row, decides and patches; between
its calls other requests run.  A call may fail before it has an effect or after
it, and one that the client gives up after its five seconds may be carried out
later (`late`, `CarriedOutLate`), when others have changed the row.
`confirm[v]` and `revoke[v]` are the handlers at work, `meta` the flag in
the account's metadata.  `Storable` is the constraint of migration 006: the database
refuses a patch as a whole (`Accepted`) where a column does not take its value.

### 2.6 Inventory

One running game: the builders it knows (its own, and those whose events the
host replicates, which run through the same handlers), the two crafting grids
all of them share, the chests that are placed.  A slot is a kind of item and a
count; an event is an action that holds the whole of `apply_event`, its tail
(journal, marking, timer) being `Accept`.  The engine runs one handler at a time.

| Code | Module |
|---|---|
| `_inventories`, `_chests`, `_floating_crafting_grid` | `held`, `placed` |
| `_recipes_known`, `_next_seq`, `_dirty_builders`, `_persist_timer` | `known`, `seq`, `dirty`, `timer` |
| rows of the database | `stale` (builders whose blob is out of date), `disk` (chests) |
| `_apply_add`, `_apply_remove` | `AddItems`, `RemoveItems` (with `Poured`, `Drained`) |
| `_apply_move`, `_apply_swap`, `_apply_split`, `_apply_single_take` | `Move`, `Swap`, `Split`, `SingleTake` |
| `_apply_craft`, `_apply_craft_autofill` | `Craft`, `Autofill` (with `Matches`, `Consumed`, `LaidOut`, `PaidFor`) |
| `_apply_death_drop`, death pile | `Die`, `Collect`, `Despawn` |
| dropped item | `Drop`, `PickUp`, `Settle` |
| `register_chest`, `_persist_chest` | `RegisterChest`, `StoreChests` |
| `_flush_persistence` (a world is open) | `Flush` |

An addition or a removal visits the slots in the order of the code's loops; slot
i gets what the slots before it leave (`Share`), the stacks of the kind first
(`InStacks`) and the empty slots then (`InFree`).  What the slots up to i get is
a sum, `Upto`, written as a recursive function of the index so that it can be
proved about.

Two things are simpler than the code.  `Flush` may happen at any moment after an
event has started the timer, or never; in the code every event starts the 30 s
again, so when it fires depends on how long nobody plays, and no property depends
on it.  A cell of a grid where auto-fill lays nothing is an empty slot; in the code
it is a dictionary without keys, and a swap that touches it ends in an engine error
(`inventory.gd:1162`) instead of exchanging it.

`spilled` is history: builders an addition changed without being accepted.  The
behaviours the code has and its comments do not, such as a stack that is added in
part and kept whole, are in the actions as they are.

### 2.7 The art scripts

`AssetScripts` writes every script as a sequence of items, each a sequence of
steps on files: open a sheet, need a file, save, copy, derive, remove, write a
licence, each with what happens when it fails (`abort`, `next` item, or go `on`).
Files are named by group, since the files of a group are treated alike.  The
content of a file in `AssetPipeline` is its provenance, the scripts it went
through.

`AssetPipeline` runs any table of scripts: `Program` and `WorkFiles` are its
constants, and the run gives them the table (`AllScripts`) and the meshes that
TripoSR leaves for a batch (`BatchWork`).  Four assumptions say what the code of
the scripts has in common, and TLC evaluates them on the whole table:
`ProgramAssumption` (items are not empty and deal with files that some script
makes), `LicenceAssumption` (a licence is written after the file, in the same
item, by every script that writes licences for this file; where it is written
once, no other script does), `CopyAssumption` (a script copies what it alone
makes) and `WorkAssumption` (a batch removes its work file, has it made, looks
for it and publishes it).

| Code | Module |
|---|---|
| a crop script's loops over sheet and cells | `CropHud` etc., built of `Crops`, `Labelled` |
| `batch_creatures.sh`, `batch_from_user_art.sh` | `BatchCreatures`, `BatchFromUserArt` |
| generators run in Blender, with their `try` | `GenerateBricks` etc., `Caught` |
| somebody runs, stops and reruns them | `Start`, `Stop`, `Fail`, `Look`, `Change`, `WriteLicence` |
| pixel arithmetic of the crops | `ArtGeometry`: `Edge`, `Span`, `Scaled`, `PasteAt`, `CentreCrop`, `CentreSquare` |
| studs and anchors, slope faces, atlas | `ArtGeometry`: `StudAt`, `StudsBuilt`, `Exported`, `Anchors`, `SlopeFaces`, `Slot` |

Two scripts that write the same file are not run at the same time (guard of
`Start`).  This is an assumption on the person who starts them, as everything about
terminals is (`Idle`, `Start`, `Stop`); no code prevents it.  A file that is
written is whole: a failing write leaves the old one (`Fail`), and truncated
pictures or meshes are not modelled.  `MCAssetPipeline` also has TLC evaluate two
facts about tables: the generator paints each tile where `main_scene.gd` looks
for it, and the slope bricks are closed surfaces.

## 3. The runs

State counts are distinct states; all runs together take about fifteen minutes.

| Run | Instance | Properties | States |
|---|---|---|---|
| `SignalingHub` | 2 players, 1 session, 2 connections, send buffer 1, cap 2; every message | `TypeOK`, `PeerCapRespected`, `RegisteredChannelOpen`, `ServedUntilReplaced`, `ImplementsBook` | 2.0 M |
| `HubLiveness` | 1 player, 2 connections; malformed, publish, offer, update_host; fairness | `ReplacedConnectionEnds`, `UnusedSessionPruned` | 376 k |
| `HubGhostEntry` | 2 players, 3 connections, every message | `EveryEntryServed` (violated) | - |
| `Joining` | two settings: 3 players, one with an older build, one attempt each, one event under way; 2 players, three attempts, every link may break by itself.  Closing links may lose what they carry | `TypeOK`, `PlayersShownRegistered`, `GateHolds`, `PromotedOnlyWhenCutOff`, `ConnectedUntilToldOrLost`, `BackOnlyWithLink` | 744 k |
| `SessionLiveness` | 3 players, one with an older build; closing links deliver; fairness | `HandoverOnlyWhenHostGone`, `OtherBuildLeaves`, `ConnectingResolves`, `FailoverResolves` | 33 k |
| `ElectionSplit` | 3 players with the same build | `SurvivorsAgree` (violated) | - |
| `Keepalive` | 2 peers, the code's thresholds 3 and 6, two pings and two pongs under way; fairness | `TypeOK`, `WarningIsTrue`, `DroppedOnlyAfterWarning`, `SilentPeerDropped` | 2.9 k |
| `WorldSave` | 2 chunks and the other tables, one change of each, two backups; reopening may fail, and any one of: rows, staging, promotion, medium | `TypeOK`, `CheckpointSurvives`, `DirtyCoversChanges`, `BackupsOrdered`, `OpenedIsNewest` | 3.2 M |
| `AssetPipeline` | two terminals; two settings: any two runs of any scripts, and four runs of the chain from a crop to a creature's mesh | `TypeOK`, `LicenceNamesMaker`, `PublishesItsOwn`, `NothingElseOverwritten` | 393 k |
| `Inventory` | 2 builders with 2 and 1 slots, grids of 1 and 2, a chest of 1; stacks to 2, 4 events, 3 items handed out, 3 recipes | `TypeOK`, `CleanIsSaved`, `ChestsOnDisk`, `NothingFromNothing`, `NothingVanishes`, `NothingUnjournalled` | 105 k |
| `ItemsMultiplied` | the same as `Inventory` | `NothingMultiplied` (violated) | - |
| `ConsentRefused` | one account, 2 confirm and 2 revoke requests at once, the columns of migration 006 | `ValidLinkConfirms` (violated) | - |

### 3.1 What each property says

*Hub.*  `PeerCapRespected`: no interleaving of offers, re-publications and
prunings counts more players into a session than the hub allows, although the
maximum of an offer was read two HTTP calls before the count.
`RegisteredChannelOpen` and `ServedUntilReplaced` are the two halves of a
correct client table: the connection registered for a player can be sent to, and
a connection that is being served and was not replaced *is* registered, whatever
the old handler of a player who reconnects does in its clean-up.
`ImplementsBook`: the list of sessions refines `SessionBook`; a session's
count goes up by one at a time, survives a change of host, and a session leaves
as a whole.  `ReplacedConnectionEnds`: the two goroutines of a replaced
connection whose socket is down end; this is not obvious because a handler blocks on
its own full channel when its pump has gone.  `UnusedSessionPruned`: what stays
listed for ever is relayed through for ever.

*Sessions.*  `PlayersShownRegistered`: a client shows the players its registry
holds, over every order of openings, relayed arrivals, closings and retries, and
either order of the two loss signals.  `GateHolds`: outside a promotion no host
announces a player with another build.  `PromotedOnlyWhenCutOff`,
`ConnectedUntilToldOrLost`: the one-shot timers of an earlier attempt, which the
code never stops on leaving, neither promote a player that has joined again nor
end its new session.  `HandoverOnlyWhenHostGone`, `OtherBuildLeaves`: for links
that deliver what was sent before they close.  `BackOnlyWithLink`: whoever
becomes connected has the link to the host it knows, also when the snapshot of a
new host arrives after the grace timer, a kick or a broken link.
`ConnectingResolves`,
`FailoverResolves`: an attempt to join and a wait for a new host end.

*Keepalive.*  `WarningIsTrue`: although the code shows the warning only in the
tick in which the count *equals* the threshold, it is on exactly while the count
is at or above it.  `DroppedOnlyAfterWarning`, `SilentPeerDropped`: nobody is
dropped without a warning, and a silent peer is.

*World.*  `CheckpointSurvives`: unless staging, promotion or the medium failed,
what the next start opens is whole and holds all that the last completed
checkpoint saved, wherever the program stopped, also in the middle of a later
checkpoint or of a promotion.  `DirtyCoversChanges`: unless the statement that
writes a row failed, a chunk that differs from its row is marked, through checkpoints
that are cut short, databases that are given up and worlds that are reopened.
`BackupsOrdered`: a rotation cut short, or several, never puts an older backup
before a newer one.  `OpenedIsNewest`: where the start falls back to the
backups, the one it opens is the newest whole one, after rotations cut short in
between too.

*Inventory.*  `NothingFromNothing`, `NothingVanishes`: over every order of
drags, splits, right-clicks, crafts, deaths and pick-ups, by two builders who share
grids and a chest, the number of items of a kind changes only by the steps that
are meant to change it, by no more than these say, and by the few ways in which
the code does create or lose items, each of them named in the property with its
condition (section 6).  `NothingMultiplied` is the first of the two without those
ways: what the comments of auto-fill and of the pile promise, and the code breaks.  `NothingUnjournalled`: what is refused leaves no trace, so
that the journal tells all; the one exception is an addition that fits in part.
`CleanIsSaved`, `ChestsOnDisk`: nothing that changed is forgotten by the writer.

*Art.*  `LicenceNamesMaker`: the licence beside a file names the script the file
comes from, over reruns, overlaps of scripts, and failures.
`PublishesItsOwn`: a batch publishes as a creature's mesh what it has made of
this creature's picture in this run.  `NothingElseOverwritten`: beyond ten
known pairs, no two scripts write the same file.

*Consent.*  `ValidLinkConfirms`: a confirm page that has found a valid link can record it.

### 3.2 Bounds, and why they are enough

* `Conn` bounds the number of connections ever made.  Two are a player that
  reconnects, or two players; the hazards of the client table need no third.
  The panic of `HubGhostEntry` needs three: a sender, a target and the
  connection that replaces it.  The proofs hold for any number.
* `SendBuffer = 1` (64 in the code) makes the full channel, on which replies
  block and relays drop, a common case.  `PeerCap = 2` (4 in the code) makes the
  full session one.  Sessions share nothing but the mutex, so one is enough.
  `maxPeers` of a publication runs over 0 to one more than the cap.
* Three players are a host, a survivor that waits and one that is elected, or
  two that conflict.  `setting.joins` and `setting.events` bound what a player
  may do by itself; three attempts are the session a stale timer comes from, the one it
  might disturb, and one more.  `FirstHost` alone calls `start_host`, and a
  player that has hosted does not join again.
* `MaxFlight` is two, so that a recovery can be answered twice; a ping beyond
  it is lost, which the channel may do at any time.
* Two backups (`Keep`, three in the code) have a first, a last and a shift
  between them.  Two chunks let a checkpoint stop between two.  One change of
  each item is what distinguishes before from after.  `MaxMishaps = 1` allows one kind
  of failure in a behaviour, any number of times, beside crashes and databases that
  do not reopen: the properties say which kinds they withstand, and one of them at a
  time is what they must be seen to withstand.  The theorems have none of these
  bounds.
* One slot more than the other builder has, a grid that is too small for a
  recipe, and stacks of two make the full slot, the overfull stack, the part that
  fits and the slot outside the grid common.  `MaxEvents` bounds the journal (no
  builder acts once it is full) and `MaxItems` what the world hands out: four
  events are an addition, a drag, a death and a collection, or an auto-fill over
  a grid that something was put in.  The three recipes are shaped, shapeless, and
  one with two kinds of input.
* Two runs show every pair of scripts in both orders and overlapping; a file
  takes its content from one run or two.  The chain of a creature is four
  scripts long and needs a second batch after a first: it has four runs.
* Two requests of each page at once are enough to overlap.

`CHECK_DEADLOCK FALSE` is set where the system really may stop: no connections
left to make in the hub, everybody disconnected in a session, both links of a
consent used, no run of a script or event of the inventory left.  `Keepalive` and `WorldSave` are checked for deadlock.

## 4. Fairness

* Hub: weak fairness of every handler (`HandlerStep`) and write pump
  (`PumpStep`), because goroutines are scheduled and the HTTP calls of the gates
  time out after three seconds; of `Idle` and `PruneIdle`, because time passes
  and the ticker ticks.  Not of `PumpWrote` (a client need not read) nor of any
  message (nobody has to speak).
* Sessions: weak fairness of a client's and a host's message handling and of the
  three timers, because Godot polls the links and runs the timers in its main
  loop.  Not of leaving, kicking, opening a link, or of the hub's announcement
  of a new host.
* Keepalive: weak fairness of `Tick`, which `_process` runs.

Safety runs use no fairness.  The writer of the inventory has none either: the
code's timer starts again with every event and may never fire (section 6.2).

## 5. The proofs

Nothing is assumed but the named assumptions on the constants (for example
`PeerCapAssumption`, `NoneAssumption`, `KeepAssumption`), which TLC evaluates in
the runs.

| Module | Theorem | Inductive invariant, and why |
|---|---|---|
| `SignalingHub_proofs` | `TypeCorrect` | `TypeInv`: `TypeOK` and `Located`, which says which local variables a stage of a handler has set; without it a handler could count a peer into no session |
| | `PeerCapCorrect` | `PeerCapRespected` with `TypeInv`: the stale maximum in `loc` is itself at most `PeerCap` |
| | `RegisteredChannelCorrect`, `ServedUntilReplacedCorrect` | `TableInv`: both properties need each other, and `Fresh`: an unused connection is neither closed nor registered, so that `Connect` cannot reuse one |
| | `Refinement` | `TypeInv` and `PeerCapRespected`: a step that changes the list of sessions is `List`, `Admit`, `ChangeHost` or `Drop` of `SessionBook`, every other step (the activity marks included) leaves it unchanged |
| `WorldSave_proofs` | `TypeCorrect` | `TypeInv`: where the database is whole, which copy is renamed, where an index is one of a backup |
| | `CheckpointSurvivesCorrect` | `Sound`, while nothing has failed: which file is the newest at each point of the protocol.  Where a staged copy exists it holds the last checkpoint; where none does the database does; while a world is open the database does in any case, because chunks in memory are never older than their rows |
| | `DirtyCoversChangesCorrect` | `DirtyInv`: after the last chunk is written and until the set is cleared, memory and database agree |
| | `BackupsOrderedCorrect` | the order of ages with what a rotation has shifted so far: an interrupted rotation leaves a gap or a half-written file, and the next one may shift across it |
| | `OpenedIsNewestCorrect` | `AgedAlways`: the same order, with where the start is in its list of backups and that those before it were found broken |
| `NetworkManager_proofs` | `TypeCorrect`, `PlayersShownRegisteredCorrect`, `GateHoldsCorrect`, `PromotedOnlyWhenCutOffCorrect`, `ConnectedUntilToldOrLostCorrect`, `BackOnlyWithLinkCorrect` | `SessionInv`: a link carries its closing last and nothing reaches a closed end (`InOrder`); a client has at most one link, to the host it knows, and none while it dials or waits (`OneHost`); role and state fit (`RoleFitsState`); a registry holds nobody twice.  The timers of earlier attempts need all of it: that a player in the state a timer looks for has no link is what makes the stale timer harmless |
| `Keepalive_proofs` | `TypeCorrect`, `WarningIsTrueCorrect`, `DroppedOnlyAfterWarningCorrect` | `KeepaliveInv`: who is not registered is not counted or warned of; a count at the threshold was shown in the tick that reached it |
| `Inventory_proofs` | `CleanIsSavedAlways`, `ChestsOnDiskAlways` | `InventoryInv`: with the shape of the places, so that a handler changes only the places it names |
| | `SlotsWellFormed` | `StockInv`: `TypeOK` and `UnplacedEmpty`, a chest that is not placed is empty |
| | `NothingFromNothingAlways`, `NothingVanishesAlways` | `StockInv`; for each action the balance of each kind of item over all places, piles and the ground (`EveryStep`, conjunct `Balanced`).  A sum over all places changes by what the one or two places of an action change by; `UnplacedEmpty` is what makes the placement of a chest lose nothing unless one stood there |
| | `NothingUnjournalledAlways` | `StockInv`; an addition that is refused has filled all room (`EveryStep`, conjunct `Journalled`) |
| | `ShapedMatchUnique` | no invariant: two shaped recipes that match one grid have the same layout |
| `AssetPipeline_proofs` | `ArtTypeCorrect`, `LicencesTellTheTruth`, `BatchesPublishTheirOwn` | `ArtInv`: of the steps the current item of a script has been through, those that would have left the item on failure have had their effect and it still lasts (`Right`); which needs that scripts side by side write different files (`Apart`), that a file was last made by a script that writes it (`OwnMakers`), and that a licence names a script with licences for the file (`LabelOwn`) |
| `ArtGeometry_proofs` | `CellsDisjoint`, `CellsInsideSheet`, `CellsNotEmpty`, `FittedInsideFrame`, `FittedKeepsShape`, `CentreCropInside`, `CentreSquareInside`, `AnchorsAtStuds`, `StudsOnBrick`, `AtlasTilesDisjoint` | no invariant: bounds of integer division, for all sizes; the rounding of floats is a choice of two values |

The proofs are hierarchical: one lemma per group of handlers, one step per
action, and the temporal step at the end of each theorem.

The session's theorems hold for any finite set of players and builds, any bound on
attempts and events, any set of links that break and any flushing.

`ShapedMatchUnique` is about any grid, not about the behaviours of the module.

The theorems of `Inventory` hold for any builders, grids, chests, sizes, stack
limit, loot and recipes.  Of these they assume that the places are finitely many,
that the loot of a chest is well formed, and that no *shaped* recipe lists one
slot twice (`ShapeAssumption`, true of every `.tres` file in
`src/crafting/recipes`); a kind of item may be listed any number of times, and what
auto-fill then makes of it is part of the property.  Sums over slots and places
are recursive functions.  The induction theorems of the library take an operator as
parameter, which the provers cannot instantiate, so the lemmas about sums
argue by a least counterexample: `UpFromZero` says that a set of numbers that
holds 0, and i + 1 with each i up to n, holds all numbers up to n, and each
lemma about sums applies it to the set of indices for which it is true.

Only model-checked is liveness under fairness (`ReplacedConnectionEnds`,
`UnusedSessionPruned`, `OtherBuildLeaves`, `ConnectingResolves`, `FailoverResolves`,
`SilentPeerDropped`) and what speaks of ENABLED
(`ValidLinkConfirms`), which TLAPS does not support, and the two facts about
tables that TLC evaluates for `MCAssetPipeline`.  Two safety properties are only
model-checked as well.  `HandoverOnlyWhenHostGone` is true of links that deliver what
was sent before they close and of first attempts, not in general: section 6.2 has the
kick whose notice is lost.  `NothingElseOverwritten` is a fact of one table of
scripts; for any other table it would have to be assumed.  Every other invariant
and action property of a passing run is a theorem.  No module has RECURSIVE operators.

## 6. What the checks found

### 6.1 Findings, each shown by a run

* **A relay to a replaced connection kills the sender's handler**
  (`hub/relay.go:37`, run `HubGhostEntry`).  `relay` takes the target under the
  lock and sends after releasing it; a reconnect of the target closes that
  channel in between (`hub.go:124`).  The send panics in the *sender's*
  goroutine, `net/http` recovers, the clean-up at `hub.go:140` is skipped, and
  the sender stays in `Hub.clients` with nobody serving it.  `relay.go:12`
  promises an error message to whoever writes to a player that is not connected;
  messages to this entry are dropped.
* **Survivors elect different hosts** (`session_registry.gd:198`, run
  `ElectionSplit`).  A registry never holds its own player, and all round-trip
  times are INF, so each of two survivors elects the other one and both wait;
  `session_registry.gd:196` says that all converge.  The round-trip times that
  are to decide are never finite (section 6.2, Keepalive), and each client would
  measure its own.
* **No consent can be confirmed** (`supabase/migrations/006_parental_consents.sql:16`,
  run `ConsentRefused`).  The confirm page clears `consent_token` in the same
  patch that sets `consented_at`; the column is NOT NULL and no later migration
  changes it, so the database refuses the patch.
* **Items multiply** (`inventory.gd:1472`, run `ItemsMultiplied`), in two ways.
  Auto-fill compares each input of a recipe with the whole stock by itself and ignores
  a removal that fails (`_apply_remove` at `inventory.gd:1480`), so an input that is
  listed twice, as in nearly every shaped recipe, passes with one item, is paid once
  and laid out twice; `:1447` says "validate ALL ingredients BEFORE removing
  anything", `:1477` "abort without side effects".  And a stack of a death pile that
  fits in part is added in part, reported as refused and kept whole
  (`death_pile.gd:173`), against "items that overflow (inventory full) remain"
  (`:165`).  `NothingFromNothing` shows that nothing else multiplies items.

### 6.2 Other divergences seen while modelling

The modules keep all of these behaviours; no property promises their opposite, nor
that they last.

*Hub.*  A handler blocked on its own full channel stays there while the client
reads nothing: `writeTimeout` is not used (`hub.go:166`).  Every offer is
counted as a player, a retry too, and nothing gives a place back
(`hub.go:337`, against the comment at `:301`).  The host that the block gate
compares is read before two HTTP calls (`hub.go:310`), and so is the maximum: a
session that is published again with a smaller one meanwhile still admits by the
old one, up to the cap of the hub.

*Sessions.*  Events are broadcast to players that are connected but not yet
past the version gate (`network_manager.gd:474`).  A snapshot that arrives after
the grace window has given up brings the player back (`:1338`), though only while
its link stands (`BackOnlyWithLink`).  A player with
another build is announced during a promotion (`:1329`).  The notice of a kick or a
rejection is lost with its link, and the player then starts an election against
a host that is alive (`:548`).  A promoted host keeps showing the players of the
lost session (`:1288`).  The registry of an earlier session takes part in the
next election (`:424`).  A promoted player waits for its first peer without a
time-out (`:1274`).  Only the first player to reach a promoted host gets a
snapshot (`:1328`).  Client and hub
do not name all messages alike (`session.publish` and `publish_session`,
`candidate` and `ice`, `target_peer_id` and `to_uid`; of a new host the hub
tells by `host_updated`, where the client looks for `update_host`), and no client
sends `register`; the modules join the two sides by meaning.  Peers are always
registered with an empty uid, so the block-aware display suppresses nobody.

*Keepalive.*  The average of a round-trip time starts at INF
(`session_registry.gd:113`) and `INF * 0.9 + rtt * 0.1` (`:160`) is INF, so it is never
measured.  The comments say that it is (`:12` "Track per-peer RTT via an Exponential
Weighted Moving Average", `:23`) and decides the election (`:17` "Sort surviving peers
by EWMA RTT ascending"); `network_hud.gd:10` shows it in three buckets, of which
only the worst is ever seen; and `test_election_algorithm.gd:41` sets finite averages
by hand, which no game has.

*World.*  A staged copy older than the database is promoted over it at the next
start, which loses what was written without a checkpoint since
(`world_save_io.gd:173`).  A checkpoint cut short between two chunks leaves a
database with some of them (`world_save.gd:336`).  A staging that fails is ignored
(`:344`); the older staged copy then undoes the checkpoint.  A row that
`_save_chunk` cannot write (`:957`) is ignored too, and its mark is cleared with the
others (`:355`): the next checkpoint does not try it again.  After a checkpoint whose
database does not reopen (`:350`) the game goes on with a world that is not saved.  Where the promotion
fails after the database was removed the world opens empty although backups
exist (`:145`, `world_save_io.gd:181`).  Three crashes in a row while the first
backup is copied push out the last whole one (`world_save_io.gd:119`).
`prune_old_snapshots` keeps one more than asked.  In the game itself only
`open_world` and `save_world_snapshot` have callers; `checkpoint`, `save_world`
and `close_world` are called by tests.

*Inventory.*  `attach_world` and `detach_world` have no callers: builders and
chests are written and never read back (`inventory.gd:210`).  The signals
`worn_out` and `day_boundary` are never connected, because
`Engine.has_singleton` is false for autoloads; only the timer writes, and every event
starts it again, so "worst-case data loss" of 30 seconds (`inventory.gd:10`) does not
hold under steady play.  An addition that fits in part is refused, but what
fitted stays and is neither journalled nor marked nor broadcast.
Auto-fill overwrites what lies in the grid and drops inputs whose
slot the grid does not have, and leaves cells without keys, which a swap cannot
exchange (`inventory.gd:1162`).  What a craft makes and the builder has no room for
is lost.  A right-click adds past `STACK_MAX`; a CTRL-drag reads the slot
numbers as the builder's, whatever grids it joined; a merge by dragging sends an
ADD without an item and is refused (`inventory_slot.gd:325`).  The crafting grids
belong to the process, so that replicated and local builders share them.  A
second placement of the starter chest overwrites its contents.  An UNLOCK looks
for another key than chests are stored under (`inventory.gd:1352`,
`chest_entity.gd:314`) and is always refused, and a lock is only shown.  The
partner of a double chest is not saved (`_persist_chest` writes an empty one), a
chest that is removed keeps its row, a chest that breaks would drop one item of
each slot, and `break_double_chest` does not preserve totals when stacks are
fragmented.  A dropped item becomes scenery when it comes to rest
(`main_scene.gd:1609`), which makes its despawn after two days unreachable.
`RecipeRegistry` repeats the matching of the inventory.

*Art.*  A rerun of `generate_icons.py` replaces the cropped title art, although
"re-running is safe" (`generate_icons.py:8`); `crop_desert.py` and `crop_savannah.py` both make the
vulture, `crop_savannah.py` and `crop_user_art.py` the giraffe, and the last one
run wins.  `apply_cubicraftia_palette.py` leaves the licence of the mesh it
recolours; `gen_creatures.py` and the builder's pieces have none.
`crop_avatars_v2.py` reports that it replaces the first set also where its sheets
are missing.  `generate_bricks.py` says that the brick registry reads the anchors
(`:591`), which nothing does, and after a failure they are those of an earlier
mesh.  `brick_1x1` is made with a stud of one metre where the library takes
0.125, and lies on its side after the export.  Seeds by `hash(name)` differ from run to
run.  `crop_user_art.py:64` names another border than its code takes.  The slopes'
faces point inwards (`generate_bricks.py:273`), and the studs of
`round_2x2_brick` stand over its edge by 3.4 mm.

*Consent.*  The row is inserted before the mail is sent; where the mail, or the
answer, is lost every later request gets 409 (`consent.go:190`).  Row and metadata may
disagree (`:270`).  `consent.go:255` says that `revoked_at` is cleared "so that
re-consent after revocation is correctly recognised by isConsentRequired (CR-05)", but
nobody can consent again: a confirmation clears the token, so its link is not found
any more, and a second request gets 409.  What the clearing does do, once the
column accepts NULL, is that a second click on the confirm link that overlaps a
revocation undoes it, and so does a confirmation after a revocation that came
first, because a revocation leaves the token.  A revocation does not end a running
session.  An account that never asks has no row, and the gate lets it in.

## 7. What is not modelled, and why

* In the modelled components: the admin report listing, TURN credentials and
  HTTP framing of the hub (stateless); WebSocket and ICE framing, chat, freeze
  and mute, snapshots' contents in `NetworkManager`; names and colours in
  `SessionRegistry`; columns, thumbnails, schema migration in `WorldSave`; text
  of mails and pages in `Consent`.
* Loss of the operating system's cache with the power: the modules of the world
  files treat a completed write as durable.
* In `Inventory`: UNLOCK (always refused in the game) and RECIPE_UNLOCK;
  double chests and breaking one, which no code of the game
  reaches; snapshot and reset; attaching and detaching a world and the handlers
  of the two signals that are never connected; the cache of revealed
  slots.  Three branches are left out because no caller takes them: an addition to a
  chest (`inventory.gd:905`, which would not write the chest's row) and one with
  the hint of a slot (`:853`), since none of the seven senders of ADD gives
  `chest_coord` or `slot` and the eighth, a drag, gives no item and is refused; and
  the removal from a given slot (`:952`, which succeeds with fewer items or none), since
  the only sender of REMOVE (`builder.gd:1242`) names an item.  `Flush` takes a world to be open, as
  it is whenever builders play.
* In the art scripts: pixels, vertices and colours; scripts that only
  render previews and line-ups, and write nothing the game loads; packaging, CI and
  the licence check, which run once over all files.
* Friends, fluids, clock, stud grid, dynamite, tools: planned (section 8).
* Rendering, terrain noise, movement, combat, user interface: continuous or
  engine-driven, without a protocol that a model checker could explore.
* Pure functions of one value (chunk codec, loot, profanity filter, deep links,
  version comparison): the unit tests enumerate them well.

## 8. Plan

In this order, the most important first.  Steps 1 to 7 are done.

1. `SignalingHub`, `SessionBook` and their proofs.
2. `SessionRegistry`, `NetworkManager` and their proofs.
3. `Keepalive` and its proofs; it justifies the order of the election and
   abstracts into `KeepaliveTimeout`.
4. `WorldSave` and its proofs.
5. `Consent`; properties of overlapping confirmations and revocations wait for the
   migration to be repaired, since until then no confirmation is recorded.
6. `Inventory` with chests, piles and recipes, and the proofs of what is written.
7. `AssetScripts`, `AssetPipeline`, `ArtGeometry`.
8. Replication of inventory events from the host to the players, composed with
   an abstraction of `NetworkManager`: which replicas agree, what a snapshot
   repairs.
9. A session of four players with abstract links (who gets a snapshot after a
   promotion), the queue of ICE candidates, the chat's rate limit.
10. World clock and beds, the fluid queue as an algorithm with a fixed point,
    an invite redeemed by two players.

Theorems to come: that `Inventory` balances over whole behaviours (the stock of a
kind is what was handed out and crafted less what was used up), the safety half
of the liveness properties (what a step towards the goal is, and that no step
leads away from it), and the theorems of steps 8 to 10.

## 9. Running it

```
tlasany SignalingHub.tla
tlc -workers 2 -config SignalingHub.cfg MCSignalingHub.tla
tlapm SignalingHub_proofs.tla
```

`PROJECT.json` lists the runs with their modules and configurations, the
mutants, the map from definitions to lines, the hazards and the theorems.
