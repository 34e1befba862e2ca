# Verification of StratumV

StratumV is a C++20 / Vulkan engine. One part of it is collaborative: a
dedicated server owns a shared world, clients edit it over QUIC, and there is an
undo log, content-addressed assets, a world file and a bridge to external
editors. The other part is what a game is built on: a main loop with
hot-reloaded files and plugins and a debug server, and physics, animation,
audio, input, scene files, and the frames and passes it draws. This directory
models both in TLA+, checks small instances with TLC and proves with TLAPS, for
every instance, all the safety properties that the instances are checked for: those of the
server, the replicas, assets, disk, bridge and transport, of the bytes they exchange
and keep, of the engine's loop with reloads and debug server, and of a game's frames,
voices, pictures, pipelines, crossfades, input and joints. The server implements an abstract
world, asset sync and the files abstract stores. File names below are relative to
the repository.

    tlc -workers 2 -config server_core.cfg MCCollabServer
    tlapm ReplicationProofs.tla

Contents: 1 the system, 2 the modules, 3 what is checked, 4 what is proved,
5 what the code does against its words, 6 what is not modelled.

## 1. The system

| Part | Source (`src/engine/` unless said) | State it keeps | Operations |
|---|---|---|---|
| Dedicated server loop | `src/stratumv_server/main.cpp` | entity map, id counters, undo log; the vector of `ClientState` | accept, handshake step, drain and apply, tick, reap, autosave |
| Undo log | `UndoLog.h` | one vector of entries for all clients | record, walk back, mark |
| Edit transactions, registry, protocol | `EditTransaction.*`, `ReplicationRegistry.*`, `net/ReplicationProtocol.*` | component metadata | encode, decode, compare schemas |
| Client replica | `lab/skinned_test/main.cpp` | `m_netEntities`, two inboxes, the welcome | drain datagrams and messages, send edits |
| Asset sync | `AssetUploadClient.*`, `AssetPersistence.*`, handlers in both mains | receivers per hash, the store | announce, chunk, ack, verify, save, scan |
| World persistence | `WorldPersistence.*` | the binary file `world.svbin` | save (write aside, rename), load |
| Editor bridge | `net/EditorBridge.*` | TCP clients, cached entities, request queues | accept, read loop, push, reap, stop |
| QUIC transport | `net/MsQuicTransport.*` | registration, listener, connections, streams, payloads | callbacks on worker threads, send, accept, close |
| Engine base and registry | `EngineBase.cpp`, `SystemRegistry.cpp` | services, systems | start, frame, shut down |
| Files and plugins | `AssetWatcher.cpp`, `Config.cpp`, `DLLLoader.cpp` | time stamps, configuration, the loaded library | poll, reparse, unload, load |
| Dev server | `DevServer.cpp` | a TCP thread, commands queued to the main thread, one screenshot | accept, enqueue, poll, capture, stop |
| Input | `Input.cpp`, `InputBindings.cpp` | keys, injected input, bindings | inject, update, query, save, load |
| Physics | `JoltPhysicsContext.cpp` | bodies, constraints, characters, an accumulator | create, destroy, step |
| Animation state machine | `AnimationStateMachine.cpp` | states, cursors, triggers, a crossfade | trigger, force, update |
| Audio | `Audio.cpp` | events, slots | load a bank, post, stop, clean up |
| Scene files | `SceneStateVersioning.cpp`, `SceneStatePersistence.cpp`, `WorldStateIO.cpp` | migrations, ranges, one JSON file | migrate, load, save |
| Scene loader | `SceneLoader.cpp`, `MaterialPipeline.cpp` | nodes, meshes, material sets | load, reload, build, destroy |
| Frames and captures | `lab/skinned_test/main.cpp`, `vk/VkTexture.cpp` | fences, semaphores, images | draw, bake, capture |
| Thumbnails | `ThumbnailCache.cpp`, `AssetBrowser.cpp` | pictures, time stamps | scan, bake, evict |
| Render graph | `graph/*` | passes, layouts, profiler | compile, execute, register |
| Pipelines | `vk/PipelineRegistry.cpp`, `vk/PipelineCache.cpp`, `vk/VkShader.cpp` | shaders, pipelines, the driver's blob | get, invalidate, poll, save |
| Post-processing | `PostProcess.cpp` | images, descriptor sets | resize, record, reload |

How they interact. On the server MsQuic's worker threads run the connection
callback and the message handlers; all a handler does is to append to the
client's inbox under its mutex. Everything else happens in one main loop: accept
at most one connection, advance every handshake by one step, drain every inbox,
send snapshots when the tick is due, reap what shut down, save when it is time.
The server answers with reliable messages, each on a unidirectional stream of its
own, and snapshot datagrams. A client does the mirror image: handlers append to
two inboxes, the frame loop drains them into its entity map, and the editor
bridge publishes that map to external editors and queues their requests. Under
any application `EngineBase::run` starts the services, polls the file watcher and
the dev server's queue once a frame, calls the game, and takes everything down.
The game's own parts are called by it on that one thread; what runs beside them
is the GPU, the presentation engine, the audio device and whoever writes files.

What is hard about it:

- **Interleaving.** Connections come up, shut down and deliver between any two
  turns of the main loop; the bridge's listener and readers, the dev server's
  thread, the screenshot writers and the GPU each run against the main thread.
- **Ordering.** QUIC orders the bytes of a stream, not streams.
- **Loss and delay** of datagrams, against reliable messages about the same
  entity.
- **History.** Undo and redo walk one vector shared by all clients, whose
  entities may have been reaped since.
- **Crashes and failures** between any two calls on the file system, in the
  middle of a save, in the middle of a reload.
- **Stopping.** Every `stop()` joins threads that may wait for the one that stops
  them.
- **State that outlives its reason**: descriptors after a resize, indices after a
  reload, layouts after a pass was switched off, keys after a command.

What makes each part correct is the property named for it in section 3.
`PROJECT.json` lists every component with its status, and every hazard with the
line where it bites.

## 2. The modules

| Module | What it is |
|---|---|
| `UndoLog` | the history operators, used by the server |
| `CollabServer` | the server: main loop and worker threads, one action per turn of an inner loop |
| `SharedWorld` | the abstract specification the server implements |
| `Replication` | `CollabServer` with a network and the clients' replicas |
| `AssetSync`, `AssetStore` | transfers of assets, and the abstract specification they implement |
| `ServerDisk`, `StableStore` | what the server keeps on disk through crashes, and the abstract specification it implements |
| `EditorBridge` | listener, readers and main thread of the bridge |
| `Transport` | one process on top of MsQuic |
| `Codec`, `Wire` | bytes of every message and file, and two builds that exchange them |
| `HotReload`, `DevServer`, `EngineLoop` | files and plugins, the debug server, and the main loop that composes them |
| `Physics`, `Animator`, `Audio`, `InputFrames` | what a game plays with |
| `SceneFiles`, `SceneLoader` | what a game loads and saves |
| `Thumbnails`, `FrameLoop` | pictures of assets, and the frames against the GPU that bake them (`FrameLoop` extends `Thumbnails`) |
| `ImageWork`, `Captures`, `PostProcess` | what command lists do to images; baked, golden and saved pictures; bloom and tonemap |
| `RenderGraph`, `Pipelines` | passes, and shaders with the pipelines built of them |
| `MC*` | the TLC instances; `MCGame` puts the game's parts side by side |
| `ReplicationProofs` (server and replicas), `AssetSyncProofs`, `ServerDiskProofs`, `EditorBridgeProofs`, `TransportProofs`, `WireProofs`, `EngineProofs`, `GameProofs` | theorems |

### CollabServer and SharedWorld

The main thread is single, so the state says where it is: `phase` is the part
of the loop, `todo` the clients the current inner loop has still to visit,
`serving` and `batch` the inbox that was swapped out. One action is one turn of
an inner loop, which is what the worker threads can get between:

| Code (`main.cpp`) | Action |
|---|---|
| accept block 1575-1611, `makeAvatar` | `AcceptOne`, `AcceptTimeout` |
| `tickClientHandshake` 503-594 | `SendPreamble`, `SendWelcome`, `CatchUp`, `SendFails`, `NoticeShutdown`, `NothingToGreet` |
| `drainClientInbox` 948-1031 | `SwapInbox`, then `ApplyHead` per message |
| `applyClientTransaction` 602-941 | `Decorate`, `Reparent`, `Move`, `Undo`, `Redo`, `Reject` |
| `broadcastAllEntities` 1039-1092 | `TickDue` |
| reap 1651-1697 | `Reap`, `Keep` |
| MsQuic callbacks, handler 1592-1600 | `ConnectionReady`, `ConnectionShutdown`, `Receive` |

`out` is what the last step sent to each client, and `told` what a client knows
of if everything it was sent had arrived in order; neither is read by an
action. `redid` remembers who had a redo applied, for the statement about undo.

Data are abstract: a component is a function from fields to values, a payload a
partial such function, and whether it decodes is a field of the request. Floats
are compared for equality only. `stage` is one variable for three booleans that
are set in a fixed order. Client ids are issued in order and the vector is
appended to, so the order of the vector is the order of the ids.

`SharedWorld` is what the participants are promised, without connections, loops
or logs: ids are never reused, an entity keeps its owner, one step moves one
entity, a restored pose is one the entity has held. `CollabServer` maps to it by
forgetting everything but owners and poses; `issued` is the range below
`nextEntityId`, `held` is read off the undo log (`ImplementsSharedWorld`).

### Replication

Extends the server with what is on its way to the clients in `Observer` and
with their `m_netEntities`. `wire` is a set: reliable messages arrive once, in
any order (`MsQuicTransport.cpp` 775-852 opens a stream per message). `dgrams`
may be lost (`Lose`), late or early. A step of the client applies one message,
as `drainNetInbox` and `drainNetReliableInbox` do in a loop; that the two are
drained once per frame adds no behaviour, since any arrival order is possible.
A replica is followed while its connection is up.

### AssetSync and AssetStore

The server's store and the receivers per connection, a client's store and its
one map of receivers for uploads and pushes, and the messages between them as
sets, since each has a stream of its own. Asset messages touch nothing of the
world that `CollabServer` describes, and share only the connection with it, so
the module stands alone: a connection is joining, welcomed, shut or reaped.
Every handler of `handleAssetAnnounce`, `handleAssetChunk` and
`drainAssetInbox` is an action per outcome (`AnnounceKnown`, `ChunkCompletes`,
`ChunkThrown`, `Discarded`, ...). An asset is its hash, a receiver the set of
chunks it has been given; all senders hash what they send, so a full receiver
verifies. `UploadBreaks` is an upload cut off by a shutdown. The history
variables `lostUp` and `lostDown` note where a chunk was thrown away, `offered`
and `pushed` what was meant to arrive. `AssetStore` is three sets: what the
server holds, what each client holds and what each client offered; it says who
may come to hold an asset from whom.

### ServerDisk and StableStore

`target` and `temp` are the paths on disk: the world file, and a `.bin` and a
`.meta.json` per asset. A process has its counters (`world`), its records of
assets, and a `job`: which file it replaces, with what, and the next call it
makes. One action is one call: `Open`, `Write`, `Drop`, `Rename`,
`RemoveTarget`, `RenameAgain` (`WorldPersistence.cpp` 255-330,
`AssetPersistence.cpp` 80-135). Each may fail as the code looks at it
(`MaxFaults`), `fclose` is not looked at and may lose what was buffered, and
`Crash` comes between any two (`MaxCrashes`). `Start` is the whole of a start:
load of the world file, torn, absent or of a newer build, and the scan that
accepts an asset only if both its files read well. `Stop` is the final flush.
A torn file is one no reader takes, but a `.meta.json` has no end mark: cut in the line of
the name it still parses, and the asset is taken with a short name (`Cut`).
`StableStore` is a store in which a replacement takes effect in one step or not
at all, and a value is lost only to a failure while it is replaced.

### EditorBridge

Three kinds of threads: `listener` (at most one new editor at a time: accept,
put into `clients`, snapshot under the state mutex, frame by frame catch-up,
start the reader), a `reader` per client (test, receive, queue or deposit, die),
and `main`, the lab's frame: inbox with spawns and despawns, publish, reap,
pumps of the queued requests, and `stop()`. A step is what happens under one
mutex or one frame sent. A broadcast names whom it still has to reach and holds
the clients mutex meanwhile (`Announce`, `SendNext`); an editor that does not
read (`Stall`) blocks its sender until it reads again or its socket is closed.
History variables say which frames were broadcast over an editor's head while it
was brought up to date (`overtaken`), who was reaped before it had a reader, and
whose upload another editor cut into.

### Transport

One process, server or client, from `Transport::start` to `Transport::stop`, and
one worker per connection that runs one callback at a time. `owner` says who
holds a `Connection::Impl` (nobody yet, the accept queue, the application, or it
is freed), `handle` the state of its MsQuic handle, `stream` the receive streams
with what is buffered, `holder` the payload of a send on its way through
`StreamOpen`, `StreamStart` and `StreamSend`. The callbacks are actions by event:
`NewConnection`, `Connected`, `PeerStreamStarted`, `Receive`, `PeerSendShutdown`,
`StreamShutdownComplete`, `DatagramReceived`, `ShutdownStarted`,
`ShutdownComplete`; a handler that lets go of the last reference closes its
connection in place (`CloseInPlace`, `AfterHandlerCounts`). The main thread
acquires, listens or connects, accepts, installs handlers, sends, reaps and goes
down in the order of the two mains. MsQuic is external and modelled by its
documented events.

### Codec and Wire

`Codec` is reader and writer of everything that is made of bytes: little-endian
numbers, varints and zig-zag, dirty masks, snapshots of a component, every frame
of the protocol and the world file, over sequences of small bytes. All widths
are parameters (a byte of `ByteBits`, words of `Half`, `Word`, `Long` bytes),
which keeps the boundaries of each width and makes them reachable. `Wire` has two
builds greet each other with their schemas and exchange messages of every kind, each
whole or cut anywhere, and a payload cut inside a whole frame. What a loop of the code
goes through one by one (bytes of a number, fields, frame numbers, entities) is a
recursive function here (`Power`, `Digits`, `Number`, `Before`, `DecodeFields`,
`LoadEntities`). `heard` keeps the last message with what was read of it, `meant` what
the components would be had their fields travelled as such.

### HotReload, DevServer, EngineLoop

`HotReload`: a file's time stamp is the number of write steps it has seen, odd
while it is half written. `AssetWatcher` compares stamps, at most every
`ThrottleInterval` polls (`CheckAll`, `Due`), `Config` parses, then stamps
(`ParseConfig`, `StampConfig`), `DLLLoader` unloads the systems, keeping their
states by position, and loads the new library (`Unload`, `Load`, `LoadFails`).
`DevServer` is one thread that accepts a client, reads a command or a batch, and
either answers (`AnswerQuery`), enqueues for the main thread and waits
(`Enqueue`, `AnswerWrite`), or asks for a screenshot and waits (`AskShot`,
`AnswerShot`); every wait may time out. `EngineLoop` is `EngineBase::run`: the
place `main` of the main thread, one action per service call, in the order of
`initServices`, the frame and `shutdownServices`.

### The parts of a game

All are called on the game's one thread, so an action is a call, or a piece of
one where something else gets in between.

- `Physics` (`JoltPhysicsContext.cpp`): `Step` turns a frame time into substeps,
  each substep loads the joints with any impulses and looks at them in any order
  (`Examine`, `PassOver`), waves spread to neighbours (`StartWave`, `Spread`)
  until the cap of breaks. Characters stand on their feet through
  `ResizeCharacter` and `ApplyParams`.
- `Animator` (`AnimationStateMachine.cpp`): `Update` fades or plays, `Fires`
  looks for the first transition in order whose trigger or exit time has come,
  `TriggerTransition` forces one.
- `Audio` (`Audio.cpp`): `Post` picks a variant and a file by its mode, respects
  cooldown and voice limit, takes a free slot; sounds end on their own and are
  counted when `CleanupFinished` sees them.
- `InputFrames` (`Input.cpp`, `InputBindings.cpp`, commands of `DevServer.cpp`):
  injections and holds come before a frame's one `UpdateInput`; `ToFile` and
  `FromFile` are the bindings' way to disk and back.
- `SceneFiles` (`SceneStateVersioning.cpp`, `SceneStatePersistence.cpp`,
  `WorldStateIO.cpp`): releases with their migrations come and go, load through
  `Migrate` and `ValidateRanges`, and save in place in two steps with a kill in
  between, or not at all (`WriteFails`). A scene is what a game plays with, a
  document what `SerializeAll` makes of it: fields in their groups, overrides only
  where they are on. Every section's writer and reader is an operator of its own.
  `written` is the history: the scene, not the document, last saved whole.
- `SceneLoader` (`SceneLoader.cpp`, `MaterialPipeline.cpp`): `LoadObjects` makes
  nodes of a document and shares meshes by path; a mesh that cannot be loaded is
  tried again by each object that names it, and any of these tries may fail.
- `Thumbnails` and `FrameLoop`: the browser's listing, the cache and its pictures;
  and the frame, from the fence to the present, with queue and presentation
  engine as actors of their own (`GpuRuns`, `Show`), and a bake between frames.
- `ImageWork`, `Captures`: an image is a layout and what was drawn into it. A
  command list is a sequence of barriers, passes, copies and blits, and a rule of
  Vulkan that one breaks is kept in `broken`. Frames, bakes, the saved screen and
  the four golden pictures are such lists, translated one by one.
- `PostProcess`: descriptors name images by size; `ResizePost` and `SetHdrSource`
  write them again, a frame runs threshold, blur back and forth, and tonemap.
- `RenderGraph`: passes with the images they use, compiled by order; `Execute`
  gives every pass the barriers it needs from tracked layouts, while `layout` is
  what each image is really in; the profiler reads times a frame in flight later.
- `Pipelines`: shaders are compiled from numbered edits, pipelines are built of
  them on demand and shared, `InvalidateShader` drops them; the driver's blob goes
  to disk and is taken from there by the GPU that made it only; `watched` is a
  shader that polls its own file, which may not open and is then tried again.

`MCGame` runs one of them at a time as a `workload`: they share no state, and TLC
need not multiply what does not meet.

## 3. What is checked

Every type is checked by what uses it; the type invariant of the server is proved
(section 4). The state counts are of a complete search by TLC.

| Run | Instance | States | Properties |
|---|---|---|---|
| `server_core` | 2 clients, 3 requests, no tick: move, undo, redo | 977,709 | `AvatarPerClient`, `JoinComplete`, `DepartureTold`, `PoseComesFromOwner`, `PoseIsLatestApplied`, `ImplementsSharedWorld` |
| `server_live` | 2 clients, 1 request of every other outcome, 1 tick | 180,057 | `ClientsAreServed` |
| `server_ghost` | the same | 54,067 | `GhostFree` is violated |
| `replica` | 2 clients, 2 edits, 1 tick, reordered messages, lost snapshots | 1,549,567 | `ReplicaComplete`, `PoseWasReal` |
| `assets_sync` | 2 clients, 1 asset of 2 chunks, 2 uploads, saves may fail | 121,161 | `TransfersArrive`, `ImplementsAssetStore` |
| `disk_kept` | 1 asset, 2 names, 2 faults, 2 crashes | 1,322,343 | `CountersGoOn`, `AssetsAreKept`, `ReplacesWhole` |
| `bridge_frames` | 2 editors, 1 entity, an upload each | 1,720,962 | `EditorsUpToDate`, `ReadersAreJoined`, `UploadsArrive` |
| `bridge_live` | 1 editor, 2 kinds of requests | 29,563 | `StopReturns`, `EditorsAreServed` |
| `transport` | a server with 2 connections or a client with 1; a message of 2 segments, a datagram, a send | 348,953 | `NoUseAfterFree`, `MessagesWhole`, `HoldersFreed`, `StopReturns` |
| `engine_loop` | 4 workloads of services, clients' jobs and writes of files | 502,545 | `OwnStates`, `AnswersAreTrue`, `StopReturns`, `FilesFollow` |
| `wire` | 3 pairs of builds, 6 messages, 2 worlds | 214,565 | `WireIsFaithful` |
| `game` | 14 workloads | 342,599 | `BreaksAreExact`, `FramesDoNotCollide`, `ThumbnailsAreTrue`, `VoicesCounted`, `ScenesReturn`, `SceneStands`, `NothingPops`, `PassesAreComposed`, `PipelinesAreCurrent`, `InputIsFaithful`, `PicturesAreTrue`, `FramesAreWhole` |

What the passing runs show:

- **Joins leave no gap** (`JoinComplete`): whatever stages two clients are in,
  the replay of one and the announcement of the other together tell each about
  the other. `ReplicaComplete` carries this to the client's map through a
  network that reorders, where an early snapshot makes an entry before the
  Spawn that names its owner. `PoseWasReal`: no replica shows a pose that never
  was, since the client ignores NetTransform edits and takes poses whole.
- **Departures of welcomed clients are told** to every listener
  (`DepartureTold`), which bounds the flaw of `server_ghost` to departures before
  the welcome.
- **Undo is exact** for a client that has not redone (`PoseIsLatestApplied`), and
  no mix of undo and redo reaches a pose the owner never set
  (`PoseComesFromOwner`).
- **Nobody starves** (`ClientsAreServed`): handshakes end, departures are reaped
  and inboxes drained whatever the others do.
- **Assets are whole or absent** (`ImplementsAssetStore`): overlapping uploads of
  the same hash, resets, dedup answers and uploads cut off never add up to an
  asset nobody offered; and nothing is lost but to a thrown chunk or a failed
  save (`TransfersArrive`).
- **The disk is a stable store** (`ReplacesWhole`): a crash between any two calls
  leaves every file old or new. `CountersGoOn` is what the world file is for: no
  id is given out twice but for what a crash forgot, an unreadable file, and the
  two faults a replacement cannot mask. `AssetsAreKept`: what a process holds is
  on disk, and what is on disk the next one finds.
- **Editors see the world** (`EditorsUpToDate`), readers are joined before their
  client goes (`ReadersAreJoined`), uploads arrive unless another editor cut in
  (`UploadsArrive`). Each names the one window in which the code does otherwise.
- **The transport hands messages over whole and once** and frees what it owns
  once, although a handler on a worker may be the last to hold its connection.
- **Everything that stops comes back** (`StopReturns` of the bridge, the
  transport and the engine), whoever waits for whom.
- **Answers of the debug server are true**, files that change are followed in the
  end, and no system gets another's state in a reload that finds the same systems.
- **What is read is what was written** (`WireIsFaithful`): every frame comes across
  whole or is refused, wherever it is cut, and changes nothing then; builds whose
  types drifted do not read each other's payloads as something else.
- **The game's parts keep their promises** over sequences of calls: a wave of
  breaks is the same in any order of the map; frames and bakes never write what
  the GPU reads; pictures show what they are named for; voices are counted; the
  scene that was saved whole is the one the next game starts with, through every
  release; nodes stand on their parents through reloads; crossfades do not pop;
  passes find their images in the layouts they name; pipelines are built of what the
  files hold; nothing stays pressed; a frame on the screen is made of that frame only.

`server_ghost` is a disagreement between the code and its words: the Despawn of a
leaving client is sent only if that client had been welcomed (1676), but its
avatar is in every replay from its accept on. A client that goes in between leaves
its avatar on whoever joined. More such disagreements are in section 5.

### Bounds

Two clients are what the gating of joins, departures and ownership is about:
every such rule compares one client with another. Three requests let an edit, its
undo and its redo, or one client's edit, another's and an undo meet; deeper
histories are covered by proof, for any number of requests. One tick is enough to
get a snapshot in front of, or behind, a Spawn or a Despawn. The replica's two
clients either come and go or one of them edits (`OneOfEach`). Two uploads of one
asset meet in every way the map of receivers allows; two chunks tell a partial
receiver from an empty and a full one.

Two crashes let a restart be interrupted as well, and two faults let one come on
top of another. Two editors and one entity give the listener, a reader and a
broadcast each somebody to hurt; one editor is enough to block everybody. In
`Transport` two connections are what the accept queue and the reap tell apart; a
message of two segments is one that can be cut.

In `EngineLoop` a workload is chosen so that what meets does meet: two screenshots
and a command, a batch with a screenshot, files alone with two writes each,
everything with one command. In `Wire` a byte has four bits and numbers one, two or three
bytes, so that each varint length, the top of each width and a mask of more than
one byte occur; samples are the smallest, the largest and one between, and of a
quantized float the last on both sides of what `lrintf` gives in a word.

In `MCGame` the parts that stand still start in one state (`StandStill`). Three
bodies carry a chain of joints, no two alike, that a wave can run along, one of
which never breaks; two substeps with at most two breaks reach the cap. Bodies are
created in order, characters and terrain only without joints, since neither looks
at the other. Three sounds come and go in two slots. Frames overlap in one
workload, two in flight over three images, and bakes come between frames in
another, one frame after the other. Of the shader files at most one is broken at
the start; there are two edits in a run, and of two files that are used alike the
first is broken and the second edited alone; the second GPU only starts and stops;
the polling shader is apart from the registry. Two images,
sizes and frames alternate in `Captures` and `PostProcess`, so that what is left
over from the last one can be told. `files` goes through releases 1 to 3, newer
and older after one another, from files of release 1 with values within and outside
their range; at most two values of a scene differ from the default at a time
(`FilesWork`), which tells two fields, two groups and two sections apart.

Deadlock is not checked where everything comes to its end: in `AssetSync` once
every client is gone, in `Transport` and `EngineLoop` once the process is over, in
`Wire` once the message has arrived. The other runs check it. Symmetry is
used where clients, editors or names are told apart by nothing but what they do;
never in a run with a liveness property.

### Fairness

- `CollabServer`: weak fairness of `MainLoop` and nothing else. The server's main
  thread runs until it is told to stop and none of its turns blocks: the accept
  waits for a bounded time, sends are asynchronous. Clients and the network owe
  nothing, so a connection may hang in "connecting" for ever.
- `EditorBridge`: strong fairness of `Listener` and `Main`, which compete for
  mutexes and may find one taken again and again; weak fairness of each reader,
  and of an editor that does not read to do so again some day, without which
  `stop()` really may wait for ever. The bridge builds on Windows only, where
  closing a socket releases who is blocked in it.
- `Transport`: weak fairness of the main thread and of each connection's
  callbacks. Peers owe nothing.
- `EngineLoop`: weak fairness of the main thread, the server thread, whose waits
  have time limits, and each screenshot writer. Who writes a file, who connects
  and who ends the game owes nothing.
- The other modules state no liveness and need none.

## 4. What is proved

Each theorem is about a component on its own and every value of its constants: any
number of clients, requests, assets, files, crashes, connections, frames, images,
bodies, banks, graphs. The assumptions are those the modules name:

- the types of the parameters (`BoundsAssumption`, `ValuesAssumption`,
  `TypesAssumption`, `RequestsAssumption`, `ObserverAssumption`, `ChunkAssumption`,
  `SaveAssumption`, `DiskAssumption`, `RequestAssumption`, `ConnAssumption`,
  `BuildAssumption`, `PhysicsAssumption`, `FrameLoopAssumption`,
  `ThumbnailsAssumption`, `AudioAssumption`, `BankAssumption`,
  `PipelinesAssumption`, `AnimatorAssumption`, `InputAssumption`,
  `SceneLoaderAssumption`, `GraphAssumption`, `SceneAssumption`,
  `PostProcessAssumption`, `CapturesAssumption`; `SceneAssumption` also says that a
  default lies in its range and that an old file holds what its version says,
  `CapturesAssumption` that no texture is the mesh);
- that the parents in a scene file form no circle (`NoCircleAssumption`), on which the
  loader recurses without end (section 5);
- that a sign for "nothing" is none of the things there are (`SignAssumption`,
  `NobodyAssumption`, `NothingAssumption`), and that kinds do not overlap: messages
  and datagrams (`PeerAssumption`), the commands of the debug server
  (`CommandAssumption`);
- of bytes (`WidthAssumption`) that one has four to eight bits, so that it holds a tag,
  and that words have one to eight bytes, in order of size;
- of builds (`BuildsAssumption`) that their types have hashes and versions that fit
  their words, that samples are values of their types, and that types of one name and
  version are the same type: the version is a hash of names and types of the fields. It
  leaves the quantization step out (section 5), which is assumed not to change, and a
  16-bit hash may collide, which is assumed not to happen. A quantized float, once it
  is scaled and rounded, fits a word, which is what `lrintf` gives
  (`ReplicationRegistry.cpp` 356); one that does not has no defined value there;
- of messages (`MessagesAssumption`) that their numbers fit and are such as the code
  writes (a known scope, a known answer), that labels and payloads in a world are as
  long as their lengths can tell, and that edits are numbered within a word;
- that a client's job is a sequence of commands, each brought once
  (`WorkloadsAssumption`): two equal commands are two elements of `Command`, so the
  histories can tell them apart.

All of them hold in the instances of section 3, where TLC evaluates them.

| Theorem | Module | Statement |
|---|---|---|
| `TypeCorrect` | `ReplicationProofs` | `Spec => []TypeOK` |
| `OneAvatarEach` | `ReplicationProofs` | `Spec => []AvatarPerClient` |
| `OwnHistoryOnly` | `ReplicationProofs` | `Spec => []HistoryIsOwn` |
| `PosesFromOwners` | `ReplicationProofs` | `Spec => []PoseComesFromOwner` |
| `UndoIsExact` | `ReplicationProofs` | `Spec => []PoseIsLatestApplied` |
| `JoinersAreTold` | `ReplicationProofs` | `Spec => []JoinComplete` |
| `DeparturesAreTold` | `ReplicationProofs` | `Spec => []DepartureTold` |
| `ServerImplementsWorld` | `ReplicationProofs` | `Spec => ImplementsSharedWorld` |
| `ReplicasComplete` | `ReplicationProofs` | `RSpec => []ReplicaComplete` |
| `ShownPosesWereReal` | `ReplicationProofs` | `RSpec => []PoseWasReal` |
| `SyncImplementsStore` | `AssetSyncProofs` | `Spec => ImplementsAssetStore` |
| `NothingElseIsLost` | `AssetSyncProofs` | `Spec => []TransfersArrive` |
| `CountersGoOnForever` | `ServerDiskProofs` | `Spec => []CountersGoOn` |
| `AssetsAreFound` | `ServerDiskProofs` | `Spec => AssetsAreKept` |
| `ReplacementsAreWhole` | `ServerDiskProofs` | `Spec => ReplacesWhole` |
| `ReadersJoined` | `EditorBridgeProofs` | `Spec => []ReadersAreJoined` |
| `EditorsSeeTheCache` | `EditorBridgeProofs` | `Spec => []EditorsUpToDate` |
| `LoneUploadsArrive` | `EditorBridgeProofs` | `Spec => []UploadsArrive` |
| `ImplsOutliveCallbacks` | `TransportProofs` | `Spec => []NoUseAfterFree` |
| `HoldersAreFreed` | `TransportProofs` | `Spec => []HoldersFreed` |
| `MessagesArriveWhole` | `TransportProofs` | `Spec => []MessagesWhole` |
| `WireFaithful` | `WireProofs` | `Spec => []WireIsFaithful` |
| `SnapshotIs` | `WireProofs` | a snapshot that is whole is read as it was written, a cut one is refused |
| `FrameIs` | `WireProofs` | so is a frame of any layout |
| `WorldIs` | `WireProofs` | so is a world file, and one with an unknown type is refused |
| `StatesStayOwn` | `EngineProofs` | `Spec => []OwnStates` |
| `AnswersStayTrue` | `EngineProofs` | `Spec => []AnswersAreTrue` |
| `FeetNeverMove` | `GameProofs` | `PhysicsSpec => FeetStayPut` |
| `NeighboursAreExact` | `GameProofs` | `PhysicsSpec => []AdjacencyIsExact` |
| `WavesBreakExactly` | `GameProofs` | `PhysicsSpec => []BreaksAreExact` |
| `FramesNeverCollide` | `GameProofs` | `FrameSpec => []FramesDoNotCollide` |
| `PicturesShowTheirFiles` | `GameProofs` | `FrameSpec => []ThumbnailsAreTrue` |
| `VoicesNeverDrift` | `GameProofs` | `AudioSpec => []VoicesCounted` |
| `PipelinesStayCurrent` | `GameProofs` | `PipelineSpec => []PipelinesAreCurrent` |
| `PicturesNeverPop` | `GameProofs` | `AnimatorSpec => NothingPops` |
| `InputStaysFaithful` | `GameProofs` | `InputSpec => InputIsFaithful` |
| `ScenesStand` | `GameProofs` | `LoaderSpec => []SceneStands` |
| `PassesStayComposed` | `GameProofs` | `GraphSpec => PassesAreComposed` |
| `ScenesComeBack` | `GameProofs` | `SceneSpec => []ScenesReturn` |
| `FramesStayWhole` | `GameProofs` | `PostSpec => []FramesAreWhole` |
| `PicturesStayTrue` | `GameProofs` | `CapturesSpec => []PicturesAreTrue` |

The specifications of `GameProofs` are those of the parts, each with its own next-state
relation and none of the restrictions by which `MCGame` keeps its search small.

The argument:

- `TypeOK` is inductive as it stands. It already says that a batch is only held
  in the drain phase and by a client that is still in the vector.
- `AvatarPerClient` and `HistoryIsOwn` are not inductive: a new avatar could
  coincide with an old one, and an old entry could be about it. `IdsIssued`
  adds that ids are issued in order, that every client ever accepted has an
  avatar id of its own below the counter, and that only such clients are in the
  log. `Ownership` is the conjunction; the owner gate of `OwnsTarget` and
  `AvatarPerClient` together give that an edit is about the sender's avatar
  (`OwnTarget`), which is what puts the right entry in the history.
- For poses, `WorldStep` sorts every step into five kinds (nobody moves, a
  client joins, edits, undoes, redoes), and the invariants are proved on the
  kinds. `PoseIsLatestApplied` needs `Chain`: for a client that never redid,
  the before-state of each applied entry is the after-state of the applied
  entry before it, or the spawn pose. An undo restores the before-state of the
  last applied entry, so the chain says that this is where the client stood.
  With a redo the chain breaks (section 5).
- `JoinComplete` and `DepartureTold` are proved together (`Telling`). `Connections`
  ties the flags of a client to its connection: a dead client is shut down, and the
  handshake begins only on a connection that is up. `Heard` says that nobody hears
  of the world before its welcome, and that a client hears of every departure
  afterwards but those of clients that left before they were announced (`Unseen`).
- `ImplementsSharedWorld` maps the entity map to owners and poses (`View`), and for
  each entity keeps the spawn pose and the after-states in the log as what it held
  (`Held`). That an undo or redo restores one of these is the invariant of
  `PosesFromOwners`; that a join takes a fresh id needs `Numbered`, entity and
  client ids going up together.
- `NoUseAfterFree` needs `Lifetimes`: what is in the accept queue, being installed,
  in the vector, or held by a handler alone has an open handle, what is freed has
  none, and no two of them close the same one. An event comes only on a handle that
  is open or closing, so its Impl lives.
- `HoldersFreed` needs `Carried`: a payload is with the caller while its send runs,
  or with MsQuic while the handle is open, and is counted where it is deleted; and
  `Registered`: handles exist only under the registration, whose close waits for
  them, so no payload is with MsQuic when the process ends.
- `ImplementsAssetStore` needs `Provenance`: an upload that breaks off never ships
  the last chunk, so where the last chunk is, on its way or in a receiver, the
  asset was offered; and what is pushed to a client is stored. A completed
  receiver holds the last chunk, so storing it is a `Publish` of an offered asset.
- `ReplicaComplete` and `PoseWasReal` (`RInv`) need the server's `Telling` and `Poses`,
  and of the network `WireIsTrue` (a Spawn names the owner, a Despawn is about an entity
  gone for good, so whatever the order, a late one does no harm), `KnownOrTold` (what a
  listener should know it knows or has on the way) and `PosesAreReal` (of messages,
  datagrams and maps alike, so that a snapshot may come at any time).
- `TransfersArrive` needs `Ledger`, one sentence per direction: each chunk of what was
  offered is on its way, in a receiver, thrown away and noted, or the asset is stored. A
  receiver that a late Announce resets is where this is not obvious.
- On disk, `Replacing` says at each call of a replacement what both paths hold: the
  temporary file is whole from the write to the rename, and the old one is removed only
  then. `AssetsKept` and `CountersKept` tie records and counters to the files, but for
  what is `spoiled`; steps of a replacement are then writes of `StableStore` or stutter.
- For the bridge, `Threads` ties readers, sockets and the clients mutex together:
  who is in the list but not started is the listener's, `Accounted` who is out of it.
  `Views` follows a client through snapshot, catch-up and broadcast: what it was shown
  (`Shown`) agrees with the cache but for a frame still to come to it (`ToCome`) or one
  that overtook it. `UploadsKept` counts an upload's frames against its turns in the queue.
- `MessagesWhole` needs `Stories`: where each message of a connection is, from the stream
  that carries it to the handler that met its end, is one of a few cases per `Lifetimes`.
- `WireIsFaithful` rests on one notion: a buffer *agrees* with an encoding at a place if it
  has the same bytes as far as both go (`Agrees`). A reader given a buffer that agrees with
  what was written either has all of it, and then reads what was written and ends where it
  ends, or runs out, and then refuses. That is said once for each piece (`LE`, `Varint`,
  masks, fields) and carried over concatenation, which needs no more than that the second
  part begins where the first ends: `SnapshotIs`, `FrameIs`, `WorldIs` are these steps put
  together. Below them are the facts about numbers that the solvers do not know: powers
  grow, the digits of a number give it back, a number of w bits has no more varint bytes
  than are read, and a float comes back to half a step. The invariant (`IInv`) says of a
  message under way that it is one its sender's build can write, and of a component that
  it has the shape of its type; a payload that was cut inside a whole frame is a beginning
  of a snapshot, which `SnapshotIs` refuses. That the greeting tells
  builds apart needs that the table, sorted by hashes (`Ranked`), leaves no type out.
- `OwnStates` needs `Kept`: while reloads find the systems that ran, the states saved by
  position are the ones their systems left, also after a load that was refused.
- `AnswersAreTrue` needs two. `InTurn`: a command is in one client's job, the queue, the
  main thread's batch or executed, once, so that "executed" is about this command and not
  an earlier one. `Shooting`: while the server runs and no screenshot timed out
  (`InTime`), there is a shot underway exactly when the thread waits for one, and it is
  asked for, captured, written or done. After a timeout nothing of the kind holds, which is the
  flaw of section 5, and why the property has its exception.
- `FramesDoNotCollide` needs `Fences` (each frame is with the thread, in the GPU's queue
  once, or its fence is signalled) and `Images` (each image is free, held, presented or
  shown, one of these, and its semaphore pending exactly while the GPU has it).
- `ThumbnailsAreTrue` is inductive (`TruePictures`) once the picture a bake makes is
  followed; `VoicesCounted` is with the shape of slots (`Sounding`), given that the count
  over slots changes by one when one slot does (`FS_` theorems on cardinality).
- `PipelinesAreCurrent` needs `Stocked`, the same of the shaders in the registry, since
  pipelines are built of these and not of the files, and `Watching`.
- `NothingPops` needs `Crossfade`: it goes from one state to another, so the clip rewound is
  not the one that shows.
- `InputIsFaithful` needs `Recent`: how long ago each key, hold, click and button was to be
  down, counted by `quiet`, and that pads not connected hold only what is `stranded`; and
  `Stored`, that the file has what was saved.
- `FeetNeverMove` needs the type of characters only: the new centre is computed
  from the difference of the half heights, radii included, or, for a new radius,
  from the foot of the old capsule.
- `AdjacencyIsExact` needs that constraint ids are given out once (`Jointed`): a
  new constraint must not take over what `bodyConstraintMap` still lists of an old
  one. Breaking keeps a constraint's description, so it keeps the map exact.

- `BreaksAreExact` needs `Cascading`: in pass 1, what was looked at and struck is broken
  (`Striking`); in a wave, the broken are at least the layer before and at most the layer
  after, and all of the latter around the constraints already visited (`Spreading`), unless
  the cap is used up. The layers are a recursive function, which the model defines by CHOOSE:
  that it exists for every depth, grows and then stands still (`WavesAre`, `WavesGrow`)
  is shown by a least counterexample, for which no induction theorem is needed.
  So it is for the functions the rest of this list rests on: over objects, passes,
  migrations and commands. In `WireProofs` the same argument is a lemma (`EveryNat`), whose
  property of numbers is a set, since a lemma here cannot take an operator.
- `SceneStands` needs `LoaderInv`: in the index each mesh is found under its path and each
  path leads to its mesh (`Shares`), for every object whose mesh fails to load; and the
  index only grows in a load (`Grown`), so what an earlier node was given stays right. That each node has a
  chain of parents (`WorldIs`) is where `NoCircleAssumption` is used.
- `PassesAreComposed` needs of the passes that their names differ, and within a frame
  `Composed`, kept by each pass: the layout tracked for an image is the real one or
  Undefined, but for the strayed, so the barrier is right where it is needed and left out
  only where the image is already in place. `Timed` says of the profiler whose queries
  each pool holds, so that a read never mixes the passes of two frames.
- `ScenesReturn` needs `SceneInv`: migrations are `Ascending`, so when as many are
  registered as the release has before it, migration n is the n-th (`AllInPlace`) and one
  pass meets them all (`PassMigrates`); what lies on disk was cut short or is the document
  of the scene in `written` (`FileIsOf`); and such a document, read by whichever release,
  gives that scene back but for the ranges (`SceneComesBack`): each group is found again,
  an override is on where it was on, and ranges applied to the document are ranges applied
  to what is read from it (`RangesHold`), for missing fields too, since a default lies in
  its range.
- A command list passes through one state after each command (`RunsThrough`, `RunIsOne`),
  and one list after another does what both together do (`AfterBoth`, `FlattenRuns`). Each
  kind of command has a lemma saying which images it may be given, which it changes,
  and that it then breaks no rule; each list is composed of these.
- `FramesAreWhole` needs `PostInv`: between frames every image that is read is in the layout
  for reading, and every descriptor names an image of this size and of the source last
  asked for. Within a frame, a blur pass leaves what the bright pass found in the image the
  next one reads, for every number of passes (`AllBlurred`).
- `PicturesAreTrue` needs `CapturesInv`: the images the lists draw into are there, and those
  to be copied allow it but for the `Uncopyable`; the camera is the fitted one exactly while
  a bake or the goldens draw; and a stage of the goldens knows what is in their image
  and which names are written. The levels of a texture exist for one bake only, and each is
  made of the one before (`LevelsFilled`), so the picture is of the file.

`TypeOK`, `HistoryIsOwn`, `FeetStayPut` and `AdjacencyIsExact` are proved and in no
run any more; the others of the table are both.

Model-checked only is liveness, which needs fairness and ENABLED: `ClientsAreServed`,
`EditorsAreServed`, `FilesFollow` and the three `StopReturns`.

The walk-backs of the undo log are described by what they return and not as a loop, so
that the proofs need no induction over the log. No module with a theorem reaches a RECURSIVE operator.

## 5. What the code does against its words

Only `server_ghost` has a run. The others were met while modelling; the models do
what the code does, and where a property would fail it names the exception.

**Server and replica.** Edit, edit, undo, undo, redo, redo ends at the first edit,
since redo takes the latest undone entry of the log, and the design document
speaks of a redo stack. Two edits of a sidecar may arrive swapped, with no snapshot
to repair it. A Despawn applied before an earlier Spawn or snapshot of the same
entity is forgotten, and the avatar comes back for good. A chunk that overtakes its
Announce is dropped, and the upload, reported as done, is never stored. A client
drops chunks of its own uploads only if the receiver's buffer is empty, which it
never is (`lab/skinned_test/main.cpp` 2031-2038, 2136-2142).

**Disk.** The result of `fclose` is ignored. The temporary name of the world file
is a hash of its path (`WorldPersistence.cpp` 259-262) although the comment calls
it unique to the process. A world with a type this build does not know is a fresh
start and overwritten, although `stratumv_server/main.cpp` 1167-1170 says such
entities are skipped. A `.meta.json` cut in its name line is accepted
(`AssetPersistence.cpp` 81-86), and the asset keeps the short name.

**Bridge.** A client may be reaped before its reader is assigned
(`EditorBridge.cpp` 667-676, against the comment at 619-620), and the thread
assigned later ends the process (the exception in `ReadersAreJoined`).
`setServerState` has no caller. A broadcast stalls on an editor that does not read.

**Transport.** A connection lost between `StreamStart` and `StreamSend` frees the
payload under its sender (the exception in `HoldersFreed`). `MsQuicTransport.h`
196-197 says that streams in flight are buffered until a handler is installed; one
whose end finds no handler is dropped. The header says `shutdown()` shows in
`stats()` at once; only `shutdownRequested` is set. The lab's worker may call
`m_netConn.shutdown` while the main thread assigns it. The server's handler reads
`dead` without a lock.

**Engine loop.** A command that timed out runs later; a screenshot that finishes
late completes the next request; the path is read without the lock; a detached
writer may outlive the server it reports to; the listening socket is closed twice;
an argument of the wrong
type (`DevServer.cpp` 806) throws out of the main loop, which nobody catches;
`stop()` may wait for every time limit of a batch; plugins are unloaded before the dev server
stops. A configuration that changes between its parse and its first watch goes
unnoticed (`missed`), one that does not parse at the start is never watched. A
library found beside the executable is watched under another path and never
reloaded. A failed reload loses the states, and states are matched by position, where
`docs/PLUGIN_CONTRACT.md` 256 gives each plugin "its saved JSON". The same document
has `EngineBase::run()` call `checkReload` (275); nobody in the repository does, nor
`takeScreenshot`.

**Wire.** Edits carry full masks, so concurrent edits of different fields
overwrite each other. Registering a type again replaces its metadata, its authority
included, against the comment at `ReplicationRegistry.cpp` 96-97. The schema
version excludes the quantization step. A payload that fails in the middle has
written its earlier fields; every caller decodes into a copy. Trailing bytes are
accepted, and messages are processed whatever the schema comparison said.

**Physics, animation, audio, input.** A break callback that changes constraints runs
into the map being iterated; a destroyed body leaves its constraints behind;
`lastImpulse` is stale once the cap cut the first pass. A transition from a state
to itself consumes its trigger and starts nothing; triggers raised in a crossfade
wait for its end; `triggerTransition` before `setInitialState` reads index -1.
`setVolume(Master)` does not reach sounds that play, although `AudioTypes.h` says
it multiplies all; a cooldown is consumed though nothing plays. A gamepad button
injected with no pad connected stays down (`stranded`) although `Input.h` 81
speaks of clearing it; a click on another button between press and release leaves
ImGui with the first one pressed (`overtaken`); a binding slot that was emptied
is not written, and its default comes back.

**Scenes.** The scene file is written in place, and its backups are unchecked. A
gap in the migrations ends the pass. A scene document that parses and has a field of
the wrong type throws out of the load with half the nodes made, since only
`json::parse_error` is caught (`SceneLoader.cpp` 67). `AssetManifest.cpp` 147-149 keeps the first of
two objects of one name and says that `SceneLoader` does; it finds the last.
Bounds documented in world space (`SceneLoader.h` 49) are transformed as local
ones. A reload destroys what the GPU may use, and descriptor sets are never freed
one by one, so that rebuilding ends at 256. A second load without `destroy` mixes
parents, a circle of parents recurses without end.

**Frames and passes.** After `OUT_OF_DATE` nobody recreates the swapchain; any
other error of acquire goes on with image 0. The bone palette is one buffer for
all frames, against `docs/ANIMATION_DESIGN.md` 102-104. The golden depth image is
copied without TRANSFER_SRC (`VkTexture.cpp` 119-120), and so may be the screen, on
a surface that does not allow it. The saved screen is copied from an image already
presented. The asset browser's watcher is never polled (`main.cpp` 920). A render
graph's layouts are taken as initial every frame, so a pass that was switched off
leaves its image strayed; recompiling leaks the query pool; a plugin pass loses its
switch in a reload. A shader's stamp is taken after it was read (`overtaken` in
`VkShader.cpp` 116-154), a failed first load is never tried again, an edited include goes
unnoticed. `PostProcess` destroys in a resize without waiting for the GPU and
silently drops an upscaler's source.

Many of the engine's services have no caller in the repository, the games are
elsewhere: physics, audio, input, render graph, pipeline registry, post-processing.
Their modules call them as their headers and documents say a game does.

## 6. What is not modelled

- How a client computes its requests from its replica: any request may come at
  any time, which includes what the lab client does. That the second of two clicks
  within a round trip starts from an old pose is a consequence nobody promised away.
- Bytes and digests of assets: a hash is the identity of the content. A sender
  whose bytes do not have the hash it announces is refused by `verifyHash` and
  again by `save`; no such sender is modelled.
- Sidecars (lights, cameras, materials, parents) set before a client joined: they
  are not replayed, a documented limit.
- Two servers on one data directory, and power loss.
- Failures inside a process other than those of files, sockets, streams and GPU
  surfaces named above, memory among them: a send of the server fails because its
  connection is shut down (`SendFails`), not because MsQuic has no room for it.
- Exceptions that nobody catches, which end the process: commands and scene documents
  with a value of the wrong type (section 5). Here both are well-typed or refused.
- A render pass's own predicate (`enableFn`): what it may say for a frame is what
  `SetPassEnabled` may have said before the frame.
- Bytes that no build writes and no cut makes: varints a byte too long, masks beyond
  the fields of a type.
- `AssetWatcher`'s whole directories: the one caller's watcher is never polled.
- The state of a game's own systems, and systems registered without a plugin.
- `AssetManifest`: the validation of one JSON file, sequential.
- Numbers that are sums and products of floats: positions, volumes, axes, poses,
  bounds, lights, cameras. Blend trees and sampling (`AnimationSystem.cpp`,
  `BlendTree.cpp`) are such arithmetic through and through.
- GPU resources, ray tracing structures and importers (`vk/*` but for those in
  section 1): sequences of Vulkan calls and parsers of third-party formats, whose
  correctness is in drivers, files and pixels.
- UI and cameras, `tools/`, logging: no protocol of their own.
- The bone palette, in `FramesDoNotCollide`: the code shares it between frames.

What could come next: catch-up of sidecars, once the server does it, and the bone palette,
once it is one for each frame.
