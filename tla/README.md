# A TLA+ model of Jota

Jota is a desktop and Android music player: a Go backend (`src/internal/`, bound
to the page through Wails in `src/internal/app/`) and a Preact/TypeScript page
(`src/frontend/src/lib/`). Its library (playlists, follows, saved lists, the
order of each shelf, a few settings) is kept on each device and reconciled with
other devices through one JSON document in a folder that some provider replicates.
Its listening rooms connect several pages through a websocket relay.

This directory holds TLA+ specifications of the parts of that program in which
the order of events matters, TLC configurations that check them on small
instances, and TLAPS proofs of the main results for every value of the constants.
Paths below are relative to `src/`; `internal/...` is Go, `frontend/...` is the page.

Contents: [inventory](#1-inventory), [modules](#2-modules-and-how-they-correspond-to-the-code),
[runs](#3-what-tlc-checks), [fairness](#4-fairness), [proofs](#5-what-is-proved),
[divergences](#6-where-the-code-and-its-comments-disagree), [limits](#7-what-is-not-modelled),
[next steps](#8-next-steps), [running it](#9-running-it).


## 1. Inventory

### How the parts interact

    page (Preact)                       Go (Wails App)
    -------------                       ----------------------------------
    views -- Follow/Rename/... ------>  playlists / follows / saved / ordering
                                          |   each store: one lock, one dirty mark
                                          v
                                        App.syncInBackground  (debounce)      SyncScheduler
                                          v
                                        App.syncFolder -> backup.Sync         FolderSync
                                          |   read, merge every section,
                                          |   write aside, rename, stat
                                          v
                                        <folder>/jota-backup.json  <---->  other devices

    autosave.tsx, backup.ts  -- stage, merge, commit, confirm -->  the same document on Android    DocumentPass

    room.ts <-- onOpen/onMessage -- transport.ts -- SyncConnect/SyncStop --> rooms.Relay   RoomTransport
       |  RoomSession                  ^------- sync:connected/closed/message ----|
       |                                                                          websocket relay
       +-- queue edits <--> queue.ts, player.ts, preview.ts                                QueuePlayer
       +-- prepare, resume --> audio.ts, cache.ts, one media element                       Playback

    router, header, history, sheets        Window, AppShell
      +-- playlist page, library shelf, rooms panel, clipboard banner, video editor
            PlaylistPage, LibraryShelf, RoomsPanel, ClipboardLink, VideoEditor

Every mutation of a store ends in `noteImporting`/`syncInBackground`, which asks for a
pass; a ticker asks as well. A pass calls `MergeSection` of each store under
that store's own lock; no lock spans two sections, or a section and the file.
The page and Go talk by calls (which run as goroutines of their own) and events.

### Components

| Component | State | Operations | What is hard | What makes it correct |
|---|---|---|---|---|
| **Background scheduler** (`internal/app/sync_folder.go`) | timer, generation, age of the burst, `syncQueued`, `syncRunning` | ask, timer callback, loop | timers that wake up while being stopped; two atomics and no lock; an ask while the loop is ending | one pass at a time; no ask without a later pass; a storm does not postpone it for ever |
| **Folder pass** (`sync_folder.go`, `internal/backup/`) | document, temporary file, `SyncStatus` (mtime, size, problem), dirty marks | settled check, full pass, overwrite, reload, import/export of a file | edits during a pass; other devices' renames; failed reads and writes; restarts; marks in memory | newest write wins; nothing is taken back; a device that believes itself in step is |
| **Follows** (`internal/follows/`) | entries with stamps, tombstones | Follow, Unfollow, MergeSection, ImportSection | order of passes; tombstones against entries; lost document | last edit wins everywhere; convergence |
| **Playlists** (`internal/playlists/`) | records, index, tombstones, each under its own key; shared song table of the document | Create, Delete, Rename, AddSongs, RemoveSongs, Reorder, MergeSection | several writes per operation; merge per playlist and per song; stamps that tie | the index lists only what loads; edits and deletions hold; metadata is not lost |
| **Ordering** (`internal/ordering/`) | a list per shelf, its stamp, dirty mark | Save, MergeSection | mark and stamp against a running pass | newest list wins (part of `FolderSync`) |
| **Carried settings** (`internal/backup/settings.go`, `internal/app/backup_settings.go`) | value and `-at` key, atomic mark | set, touch, Section, Apply | two keys and a mark that nothing ties together | newest write of a key wins (part of `FolderSync`) |
| **Saved playlists** (`internal/services/discord/saved/`) | as follows, with metadata | save, remove, merge | as follows | as follows |
| **Android document pass, page autosave** (`frontend/src/lib/music/app/backup.ts`, `sync_folder.go`) | staged file, baseline, slot of the queue | stage, merge, commit, confirm | a chain of awaits over a provider that may answer late or from a cache, and keep half a write; marks in memory | the baseline never moves past what was committed; every edit gets there |
| **Room transport** (`frontend/.../sync/app/transport.ts`, `internal/rooms/relay.go`) | page: status, role, wanted room, timer; Go: connection, generation | connect, stop, reconnect, dial, read loop | dials in parallel, late events, a timer, loss of the link | one connection; none after leaving; a lost room is recovered |
| **Room session** (`frontend/.../sync/views/stores/room.ts`) | round, pending load, join timer, spinner | join, prepare, play, control, sync | rounds with timeouts, snapshots across awaits | a round starts once released; an old round's timeout does nothing; a peer lands on the room's track |
| **Saved rooms** (`internal/rooms/store.go`, `use-room-form.ts`, `rooms.tsx`, `session.tsx`) | list, the panel's copy, password field | save, remove, connect, autosave after a pause | a timer that saves what a field holds by then; several mutations under way | a room keeps its own password; shelf and panel list what is saved |
| **Queue and player** (`frontend/.../music/views/stores/{queue,player,preview}.ts`, `app/queue.ts`) | list, position, source, shuffle, repeat, preview, stored copy | next, previous, edit, drag, shuffle, preview, media keys | an index into a list that is replaced under it; a room that edits the same list | the position keeps its song; members end up with one queue; storage follows |
| **Playback** (`audio.ts`, `cache.ts`) | load token, play sequence, ladder of retries, cache of streams, the one element, the armed retry | play, resume, recover, toggle, offline/online, the first gesture and its silent clip | async calls that overlap on one element | only the newest call acts; a dead stream is never dropped; no call hangs |
| **Pages and window** (`playlist.tsx`, `saved.ts`, `main.tsx`, `header.tsx`, `history.ts`, ...) | cached queries, selection, drags, staged removal, intents, mirror of the history | edit, remove, undo, rename, delete, follow, save, navigate | optimistic views, mutations and refetches in any order, stale captures | what is shown is what is stored; nothing leaves a playlist that nobody removed |
| **Clipboard** (`frontend/.../clipboard/`) | pending link, last one offered | check, open, dismiss | reads that overlap, a link that takes long to open | a link stays offered until it is used |
| **Video of a song** (`youtube-editor.tsx`, `cache.ts`, `services/youtube/service.go`) | link per song, cached stream, editor | open, type, search, save, resolve | answers that come after the editor moved on | a song keeps its own video, and plays it |
| **kv store** (`internal/kv/`) | handle, remembered error, buckets, cache | open, read, write, refresh | open that fails once | an error is not remembered longer than its cause |
| **Single instance** (`internal/single/`) | socket, lock | start, show, take over | start during exit | one owner of the store |
| **Spotify, Discord, covers, updates, presence** (`internal/services/`, `internal/covers/`) | sessions, tokens, caches | requests to services | network I/O | - |
| **App glue, refresh loop, Android shell** | wiring | - | - | - |

The hazards of the code, each at the line where it bites, are listed in
`PROJECT.json` together with the properties that cover them, or the reason why
none does.


## 2. Modules and how they correspond to the code

| Module | Models | Extends / uses |
|---|---|---|
| `BackgroundPass` | abstract: what the scheduler promises | - |
| `SyncScheduler` | `internal/app/sync_folder.go`, `syncInBackground` to `syncLoop` | implements `BackgroundPass` |
| `FolderSync` | `internal/app/sync_folder.go`, `internal/backup/{sync,service,settings}.go`, `internal/ordering`, `internal/app/backup_settings.go` | - |
| `Tombstones` | the reconciliation rule of a section with tombstones | - |
| `Follows` | `internal/follows/` on several devices | `Tombstones` |
| `Playlists` | `internal/playlists/` on several devices | - |
| `RoomTransport` | `frontend/src/lib/sync/app/transport.ts`, `internal/rooms/relay.go`, `internal/app/sync.go` | - |
| `RoomSession` | `frontend/src/lib/sync/views/stores/room.ts`: one member against relay and others | - |
| `Playback` | `frontend/src/lib/music/views/stores/audio.ts`, `cache.ts`, the sweep of `player.ts` | - |
| `DocumentPass` | `frontend/src/lib/music/app/backup.ts`, `autosave.tsx`, `syncDocumentAt`/`SyncWritten`, `SyncDocuments.java` | - |
| `QueueOps` | pure operators: `app/queue.ts`, `app/shuffle.ts`, `app/playback.ts` | - |
| `QueuePlayer` | `queue.ts`, `player.ts`, `preview.ts`, `media-session.ts`, `ui/queue`, `ui/player`, the queue part of `room.ts` | `QueueOps` |
| `Queries` | a cached query: asked, read, landed | - |
| `Window` | history and its mirror, open sheets, context menu | - |
| `PlaylistPage` | the page of a playlist, removal and undo, picker; the calls of `internal/playlists` it makes | `Queries`, `Window` |
| `LibraryShelf` | shelves, heart, follow, create | `PlaylistPage` |
| `RoomsPanel` | saved rooms, their shelf and panel | `Queries`, `Window` |
| `ClipboardLink` | the pending link and its banner | `Window` |
| `VideoEditor` | the video a song is linked to | `Window` |
| `AppShell` | routes, header, Escape, player sheet, the reload of an idle window; composes the five above | `LibraryShelf`, `RoomsPanel`, `ClipboardLink`, `VideoEditor` |
| `*Proofs` | theorems about the module they are named after (`SyncProofs`: `SyncScheduler` and `FolderSync`; `RoomProofs`: `RoomTransport` and `RoomSession`; `WindowProofs`: `AppShell`) | the module, `TLAPS` |
| `MC*` | the instances TLC checks | the module |

The library's synchronisation is cut in three layers, and each layer takes the
others as a step. `SyncScheduler` decides when a pass runs and treats a pass as
something that begins and ends. `FolderSync` opens the pass up and treats the
merge of a section as one step (which it is: it runs under the section's lock).
`Follows` and `Playlists` open that merge up and treat the pass as one step.
So the interleavings of a pass with edits and other devices are
explored with the simplest sections there are, and the merges with all their cases are
explored without the file system. Playback is cut the same way: `Playback` opens a load up, `QueuePlayer`
and `RoomSession` take a load as one await that ends well or not. On the page the cut is by view, and
`AppShell` puts the views back together on one history, one stack of sheets and one menu.

Operators named in a comment `mutated:` are not part of any specification: each is
a plausible mistake in the operator that follows it, used to see that
the properties notice it.

### SyncScheduler

An ask is named by the generation `syncSchedule` gives it. The callback of a timer
and the loop it may start are goroutines of their own, with program
counters `callback[g]` and `loop[g]`.

| Action | Code |
|---|---|
| `SyncSchedule` | `syncSchedule`, under `syncTimerMu`: stop the old timer, new generation, arm for `min(debounce, cap - age)` |
| `Wake` | the Go runtime starts the callback; past this point `Stop` has no effect |
| `SyncFire` | the callback's critical section: return if overtaken, else take the burst |
| `SyncQueue`, `StartLoop` | `syncQueued.Store(true)`, then the `CompareAndSwap` of `syncRunning` |
| `Swap`, `EndPass`, `ClearRunning`, `Check`, `Retake` | the accesses of `syncLoop`, one action each |
| `Tick` | time; a due timer or an awake callback is not left behind by the clock |

Time is kept as distances (what a timer has left, the age of the burst), so the
state space is finite without a bound on the clock. `waiting` and `burst` are history
variables that only the properties read. The pass carries asks up to its
start: `Swap` empties `waiting` because the pass reads the stores after it.

### FolderSync

One program counter per device walks a pass from the read to the last mark:
`read`, `order` (a section with a lock: `ordering.MergeSection`), `value`, `stamp`,
`apply`, `applied`, `synced` (a setting: `mergeSettings` with the calls of
its store one by one), `compare`, `write`, `rename`, `record`, `clear`. Two
sections stand for the document's six, one of each kind: playlists, follows and
saved are locked stores with a mark as the order is; an encrypted session is a
setting with a mark.

A value is the moment it was written, 0 for a missing key, so "newest" and
"which one" are the same question. `status[d].seen` says that the mtime and
size in the stored status are those of the file as it is now: `Record` sets it and
any replacement of the file clears it for everyone. `Settled` is `syncSettled`. A settled
automatic pass only moves the time of the last pass (`touchSync`), on
which nothing depends, so it is not a step. `ReadForced` is `SyncOverwrite` over a
file that cannot be read. `Restore` is `SyncReload` and `ImportBackup`,
`Crash` a restart (marks and pass are lost, stores and status stay), `Spoil` a
half-uploaded copy left by the provider's client.

`MCFolderSync` runs two instances as two scenes, *pair* and *turns*. `Overlap` and `exposed` deserve a word. `Overlap = FALSE` keeps the passes of
two devices apart, which is how the feature is meant to be used (a minute's interval
against milliseconds of a pass) and the setting in which convergence can be
promised. `exposed` is a history variable: devices whose last pass had another
device write between its own write and its own stat, or which
restarted with an edit or a pass under way. It lets one invariant hold with
overlap and crashes and say exactly which windows are left.

### Tombstones and Follows

A section maps an id to a cell: the stamp of its entry (or `Absent`) and of its
tombstone (or 0), as the two maps of `mergeSection` do. `MergeCell` is the rule: newest
entry against newest tombstone, a tie to the tombstone, `restore` overrides. `Rank` is the
total order that rule turns out to work on; it is not in the code but in
the proofs and in `DocumentGrows`. `Follow` and `Unfollow` compare names without regard to case
(`Fold`), the merge compares ids; the run takes one spelling per user.
`Stored` is the code's habit of writing the store only if the *set* of users
changed. Tombstones never expire, as in the code.

### Playlists

Each mutating call of the service makes several kv writes in an order (`Put`, `Enlist`, `Delist`, `Bury`, `Drop`, each a function from
a store to a store). The call is the stores it passes through and the one it ends with: `Completes` takes the end, `Stops` any of
them: the process died, or a write returned an error. The dirty mark is set as the code does (before the first write, or after the last one).
The four edits of one record are sets of outcomes (`Renamed`, `Added`, `Removed`, `Reordered`), said by what becomes of the songs, their order and their metadata.
`MergeDocument` is `mergeDocument` with `Wins` (newer stamp, local on a tie, except an untimed empty copy), `Rises`, `MergeTracks`; `ApplyMerge` is
`applyMerge`, one item after the other in the order of their ids, each saved (`Agreed`) and then listed, and the tombstones last.
`Marshalled`/`Unmarshalled` is the compact wire form: one song table for the whole document,
so that what one playlist knows of a song is known to all of them after a round trip. The metadata of a song is known
or not. `MCPlaylists` puts two instances of the module in one run as two scenes: *editing* with
deletions, cut writes, imports and ties; *syncing* without them, over a document from before stamps.

### RoomTransport

A `SyncConnect` call is a number; `at[c]` is where `Connect` is: asked, dialing, dialed
(the websocket is open but not yet in place), taken (in place, not announced), open
(announced, read loop running), or superseded, failed, done. The page's variables have their names in `transport.ts` and
the store. `asked` are calls on their way to Go, `events` those on their way to the
page; both keep their order. Each event handler is one action and includes what
the callbacks in the same tick do. `Seat`, `Refuse`, `Drop` are the relay.

| Action | Code |
|---|---|
| `UserConnect`, `UserStop`, `TimerFires` | `connect`, `stop`, the callback of `scheduleReconnect` |
| `OnRejected` | the `catch` of the call: `stop()` for the user's, `scheduleReconnect()` for the timer's |
| `OnConnected`, `OnLinkClosed`, `OnRole`, `OnError` | the handlers of the three events; `abandon()` on a fatal error |
| `BeginConnect`, `DialFails`, `DialSucceeds`, `Take`, `Open` | `Relay.Connect` split at its two critical sections |
| `BeginStop` | `Relay.Stop` |
| `ReaderEnds`, `Report` | the deferred part of `Relay.read`: compare under the lock, emit after it |

The backoff delay is left out (any delay is allowed), and a successful answer has no effect on the page.

### RoomSession

One page, the frames on their way to it (`down`), and what the relay and the other members hold (`room`).
An async function of `room.ts` is a *task* with a program counter over its awaits: `settle()` of round g is
task g, an `applySnapshot()` takes one of `Snapshots`, and `Solo` is a `resume()` nobody waits for. `me.round` is
`consensusGen`, `me.wait` the pending promise of `waitForPlay`, `me.spinner` is `pendingStart`, and `moved` of a
task says that `roundSeq` changed since the snapshot read it.

| Action | Code |
|---|---|
| `Press`, `OnPrepare` | `start` and `handlePrepare`, both through `settle` (`Settle`) |
| `YouTubeDone`, `LoadDone`, `WaitDone`, `AlignDone`, `ResumeDone`, `SoloDone` | the awaits of `settle`, each followed by its check of the round (`Overtaken`) |
| `ConsensusTimeout`, `OnPlay` | the timer of `waitForPlay`; `resolvePlay` |
| `OnSnapshot`, `SnapshotYouTube`, `SnapshotLoaded`, `SnapshotAligned` | `applySnapshot` from await to await |
| `JoinTimer`, `OnOpen`, `OnClosed` | `requestJoin`'s timer, the two callbacks of the transport |
| `OnControl`, `LocalControl`, `Heartbeat` | `applyControl`, `publish`, `applySync` |
| `Release`, `OtherPress`, `OtherControl` | the relay and the others (external) |

A load is one await that ends well, badly, or has given way to a later one; `Playback` opens it up.

### Playback

The state of the page's audio modules is one record, `page`; the calls 1..`Calls` are runs of `play()`, `resume()`,
`reloadCurrent()` and of the two listeners of the first gesture, call 0 is `recover()`. What an await hands back is put in the call's `answer` by one step and
read by a later one (`Continue`, `Settle`): that gap is where another call slips in. `loader` is the load token,
`newest` the play sequence, `pending`/`flight` the two maps of `cache.ts`, `held`/`src`/`ready`/`paused`/`broken` the
element (`Silent` is the clip), `primed`/`permitted`/`armed` the two gesture listeners and the leave to play.

| Action | Code |
|---|---|
| `Press`, `Toggle`, `PausePress`, `StopPress`, `Reload` | `play()` from the player, `toggleSong`, `pause`, `stopPlayer`, `reloadCurrent` |
| `Continue` | what follows each await: `ResolveDone`, `ElementDone`, `BufferDone`, `StartDone`, `RetryDone`, `ResumeDone`, `ReviveDone`, `UnpauseDone`, `GestureDone`, `PrimeDone` |
| `Settle`, `Expire` | a resolve answers; the URL of a stream is no longer accepted |
| `Buffered`, `Waits`, `Stalls`, `Breaks` | events of the element, and the network under it |
| `BufferTimeout`, `QuietEnds`, `RetryFires` | the timers |
| `Ends`, `Offline`, `Online` | the end of a track (or of the clip), the browser's events |
| `Gesture` | the first pointerdown or key: `primeAutoplay` puts the silent clip in the shared element (`Prime`), the retry of `armRecovery` runs after it (`Retried`) |

`Escalate` is the ladder of retries (`Rung`), `Sweep` is `player.ts` going to the next track not tried yet.

### DocumentPass

The chain of calls on the page (`queue`, `run`, `due`, `settled`, `deliver` and the panel's save, reload, pick, create,
adopt, leave) over the native side. A call of the page is `at[c]`, a native call a *job* that goes on when the page's
timeout has given up on it. `StageJob`, `InfoJob` and `CommitJob` are `SyncDocuments.java`; `Merge`, `Written`, `Reload`
are `syncDocumentAt`, `SyncWritten` and the import in Go; `Confirmed` is `syncWrittenAt`, which
moves the baseline. `OtherWrites` is another device. A copy that is cut short (`CutShort`) leaves an empty document or one that cannot be parsed (`Torn`): `commit` truncates the
document before it copies, `stage` the staged file, and either may fail on the way. Such a copy is merged as an empty document (`Read`), but a
reload of it is refused. `Restart` is the death of the process: the page starts over, a commit under way may be left half done (`Truncated`), and the marks
of what has not been saved are gone, as they live in memory; library, location, status and staged files stay.

### QueueOps and QueuePlayer

`QueueOps` has the pure functions (`pickNext`, `pickPrevious`, `delta`, `splice`, pinning, permutation: a seed stands for one order of
each length it is drawn for, `Draws`). `QueuePlayer` has
one action per command of `queue.ts`, `player.ts`, `preview.ts` and per gesture of the two panels: `PlaySelection`,
`PlayList`, `PlayNow`, `EnqueueMany`, `Unqueue`, `MoveQueue`, `MoveDown`, `MoveAfterCurrent`, `DragStart`/`DragOver`/`Drop`,
`PlayAt`, `GoTo`, `ToggleShuffle`, `CycleRepeat`, `TogglePress`, `MediaAction`, `Preview`, `TogglePreview`. `EditQueue` is what every edit ends in: the
index is moved with its track, the list is persisted, and the difference is sent to the room (`Frame`, `Delta`). `Join`,
`Receive`, `Adopt`, `AdoptYoutube`, `Reorder`, `FollowRoom` apply what the room sends; the peer and its two ordered
channels are external. `Relaunch` restores what was stored. `overlap` is a history variable: two edits crossed on the way.

### The window

`AppShell` EXTENDS the five views, which share `Window`. Every view has its `...Next` with its own variables; `AppShell!Next`
is the disjunction, and adds to each step what the shell does after it (`OpenSheets'` decides the order of the stack of sheets).

| Module | State | Actions and code |
|---|---|---|
| `Queries` | `fetch`: none, marked, asked, read, overtaken by an invalidation that did not cancel it, landed outdated | `Invalidated`, `Remounted`, `Reads`, `Lands`: TanStack Query as it is used here (external). Of a query that is not shown an invalidation only sets a mark; a fetch in flight goes on, and its answer takes the mark away |
| `Window` | `trail`, `at` (the browser), `pointer`, `top` (the mirror), `held` (open sheets), `menu`, `drag` | `visit`, `back`, `forward` of `history.ts`; `NativeMove`; `OpenMenu`; `Grab`, `Hover`, `LetGo` of the pointer drag |
| `PlaylistPage` | `stored`, `listed`, `fetch`, view, menu, dialog, removal, undo, picker, calls | `RowClick`, `Search`, `OrderBy`, `RowMenu`, `Choose`, `ConfirmRemove` then `TakeRuns`/`TakeAnswered`, `Undo` and its two calls, `DragStart`/`DragOver`/`Drop` then `OrderRuns`/`OrderAnswered`, `ConfirmDelete`, `RenameSave`, `Submit` of the picker |
| `LibraryShelf` | heart (intent, read, kept), follows, the calls of the follow controls with the mounting each is from, shelves, dialogs | `SaveButton`, `SaveMenu`, `FollowButton`, `FollowMenu` and their runs and answers; `FollowAsks`, a page that is shown again reads what was marked; shelf drags; `CreateSubmit`, `EraseButton` |
| `RoomsPanel` | saved list, form (code, rooms, timer), link, retries, calls | `TypeCode`, `TypePassword`, `Pause` (the autosave), `Blur`, `SaveRoom`, `Unsave`, `ConnectForm`, `LeaveForm`, `OpenRoom`, `JoinRoom`, `RemoveRoom`, `Retry` |
| `ClipboardLink` | clipboard, check, offer, opening | `CheckStarts`/`CheckReads`/`CheckLands`, `EffectRuns`, `OpenSong`, `OpenPage`, `Elsewhere` |
| `VideoEditor` | links, carried ids, cached stream, editor, saves, resolves | `EditorOpen`, `GotYouTubeId`, `TypeVideo`, `ReadLink`, `SearchFound`, `PickVideo`, `UpdateRuns`, `SaveAnswered`, `Resolve...` |
| `AppShell` | - | `Arrive`, `LinkTo`, `Escape`, `PressOutside`, `Play`, `ReloadWindow` (an idle window) |

A mutation is two or three steps: the press, the moment the store runs it, the answer. Whatever happens between them
is any other action of any view. `raced`, `muddled`, `crossed`, `strayed`, `halfway`, `overlooked` and `alone` are history variables, read by
properties only: each names a window of the code in which two calls overlap, and section 6 says what happens there.


## 3. What TLC checks

Twelve runs; each finishes well within five minutes on two workers.

| Run | Question | Bounds, and why they are enough |
|---|---|---|
| `scheduler` | Is every ask followed by a pass, one at a time, within the cap? | debounce 2, cap 3, 4 asks: the third ask of a burst is shortened by the cap, a fourth lands while a pass, the clearing of the flag or the re-check is under way |
| `follows` | Do follows converge, with the latest edit winning, whatever the order of passes? | 3 devices (an author, one that carries, one behind), one user, three edits (follow, unfollow, follow), one import, one lost document; ids do not interact as long as each is a user of its own |
| `folder` | When passes overlap step by step, is "settled" still true, and is no order taken back? When they take turns, do two devices and the document converge? | *pair*: 2 devices of which one imports, an order, a setting and a restart: the order is written, overtaken and merged while the other device's pass is anywhere; *turns*: two orders (one of them restored or lost in a restart), one restart, one fault, one import of a backup |
| `playlists` | Are edits, deletions, listings and documents kept, over cuts, imports and ties; do devices converge? | *editing*: 2 devices, one playlist, one song, three edits (create, add, delete or rename), one cut after any write, one import, ties; *syncing*: 2 songs, two edits, distinct moments, an unstamped document, no deletion |
| `playlists_deleted` | violated: see section 6 | 2 devices, one playlist, two edits (create, delete), nothing cut or imported |
| `rooms` | One connection, none after leaving, a lost room recovered? | two rooms, two joins, one leave, two faults: a slow dial of one room overlaps the other, and a lost room fails its first retry too |
| `session` | Does a round start once released and end, and does a peer land on the room's track? | two rounds or controls of anybody, one snapshot under way, one frame under way, one failure; page and room have a track on or none when they meet: a round supersedes a round, a snapshot meets a round, a timeout meets the late play frame |
| `playback` | Does only the newest call load, does every call end, does a recovery go on? | two songs, two `play()` calls beside the recovery, seven resolves, of which four are always left (`Room`: what one step may ask for), three acts of the user, one fault; repeat off |
| `document` | Is every edit carried, is the baseline what was committed? | one document, one edit here and one record of another device, two calls of the page, two acts in the panel, one fault: a timeout, a call that fails before, while or after it truncates what it writes, a stale copy, or a restart, in the middle of a commit too |
| `queue` | Does the mark stay on its track, does the other window rebuild the queue, does storage follow? | two songs (each twice in the queue at most), queue up to 3, five budgets (`MCBudgets`) of gestures, previews, remote frames and events: two gestures and a frame, one gesture and two frames, and so on |
| `ui` | Does each view end up showing the store and send only what was meant? | one playlist of three songs, one song another device adds, one external playlist, one account, two saved rooms and a code that is not saved, two songs and two videos; 25 scenes, each a budget of inputs small enough to let a few views meet (a drag beside an undo, a rename beside a failed call, a room opened while the panel types) |
| `page_stale` | violated: see section 6 | the same |

What each property says, beyond types (`...Safe` and `...Kept` are conjunctions; the parts are named in the modules):

* **Scheduler.** `SchedulerSafe`: `OneLoop`, two loops never take passes at once, even while the old one
  has cleared the flag and looks again; `AskCarried`, an ask that had no pass after it
  is always carried by a timer, a callback, a mark with somebody about to look at it; `StormBounded`. `BurstSettled`:
  a burst is taken after `Debounce` quiet ticks or at `MaxWait`, not earlier.
  `LoopRests`: the running flag is never left set. `ImplementsBackgroundPass`: all of it,
  with its liveness, as an implementation of `BackgroundPass`: every ask is followed by a pass that *starts* after it.
* **Folder.** `FolderSafe`: "settled" implies in step, unless the device is exposed.
  `OrderMonotone`: no read, merge, write or failure takes an order back. `TurnsConverge`: devices and document end with one
  order, the one saved last unless a restore put an older one back.
* **Follows.** `FollowsSafe`: the device that made the latest edit of a user never loses it.
  `DocumentGrows`: no write of the document puts an older record over a newer one. `FollowsAgree`: once edits stop, everyone
  follows the same users, and those the last edits say when nothing was imported.
* **Playlists.** `ListsSafe`: wherever an operation is cut, the index names only records
  that exist. `AuthorHolds`: an edit or deletion stands on the device that made it. `SectionKept` has four parts. `DocumentKeeps`: what the document
  stands by for a playlist, the stamp of its copy or of the tombstone over it, never goes back, and a playlist leaves it under a tombstone only. `KnownKept`: it keeps what it knew of a
  song that a playlist without a tombstone still lists. `HoldsFile`, `RestoreLists`: a pass or an import leaves the device listing what the file lists. `ConvergesSyncing`: same playlists, order and stamps.
* **Rooms.** `ConnectionSafe`: the connection in place is the latest `Connect`'s, every other
  open websocket is about to be closed by its own dial, and after leaving none is left or appears later.
  `OpenedFirst`: the page hears of an opening before any frame. `NotRetried`: the timer never dials a room that
  was left or refused. `RoomComesBack`: a lost room ends up connected *and shown so*, and the page ends open or idle.
* **Session.** `TypeOK`: the wait is the current round's. `RoundStartsReleased`: a round plays after its release and while current.
  `RoundsEnd`: the spinner goes, a silent join is asked again until it is answered. `LandsOnRoom`: left alone, a peer ends on the room's track.
* **Playback.** `PlaybackSafe`: the track the element is said to hold is the newest load's and the one on screen (it may have the silent clip in it: section 6); no call waits for
  something nobody will settle. `NewestDrives`: an overtaken call begins no load and moves the queue nowhere, but for a resume
  whose abort puts it on the ladder unasked (section 6). `TriedOnce`: a sweep
  comes to rest. `OnlySoundEndsRecovery`: a failed attempt never drops a recovery (the sound may be that of the clip).
* **Document.** `DocumentSafe`: one call at a time on the staged files; the baseline (`status.hash`) is bytes the provider received.
  `EditsCarried`: every edit reaches the document, over a commit that destroyed it and a restart that forgot the mark, and no call waits for ever.
* **Queue.** `WindowSafe`: storage has what needs no further write, a preview owes a resume only while there is one.
  `HighlightKept`: the mark stays on its track whatever moves the rows. `Converged`: once frames have arrived and
  no edits crossed, both windows have the same songs. `SkipsAsOffered`: buttons offer what pressing them does.
* **Window.** `OnlyConfirmedLeaves`: no song leaves the playlist without a confirmed removal or an order of a page that had not read it (section 6).
  `UndoKeepsOrder`: an undo moves nothing else, if the order it was offered with was the store's. `PageSettles`, `ShelfSettles`, `RoomsKept`: page, heart, follow control and room lists show the store
  once nothing is under way, nor to be read, and nothing landed outdated (section 6); a room is saved with a password typed for it. `LinkKept`: an offered link stays until used.
  `EditorKept`: a song is linked to a video meant for it, and its stream follows. `MirrorTrue`: the header's arrows know the history.

Deadlock is not checked: every bound on the user's steps ends a behaviour that in the program
would wait for the user. The liveness properties say what must not wait. Symmetry is not used: the runs are small enough without it,
and it is unsound for liveness.


## 4. Fairness

* `SyncScheduler`: weak fairness of each callback and loop (goroutines are scheduled)
  and of the clock. Nothing is assumed of asks. A pass returns (`EndPass` is part of the loop):
  its reads, writes and merges are local calls.
* `FolderSync`: weak fairness of the steps of a pass and of a setter's second half; strong
  fairness of the automatic pass, because another device's pass (milliseconds) disables it when passes do not overlap
  and its ticker asks again each interval. `RefreshSpec` adds the full pass a settled device runs when
  its snapshots are due; `TurnsConverge` needs it after a restart has
  forgotten the dirty mark, and fails without it. `MCFolderSync` states this fairness for its scene *turns*; *pair* is safety only.
* `Follows`, `MCPlaylists` (syncing): weak fairness of a pass of each device (`syncTicker`), with imports on.
* `RoomTransport`: weak fairness of the timer, the page's event loop, and every goroutine. A dial ends
  within its timeout. The faults are bounded, so a relay that is tried
  again and again is reached at last. Nothing is assumed of the user or of the relay's frames.
* `RoomSession`: weak fairness of the page's own steps (`Runs`: awaits end, timers fire, frames are handled), of `Release` (the relay has a
  deadline for each round) and of `Heartbeat` (the seat holder publishes on an interval). Nobody has to press, and nothing has to fail.
* `DocumentPass`: weak fairness of the steps of each call, of each job (a native call ends, or its timeout
  does), of the signal of the periodic pass, and of `Age`: the time after which a
  settled status no longer spares a full pass (`settled` in `backup.ts`). An edit whose mark a restart has forgotten waits for `Age`; without its fairness
  `EditsCarried` fails.
* `Playback`, `QueuePlayer`, `AppShell`: safety only, no fairness is stated. What the code promises there is about steps; "a song plays in the end"
  depends on services and on the user.

## 5. What is proved

The proofs hold for every value of the constants under the assumptions each module states by name
(`SchedulerAssumption`, `FollowsAssumption`, `IdsAssumption`, `FolderAssumption`, `PlaylistsAssumption`, `TransportAssumption`,
`SessionAssumption`, `DocumentAssumption`, `QueueAssumption`, and for the window one per view): any number of devices, asks,
ids, rooms, songs, edits, crashes and faults. Three of them deserve a word. `PageAssumption` and `PlaylistsAssumption` have finitely many songs. `QueueAssumption`
says that a seed is a permutation for each length it is drawn for, and covers at least the lists of the pages, of which none is empty (an empty page starts no
queue); `Draws` then keeps longer queues from being shuffled, in the runs and in the proofs alike.

* **`SyncProofs`**, the scheduler. `SchedulerInv` = types, `TimerInv` (the App holds a timer exactly
  while a burst is open, it is the latest ask's, and only it can be armed), `BurstInv` (what the timer has left against the age of the
  burst) and `FlagInv` (the running flag is set exactly while a loop owns it; a mark has somebody about to look).
  `OneLoop` and `AskCarried` are not inductive without `FlagInv`: nothing else rules out a set
  flag that no loop owns. `StormBounded` and `BurstSettled` follow from `BurstInv`. `SchedulerSafety` puts the state
  properties together. `SchedulerRefines` shows the safety part of
  `BackgroundPass`: a step of the scheduler is an `Ask`, a `Start`, an `End` or a stutter. Its liveness is checked by TLC only.
* **`FollowsProofs`**. `MergeIsNewest`: outside a restore the merge of two cells is the one of higher `Rank`.
  `MergeIsJoin`: so it is commutative, associative and idempotent, which is why the order of passes does not matter.
  `FollowsDocumentGrows` follows from it; `FollowsSafety` needs the invariant `NothingAhead`
  (no copy is newer than the latest edit) and is stated for one spelling per user.
* **`SyncProofs`**, the pass. `StepInv` follows the order through a pass: `CarriesInv` (from the merge on, the document in hand
  covers the store, unless an edit has marked it again), `WritesInv` (an unexposed device has its own document
  in the temporary file, then in the folder), `SeenInv` (what the stat saw stands until the file is replaced or the store
  marked). `FolderSafety` is `SeenInv` at rest. `FolderSettledOrder` shows that without restarts and overlap no device is ever
  exposed. `FolderOrderMonotone` needs only the rule of the merge and `PastInv`.
* **`PlaylistsProofs`**, for any devices, playlists and songs. Each write has a lemma on the store it makes, and an operation is `Sound` when every store it passes through lists only
  what it can open; so `ListsSafe` is inductive by itself, wherever an operation is cut. `PlaylistsInv` adds two parts. `Whole`: while nothing was cut a device lists all it
  holds. A merge compares copies by the index and applies them by the records, and only `Whole` makes these the same, which `HoldsFile`, `RestoreLists` and `AuthorHolds` need.
  `Authored`: no copy on a device or in the document is newer than the latest edit (`Bounded`), and its author holds it (`Held`), a deletion under a tombstone at least as new:
  `AuthorHolds` does not speak of the tombstone, and without it nothing keeps the playlist from rising again. A merge is used through `Agrees` (what it makes of both sides), `Takes` (what an applied one leaves of
  the store) and `WireIs` (what a document that is written and read back keeps), from which `SectionIsKept` follows. The attempt failed on `DocumentKeeps` and `KnownKept` as first
  stated: both had held because the run has two devices and one playlist. Section 6 says what a third device and a second playlist do.
* **`RoomProofs`**, the transport. Three invariants: what each call holds while it is waiting and that Go begins each once (`CallsWait`), which
  generations are drawn and that only the latest call's connection is in place (`Generations`), and
  that leaving clears timer and room and that a `Stop` is on its way as long as a connection might be left (`Leaving`).
  `TransportSafety` and `TransportNotRetried` follow. `TransportOpenedFirst` needs a fourth, `Announcing`: a connection that is open was
  announced, and nobody reads before it is open.
* **`RoomProofs`**, the session. The page is followed through the helpers its handlers are made of (load, resume, settle, end of a wait): each
  maps a page to pages that keep `RoundHolds`, so an action that calls several of them does too. `RoundHolds`: the wait for the play frame is the current round's, and the
  current round aligns only once the relay has released it. It gives `SessionTypeOK` and `SessionRoundStartsReleased`.
* **`DocumentPassProofs`**. The queue of the page is a chain that calls join, leave from the head and retry at the end of; `TypeOK`
  (two calls never touch the staged files at once) is not inductive by itself. `ChainHolds` gives each call in the chain a rank: rank 1 and no
  other is active, rank n + 1 is chained after rank n, `running` has the highest. `EndsHolds` shows that the end of a call moves every rank down by one and lets nobody past but
  those who waited. `PageHolds` adds that every native call still heard answers the step that asked for it, `WrittenHeld` that an answer about to be
  confirmed has reached a provider; `BaselineHeld` is then inductive: a late, failed, torn or timed-out commit never becomes the baseline (`TruncatedType`: a write cut short
  counts as nothing received).
* **`WindowProofs`**, about `AppShell`, where one step may be any view's. Each property has a frame lemma: a step of another view leaves its variables alone, or does
  to them only what a closing, mounting or reloading window does. What is left are the steps of its own view, one step each.
  `WindowMirror`: `HistoryInv` ties the mirror to the trail while nothing has `strayed`. `WindowLinkKept`: every reading that ends, effect that is due and page that opens
  speaks of the link it was started for (`LinkInv`). `WindowShelfSettles`: an intent is dropped only by the answer that knows better, so a heart at rest
  shows `kept`, and `kept` the store (`HeartInv`); a follow call that asked for a reading is over only when the reading has landed, and one that is answered while the page is
  elsewhere leaves a mark, or an outdated value that is owned up to (`alone`), so nothing else leaves the control behind the store (`FollowInv`, `MenuInv`). A control mounted again while
  calls of an earlier mounting are out is free, and may show what is no longer stored: the property speaks of it once they are over.
  `WindowEditorKept`: what the field, a save and a resolve carry was meant for their song (`MeantInv`), and a save under way is all that keeps stream and link apart (`StreamInv`).
  `WindowRoomsKept`: a panel that may still save holds a code and a password meant for it, or the pause is not running (`Meant`); a call carries what is saved, or will be, and every
  answer brings shelf and panel to it (`InStep`); what has not begun holds nothing (`Unbegun`).
  `WindowLeaves` and `WindowPageSettles` rest on `PageInv`, about the page of a playlist: whatever is sent - an order, a removal, a song put back - lists what the page listed, or
  what was confirmed (`Sends`), so a song leaves the store in an order only if the page never listed it; and the list is the store as it was read, until a call of the page is
  `Excused` by what overlapped it, or a fetch is asked that will bring it back, or the page shows an outdated value as fresh (`Owed`, `ListTrue`).
  `WindowUndoKeepsOrder` needs `UndoInv`: until an order has run, the store keeps the songs that stay in the order a removal was offered with, whatever is taken, added or brought by a
  pass meanwhile (`OfferInv`), and an undo sends them in the order they had when it was pressed (`RestoreInv`). It rests on what the model's `Only` keeps of a list: `OnlyPlaces` and `PlacesOnly` say
  that it is read along the one list of places that grows, so that `Only` of `Only` is `Only` of both (`OnlyOnly`), and what is added behind a list is not seen by it (`OnlyConcat`).
  The attempt failed on the property as first stated, see section 6; it now says which removals it speaks of, and in return holds with calls of the page under way beside the undo.
* **`QueuePlayerProofs`**, for any songs, lists and orders, and any number of gestures and frames. What a step of the window does to the queue is one of three things: the queue
  `Stays`, the mark `Moves` to the row that is shown, or rows are put in, taken out, moved or shuffled (`Edits`, with the frames sent for it). Each action is shown to be one of them, and
  each of the three to keep `QueueInv`, which has four parts. `PlayerInv`: a paused main track is owed its resume to a preview that is there. `PlacedInv`: outside a room the mark is
  on a row, in the window and in storage, which `SkipsAsOffered` follows from. `StoredFollows`. And `RoomInv`, for `Converged`: `Leads(ids, frames, goal)` says that the frames on their way, applied one after
  the other, take one device's songs to the other's; an edit appends frames that lead on from where the last one ended (`DeltaIs`: what `delta()` finds, `Splice` rebuilds),
  and receiving a frame takes the first off. `InStep` says it of both directions while no edits have crossed. `HighlightKept` is shown step by step (`MarkStays`): `Placed` and `Marked` say where the mark
  of an edited queue is, `FindIs` that the first copy is the only one.
* **`PlaybackProofs`**, for any queue, any number of overlapping calls and any repeat mode. As in the session the page is followed through the helpers: each
  maps a page that keeps `PageHolds` to one that does, and says what it leaves alone (`Undisturbed`, `Others`). `PageHolds` has four parts: which call may stand at which await with which
  answer (`CallsHold`); a request said to be under way is one for that song, and so is the one a call waits for (`CacheHolds`); what is awaited of the element can still come
  (`ElementHolds`); the newest call never fails while another is about to play through the element (`SpareHolds`), without which giving up a queue, which empties the element, would leave
  that other at a start that never comes. `Owned` stands apart because `playAtIndex` moves the current song first and asks for its stream after: it ties `loader`, `current`, `loaded` and a waiting reload
  together. `Drives` is what one continuation may do to the others, the queue and the load token; the three action properties follow from it, since an answered call is changed by its own
  continuation only (`AnsweredMoves`). `LatestOwns`, `NothingHangs`, `NewestDrives`, `TriedOnce` and `OnlySoundEndsRecovery` are all proved. The attempt on `NewestDrives` failed on an aborted resume,
  which the run's bounds had not reached; the property now names it.

Every safety property of a passing run is proved. Only model-checked is liveness (`FollowsAgree`, `ConvergesSyncing`, `TurnsConverge`, `RoomComesBack`, `RoundsEnd`, `LandsOnRoom`, `EditsCarried`,
`LoopRests`, the liveness of `BackgroundPass`), because temporal reasoning about fairness and `ENABLED` is beyond the prover.


## 6. Where the code and its comments disagree

Two disagreements are runs whose counterexample is the argument:

* `page_stale`. `Reorder` (`internal/playlists/playlists.go:255`) keeps only the references it is sent. A song another device
  added is in the store and not yet on the page; a drag sends the order of the page, and the song is dropped, against "Unknown
  references are dropped, so a stale frontend cannot corrupt the stored list" (`playlists.go:237`). `OnlyConfirmedLeaves` exempts exactly these songs.
* `playlists_deleted`. `mergeDocument` (`internal/playlists/merge.go:146`) starts from what the store lists and weighs tombstones against the items of the remote document
  only. Two devices hold a playlist, one deletes it and writes the document; the pass of the other keeps its copy and writes it back beside the tombstone, against "so a deletion travels
  instead of being undone by the next device that still has the playlist" (`section.go:97`). This is why the syncing scene deletes nothing.

The rest was met while modelling. Each is the reason for an exemption in a property, a bound, or a history variable.

*Library and folder.*

* `recordSync` (`internal/app/sync_folder.go:121`) stats the file after `Sync` renamed its document into place.
  A document another device puts there in between is recorded as the one this device
  reconciled, and `syncSettled` then answers true for a copy that was never read, until the next full pass: the first kind of `exposed`.
* The dirty mark lives in memory (`internal/ordering/ordering.go:95`): a restart forgets it, and a settled
  folder gets the edit with the next full pass only. The second kind.
* `mergeSettings` (`internal/backup/settings.go:53`) reads, merges and applies without a lock:
  a setting written in between is replaced by an older value, against "the newest write of each key wins". `Synced()`
  (`sync_folder.go:459`) clears the mark of a write made during the pass, and a restored setting is not marked (`settings.go:58`).
* What follows from `playlists_deleted`. The copy in the document is not read while its tombstone is as new (`merge.go:181`), so a device that dropped the playlist never gets it
  back; and when two devices still hold it in different versions each pass writes its own, an older one over a newer one included, against "newer copies win" (`merge.go:90`). `Standing` is therefore
  the later of the copy and the tombstone over it. A playlist that an import restored reaches no other device either until it is edited: the import lifts the tombstone of its device, not the document's.
* What is known of a song is kept per playlist, and the document's table holds what the listed ones know (`section.go:126`): a pass that brings a playlist with a bare song while another, which knew it,
  drops it writes the song without metadata, against "whatever one side knows and the other does not is kept" (`merge.go:193`), unless a cache of the device knows it. `KnownKept` is therefore about one playlist.
* Two edits in one millisecond keep two versions (`merge.go:36`); a merge cut between the record
  and the index leaves a record that is never listed (`merge.go:261`).
* Two spellings of a user: `Unfollow` (`internal/follows/follows.go:105`) matches without case and buries one id; the other spelling
  comes back from the document. An import that undoes an unfollow keeps the entry's old stamp (`section.go:126`), so
  the next pass undoes the import.
* Android: the dirty marks are lost with the process here as well: an edit is then not pending, and waits until the interval has aged the status. A commit that fails, or dies with the process, has truncated the
  document first (`SyncDocuments.java:314-339`), so another device may read an empty or unreadable one until this device's next pass. `keep()` stages outside the queue, against `backup.ts:277-280`; a commit that timed out and runs after
  `SyncWritten` removed the staged file truncates the document, until the next pass writes it; `SyncWritten` clears the marks of edits
  made during the commit and records the folder that is current by then; `stage` reads its metadata after copying.

*Rooms.*

* `Connect` compares its generation only after a dial that succeeded (`internal/rooms/relay.go:87`): a superseded
  dial that fails rejects, the page's `catch` calls `stop()`, and the room joined meanwhile is left, against "superseded
  this dial: drop it silently" (`relay.go:97`).
* A `sync:connected` on its way when the page stops leaves the status "open" until the close
  that follows; a fatal error frame of the room just left, handled after the next `connect()`, abandons the new room: frames carry no room.
* A reply of a room that plays nothing stops the player under a round that began meanwhile (`room.ts:278`, against 299-301); a late end of a `resume()`, or a
  failed snapshot, clears a newer round's spinner; a snapshot past its last look at the rounds may resume after one started; a
  reply that names an empty track leaves a peer's own track on, and the heartbeat rejoins for ever.
* Rooms panel: a panel opened on an old password of the local storage saves it over a newer one after its pause; a row tapped within the
  pause keeps the old code with the new room's password; save and remove may run in either order; the shelf's answers do not reach an open
  panel's copy: `muddled` names these. While connected to one room, typing the code of another (or opening another row) overwrites the password
  the retry uses (against `use-room-form.ts:98-101`), and the shelf shows the other room as current; a code typed before the list
  has loaded clears the password; rooms with one code on two relays share the mark of the active one.

*Playback, queue, editor.*

* The first pointerdown or key puts the silent clip into the shared element whatever it holds (`cache.ts:141-154`, `audio.ts:664-678`): a load that was waiting
  for the element takes the clip for its song, or the clip's end is taken for the song's and the queue moves on; an armed retry registered behind it plays the clip, which is then paused under
  a page that shows it playing. `restorePlayback` (`audio.ts:967-970`) avoids the collision for the track restored at launch, and only for that one.
* `getAudioElement` swaps the shared element's source before it looks at the token (`audio.ts:418`, `cache.ts:168-172`, against `audio.ts:39-40`). A load superseded
  by a recovery pauses the element the recovery revived (463-465); `online` starts the recovery of a track that was restored and never played
  (927-930); a pause during a recovery is undone by it, a pause while starting leaves the spinner; an armed
  gesture restarts an old song (630-654); an autoplay block on the third rung marks the song as failed; the resume path of `play()` after an abort (577) loads without looking whether it was superseded.
* A shuffle that came from the room is sent back to it (`room.ts:525-526` says queues are not), and the queues of two members can
  differ for good after one; a shuffle pressed while joining is published before the snapshot; `delta()` does not look at YouTube ids when it finds an insertion. Removing
  the playing track shows the next one without loading it; removing the loading one leaves it playing under another title; an index set by a round
  is not stored; media keys and a room's play sound over a preview; drags use row numbers of when the pointer went down; the mark
  goes to the first copy of a song that is in the queue twice.
* The answer of a save fills the field of an editor opened meanwhile on another song, and one pressed during the reload of the stream links
  that song to the wrong video; a late answer overwrites what was typed, or closes an editor opened later; a resolve in flight during a
  save puts the old video back in the cache. `crossed` names these.

*Pages.*

* A page that is left while it reads, and whose playlist is changed before the answer lands, comes back with the older list: the invalidation of a query that is not shown does not cancel the fetch, the fetch's success takes its mark
  away, and `staleTime` (`query-client.ts:3-13`) keeps the list for five minutes (`Outdated`). The follow control likewise; and its `isPending` is of one mounting (`follow.tsx:65-75`), so a control of a page left and
  come back to can be pressed while the earlier call is out, on a value that is no longer the store's.
* A drag beside a fetch leaves the page showing an order the store does not have; two orders may run in either order; undo is offered
  before the removal is answered, and a failed undo loses the offer; deleting from the page does not expire a staged removal (`main.tsx`
  does); the answers of delete and create navigate wherever the user has gone; an answered picker closes one opened later and clears a newer
  selection, and a partial failure leaves the playlist, so that a retry makes a second one.
* A removal confirmed while the page still lists an order the store has refused, or has not read yet what an earlier undo did, is offered with that order
  (`playlist.tsx:186`), and undoing it applies the order to the store. `clean` of `removal` and `undo` leaves these out of `UndoKeepsOrder`; both were found by the attempt to prove it.
* The first answer of a heart drops the intent of a second press; `following.tsx:223` writes another query key than 72 reads; the order saved by a shelf
  drops the rank of hidden items; one Escape reaches every listener; the browser's own back and forward, and a push of the current URL,
  stray the mirror of the history (`strayed`); the idle check comes before two awaits and reloads a window the user returned to; a view that unmounts mid-drag
  leaves the drag set.
* A song link that finishes opening clears a newer link, which is not offered again (`LinkKept` counts it as settled).


## 7. What is not modelled

* *kv store* (`internal/kv/`): the database is a library; a write is a step of the stores above it. *Refresh loop*: independent jobs whose only shared state is its cache.
* *Single instance*: rests on what the operating system does with the socket and lock of a process that dies.
* *Spotify and music catalog, Discord, covers, updates, presence*: I/O with outside services, little state of their own.
* *Saved playlists*: the heart and its store are in `LibraryShelf`; the merge of the section is the rule of `Tombstones`, with metadata per entry, and is not instantiated a second time.
* Of the folder: choosing it and the panel that shows it. Of settings: which ones travel, and how sessions are sealed. Of playlists: snapshots of
  playlists a service owns, covers, the track cache, hashing of foreign ids.
* Of rooms: the relay form and its token, status polling, reordering the shelf of rooms, member names and colours, the clock offset.
* Of playback: volume and muting (the clip mutes the element until the next load), the progress bar, seeking. Of the page: layout, search, settings pages, lyrics, the rendering of rows. Of Android: the web
  view, the media service, permissions.
* Bounds that are part of a model rather than of a run: one relay; one removal, undo, delete, rename and create under way at a time on a page
  (`header.tsx:229-235` and `removal.ts:39` do not keep a second undo from starting); what is fresh stays so for a run (`staleTime`, `gcTime`); a window is reloaded only outside a room; one peer in
  `QueuePlayer`, one page in `RoomSession`.
* One step in the model, several in the code: the sections of a restored backup (`service.go:131-193`; `Restore` of `FolderSync`), the writes of the song cache (`tracks.go:17-96`; `RememberTracks`), and the copying
  of a document by the platform, which another device or a call that was given up on may read halfway.
* Cases left out: a folder without the document but with another `*.json`, which the code reads and adopts by a rename (`sync.go:84-123`, 181-186); deleting or editing a playlist whose record is there but which is not
  listed; a room's copy of the queue that is behind because members grew (`room.ts:457-463`; `Connect` gets the current one), and joining again after `Leave` in `QueuePlayer`; the other candidates the backend tries when a
  linked video cannot be fetched (`services/youtube/service.go:33-39`, 79-103; here the resolve fails). `transport.ts:211` does not wait for `SyncStop`; the model still has calls reach Go in the order they were made.
* In the modelled parts: formatting and parsing of JSON (a file parses or not), encryption of
  sessions (opaque values), logging, error texts, clock skew between devices (stamps come from one clock),
  the backoff delays.


## 8. Next steps

1. `Library`: an abstract last-writer-wins library which `FolderSync` (with passes apart) and `Follows` implement, by
   refinement.
2. Saved playlists as a second instance of `Tombstones`, with the metadata of an entry; convergence of
   playlists with deletions, once a deletion travels.
3. `SingleInstance`, `KvOpen`: small protocols.
4. Proofs: the overlap properties of `RoomSession` beyond `RoundStartsReleased`, the safety of refinement 1.


## 9. Running it

    tlc -workers 2 -config SyncScheduler.cfg MCSyncScheduler
    tlc -workers 2 -config FolderSync.cfg MCFolderSync
    tlc -workers 2 -config AppShell.cfg MCAppShell
    tlapm SyncProofs.tla

`PROJECT.json` lists every run with its module and configuration, the source lines each
definition models, the mutations each property notices, the hazards and the theorems.
