# Sonix Player: a verification development

Sonix Player is replacement firmware for two small music players (HiBy R3 Pro II
and R1): one C program, `sonix-player/src`, that owns the screen, the codec, the
card, the network and Bluetooth. This directory models the parts of it in which
threads, files and devices meet, checks the models with TLC, and proves what
matters most about them with TLAPS. The source is the reference; where it and its
own comments disagree, a run or a note below shows it.

## Contents

| file | what it is |
|---|---|
| `AudioEngine.tla` | the playback engine: the playback thread and the transport calls |
| `AudioPromises.tla` | the engine with the history of what was asked of it |
| `Transport.tla` | the abstract transport that the engine implements |
| `AudioEngine_proofs.tla` | the inductive invariant of the engine and its theorems |
| `GrowFile.tla` | files read while they are being downloaded |
| `GrowFile_proofs.tla` | the table of growing files, proved |
| `Downloads.tla` | the downloads: the turn, the generation, the marker, the cleanups |
| `Downloads_proofs.tla` | what the turn protects and what the marker means, proved |
| `Scrobbles.tla` | plays kept for Last.fm: memory, the queue on the card, the account |
| `Scrobbles_proofs.tla` | whose a play is wherever it is, and when it may leave, proved |
| `PlayQueue.tla`, `MCPlayQueue.tla` | the queue, what walks it, and what the card keeps of it |
| `PlayQueue_proofs.tla` | the order is an order, edits are exact, the queue goes on rightly, the card gives it back: proved |
| `LatestAnswer.tla` | the abstract promise of a loader: the newest question's answer, once |
| `CoverLoader.tla` | the two threads that decode and identify covers, which implements it |
| `Covers.tla`, `MCCovers.tla` | the loader with the player, a list and the screensaver that ask it |
| `Covers_proofs.tla` | the loader and the whole: invariants, the refinement, no leak, the right cover, proved |
| `Card.tla` | who has the memory card: five threads, two locks and a flag |
| `Card_proofs.tla` | who holds which lock where, and what follows for the card, proved |
| `Radio.tla` | a live station: the presses, the player thread, the filler of its ring |
| `Radio_proofs.tla` | that a stop is heard and the screen tells the truth, proved |
| `*.cfg` | one TLC run each |

## The system

One process. The **interface thread** runs LVGL and every button handler. Workers
do what blocks. There is one core, so a worker runs at background priority and the
playback thread at real-time priority. Most modules guard their state with one
mutex, and hand results to the interface through flags that it polls.

| component (under `sonix-player/src/system`) | state it keeps | operations | meets |
|---|---|---|---|
| playback engine (`audio/audio.c`) | a mailbox of one request, command, status, seek, progress, the open or held PCM | play, play at, load paused, pause, resume, stop, seek, freeze, external begin and end | interface thread, card supervisor, USB, AirPlay, downloads |
| growing files (`decode/growfile.c`) | a table of 4 files being written, with the bytes on disk | announce, progress, finish; open, read, seek | download threads write, the playback thread reads |
| external outputs (`usbdac.c`, `gearboy.c`, `airplay.c` through `audio_external_*`) | who has the DAC, whether it yields | begin, begin yielding, write, end | the playback thread |
| read-ahead (`audio/readahead.c`) | the file wanted, the one done, whether the worker runs | ask for a file; the worker reads it through in blocks, into the page cache, while it is still wanted | device state, worker |
| codec gate (`audio/alsa-controls.c`) | the route, "being set up again" | route, park, re-initialise | suspend, playback |
| suspend (`device/power.c`) | idle timer, screen, wake source | freeze, park, sleep, wake | engine, codec, Wi-Fi, Bluetooth |
| queue (`playback/playlist.c`) | tracks, position, shuffle order, repeat | next, previous, insert, remove, move | device state, library |
| device state (`playback/device_state.c`) | loaded track, queue source, saved position | toggle, seek, next, completion, resume | engine, queue, config |
| downloads (`streaming/*cache.c`, `streamturn.c`) | the turn, the generation, markers on the card | start, abandon, prune | growing files, HTTP |
| podcasts (`streaming/podcast*.c`) | subscriptions, episode state | refresh, mark, sync, prune | downloads, device state |
| radio (`streaming/radio.c`) | what the screen shows, the generation, the open connection, the ring | play, stop, resume, unload; connect, decode, try again | interface thread, HTTP, external outputs |
| library (`library/*.c`) | SQLite index, artwork | scan, cancel, query | card, interface |
| covers (`../gui/nowplaying/coverloader.c`, `cover.c`) | a job for each asker: path, generation, result | request, withdraw, take | the player, lists and the screensaver ask; two threads answer |
| card and USB (`device/system.c`, `usb.c`) | mounted, exported, whether the databases are attached, who has the controller | mount, unmount, lend, take back, release | engine (stop), library, everything with a file open |
| network (`net/wifi.c`, `http.c`, ...) | association, known networks | scan, join, leave | everything on-line |
| Bluetooth (`bluetooth/*.c`) | stack, links, volume | power, pair, connect, suspend | engine, suspend |
| remote (`remote/*.c`) | sessions | AirPlay, DLNA, SonixLink | engine, external outputs |
| scrobbling (`lastfm/lastfm.c`) | a queue on the card | add, send, drop | network, device state |
| core (`core/*.c`) | settings, debounced save | get, set, save | everything |
| interface (`../gui/`, `../main.c`) | pages, watchdog | draw, input | everything |

Hard behaviours. Two threads write the engine's command and status, and the
playback thread writes them back at a track's end; flags are read without a lock
by a suspend that then cuts the power; a seek, a stop and a new track race the
thread's own exits; a download can end, die or be started again under a reader;
the DAC is lent to others by agreement, not by a lock; a card can be pulled while
any of it runs. What makes each component correct: a request supersedes and is
never lost; a stop is final; one stream at a time; a flag read without a lock is
never falsely down; positions belong to the track they were asked for; a reader
hears the whole file; a waiter is always woken; what is saved is what was shown.

## The playback engine

`AudioEngine.tla` models `audio.c` from the mailbox to the PCM. One action is one
hold of `audio_mutex`, or one stretch of the playback thread between two holds.

| state | in the code |
|---|---|
| `audio_command`, `playback_status`, `play_request`, `current_filepath`, `write_fail_retry_used`, `seek_request`, `seek_target`, `track_completed`, `hold_flush_request` | the globals of the same name |
| `progress_current`, `progress_floor` | the position shown, and the floor that hides a rewind |
| `restart_fresh` | the bookmark a freeze arms: `restart_fresh_path` and its seconds |
| `playback_context_active`, `pcm_device_open`, `held_pcm` | the flags read without the mutex |
| `pc` | where the playback thread is |
| `filepath`, `pcm_handle`, `is_paused`, `played`, `played_to_the_end`, `target`, `queue_from` | the locals of `play_wav_file()` and `play_decoded_file()` |
| `pausing` | a caller that has read PLAYING and is about to call `audio_pause()` |
| `ui`, `frozen` | the interface thread inside `suspend_to_ram()` |

The thread's places, in the order of the code: `idle` (the wait for a request),
`flush` and `closing` (a held stream taken out and drained), `open` and `device`
(the decoder, then the stream), `loop` (the checks at the top), `seek`,
`seekwait`, `rewind`, `read`, `empty`, `ended`, `failed`, `giveup`, `write`,
`exit`, `close`, `leave`. `play_wav_file()` and `play_decoded_file()` are the same
loop; where they differ, whether the file is in `Wav` decides. The position is a
count of blocks. What a device is and which format it takes is abstracted to
whether the call that opens it succeeds (`Faults`).

The callers: the interface thread's play, load paused, seek, toggle, completion
and suspend; the AirPlay receiver's pause; the stop of the card supervisor, the
USB export and the USB DAC. The interface thread is busy between reading a status
and acting on it, and for as long as a suspend takes; the others are not.

`AudioPromises.tla` adds what was last asked for (`wanted`), whether it has been
stopped since (`cancelled`) and for which track a seek was meant (`seek_of`). No
action reads them.

`Transport.tla` is the promise without the means: a mailbox of one, one track
running, one stream that is the track's or held. `AudioEngine` implements it with
`queued`, `running` and `device` read off `play_request`, the context flag and the
two handles.

### Runs

| run | shows |
|---|---|
| `engine_control` | two tracks, one WAV and one still downloading, any call failing: one stream, truthful flags, a safe suspend, no write without a stream, real ends and current bookmarks; what was called for last stands, and ends and seeks belong to the track they were meant for |
| `engine_liveness` | with a fair playback thread the transport is implemented, and requests, stops, seeks, releases and freezes are served, whatever fails |

Bounds. Two tracks are what it takes for one to replace another; two blocks for a
position that is neither start nor end; every other variable is finite in the
code. With one track of one block the liveness run still has a request for a track
supersede the same track, which the code treats alike. `engine_liveness` has every
fault; `engine_control` all but `"memory"`, which leaves the device flag up (below) and
for which its other properties are proved. The engine never
deadlocks, so deadlock is checked.

Fairness. Weak fairness of the playback thread as a whole: it runs at real-time
priority, and each call it blocks in has a deadline (`snd_pcm_wait`, the waits of
`growfile.c`) or polls (a pause). No caller is assumed to come back.

### Where the code and its comments disagree

Seen while modelling. The end of a track writes STOP (3792) without asking whether
another is queued, and so do the failed opens and the give-ups: a track asked for
just before is picked up with STOP as its command, and its routine leaves at once.
`audio.c:532` says of that moment that writing over the new track's PLAYING must not
happen. An invariant `play_request /\ ~cancelled => audio_command # "STOP"` of
`PSpec` fails in seconds; `CallsStand` is what does hold of such a request.

`retry_track_once()` queues the thread's own track again, whatever was asked of the
engine while it was failing. It undoes a stop made for an unmount (`system.c:801`
says why that stop comes first), it overwrites a track asked for just before, and the
old track then begins where the new one was to; a seek asked of the new one is taken by
the old. `AudioPromises` counts the retry as a call (`Retried`); with `Retried`
remembered as any other step of the thread, `StopIsFinal`, `LastRequestWins` and
`SeekReachesItsTrack` each fail with `Faults = {"read"}`.

A track loaded paused at its beginning is moved by a seek asked of the track before
(`device_state.c:598` says that it comes up at its beginning): `SeekReachesItsTrack`
with `StartsAt = {0}`. The run has `{1}`.

Also seen, and in no property. A pause, a seek and a resume within one turn of the
loop write to the stopped stream (`audio.c:2865` says that an unpause always reopens
the device). `audio_play_at()` and `audio_play_paused()` leave the completion of the
track before unread (`audio.c:4151` says that fresh playback consumes it). The WAV
routine takes any empty read for the end (`audio.c:3771`). `NoBuffer` leaves
`pcm_device_open` set with no stream behind it, until the next track closes its own:
`DeviceFlagTruthful` is checked and proved without the fault `"memory"`, and a freeze that
meets the flag left up times out, each time (`FlagLeftUp`). A stream held for gapless stays
held as long as one track after another is asked for that cannot be opened.

### Proofs

`AudioEngine_proofs.tla` proves, for every set of tracks, every length and every
set of faults, that the specification keeps:

| theorem | statement |
|---|---|
| `TypeCorrect` | `TypeOK` |
| `OneStreamHolds` | `OneStream` |
| `StreamIsSoundHolds` | `StreamIsSound`: `OneStream` and `WritesHaveAStream` |
| `SuspendIsSafe` | `SuspendSafe` |
| `WritesAreSafe` | `WritesHaveAStream` |
| `BookmarkHolds` | `BookmarkIsCurrent` |
| `FlagIsTruthful` | `DeviceFlagTruthful`, if memory does not run out |
| `EndsAreRealHolds` | `EndsAreReal` |
| `CallsStandHolds` | `CallsStand`, of the history that `AudioPromises` adds |
| `EndsAndSeeksHold` | `EndsAndSeeksAreOfTheirTrack`, if no track is loaded paused at its beginning |
| `EngineImplementsTransport` | the initial states and steps of `Transport` |

None of them is inductive by itself. The inductive invariant `IInv` says which
flags and streams go with which place of the thread (`RoutineShape`,
`StreamShape`, `PauseShape`, `ClosedShape`), what an interface thread inside a
suspend may rely on (`FreezeShape`) and when a bookmark can be armed
(`BookmarkShape`). `SuspendSafe` needs all of them: the freeze reads three flags
without a lock, and only the shapes say that three flags down mean a thread in its
idle loop with nothing half closed. The types are proved in three parts, since the
flags and the data need different provers. Assumed: the four assumptions on the
constants, `Files`, `Len`, `StartsAt` and `Faults`.

What `AudioPromises` says of the history of requests needs `AskedShape` besides: the
track asked for last is the one queued or running, a cancelled engine has no command
to play, and a seek that waits is of the track the engine is to play. Every step of the
thread but its retry keeps it, since it takes up what was asked or leaves it alone
(`ThreadObeys`). `EndsAndSeeksHold` assumes `0 \notin StartsAt`, for the reason above:
a track loaded paused at its beginning does not clear the seek asked of the one before.

Liveness, with the fairness of `Transport`, is checked by TLC and not proved.

## Growing files

`GrowFile.tla` models `decode/growfile.c`: a small table of the files being
downloaded, written by the download threads and read by a decoder on the playback
thread. It is what lets a track play while it arrives. One action is one hold of
the table's lock, or one access to the file between two holds.

| state | in the code |
|---|---|
| `slots` | the table: `path`, `done`, `active` |
| `disk`, `writer`, `whole` | what is on the card, where each download is between its calls, and which files lost their marker because they are complete |
| `path`, `pos`, `starved`, `at_eof` | `growfile_t`, and the end-of-file mark of its `FILE` |
| `pc`, `goal`, `slot` | where the reader is in `growfile_read()`, `growfile_seek()` and the wait they share, and its locals |
| `aborting` | what `reader_abort_cb` would answer |

A writer goes through `CreateFile` (`fopen "wb"`), `growfile_announce`, any number
of `WriteChunk` (write and flush) and `growfile_progress`, and `EndDownload`, with
all of the file or less. The reader's read is `growfile_read`, then, if that was
short, `NoteStarved` and a loop of `StartWait`, `WaitWakes` or `WaitTimesOut`, and
`Refill`, which `AbortRead` leaves. A seek is `growfile_seek`, `SeekWakes` and
`SeekTimesOut`. A download starts only for a file that is neither whole nor
growing, which is what `qobuzcache_start()` and its sisters ask first.

Abstracted: bytes are blocks; the fields `total` and `failed`, which only the
progress bar and the pre-buffer read; time, so that any slice of a wait may be its
last; and what a start does before it has the turn and after it has failed, which
is in `Downloads`.

| run | shows |
|---|---|
| `growfile` | two files, one slot: the table is true of the card and of the downloads, no download loses its slot to another, and every read or seek comes back |

Bounds. One slot for two files, so that the table is full, a file grows unseen,
and a slot is used again while a reader waits on it. Three blocks and reads of two:
a read can then be filled at once, by one refill or by two, or fall across the end.
A download may die and be started again without bound. The reader may always
close, so that deadlock is checked.

Fairness. The reader runs once called, and its slices are counted whatever wakes
it (`waited_ms` grows by a slice after each). Nothing is owed by the network or by
the user: `ReadReturns` holds with a download that has stopped moving.

Seen while modelling: `growfile.h:73` says that a read is short only when the file has
really ended or the download died, and a read that waits when its download ends well
does not hear the last blocks. `growfile_finish()` takes the path
out of the table, so that the wait answers -1, and `growfile_read()` takes -1 for
"nothing more to come" without looking at the card again; the end-of-file mark then
hides the tail from later reads, until a seek clears it. Two smaller ones are in the
hazards: the last slice of a wait believes a slot that may have changed hands, and
a seek succeeds past the end of a file whose download died while it waited.

`GrowFile_proofs.tla` proves, for every set of files, number of slots, size and
read length, `TypeCorrect` (`TypeOK`), `SlotsHold` (`SlotsFollowWriters`),
`ProgressHolds` (`ProgressIsOnDisk`), the two together (`TableIsTrueHolds`), and the
action property `SlotIsKept` (`DownloadsKeepTheirSlot`). The table needs one fact that is
no property of the run: a file has at most one slot in use, for otherwise an end would
free the first and leave the second. That in turn rests on `growfile_announce()` looking
for the path before it takes a free slot. That a slot is kept needs besides that the slot
an announcement takes is free (`FreeSlotIs`) or the file's own, and that an end finds no
slot but its own (`FindFacts`). The reader's types need its shape: a read in
progress has its goal ahead of it, and what it was given was on the card.
Assumed: the three assumptions on the constants. `ReadReturns` is liveness, and stays
with TLC.

## Downloads

`Downloads.tla` models `streaming/qobuzcache.c` with `streaming/streamturn.c`: how a
track comes to the card while it plays. A page's worker and its prefetch thread
both call `qobuzcache_start()`, which returns when there is enough to play and leaves
the rest to a thread of the download. `tidalcache.c` and `podcastcache.c` are built
alike and share the turn; the segments in which Tidal sends a track are not
modelled.

| state | in the code |
|---|---|
| `disk`, `markers` | how much of each file is on the card, and which have an `.incompleto` beside them; a loss of power keeps both |
| `busy` | the turn of `streamturn.c`, which is everybody's |
| `growing` | what `growfile.c` has been told of (`GrowFile` has the table itself) |
| `active_track_id`, `active_stream` | the globals of the same name |
| `pc`, `track`, `done`, `ok`, `streams`, `linked` | each thread's place and its `download_t`; a file that a cleanup deletes under an open descriptor loses its link and grows no more |
| `abandoned` | the threads whose `generation` is not the current one |

A start is `qobuzcache_start` (there already, or on its way?), `TakeTurn` (the wait,
the generation, the id), `Connect`, `prune`, `MakeMarker`, `CreateFile`, `Announce`,
any number of `Chunk`, and `HandOver`, which gives the `download_t` to the thread. The
failures on the way give everything back (`ConnectFails`, `CreateFileFails`) or go
through `PumpStops` to the end, whose five steps keep the order of `download_end()`:
hide, close, finish, unmark, release. Against them run `qobuzcache_abandon_all`, the
periodic `Sweep`, the user's `qobuzcache_clear` and `PowerLoss`.

Abstracted: bytes are chunks; how much is enough to play, so that the hand-over may
come after any chunk; which files a prune or a sweep finds old, protected or recent
(any that the code does not spare); the sidecar files. The servers modelled say how
long a track is. The card keeps what it was given in the order it was given. A
cleanup is one step; what a sweep can do between two entries is in the hazards.

| run | shows |
|---|---|
| `downloads` | two threads, two tracks, every failure, abandon, cleanup and loss of power: one download at a time, what is published is its own and alive, its file is kept, and the turn comes round |

Bounds. Two threads that start are the program's own two, and meet the third, of
the download. Two tracks are what it takes for one to be pruned for the other. Two
chunks give a file that is there and not whole. Starts, failures and losses of power
are not bounded.

Fairness. Each thread runs on once it has the turn, since every call it blocks in
has a timeout. No start is owed the turn, and no chunk the network: `TurnIsReleased`
counts a download that fails as one that ends.

Seen while modelling: `qobuzcache.h:48` says that `qobuzcache_has()` is true of a track
"downloaded in full", and `HasMeansWhole` fails with `Cleanups = {"prune"}`: a prune
takes the marker of an interrupted download and leaves the file. `prune()` treats a marker as
any entry of the folder; on a card whose access times are a day apart, its place in
the order says nothing, and as soon as another file has made room the walk stops.
The order that `qobuzcache.c:674` gives for the release of the turn is right, and not
enough: whether the track is there is asked before the wait and not again, so a start
that waited downloads again what the holder has just finished.

`Downloads_proofs.tla` proves, for every set of tracks and threads and every size:

| theorem | statement |
|---|---|
| `TypeCorrect` | `TypeOK` |
| `OneDownloadHolds` | `OneDownload` |
| `IdHolds` | `IdIsDownloading` |
| `WakeHolds` | `WakeIsSafe` |
| `StreamIsOwnedHolds` | `StreamIsOwned`, the three above together |
| `GrowingHolds` | `GrowingIsKept` |
| `WholeHolds` | `HasMeansWhole`, if no cleanup runs |

All but the last rest on one invariant, `TurnInv`: the turn is taken exactly when
some thread is past the wait, there is one such thread, and everything that is
open, published or growing is as that thread's place says. `WholeHolds` adds
`CardInv`: the holder's file has a marker from the moment it is emptied until it is
whole, and every other file without a marker is whole or empty. The assumption that
no cleanup runs is needed, as the prune above shows. Assumed besides: the
assumptions on the constants. `TurnIsReleased` is model-checked only.

## Scrobbles

`Scrobbles.tla` models `lastfm/lastfm.c`. The interface thread counts plays into
memory; one worker moves them to a queue on the card and sends its head to Last.fm.
One action is one hold of the lock, or one access to the card or to Last.fm between
two holds.

| state | in the code |
|---|---|
| `queue`, `owner` | for each card, the play lines of `.local/lastfm.queue` and the account its first line names |
| `saved`, `enabled` | the session file and the switch in the configuration |
| `user`, `session_key`, `session_expired`, `session_refusals`, `login_requested`, `logout_requested`, `login_user`, `pending`, `file_count` | the globals of the same name; a key is there or not, a pending play has its time or not, and `login_user` is `NoAccount` when `logging_in` is false |
| `card_ready`, `batch` | the worker's own, `sender.batch` the second |
| `pc`, `active`, `ready`, `sending` | the worker's place and the locals of its turn |
| `card`, `clock` | the card that `card_writable()` would allow, and `clock_valid()` |
| `listener`, `received`, `refused` | history: who was signed in when a play was counted, what Last.fm has under which account, what it refused alone |

A turn of `worker_main()` is `TakeRequests` (and `do_logout`), `do_login`,
`LookAndTake` (the look at the card, `queue_attach` and the first half of
`flush_pending`), `queue_append`, `KeepRest`, `StartSend`, an answer (`AnswerOk`,
`AnswerBad`, `AnswerLater`, `AnswerSession`), `queue_drop_head` and `Rest`. Against it
run `qualify`, `lastfm_login`, `lastfm_logout` and `lastfm_set_enabled` of the
interface thread, and the world: the card goes and comes back, or another does, the
clock is set, and the power goes (`PowerLoss`, with the `lastfm_init` after it).

Merged steps. A sign-out and the taking of the requests are one step, and so are the
look and the taking of what is pending: between them other threads only add to what
the second one reads again under the lock. A write to the card is whole, or, if it
fails, any beginning of it, with its last line whole or torn (`Torn`); a line written
after a torn one is read as part of it. Off-line and "too soon after a failure" are the choice
of `Rest` not to send.

Abstracted: what makes a play count, its tags and its time but for whether it is
known; "now playing", which has no queue; the texts of requests, answers and errors;
the lengths of waits.

| run | shows |
|---|---|
| `scrobbles` | two accounts, a card, two plays of which Last.fm refuses one, a write or a drop that fails, and losses of power without bound: a play reaches only its listener's account and leaves the queue only when it is done with |
| `scrobbles_served` | a sign-in is answered, plays go to the card, and the queue is sent, the refused play notwithstanding |

Bounds. Two plays make a batch in which one is bad, a queue with more behind its
head, and a torn line that swallows the next. A queue, a memory and a batch of two
are full when both are in one. Two accounts are what it takes for one's play to go
to the other. `SESSION_REFUSALS_MAX` of two leaves a refusal that is forgiven.
`MaxFaults` counts failed writes and drops; lost answers, sign-ins, card changes and
losses of power are not counted. A play is listened to once. `scrobbles_served` has
one account, and only drops fail: a queue of torn lines alone is let go at once, and
who listened does not matter to it.

Fairness. The worker runs on, and a timed sleep ends. For the queue to be sent,
Last.fm must be reached again and again and in the end give an answer about the
plays: strong fairness of `StartSend` and of the two answers that settle them. The
retry pauses are at most ten minutes, so each chance is taken in the end.

Seen while modelling: with nothing pending the worker's sleep has no end (1109), and it
looks at the card only when awake, so that a card changed meanwhile is taken for the
one that was checked and counted, against the comment at `lastfm.c:104`:
`CardIsChecked` fails with two cards and no fault at all. The runs have one card. They
also let only the same account follow one whose session
has expired: with `SignsInOver = TRUE`, `OwnPlaysOnly` fails. `do_login()` leaves
`pending` and `file_count` as they were, so that what is in memory becomes the new
account's, and a queue whose card comes back between the look and the send is sent
unchecked.

Proved, in `Scrobbles_proofs.tla`, for any number of accounts, cards and plays, for
every limit and any number of faults:

| theorem | statement | if |
|---|---|---|
| `TypeCorrect` | `TypeOK` | |
| `PlaysKeepTheirListeners` | `PlaysKeepTheirListener` | `~SignsInOver`, `[][CardsAreSeen]_vars` |
| `OneCardKeepsListeners` | `PlaysKeepTheirListener` | `~SignsInOver`, one card |
| `OnlyFinishedPlaysLeave` | `OnlyFinishedLeave` | `~SignsInOver`, `[][CardsAreSeen]_vars` |

The hypotheses are the two exceptions above, and no more: `CardsAreSeen` lets a card be
pulled at any time and another be put in, but not while the worker has something counted
or in hand for the one before (`Counts`). A step that does so is the one `CardIsChecked`
fails by; with one card there is none.

The invariant follows a play through every place at which it can be. In memory, and in
the lines that the worker has in hand, it is the user's (`MemoryIsOwn`); in a file it is
that of the account which the file names (`FilesAreOwn`); a card that counts is the user's
or nobody's (`CardIsOwn`). Who signs in is who was signed in, or has been signed out
first (`LoginShape`). What is on the wire is still the head of the queue when the answer
comes (`SendingIsHead`), and when it is to be dropped it is done with (`SentIsDone`), so
that a drop takes away what was sent and nothing else. The types need which globals
go with a user (`SessionShape`) and where the lines in hand can be (`PlaceShape`).

Which of the pending plays are taken is a recursive function over a sequence (`Chosen`),
and a batch is the least head of the queue with so many plays (`Batch`). That the
function is defined, and that what it chooses is a sequence of the elements of the other
and no longer (`ChosenProperties`), is proved by induction, over the set of the numbers
at which it fails: if there is one there is a least (`Smallest`, `Induction`). The
library's induction theorems take an operator, which these provers cannot instantiate.

`WorkerServes` is liveness, and stays with TLC.

## The queue

`PlayQueue.tla` models `playback/playlist.c` and the part of `device_state.c` that
loads, walks, saves and restores it. All of it runs on the interface thread, so an
action is one call, with everything it makes the queue do, up to the write of the
queue on the card.

| state | in the code |
|---|---|
| `queue.rows`, `.stale` | the entries that `source_ix`, the handle of a library list, serves, and whether its table was rewritten under it |
| `queue.added`, `.order`, `.pos` | `paths`, `order`, `pos`; counted from one |
| `queue.custom`, `.ordered`, `.chain` | `custom_queue`, `ordered_queue`, `chain_from` and `chain_slot` |
| `queue.revised` | whether `revision` is another than `saved_queue_revision` |
| `mode`, `loaded` | the mode, `current_metadata_file` |
| `library` | what the query behind a library list answers now |
| `saved`, `recalled` | the tables of the queue and of the last track on the card |

A queue comes from a file's folder, from a list a page hands over, from an ordered
list (a podcast, a book) or from a library list, of which only the handle is kept. A
random deal, and a path that is no longer in the cache when the list is read again,
make the operators return a set of queues. An action is `Edit` (insert next, insert at,
remove, move, mode), `Walk` (next, previous, the end of a track), `Load`,
`playlist_path_at` (which may find the list stale), `Rescan` of the library,
`device_state_remember_note`, and `Reboot`, which is a loss of power and
`restore_saved_track()` of `main.c`.

Abstracted: paths are tracks; the folders, and which comes after which, are constants
(the walk over the card is not modelled, nor cue sheets, streamed queues, album
chaining and audiobooks); the card keeps a write whole.

| run | shows |
|---|---|
| `playqueue` | every way to load, edit, walk, rescan and lose power: edits are exact, keys follow what is loaded, what is read ahead is what plays, and the card gives the queue back |

`EditsAreExact` compares every insertion, removal and move, at every slot of every
reachable queue, with the same edit on a plain sequence, and says that playback stays
on its entry. Of the two parts of `GoesOnRightly`, `NextFollowsLoaded` says where the next key goes
from, after whatever was loaded and rescanned; `PeekIsTrue` that the code's two decisions
of "what comes after" agree. `SavedIsTheQueue` says that the revision misses no change.

Bounds. Three tracks in two folders, one of them with two; lists of up to two rows, which
a scan changes into one another, or empties; queues of up to three entries. A move then
has a middle to pass over, a duplicate can be on either side of the place, an addition
lies between rows. `LOCATE_RADIUS` is 1 for the code's 512, so that a search can miss.
The proofs below are for lists and queues of any length.

Proved, in `PlayQueue_proofs.tla`, for every set of tracks, lists and folders, whichever
folder comes after which, and every radius and bound:

| theorem | statement |
|---|---|
| `QueueInvariant` | `QueueInv`: the queue is well-formed, and so is what the card has |
| `TypeCorrect` | `TypeOK` |
| `EditsExact` | `EditsAreExact` |
| `FolderQueuesPlay` | `FolderPlays`: a queue that is a folder is on the track loaded |
| `GoesOn` | `GoesOnRightly` |
| `CardInvariant` | `CardInv`: a queue whose revision has not moved is on the card |
| `CardHasTheQueue` | `SavedIsTheQueue` |

`TypeOK` is inductive once it says of the card what it says of the queue (`SavedTypes`),
since a restart loads what is there, and gives the rest of the record its types. Every operator that returns a queue, or the set of those
it may leave, has a lemma that what it returns is well-formed (`Fit`), and one for what it
leaves alone (`Same`). A queue rebuilt as paths gives each entry that stays the number of
those that stay up to it: that these numbers are an order again, and in the same
sequence, rests on lemmas about ranks in a set of places (`RankType`, `RankGrows`, and
those about `InOrder` and `At`), from which `EditsAreExact` follows for every queue that is `Fit`.

The next key goes on rightly in two cases. A queue that is somebody's list is searched
for the track; one that is a folder either is on the track loaded already, which is
`FolderPlays`, or is loaded again from its folder. That a walk to the folder beside it
begins with that folder needs that no track is in two folders (`FoldersAssumption`).

`CardInv` relates the queue to the card while the revision stands. A queue of paths is
there as it is shown. A list of the library is there as its query and its additions, each
with its slot: put back one by one into the rows as they are read again, the first slot
first, they give what was shown (`Written`). It needs that the rows of a queue that is not
dealt are in the order of the list, whatever was inserted between them, and that a queue
not marked stale has the rows that the query answers now (`Settled`). The putting back is
a recursive function, and what it has given after each addition is by induction over the
additions. Assumed: the assumptions on the constants, of which `ListsAssumption` says
that a list has each file once.

Nothing of this module is left to TLC alone; it has no liveness, since each call on the
interface thread is one step.

Seen while modelling. `device_state_restore_list()` ignores whether `playlist_locate()`
found the remembered track, and seeks in whatever track the saved index names to the
place of another; `device_state_restore_index()` asks, and its comment (714) says why.
It takes a position row written for a track the list on the card does not have, which
the write order allows. An addition that plays in a library list, more than 512 entries from where the
list began, is saved as the entry number behind the rows, and the restore starts at the
first. `library_queue_save()` without a database still counts as written, and then only
the index is. Positions given to `playlist_remove()` are counted before a list is read
again, and used after. `ordered` is not saved: a podcast queue under shuffle is dealt
anew after a restart. The first of two equal entries is the one found again. With more
than 64 subfolders, the descent of `playlist_next_folder()` orders only the 64 that
were read first.

## Covers

`CoverLoader.tla` models `gui/nowplaying/coverloader.c`: one thread decodes, one
answers which picture a track carries; if that one could not be started the first does
both. `Covers.tla` composes it with the player's cover (`player.c`), the rows of the
file browser (`browser.c`) and the screensaver (`screensaver.c`).

| state | in the code |
|---|---|
| `loader.jobs` | `player_job`, `slots`, `saver_job`: `path`, `pending`, `done`, `found`, the picture |
| `loader.id_job`, `.prefetch_job`, `.id_on_worker` | `player_id_job`, `prefetch_job`, the flag of the same name |
| `loader.worker`, `.id_worker` | where each thread is, its job and its copy of the path; "wasted" is at work for a generation gone by |
| `loader.live` | history: pictures decoded and not freed |
| `player` | `cover_shown_path`, `cover_shown_id`, `cover_incoming_id`, `cover_id_state`, `cover_request_outstanding`, the picture up, whether the poll timer runs |
| `rows`, `listing` | of each row its entry, `requested`, `settled`, its picture; whether `thumb_timer` runs |
| `saver` | the source, `pending`, the pair prepared, the pair up, visible |

A generation is only ever compared for equality with the copy the thread took, so
that the model keeps whether they agree: a thread whose request was withdrawn is at
"wasted" work. The 2^32 requests after which a generation comes round are not modelled,
nor priorities, sizes, a worker that cannot be started, or which path is made ahead.

`LatestAnswer.tla` is the promise: each asker has at most one question, an answer is
to the question that stands, and is given once. `AnswersAreLatest` is the refinement,
with a question standing from the request to the taking.

| run | shows |
|---|---|
| `covers` | the player, two rows and the screensaver changing their minds at any step: answers are of the newest question, each picture is freed once, the cover is the track's, and in the end everything asked is there |

`CoverIsOfTheTrack` is the property the interface is after: the old cover stays up only
while the question whether the new track has the same is out, and what later questions
are compared with is what is on screen. It assumes what `cover_source_id()` is for:
that two tracks with the same number have the same picture.

Bounds. Four paths: two that share a picture, one with another, one with none; two
rows, of which one file may be in both; one photograph. Deadlock is checked. Fairness:
weak, of each thread and of the two timers while they run.

Seen while modelling. Of two tracks whose first source is the same and does not decode,
each falls to its next candidate, which may differ, under the one number: the comment
at `source_id_uncached()` does not hold of them, and the wrong sleeve stays up.

Proved, in `Covers_proofs.tla`, for every number of rows, every set of files and
whatever pictures they have:

| theorem | statement |
|---|---|
| `LoaderInvariant` | `LoaderInv`, of the loader alone, whoever calls it |
| `LoaderKeepsItsPromise` | `AnswersAreLatest`, of the loader alone |
| `CoversInvariant` | `CoversInv`, of the loader with those who ask it |
| `CoversTypeCorrect` | `TypeOK` |
| `NothingIsLeaked` | `NothingLeaks` |
| `CoverStaysOfTheTrack` | `CoverIsOfTheTrack` |
| `CoversKeepThePromise` | `AnswersAreLatest`, of the whole |

`LoaderInv` says, besides the types, that a job never waits and holds a result at once,
that a thread that decodes for a job carries the path the job was last asked for, while
the job neither waits nor is done, and that only one of the two threads answers questions
about the picture. Each step of a thread or of an asker is then a question, a
withdrawal, an answer, a taking, or nothing.

`CoversInv` adds what each asker believes. The player's question is for the track it
shows (`AsksForShown`), and the cover up is that track's, or the question whether it may
stay is out (`CoverFits`); a row that waits asks for its entry and has no thumbnail
(`RowsInv`). And it counts: pictures allocated, less those that wait in jobs (`Owed`),
are those on screen and those the screensaver has ready.

A call on the interface thread goes through several functions, each of which may call
the loader. They are operators from one loader to the next, and each has a lemma about
the value it returns (`Leaves`, `PlayerTurns`, `SaverTurns`: what is kept, and how many
pictures the caller then owes). What a whole call does is these in turn. A scroll and
`thumbs_update()` call the loader once for each row: `AllRowsCall` is a recursive
function, and that it ends with each row's call made, and the sum of the thumbnails
right, is by induction over the rows (`AllRowsCallIsDefined`, `RowsCalled`). No call of
the interface gives an answer (`Unanswered`), so that a turn in which all rows ask is
still a step of the promise. Assumed: the assumptions on the constants.
`EverythingSettles` is liveness, and stays with TLC.

## The card

`Card.tla` models who has the memory card: `device/system.c` (the supervisor, the
hotplug thread and the release for a power-off, under `card_lock`) and `device/usb.c`
(the watcher of the cable, which lends the card to a computer and takes it back, and
the thread that starts DAC mode, under `storage_lock`). The two sides share no lock:
they see each other through `storage_active`, `dac_owns_usb`, `card_released` and the
mount.

| state | in the code |
|---|---|
| `slot` | the card, the cable, `lun.0/file`, the mount point, the kernel's events; history: whether a host is still to be offered the card |
| `player` | `storage_active`, `card_attached`, `card_released`, `dac_owns_usb`, and whether `library_open()` has the card's databases |
| `locks` | who holds `card_lock` and `storage_lock` |
| `at` | where each of the five threads is |
| `watch` | the watcher's `exported`, `await_unplug`, `seen_owner`, and its unmount attempts |

An action is what a thread does between two looks at what it shares. A mount is
"live", "stale" once a computer has written to the card under it, "readonly", or
"dead" when its card is gone. A mount or an unmount may fail; an unmount at the last
attempt is lazy.

| run | shows |
|---|---|
| `card` | in every order of three events: DAC mode has no card on the port, no stale view is read, a released card stays released, the card comes back and is offered |
| `two_writers` | the card mounted here and lent to a computer at once |

`two_writers` checks what `usb.c:687-697` says the flag is for. The supervisor asks
`usb_storage_active()` before it takes `card_lock` (`system.c:903`) and not again. If the
watcher starts an export just after that look, and unmounts before the supervisor gets
to `mount_sd()`, the card is mounted again behind the export's last look at it, and
given to the computer. A hotplug `add@` does not ask at all.

Bounds. `MaxEvents` counts cards pulled and put in, cables moved, DAC mode switched
and mounts that fail; three of them are what each property needs to go wrong in its
faulty variant (the run also passes with four, in a few minutes, and what is proved
holds for any number). Ejects and writes of
the host are not counted. Deadlock is checked.

Fairness. Strong fairness of each thread: they sleep or wait for a lock that the
others hold for a while every few seconds, and so is free again and again; a mutex
that always passes one of them by is not considered.

Proved, in `Card_proofs.tla`, for every `MaxEvents`: the types, `DacHasNoCard`,
`NoStaleView` and `ReleaseIsKept`. The three are not inductive: they hold because each
lock is held at certain places of the code and only there (`CardLockShape`,
`StorageLockShape`). From that it follows that the flag stays up as long as a thread
has `storage_lock`, or a host has the card or has written to it, so that the watcher
cannot forget an export (`FlagShape`); what a restore has undone so far, step by step
(`LendShape`); that after DAC mode has waited for the lock nothing is put into the
lun (`DacShape`); and that a thread which is about to mount has seen the card not
released, under the lock (`ReleaseShape`). The liveness stays with TLC.

Left out: ADB and its gadget, a DAC on the port, the gadget parked in standby, the
messages to the user, the playback that is stopped first (`AudioEngine` has the stop),
and a player started without a card, which has no watcher.

Seen while modelling, and in no property. (a) A restore mounts the card and never sets
`card_attached`: if the supervisor had detached before, the interface goes on saying
that there is no card. (b) An export given up for DAC mode while the mount is up leaves
the library closed, and the supervisor content. (c) A card pulled while it is lent, and
then the cable: the restore opens the databases on the bare mount point, and the card's
return finds them open (`library_open()` returns early). (d) `storage_restore()` does not
look at `card_released`: a cable pulled during a power-off mounts the card again
(`ReleaseIsKept` leaves out that step). (e) A card put in with the cable in is not
offered until the cable is pulled, which is why `slot.offered` ends with it.

## Radio

`Radio.tla` models `streaming/radio.c`: a live station, from the press that asks for it
to the output. Three threads take part. The interface supersedes the player thread by
moving `play_generation` on, shuts down the connection that thread has published, and
joins it. The player thread connects, follows playlists, decodes, and connects again.
The filler reads the network ahead of it into a ring.

| state | in the code |
|---|---|
| `now` | `now_state` and `now_station`, under `now_lock`; `error` for whether a text is there |
| `ui` | where a press is between two locks, which press, of which station |
| `play` | the player thread's place, `still_mine()`, `attempt`, `hops`, and the locals of `play_one_connection()`, `play_flac()` and `play_hls()` |
| `link` | `live_stream` or `live_hls`: published, shut down |
| `ring` | `radio_buffer`: `level`, `ended`, `stop`, and where its filler is |
| `ui.hurried`, `play.hurried` | history: a resume pressed while the station's thread was still leaving |

The presses are `radio_play`, `radio_stop`, `radio_clear`, and the key or the button,
which leave a connecting station alone, look again (`toggle_stops`) and may then
resume. Each goes on through `transport_wakes` and `transport_joins` to its write and,
for two of them, to `transport_starts`. The player thread is in two halves: `Connects`,
from `play_resolves` round the loop of `play_attempts` to `play_leaves`, and `Plays`,
which is one connection. A step of it is what lies between two locks or two blocking
calls. The server chooses at each point what it sends: a playlist, HLS, FLAC or another
stream, frames or none, an end, or silence.

Left out: the directory of stations and the lists kept on the card, titles and bit
rates, the order and size of what is in the ring, and the decoders. The generation is
kept as whether it still is the thread's own; it never comes back, for the old thread
is joined first.

| run | shows |
|---|---|
| `radio` | a stop is heard whatever the thread blocks in, the screen tells the truth between presses, and neither a press nor "connecting" goes on for ever |
| `radio_silence` | a station that sends nothing that can be decoded is tried again, after the listener was told |

Bounds. Two stations, for one to replace another; one retry and one hop, so that there
is a first, a next and a last of each; a ring of two, to be empty, full, and between.
`Faults` lets the thread, the memory and the output fail. Deadlock is checked. Both
restarts and presses are unbounded.

Fairness. Weak, of each of the three threads; strong of two steps that are clocks:
`RADIO_SILENCE_TIMEOUT` runs out at some head of a loop that has heard nothing, and the
search for a FLAC frame counts bytes up to `SEARCH_LIMIT_BYTES`. No press and no byte
of the network is owed.

`radio_silence` is of a plain station: on the timeout the code says that nothing can be
played and sets `clean`, with the comment (2795) "Stop and say so rather than
reconnect". The test that follows does not look at `clean` when nothing has been heard,
so that the station is connected to again, up to `RADIO_MAX_RETRIES` times, with the
text gone from under "connecting". The full buffer without a frame, and AAC that is not
supported, go the same way.

Seen while modelling. (a) `radio_resume()` writes "connecting" before it stops the
thread that is leaving. That thread is still the current one, and its last step may
clear the flag, or say "unreachable" of the station that is about to be tried; or its
"playing" stays up over the next connection. With both flags down `radio_is_playing()`
is false of a station that plays, which the idle timer asks. `hurried` marks these
presses, and `ScreenTellsTheTruth` leaves them out. (b) A resume whose thread cannot be
created leaves "connecting" up for ever, and the key and the button then ignore the
station. (c) HLS with nothing in it that can be decoded has no timeout, as
`RadioSettles` says. (d) HLS that has played and drops is not connected to again, nor is
`attempt` reset once a station plays, though the comment of `RADIO_MAX_RETRIES` speaks
of tries in a row. (e) A playlist that cannot be resolved is reported by a superseded
thread too. (f) An error that was shown stays when a later try plays. (g) The game
emulator's mixer thread calls `radio_stop()` beside the interface (`flappysound.c`): two
presses at once may join one thread twice; the model has one at a time.

`Radio_proofs.tla` proves, for every set of stations, every bound and every set of
faults, `TypeCorrect` (`TypeOK`), `StopIsHeardHolds` and `ScreenTellsTheTruthHolds`. The
types need that a connection is only made within the tries (`ThreadShape`), and the
ring that what is fetched has room (`RingShape`). That a stop is heard comes from
`LinkShape`: a connection is published exactly while the thread may read it, and a
thread that is waited for blocks in nothing that has not been shut down; it holds
through `publish`, which asks whether the thread is superseded under the same lock.
The screen needs the presses' places (`PressShape`), what each has written by the time
it starts the thread (`SaidShape`), and, place by place, what the thread has left there
(`ScreenShape`). Assumed: `RadioAssumption`. `RadioSettles` is model-checked only.

## What is proved, and what is only checked

Every invariant and action property that a run checks is also a theorem, for every value
of the constants, under the assumptions named in the sections above; so are the initial
states and steps of the two refinements. Only checked, on the small instances: what must
eventually happen (`ImplementsTransport` with its fairness, `CallsAreServed`,
`DeviceIsLetGo`, `ReadReturns`, `TurnIsReleased`, `WorkerServes`, `EverythingSettles`,
`CardSettles`, `RadioSettles`), which needs fairness and `ENABLED`, beyond these provers;
and the runs that expect a violation, each of which is one behaviour. What a recursive
function computes is proved, where it is needed, by induction written out over a set of
numbers (`Smallest`, `Induction`, in `Scrobbles_proofs`, `Covers_proofs` and
`PlayQueue_proofs`).

## Not modelled

Pure computation on samples, images and text (decoders, equaliser, parsers,
layout), vendored code (SQLite, miniz, stb, dr_libs, the emulator core), generated
tables (icons, dictionaries), and the drawing of pages. They are most of the
repository's lines: the control that can be modelled is in a few dozen files, and what
of it is left is in the plan. In the engine: the volume
and the effects, the choice of device and format, Bluetooth's own links, the
external outputs, time (a wait may end at any moment that its code allows, except
that a suspend is attempted only on a settled engine, as its idle minute makes
sure).

## Plan

1. `AudioEngine`, `AudioPromises`, `Transport`, `AudioEngine_proofs`: done.
2. `GrowFile`, `GrowFile_proofs`, `Downloads`, `Downloads_proofs`: done. Next to them,
   the composition of the two, with a file that arrives as the abstract
   specification, a cleanup entry by entry, and the pages' wanted track.
3. `PlayQueue`, `PlayQueue_proofs`: done, but for album chaining and the walk from folder to folder
   (`playlist_next_folder()` and the descent into the first folder that has music).
4. `CoverLoader`, `LatestAnswer`, `Covers`, `Covers_proofs`: done. The same shape
   of loader serves lyrics and waveforms.
5. `Card`, `Card_proofs`: done, but for ADB and the DAC on the port.
6. `Scrobbles`, `Scrobbles_proofs`: done, but for the two cases its theorems assume away.
7. `Radio`, `Radio_proofs`: done, but for the directory and the lists of stations.
8. `ExternalOutput`: `audio_external_*` with two sources and the playback thread;
   prove that the DAC has one owner, where it has.
9. `Suspend`: power.c with the codec gate and the engine's freeze as its interface.
10. `PodcastState` and `Settings`, the other stores, with crashes; then `ReadAhead`,
   `WiFi`, `LibraryScan`.

Read for `ExternalOutput`, and not yet in a model. When the output cannot be opened
again after a change of route, `audio_external_write()` returns at once for want of a
PCM and never gets to the next try, which the comment promises a quarter of a second
later. A source that begins yielding may share a PCM that another holds, contrary to
`audio.h:243-248`; `external_yielding` outlives a PCM that is lost; a station begun while
an idle AirPlay holds the PCM shares it, and falls silent when AirPlay hands back.

A run is kept for each distinct question.
