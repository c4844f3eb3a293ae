# A verification project for Conduite

Conduite (this repository) runs the video of a show: a list of cues, each with
the contents of its slices, played by hand (GO, BACK, GOTO), by itself (follow)
or by timecode, over a set of outputs, from a browser or a control surface. This
directory holds TLA+ models of its components, TLC runs that check them on small
instances, and TLAPS proofs for every instance.

Line numbers refer to `src/`; `PROJECT.json` maps each definition to its lines.

1. [Components](#components) - 2. [What is hard here](#what-is-hard-here) -
3. [Modules](#modules) - 4. [Runs](#runs) - 5. [Bounds](#bounds-and-why-they-are-enough) -
6. [Fairness and deadlock](#fairness-and-deadlock) - 7. [Refinement](#refinement) -
8. [Proofs](#proofs) - 9. [Where the code and its documentation
disagree](#where-the-code-and-its-documentation-disagree) -
10. [Not modelled](#not-modelled) - 11. [Plan](#plan)

## Components

| component | state | operations | interacts with | correct when |
|---|---|---|---|---|
| **Cue engine** `cue/src/lib.rs` | cue list, active, standby, transition, cue age, fired follow, panic, chased timecode, latched commands | `load`, `load_hot`, `go`, `back`, `goto`, `standby`, `panic`, `tick` | session (owns it), media slots (oracle of ended media), registry (snapshots) | indices stay in the list, GO plays the next cue once, fades and waits end, the black of a panic is never lifted by accident, the chase is on the cue of the timecode |
| **Media slots** `app/src/players.rs` | slots by slice and deck, aliases, restart requests, preload generation | `sync`, `advance`, `poll_uploads`, `media_eof`, `clear`, `request_restart`; the `conduite-preload` thread | cue engine, players, compositor (textures) | each deck has its content, a standby is preloaded and not restarted, a media on air is never touched without a cue, late preloads never land in the wrong slot |
| **Video player** `engine/src/{ffmpeg,ring}.rs` | process, reader, ring, base pts, retries, pending seeks, ended, healthy | `open`, `poll_frame`, `seek`, drop; supervisor and reader threads | slots, ffmpeg | frames in order, none older than a seek, eof only at the end, no deadlock, no orphan process |
| **Persistence** `app/src/{session,saver,main,logsetup}.rs`, `core/src/persist.rs` | dirty, generation, save in flight, job queue, files, backups, recovery file, last show | edit, save, save as, load, new, recovery, autosave, quit, panic hook, start | worker thread, disk | clean means on disk, no crash leaves a show unreadable, what a panic saved is proposed, a folder holds its own show |
| **Session** `app/src/{session,undo}.rs`, `core/src/command.rs` | show, undo and redo stacks, mode, shaders in memory, what is on the card | `tick`, `handle_command`, edits, undo, redo, load, new, rescan, shader watch | everything; it is the render thread | undo and redo walk on one line, programs follow the show, nothing is compiled in a performance |
| **Timecode** `control-midi/src/mtc.rs`, `core/src/timecode.rs` | pieces, last position, lock, freewheel | quarter frame, full frame, `current` | MIDI hub, cue engine | the time is one that was sent, or the freewheel's; it freezes when the signal stops |
| **Parameter registry** `params/src`, **modulation** `modulation/src` | value, target, blend, smoothing, touched marks; oscillators | `register`, `set`, `blend_toward`, `modulate`, `tick` | cue engine, surfaces | a fade moves forward, an edit keeps what plays |
| **MIDI** `control-midi/src` | pending halves, faders, learn, bindings, ports | callback, supervisor, bridge | session, by the bus and a control channel | halves of one position, no jump on takeover, the hub maps the show that is loaded |
| **OSC, Art-Net** `control-{osc,artnet}/src`, `app/src/protocols.rs` | servers, feedback threads, resolver, patches | receive, map, feed back, stop, start again | session, by the bounded bus | a patch applies to the frames after it, feedback ends on what is on stage, a restart ends |
| **Previews** `engine/src/preview_encoder.rs`, `app/src/preview.rs` | encoder, queues, readback, viewers | `manage_h264`, `render_previews`, splitter, worker | web interface | every page decodes a unit under its own configuration |
| **Web server, interface** `control-http/src`, `webui/{app,ws}.js` | connections, copy of the show, journal, link | hello, events, edits, ping | session | a page follows the show, no warning is lost, a dead link is seen |
| **Media library** `media-library/src` | pool, thumbnails | scan, reconcile, relocate, collect | session's background jobs | an id keeps its file |
| **Compositor, windows** `compositor/src`, `app/src/gfx.rs` | programs, textures, upload rings, fences, windows, failures | upload, draw, wait, rebuild, follow monitors | session, the card, the desktop | a texture shows its frame, a projector gets its picture back, one output that plays keeps the show running |
| **Process support** `system`, `app/src/{audio,update,...}.rs` | - | sampling, capture, update check, crash reporter | session | - |

Threads: the render thread runs `Session::tick` and owns the cue engine, the
slots, the registry, the windows and the show. Others speak to it by channels:
the command bus (many producers, bounded), the saver's bounded queue and its
results, the preload thread, each player's supervisor, the MIDI callback and
supervisor, the OSC and Art-Net threads, the web server's runtime, the preview
worker and the encoder's reader, the scan.

One tick is: commands, results of background jobs, timecode, `cue.tick` with the
oracle of ended media, events of the cue engine, modulation and parameters,
`players.sync`, `advance`, `poll_uploads`, drawing, health, autosave, publication.

## What is hard here

`PROJECT.json` lists the hazards line by line. The main families:

- *Sequences of legal calls*: GO, STANDBY or an edit during a fade, undo between
  two steps of a gesture, a show loaded under a scan.
- *State read in one place and used in another*: the oracle of ended media, the
  generation of a preload or of a save, the program of a material, the page's
  copy of the show, the fader's idea of a value.
- *Two threads and a queue*: the saver, the reader against the supervisor, a
  preload against an eviction, a flush between two halves of a controller, a
  full bus and a session that waits.
- *Crashes and failures*: between a rename and the sync of its directory, a
  projector unplugged, an encoder that dies, a card that answers late.
- *Lost or late messages*: pieces of timecode, a page that falls behind, a link
  that is dead without being closed, throttled feedback.
- *Boundaries*: fades and waits of no length, full queues, unknown durations.

## Modules

| module | models | uses |
|---|---|---|
| `CueEngine` | the cue engine, one action per function that `tick` calls, plus `load`, `load_hot` and the latched commands | |
| `CueHistory` | `CueEngine` with history variables | extends `CueEngine` |
| `Players` | the media slots and the preload thread | |
| `Playback` | `CueEngine` and `Players` in the order of the tick | extends `CueEngine`, instance of `Players` |
| `Playback_proofs` | theorems of the cue engine and of the slots | extends `Playback`, `CueHistory` |
| `FfmpegPlayer` | one player: render thread, supervisor, reader, ring, process | |
| `FfmpegPlayer_proofs` | theorems | extends `FfmpegPlayer` |
| `ShowStore` | from an edit to the disk and back at the next start | |
| `ShowHistory` | `ShowStore` with history variables | extends `ShowStore` |
| `ShowStore_proofs` | theorems | extends `ShowHistory` |
| `Edit` | the edits of a show and the undo stack, pure | |
| `UndoHistory` | what undo promises | |
| `Library` | scan, reconciliation, thumbnails, collection, pure | |
| `Session` | the show under edition, the programs and slots of the card, what is drawn | extends `Edit`; instances of `Library`, `UndoHistory` |
| `Session_proofs` | theorems | extends `Session` |
| `Registry`, `Modulation` | parameters; oscillators, pure | |
| `MidiEngine` | the MIDI engine: pairs, learn, takeover, MSC, pure | |
| `Surfaces` | a MIDI surface, the hub's threads, the bus, the frame | extends `MidiEngine`, `Registry`; instance of `Modulation` |
| `SurfacesHistory` | `Surfaces` with history variables | extends `Surfaces` |
| `Surfaces_proofs` | theorems, those of the timecode last | extends `SurfacesHistory`, `Timecode` |
| `Timecode` | transport, assembler, channel, clock | |
| `Osc`, `ArtNet` | the mapping of packets and feedback, pure | |
| `Network` | servers, feedback, resolver, restarts | extends `Osc`, instance of `ArtNet` |
| `Replica` | what a page promises | |
| `Interface` | session, server, page and link | instances of `Edit`, `Replica` |
| `Interface_proofs` | theorems | extends `Interface` |
| `AnnexB` | the splitter of the H.264 stream, pure | |
| `Preview` | encoder, readback, viewers | |
| `Preview_proofs` | theorems | extends `Preview` |
| `Compose` | the drawing plan, blending, corner pinning, pure | |
| `Upload`, `Outputs` | the card and its rings; the windows and the monitors | |
| `Display` | the frame over both | extends `Upload`, `Outputs` |
| `Display_proofs` | theorems | extends `Display` |
| `MC*` | instances for TLC; the pure operators checked by `ASSUME` | |

### CueEngine

A cue list is a function from numbers to cues (`CueAdd` replaces a cue of the
same number, so they are unique, and `load` sorts them): the indices of the code
are the numbers in increasing order, and the mapping of indices that
`load_hot` performs by number becomes a membership test. `show` groups what `load`
resets. `phase` is the program counter of `tick`: nothing of the session runs
between two of its functions, so `Enqueue`, `Load` and `LoadHot` need `phase = "idle"`.

Time is kept as elapsed times, each stopped at the largest value the code reads
(the end of the fade, the wait, the freewheel), which is why the run needs no
bound on time. The easing curve is left out: it changes what is drawn, not when.
`TransBlack` and `PanicBlack` keep the black levels because `panic` reads one
to start the other.

A chased timecode is a number of frames and a rate. `CheckChase` is
`check_chase` with its four outcomes (locked and near, locked and far, lost,
gone); `ChaseFire` fires the triggers that were passed, one by step, in order.

### Players and Playback

A content stands for the code's `SlotKey`. The clock of a video slot is reduced to
what `restart_if_advanced` and the end of media read: not yet served (`cold`),
served and at the entry point (`ready`), past it (`on`), ended (`end`, then
`black` once the black frame was pushed). The first tick that plays takes the
clock past the 0.01 s tolerance, so a media played very slowly, or paused, stays
`ready` longer than in the model. `tex` is what the compositor holds for each slice
and deck: the model says when an upload happens and of what.

`Sync` is one action, in the order of the code: answers of the preload thread,
deck A, deck B with its aliases, pruning. `advance` and `poll_uploads` follow in
the same tick and are one action, `Play`, where each player gives a frame,
nothing or its end: what `FfmpegPlayer` promises of `poll_frame`. Generations of
preloads are compared for equality only, so a new one is any that nothing
uses, instead of the next of an unbounded counter.

`Playback` instantiates `Players` under the name `P` on the same variables and
gives the engine its oracle (`Follow`, which reads the slots as the previous tick
left them), the slots their frame, their restarts and their edits. Edits happen
between two ticks (`EditCues`, `EditMedia`).

### FfmpegPlayer

Positions are frames from the IN point; the pts of the stream grow over the
cycles of a loop as in the code. The choice of the pacer is free: a poll takes any
frame in the ring, or none. Reads, pushes, exits of the reader, the messages
of the supervisor and the three steps of a drop are separate actions, so that
every interleaving is explored. `stop_child` is split in two (`SeekBegin`,
`SeekEnd`): the ring is closed and the process killed, then the reader is
awaited. A launch may fail before or after the generation is raised
(`NotLaunched`).

### ShowStore

A content is the number of the edit that made it. A folder has a file as seen, a
file as durable, and backups; only `Synced` makes the one the other, and a power cut
may undo a rename that was not synced. The worker's save is four steps; the
synchronous saves of the session are one, because the session waits for them. Delays of
debounce and autosave are free. Operations are in three groups: those that go on
with the show loaded (`Continue`), those that replace it by a new one
(`Create`), and those that load or rename one (`Replace`). `ShowHistory` adds the
shows a folder has owned and what has happened to the behaviour (`past`), which
the properties need to say where they apply.

### Session

A show is a record of lists, as in the code, with the parts that commands,
scans, undo and materials tell apart. `Edit` is `EditOp::apply` with every kind of
edit, and the undo stack with its two bounds (number of snapshots, total size).
A tick is one action per command, then `Background` (result of a scan, shaders that
changed), then `Frame`, where the cue engine moves, the compositor is maintained
and materials are put on the slots. `Write` and `Copy` are the disk; `Scan` is
the thread. What `Session` keeps of a material is the source it read; what the
card keeps is the source it compiled. `parted` marks, for `ProgramsCurrent`, the materials the code
itself leaves behind (below). The `ASSUME`s of `MCSession` check that
edits keep cues sorted, that stacks come back over any number of undos, that two
scans of any two folders give no id to another file, that a relocation takes with it the
media of the same folder only, and what a collection copies.

### Surfaces, Registry, Modulation, MidiEngine

`Surfaces` has the five threads between a fader and a parameter. A position of the
14-bit fader is two messages, and `Coarse` is the range of a half. The callback
holds the engine's lock and sends what comes out after letting it go
(`Callback`, `CallbackSends`), and so does the supervisor (`Flush`,
`SupervisorSends`). `Bridge` waits for room on the bus. `Frame` is what a tick does to
the parameters: the fade of the cue at an alpha that grows, the modulation, the
smoothing, in that order; `Alphas` and `Gains` are small sets. The shows are data of the instance: `ShowsAssumption`
says what a show file cannot break (one declaration for an address, values and routes of their types). An edit (`Edit`, `Follow`) rebuilds the
registry and, of the modulation, the patch and the cues, what it is about; edited cues put the fade in progress to its end
(`CutShort`, which is `load_hot`). An undo, a redo or a load (`Load`, which is `rebuild_all`) rebuilds everything and loads the cues cold:
the fade is dropped. The orders of both reach the hub later. `fade.before` is the fade as the frame found it, before the GOs and the edits
of the frame: `load_hot` forgets those GOs. Values are
integers from 0 to `One`, the scale of a 1.0.

### Timecode

The unit of time is the quarter of a frame. The transport plays, stops, turns
and goes elsewhere at any time; pieces are lost or spoilt; the session is late.
`QuarterFrame` and `MtcAssembled` are the assembler with its direction and its groups; the clock runs on,
freewheels and freezes. The assembler compares the numbers of the pieces and nothing else, so a group may be made of
pieces of two (`Mixed`); whether such bits give a time that exists (`is_valid`) is left free (`sane`). `unheard` and `slipped`
only serve a property: they remember that the transport moved between two pieces, and came back to a number that goes
on. The transport goes to the groups in `Spots`, at rest or not. A day of `Groups` groups lets midnight be passed. The drop-frame conversions are checked
by `LabelsComeBack` at the minutes, the hours and midnight for every nominal rate.

### Network

Each thread of the surfaces is a record with its stop flag and what it has in
hand; starting again is a walk through the joins (`phase`). A datagram is what
it decodes to, or nothing. `threads` keeps every feedback thread ever started,
because one may still resolve its host when it is of no use any more. A packet
remembers which patch had been pushed when it arrived, for `FramesSeePatch`.

### Interface and Replica

`handle_ws` is cut where it awaits: subscription, hello, replay of the journal, then
the loop. The broadcast drops the oldest messages of a client that falls behind
(`lagged`). `applyOp` of the page is checked equal to `EditOp::apply` over all pairs
of edits of a larger show (`MCInterface`). A page is `exact` while the hello it
received was the show of the moment, it lost nothing since and no gesture was made on it. A gesture (`Gesture`: a corner dragged or moved by an
arrow, the edge of a band) changes the page's copy before it is sent, at most every 80 ms, and also when it is not: in a performance or on a
dead link an arrow moves the corner and `sendEdit` refuses. All other edits (`SendEdit`) show when they come back. A page whose copy
is the show again, with nothing on its way to it, is `exact` again (`CaughtUp`).

### Preview and AnnexB

The encoder is a number (`gen`), so that a unit and a configuration can be
compared. A tick manages the encoder, then reads back and feeds the pictures
drawn at the previous preview. A connection is counted, configured, and gets units in the order of the
broadcast. `AnnexB` is the splitter; `MCPreview` checks over every stream of six
symbols that units do not depend on where the stream was cut and that nothing is lost.

### Display, Upload, Outputs, Compose

The card takes its commands in order and a fence is signalled when what precedes
is done; a wait may give up after its bounded tries, and then the slot is
written anyway: `torn` marks a picture that was overwritten before it was read,
which is allowed only when the wait was given up or the fence could not be made.
Windows are rebuilt when the activated outputs change, moved by the system when
a monitor goes, and moved back when it returns, wherever it is. A frame is cut
where the thread waits. A behaviour is about the hall (monitors and outputs)
or about the card, so that the two do not multiply. `Compose` has exact
fractions for the corner pinning; `MCDisplay` checks it for all
quadrilaterals of a 3 by 3 grid, and the order of drawing, the blends and the
blackout for every small plan.

## Runs

Every run passes; sizes are distinct states.

| run | module, cfg | instance | states | properties |
|---|---|---|---|---|
| `cue` | `MCCueEngine`, `MCCue` | three cues in three versions of the list (one disarmed, one deleted), one command per tick, ticks of 1 or 2, fades of 0 and 2, four frames of timecode | 2.6 M | `TypeOK`, `IndicesInRange`, `TransitionRuns`, `ChaseTracks`, `PanicHolds`, `ProgrammeMovesAsAsked` |
| `playback` | `MCPlayback` | two videos and a picture, two lists, one slice, answers one tick late | 4.3 M | `PlaybackInvariant`, `DecksFollowCues` |
| `playback_live` | `MCPlayback`, `MCPlaybackLive` | two videos, one with a black end, a wait and an end of media, a fade of no length | 97 K | `ShowGoesOn` |
| `player` | `MCFfmpegPlayer`, `MCPlayer` | five media (plain, unknown duration, whole loop, loop between points with hardware decoding, shorter than announced), ring of 2, one seek, two faults | 532 K | `PlayerInvariant`, `FramesAsAsked`, `NothingHangs` |
| `store` | `MCShowHistory`, `MCStore` | a show and its rescue folder, two edits, one fault, one load or rename, queue of 1 | 682 K | `TypeOK`, `OwnShowSaved`, `FilesCanBeTrusted`, `RecoveryKept`, `NothingForgotten` |
| `surfaces` | `MCSurfaces` | a 14-bit fader with two positions, a cue, an oscillator, three shows with an edit to each of the others and a load, a learn, three inputs | 2.7 M | `SurfacesInvariant`, `TakesOver`, `FadeMovesForward`, `EditKeepsPlaying` |
| `network` | `MCNetwork` | two settings, three patches, two hosts, two packets, a bus of 1 | 155 K | `NetworkInvariant`, `FramesSeePatch`, `RespawnEnds`, `FeedbackCatchesUp` |
| `timecode` | `Timecode` | a day of four groups, two moves, to one group, late by a frame, freewheel of ten quarters | 6.6 M | `TimecodeInvariant`, `AssembledWasSent`, `FrozenUntilPosition` |
| `session` | `MCSession` | two shows, two shaders (one with a version that does not compile), two folders, three kinds of edits, two edits, frequencies or undos in a behaviour, undo of two snapshots | 771 K | `SessionInvariant`, `ProgramsCurrent`, `UndoIsLinear`, `NoCompileInShow` |
| `preview` | `MCPreview` | two pages, two sizes, two encoders, queues of 1 and 2 | 781 K | `PreviewInvariant`, `UnderItsConfig` |
| `interface` | `MCInterface` | one page among others, two edits, one of them also as a gesture, a load, a warning, a cut, a broadcast of 2 | 446 K | `NoWarningMissed`, `PagesFollow`, `DeadLinkSeen` |
| `display` | `MCDisplay` | two outputs, a desk and a projector, three places, three cards, a ring of 2 | 877 K | `DisplayInvariant`, `FatalOnlyInTheDark`, `ScreensComeBack` |

What they say:

- **cue.** `IndicesInRange`: `cues[i]` never panics. `ProgrammeMovesAsAsked`: no fade is cut short
  but by a GO, an edit never moves the cue on air, GO plays another
  cue than the one on air, a loop is taken, a follow fires once, and when several cues end
  in one tick no parameters are lost. `PanicHolds`: a black asked for in an
  emergency only darkens, and stays until the operator plays something.
  `ChaseTracks`: while only the timecode moves the programme, the cue on air is the
  last one whose trigger was reached, through jumps, freewheel and relocks.
- **playback.** `PlaybackInvariant`: a slot holds its content and its texture shows
  it. `DecksFollowCues`: each deck has what its cue says, from its entry point,
  and nothing but a cue that starts touches the player on air; a deck is without its slot in one case only (`Stale`, below). `ShowGoesOn`: preloads arrive,
  fades end, waits and ends of media are followed.
- **player.** `FramesAsAsked`: frames in order, none from before a seek.
  `PlayerInvariant`: eof only at the real end, no process left behind. `NothingHangs`: a seek is
  served, a drop ends, a media ends.
- **store.** `OwnShowSaved`: what reads as saved is on disk, until a show is loaded or
  renamed. `FilesCanBeTrusted`: after any crash a folder has a show that can be read, its backups
  too, and it is its own. `RecoveryKept`: the snapshot is the show once the worker has caught
  up, and a panic makes it the next proposal. `NothingForgotten`: the autosave and the
  snapshot of the panic hook both get the last edit in the end.
- **surfaces.** `SurfacesInvariant`: a value sent to the show is made of the two halves of one
  position, and the hub maps the show that is loaded. `TakesOver`: a fader moves a value it did not set only after having met it.
  `FadeMovesForward`: while a cue fades, no frame goes away from where it leads.
  `EditKeepsPlaying`: no change of the show moves a parameter or the phase of an oscillator that stays; an edit of
  anything but the cues lets the fade run, an edit of the cues puts it to its end, and only an undo, a redo or a load drops it.
- **network.** `FramesSeePatch`: a frame is mapped with the patches pushed before it.
  `FeedbackCatchesUp`: a desk ends with what is on stage, whatever was throttled.
  `RespawnEnds`: starting again ends, unless the bus fills up meanwhile (below).
- **timecode.** `AssembledWasSent`: a time is that of the group sent, unless the transport moved unheard and came back
  to a number that goes on. `TimecodeInvariant`: after three groups with nothing lost the session is told the
  transport's time, at most a frame late. `FrozenUntilPosition`: after the
  freewheel it only moves with a position received.
- **session.** `UndoIsLinear`: an undo gives back exactly the show before the last
  gesture, whatever scans and loads come between. `SessionInvariant`, `ProgramsCurrent`: no slot keeps a material
  the session lost track of, and an edit or a change of a file reaches the screen.
  `NoCompileInShow`: nothing is compiled in a performance.
- **preview.** `UnderItsConfig`: no unit is relayed under the configuration of
  another encoder. **interface.** `PagesFollow`: a page that has the show of the moment follows it, until it loses
  something or a gesture is made on it. `NoWarningMissed`: none falls between the ring and the broadcast. `DeadLinkSeen`.
  **display.** `DisplayInvariant`: a texture shows the frame its slot was given.
  `FatalOnlyInTheDark`: one output that plays keeps the show running.
  `ScreensComeBack`: a projector that comes back gets its picture back.

## Bounds, and why they are enough

Each bound is a constant named in its module. Cue lists have three cues: the
active one, its target and one more. `MaxPending` = 1: a second command in the
same tick meets the state another tick would. The player's ring has 2 frames and its
media at most 4: full, empty and one cycle more than the ring; one seek overlaps a
replaced process with its successor, two overlapping seeks are not covered. Two faults
reach the second death in a row. The saver's queue of 1 (8 in the code) is empty or
full; two edits give an older and a newer content beside the first; one load or rename in a
behaviour; one backup kept. `MaxBacklog` bounds the requests the preload thread has
not taken when a tick begins; with 1 an answer can come after its slot was replaced,
moved or aliased. `playback_live` uses 0: it asks about progress, and the
lateness is already in `playback`. `playback` has one slice: slices share
nothing in `Players` but the order of the queue. The buses of 1 make every
producer wait. In `timecode` two moves mix two groups
(a jump whose first piece is lost); what is longer is left to the theorems, which hold for any number of moves.
In `preview`, breakage of the readback buffers is at their start only.
In `display` the operator's monitor stays plugged, and a full-screen change is immediate.

## Fairness and deadlock

- `Playback`: the steps of the tick, and the preload thread, each weakly fair. The
  render loop ticks as long as the process lives, and the preload thread is an ordinary
  thread blocked on a channel. Nothing is asked of the operator nor of the
  players: a media may never give a frame.
- `FfmpegPlayer`: supervisor, reader (but not its read: ffmpeg may stall), the two
  last steps of a drop, and the exit of a process that has nothing left to do or whose
  pipe is closed. The end of a media needs that ffmpeg decodes and the
  show polls, and says so itself.
- `ShowHistory`: the tick with its delays elapsed, the worker, the end of a process that
  is closing. A fault may always happen, at most `MaxFaults` times.
- `Network`: each thread, the resolver, and the tick: threads that run and calls with a timeout.
- `Interface`: the timers of a page (`Ping`, `PongTimeout`), which are `setInterval` and `setTimeout`.
- `Display`: the loop of the windows, the timer of the monitors, and a card that does
  what it is asked.

`CHECK_DEADLOCK FALSE` is given where the system may stop: `player` (a player that is
gone), `preview` (nobody watches and the bounds are spent), `display` (the program exits)
and `network` (the session and a server wait for each other, below).

## Refinement

- `Session` implements `UndoHistory` (`UndoIsLinear == History!Spec`): the line of shows is
  the undo stack, the show, and the redo stack reversed; the place is the show's. An edit
  may forget the oldest shows, a gesture replaces the last one, a scan or a frequency knob
  touches the show where it is.
- `Interface` implements `Replica` (`PagesFollow == R!Spec`): a page that is `exact` shows
  one of the shows there were, never an older one than before, and joins with the show of the moment. A page that is not maps to one that
  shows nothing: `Replica` promises nothing of what a gesture made of it.

## Proofs

Eight modules hold theorems, for every value of the constants that satisfies the named
assumptions of the model (TLC evaluates these on the runs). A theorem that states a property
of a run has it in its table. Where a theorem has a hypothesis of its own, it says so.

Each follows the same argument: an inductive invariant, that it holds at first, that each action
keeps it (one lemma per action, over lemmas that say what each function of the code returns), and
that it gives the property.

### Cue engine: `Playback_proofs`

| theorem | says |
|---|---|
| `InvariantHolds` | `Spec => []IInv` |
| `TypeCorrect` | `Spec => []TypeOK` |
| `NoDanglingCue` | `Spec => []IndicesInRange`: `cues[i]` never panics |
| `StoredTransitionsRun` | `Spec => []TransitionRuns`: no stored transition is a cut, empty or over |
| `BlackIsHeld` | `HSpec => PanicHolds` |
| `ProgrammeIsAsked` | `HSpec => ProgrammeMovesAsAsked` |
| `ChaseIsOnTrack` | `HSpec => []ChaseTracks` |

`IndicesInRange` and `TransitionRuns` are not inductive: an edit keeps a
reference only if the list it came from had it, the phases of a tick hand over a state to one
another, and the black level at the start of a panic is that of a fade whose clock is in its
range. `IInv` conjoins the type of every variable, that the show is `Sound` for the
current list, that the fade is not over once `BeginTick` has been through
`FinishTransition`, the range of the panic's level, and that the cues left to
fire are in the list with triggers.

What a step does is told by the events it adds, and one function of the engine may call several that add some
(a GO during a fade lands the fade, then starts, then lands the cut). So the lemmas first
say what each function adds and which parameters it poses (`Adds`, `Landed`, `PlayDone`), and
every action is shown to be one of eight shapes (`Shape`): nothing moves, STANDBY, a cue goes, a fade lands, the
programme goes dark, a follow finds nothing, a show is loaded, a list is edited. The action properties are then about
shapes. `ProgrammeMovesAsAsked` needs two facts on states: the standby is where the cue on air
loops or past it unless something chose otherwise (`Ahead`), and a follow is counted only while
the engine remembers that it fired (`Once`). `ChaseTracks` needs what the chase does in several
steps: which cues are still to fire, and where the fade in progress leads.

### Persistence: `ShowStore_proofs`

| theorem | says |
|---|---|
| `StoreTyped` | `Spec => []TypeOK`: the queue never exceeds its capacity either |
| `SavesFollowed` | `HSpec => []Followed`, where `Followed` is `IInv` until a show is loaded or renamed |
| `CleanShowIsSaved` | `HSpec => []OwnShowSaved` |
| `DiskCanBeTrusted` | `HSpec => []FilesCanBeTrusted`, loads and renames included |
| `RecoveryIsKept` | `HSpec => RecoveryKept`, from `SnapshotIsCurrent` and `RecoveryIsOffered` |

The condition of `Followed` is needed: saving under another name, or loading a show, while a save is in flight
lets its outcome clear the flag of the new one (below).

`OwnShowSaved` says nothing of the save under way, whose outcome clears the flag, so it is
not inductive. `IInv` follows that save: there is at most one among the queue, the
worker and the outcomes (`AtMostOneSave`); the job holds the show as it was at its edit number
(`JobsCarry`); once the worker has renamed, then synced, the folder holds what the job holds
(`WorkerWrote`); an outcome that succeeded for the current edit number means that the
show is on disk (`OutcomesTrue`). These claims are made of a show that somebody edited, which is how a new show may
replace another while its save is still running.

`FilesCanBeTrusted` rests on `Trusted`: until damage comes from outside every file and durable file
reads (`AllReadable`); the contents of a folder, of the show in memory, of the jobs queued and of the one being written were
its own show's (`AllOwned`); the newest backup is the file, and is what would be restored
(`AllBacked`), except in the folder the worker is between renaming and backing up (`Writing`).

`RecoveryKept` is about what the worker still has to do. While a snapshot waits in its queue the one of now is
older, so `SnapshotFollows` speaks of the snapshot there will be: the last job queued, else the job under way,
else the snapshot kept, is the show, unless the next tick is to post one. For the start
after a panic, `Promised` says that the contents go up from the snapshot to the jobs, in their order, to the show
(`InOrder`), that nothing a folder had is younger than the last edit (`Newer`), and, once the hook has written its file, that
whatever the worker wrote or still writes meanwhile does not make the file younger than it is (`Hooked`).

### Media slots: `Playback_proofs`

| theorem | says |
|---|---|
| `SlotsHoldTheirContent` | `PlaybackSpec => []PlaybackInvariant` |
| `DecksFollow` | `PlaybackSpec => DecksFollowCues` |

Assumptions: those of `CueEngine`, and `ScenesAssumption` (a scene gives a content to each slice, the kinds of contents are apart,
the slices are finitely many, as in a show). The number of slices, the shows and the backlog are any.

`Players` folds over the slices that want something, over the slots to evict and over the answers
of the preload thread. What a fold does for every set of slices would be an induction over data; it is had
without one. `FoldExists` says that the function the library's fold chooses exists, by the least size at which it would not;
what each step keeps (`Done`, `PruneDone`, `InstallDone`) then holds of every subset, because a least subset
where it fails (`LeastSubset`) is one step from a subset where it holds. So `Follows` says of each slice what a whole
`sync` does to it: deck A keeps its player, or takes deck B's, or gets a new one; deck B likewise, or
shares. It does not depend on the order in which the fold takes the slices.

`SInv` adds to `PlaybackInvariant`, beside `IInv` of the cue engine:
an answer or a request in flight with the generation of a slot that waits is about the content of that slot (`Awaited`; a
generation in use is given to nothing else);
a slot that has shown a frame says so and a slot that waits has no clock (`AllGood`);
no content is on both decks of a slice (`Apart`), so that a moved player has left nothing behind;
between `sync` and the upload a texture may be late, but then the slot is marked for it (`Visible`);
during a fade that no cue has just started the slots are those of its frame (`Settled`), without which
`Continuity` would not follow: the player on air could be anywhere. `Settled` rests on what the steps of the engine add to the
events of the tick, which the lemmas of the cue engine say of each.

### Player: `FfmpegPlayer_proofs`

| theorem | says |
|---|---|
| `PlayerIsSafe` | `Spec => []PlayerInvariant` |
| `SeeksAreHonoured` | once the seeks asked are served, no frame from before the last waits in the ring |
| `FramesComeAsAsked` | `AnnouncedIsEnough => (Spec => FramesAsAsked)` |

`PlayerInvariant` speaks of a player that has ended; to reach it, `IInv` says which reader belongs to which process
(`Working`), who may still answer the supervisor, once and last (`OneReader`), who stops whom
(`Joined`), how many seeks are counted and not yet served (`Asked`), and what is left of a player that has ended
(`Ends`). `Ordered` then orders the frames announced, those in the ring and the one being read, over
the process that replaces one that died.

`AnnouncedIsEnough` is that a media that loops is not longer than ffprobe says: the next cycle of a
loop by new processes starts at the announced length (`ffmpeg.rs`, `Segment`), so a longer one
comes back in time. The media of the run satisfy it.

### Surfaces: `Surfaces_proofs`

| theorem | says |
|---|---|
| `SurfacesHold` | `HSpec => []SurfacesInvariant`: types, `PairsWhole`, `HubFollowsShow` |
| `FadersTakeOver` | `HSpec => TakesOver` |
| `FadesMoveForward` | `HSpec => FadeMovesForward` |
| `EditsKeepPlaying` | `HSpec => EditKeepsPlaying` |

Assumptions: `ShowsAssumption`; `OneAssumption` and `SurfacesAssumption` (scales, gains and alphas are what their names say,
queues have room for one); `CoarseAssumption` (a half of a controller has more than one value, and the first half
of a pair waits for a time that is not zero, 50 ms in `cc14.rs`);
`FaderAssumption`: the control changes of every show are bound to the one 14-bit
fader of the model, over the whole range of a parameter, and there is one. The shows, their parameters, modulators,
routes and cues, what the other surfaces send, the positions, the scales and the queues are any.

`SurfacesInvariant` says of the hand of a thread what it is about to send. To reach it, `OnWire` follows
the halves back to the device: the second half on the wire comes just after its first, or its first is the one the
assembler remembers, even if a flush has meanwhile sent it alone (`cc14.rs` keeps `last_msb`). `Behind` says that the last
order to the hub is about the show that is loaded, so that with no order left the two agree. `Hands` and `Bounds` type the
engine and every queue, `Plays` the registry, the modulators and the fade: a target is always a value its parameter accepts.
`Travelled` says that what a fader has reported was seen since the engine last learnt a value; with it `TakesOver` is about one message
(`Met`): a fader that engages has a position on each side of the value, or one near it.

For `FadeMovesForward`, what a frame does to a parameter is cut as the code does it: the blend is between the value at
the start and the goal (`BlendedTowardIs`), the smoothing between the value shown and the target (`TickedIs`), and the
modulation only adds an offset; and these compose (`Btw`). It holds for every fraction the smoothing and the fade may take.
For `EditKeepsPlaying`, `RebuiltIs` and `LoadedIs` say that registering again, the imposed smoothing, the purge and the load
of modulators leave what stays, and the goals of the fade the frame found are followed to what an edit of the cues leaves to pose. The folds over events, offsets and the snapshots of cues that end together go through `FoldExists`, as those of `Players`.

### Timecode: `Surfaces_proofs`

| theorem | says |
|---|---|
| `TimesWereSent` | `MtcSpec => AssembledWasSent` |
| `FrozenTimeStays` | `MtcSpec => FrozenUntilPosition` |
| `TimeIsTracked` | `MtcSpec => []TimecodeInvariant` |

Assumption: `TimecodeAssumption`, of which the last theorem uses that a freewheel outlasts the seven quarter frames between two times (it
is a second in the code, 96 quarter frames at the slowest rate); with less, a clock that is fed in time would still say it is not locked. The
rates, the day, the channel, the lateness of the session, the losses and the moves are any.

`Collected` is about the assembler: unless the transport moved unheard, the last piece is where the transport is;
unless it also slipped, every piece in the mask is of the group it is in. A piece heard is then one that goes on in
the group, one that begins it, or one that empties the mask (`PieceJoins`).

`Stopped` is about the clock: a time told without lock is what the clock tells until it is fed, for the freewheel has passed and
the signal does not come back by itself. Feeding it a lock freezes that time, feeding it a loss changes nothing (`FedIs`); of a whole
channel without a position `DrainedIs` says the same, by the least event at which it would fail.

`Tracked` says what so many pieces in a row have led to, counted from where the transport is in its group: the first
tells the place, the second the direction, those since the number 0 are in the mask, the first full group gives the
lock, and the second a time, which either waits last in the channel or has been given to the clock (`Waits`, `Given`), since when at
most seven pieces passed. TLC checked it on the run before it was proved.

### Session: `Session_proofs`

| theorem | says |
|---|---|
| `SessionIsSafe` | `Spec => []SessionInvariant` |
| `UndoWalksALine` | `Spec => UndoIsLinear`: the session implements `UndoHistory` |
| `ProgramsAreCurrent` | `Spec => []ProgramsCurrent` |
| `NothingIsCompiledInAShow` | `Spec => NoCompileInShow` |

Assumptions: `ShowsAssumption` (shows have their lists) and `OpsAssumption` (`MaterialUpdate` finds its material by the id
of the new one, so an update does not change an id).

`SInv` adds the gesture to the type of the stack: an edit of a gesture under way pushes nothing, and only
because nothing can be redone then does the line of shows (`LineOf`: the past, the show, what was undone
reversed) still end with the show. Under that line each command is a step of `UndoHistory`, dropping of the
oldest snapshots by number and by size included.

`PInv` compares the file, the source held and the program two by two, for a file may have changed twice and a source
been refused in between: `Read`, `Fresh`, `Held`, with the path the material names (`Placed`), each unless
a report of the watcher is to come or the material is set apart. A material set apart has a program
(`Marked`), and a performance has compiled all it can show (`Frozen`).

### Interface: `Interface_proofs`

| theorem | says |
|---|---|
| `WarningsReachPages` | `Spec => []NoWarningMissed` |
| `PageAppliesAsEngine` | `applyOp` of the page and `EditOp::apply` make the same show of every edit that fits it |
| `PagesFollowTheShow` | `Spec => PagesFollow`: session, server and page implement `Replica` |

`Journals` says that the ring holds the last lines with none skipped (`RingIsLast`), which is what a
page reads of it when it opens; the line is kept before it is sent, and the page has subscribed before it reads.

For the refinement, what waits for a page are the steps from the show it displays to the show of now: `Track`
gives to each message the versions it goes from and to (`Leads`), the last of them being the present. An
edit sent to a page appends a step to the track, an edit taken removes one and is a `Follow` of
`Replica`, a gesture is a `Part`, and all else is a `Join`, a `Part` or nothing. The theorem holds for whatever lists a show has and whatever is
in them. Its hypotheses are the types: a field is a list or a value and a cue has a number (`Typed`), what an edit holds
is of the type of what it replaces (`EditOf`), the shows that are loaded are of these types with
their cues in order (`ShowsOf`). That edits leave such a show such a show is proved (`EditStays`): what
`retain` leaves of a list in order is in order (`WithoutIs`), as is a list with a new cue before the first that is
not lower (`InsertedInOrder`). `MCInterface` checks the same on every pair of edits of a show with something of every kind.

`PageAppliesAsEngine` goes kind by kind. A `find` on both sides comes to the least place (`FindsTheSame`, `SameState`);
for a new cue the page looks for the first that is not before it and the engine searches by halves, and
in a list in order both come to the one place that cuts it there (`SamePlace`).

### Previews: `Preview_proofs`

| theorem | says |
|---|---|
| `FramesGoWhereTheyFit` | `Spec => []PreviewInvariant` |
| `UnitsAreAnnounced` | `Spec => []UnderItsConfig` |

`Encoding` and `Reading` say what the encoder's queue and each channel of the readback may hold: a picture of the
size of the channel, of its stream. `UnderItsConfig` needs more than the units in the backlogs: those the encoder will give
go to connections already there. `Watching` says of each connection that lost nothing that its units have their configuration
(`Fits`), and that the units to come of the encoder that runs will have theirs
(`Informed`). `FitsIsBefore` links `Fits` to the configuration the property computes.

### Display: `Display_proofs`

| theorem | says |
|---|---|
| `TheShowGoesOn` | `Spec => []FatalOnlyInTheDark` |
| `DisplayIsSafe` | `Spec => []DisplayInvariant` |

`Dark` says that nothing is presented between two frames, that what was presented since the failures began was in
this frame, and that the thread stops with the card. `Whole` adds to the types of
the card that a command which has still to read a slot is watched by the fence of that slot, unless nobody watches it any
more (`Watched`): that is why a slot written again was read. `Framed` is about the windows: each is of an output and on a
monitor that is there (`Placed`), a fallback is full screen, and the monitor of the desk is never unplugged. What a filter leaves of
a sequence (`Kept`) is a sequence of its elements: as induction is out of reach, `KeptIs` takes the least place where that would fail.

### Only model-checked

- *Liveness* (`ShowGoesOn`, `NothingHangs`, `NothingForgotten`, `RespawnEnds`, `FeedbackCatchesUp`, `DeadLinkSeen`, `ScreensComeBack`) and `ENABLED`: not within reach of the proof system.
- *Not proved*: `ArtNet`, and the labels of drop frame (`LabelsComeBack`), which are evaluated.
- *`RECURSIVE` operators*: `Osc`, and with it `Network`.

### What the proofs found about the models

- `ProgramsCurrent` used to set a material apart by comparing program and file alone: a file that changes twice with
  a refused version in between is then neither current nor set apart. `parted` now compares source, file and program two by two.
- A `goto_after` whose target disappears and comes back during its cue is not taken, because `load_hot` keeps the standby
  chosen meanwhile: the follow of `ProgrammeMovesAsAsked` says so.
- The snapshots of parameters a step must pose were compared after the step with the list of then, but an edit may
  change the parameters of a cue that has just ended: the property is about the step.
- `EditOp::apply` inserts a cue by binary search, `applyOp` before the first cue that is not lower: the models of both used
  the latter. They agree on cues in order only, and a show file is not sorted when it is loaded (only the copy of the
  cue engine is, `cue/src/lib.rs:218`): of a file whose cues are out of order, page and engine may differ after a `cue_add`.
- `applyOp` replaces one state of a cue, the first of its slice; its model replaced them all.
- `AssembledWasSent` used to say that no time is made of pieces of two groups. That was true within the bound of the run
  only: the assembler compares numbers (`mtc.rs:140-181`), and a transport that stops, goes elsewhere and
  plays on from the next number, or eight pieces lost, gives it a group made of two. The property now has `slipped`, and the run reaches it.
- Overlapping arms of a `CASE` (`Relay` of `Preview`, `ApplyOp` of `Interface`) left the choice to the checker: they exclude
  each other now. `Viewers` had to be said finite.

## Where the code and its documentation disagree

The models do what the code does, so no property that holds can say what these
places promise; some are visible in the statement of a property, which then says where it applies.

Cue engine and playback:
- `load_hot` drops what was latched between two ticks (`cue/src/lib.rs:227`, against `lib.rs:159`).
- A STANDBY given during a fade is overwritten when it ends (`lib.rs:478`, against `lib.rs:314`).
- At the end of a fade between two videos, `slots.insert` drops the outgoing player in
  the tick, where `players.rs:9-12` promises the preload thread.
- A cue that starts with a fade seeks the *outgoing* video too, because restarts are
  asked for by slice (`players.rs:522`); visible for the length of the fade.
- A cue that follows its media, cut to while the media it replaces is at its end, is
  left in the tick it starts (`session.rs:565`).
- `sync` takes the slot deck A had for the cue that is left, and not pruned yet, for the programme's (`players.rs:302-313`). When the programme has
  nothing on a slice and the standby wants there what that slot holds, deck B is said to share it and loses its own (313), then the slot is pruned
  (320-333): for that tick the slice has no slot, and the player is closed to be opened again at the next one, where `players.rs:281-283` says that one
  player serves both decks. `DecksServed` states this case (`Stale`) and that there is no other.
- A picture on both decks that is loaded after the first synchronisation is never
  uploaded to deck B (`players.rs:467`). A slot that ended in black and changes deck uploads its
  last picture again.
- A drop whose `ReaderDone` overtakes `Shutdown` gives hardware decoding up
  (`ffmpeg.rs:585`); after a second death of ffmpeg, eof never comes.

Timecode:
- A jump, or a loss, after which the number of the piece follows the last one is no rupture: no
  `SignalLost`, and one time made of two groups if `is_valid` accepts it (`mtc.rs:140-181`, against `mtc.rs:8-9`).

Persistence:
- `save_before_destructive` writes the show, and an older job still in the queue then
  overwrites it (`session.rs:975`).
- The result of a save in flight clears the flag of the show loaded or renamed meanwhile (`session.rs:1363`):
  `OwnShowSaved` says "until then".
- After a fallback the configuration still names the folder set aside (`main.rs:346`).
- `install_show` loses its snapshot when the queue is full (`session.rs:1411`); the recovery file carries no show name.

Session and library:
- A material that takes the id of another keeps the program of the first, because
  programs are kept by id (`session.rs:1800`); a shader changed during a performance is not reread after it:
  `ProgramsCurrent` leaves these out (`parted`).
- A scan that ends after edits of the media or the materials takes them back (`session.rs:1494`).
- `mod/{id}/freq` changes the show without marking it as modified, in a performance too.
- Purges of thumbnails are dropped while a generation runs; a thumbnail is kept when its id means another file.

Surfaces:
- An edit of the cues puts the fade in progress to its end (`load_hot`, `cue/src/lib.rs:247`) and forgets a GO of the same frame; an undo, a redo or a
  load goes through `rebuild_all` to `load` (`session.rs:1426`, `lib.rs:216-234`), which drops the fade and leaves the parameters half-way.
  `EditKeepsPlaying` tells the cases apart.
- With the bus full and a server with a command in hand, `respawn` waits for the server and the server for
  the session, for ever, where `server.rs:69` says 100 ms: `RespawnEnds` is stated with this exception (`Stuck`).
- `PatchOscOutSet` only pushes the patch (`session.rs:1308`): the new feedback host waits for the next start of
  the surfaces, although their signature holds it (`protocols.rs:24`).
- The value told to the hub is the one shown, smoothed and modulated (`session.rs:1072`): a fader whose
  parameter is smoothed or modulated lets go of it by itself (`pickup.rs:9-12`).

Web interface and previews:
- `hello` is the state published last, up to 100 ms old, and the events between are lost or applied
  again: `PagesFollow` is about the pages that have the show of the moment.
- The page's copy is changed by gestures before the engine is asked: corners dragged (`app.js:2504`), corners moved by the arrows (`app.js:2584-2590`,
  in a performance too), edges of a band (`app.js:3084-3092`). When the edit is refused (`app.js:245-249`), or lost on a dead link or a full bus, the page
  shows a show that never was until it comes back or catches up; while a corner is dragged, the echoes of earlier positions put it back.
  `app.js:646-647` says that `applyOp` keeps the copy in phase: `PagesFollow` promises it to pages without such a gesture.
- A relocation with its cascade, and `mod/{id}/freq`, change the show without telling the pages.
- A second viewer of the H.264 preview gets every page a new configuration; the first goes
  on with a fresh decoder that waits for a key unit (`docs/DECISIONS.md:74`).

Display:
- Still pictures polled while no window can be made current are lost (`session.rs:652`, `players.rs:453-487`).
- `ensure_windows` compares identifiers: other settings of an output apply at the next start.
- Windows rebuilt while a projector is unplugged forget it (`docs/DECISIONS.md:68`).
- An error of one material aborts the output, and for two seconds is taken for a lost card.
- A fence that cannot be made leaves its slot without protection: `DisplayInvariant` allows that picture to be torn.

## Not modelled

Drawing, shader compilation, parsing and generation of ISF, noise and spectrum of the
modulation, audio capture, decoding of packets and pictures, file formats: data with little
control, outside what a model checker reaches. The routes of the server that serve files;
the crash reporter, the update check, the sampling of the machine, the instance lock: I/O at the edges.
The pacer is arithmetic on real times: `FfmpegPlayer` leaves its choice free. In the modelled
parts: easing curves, the playback speed, paths and format versions, wording of events and
warnings, audio input, the archive of diagnostics,
a feedback whose `send_to` fails (`feedback.rs:121`: it is not sent again), a page in the background or with a second socket.

## Plan

Done: cue engine and its invariant; persistence; player; slots and their composition with the
engine; timecode; surfaces, registry and modulation; network; session, undo and library; interface;
previews; display.

1. **Proofs**: the conversions of `Network`, once its recursive operators are functions.
2. **Refinement**: an abstract player (frames in order from the last seek, then eof or
   illness) implemented by `FfmpegPlayer`, and used by `Players` instead of free polls.
3. **Compositions**: the timecode's clock with the chase of the engine; `Surfaces` with `CueEngine`.
4. **Process**: start and end of the program (`main.rs`), the pacer and the buffer pool.
