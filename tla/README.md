# TLA+ specifications of the SF2000 Linux port

These specifications model the SF2000 Linux port: the loader that starts the
kernel, the daemons that share panel, SD card and watchdog of a small
single-CPU handheld, the libraries and drivers under them, and the cache model
the port is measured with. The daemons talk to each other through marker files
in `/run`, the libraries to hardware through cursors and registers; what both
have in common is that somebody else may look, move or fail between any two
accesses. That is what is hard to test and what the models are about.

## Inventory

| Part | Source | State | Operations | Talks to |
|---|---|---|---|---|
| init | `userspace/sf2000-init.c` | child pids, boot phase | spawn services, reap, restart, safe shutdown, stop the screen for `fb-test` | all services (spawn, wait4, markers), watchdog, card (sync, umount) |
| powerd | `userspace/sf2000-powerd.c` | chord flags, standby, back light | standby, pause and resume the console, launch and relaunch the browser, end a performance session | screen and logd (markers), frontend (vfork, waitpid, markers) |
| screen | `userspace/sf2000-screen.c` | panel bring-up phase, console text, `application_paused`, watchdog | bring up panel and GE, draw, pause, stop | powerd and init (markers), `/dev/ge` |
| logd | `userspace/sf2000-logd.c` | RAM journal, `log_fd`, `mount_generation`, `storage_deferred` | append, flush, sync, checkpoint, open and close a session, follow the card, exit | mount (generation, marker), powerd and browser (session markers), init (stop markers) |
| mount | `userspace/sf2000-mount.c` | mounted volumes, identity, generation | find, score, mount, relocate, publish, release | kernel, everybody through `/run/sf2000-storage-*` |
| pad | `userspace/sf2000-pad.c` | debounce history, board profile | sample, debounce, emit events | uinput |
| loader | `boot/linux-loader.c` | boot log, retained ring | load, verify and start the kernel, dump the previous boot | retained RAM |
| retained ring | `platform/hc15xx_retained.c` and copies in loader, init, screen | 1024 entries and a header in RAM that survives a reset | mark, reset, dump | read by the next boot |
| audio | `audio/` | DMA ring cursors, STC, resampler phase | configure, publish, service, stop; resample; A/V decision | SND0 hardware |
| graphics engine | `ge/` | command batch | encode nodes, submit, sync | `/dev/ge` |
| video decoder, DSC, eFuse | `vdec/`, `dsc/`, `efuse/` | register-level handles | open, decode, release; cipher; read fuses | hardware |
| kernel | `patches/linux-*` | GE command ring and registers | GE, MMC, interrupt and PCM drivers | `/dev/ge`, the services through system calls |
| storage probe | `userspace/sf2000-storage-probe.c` | sector buffers | raw read and write test, FAT32 file | SD card |
| cache model | `tools/qemu/sf2000-cache-model.c` | two caches, counters, recompiler window | translate, execute, access, frame, report | QEMU |

What is hard here: hand-offs with time limits (a late answer races the
time-out), markers that outlive the process that wrote them, a card that may
vanish at any step, failures of one call out of several, a blocking wait of
`init` on a service that waits for somebody else, a screen that may hang in an
MMIO transaction, and a bounded journal. `PROJECT.json` lists each hazard with
its line and the properties aimed at it.

## Modules

| Module | Models | Composes |
|---|---|---|
| `Foreground` | powerd complete; the console loop and `application_pause_service` of the screen; logd's session step; the frontend as an environment | powerd, screen, logd, frontend, init's stop request |
| `MCForeground` | its TLC instances | |
| `ForegroundProofs` | theorems about `Foreground` | |
| `LogStream` | abstract specification: a stream of cells, waiting, stored or shed | |
| `LogJournal` | logd complete: `append_bytes`, `flush_log`, `sync_log`, `force_flush_log`, `refresh_storage_binding`, `service_flush_request`, the main loop; the mount service's publishing order; the user's card | logd, mount, clients; implements `LogStream` |
| `LogJournalProofs` | theorems about `LogJournal`, that it implements `LogStream` among them | |
| `Shutdown` | init from the first spawn to the reboot system call, `stop_service`, `stop_logger`; the parts of logd, screen, mount and frontend it waits for | init, logd, screen, mount, frontend |
| `ShutdownProofs` | theorems about `Shutdown` | |
| `LoaderImage` | `linux_loader_main_impl`: ELF scan, cache sweep, copy of kernel and device tree, flush, compare and repair, invalidate | loader, data and instruction cache |
| `BootLog` | the loader's `bootlog_*`: raw sector log through a one-sector FAT cache | loader, failing ROM disk calls |
| `RetainedRing` | the progress ring: every copy of `progress_mark`, `progress_reset` and `bootlog_dump_previous_progress` | loader, kernel, library, init, screen |
| `RetainedRingProofs` | theorem about `RetainedRing` | |
| `FatProbe` | the storage probe's raw FAT32 write test | probe, failing transfers, resets |
| `FatProbeProofs` | theorem about `FatProbe` | |
| `StorageMount` | the mount service: poll, probe, score, relocate, publish, forget | service, user's card, failing `umount` and `mount --move` |
| `Storage` | the five components above, one at a time, and their properties | loader, boot log, ring, probe, mount service |
| `StorageProofs` | theorems about `Storage` | |
| `MCStorage` | its TLC instance | |
| `GeQueue` | batches and `hcge_linux_submit` of the library, submit, sync, reset and interrupt of the driver, the engine | clients, driver, engine |
| `GeQueueProofs` | theorem about `GeQueue` | |
| `GeGeometry`, `GeNode` | clipping, bounding boxes, borders, cache ranges; node layout, `hcge_check_state` and what the drawing calls refuse | |
| `AudioRing` | SND0 ring: `configure_ring`, `start`, `set_target`, `service_ring`, `stop` | writer, interrupt handler, hardware |
| `Resampler`, `AvSync` | `hc15xx_resampler_process_stereo_s16` and friends; the A/V decisions and clock divisors | |
| `Efuse` | `hc15xx_efuse_*`: read, masked program, busy and error polling | caller, fuse controller |
| `Pad` | `sf2000-pad`'s loop: scan, debounce, standby period, configuration; board detection | pad, powerd's marker, the card |
| `Console` | scrollback, view, line cutting, button repeat of the screen | kernel log, input devices |
| `PanelHandoff` | `run_direct_console` from the boot mode to the first frame of the loop | screen, GMA, tearing-effect line, stop and pause requests |
| `CacheModel` | the QEMU plugin: both caches, translation, execution and memory callbacks, frames, counters | plugin, emulated program |
| `Algorithms` | single calls of `GeGeometry`, `GeNode`, `Resampler`, `AvSync`, `Pad` with their references | |
| `Devices` | the components from `GeQueue` to here, one at a time, and their properties | the device programs and the pure functions |
| `DeviceProofs` | theorems about `Devices` | |
| `MCDevices` | its TLC instance | |

`Storage` and `Devices` run components that share no state. A behaviour
belongs to one `part`, chosen in the initial state; the variables of the others
hold the model value `Off` and never change. So one run explores the sum, not
the product, of the components, and every property begins with its part. The
runs check and the theorems prove the same definitions of these two modules.

Definitions marked "Slip" stand before the definition they distort: they are
plausible programming errors, and each is used to check that some property
notices it. They are no part of any specification.

### Foreground

A variable `run` holds the marker files that exist; `Create` and `Unlink` are
the only ways to change it, and each file operation that another process can
notice is a step of its own (`PauseUnlink`, `PauseCreate`, ...). `pc` is where
powerd is, `spc` where the screen's loop is, `lpc` where logd is. `Key` is one
iteration of powerd's event loop with its three branches (enter standby, leave
standby, launch); what `drain_input` drops is modelled by an arbitrary new set
of held buttons. A screen that stops leaves its loop in steps (`ScreenTop`,
`ScreenDark`, `ScreenUnstop`): the lamp goes out, then the stop request is
unlinked. The standby marker may fail to be created (`StandbyMark`), like every
other file. `acked`, `pauseLate`, `sessionLate`, `freshReady` and `unmarked` (that
failure) are history variables for stating properties; no action reads them
except to record.

The frontend is not in the repository. It is modelled from what powerd and logd
expect of it: publish a first frame, ask for a session and wait for the answer,
exec an application in place, leave with or without the exit marker, die at any
time.

### LogJournal

Log text is a stream of numbered cells; a record is a run of consecutive cells.
`buffer` is the used part of `log_buffer`, `file[c]` what card `c` holds
including the page cache, `durable[c]` how much of it survives. `FlushResults`
gives every outcome of `flush_log`: nothing to do, complete, or failed after any
prefix (which then stays in the buffer and is written again, as in the code).
`AppendBytes` is `append_bytes` with both of its flushes and its discard. The
card can be pulled at any step, losing what was not synced. The mount service
keeps its order: file system, generation, marker; and back: umount (which fails
while logd's descriptor is open), marker.

`hasty` is a history variable: a generation was written between logd's first
`open` and the read of the generation that follows it.

### Shutdown

`ipc` is the system call init is at. `proc` is the kernel's view of the
children; `logdPid` and `screenPid` are init's belief, which differs from it
after the supervisor loop has reaped a crashed screen. `held` is what the
frontend keeps open, `dirty` what is unwritten, `owed` what was mounted when the
job began. The screen may wedge or crash at any step.

### RetainedRing

A mark is its sequence number, and the payload of mark `s` is the number `s`, so
an entry is whole when both agree. Each store of `progress_mark` that a reset or
another writer can come between is a step (`Read`, `Stamp`, `Tear`, `Fill`,
`Wrap`, `Publish`, `Seal`); `style` selects the discipline of the copy that is
running: "kernel" (loader and kernel), "library" (`hc15xx_retained_mark`) or
"lazy" (init, screen, reset probe). `Contexts` is how many marks can be in
progress at once; they interleave at every store. `PowerCycle` stops the machine
at any step; the dump is a function of the state (`HeaderUsable`, `Count`, `Start`,
`Line`), so a property of it holds wherever the machine may stop. `done` counts the
completed marks and is read by no action except for the bound `MaxMarks`.

`spoilt` is a history variable: since the ring was last emptied, two marks have
overlapped, or an eager one has met an index that rests at N with `wrapped` not
set. The code allows both and the model takes both steps; what is lost then is
said under Observations. That nothing is stored or dumped outside the ring is
claimed without a proviso, that marks are found again only for a ring that is
not `spoilt`.

### LoaderImage

Memory is thirteen words, each named by the address it had when the loader
started, so a word that arrives at the wrong place or too late is visible.
`ram` is what an uncached access sees, `dirty` the words of the data cache that
differ, `icache` the addresses with an old instruction line. `Init` lets an
earlier image leave any dirty and stale lines in the load window. `Evict` writes
a dirty word back at any time. Each call of `linux_loader_main_impl` is a step,
and copying takes a step per program header, last one first as in the code
(`CopyOverlap` chooses the direction as `copy_overlap` does).

### BootLog

The text is numbered, a sector holds two characters, a table sector two entries.
`Walk` is `log_file_lba` with `log_fat_next`: the cached sector is
replaced when another one is wanted; a failing read has transferred any number of
its entries into the buffer and leaves the tag alone. `torn` is a history variable:
such a read has left a sector in the buffer that is not the one the tag names.
`Links` is the walk as a recursive function of the number of links. The
seven tables of the instance contain straight, backward, short, looping and
out-of-range chains and links across table sectors.

### FatProbe

Sectors are written in the order of `Order`; a failing transfer (`Stop`) ends
the run where it is and a reset is the same thing; the test runs again at the
next start, three times in the instance, with a root directory of three
clusters. `blind` records that a link of the root chain could not be read.

### StorageMount

A card has an identity, a superfloppy look and a score per volume. `session`
counts insertions, so a mount of a card that has been pulled is dead although
its root can still be looked up, as in Linux. `Insert` and `Pull` happen between
any two calls of the service (`Hasty`; without it only between two polls).
`public` has a stack per mountpoint, because a `umount` that fails leaves the
old volume under the next one.

### GeQueue

A word of the ring is one drawing command. `Publish` writes at the tail, or
wraps and leaves the wrap marker; `Started` is `sf2000_ge_start_available` with the rewind
at the marker, always in the submission that wrapped, since a submission waits for
a drained ring; `Execute` is the engine, `Interrupt` the handler, which may come
late or never (sync polls). A batch remembers its first error (`InBatch`).
`owed` is a history variable: accepted and not yet drawn.

### AudioRing

Cursors are in 16-byte units. The library runs twice: in the writer, one step
per register access and per store the handler can see, and in the handler, which
preempts it anywhere. `update` on the cursor register is a read (`FetchRegister`,
`WriterPublishes`, `HandlerPublishes`) and a write of both halves later
(`WriteBack`): the low half may take back a tail the handler has published in
between, and of the high half, which is the consumer as it was read, the hardware
either takes no notice or takes it for its cursor. The handler runs to its end
before the writer goes on, since there is one processor, but the hardware moves
between its steps. `stale` is a history variable: the last write of the register
stored another cursor than `published`.

The hardware plays up to the published cursor; on equal cursors it decides that
the ring is empty (`SeesEmpty`) and clears the run bit later (`RunsDry`), which new
data may be too late to stop. `Speed` bounds what it plays from the read of the
consumer in `set_target` to the write of the register: at most the ring without its
guard of 64 bytes, against a few register accesses (a ring of 4 KiB is 32 ms of
sound at 32 kHz).

### Efuse, Pad, Console

`Efuse` has a step per register access, so that the controller blows the next
fuse, fails, or is still busy between any two of them. `Pad` has one action per
turn of the loop (`Turn`, with the confirming scan inside), the standby marker,
the configuration that is read when the card is mounted, and the stop signal.
`Console` numbers the printable characters; `AddLine` is `console_add_line`,
`HandleHeld` the delay and repeat of held directions, `DeviceGone` and
`RefreshFds` the coming and going of input devices. `Begins` counts, for the
properties, the characters that came before each retained line. The ranges a
caller of `hc15xx_efuse_bits_write` names begin at a fuse, so the unsigned sum in its
check stays far below 2^32 and is a sum of natural numbers.

### PanelHandoff

`boot` says whether the bootloader left a streaming panel, whether the engine
diagnostics run and whether the panel is skipped. `pads` is what the shared pads
carry, `slot`, `staged` and `fetch` are the descriptor built last, the one
staged and the one being fetched. Every wait may succeed, time out, or be cut
short by `stop`. Register values are left out, their order is not. A pass of the
loop (50 ms) is taken to span a frame boundary, whether it draws or not (`Draw`,
`Idle`). `KmsgFails` is the frame that reports a missing `/dev/kmsg`, presented with no
wait for its latch; `ProbeFails` on a direct boot goes on although the staged slot
is not latched yet. Both set the history variable `loose`, and every build that
finds its slot being fetched sets `writtenLive`.

### CacheModel

Addresses are line numbers in three regions (core, recompiler window, other).
`Translate`, `Execute`, `Memory` and `FrameMarker` are the plugin's callbacks;
`StartOfPhase` is the reset when the measured phase begins. `Run` executes a block
instruction by instruction. An age is the counter modulo `AgeSpan`, which is 2^32 in
the code and 5 in the instance; the counter itself has 64 bits and is a natural
number here, so its own wrap and the reset of the ages that comes with it are left
out. Two histories are kept for the properties: `ilog`, the
set of lines fetched since that reset and not patched since, and `dlog`, the data
accesses since then in their order; `Recent` is the reference, for each set the
lines of the last `Ways` different ones in `dlog`.

### Algorithms

`call` holds the arguments of one call; each action picks them from a small set
that contains the edges (outside, touching, inside, larger than the surface;
equal and unequal rates; stamps around each threshold). The reference
definitions are sets of pixels or bytes (`Pixels`, `SurfaceBytes`, `Border`),
the engine's own decoding of a node (`Expected`), the whole input resampled at
once, and the wide path for the narrow one. The state of a drawing call says, apart
from flags and blend functions, whether formats are known, addresses, pitches and
sizes are valid, and rectangle and mask fit; `hcge_check_state` looks at formats
only, so what it grants is compared with what a call accepts whose surfaces and
rectangles are valid (`Drawable`).

## Runs

| Run | Question | Bounds |
|---|---|---|
| `foreground_owner` | Is an acknowledged pause really quiet, is the lamp lit only for a frame of the running child, do markers, lamp and watchdog agree with the mode? | 3 keys, pause limit of 2 polls, screen up to 3 polls late, drains, `open` and `vfork` may fail, init may stop the screen |
| `foreground_session` | Does a granted game have the card to itself over relaunches, and does everybody get out of his wait? | 2 keys, pause limit 2, drain limit 1, fair scheduling |
| `foreground_two_writers` | violation, see Findings | pause limit of 8 polls with the screen running after every poll |
| `log` | Does the journal implement `LogStream`; is "ok" truthful; is the card spared in a session; does a clean exit drain? Does the log follow the card, is a flush answered? | 2 cards, buffer of 3 cells, threshold 2, records of 1 and 2 cells, 4 outside events, 1 failure, fair scheduling |
| `log_stale_binding` | violation, see Findings: `LogFollowsCard` without its exception | 3 events, no failure |
| `shutdown_stop` | Is the card clean when the power goes, is a stopped screen quiet, does a request always reach the reboot call? | one extra volume, 2 ticks, with `fb-test`, fair scheduling |
| `shutdown_no_card` | violation, see Findings | |
| `storage` | `LoaderKeepsImage`, `BootLogIsFaithful`, `RingSurvivesReset`, `FatStaysConsistent`, `MountPublishesWhatIsThere`, `MountServesSwappedCard` | loader: 13 words, 5 of payload, load windows from inside the payload to behind it, 4 images to refuse; boot log: 9 characters, 7 tables, 2 faults, a read that fails after any entry; ring: 2 slots, 2 writers whose marks interleave at every store, 3 marks per boot, a reset at any store; probe: 6 clusters, 3 runs; mount: 3 cards, 2 insertions, 2 faults |
| `loader_overlap`, `mount_reinsert` | violations, see Findings | as `storage`; the card changes only between polls |
| `devices` | the GE ring and its liveness, the audio ring and its liveness, eFuse programming, debounce, scrollback, panel hand-off and its embargo, the cache model, and the pure functions against their references | GE: one process on a ring of 5 words with guard 1, batches of 2 and 8 words drawn, and two processes on a ring of 3 with 4 words drawn; audio: 6 units, guard 4, speed 2; 4 fuses, 2 calls; 2 buttons; 6 lines of scrollback, 4 rows; 4 tearing-effect edges; 1 set of 2 ways, ages modulo 5, 4 callbacks |
| `panel_rebuilds_fetched` | violation, see Findings: a part of `PanelHandoffIsSafe` without its exception | as `devices` |

Why the bounds are enough. The counted waits of powerd and init have only two
interesting lengths: "answered before the limit" and "not"; one or two polls
produce both, in every order with the other side's steps. A buffer of three
cells with records of up to two has all cases of `append_bytes`: fits, fits
after a flush, does not fit and must shed one or two cells, reaches the
threshold. Two cards are a removal, an exchange and a return. Four outside
events are enough for session, checkpoint, card change and shutdown to meet.
Three marks turn a ring of two slots over and write its first slot again, with
every mixture of writers at each slot and two of them anywhere in their marks; a third writer adds nothing
that two do not already do to each other's slot and header. A GE ring of five
words turns over once with a submission of each size at each place, and eight
words are enough for a wrapped submission to be followed by one that must wait.
In the audio ring six units with a guard of four give a full ring, one published
short, and every distance between the cursors. Three probe runs are a first
file, its replacement, and one after a stop. The load windows touch the payload
at its device tree, at its last record, and not at all, which are the cases
`copy_overlap` and `DtbDest` distinguish. Two callbacks fill a set of two ways,
the other two hit, evict, patch or start the phase.

Deadlock checking is off where the program really ends (logd has exited, the
power is off, the panel service stopped, a bound is reached).

### Fairness

The daemons are ordinary processes that sleep and poll, so each gets weak
fairness for its own steps: `PowerdRuns` (everything but the wait for a key),
`Screen`, `Logd`, `MountService`, `InitProcess`. Nothing is assumed of the user,
of a card, of an application (it need not end) or of a screen that is wedged.
The browser polls for the answer it asked for (`WF(BrowserExecs)`).

In `Storage` the mount service's loop is weakly fair; the user need not do
anything. In `Devices` the engine executes what was started, the audio
hardware plays and the poll timer calls the handler (weak fairness: both go on
by themselves); a call of `set_target` ends although the handler preempts it
again and again (strong fairness, because the handler blocks the writer while it
runs); the screen process runs (`Panel!Work`). Clients, applications, buttons
and stop requests are free.

## Findings

- `foreground_two_writers`: powerd, on its way into a new pause, unlinks the
  acknowledgement of a screen that has not yet noticed the end of the previous
  one, and re-creates the request. The screen stays in its wait loop and never
  publishes again; `pause_screen` times out, withdraws the request, its callers
  only log the failure, and the frontend runs beside a console that draws. Two
  buttons pressed together in standby (the first wakes, the second completes
  START+R) are enough, because the screen looks only every 10 ms.
- `log_stale_binding`: logd opens the log and only then reads the generation it
  compares with later. A card exchanged in between is never noticed.
- `shutdown_no_card`: logd's pre-mount loop does not look at the stop markers,
  so Reset or Safe Shutdown without a card waits for ever in `stop_logger`.
- `loader_overlap`: `copy_linux_elf` is written so that a payload reaching into
  the load window survives the move, and it does; but the move overwrites that
  part of the payload, and `verify_repair_linux_elf` then takes the overwritten
  source for the truth and replaces correct words of the kernel.
- `mount_reinsert`: the mount service creates its device nodes itself, so
  `card_present` never says no, and `primary_mount_alive` is satisfied by a dead
  mount. Only the identity is left, and a card that is pulled and put back has
  the same one: its dead mount stays.
- `panel_rebuilds_fetched`: two presents without a latch between them (no
  `/dev/kmsg`, or failed diagnostics on a direct boot): the second builds the
  descriptor that is being scanned.

### Observations

Met while reading the code for the models; the models contain these steps unless
it says otherwise. Where a history variable is named, the property that would be
false excepts the behaviours it marks, and nothing else.

- logd: a failed sync does not keep a session from being acknowledged
  (`sf2000-logd.c:589`; `docs/SF2000-LINUX-PORT.md:309-312` promises a
  synchronised log).
- init: Safe Shutdown unmounts `/mnt/sd` only, Reset the other volumes too
  (`README.md:131-132`). `screen_pid` is not forgotten when the supervisor loop
  reaps a screen (`sf2000-init.c:950`).
- Boot log: a read of the allocation table that fails half-way leaves a mixed
  sector in the loader's buffer under the tag of the old one (`linux-loader.c:474`,
  457). The next walk can follow a foreign link, and the log then goes through the
  raw disk write to a cluster of another file. `torn` marks these runs.
- Ring: init, screen and reset probe let the index rest at the end of the ring and
  set `wrapped` one mark later (`sf2000-init.c:168-171`); an eager writer (library,
  kernel, loader) takes that index for 0 without setting `wrapped`
  (`hc15xx_retained.c:16`), and the dump of the next boot shows only what came
  after.
- Ring: `progress_mark` is a read-modify-write of the header in several processes
  without a lock. Two marks in progress take the same slot and number, or the
  slower one turns the header back; a completed record is not recovered. `spoilt`
  marks both cases.
- Ring: `PROGRESS_DUMP_ENTRIES` is the whole ring, the repository's README says 256.
  `detect_bootloader_handoff` looks for a mark that more than 1024 later ones would
  have overwritten (not modelled).
- Mount: two exchanges within one scan, or a card whose identity could not be
  read, are not noticed as a change.
- Storage probe: an unreadable link of the root chain ends the search early and
  allows a second entry of the same name; each run leaks the cluster of the one
  before.
- Console: after the controller service restarts, the old descriptor answers
  ENODEV and is never reopened, and a held direction repeats for ever
  (`sf2000-screen.c:3415`).
- Panel: a stop before the first frame of the loop leaves the embargo on the
  kernel log in place, and a pause prolongs it; the engine diagnostics take the
  command bus even from an inherited panel.
- GE: a submission of more than half the ring can be refused for ever.
  `ge_fill_rgb565` gives up on a sync time-out without the reset that the
  comment at `sf2000-screen.c:3853` asks for, and the CPU then draws into the
  same surface (shared memory is not modelled).
- Audio: `set_target` computes the cursor, then updates the register
  (`hc15xx_audio.c:225`). An interrupt handler that publishes the deferred tail
  between the read and the write of the update is overwritten, with `published`
  equal to `target`, so no service repairs it: sound that was written stays hidden
  until more is. The update writes 32 bits, and its high half is the consumer
  cursor the hardware has moved since; the kernel's driver warns of this race and
  writes 16 bits (`0004-sf2000-correct-snd0-dma-contract.patch:71-75`). `stale`
  marks these runs.
- eFuse: `bit_offset + bit_count` is added in 32 bits before it is compared
  (`hc15xx_efuse.c:165`; a range that begins outside the fuses is not in the model,
  for the others the sum cannot wrap).
- powerd: standby goes on without its marker when that cannot be created
  (`sf2000-powerd.c:231-240`), and pad and logd then stay awake.
- Cache model: the ages are 32 bits of a 64-bit counter and are cleared only when
  all 64 wrap (`sf2000-cache-model.c:670`, 677); after 2^32 accesses the line used
  last is the next victim, and "exact LRU" (line 646) ends there.
- Cache model: the search of a set stops at the first invalid way, so after an
  invalidation a line of the instruction cache can be installed twice.
- GPIO: powerd, screen and pad change bits of the same words with an unlocked
  read-modify-write (not modelled).

## Proofs

TLAPS checks the theorems of eight modules for every value of the constants that
satisfies the named assumptions. Each states a property that a run checks, except
four that go beyond one: `ClippingIsExact`, `StretchReadsInside`, `BytesStayInside`
and `SyncIsRight` say for all arguments what the run compares for the arguments of
`Algorithms`. `GeQueueProofs`, `RetainedRingProofs` and `FatProbeProofs` prove the
invariant of one component; `Storage` and `Devices` instantiate them, and the
theorems about the compositions cite them.

| Assumption | Says | Evaluated by |
|---|---|---|
| `ForegroundAssumption`, `ShutdownAssumption` | bounds are natural numbers, "sd" is not an extra volume | the runs of these modules |
| `LogJournalAssumption` | sizes and bounds are natural numbers, the flush threshold and every record fit the buffer | the `log` and `log_stale_binding` runs |
| `StorageAssumption` | the five below | the runs of `MCStorage` |
| `LoaderAssumption` | payload and device tree fit in RAM with room above; a record loads at or above its place in the payload and the records ascend, which is what the comment at `linux-loader.c:1615-1621` builds on | |
| `LogAssumption` | a sector has at least two characters, a cluster at least one sector, and the table has an entry to the end of each of its sectors | |
| `RingAssumption` | the ring has an entry and there is a writer | |
| `VolumeAssumption` | cluster numbers are positive, the root directory is a chain of them, the other file has one | |
| `CardsAssumption` | the superfloppy look is Boolean, scores are integers | |
| `DeviceAssumption` | the four below | the run of `MCDevices` |
| `QueueAssumption`, for both queues | sizes are natural numbers | |
| `AudioAssumption` | the guard is smaller than the ring and not 0; the hardware plays at most the rest of the ring from the consumer's read in `set_target` to the write of the register | |
| `ConsoleAssumption` | the scrollback and the panel have a line | |
| `CacheAssumption` | a cache has a set and a way, an age some values, blocks are sequences of addresses | |

`Efuse`, `PanelHandoff` and `Pad` need none. No invariant below is inductive as it
stands; each paragraph names its strengthening. The strengthenings hold in TLC, too,
on instances like those of the runs.

Induction over data. The library states induction for an operator, which none of
the backends can instantiate. Where a proof needs it (a walk along a chain, a copy
word by word, a block run instruction by instruction, a list of lines), it goes
through a set: a nonempty set of numbers has a least one (`WFMin` with
`NatLessThanWellFounded`), hence a set that contains 0 and with each number the next
one contains all (`LeastNumber`, `AllNumbers`). The recursive functions are first
shown to satisfy their equation.

### Foreground

- `TypeCorrect`: the type invariant, one conjunct at a time.
- `AckedPauseOwnsPanel`: `AckedPauseIsQuiescent`. That a marker powerd sees belongs
  to this pause follows from `PauseInv`: while request and acknowledgement both
  exist the screen waits; powerd creates the request only with no acknowledgement
  around; and a screen that believes itself paused outside its wait loop means
  that powerd is still polling.
- `GameHasCard`: `GameKeepsCardToItself`. `SessionInv` names the four situations
  marker, acknowledgement and deferral can be in (quiet, asked, granted, ending)
  and says which of them goes with which state of frontend and powerd.
- `LampWaitsForChild`: `LitFrameIsOwn`. `LampInv`: the lamp is dark from the start
  of a launch, and a ready marker seen while a child runs is that child's, because
  `run_frontend` removed the old one with the lamp still dark.
- `EventLoopIsConsistent`: `IdleMatchesMode`. `ModeInv` says for every place of
  powerd whether it is in standby and whether the standby marker exists, unless it
  could not be created (`InStandby`); the two differ on the way in and out, and only
  the wait for a key has them agree. The lamp is dark outside standby only after a
  stop of the screen (`ScreenGone`). With `AckInv`, which does the same for the pause
  request.
- `WatchdogIsPetted`: `WatchdogFollowsLoop`, both directions.

### LogJournal

`JournalInv` describes the stream: the buffer is a run of consecutive cells that
ends with the newest one; every older cell is in a file, lost or shed; what was
shed is older than the buffer; and where a failed write left cells both in the
buffer and on a card, these are a prefix of the buffer. A step is classified once
(`StepKinds`: idle, append, flush, sync, card out, binding), and each theorem argues
about the kinds and not about single actions.

- `TypeCorrect`; `SessionKeepsOffCard`: the action property `SessionSparesCard`.
- `LogsAreInOrder`: `LogIsInOrder`. Each log is increasing and ends before the
  buffer begins, as long as nothing has failed.
- `FlushAnswerIsTrue`: `FlushOkIsDurable`. "ok" must stay true while cards come and
  go: `BindInv` says that a card out of the slot has nothing undurable, that a card
  not yet inserted is empty, and that only the mounted card has an open file. Then
  a sync makes every file durable, and whatever leaves the durable cells later goes
  to `lost`.
- `ExitLeavesNothing`: the action property `CleanExitDrains`, from the same two.
- `JournalImplementsStream`: `ImplementsStream`, the refinement of `LogStream`.
  What the abstract step says about counting (at most `Capacity` waiting; nothing
  shed while there is room) is the length of the run in the buffer.

### Shutdown

- `TypeCorrect`; `PowerOffIsClean`: `OffIsClean`. `CleanInv` follows init's way to
  the reboot call: asked for, then without a logger, then with nothing dirty, then
  unmounted; each stage needs that no process that could undo it is left, which is
  why it carries who is whose child and that a mounted card has its marker.
- `StoppedScreenStaysQuiet`: `StoppedScreenIsQuiet`. `QuietInv`: a screen is never
  started twice, only a running one arms the watchdog, and a stale pid belongs to a
  screen that has been reaped.

### Storage

- `RingSurvives`: `RingSurvivesReset`, for every size of the ring, every set of
  writers and every mixture of the three store disciplines. The types, and that no
  store leaves the ring, hold with all writers at once (`TypeKept`). The rest is for
  a ring that is not `spoilt`: then one mark is in progress, and `RingInv` (in
  `RetainedRingProofs`) places each mark by its age: the mark of age a lies a slots
  behind the next slot, whole; a mark under way has touched only the slot of the
  oldest one (`EntriesOK`), and what it has stored there is known store by store
  (`UnderWayOK`), so a dump in the middle shows either the old entry or the new.
  `WrapOK` reconciles the two conventions for a full ring: `wrapped` is set one store
  early by some writers and one mark late by the others. After a reset nothing marks
  until the loader has emptied the ring, so what the dump shows is what the crash
  left.
- `VolumeStaysWhole`: `FatStaysConsistent`, for every volume. `FatInv` (in
  `FatProbeProofs`): the test writes to a cluster nothing in the directory uses and to
  an entry that is not the other file's (`TargetOK`); data and both tables are in
  place before the entry (`ProgressOK`); and a search that read every link has found
  the test's own entry if there is one (`SearchOK`).
- `MapIsTrue`: `MountPublishesWhatIsThere`, for every set of cards. `MountInv`: no
  volume is probed twice (`ProbedOnce`); every probe mount belongs to a volume that
  has still to be scored, moved or released, so that none is left at a poll
  (`ProbesArePending`); a volume already moved is on top of the stack of its
  mountpoint, whatever older ones a failed `umount` left under it
  (`MovedIsVisible`); and nothing is published while the service mounts (`MarkerIsHeld`).
- `LogIsFaithful`: `BootLogIsFaithful`, for every table, chain and pattern of failing
  calls, with reads that fail half-way, until one has left a mixed sector under a
  valid tag. `LogInv`: unless that has happened, the cached sector of the table is the
  card's or has no tag (`CacheIsTrue`), and the buffer holds the text since the last full sector
  (`BufferHolds`). From the first, a walk that succeeds is at the cluster that the
  table on the card gives for it, by induction along the chain; hence only sectors
  of `log.txt` are written, each with its own part of the text.
- `ImageIsKept`: `LoaderKeepsImage`, for every payload and every set of records the
  loader accepts. `LoaderInv`: until the copy the payload is whole; during it the
  records already moved are in place and the sources of the others untouched
  (`Moving`). The lemma `MoveCopies` says why either direction of `copy_overlap` is
  right: copying in an order that never reads a word it has written is a memmove.
  `CopyIsWhole` follows for every overlap; that the kernel is entered with memory and
  caches agreeing (`Apart`) only for a payload that ends below the load window, as the
  finding `loader_overlap` shows it must.

### Devices

- `AcceptedWordsAreKept`: `GeQueueIsFaithful`, for any number of clients, from
  `GeQueueProofs`. `QueueInv`: the engine is busy exactly while its cursor is behind
  the producer, and then runs to the producer. The driver submits into a drained ring
  only, so the wrap bit is set and used up within one submission, what is queued is
  one piece of the ring, and the driver's third way to find room (the gap before the
  cursor of a wrapped ring) is never taken. Hence a sync that answers 0 owes nothing
  to any client, not only to its own.
- `PlaysWhatWasWritten`: `AudioRingIsFaithful`, for every ring, guard and speed.
  `AudioInv` measures everything from the consumer (`Dist`), which each write-back may
  set back, together with what counts as played. Every cursor that is or will be in
  the register ends at or before the written units (`CursorsOK`, `KnownOK`); the one
  `set_target` stores is the end of a ring that is not full, or the guard short of
  the end, where the hardware cannot have been yet (`StoreOK`), so once the call has
  written it the register names the end of a ring only if that is not full
  (`RestOK`); what the register holds is `published` unless it is `stale` (`StaleOK`);
  and a service that publishes the end because the consumer had moved finds the ring
  no longer full, also if the consumer its update has read comes back (`ServiceOK`,
  `WriterBackOK`, `HandlerBackOK`). So the cursors are equal only when the ring is
  empty, or the register is stale.
- `FusesAreSafe`: `EfuseDoesWhatWasAsked`. `EfuseInv` adds that the controller is only
  given whole fuses that were asked for, that nothing is being blown from the ready
  poll of a call to the start of its write (not even for an earlier call that timed
  out), so that what was read is still true, and that during the write what is asked
  for is blown or loaded unless an error was reported.
- `PadIsTruthful`: the action property `PadReportsButtons`. `PadInv`: the previous raw
  scan is the last one seen, the report is what the input layer was told, a count
  above one means that it agrees with the last scan, and only standby slows the scans.
- `ConsoleKeepsText`: `ConsoleShowsText`, an invariant and an action property.
  `ConsoleInv`: the identities in the ring are consecutive, and there is a story, a
  function that says how many characters came before each line, which fits the text
  of every retained line and goes on where the ring drops its oldest. `Begins`, which
  the property counts from the newest line back, is that function (induction).
- `HandoffIsSafe`: `PanelHandoffIsSafe`. `PanelInv`: wherever the next step builds a
  descriptor, the scan-out engine fetches the slot that was built last (`FetchOK`), so
  a build goes to the other one (lemma `BuildSparesFetched`), as long as each present
  was followed by its latch (`LooseOK`); the raster has its pads and the conditioning
  is over from the announcement on, and an abort is dark whether or not.
- `PluginCountsTruly`: `CacheCountsTruly`. `CacheInv`: the age of a way is the number
  of the last access to its line, the valid ways of a set come first and hold
  different lines, and a line no longer cached is older than every line of a full set
  (`Lru`); from this, contents and `Recent` are equal by counting. It holds until the
  accesses exceed the range of the ages (`LruTill`), counters and the instruction
  cache's lines without that limit. For the
  instruction cache, contents are among the fetched lines and each of these has
  missed (`CodeOK`), kept by every instruction and, by induction, by a block.
- `BoardsAreRecognised`: `ControllerMatchesReference`. The arguments come from the
  finite tables of the code, all of which the proof covers.
- `ClippingIsExact`, `StretchReadsInside`, `BytesStayInside`: for all integers as
  rectangles, clip regions and surface sizes, clipping leaves exactly the pixels
  inside all three, a stretch never reads outside the given source however the
  division rounds, and no byte of a clipped rectangle lies outside the surface.
- `SyncIsRight`: for all counters, stamps, delays and thresholds (update thresholds
  are not 0, as `hc15xx_avsync.c:31-34` sets them), sound is dropped exactly when
  late, held exactly when early, and an update leaves the counter within its
  threshold.

### Only model-checked

- All liveness: fairness and `ENABLED` are out of this prover's reach.
- `GraphicsMatchReference` and `SoundMatchesReference` as a whole. The theorems above
  cover clipping, stretching, surface bytes and synchronisation. Left are bounding
  boxes, borders, cache ranges and node layout (minima and maxima over sequences and
  byte by byte decoding) and the resampler, whose phase is a division with a divisor
  that is not a constant, folded over the input.

## Not modelled

- Register values, clocks and waveforms of panel, GMA, VOU, SND0 and GPIO; fonts,
  drawing, diagnostic screens; the copy between render and scanout surface.
- The text of log records, battery sampling, the device-test chord (compiled out
  by default), init's diagnostic command lines.
- GE matrices and filter coefficients, colour conversion, buffer allocation.
- `vdec/` and `dsc/`: thin wrappers around register blocks whose behaviour the
  source does not show, so a model would assert what it should check.
- The player (a loop over FFmpeg and SDL, which are not in the repository), the
  one-shot hardware probes, boot stub and assembly entries, packers and test
  generators, symbol loading and reports of the cache model.
- The kernel patches other than the GE ring and the kernel's `progress_mark`.

`PROJECT.json` gives the reason for each part.

## Plan

1. Proofs: the rest of the pure functions, first bounding boxes and the
   resampler fed in pieces.
2. The memory that CPU and graphics engine share: fill, copy to scanout, cache
   cleaning and the order of sync and draw in the screen.
3. GPIO words shared by powerd, screen and pad.
4. `StorageMount` composed with `LogJournal`, whose view of the mount service is
   still the short one.
