------------------------------ MODULE Devices ------------------------------
(***************************************************************************)
(* The programs that drive one device each: the graphics queue, the audio  *)
(* ring, the eFuse controller, the controller scan, the console's          *)
(* scrollback, the panel's hand-off, the cache model of the emulator, and  *)
(* single calls of the pure functions.  They share no state, so a          *)
(* behaviour is one of `part`, chosen at the start; the variables of the   *)
(* others stay Off.                                                        *)
(***************************************************************************)
EXTENDS Integers, Sequences, FiniteSets, TLC

CONSTANTS
    Parts,                      \* the programs a behaviour may be about
    Off,
    Solo, Pair,                 \* sizes of two graphics queues: [clients,
                                \* size, guard, len, batch, words]
    Units, Guard, Speed,                                  \* AudioRing
    Bits, MaxCalls,                                       \* Efuse
    Buttons, NormalMs, StandbyMs, CheckScans,             \* Pad
    Scrollback, Rows, Cols, Delay, Interval, MaxText,
    MaxLines,                                             \* Console
    TeEdges, DeferCap, MaxRearms,                         \* PanelHandoff
    Core, Window, Other, Blocks, RecBase, RecSize, Sets,
    Ways, AgeSpan, Penalty, FrameStop, MaxEvents          \* CacheModel

VARIABLES
    part,
    ge_pc, batch, buf, wait, asked, commands, producer, wrap, wrapAt,
    finish, isReset, first, end, busy, irq, drawn, owed,
    configured, streaming, target, published, low, consumer, playing,
    dry, fill, wpc, wread, wpub, appl, moved, ipc, iread, wback, iback,
    stale,
    fuses, mode, loading, error, efuse_pc, data, current, requested,
    pulsed, calls,
    state, raw_prev, raw_count, poll_ms, normal_poll_ms, standby_check,
    user_config_loaded, held, standby, storage, stopping, run, last,
    slept,
    ring, count, start, offset, partial, keys, previous, ticks, device,
    got, added,
    boot, panel_pc, pads, slot, staged, fetch, te, rearms, since,
    teBefore, backlight, watchdog, critical, deferred, ready, started,
    stop, mcuWrites, writtenLive, loose,
    scope, phaseRec, auto, icache, dcache, n, rec, active, rec_lines,
    frame, blocks, ilog, dlog, events,
    call

----------------------------------------------------------------------------
(* Instances, of the proof module where a component has one, so that what  *)
(* is proved of the component can be cited for its part.                   *)

Ge == INSTANCE GeQueueProofs WITH
    Clients <- Solo.clients, Size <- Solo.size, Guard <- Solo.guard,
    MaxLen <- Solo.len, BatchCap <- Solo.batch, MaxWords <- Solo.words,
    pc <- ge_pc, ring <- commands

\* Several processes with the engine open.
Shared == INSTANCE GeQueueProofs WITH
    Clients <- Pair.clients, Size <- Pair.size, Guard <- Pair.guard,
    MaxLen <- Pair.len, BatchCap <- Pair.batch, MaxWords <- Pair.words,
    pc <- ge_pc, ring <- commands

Audio == INSTANCE AudioRing WITH
    run <- playing, ready <- configured, started <- streaming

Efuses == INSTANCE Efuse WITH pc <- efuse_pc, asked <- requested

Pads == INSTANCE Pad

Text == INSTANCE Console WITH held <- keys, lines <- added

Panel == INSTANCE PanelHandoff WITH pc <- panel_pc, Edges <- TeEdges

Cache == INSTANCE CacheModel WITH lines <- rec_lines

Calls == INSTANCE Algorithms

ASSUME DeviceAssumption ==
    /\ Ge!QueueAssumption /\ Shared!QueueAssumption
    /\ Audio!AudioAssumption /\ Text!ConsoleAssumption
    /\ Cache!CacheAssumption

----------------------------------------------------------------------------

geVars == <<ge_pc, batch, buf, wait, asked, commands, producer, wrap, wrapAt,
            finish, isReset, first, end, busy, irq, drawn, owed>>
audioVars == <<configured, streaming, target, published, low, consumer,
               playing, dry, fill, wpc, wread, wpub, appl, moved, ipc, iread,
               wback, iback, stale>>
efusesVars == <<fuses, mode, loading, error, efuse_pc, data, current,
                requested, pulsed, calls>>
padsVars == <<state, raw_prev, raw_count, poll_ms, normal_poll_ms,
              standby_check, user_config_loaded, held, standby, storage,
              stopping, run, last, slept>>
textVars == <<ring, count, start, offset, partial, keys, previous, ticks,
              device, got, added>>
panelVars == <<boot, panel_pc, pads, slot, staged, fetch, te, rearms, since,
               teBefore, backlight, watchdog, critical, deferred, ready,
               started, stop, mcuWrites, writtenLive, loose>>
cacheVars == <<scope, phaseRec, auto, icache, dcache, n, rec, active,
               rec_lines, frame, blocks, ilog, dlog, events>>
callsVars == <<call>>
vars == <<part, geVars, audioVars, efusesVars, padsVars, textVars, panelVars,
          cacheVars, callsVars>>

GeIdle ==
    /\ ge_pc = Off /\ batch = Off /\ buf = Off /\ wait = Off
    /\ asked = Off /\ commands = Off /\ producer = Off /\ wrap = Off
    /\ wrapAt = Off /\ finish = Off /\ isReset = Off /\ first = Off
    /\ end = Off /\ busy = Off /\ irq = Off /\ drawn = Off /\ owed = Off
AudioIdle ==
    /\ configured = Off /\ streaming = Off /\ target = Off
    /\ published = Off /\ low = Off /\ consumer = Off /\ playing = Off
    /\ dry = Off /\ fill = Off /\ wpc = Off /\ wread = Off /\ wpub = Off
    /\ appl = Off /\ moved = Off /\ ipc = Off /\ iread = Off
    /\ wback = Off /\ iback = Off /\ stale = Off
EfusesIdle ==
    /\ fuses = Off /\ mode = Off /\ loading = Off /\ error = Off
    /\ efuse_pc = Off /\ data = Off /\ current = Off /\ requested = Off
    /\ pulsed = Off /\ calls = Off
PadsIdle ==
    /\ state = Off /\ raw_prev = Off /\ raw_count = Off
    /\ poll_ms = Off /\ normal_poll_ms = Off /\ standby_check = Off
    /\ user_config_loaded = Off /\ held = Off /\ standby = Off
    /\ storage = Off /\ stopping = Off /\ run = Off /\ last = Off
    /\ slept = Off
TextIdle ==
    /\ ring = Off /\ count = Off /\ start = Off /\ offset = Off
    /\ partial = Off /\ keys = Off /\ previous = Off /\ ticks = Off
    /\ device = Off /\ got = Off /\ added = Off
PanelIdle ==
    /\ boot = Off /\ panel_pc = Off /\ pads = Off /\ slot = Off
    /\ staged = Off /\ fetch = Off /\ te = Off /\ rearms = Off /\ since = Off
    /\ teBefore = Off /\ backlight = Off /\ watchdog = Off /\ critical = Off
    /\ deferred = Off /\ ready = Off /\ started = Off /\ stop = Off
    /\ mcuWrites = Off /\ writtenLive = Off /\ loose = Off
CacheIdle ==
    /\ scope = Off /\ phaseRec = Off /\ auto = Off
    /\ icache = Off /\ dcache = Off /\ n = Off /\ rec = Off /\ active = Off
    /\ rec_lines = Off /\ frame = Off /\ blocks = Off /\ ilog = Off
    /\ dlog = Off /\ events = Off
CallsIdle ==
    /\ call = Off

GeInit ==
    /\ part = "ge" /\ Ge!Init /\ AudioIdle /\ EfusesIdle /\ PadsIdle
    /\ TextIdle /\ PanelIdle /\ CacheIdle /\ CallsIdle
SharedInit ==
    /\ part = "shared" /\ Shared!Init /\ AudioIdle /\ EfusesIdle /\ PadsIdle
    /\ TextIdle /\ PanelIdle /\ CacheIdle /\ CallsIdle
AudioInit ==
    /\ part = "audio" /\ Audio!Init /\ GeIdle /\ EfusesIdle
    /\ PadsIdle /\ TextIdle /\ PanelIdle /\ CacheIdle /\ CallsIdle
EfusesInit ==
    /\ part = "efuse" /\ Efuses!Init /\ GeIdle /\ AudioIdle
    /\ PadsIdle /\ TextIdle /\ PanelIdle /\ CacheIdle /\ CallsIdle
PadsInit ==
    /\ part = "pad" /\ Pads!Init /\ GeIdle /\ AudioIdle
    /\ EfusesIdle /\ TextIdle /\ PanelIdle /\ CacheIdle /\ CallsIdle
TextInit ==
    /\ part = "console" /\ Text!Init /\ GeIdle /\ AudioIdle
    /\ EfusesIdle /\ PadsIdle /\ PanelIdle /\ CacheIdle /\ CallsIdle
PanelInit ==
    /\ part = "panel" /\ Panel!Init /\ GeIdle /\ AudioIdle
    /\ EfusesIdle /\ PadsIdle /\ TextIdle /\ CacheIdle /\ CallsIdle
CacheInit ==
    /\ part = "cache" /\ Cache!Init /\ GeIdle /\ AudioIdle
    /\ EfusesIdle /\ PadsIdle /\ TextIdle /\ PanelIdle /\ CallsIdle
CallsInit ==
    /\ part = "calls" /\ Calls!Init /\ GeIdle /\ AudioIdle
    /\ EfusesIdle /\ PadsIdle /\ TextIdle /\ PanelIdle /\ CacheIdle

GeStep(queue, Action) ==
    /\ part = queue /\ Action
    /\ UNCHANGED <<part, audioVars, efusesVars, padsVars, textVars, panelVars,
                     cacheVars, callsVars>>
AudioStep(Action) ==
    /\ part = "audio" /\ Action
    /\ UNCHANGED <<part, geVars, efusesVars, padsVars, textVars, panelVars,
                     cacheVars, callsVars>>
EfusesStep(Action) ==
    /\ part = "efuse" /\ Action
    /\ UNCHANGED <<part, geVars, audioVars, padsVars, textVars, panelVars,
                     cacheVars, callsVars>>
PadsStep(Action) ==
    /\ part = "pad" /\ Action
    /\ UNCHANGED <<part, geVars, audioVars, efusesVars, textVars, panelVars,
                     cacheVars, callsVars>>
TextStep(Action) ==
    /\ part = "console" /\ Action
    /\ UNCHANGED <<part, geVars, audioVars, efusesVars, padsVars, panelVars,
                     cacheVars, callsVars>>
PanelStep(Action) ==
    /\ part = "panel" /\ Action
    /\ UNCHANGED <<part, geVars, audioVars, efusesVars, padsVars, textVars,
                     cacheVars, callsVars>>
CacheStep(Action) ==
    /\ part = "cache" /\ Action
    /\ UNCHANGED <<part, geVars, audioVars, efusesVars, padsVars, textVars,
                     panelVars, callsVars>>
CallsStep(Action) ==
    /\ part = "calls" /\ Action
    /\ UNCHANGED <<part, geVars, audioVars, efusesVars, padsVars, textVars,
                     panelVars, cacheVars>>

Init ==
    /\ part \in Parts
    /\ GeInit \/ SharedInit \/ AudioInit \/ EfusesInit \/ PadsInit
       \/ TextInit \/ PanelInit \/ CacheInit \/ CallsInit
Next ==
    \/ GeStep("ge", Ge!Next)
    \/ GeStep("shared", Shared!Next)
    \/ AudioStep(Audio!Next)
    \/ EfusesStep(Efuses!Next)
    \/ PadsStep(Pads!Next)
    \/ TextStep(Text!Next)
    \/ PanelStep(Panel!Next)
    \/ CacheStep(Cache!Next)
    \/ CallsStep(Calls!Next)

\* The engine, the audio hardware and its poll timer go on, set_target runs to
\* its end, and so does the screen process; nothing is assumed of the clients,
\* the application or the user.
Spec ==
    /\ Init /\ [][Next]_vars
    /\ WF_vars(GeStep("ge", Ge!Execute))
    /\ WF_vars(GeStep("shared", Shared!Execute))
    /\ WF_vars(AudioStep(Audio!Hardware))
    /\ WF_vars(AudioStep(Audio!HandlerReads))
    /\ WF_vars(AudioStep(Audio!HandlerServices))
    /\ SF_vars(AudioStep(Audio!SetTarget))
    /\ WF_vars(PanelStep(Panel!Work))

----------------------------------------------------------------------------
(* Properties *)

\* The graphics queue is right at every step of hcge_batch_end,
\* hcge_linux_submit, the driver and the engine, for one process and for two:
\* the ring holds exactly the accepted words that are still to be drawn, across
\* wraps, busy retries and late interrupts; a batch that refused a command is
\* not submitted without it; a sync answers 0 only when all its client
\* submitted is drawn; and a drained ring takes any submission of up to half of
\* its words, so one retry is enough.
GeQueueIsFaithful ==
    /\ part = "ge" => Ge!GeQueueIsFaithful
    /\ part = "shared" => Shared!GeQueueIsFaithful

\* What HCGE_SUBMIT accepted is drawn, although an interrupt may be lost.
GeAcceptedIsDrawn == []<>(part \notin {"ge", "shared"} \/ owed = <<>>)

\* hc15xx_audio_set_target and the interrupt handler never let the hardware play
\* what was not written, wherever the three of them stand, even if it takes the
\* stale consumer of update(); and a full ring is not taken for an empty one once
\* set_target is over, unless its update has overwritten a tail the handler
\* published meanwhile.
AudioRingIsFaithful ==
    part = "audio" => Audio!PlaysOnlyWritten /\ Audio!NothingElseHidden

\* Playback does not stall with data in the ring: a tail behind the guard is
\* published and a cleared run bit is set again by hc15xx_audio_service_ring,
\* unless set_target has overwritten the tail.
AudioGoesOn ==
    <>[](part = "audio" /\ streaming /\ fill > 0 /\ ~stale)
    => []<><<part = "audio" /\ fill' < fill>>_vars

\* Whatever fails, times out or is repeated, hc15xx_efuse_write blows no fuse
\* that nobody asked for, pulses none a second time, and returns 0 only when all
\* it was asked for is blown.
EfuseDoesWhatWasAsked == part = "efuse" => Efuses!EfuseDoesWhatWasAsked

\* After two equal scans the pad service reports the scanned buttons and a reader
\* of its events holds exactly those; outside standby no single noisy scan
\* changes what is reported.
PadReportsButtons ==
    /\ [](part = "pad" => Pads!StableIsReported)
    /\ [][part = "pad" /\ state' # state /\ ~slept
            => run' = 2 /\ last' = state']_vars

\* Cutting kernel messages into lines and the wrapping scrollback lose, double
\* and reorder no character of the retained text; draw_console_screen shows
\* consecutive lines; and a new line does not move the text under the eyes of a
\* reader who scrolled up, unless the top line has left the scrollback.
ConsoleShowsText ==
    /\ [](part = "console" => Text!TextIsKept /\ Text!ViewIsConsecutive)
    /\ [][part = "console" => Text!ReaderKeepsPlace]_vars

\* run_direct_console announces the display only with a Linux frame latched, the
\* raster on the pads, a fresh frame origin and no re-arming left running; it
\* keeps the command bus off the pads of a panel inherited from the bootloader
\* (the engine diagnostics apart); every failure leaves backlight and watchdog
\* off and nothing announced; and no rebuild touches a descriptor being fetched,
\* unless the service went on from a present whose latch it did not see.
PanelHandoffIsSafe == part = "panel" => Panel!PanelHandoffIsSafe

\* The comments of build_gma_descriptor_profile and present_frame: never rewrite
\* the descriptor currently scanned; the active descriptor is immutable.
PanelNeverRewritesFetched == part = "panel" => ~writtenLive

\* The screen's embargo on the kernel log ends: by failure, stop, a foreground
\* program, or the first frame.
PanelEmbargoEnds ==
    (part = "panel" /\ critical)
        ~> (part = "panel" /\ (~critical \/ panel_pc \in {"stopped", "paused"}))

\* The cache plugin's data cache holds the last Ways distinct lines of each set,
\* until more accesses were made than a uint32_t can number;
\* no instruction line is credited that was not fetched since it was patched or
\* since the measurement began; and the counters describe one set of events,
\* also across the start of the phase.
CacheCountsTruly ==
    part = "cache" =>
        /\ Cache!DataCacheIsLru
        /\ Cache!NoStaleCode
        /\ Cache!CountersAgree

\* The graphics library against its reference: clipping gives exactly the visible
\* pixels, a stretch reads only the named source, a bounding rectangle holds the
\* visible corners, a border is filled once, a cache clean covers its rectangle,
\* a command has the words its header announces, and hcge_check_state grants
\* what the drawing call accepts on valid surfaces and rectangles.
GraphicsMatchReference ==
    part = "calls" =>
        /\ Calls!ClipIsIntersection
        /\ Calls!StretchStaysInSource
        /\ Calls!BoundsHoldCorners
        /\ Calls!BorderIsDrawnOnce
        /\ Calls!CleanCoversRectangle
        /\ Calls!NodeIsDecodable
        /\ Calls!GrantedIsAccepted

\* hc15xx_resampler_process_stereo_s16 gives the same samples however the input
\* is cut, its 32-bit path those of the wide one; the synchroniser follows near
\* stamps and drops only late sound; a divisor neither starts nor stops a
\* counter.
SoundMatchesReference ==
    part = "calls" =>
        /\ Calls!ChunksDoNotMatter
        /\ Calls!NarrowIsExact
        /\ Calls!SyncFollowsSound
        /\ Calls!DivisorKeepsRunning

\* Shift register and stock bits lead to the same button numbers, and
\* detect_board_profile recognises either board although one sign is wrong.
ControllerMatchesReference ==
    part = "calls" => Calls!BoardsAgree /\ Calls!OneWrongSignIsForgiven
=============================================================================
