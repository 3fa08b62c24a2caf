--------------------------- MODULE PanelHandoff ---------------------------
(***************************************************************************)
(* How sf2000-screen takes the display over (run_direct_console and what   *)
(* it calls): from a cold panel (direct boot) or from the panel that the   *)
(* bootloader left streaming (hand-off).  The panel hangs on one set of    *)
(* pads that carries either its command bus ("mcu") or the RGB raster;     *)
(* the scanout engine (GMA) fetches the descriptor it latched at the last  *)
(* frame boundary, while the service stages the next of two slots.         *)
(*                                                                         *)
(* `stop` stands for SIGTERM and for the stop request file, which the      *)
(* service looks at in the same places.  The hardware (frame boundaries,   *)
(* tearing-effect edges, the clock) is external: each wait may succeed or  *)
(* time out.                                                               *)
(***************************************************************************)
EXTENDS Integers, FiniteSets

CONSTANTS Edges,      \* CONDITIONING_TE_EDGES
          DeferCap,   \* lines handoff_defer_buf has room for
          MaxRearms   \* bound: tearing-effect edges served

VARIABLES boot,       \* [handoff, diag, skip]: how this boot was asked to run
          pc,
          pads,       \* "none", "mcu" or "rgb"
          slot,       \* gma_desc_slot, the slot last built
          staged,     \* DMBA: the slot staged, or None
          fetch,      \* DMBA_HW: what the scanout engine really fetches
          te,         \* panel_te_streaming
          rearms,     \* panel_te_rearms
          since,      \* start_rearms of the conditioning
          teBefore,   \* te_before_ge_probe
          backlight, watchdog, critical, deferred, ready, started, stop,
          mcuWrites,  \* history: the command bus took the pads, re-arming aside
          writtenLive,\* history: a slot was rebuilt while it was fetched
          loose       \* history: a present was not followed by its latch

None == -1

rebuilt == <<writtenLive, loose>>
display == <<pads, slot, staged, fetch, mcuWrites, rebuilt>>
tearing == <<te, rearms, since, teBefore>>
service == <<backlight, watchdog, critical, deferred, ready, started>>
vars == <<boot, pc, display, tearing, service, stop>>

\* log_line: during the embargo a line is buffered, or dropped when full.
Logged(n) == IF ~critical THEN deferred
             ELSE IF deferred + n <= DeferCap THEN deferred + n ELSE DeferCap

\* A slip of the abort paths: the watchdog is left armed.
AbortArmed ==
    /\ pc' = "aborted"
    /\ backlight' = FALSE /\ critical' = FALSE /\ deferred' = 0
    /\ UNCHANGED <<boot, tearing, watchdog, ready, started, stop>>

\* The end every failure of the hand-off takes, and main's shutdown after it.
Abort ==
    /\ pc' = "aborted"
    /\ backlight' = FALSE
    /\ critical' = FALSE
    /\ deferred' = 0           \* handoff_flush_deferred
    /\ watchdog' = FALSE
    /\ UNCHANGED <<boot, tearing, ready, started, stop>>

Go(from, to) == pc = from /\ pc' = to

\* The command bus is put on the pads and used.
McuOwned == pads' = "mcu" /\ mcuWrites' = mcuWrites + 1

\* build_gma_descriptor_profile: the other slot is rewritten.
Built == slot' = 1 - slot /\ writtenLive' = (writtenLive \/ fetch = 1 - slot)

\* present_frame_profile: nothing is staged once a stop is requested.
Staged(s) == staged' = IF stop THEN staged ELSE s

----------------------------------------------------------------------------
(* The steps of run_direct_console, in order.                              *)

\* The embargo begins; a hand-off first stops the inherited scanout
\* (display_cold_reinit_if_inherited), unless the panel is to be left alone.
Quiesce ==
    /\ pc = "start"
    /\ \/ /\ boot.handoff /\ ~boot.skip /\ fetch # None
          /\ \/ /\ Abort          \* the fetcher did not come to rest
                /\ staged' = None
                /\ UNCHANGED <<pads, slot, fetch, mcuWrites, rebuilt>>
             \/ /\ ~stop
                /\ pc' = "init"
                /\ staged' = None /\ fetch' = None /\ critical' = TRUE
                /\ deferred' = 2
                /\ UNCHANGED <<pads, slot, mcuWrites, rebuilt, backlight,
                               watchdog, ready, started, tearing, boot, stop>>
       \/ /\ ~boot.handoff \/ boot.skip \/ fetch = None
          /\ pc' = "init" /\ critical' = TRUE /\ deferred' = 1
          /\ UNCHANGED <<display, tearing, backlight, watchdog, ready, started,
                         boot, stop>>

\* A slip: an inherited panel is initialised like a cold one.
PanelInitAlways ==
    /\ Go("init", "push")
    /\ IF boot.skip THEN UNCHANGED <<pads, mcuWrites, watchdog, deferred>>
       ELSE watchdog' = TRUE /\ deferred' = Logged(2) /\ McuOwned
    /\ UNCHANGED <<boot, slot, staged, fetch, rebuilt, tearing, backlight,
                   critical, ready, started, stop>>

\* panel_init_sf2000_original_order: a hand-off keeps the vendor's state.
PanelInit ==
    /\ Go("init", "push")
    /\ IF boot.skip THEN UNCHANGED <<pads, mcuWrites, watchdog, deferred>>
       ELSE /\ watchdog' = TRUE
            /\ deferred' = Logged(2)
            /\ IF boot.handoff THEN UNCHANGED <<pads, mcuWrites>> ELSE McuOwned
    /\ UNCHANGED <<boot, slot, staged, fetch, rebuilt, tearing, backlight,
                   critical, ready, started, stop>>

\* The first frame goes over the command bus on a direct boot only; the
\* engine diagnostics use that bus on either boot (run_ge_mcu_probe).
Push ==
    /\ Go("push", "connect")
    /\ IF ~boot.handoff \/ boot.diag THEN McuOwned
       ELSE UNCHANGED <<pads, mcuWrites>>
    /\ UNCHANGED <<boot, slot, staged, fetch, rebuilt, tearing, service, stop>>

\* panel_rgb_engine_prepare; a hand-off also reconnects the raster and starts
\* following the panel's tearing-effect line.
Connect ==
    /\ Go("connect", "prime1")
    /\ IF boot.handoff THEN pads' = "rgb" /\ te' = TRUE /\ rearms' = 0
       ELSE UNCHANGED <<pads, te, rearms>>
    /\ UNCHANGED <<boot, slot, staged, fetch, mcuWrites, rebuilt, since,
                   teBefore, service, stop>>

\* The first present uses the slot main built.
Prime1 ==
    /\ Go("prime1", "latch1")
    /\ Staged(slot)
    /\ UNCHANGED <<boot, pads, slot, fetch, mcuWrites, rebuilt, tearing,
                   service, stop>>

\* present_frame from the second one on: build the other slot, then stage it.
PresentNext ==
    /\ Built
    /\ Staged(1 - slot)
    /\ UNCHANGED <<boot, pads, fetch, mcuWrites, tearing, service, stop>>
Present(from, to) == Go(from, to) /\ PresentNext /\ UNCHANGED loose

\* A slip: going on without the latch.
LatchBlind(from, to) ==
    /\ Go(from, to)
    /\ fetch' \in {fetch, staged}
    /\ UNCHANGED <<boot, pads, slot, staged, mcuWrites, rebuilt, tearing,
                   service, stop>>

\* panel_wait_gma_raster: the hardware mirror must show the very descriptor
\* that was built last; a time-out or a stop is a failure.
Latch(from, to) ==
    /\ Go(from, to)
    /\ ~stop
    /\ staged = slot
    /\ fetch' = staged
    /\ UNCHANGED <<boot, pads, slot, staged, mcuWrites, rebuilt, tearing,
                   service, stop>>

\* panel_commit_rgb_handoff on a direct boot: the panel's last commands, then
\* the raster on the pads and the tearing-effect line followed.
Commit ==
    /\ ~boot.handoff
    /\ Go("commit", "active")
    /\ mcuWrites' = mcuWrites + 1
    /\ pads' = "rgb" /\ te' = TRUE /\ rearms' = 0
    /\ UNCHANGED <<boot, slot, staged, fetch, rebuilt, since, teBefore,
                   service, stop>>

\* A hand-off proves the live raster with one more frame instead.
PostCommit == boot.handoff /\ Present("commit", "latch3")

\* The diagnostics' descriptor matrix (run_gma_descriptor_probe), which ends
\* with the tearing-effect line ignored.
Probe ==
    /\ Go("active", IF boot.diag THEN "probe" ELSE "techeck")
    /\ teBefore' = te
    /\ UNCHANGED <<boot, display, te, rearms, since, service, stop>>

ProbeEnds ==
    /\ Go("probed", "restore")
    /\ te' = FALSE
    /\ UNCHANGED <<boot, display, rearms, since, teBefore, service, stop>>

\* A failed diagnostic ends a hand-off; a direct boot goes on, though the
\* scanout may latch the staged slot late or not at all.
ProbeFails ==
    /\ pc \in {"probelatch", "restorelatch"}
    /\ IF boot.handoff THEN Abort /\ UNCHANGED display
       ELSE /\ pc' = "complete"
            /\ fetch' \in {fetch, staged}
            /\ loose' = TRUE
            /\ UNCHANGED <<boot, pads, slot, staged, mcuWrites, writtenLive,
                           tearing, service, stop>>

Restored ==
    /\ Go("restored", "techeck")
    /\ te' = teBefore
    /\ UNCHANGED <<boot, display, rearms, since, teBefore, service, stop>>

TeCheck ==
    /\ pc = "techeck"
    /\ IF te THEN pc' = "condition" /\ since' = rearms
                  /\ UNCHANGED <<boot, display, te, rearms, teBefore, service,
                                 stop>>
       ELSE Abort /\ UNCHANGED display

\* The hand-off's waits: after each of these a frame must be latched.
Waits == {"latch1", "latch2", "latch3", "latch4"}
LatchFails == pc \in Waits /\ Abort /\ UNCHANGED display

\* A slip: the conditioning's time-out taken for its success.
ConditionedAnyway ==
    /\ Go("hold", "complete")
    /\ te' = FALSE
    /\ UNCHANGED <<boot, display, rearms, since, teBefore, service, stop>>

\* condition_native_scanout: enough tearing-effect edges served.
Conditioned ==
    /\ Go("hold", "complete")
    /\ rearms - since >= Edges
    /\ ~stop
    /\ te' = FALSE
    /\ UNCHANGED <<boot, display, rearms, since, teBefore, service, stop>>

HoldFails ==
    /\ pc = "hold"
    /\ rearms - since < Edges \/ stop
    /\ Abort
    /\ UNCHANGED display

\* panel_te_service_sample and panel_te_rearm, from the waits of sleep_ms (the
\* loop's too, where failed diagnostics left the line followed): the command
\* bus takes the pads for one transaction and gives them back.
Rearm ==
    /\ te /\ ~stop
    /\ pc \in Waits \cup {"hold", "probelatch", "restorelatch", "loop"}
    /\ rearms < MaxRearms
    /\ rearms' = rearms + 1
    /\ pads' = "rgb"
    /\ UNCHANGED <<boot, pc, slot, staged, fetch, mcuWrites, rebuilt, te,
                   since, teBefore, service, stop>>

----------------------------------------------------------------------------
(* The console loop.                                                       *)

\* /dev/kmsg cannot be opened: the console says so in one more frame, and
\* nothing waits for the scanout engine to take it.
KmsgFails == Go("complete", "noticed") /\ PresentNext /\ loose' = TRUE

\* publish_screen_ready_and_storage.
Publish ==
    /\ pc \in {"complete", "noticed"}
    /\ pc' = "loop"
    /\ ready' = TRUE
    /\ UNCHANGED <<boot, display, tearing, backlight, watchdog, critical,
                   deferred, started, stop>>

\* A slip: the first pass that draws leaves the embargo in place.
DrawSilent ==
    /\ pc = "loop" /\ ~stop
    /\ Built
    /\ staged' = 1 - slot /\ fetch' = 1 - slot
    /\ started' = TRUE
    /\ UNCHANGED <<boot, pc, pads, mcuWrites, loose, tearing, backlight,
                   watchdog, critical, deferred, ready, stop>>

\* A pass that draws: the first one ends the embargo and tells the next boot
\* that Linux came up.  It builds without asking what is fetched; the 50 ms
\* it sleeps then span a frame boundary, so what it staged is fetched when
\* the next pass builds.
Draw ==
    /\ pc = "loop" /\ ~stop
    /\ Built
    /\ staged' = 1 - slot /\ fetch' = 1 - slot
    /\ critical' = FALSE /\ deferred' = 0 /\ started' = TRUE
    /\ UNCHANGED <<boot, pc, pads, mcuWrites, loose, tearing, backlight,
                   watchdog, ready, stop>>

\* A pass with nothing to draw sleeps as long.
Idle ==
    /\ pc = "loop" /\ ~stop
    /\ fetch' = staged
    /\ UNCHANGED <<boot, pc, pads, slot, staged, mcuWrites, rebuilt, tearing,
                   service, stop>>

\* application_pause_service: the foreground program has the scanout; the
\* watchdog sleeps with the loop.
Pause ==
    /\ Go("loop", "paused")
    /\ watchdog' = FALSE
    /\ UNCHANGED <<boot, display, tearing, backlight, critical, deferred,
                   ready, started, stop>>
Resume ==
    /\ Go("paused", "loop")
    /\ watchdog' = TRUE
    /\ UNCHANGED <<boot, display, tearing, backlight, critical, deferred,
                   ready, started, stop>>

Leave ==
    /\ Go("loop", "stopped")
    /\ stop
    /\ watchdog' = FALSE /\ backlight' = FALSE
    /\ UNCHANGED <<boot, display, tearing, critical, deferred, ready, started,
                   stop>>

\* init, or a terminal, asks the service to stop.
StopRequested ==
    /\ ~stop
    /\ pc \notin {"aborted", "stopped"}
    /\ stop' = TRUE
    /\ UNCHANGED <<boot, pc, display, tearing, service>>

----------------------------------------------------------------------------

\* main has built slot 1 and lit the backlight; the bootloader's scanout, if
\* it runs, fetches slot 0.
Init ==
    /\ boot \in [handoff : BOOLEAN, diag : BOOLEAN, skip : BOOLEAN]
    /\ pc = "start"
    /\ pads = IF boot.handoff THEN "rgb" ELSE "none"
    /\ slot = 1
    /\ staged \in IF boot.handoff THEN {None, 0} ELSE {None}
    /\ fetch = staged
    /\ te = FALSE /\ rearms = 0 /\ since = 0 /\ teBefore = FALSE
    /\ backlight = TRUE /\ watchdog = FALSE
    /\ critical = FALSE /\ deferred = 0
    /\ ready = FALSE /\ started = FALSE /\ stop = FALSE
    /\ mcuWrites = 0 /\ writtenLive = FALSE /\ loose = FALSE

Work ==
    \/ Quiesce \/ PanelInit \/ Push \/ Connect
    \/ Prime1 \/ Latch("latch1", "prime2")
    \/ Present("prime2", "latch2") \/ Latch("latch2", "commit")
    \/ Commit \/ PostCommit \/ Latch("latch3", "active")
    \/ Probe \/ Present("probe", "probelatch") \/ Latch("probelatch", "probed")
    \/ ProbeEnds \/ ProbeFails
    \/ Present("restore", "restorelatch") \/ Latch("restorelatch", "restored")
    \/ Restored \/ TeCheck
    \/ Present("condition", "latch4") \/ Latch("latch4", "hold")
    \/ LatchFails \/ Conditioned \/ HoldFails
    \/ KmsgFails \/ Publish \/ Draw \/ Leave

Next == Work \/ Idle \/ Rearm \/ Pause \/ Resume \/ StopRequested

\* The service is one process that goes on running: its own steps are taken,
\* every wait being bounded.
Spec == Init /\ [][Next]_vars /\ WF_vars(Work)

----------------------------------------------------------------------------

\* The display is announced (and foreground programs may take it) only with a
\* Linux frame latched by the scanout engine (an older one while the notice
\* about /dev/kmsg waits for its frame boundary), the raster on the pads, a
\* fresh frame origin and no re-arming left running; the diagnostics' own
\* failure path on a direct boot is the one exception the code makes.
ReadyMeansConditioned ==
    ready /\ ~boot.diag =>
        /\ fetch \in {0, 1}
        /\ fetch = slot \/ loose
        /\ pads = "rgb"
        /\ rearms - since >= Edges
        /\ ~te

\* A panel inherited from the bootloader keeps its state: without the engine
\* diagnostics the command bus is never put on its pads, the re-arming
\* transaction aside.
InheritedPanelIsPreserved == boot.handoff /\ ~boot.diag => mcuWrites = 0

\* Every failure leaves the device dark and quiet: backlight and watchdog off,
\* the kernel log open again, nothing announced to init or to the next boot.
AbortFailsClosed ==
    pc = "aborted" => /\ ~backlight /\ ~watchdog /\ ~critical /\ deferred = 0
                      /\ ~ready /\ ~started

\* "Never rewrite the descriptor currently scanned": every rebuild, the
\* loop's included, finds the other slot fetched, unless the service went on
\* from a present whose latch it did not see.
FetchedSlotIsLeftAlone == ~loose => ~writtenLive

\* The hand-off of the display is safe, on either boot and whichever wait fails.
PanelHandoffIsSafe ==
    /\ ReadyMeansConditioned /\ InheritedPanelIsPreserved
    /\ AbortFailsClosed /\ FetchedSlotIsLeftAlone

\* The embargo on the kernel log ends: the service fails, is stopped, gives
\* way to a foreground program, or presents its first frame and flushes.
EmbargoEnds == critical ~> (~critical \/ pc \in {"stopped", "paused"})
=============================================================================
