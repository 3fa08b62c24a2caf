----------------------------- MODULE Foreground -----------------------------
(***************************************************************************)
(* Who owns the panel and the card while applications come and go.        *)
(*                                                                         *)
(* Three daemons meet here through marker files in /run (tmpfs):           *)
(*   powerd  userspace/sf2000-powerd.c, the foreground supervisor: chords, *)
(*           standby, launching and relaunching the browser;               *)
(*   screen  userspace/sf2000-screen.c, the console, which must stop       *)
(*           writing to scanout while a frontend owns it;                  *)
(*   logd    userspace/sf2000-logd.c, only the part of its main loop that  *)
(*           opens and closes a RAM-journal session (module LogJournal     *)
(*           has the rest).                                                *)
(* The frontend (browser, then the application it execs in place) is not   *)
(* in the repository; it is modelled from what powerd and logd expect.     *)
(* Every file operation another process can observe is a step of its own.  *)
(***************************************************************************)
EXTENDS Naturals, FiniteSets

CONSTANTS
    Keys,          \* the buttons that are pressed, a subset of AllKeys
    PauseWait,     \* polls pause_screen makes before it gives up (1000)
    DrainWait,     \* polls for the journal to drain (100)
    ScreenLag,     \* powerd polls at most this often between screen steps
    DrainMayFail,  \* may hcge_engine_sync() fail in the screen?
    CallMayFail,   \* may open() of the request, or vfork(), fail?
    StopAllowed,   \* may init ask the screen to stop?
    Sessions       \* does the browser open performance sessions?

(* The marker files, named after the macros that hold their paths.         *)
Markers == {"PAUSE_REQUEST", "PAUSED", "STANDBY", "FRONTEND_READY",
            "BROWSER_EXIT", "PERFORMANCE", "PERFORMANCE_READY", "STOP_REQUEST"}

AllKeys == {"START", "Y", "R", "OTHER"}

ASSUME ForegroundAssumption ==
    /\ Keys \subseteq AllKeys
    /\ PauseWait \in Nat \ {0} /\ DrainWait \in Nat /\ ScreenLag \in Nat \ {0}
    /\ DrainMayFail \in BOOLEAN /\ CallMayFail \in BOOLEAN
    /\ StopAllowed \in BOOLEAN /\ Sessions \in BOOLEAN

VARIABLES
    pc,             \* powerd: where it is
    task,           \* powerd: who called pause_screen
    down,           \* powerd: start, y, r flags
    standby, released, launchReleased,   \* powerd: locals of main
    waited,         \* powerd: loop counter of pause_screen / journal drain
    visible,        \* powerd: local of run_frontend
    backlight,      \* GPIO R05
    run,            \* the marker files that exist in /run
    fe,             \* the frontend process
    spc,            \* screen: where its main loop is
    appPaused,      \* screen: application_paused
    watchdog,       \* the runtime watchdog is armed
    lpc,            \* logd: where its session step is
    logdActive,     \* logd: local `active'
    deferred,       \* logd: storage_deferred
    held,           \* the buttons as last delivered by the pad
    lag,            \* powerd polls since the screen last ran
    acked,          \* history: the pause in force was acknowledged
    pauseLate,      \* history: some pause_screen has timed out
    sessionLate,    \* history: a drain timed out, or a browser died waiting
    freshReady,     \* history: the running frontend published its marker
    unmarked        \* history: the marker of this standby could not be opened

chord == <<down, standby, released, launchReleased, held>>
call == <<task, waited, lag>>
lamp == <<backlight, visible>>
child == <<fe, freshReady>>
journal == <<lpc, logdActive, deferred, sessionLate>>
screen == <<spc, appPaused, watchdog>>
verdict == <<acked, pauseLate, unmarked>>
vars == <<pc, run, chord, call, lamp, child, journal, screen, verdict>>

PowerdPCs == {"boot", "idle", "sbMark", "sbDark", "pauseUnlink", "pauseCreate",
              "pausePoll", "sbResume", "sbUnmark", "feClear", "feLaunch",
              "feWait", "feEndPerf", "feDrain", "feDone", "feShow"}
ScreenPCs == {"top", "svc", "drain", "publish", "wait", "unpub", "loop",
              "draw", "dark", "unstop", "stopped"}

(* Creating and unlinking markers; both are idempotent.                    *)
Create(files) == run' = run \cup files
Unlink(files) == run' = run \ files

(* sf2000-screen has finished its panel hand-off, armed the runtime        *)
(* watchdog and entered its console loop; powerd has just been spawned.    *)
Init ==
    /\ pc = "boot" /\ run = {}
    /\ down = {} /\ standby = FALSE /\ released = TRUE /\ launchReleased = TRUE
    /\ held = {}
    /\ task = "frontend" /\ waited = 0 /\ lag = 0
    /\ backlight = TRUE /\ visible = FALSE
    /\ fe = "none" /\ freshReady = FALSE
    /\ lpc = "look" /\ logdActive = FALSE /\ deferred = FALSE
    /\ sessionLate = FALSE
    /\ spc = "top" /\ appPaused = FALSE /\ watchdog = TRUE
    /\ acked = FALSE /\ pauseLate = FALSE /\ unmarked = FALSE

-----------------------------------------------------------------------------
(* powerd: main                                                            *)

(* boot_browser: run the frontend once storage is mounted, else go to the  *)
(* event loop (no card within three seconds, or boot_browser=false).       *)
Boot ==
    /\ pc = "boot"
    /\ pc' \in {"feClear", "idle"}
    /\ UNCHANGED <<run, chord, call, lamp, child, journal, screen, verdict>>

(* The start, y and r flags after an event; other buttons have none.       *)
FlagsAfter(k, pressed) ==
    IF pressed THEN down \cup ({k} \ {"OTHER"}) ELSE down \ {k}

(* One iteration of the event loop: button k changes state.                *)
Key(k) ==
    LET pressed == k \notin held
        d == FlagsAfter(k, pressed)
        rel == released \/ d \cap {"START", "Y"} = {}
        lrel == launchReleased \/ d \cap {"START", "R"} = {}
        enter == ~standby /\ rel /\ {"START", "Y"} \subseteq d
        leave == standby /\ rel /\ pressed
        launch == ~standby /\ ~enter /\ lrel /\ {"START", "R"} \subseteq d
    IN /\ pc = "idle"
       /\ held' = IF pressed THEN held \cup {k} ELSE held \ {k}
       /\ down' = d
       /\ released' = (rel /\ ~enter /\ ~leave)
       /\ launchReleased' = (lrel /\ ~launch)
       /\ standby' = ((standby \/ enter) /\ ~leave)
       /\ pc' = IF enter THEN "sbMark" ELSE IF leave THEN "sbResume"
                ELSE IF launch THEN "feClear" ELSE "idle"
       /\ UNCHANGED <<run, call, lamp, child, journal, screen, verdict>>

(* set_standby(1): publish the marker, or go on without it if open()       *)
(* fails, ...                                                              *)
StandbyMark ==
    /\ pc = "sbMark"
    /\ \/ Create({"STANDBY"}) /\ UNCHANGED unmarked
       \/ CallMayFail /\ UNCHANGED run /\ unmarked' = TRUE
    /\ pc' = "sbDark"
    /\ UNCHANGED <<chord, call, lamp, child, journal, screen, acked, pauseLate>>

(* ... give logd one polling interval, then light off and pause_screen.    *)
StandbyDark ==
    /\ pc = "sbDark"
    /\ backlight' = FALSE
    /\ task' = "standby" /\ pc' = "pauseUnlink"
    /\ UNCHANGED <<run, chord, waited, lag, visible, child, journal, screen,
                   verdict>>

(* set_standby(0): resume_screen, light on, ...                            *)
StandbyResume ==
    /\ pc = "sbResume"
    /\ Unlink({"PAUSE_REQUEST"}) /\ acked' = FALSE
    /\ backlight' = TRUE
    /\ pc' = "sbUnmark"
    /\ UNCHANGED <<chord, call, visible, child, journal, screen, pauseLate,
                   unmarked>>

(* ... then the marker goes.                                               *)
StandbyUnmark ==
    /\ pc = "sbUnmark"
    /\ Unlink({"STANDBY"}) /\ unmarked' = FALSE
    /\ pc' = "idle"
    /\ UNCHANGED <<chord, call, lamp, child, journal, screen, acked, pauseLate>>

-----------------------------------------------------------------------------
(* powerd: pause_screen                                                    *)

(* Both callers go on whatever pause_screen returned: they only log it.    *)
AfterPause == IF task = "standby" THEN "idle" ELSE "feLaunch"

(* No acknowledgement may be left from an earlier pause. (Mutant: it is.)  *)
PauseForgetsNothing == {}
PauseForgets == {"PAUSED"}

PauseUnlink ==
    /\ pc = "pauseUnlink"
    /\ Unlink(PauseForgets)
    /\ pc' = "pauseCreate"
    /\ UNCHANGED <<chord, call, lamp, child, journal, screen, verdict>>

(* Publish the request; if open() fails, return -1 at once.                *)
PauseCreate ==
    /\ pc = "pauseCreate"
    /\ \/ Create({"PAUSE_REQUEST"}) /\ pc' = "pausePoll"
       \/ CallMayFail /\ UNCHANGED run /\ pc' = AfterPause
    /\ waited' = 0 /\ lag' = 0
    /\ UNCHANGED <<chord, task, lamp, child, journal, screen, verdict>>

(* The loop of pause_screen. (Mutants: one poll too many; not counted.)    *)
PollsLeftTooLong == waited <= PauseWait
PollsLeft == waited < PauseWait

NextPollUncounted == waited
NextPoll == waited + 1

(* access(SCREEN_PAUSED_MARKER) == 0: the screen acknowledged.             *)
PauseAcked ==
    /\ pc = "pausePoll" /\ PollsLeft
    /\ "PAUSED" \in run
    /\ acked' = TRUE
    /\ pc' = AfterPause
    /\ UNCHANGED <<run, chord, call, lamp, child, journal, screen, pauseLate,
                   unmarked>>

(* Not yet: sleep one millisecond.                                         *)
PauseAgain ==
    /\ pc = "pausePoll" /\ PollsLeft
    /\ "PAUSED" \notin run
    /\ lag < ScreenLag \/ spc = "stopped"
    /\ waited' = NextPoll
    /\ lag' = IF spc = "stopped" THEN lag ELSE lag + 1
    /\ UNCHANGED <<pc, run, chord, task, lamp, child, journal, screen, verdict>>

(* ETIMEDOUT: withdraw the request and return -1.                          *)
PauseTimeout ==
    /\ pc = "pausePoll" /\ waited = PauseWait
    /\ Unlink({"PAUSE_REQUEST"})
    /\ pauseLate' = TRUE
    /\ pc' = AfterPause
    /\ UNCHANGED <<chord, call, lamp, child, journal, screen, acked, unmarked>>

-----------------------------------------------------------------------------
(* powerd: run_frontend                                                    *)

(* Forget every marker of an earlier run, light off, pause the console.    *)
FrontendClear ==
    /\ pc = "feClear"
    /\ Unlink({"FRONTEND_READY", "BROWSER_EXIT", "PERFORMANCE",
               "PERFORMANCE_READY"})
    /\ backlight' = FALSE
    /\ task' = "frontend" /\ pc' = "pauseUnlink"
    /\ UNCHANGED <<chord, waited, lag, visible, child, journal, screen, verdict>>

(* A child starts without a ready marker. (Mutant: an old one survives.)   *)
LaunchForgetsNothing == {}
LaunchForgets == {"FRONTEND_READY"}

(* Head of the relaunch loop: no ready marker, vfork (which may fail) and  *)
(* exec.                                                                   *)
FrontendLaunch ==
    /\ pc = "feLaunch"
    /\ visible' = FALSE
    /\ Unlink(LaunchForgets)
    /\ \/ fe' = "browser" /\ freshReady' = FALSE /\ pc' = "feWait"
       \/ CallMayFail /\ UNCHANGED child /\ pc' = "feDone"
    /\ UNCHANGED <<chord, call, backlight, journal, screen, verdict>>

(* The first frame is out: light on, and from here waitpid blocks.         *)
FrontendVisible ==
    /\ pc = "feWait" /\ fe # "zombie"
    /\ ~visible /\ "FRONTEND_READY" \in run
    /\ visible' = TRUE /\ backlight' = TRUE
    /\ UNCHANGED <<pc, run, chord, call, child, journal, screen, verdict>>

(* waitpid() returned the child, whatever its status.                      *)
FrontendReaped ==
    /\ pc = "feWait" /\ fe = "zombie"
    /\ fe' = "none"
    /\ pc' = "feEndPerf"
    /\ UNCHANGED <<run, chord, call, lamp, freshReady, journal, screen, verdict>>

(* End the performance session after every child exit ...                  *)
FrontendEndPerf ==
    /\ pc = "feEndPerf"
    /\ Unlink({"PERFORMANCE"})
    /\ waited' = 0
    /\ pc' = "feDrain"
    /\ UNCHANGED <<chord, task, lag, lamp, child, journal, screen, verdict>>

(* ... and let logd drain the RAM journal.                                 *)
FrontendDrainAgain ==
    /\ pc = "feDrain" /\ waited < DrainWait
    /\ "PERFORMANCE_READY" \in run
    /\ waited' = waited + 1
    /\ UNCHANGED <<pc, run, chord, task, lag, lamp, child, journal, screen,
                   verdict>>

(* Where the relaunch loop goes once the drain is over: leave if the       *)
(* browser asked to, else keep scanout and start the browser again.        *)
AfterDrain ==
    IF "BROWSER_EXIT" \in run
      THEN pc' = "feDone" /\ UNCHANGED backlight
      ELSE pc' = "feLaunch" /\ backlight' = FALSE

(* Drained, or the drain timed out, which is only logged. (Mutant: go on   *)
(* at once.)                                                               *)
DrainOverAtOnce == TRUE
DrainOver == "PERFORMANCE_READY" \notin run \/ waited = DrainWait

FrontendDrained ==
    /\ pc = "feDrain"
    /\ DrainOver
    /\ sessionLate' = \/ sessionLate
                      \/ waited = DrainWait /\ "PERFORMANCE_READY" \in run
    /\ AfterDrain
    /\ UNCHANGED <<run, chord, call, visible, child, lpc, logdActive, deferred,
                   screen, verdict>>

(* What leaving run_frontend unlinks, resume_screen's request included.    *)
(* (Mutant: the request is left behind.)                                   *)
DoneForgetsMarkersOnly == {"PERFORMANCE", "FRONTEND_READY", "BROWSER_EXIT"}
DoneForgets == {"PERFORMANCE", "FRONTEND_READY", "BROWSER_EXIT", "PAUSE_REQUEST"}

(* Light off, forget the markers, resume_screen.                           *)
FrontendDone ==
    /\ pc = "feDone"
    /\ backlight' = FALSE
    /\ Unlink(DoneForgets)
    /\ acked' = FALSE
    /\ pc' = "feShow"
    /\ UNCHANGED <<chord, call, visible, child, journal, screen, pauseLate,
                   unmarked>>

(* 50 ms later: light on; drain_input drops what was typed meanwhile, so   *)
(* the real state of the buttons is unknown to powerd.                     *)
FrontendShow ==
    /\ pc = "feShow"
    /\ backlight' = TRUE
    /\ held' \in SUBSET Keys
    /\ down' = {} /\ released' = TRUE /\ launchReleased' = TRUE
    /\ pc' = "idle"
    /\ UNCHANGED <<run, standby, call, visible, child, journal, screen, verdict>>

Powerd ==
    \/ Boot \/ \E k \in Keys : Key(k)
    \/ StandbyMark \/ StandbyDark \/ StandbyResume \/ StandbyUnmark
    \/ PauseUnlink \/ PauseCreate \/ PauseAcked \/ PauseAgain \/ PauseTimeout
    \/ FrontendClear \/ FrontendLaunch \/ FrontendVisible \/ FrontendReaped
    \/ FrontendEndPerf \/ FrontendDrainAgain \/ FrontendDrained
    \/ FrontendDone \/ FrontendShow

-----------------------------------------------------------------------------
(* The frontend process (external). The browser publishes its first frame, *)
(* may ask for a performance session and then exec an application in       *)
(* place, or leave with the exit marker; anything may crash at any time.   *)

feRest == <<pc, chord, call, lamp, screen, verdict, lpc, logdActive, deferred>>

BrowserReady ==
    /\ fe \in {"browser", "asking", "app"} /\ ~freshReady
    /\ Create({"FRONTEND_READY"}) /\ freshReady' = TRUE
    /\ UNCHANGED <<fe, sessionLate, feRest>>

BrowserAsks ==
    /\ Sessions /\ fe = "browser"
    /\ Create({"PERFORMANCE"})
    /\ fe' = "asking"
    /\ UNCHANGED <<freshReady, sessionLate, feRest>>

BrowserExecs ==
    /\ fe = "asking" /\ "PERFORMANCE_READY" \in run
    /\ fe' = "app"
    /\ UNCHANGED <<run, freshReady, sessionLate, feRest>>

BrowserExits ==
    /\ fe = "browser"
    /\ Create({"BROWSER_EXIT"})
    /\ fe' = "zombie"
    /\ UNCHANGED <<freshReady, sessionLate, feRest>>

(* An application exit, or a crash of either; a browser that dies between  *)
(* its request and logd's answer leaves that answer unclaimed.             *)
FrontendDies ==
    /\ fe \in {"browser", "asking", "app"}
    /\ fe' = "zombie"
    /\ sessionLate' = (sessionLate \/ fe = "asking")
    /\ UNCHANGED <<run, freshReady, feRest>>

Frontend ==
    BrowserReady \/ BrowserAsks \/ BrowserExecs \/ BrowserExits \/ FrontendDies

-----------------------------------------------------------------------------
(* screen: the console loop and application_pause_service                  *)

screenRest == <<pc, chord, task, waited, lamp, child, journal, verdict>>

(* Loop head: leave when init published the stop request.                  *)
ScreenTop ==
    /\ spc = "top"
    /\ IF "STOP_REQUEST" \in run
         THEN spc' = "dark" /\ watchdog' = FALSE
         ELSE spc' = "svc" /\ UNCHANGED watchdog
    /\ lag' = 0
    /\ UNCHANGED <<run, appPaused, screenRest>>

(* Nothing to do unless asked, or already paused by an earlier pass whose  *)
(* drain failed.                                                           *)
ScreenService ==
    /\ spc = "svc"
    /\ IF appPaused \/ "PAUSE_REQUEST" \in run
         THEN spc' = "drain" /\ appPaused' = TRUE /\ watchdog' = FALSE
         ELSE spc' = "loop" /\ UNCHANGED <<appPaused, watchdog>>
    /\ lag' = 0
    /\ UNCHANGED <<run, screenRest>>

(* The error return of the pause service. (Mutant: watchdog left off.)     *)
DrainFailedUnarmed == spc' = "loop" /\ UNCHANGED watchdog
DrainFailed == spc' = "loop" /\ watchdog' = TRUE

(* hcge_engine_sync: a failed drain goes back to the loop with             *)
(* application_paused still set, so that the next pass tries again.        *)
ScreenDrain ==
    /\ spc = "drain"
    /\ \/ spc' = "publish" /\ UNCHANGED watchdog
       \/ DrainMayFail /\ DrainFailed
    /\ lag' = 0
    /\ UNCHANGED <<run, appPaused, screenRest>>

ScreenPublish ==
    /\ spc = "publish"
    /\ Create({"PAUSED"})
    /\ spc' = "wait"
    /\ lag' = 0
    /\ UNCHANGED <<appPaused, watchdog, screenRest>>

(* The condition of the wait loop. (Mutant: only the stop request ends it.) *)
KeepsWaitingForStop == "STOP_REQUEST" \notin run
KeepsWaiting == "PAUSE_REQUEST" \in run /\ "STOP_REQUEST" \notin run

(* One pass of the 10 ms wait loop.                                        *)
ScreenWait ==
    /\ spc = "wait"
    /\ IF KeepsWaiting
         THEN UNCHANGED <<spc, appPaused>>
         ELSE spc' = "unpub" /\ appPaused' = FALSE
    /\ lag' = 0
    /\ UNCHANGED <<run, watchdog, screenRest>>

ScreenUnpublish ==
    /\ spc = "unpub"
    /\ Unlink({"PAUSED"})
    /\ watchdog' = TRUE
    /\ spc' = "loop"
    /\ lag' = 0
    /\ UNCHANGED <<appPaused, screenRest>>

(* kmsg and input polling: something to draw (or the idle tick), or not.   *)
ScreenLoop ==
    /\ spc = "loop"
    /\ spc' \in {"draw", "top"}
    /\ lag' = 0
    /\ UNCHANGED <<run, appPaused, watchdog, screenRest>>

(* draw_console_screen and present_frame: the screen writes scanout.       *)
ScreenDraw ==
    /\ spc = "draw"
    /\ spc' = "top"
    /\ lag' = 0
    /\ UNCHANGED <<run, appPaused, watchdog, screenRest>>

(* On its way out main turns the lamp off, whoever lit it, ...             *)
ScreenDark ==
    /\ spc = "dark"
    /\ backlight' = FALSE
    /\ spc' = "unstop"
    /\ lag' = 0
    /\ UNCHANGED <<run, appPaused, watchdog, pc, chord, task, waited, visible,
                   child, journal, verdict>>

(* ... and takes the stop request with it.                                 *)
ScreenUnstop ==
    /\ spc = "unstop"
    /\ Unlink({"STOP_REQUEST"})
    /\ spc' = "stopped"
    /\ lag' = 0
    /\ UNCHANGED <<appPaused, watchdog, screenRest>>

Screen == ScreenTop \/ ScreenService \/ ScreenDrain \/ ScreenPublish
          \/ ScreenWait \/ ScreenUnpublish \/ ScreenLoop \/ ScreenDraw
          \/ ScreenDark \/ ScreenUnstop

(* init publishes SCREEN_STOP_REQUEST (shutdown or framebuffer test).      *)
InitStopsScreen ==
    /\ StopAllowed /\ "STOP_REQUEST" \notin run
    /\ Create({"STOP_REQUEST"})
    /\ UNCHANGED <<pc, chord, call, lamp, child, journal, screen, verdict>>

-----------------------------------------------------------------------------
(* logd: the part of its loop that opens and closes a session              *)

logdRest == <<pc, chord, call, lamp, child, screen, verdict, sessionLate>>

(* In standby the loop `continue's before it looks at the marker.          *)
LogdLook ==
    /\ lpc = "look" /\ "STANDBY" \notin run
    /\ logdActive' = ("PERFORMANCE" \in run)
    /\ lpc' = "act"
    /\ UNCHANGED <<run, deferred, logdRest>>

(* What opening the journal publishes. (Mutant: no acknowledgement.)       *)
AcknowledgeNothing == {}
Acknowledge == {"PERFORMANCE_READY"}

(* Synchronise, defer, acknowledge.                                        *)
LogdBegin ==
    /\ lpc = "act" /\ logdActive /\ ~deferred
    /\ deferred' = TRUE
    /\ Create(Acknowledge)
    /\ lpc' = "look"
    /\ UNCHANGED <<logdActive, logdRest>>

(* Close the journal: from here logd writes the card again ...             *)
LogdEnd ==
    /\ lpc = "act" /\ ~logdActive /\ deferred
    /\ deferred' = FALSE
    /\ lpc' = "clear"
    /\ UNCHANGED <<run, logdActive, logdRest>>

(* ... and once flushed the acknowledgement goes, even if the flush failed.*)
LogdClear ==
    /\ lpc = "clear"
    /\ Unlink({"PERFORMANCE_READY"})
    /\ lpc' = "look"
    /\ UNCHANGED <<deferred, logdActive, logdRest>>

(* The session is as the marker says: the rest of the pass, then again.    *)
LogdKeep ==
    /\ lpc = "act" /\ logdActive = deferred
    /\ lpc' = "look"
    /\ UNCHANGED <<run, logdActive, deferred, logdRest>>

Logd == LogdLook \/ LogdBegin \/ LogdEnd \/ LogdClear \/ LogdKeep

-----------------------------------------------------------------------------
Next == Powerd \/ Frontend \/ Screen \/ InitStopsScreen \/ Logd

(* powerd never waits for anybody but the user, and that only in Key.      *)
PowerdRuns == pc # "idle" /\ Powerd

(* Each daemon is an ordinary process of a fair scheduler, and the browser *)
(* polls for the acknowledgement it asked for. Nothing makes the user      *)
(* press a key, or an application end.                                     *)
Fairness == /\ WF_vars(PowerdRuns) /\ WF_vars(Screen) /\ WF_vars(Logd)
            /\ WF_vars(BrowserExecs)

Spec == Init /\ [][Next]_vars

FairSpec == Spec /\ Fairness

-----------------------------------------------------------------------------
(* Both of powerd's bounded waits stay within their bounds.                *)
WaitsOK ==
    /\ waited \in Nat /\ lag \in 0..ScreenLag
    /\ pc = "pausePoll" => waited <= PauseWait
    /\ pc = "feDrain" => waited <= DrainWait

ControlOK ==
    /\ pc \in PowerdPCs /\ task \in {"standby", "frontend"}
    /\ run \subseteq Markers
    /\ down \subseteq AllKeys \ {"OTHER"} /\ held \subseteq Keys
    /\ fe \in {"none", "browser", "asking", "app", "zombie"}
    /\ spc \in ScreenPCs /\ lpc \in {"look", "act", "clear"}

FlagsOK ==
    /\ standby \in BOOLEAN /\ released \in BOOLEAN /\ launchReleased \in BOOLEAN
    /\ backlight \in BOOLEAN /\ visible \in BOOLEAN /\ freshReady \in BOOLEAN
    /\ logdActive \in BOOLEAN /\ deferred \in BOOLEAN /\ sessionLate \in BOOLEAN
    /\ appPaused \in BOOLEAN /\ watchdog \in BOOLEAN
    /\ acked \in BOOLEAN /\ pauseLate \in BOOLEAN /\ unmarked \in BOOLEAN

(* Every variable of the daemons keeps its type, and powerd's two bounded  *)
(* waits (pause_screen, the journal drain) stay within their bounds.       *)
TypeOK == FlagsOK /\ ControlOK /\ WaitsOK

(* Until some pause has timed out or init stops the screen, a pause that   *)
(* powerd saw acknowledged and has not withdrawn finds the screen in its   *)
(* wait loop, or gone: it neither draws nor is about to. (pause_screen     *)
(* against application_pause_service, in every interleaving of their file  *)
(* steps.)                                                                 *)
AckedPauseIsQuiescent ==
    acked /\ ~pauseLate /\ "STOP_REQUEST" \notin run
        => spc \in {"wait", "stopped"}

(* While an application that waited for logd's acknowledgement runs, logd  *)
(* is journalling to RAM, unless an earlier drain timed out or a browser   *)
(* died waiting (powerd's end-of-session wait against logd's loop).        *)
GameKeepsCardToItself ==
    fe = "app" /\ ~sessionLate => deferred

(* The lamp is lit during a frontend only for a frame of that very child:  *)
(* a ready marker of an earlier child never lights a later one's           *)
(* (run_frontend's relaunch loop).                                         *)
LitFrameIsOwn ==
    pc = "feWait" /\ backlight => freshReady

(* Back in powerd's event loop the lamp, the standby marker and the pause  *)
(* request agree with the mode: no request is left behind to freeze the    *)
(* console, and no child is left running (set_standby, run_frontend). Only *)
(* a screen that stops leaves the panel dark outside standby, and only a   *)
(* failed open() leaves standby without its marker.                        *)
IdleMatchesMode ==
    pc = "idle" => /\ backlight => ~standby
                   /\ ~standby => backlight \/ spc \in {"unstop", "stopped"}
                   /\ "STANDBY" \in run => standby
                   /\ standby => "STANDBY" \in run \/ unmarked
                   /\ "PAUSE_REQUEST" \in run => standby
                   /\ fe = "none" /\ "PERFORMANCE" \notin run

(* The watchdog is off exactly while the screen cannot pet it: in          *)
(* application_pause_service between its disable and its re-arm, on every  *)
(* path out of it, and once the screen is stopping.                        *)
WatchdogFollowsLoop ==
    watchdog = (spc \notin {"drain", "publish", "wait", "unpub", "dark", "unstop",
                            "stopped"})

(* However the screen behaves, a launch or standby request gets past       *)
(* pause_screen: to a running child, or to the event loop.                 *)
EveryPauseEnds ==
    pc \in {"feClear", "sbMark"} ~> pc \in {"feWait", "idle"}

(* A console that was handed back (resume_screen) runs its loop again.     *)
ConsoleComesBack ==
    (pc = "idle" /\ ~standby) ~> (spc \in {"loop", "stopped"} \/ pc # "idle")

(* A browser that asks for a session is not left waiting for logd.         *)
SessionIsGranted ==
    (fe = "asking" /\ ~sessionLate) ~> (fe # "asking" \/ sessionLate)

(* powerd, pause_screen: "Ownership is correctness-critical, so allow the  *)
(* weak single CPU a full second to acknowledge instead of launching a     *)
(* second scanout writer after an arbitrary 100 ms deadline."              *)
OneScanoutWriter ==
    ~(fe \in {"browser", "asking", "app"} /\ spc = "draw")
=============================================================================
