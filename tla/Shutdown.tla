------------------------------ MODULE Shutdown ------------------------------
(***************************************************************************)
(* /init (userspace/sf2000-init.c) from spawning the services to power-off *)
(* or restart: the boot order, the supervisor loop, the ordered shutdown,  *)
(* the bounded stop of the screen service and the framebuffer-test         *)
(* hand-off; with as much of the logger, the screen, the mount service and *)
(* the frontend as these wait for.                                         *)
(*                                                                         *)
(* A step of init is one system call (or one run of calls nobody else can  *)
(* tell apart). Card removal is left to LogJournal.                        *)
(***************************************************************************)
EXTENDS Naturals, FiniteSets

CONSTANTS
    Extras,      \* volumes of the card other than /mnt/sd (/mnt/sd2 ...)
    MaxTicks,    \* polls in stop_service (50) and of the screen-ready wait (300)
    FbTest       \* SF2000_FB_TEST=1 on the command line

ASSUME ShutdownAssumption ==
    "sd" \notin Extras /\ MaxTicks \in Nat \ {0} /\ FbTest \in BOOLEAN

VARIABLES
    ipc,        \* where init is
    job,        \* what init is doing: "none", "restart", "shutdown", "fbtest"
    ticks,      \* elapsed, screen_wait_ticks
    logdPid,    \* init believes logd_pid is a child
    screenPid,  \* init believes screen_pid is a child
    fbTest,     \* fb_test_pid: "none", "running", "zombie"
    fbStarted,  \* fb_test_started
    proc,       \* processes: "none", "running", "zombie", "reaped"
    lpc,        \* logd: "premount", "loop", "failed", "drained"
    pending,    \* logd has records that are not on the card
    screen,     \* sf2000-screen: "starting", "loop", "wedged", "leaving"
    term,       \* SIGTERM is pending for the screen, or was seen
    wdt,        \* the watchdog is armed
    run,        \* marker files
    card,       \* a card is in the slot
    mounted,    \* mounted volumes
    held,       \* volumes with files open in the frontend
    dirty,      \* volumes with unwritten data
    owed        \* history: volumes mounted when init began its job

initVars == <<ipc, job, ticks, logdPid, screenPid, fbTest, fbStarted>>
logVars == <<lpc, pending>>
screenVars == <<screen, term, wdt>>
diskVars == <<card, mounted, held, dirty>>
vars == <<initVars, proc, logVars, screenVars, run, diskVars, owed>>

Volumes == {"sd"} \cup Extras
Stops == {"REBOOT", "SHUTDOWN"}
Markers == Stops \cup {"MOUNT", "SCREEN_READY", "SCREEN_STOP"}
Processes == {"logd", "screen", "storage", "powerd"}

InitPCs == {"spawnLogd", "spawnScreen", "spawnStorage", "waitScreen",
            "spawnPowerd", "reap", "reboot?", "shutdown?", "fbtest?", "logger",
            "sync", "umount", "extras", "sync2", "reboot", "off", "parked",
            "disarm", "term", "disarm2", "poll", "kill", "disarm3", "stopFailed"}

Init ==
    /\ ipc = "spawnLogd" /\ job = "none" /\ ticks = 0
    /\ logdPid = FALSE /\ screenPid = FALSE
    /\ fbTest = "none" /\ fbStarted = FALSE
    /\ proc = [p \in Processes |-> "none"]
    /\ lpc = "premount" /\ pending = FALSE
    /\ screen = "starting" /\ term = FALSE /\ wdt = FALSE
    /\ run = {} /\ card \in BOOLEAN
    /\ mounted = {} /\ held = {} /\ dirty = {} /\ owed = {}

Running(p) == proc[p] = "running"
Create(f) == run' = run \cup {f}

-----------------------------------------------------------------------------
(* init: boot                                                              *)

Spawn(p) == proc' = [proc EXCEPT ![p] = "running"]

SpawnLogd ==
    /\ ipc = "spawnLogd"
    /\ Spawn("logd") /\ logdPid' = TRUE
    /\ ipc' = "spawnScreen"
    /\ UNCHANGED <<job, ticks, screenPid, fbTest, fbStarted, logVars, screenVars,
                   run, diskVars, owed>>

SpawnScreen ==
    /\ ipc = "spawnScreen"
    /\ Spawn("screen") /\ screenPid' = TRUE
    /\ ipc' = "spawnStorage"
    /\ UNCHANGED <<job, ticks, logdPid, fbTest, fbStarted, logVars, screenVars,
                   run, diskVars, owed>>

SpawnStorage ==
    /\ ipc = "spawnStorage"
    /\ Spawn("storage")
    /\ ipc' = "waitScreen"
    /\ UNCHANGED <<job, ticks, logdPid, screenPid, fbTest, fbStarted, logVars,
                   screenVars, run, diskVars, owed>>

(* Wait for the screen, but not for ever.                                  *)
WaitScreen ==
    /\ ipc = "waitScreen"
    /\ IF ticks < MaxTicks /\ "SCREEN_READY" \notin run
         THEN ticks' = ticks + 1 /\ UNCHANGED ipc
         ELSE ticks' = 0 /\ ipc' = "spawnPowerd"
    /\ UNCHANGED <<job, logdPid, screenPid, fbTest, fbStarted, proc, logVars,
                   screenVars, run, diskVars, owed>>

SpawnPowerd ==
    /\ ipc = "spawnPowerd"
    /\ Spawn("powerd")
    /\ ipc' = "reap"
    /\ UNCHANGED <<job, ticks, logdPid, screenPid, fbTest, fbStarted, logVars,
                   screenVars, run, diskVars, owed>>

-----------------------------------------------------------------------------
(* init: the supervisor loop                                               *)

Wait4(ps) == [p \in Processes |->
                IF p \in ps /\ proc[p] = "zombie" THEN "reaped" ELSE proc[p]]

(* Reap every zombie; the pids of logd and of the framebuffer test are     *)
(* forgotten, the screen's is not.                                         *)
Reap ==
    /\ ipc = "reap"
    /\ proc' = Wait4(Processes)
    /\ logdPid' = (logdPid /\ proc["logd"] # "zombie")
    /\ fbTest' = IF fbTest = "zombie" THEN "none" ELSE fbTest
    /\ ipc' = "reboot?"
    /\ UNCHANGED <<job, ticks, screenPid, fbStarted, logVars, screenVars,
                   run, diskVars, owed>>

CheckReboot ==
    /\ ipc = "reboot?"
    /\ IF "REBOOT" \in run
         THEN job' = "restart" /\ owed' = mounted /\ ipc' = "logger"
         ELSE ipc' = "shutdown?" /\ UNCHANGED <<job, owed>>
    /\ UNCHANGED <<ticks, logdPid, screenPid, fbTest, fbStarted, proc, logVars,
                   screenVars, run, diskVars>>

(* graceful_shutdown asks the screen to stop before anything else.         *)
CheckShutdown ==
    /\ ipc = "shutdown?"
    /\ IF "SHUTDOWN" \in run
         THEN /\ job' = "shutdown" /\ owed' = mounted /\ ipc' = "logger"
              /\ Create("SCREEN_STOP")
         ELSE ipc' = "fbtest?" /\ UNCHANGED <<job, owed, run>>
    /\ UNCHANGED <<ticks, logdPid, screenPid, fbTest, fbStarted, proc, logVars,
                   screenVars, diskVars>>

CheckFbTest ==
    /\ ipc = "fbtest?"
    /\ IF FbTest /\ ~fbStarted /\ screenPid /\ "SCREEN_READY" \in run
         THEN job' = "fbtest" /\ ipc' = "disarm"
         ELSE ipc' = "reap" /\ UNCHANGED job
    /\ UNCHANGED <<ticks, logdPid, screenPid, fbTest, fbStarted, proc, logVars,
                   screenVars, run, diskVars, owed>>

-----------------------------------------------------------------------------
(* init: graceful_restart and graceful_shutdown                            *)

(* stop_logger: a blocking wait4, which returns at once when logd is no    *)
(* child any more. (Mutant: it does not block.)                            *)
LoggerWaitNoHang == TRUE
LoggerGone == ~logdPid \/ ~Running("logd")

StopLogger ==
    /\ ipc = "logger" /\ LoggerGone
    /\ proc' = IF logdPid THEN Wait4({"logd"}) ELSE proc
    /\ ipc' = "sync"
    /\ UNCHANGED <<job, ticks, logdPid, screenPid, fbTest, fbStarted, logVars,
                   screenVars, run, diskVars, owed>>

SyncCard ==
    /\ ipc = "sync"
    /\ dirty' = {}
    /\ ipc' = "umount"
    /\ UNCHANGED <<job, ticks, logdPid, screenPid, fbTest, fbStarted, proc,
                   logVars, screenVars, run, card, mounted, held, owed>>

(* Who keeps a volume from being unmounted: the frontend's open files, and *)
(* logd while it has loglinux.txt open.                                    *)
Busy == held \cup (IF lpc = "loop" /\ Running("logd") THEN {"sd"} ELSE {})

Umount(vs) == mounted' = mounted \ (vs \ Busy)

UmountPrimary ==
    /\ ipc = "umount"
    /\ Umount({"sd"})
    /\ ipc' = IF job = "restart" THEN "extras" ELSE "sync2"
    /\ UNCHANGED <<job, ticks, logdPid, screenPid, fbTest, fbStarted, proc,
                   logVars, screenVars, run, card, held, dirty, owed>>

(* Only a restart goes on to the other volumes.                            *)
UmountExtras ==
    /\ ipc = "extras"
    /\ Umount(Extras)
    /\ ipc' = "sync2"
    /\ UNCHANGED <<job, ticks, logdPid, screenPid, fbTest, fbStarted, proc,
                   logVars, screenVars, run, card, held, dirty, owed>>

SyncAgain ==
    /\ ipc = "sync2"
    /\ dirty' = {}
    /\ ipc' = IF job = "shutdown" /\ screenPid THEN "disarm" ELSE "reboot"
    /\ UNCHANGED <<job, ticks, logdPid, screenPid, fbTest, fbStarted, proc,
                   logVars, screenVars, run, card, mounted, held, owed>>

(* The reboot system call. A restart that returns goes back to the loop,   *)
(* a power-off that returns is parked.                                     *)
Reboot ==
    /\ ipc = "reboot"
    /\ ipc' \in IF job = "restart" THEN {"off", "shutdown?"} ELSE {"off", "parked"}
    /\ UNCHANGED <<job, ticks, logdPid, screenPid, fbTest, fbStarted, proc,
                   logVars, screenVars, run, diskVars, owed>>

-----------------------------------------------------------------------------
(* init: stop_service                                                      *)

(* Disarm the watchdog, publish the request, send SIGTERM, disarm again.   *)
Disarm ==
    /\ ipc = "disarm"
    /\ wdt' = FALSE
    /\ ipc' = "term"
    /\ UNCHANGED <<job, ticks, logdPid, screenPid, fbTest, fbStarted, proc,
                   logVars, screen, term, run, diskVars, owed>>

Terminate ==
    /\ ipc = "term"
    /\ Create("SCREEN_STOP")
    /\ IF proc["screen"] = "reaped"
         THEN ipc' = "stopFailed" /\ UNCHANGED term
         ELSE ipc' = "disarm2" /\ term' = TRUE
    /\ UNCHANGED <<job, ticks, logdPid, screenPid, fbTest, fbStarted, proc,
                   logVars, screen, wdt, diskVars, owed>>

DisarmAgain ==
    /\ ipc = "disarm2"
    /\ wdt' = FALSE
    /\ ipc' = "poll" /\ ticks' = 0
    /\ UNCHANGED <<job, logdPid, screenPid, fbTest, fbStarted, proc,
                   logVars, screen, term, run, diskVars, owed>>

(* The next value of elapsed. (Mutant: it is never counted.)               *)
NextTickUncounted == ticks
NextTick == ticks + 1

(* May the poll go on? (Mutant: once too often.)                           *)
PollsTooLong == ticks <= MaxTicks
PollsLeft == ticks < MaxTicks

PollScreen ==
    /\ ipc = "poll"
    /\ IF ~PollsLeft THEN ipc' = "kill" /\ ticks' = 0 /\ UNCHANGED proc
       ELSE /\ proc' = Wait4({"screen"})
            /\ IF proc["screen"] = "zombie" THEN ipc' = "disarm3" /\ ticks' = 0
                                            ELSE ticks' = NextTick /\ UNCHANGED ipc
    /\ UNCHANGED <<job, logdPid, screenPid, fbTest, fbStarted, logVars, screenVars,
                   run, diskVars, owed>>

(* SIGKILL and a blocking wait.                                            *)
Kill ==
    /\ ipc = "kill"
    /\ proc' = [proc EXCEPT !["screen"] = "reaped"]
    /\ ipc' = "disarm3"
    /\ UNCHANGED <<job, ticks, logdPid, screenPid, fbTest, fbStarted, logVars,
                   screenVars, run, diskVars, owed>>

(* (Mutant: the watchdog is left as the screen left it.)                   *)
FinalWatchdogKept == wdt
FinalWatchdog == FALSE

(* Whatever the screen did last, the watchdog is off when it has gone; a   *)
(* hand-off then starts the framebuffer test, a shutdown goes on.          *)
Stopped ==
    /\ ipc = "disarm3"
    /\ wdt' = FinalWatchdog
    /\ IF job = "fbtest"
         THEN /\ screenPid' = FALSE /\ fbTest' = "running" /\ fbStarted' = TRUE
              /\ job' = "none" /\ ipc' = "reap"
         ELSE ipc' = "reboot" /\ UNCHANGED <<screenPid, fbTest, fbStarted, job>>
    /\ UNCHANGED <<ticks, logdPid, proc, logVars, screen, term, run, diskVars,
                   owed>>

(* The screen had died and been reaped before: its pid is stale.           *)
StopFailed ==
    /\ ipc = "stopFailed"
    /\ IF job = "fbtest" THEN job' = "none" /\ fbStarted' = TRUE /\ ipc' = "reap"
                         ELSE ipc' = "reboot" /\ UNCHANGED <<job, fbStarted>>
    /\ UNCHANGED <<ticks, logdPid, screenPid, fbTest, proc, logVars, screenVars,
                   run, diskVars, owed>>

InitProcess ==
    \/ SpawnLogd \/ SpawnScreen \/ SpawnStorage \/ WaitScreen \/ SpawnPowerd
    \/ Reap \/ CheckReboot \/ CheckShutdown \/ CheckFbTest
    \/ StopLogger \/ SyncCard \/ UmountPrimary \/ UmountExtras \/ SyncAgain
    \/ Reboot \/ Disarm \/ Terminate \/ DisarmAgain \/ PollScreen \/ Kill
    \/ Stopped \/ StopFailed

Alive == ipc # "off"

-----------------------------------------------------------------------------
(* logd                                                                    *)

LogRecord ==
    /\ Alive /\ Running("logd") /\ ~pending
    /\ pending' = TRUE
    /\ UNCHANGED <<initVars, proc, lpc, screenVars, run, diskVars, owed>>

(* The first mount: open the log, or give up.                              *)
LogOpen ==
    /\ Alive /\ Running("logd") /\ lpc = "premount" /\ "MOUNT" \in run
    /\ \/ lpc' = "loop" /\ UNCHANGED proc
       \/ lpc' = "failed" /\ proc' = [proc EXCEPT !["logd"] = "zombie"]
    /\ UNCHANGED <<initVars, pending, screenVars, run, diskVars, owed>>

LogFlush ==
    /\ Alive /\ Running("logd") /\ lpc = "loop" /\ run \cap Stops = {} /\ pending
    /\ pending' = FALSE
    /\ dirty' = dirty \cup {"sd"}
    /\ UNCHANGED <<initVars, proc, lpc, screenVars, run, card, mounted, held, owed>>

(* stop_requested ends the loop: drain, fsync, sync, exit.                 *)
LogExit ==
    /\ Alive /\ Running("logd") /\ lpc = "loop" /\ run \cap Stops # {}
    /\ lpc' = "drained" /\ pending' = FALSE /\ dirty' = {}
    /\ proc' = [proc EXCEPT !["logd"] = "zombie"]
    /\ UNCHANGED <<initVars, screenVars, run, card, mounted, held, owed>>

Logd == LogOpen \/ LogFlush \/ LogExit

-----------------------------------------------------------------------------
(* sf2000-screen                                                           *)

ScreenReady ==
    /\ Alive /\ Running("screen") /\ screen = "starting"
    /\ screen' = "loop" /\ wdt' = TRUE
    /\ Create("SCREEN_READY")
    /\ UNCHANGED <<initVars, proc, logVars, term, diskVars, owed>>

(* The watchdog goes on and off with application pauses.                   *)
ScreenPause ==
    /\ Alive /\ Running("screen") /\ screen = "loop"
    /\ wdt' = ~wdt
    /\ UNCHANGED <<initVars, proc, logVars, screen, term, run, diskVars, owed>>

(* The loop sees SIGTERM or the marker, and cleans up.                     *)
ScreenLeave ==
    /\ Alive /\ Running("screen") /\ screen = "loop"
    /\ term \/ "SCREEN_STOP" \in run
    /\ screen' = "leaving" /\ wdt' = FALSE
    /\ UNCHANGED <<initVars, proc, logVars, term, run, diskVars, owed>>

ScreenExit ==
    /\ Alive /\ Running("screen") /\ screen = "leaving"
    /\ proc' = [proc EXCEPT !["screen"] = "zombie"]
    /\ run' = run \ {"SCREEN_STOP"}
    /\ UNCHANGED <<initVars, logVars, screenVars, diskVars, owed>>

(* An MMIO transaction that never ends, and a crash.                       *)
ScreenWedge ==
    /\ Alive /\ Running("screen") /\ screen # "wedged"
    /\ screen' = "wedged"
    /\ UNCHANGED <<initVars, proc, logVars, term, wdt, run, diskVars, owed>>

ScreenCrash ==
    /\ Alive /\ Running("screen")
    /\ proc' = [proc EXCEPT !["screen"] = "zombie"]
    /\ UNCHANGED <<initVars, logVars, screenVars, run, diskVars, owed>>

(* fb-test, which has the panel, finishes.                                 *)
FbTestEnds ==
    /\ Alive /\ fbTest = "running"
    /\ fbTest' = "zombie"
    /\ UNCHANGED <<ipc, job, ticks, logdPid, screenPid, fbStarted, proc, logVars,
                   screenVars, run, diskVars, owed>>

Screen == ScreenReady \/ ScreenLeave \/ ScreenExit

-----------------------------------------------------------------------------
(* sf2000-mount, the user and the frontend                                 *)

CardIn ==
    /\ Alive /\ ~card /\ card' = TRUE
    /\ UNCHANGED <<initVars, proc, logVars, screenVars, run, mounted, held, dirty,
                   owed>>

(* Mount every volume and publish. Afterwards the marker alone counts as   *)
(* alive: what init unmounts is not mounted again.                         *)
Mount ==
    /\ Alive /\ Running("storage") /\ card /\ "MOUNT" \notin run
    /\ mounted' = Volumes
    /\ Create("MOUNT")
    /\ UNCHANGED <<initVars, proc, logVars, screenVars, card, held, dirty, owed>>

(* A frontend opens, writes and closes files until it asks for the end.    *)
Frontend == Alive /\ Running("powerd") /\ run \cap Stops = {}

Use(v) ==
    /\ Frontend /\ v \in mounted
    /\ held' = IF v \in held THEN held \ {v} ELSE held \cup {v}
    /\ dirty' = dirty \cup {v}
    /\ UNCHANGED <<initVars, proc, logVars, screenVars, run, card, mounted, owed>>

Ask(m) ==
    /\ Frontend /\ Create(m)
    /\ UNCHANGED <<initVars, proc, logVars, screenVars, diskVars, owed>>

Next == \/ InitProcess \/ Logd \/ LogRecord
        \/ Screen \/ ScreenPause \/ ScreenWedge \/ ScreenCrash \/ FbTestEnds
        \/ CardIn \/ Mount
        \/ \E v \in Volumes : Use(v)
        \/ \E m \in Stops : Ask(m)

Spec == Init /\ [][Next]_vars

(* Processes run; the user, the card and the reboot call owe nothing.      *)
FairSpec == /\ Spec /\ WF_vars(InitProcess) /\ WF_vars(Logd) /\ WF_vars(Mount)
            /\ WF_vars(ScreenReady) /\ WF_vars(ScreenLeave) /\ WF_vars(ScreenExit)

-----------------------------------------------------------------------------
FlagsOK ==
    /\ logdPid \in BOOLEAN /\ screenPid \in BOOLEAN /\ fbStarted \in BOOLEAN
    /\ pending \in BOOLEAN /\ term \in BOOLEAN /\ wdt \in BOOLEAN
    /\ card \in BOOLEAN

ControlOK ==
    /\ ipc \in InitPCs /\ job \in {"none", "restart", "shutdown", "fbtest"}
    /\ ticks \in 0..MaxTicks /\ fbTest \in {"none", "running", "zombie"}
    /\ proc \in [Processes -> {"none", "running", "zombie", "reaped"}]
    /\ lpc \in {"premount", "loop", "failed", "drained"}
    /\ screen \in {"starting", "loop", "wedged", "leaving"}

DiskOK ==
    /\ run \subseteq Markers
    /\ mounted \subseteq Volumes /\ held \subseteq Volumes
    /\ dirty \subseteq Volumes /\ owed \subseteq Volumes

(* Every variable keeps its type, and init counts no further than its two  *)
(* bounds (stop_service, the screen-ready wait).                           *)
TypeOK == FlagsOK /\ ControlOK /\ DiskOK

(* When the power goes or the machine restarts, the log is on the card     *)
(* (unless logd could not open it), nothing is left to write, and /mnt/sd  *)
(* is unmounted unless the frontend itself holds it: never because of the  *)
(* logger, whatever graceful_shutdown and logd's exit interleave with.     *)
OffIsClean ==
    ipc \in {"off", "parked"} =>
        /\ pending => lpc = "failed"
        /\ dirty = {}
        /\ "sd" \in owed \cap mounted => "sd" \in held

(* Once stop_service has returned, whether the screen stopped, crashed or  *)
(* had to be killed, nobody can draw or arm the watchdog any more.         *)
StoppedScreenIsQuiet ==
    (\/ fbStarted /\ ~screenPid
     \/ job = "shutdown" /\ ipc \in {"reboot", "off", "parked"})
      => ~Running("screen") /\ ~wdt

(* Once the logger has opened its file, a request gets init to its reboot  *)
(* system call: no wedged or crashed screen and no logger state prevents   *)
(* it.                                                                     *)
RequestCompletes ==
    (run \cap Stops # {} /\ lpc # "premount") ~> ipc \in {"reboot", "off", "parked"}

(* init's stop_logger: "The logger polls that same marker, drains its      *)
(* buffer, fsyncs the log and exits."                                      *)
LoggerAnswersStop == (run \cap Stops # {}) ~> ~Running("logd")
=============================================================================
