--------------------------- MODULE ShutdownProofs ---------------------------
(***************************************************************************)
(* Proofs about Shutdown, for every set of extra volumes, every bound of   *)
(* the polls, with and without the framebuffer test.                       *)
(***************************************************************************)
EXTENDS Shutdown, TLAPS

-----------------------------------------------------------------------------
(* OffIsClean. logd is a child of init from its start to its end, and what *)
(* it leaves behind when it ends is written, or was never going to be.     *)
LogdBooting == /\ ipc = "spawnLogd" <=> proc["logd"] = "none"
               /\ proc["logd"] = "none" => lpc = "premount"
LogdKnown == Running("logd") => logdPid
LogdEnded == proc["logd"] \in {"zombie", "reaped"} => lpc \in {"failed", "drained"}
LogdDrained == lpc = "drained" => ~Running("logd") /\ ~pending

(* The way to the reboot call, the screen's stop included: asked for, then *)
(* without a logger, then with nothing to write, then unmounted.           *)
Stopping == {"logger", "sync", "umount", "extras", "sync2", "reboot",
             "off", "parked"}
Service == {"disarm", "term", "disarm2", "poll", "kill", "disarm3", "stopFailed"}
Past(pcs) == ipc \in Stopping \ pcs \/ (job = "shutdown" /\ ipc \in Service)

OnlyFor == ipc \in Service => job \in {"shutdown", "fbtest"}
AskedFor == Past({}) => run \cap {"REBOOT", "SHUTDOWN"} # {}
NoLogger == Past({"logger"}) => ~Running("logd")
NoDirt == Past({"logger", "sync"}) => dirty = {}
Released == Past({"logger", "sync", "umount"}) =>
              ("sd" \in owed \cap mounted => "sd" \in held)
OnceMounted == mounted # {} \/ owed # {} => "MOUNT" \in run

CleanInv == /\ LogdBooting /\ LogdKnown /\ LogdEnded /\ LogdDrained
            /\ OnlyFor /\ AskedFor /\ NoLogger /\ NoDirt /\ Released /\ OnceMounted

(* StoppedScreenIsQuiet. The screen never starts twice, and only a running *)
(* screen arms the watchdog.                                               *)
ScreenBooting == ipc \in {"spawnLogd", "spawnScreen"} <=> proc["screen"] = "none"
ScreenKnown == ~screenPid /\ proc["screen"] # "none" => fbStarted
Handed == fbStarted /\ ~screenPid =>
            proc["screen"] \in {"zombie", "reaped"} /\ ~wdt
Waited == ipc = "disarm3" => proc["screen"] = "reaped"
Stale == /\ ipc = "term" /\ proc["screen"] = "reaped" => ~wdt
         /\ ipc = "stopFailed" => proc["screen"] = "reaped" /\ ~wdt
Ended == job = "shutdown" /\ ipc \in {"reboot", "off", "parked"} =>
           proc["screen"] \in {"zombie", "reaped"} /\ ~wdt

QuietInv == /\ ScreenBooting /\ ScreenKnown /\ Handed
            /\ Waited /\ Stale /\ Ended

-----------------------------------------------------------------------------
(* init, its services and the card only reach states of their types; both  *)
(* of init's bounded waits stay within their bounds.                       *)
THEOREM TypeCorrect == Spec => []TypeOK
<1>1. Init => TypeOK
  <2>1. Init => FlagsOK BY Zenon DEF Init, FlagsOK
  <2>2. Init => ControlOK BY ShutdownAssumption DEF Init, ControlOK, InitPCs
  <2>3. Init => DiskOK BY DEF Init, DiskOK
  <2> QED BY <2>1, <2>2, <2>3 DEF TypeOK
<1>2. FlagsOK /\ [Next]_vars => FlagsOK'
  <2> SUFFICES ASSUME FlagsOK, [Next]_vars PROVE FlagsOK'
    OBVIOUS
  <2> USE DEF FlagsOK
  <2> USE DEF initVars, logVars, screenVars, diskVars, vars, Running, Create, Alive
  <2>1. CASE InitProcess
    <3>1. CASE SpawnLogd
      <4>1. logdPid' \in BOOLEAN BY <3>1, Zenon DEF SpawnLogd, Spawn
      <4> QED BY <3>1, <4>1 DEF SpawnLogd, Spawn
    <3>2. CASE SpawnScreen
      <4>1. screenPid' \in BOOLEAN BY <3>2, Zenon DEF SpawnScreen, Spawn
      <4> QED BY <3>2, <4>1 DEF SpawnScreen, Spawn
    <3>3. CASE SpawnStorage BY <3>3 DEF SpawnStorage, Spawn
    <3>4. CASE WaitScreen BY <3>4 DEF WaitScreen
    <3>5. CASE SpawnPowerd BY <3>5 DEF SpawnPowerd, Spawn
    <3>6. CASE Reap
      <4>1. logdPid' \in BOOLEAN BY <3>6, Zenon DEF Reap, Wait4
      <4> QED BY <3>6, <4>1 DEF Reap, Wait4
    <3>7. CASE CheckReboot BY <3>7 DEF CheckReboot
    <3>8. CASE CheckShutdown BY <3>8 DEF CheckShutdown
    <3>9. CASE CheckFbTest BY <3>9 DEF CheckFbTest
    <3>10. CASE StopLogger BY <3>10 DEF StopLogger, Wait4, LoggerGone
    <3>11. CASE SyncCard BY <3>11 DEF SyncCard
    <3>12. CASE UmountPrimary BY <3>12 DEF UmountPrimary, Umount, Busy
    <3>13. CASE UmountExtras BY <3>13 DEF UmountExtras, Umount, Busy
    <3>14. CASE SyncAgain BY <3>14 DEF SyncAgain
    <3>15. CASE Reboot BY <3>15 DEF Reboot
    <3>16. CASE Disarm
      <4>1. wdt' \in BOOLEAN BY <3>16, Zenon DEF Disarm
      <4> QED BY <3>16, <4>1 DEF Disarm
    <3>17. CASE Terminate
      <4>1. term' \in BOOLEAN BY <3>17, Zenon DEF Terminate
      <4> QED BY <3>17, <4>1 DEF Terminate
    <3>18. CASE DisarmAgain
      <4>1. wdt' \in BOOLEAN BY <3>18, Zenon DEF DisarmAgain
      <4> QED BY <3>18, <4>1 DEF DisarmAgain
    <3>19. CASE PollScreen BY <3>19 DEF PollScreen, Wait4, NextTick, PollsLeft
    <3>20. CASE Kill BY <3>20 DEF Kill
    <3>21. CASE Stopped
      <4>1. screenPid' \in BOOLEAN BY <3>21, Zenon DEF Stopped, FinalWatchdog
      <4>2. fbStarted' \in BOOLEAN BY <3>21, Zenon DEF Stopped, FinalWatchdog
      <4>3. wdt' \in BOOLEAN BY <3>21, Zenon DEF Stopped, FinalWatchdog
      <4> QED BY <3>21, <4>1, <4>2, <4>3 DEF Stopped, FinalWatchdog
    <3>22. CASE StopFailed
      <4>1. fbStarted' \in BOOLEAN BY <3>22, Zenon DEF StopFailed
      <4> QED BY <3>22, <4>1 DEF StopFailed
    <3> QED
      BY <2>1, <3>1, <3>2, <3>3, <3>4, <3>5, <3>6, <3>7, <3>8, <3>9, <3>10,
         <3>11, <3>12, <3>13, <3>14, <3>15, <3>16, <3>17, <3>18, <3>19, <3>20,
         <3>21, <3>22 DEF InitProcess
  <2>2. CASE Logd
    <3>1. CASE LogOpen BY <3>1 DEF LogOpen
    <3>2. CASE LogFlush
      <4>1. pending' \in BOOLEAN BY <3>2, Zenon DEF LogFlush
      <4> QED BY <3>2, <4>1 DEF LogFlush
    <3>3. CASE LogExit
      <4>1. pending' \in BOOLEAN BY <3>3, Zenon DEF LogExit
      <4> QED BY <3>3, <4>1 DEF LogExit
    <3> QED
      BY <2>2, <3>1, <3>2, <3>3 DEF Logd
  <2>3. CASE Screen
    <3>1. CASE ScreenReady
      <4>1. wdt' \in BOOLEAN BY <3>1, Zenon DEF ScreenReady
      <4> QED BY <3>1, <4>1 DEF ScreenReady
    <3>2. CASE ScreenLeave
      <4>1. wdt' \in BOOLEAN BY <3>2, Zenon DEF ScreenLeave
      <4> QED BY <3>2, <4>1 DEF ScreenLeave
    <3>3. CASE ScreenExit BY <3>3 DEF ScreenExit
    <3> QED
      BY <2>3, <3>1, <3>2, <3>3 DEF Screen
  <2>4. CASE LogRecord
    <3>1. pending' \in BOOLEAN BY <2>4, Zenon DEF LogRecord
    <3> QED BY <2>4, <3>1 DEF LogRecord
  <2>5. CASE ScreenPause
    <3>1. wdt' \in BOOLEAN BY <2>5, Zenon DEF ScreenPause
    <3> QED BY <2>5, <3>1 DEF ScreenPause
  <2>6. CASE ScreenWedge BY <2>6 DEF ScreenWedge
  <2>7. CASE ScreenCrash BY <2>7 DEF ScreenCrash
  <2>8. CASE FbTestEnds BY <2>8 DEF FbTestEnds
  <2>9. CASE CardIn
    <3>1. card' \in BOOLEAN BY <2>9, Zenon DEF CardIn
    <3> QED BY <2>9, <3>1 DEF CardIn
  <2>10. CASE Mount BY <2>10 DEF Mount
  <2>11. ASSUME NEW v \in Volumes, Use(v) PROVE FlagsOK' BY <2>11 DEF Use, Frontend
  <2>12. ASSUME NEW m \in Stops, Ask(m) PROVE FlagsOK' BY <2>12 DEF Ask, Frontend
  <2>13. CASE UNCHANGED vars BY <2>13
  <2> QED
    BY <2>1, <2>2, <2>3, <2>4, <2>5, <2>6, <2>7, <2>8, <2>9, <2>10, <2>11,
       <2>12, <2>13 DEF Next
<1>3. ControlOK /\ [Next]_vars => ControlOK'
  <2> SUFFICES ASSUME ControlOK, [Next]_vars PROVE ControlOK'
    OBVIOUS
  <2> USE ShutdownAssumption DEF ControlOK, InitPCs, Processes
  <2> USE DEF initVars, logVars, screenVars, diskVars, vars, Running, Create, Alive
  <2>1. CASE InitProcess
    <3>1. CASE SpawnLogd BY <3>1 DEF SpawnLogd, Spawn
    <3>2. CASE SpawnScreen BY <3>2 DEF SpawnScreen, Spawn
    <3>3. CASE SpawnStorage BY <3>3 DEF SpawnStorage, Spawn
    <3>4. CASE WaitScreen BY <3>4 DEF WaitScreen
    <3>5. CASE SpawnPowerd BY <3>5 DEF SpawnPowerd, Spawn
    <3>6. CASE Reap BY <3>6 DEF Reap, Wait4
    <3>7. CASE CheckReboot BY <3>7 DEF CheckReboot
    <3>8. CASE CheckShutdown BY <3>8 DEF CheckShutdown
    <3>9. CASE CheckFbTest BY <3>9 DEF CheckFbTest
    <3>10. CASE StopLogger BY <3>10 DEF StopLogger, Wait4, LoggerGone
    <3>11. CASE SyncCard BY <3>11 DEF SyncCard
    <3>12. CASE UmountPrimary BY <3>12 DEF UmountPrimary, Umount, Busy
    <3>13. CASE UmountExtras BY <3>13 DEF UmountExtras, Umount, Busy
    <3>14. CASE SyncAgain BY <3>14 DEF SyncAgain
    <3>15. CASE Reboot BY <3>15 DEF Reboot
    <3>16. CASE Disarm BY <3>16 DEF Disarm
    <3>17. CASE Terminate BY <3>17 DEF Terminate
    <3>18. CASE DisarmAgain BY <3>18 DEF DisarmAgain
    <3>19. CASE PollScreen BY <3>19 DEF PollScreen, Wait4, NextTick, PollsLeft
    <3>20. CASE Kill BY <3>20 DEF Kill
    <3>21. CASE Stopped BY <3>21 DEF Stopped, FinalWatchdog
    <3>22. CASE StopFailed BY <3>22 DEF StopFailed
    <3> QED
      BY <2>1, <3>1, <3>2, <3>3, <3>4, <3>5, <3>6, <3>7, <3>8, <3>9, <3>10,
         <3>11, <3>12, <3>13, <3>14, <3>15, <3>16, <3>17, <3>18, <3>19, <3>20,
         <3>21, <3>22 DEF InitProcess
  <2>2. CASE Logd
    <3>1. CASE LogOpen BY <3>1 DEF LogOpen
    <3>2. CASE LogFlush BY <3>2 DEF LogFlush
    <3>3. CASE LogExit BY <3>3 DEF LogExit
    <3> QED
      BY <2>2, <3>1, <3>2, <3>3 DEF Logd
  <2>3. CASE Screen
    <3>1. CASE ScreenReady BY <3>1 DEF ScreenReady
    <3>2. CASE ScreenLeave BY <3>2 DEF ScreenLeave
    <3>3. CASE ScreenExit BY <3>3 DEF ScreenExit
    <3> QED
      BY <2>3, <3>1, <3>2, <3>3 DEF Screen
  <2>4. CASE LogRecord BY <2>4 DEF LogRecord
  <2>5. CASE ScreenPause BY <2>5 DEF ScreenPause
  <2>6. CASE ScreenWedge BY <2>6 DEF ScreenWedge
  <2>7. CASE ScreenCrash BY <2>7 DEF ScreenCrash
  <2>8. CASE FbTestEnds BY <2>8 DEF FbTestEnds
  <2>9. CASE CardIn BY <2>9 DEF CardIn
  <2>10. CASE Mount BY <2>10 DEF Mount
  <2>11. ASSUME NEW v \in Volumes, Use(v) PROVE ControlOK'
    BY <2>11 DEF Use, Frontend
  <2>12. ASSUME NEW m \in Stops, Ask(m) PROVE ControlOK' BY <2>12 DEF Ask, Frontend
  <2>13. CASE UNCHANGED vars BY <2>13
  <2> QED
    BY <2>1, <2>2, <2>3, <2>4, <2>5, <2>6, <2>7, <2>8, <2>9, <2>10, <2>11,
       <2>12, <2>13 DEF Next
<1>4. DiskOK /\ [Next]_vars => DiskOK'
  <2> SUFFICES ASSUME DiskOK, [Next]_vars PROVE DiskOK'
    OBVIOUS
  <2> USE DEF DiskOK, Markers, Volumes, Stops
  <2> USE DEF initVars, logVars, screenVars, diskVars, vars, Running, Create, Alive
  <2>1. CASE InitProcess
    <3>1. CASE SpawnLogd BY <3>1 DEF SpawnLogd, Spawn
    <3>2. CASE SpawnScreen BY <3>2 DEF SpawnScreen, Spawn
    <3>3. CASE SpawnStorage BY <3>3 DEF SpawnStorage, Spawn
    <3>4. CASE WaitScreen BY <3>4 DEF WaitScreen
    <3>5. CASE SpawnPowerd BY <3>5 DEF SpawnPowerd, Spawn
    <3>6. CASE Reap BY <3>6 DEF Reap, Wait4
    <3>7. CASE CheckReboot BY <3>7 DEF CheckReboot
    <3>8. CASE CheckShutdown BY <3>8 DEF CheckShutdown
    <3>9. CASE CheckFbTest BY <3>9 DEF CheckFbTest
    <3>10. CASE StopLogger BY <3>10 DEF StopLogger, Wait4, LoggerGone
    <3>11. CASE SyncCard BY <3>11 DEF SyncCard
    <3>12. CASE UmountPrimary BY <3>12 DEF UmountPrimary, Umount, Busy
    <3>13. CASE UmountExtras BY <3>13 DEF UmountExtras, Umount, Busy
    <3>14. CASE SyncAgain BY <3>14 DEF SyncAgain
    <3>15. CASE Reboot BY <3>15 DEF Reboot
    <3>16. CASE Disarm BY <3>16 DEF Disarm
    <3>17. CASE Terminate BY <3>17 DEF Terminate
    <3>18. CASE DisarmAgain BY <3>18 DEF DisarmAgain
    <3>19. CASE PollScreen BY <3>19 DEF PollScreen, Wait4, NextTick, PollsLeft
    <3>20. CASE Kill BY <3>20 DEF Kill
    <3>21. CASE Stopped BY <3>21 DEF Stopped, FinalWatchdog
    <3>22. CASE StopFailed BY <3>22 DEF StopFailed
    <3> QED
      BY <2>1, <3>1, <3>2, <3>3, <3>4, <3>5, <3>6, <3>7, <3>8, <3>9, <3>10,
         <3>11, <3>12, <3>13, <3>14, <3>15, <3>16, <3>17, <3>18, <3>19, <3>20,
         <3>21, <3>22 DEF InitProcess
  <2>2. CASE Logd
    <3>1. CASE LogOpen BY <3>1 DEF LogOpen
    <3>2. CASE LogFlush BY <3>2 DEF LogFlush
    <3>3. CASE LogExit BY <3>3 DEF LogExit
    <3> QED
      BY <2>2, <3>1, <3>2, <3>3 DEF Logd
  <2>3. CASE Screen
    <3>1. CASE ScreenReady BY <3>1 DEF ScreenReady
    <3>2. CASE ScreenLeave BY <3>2 DEF ScreenLeave
    <3>3. CASE ScreenExit BY <3>3 DEF ScreenExit
    <3> QED
      BY <2>3, <3>1, <3>2, <3>3 DEF Screen
  <2>4. CASE LogRecord BY <2>4 DEF LogRecord
  <2>5. CASE ScreenPause BY <2>5 DEF ScreenPause
  <2>6. CASE ScreenWedge BY <2>6 DEF ScreenWedge
  <2>7. CASE ScreenCrash BY <2>7 DEF ScreenCrash
  <2>8. CASE FbTestEnds BY <2>8 DEF FbTestEnds
  <2>9. CASE CardIn BY <2>9 DEF CardIn
  <2>10. CASE Mount BY <2>10 DEF Mount
  <2>11. ASSUME NEW v \in Volumes, Use(v) PROVE DiskOK' BY <2>11 DEF Use, Frontend
  <2>12. ASSUME NEW m \in Stops, Ask(m) PROVE DiskOK' BY <2>12 DEF Ask, Frontend
  <2>13. CASE UNCHANGED vars BY <2>13
  <2> QED
    BY <2>1, <2>2, <2>3, <2>4, <2>5, <2>6, <2>7, <2>8, <2>9, <2>10, <2>11,
       <2>12, <2>13 DEF Next
<1> QED BY <1>1, <1>2, <1>3, <1>4, PTL DEF Spec, TypeOK

(* When the power goes or the machine restarts, the log and everything     *)
(* else is written and the logger does not keep /mnt/sd mounted.           *)
THEOREM PowerOffIsClean == Spec => []OffIsClean
<1>1. Init => CleanInv
  BY DEF Init, CleanInv, LogdBooting, LogdKnown, LogdEnded, LogdDrained,
              OnlyFor, AskedFor,
              NoLogger, NoDirt, Released, OnceMounted, Past, Stopping,
              Service, Stops, Volumes, Processes, Running
<1>2. TypeOK /\ CleanInv /\ [Next]_vars => CleanInv'
  <2> SUFFICES ASSUME TypeOK, CleanInv, [Next]_vars PROVE CleanInv'
    OBVIOUS
  <2> USE DEF TypeOK, ControlOK, CleanInv
  <2> USE DEF LogdBooting, LogdKnown, LogdEnded, LogdDrained,
              OnlyFor, AskedFor,
              NoLogger, NoDirt, Released, OnceMounted, Past, Stopping,
              Service, Stops, Volumes, Processes
  <2> USE DEF initVars, logVars, screenVars, diskVars, vars, Running, Create, Alive
  <2>1. CASE InitProcess
    <3>1. CASE SpawnLogd
      <4>1. LogdKnown' BY <3>1, Zenon DEF SpawnLogd
      <4> QED BY <3>1, <4>1 DEF SpawnLogd, Spawn
    <3>2. CASE SpawnScreen BY <3>2 DEF SpawnScreen, Spawn
    <3>3. CASE SpawnStorage BY <3>3 DEF SpawnStorage, Spawn
    <3>4. CASE WaitScreen BY <3>4 DEF WaitScreen
    <3>5. CASE SpawnPowerd BY <3>5 DEF SpawnPowerd, Spawn
    <3>6. CASE Reap BY <3>6 DEF Reap, Wait4
    <3>7. CASE CheckReboot BY <3>7 DEF CheckReboot
    <3>8. CASE CheckShutdown BY <3>8 DEF CheckShutdown
    <3>9. CASE CheckFbTest BY <3>9 DEF CheckFbTest
    <3>10. CASE StopLogger BY <3>10 DEF StopLogger, Wait4, LoggerGone
    <3>11. CASE SyncCard BY <3>11 DEF SyncCard
    <3>12. CASE UmountPrimary BY <3>12 DEF UmountPrimary, Umount, Busy
    <3>13. CASE UmountExtras BY <3>13 DEF UmountExtras, Umount, Busy
    <3>14. CASE SyncAgain BY <3>14 DEF SyncAgain
    <3>15. CASE Reboot BY <3>15 DEF Reboot
    <3>16. CASE Disarm BY <3>16 DEF Disarm
    <3>17. CASE Terminate BY <3>17 DEF Terminate
    <3>18. CASE DisarmAgain BY <3>18 DEF DisarmAgain
    <3>19. CASE PollScreen BY <3>19 DEF PollScreen, Wait4, NextTick, PollsLeft
    <3>20. CASE Kill BY <3>20 DEF Kill
    <3>21. CASE Stopped BY <3>21 DEF Stopped, FinalWatchdog
    <3>22. CASE StopFailed BY <3>22 DEF StopFailed
    <3> QED
      BY <2>1, <3>1, <3>2, <3>3, <3>4, <3>5, <3>6, <3>7, <3>8, <3>9, <3>10,
         <3>11, <3>12, <3>13, <3>14, <3>15, <3>16, <3>17, <3>18, <3>19, <3>20,
         <3>21, <3>22 DEF InitProcess
  <2>2. CASE Logd
    <3>1. CASE LogOpen BY <3>1 DEF LogOpen
    <3>2. CASE LogFlush BY <3>2 DEF LogFlush
    <3>3. CASE LogExit BY <3>3 DEF LogExit
    <3> QED
      BY <2>2, <3>1, <3>2, <3>3 DEF Logd
  <2>3. CASE Screen
    <3>1. CASE ScreenReady BY <3>1 DEF ScreenReady
    <3>2. CASE ScreenLeave BY <3>2 DEF ScreenLeave
    <3>3. CASE ScreenExit BY <3>3 DEF ScreenExit
    <3> QED
      BY <2>3, <3>1, <3>2, <3>3 DEF Screen
  <2>4. CASE LogRecord BY <2>4 DEF LogRecord
  <2>5. CASE ScreenPause BY <2>5 DEF ScreenPause
  <2>6. CASE ScreenWedge BY <2>6 DEF ScreenWedge
  <2>7. CASE ScreenCrash BY <2>7 DEF ScreenCrash
  <2>8. CASE FbTestEnds BY <2>8 DEF FbTestEnds
  <2>9. CASE CardIn BY <2>9 DEF CardIn
  <2>10. CASE Mount BY <2>10 DEF Mount
  <2>11. ASSUME NEW v \in Volumes, Use(v) PROVE CleanInv' BY <2>11 DEF Use, Frontend
  <2>12. ASSUME NEW m \in Stops, Ask(m) PROVE CleanInv' BY <2>12 DEF Ask, Frontend
  <2>13. CASE UNCHANGED vars BY <2>13
  <2> QED
    BY <2>1, <2>2, <2>3, <2>4, <2>5, <2>6, <2>7, <2>8, <2>9, <2>10, <2>11,
       <2>12, <2>13 DEF Next
<1>3. TypeOK /\ CleanInv => OffIsClean
  BY DEF TypeOK, ControlOK, CleanInv, OffIsClean,
              LogdBooting, LogdKnown, LogdEnded, LogdDrained,
              OnlyFor, AskedFor,
              NoLogger, NoDirt, Released, OnceMounted, Past, Stopping,
              Service, Stops, Volumes, Processes, Running
<1> QED BY TypeCorrect, <1>1, <1>2, <1>3, PTL DEF Spec

(* After stop_service nobody draws and nobody arms the watchdog.           *)
THEOREM StoppedScreenStaysQuiet == Spec => []StoppedScreenIsQuiet
<1>1. Init => QuietInv
  BY DEF Init, QuietInv, ScreenBooting, ScreenKnown, Handed,
              Waited, Stale, Ended, Processes, Running
<1>2. TypeOK /\ QuietInv /\ [Next]_vars => QuietInv'
  <2> SUFFICES ASSUME TypeOK, QuietInv, [Next]_vars PROVE QuietInv'
    OBVIOUS
  <2> USE DEF TypeOK, ControlOK, QuietInv
  <2> USE DEF ScreenBooting, ScreenKnown, Handed, Waited, Stale, Ended, Processes
  <2> USE DEF initVars, logVars, screenVars, diskVars, vars, Running, Create, Alive
  <2>1. CASE InitProcess
    <3>1. CASE SpawnLogd BY <3>1 DEF SpawnLogd, Spawn
    <3>2. CASE SpawnScreen BY <3>2 DEF SpawnScreen, Spawn
    <3>3. CASE SpawnStorage BY <3>3 DEF SpawnStorage, Spawn
    <3>4. CASE WaitScreen BY <3>4 DEF WaitScreen
    <3>5. CASE SpawnPowerd BY <3>5 DEF SpawnPowerd, Spawn
    <3>6. CASE Reap BY <3>6 DEF Reap, Wait4
    <3>7. CASE CheckReboot BY <3>7 DEF CheckReboot
    <3>8. CASE CheckShutdown BY <3>8 DEF CheckShutdown
    <3>9. CASE CheckFbTest BY <3>9 DEF CheckFbTest
    <3>10. CASE StopLogger BY <3>10 DEF StopLogger, Wait4, LoggerGone
    <3>11. CASE SyncCard BY <3>11 DEF SyncCard
    <3>12. CASE UmountPrimary BY <3>12 DEF UmountPrimary, Umount, Busy
    <3>13. CASE UmountExtras BY <3>13 DEF UmountExtras, Umount, Busy
    <3>14. CASE SyncAgain BY <3>14 DEF SyncAgain
    <3>15. CASE Reboot BY <3>15 DEF Reboot
    <3>16. CASE Disarm BY <3>16 DEF Disarm
    <3>17. CASE Terminate BY <3>17 DEF Terminate
    <3>18. CASE DisarmAgain BY <3>18 DEF DisarmAgain
    <3>19. CASE PollScreen BY <3>19 DEF PollScreen, Wait4, NextTick, PollsLeft
    <3>20. CASE Kill BY <3>20 DEF Kill
    <3>21. CASE Stopped BY <3>21 DEF Stopped, FinalWatchdog
    <3>22. CASE StopFailed BY <3>22 DEF StopFailed
    <3> QED
      BY <2>1, <3>1, <3>2, <3>3, <3>4, <3>5, <3>6, <3>7, <3>8, <3>9, <3>10,
         <3>11, <3>12, <3>13, <3>14, <3>15, <3>16, <3>17, <3>18, <3>19, <3>20,
         <3>21, <3>22 DEF InitProcess
  <2>2. CASE Logd
    <3>1. CASE LogOpen BY <3>1 DEF LogOpen
    <3>2. CASE LogFlush BY <3>2 DEF LogFlush
    <3>3. CASE LogExit BY <3>3 DEF LogExit
    <3> QED
      BY <2>2, <3>1, <3>2, <3>3 DEF Logd
  <2>3. CASE Screen
    <3>1. CASE ScreenReady BY <3>1 DEF ScreenReady
    <3>2. CASE ScreenLeave BY <3>2 DEF ScreenLeave
    <3>3. CASE ScreenExit BY <3>3 DEF ScreenExit
    <3> QED
      BY <2>3, <3>1, <3>2, <3>3 DEF Screen
  <2>4. CASE LogRecord BY <2>4 DEF LogRecord
  <2>5. CASE ScreenPause BY <2>5 DEF ScreenPause
  <2>6. CASE ScreenWedge BY <2>6 DEF ScreenWedge
  <2>7. CASE ScreenCrash BY <2>7 DEF ScreenCrash
  <2>8. CASE FbTestEnds BY <2>8 DEF FbTestEnds
  <2>9. CASE CardIn BY <2>9 DEF CardIn
  <2>10. CASE Mount BY <2>10 DEF Mount
  <2>11. ASSUME NEW v \in Volumes, Use(v) PROVE QuietInv' BY <2>11 DEF Use, Frontend
  <2>12. ASSUME NEW m \in Stops, Ask(m) PROVE QuietInv' BY <2>12 DEF Ask, Frontend
  <2>13. CASE UNCHANGED vars BY <2>13
  <2> QED
    BY <2>1, <2>2, <2>3, <2>4, <2>5, <2>6, <2>7, <2>8, <2>9, <2>10, <2>11,
       <2>12, <2>13 DEF Next
<1>3. TypeOK /\ QuietInv => StoppedScreenIsQuiet
  BY DEF TypeOK, ControlOK, QuietInv, StoppedScreenIsQuiet,
              ScreenBooting, ScreenKnown, Handed,
              Waited, Stale, Ended, Processes, Running
<1> QED BY TypeCorrect, <1>1, <1>2, <1>3, PTL DEF Spec
=============================================================================
