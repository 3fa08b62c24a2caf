-------------------------- MODULE ForegroundProofs --------------------------
(***************************************************************************)
(* Proofs about Foreground for every value of its constants.               *)
(***************************************************************************)
EXTENDS Foreground, TLAPS

(* The daemons only ever reach states of their types, and both of powerd's *)
(* bounded waits stay within their bounds.                                 *)
THEOREM TypeCorrect == Spec => []TypeOK
<1>1. Init => TypeOK
  <2>1. Init => FlagsOK BY Zenon DEF Init, FlagsOK
  <2>2. Init => ControlOK BY DEF Init, ControlOK, PowerdPCs, ScreenPCs
  <2>3. Init => WaitsOK BY ForegroundAssumption DEF Init, WaitsOK
  <2> QED BY <2>1, <2>2, <2>3 DEF TypeOK
<1>2. FlagsOK /\ [Next]_vars => FlagsOK'
  <2> SUFFICES ASSUME FlagsOK, [Next]_vars PROVE FlagsOK'
    OBVIOUS
  <2> USE DEF FlagsOK
  <2> USE DEF Create, Unlink, chord, call, lamp, child, journal, screen, verdict
  <2>1. CASE Powerd
    <3>1. CASE Boot BY <3>1 DEF Boot
    <3>2. ASSUME NEW k \in Keys, Key(k) PROVE FlagsOK' BY <3>2 DEF Key, FlagsAfter
    <3>3. CASE StandbyMark
      <4>1. unmarked' \in BOOLEAN BY <3>3, Zenon DEF StandbyMark
      <4> QED BY <3>3, <4>1 DEF StandbyMark
    <3>4. CASE StandbyDark
      <4>1. backlight' \in BOOLEAN BY <3>4, Zenon DEF StandbyDark
      <4> QED BY <3>4, <4>1 DEF StandbyDark
    <3>5. CASE StandbyResume
      <4>1. acked' \in BOOLEAN BY <3>5, Zenon DEF StandbyResume
      <4> QED BY <3>5, <4>1 DEF StandbyResume
    <3>6. CASE StandbyUnmark
      <4>1. unmarked' \in BOOLEAN BY <3>6, Zenon DEF StandbyUnmark
      <4> QED BY <3>6, <4>1 DEF StandbyUnmark
    <3>7. CASE PauseUnlink BY <3>7 DEF PauseUnlink, PauseForgets
    <3>8. CASE PauseCreate BY <3>8 DEF PauseCreate, AfterPause
    <3>9. CASE PauseAcked BY <3>9 DEF PauseAcked, AfterPause, PollsLeft
    <3>10. CASE PauseAgain BY <3>10 DEF PauseAgain, PollsLeft, NextPoll
    <3>11. CASE PauseTimeout BY <3>11 DEF PauseTimeout, AfterPause
    <3>12. CASE FrontendClear
      <4>1. backlight' \in BOOLEAN BY <3>12, Zenon DEF FrontendClear
      <4> QED BY <3>12, <4>1 DEF FrontendClear
    <3>13. CASE FrontendLaunch
      <4>1. visible' \in BOOLEAN BY <3>13, Zenon DEF FrontendLaunch, LaunchForgets
      <4>2. freshReady' \in BOOLEAN BY <3>13, Zenon
        DEF FrontendLaunch, LaunchForgets
      <4> QED BY <3>13, <4>1, <4>2 DEF FrontendLaunch, LaunchForgets
    <3>14. CASE FrontendVisible BY <3>14 DEF FrontendVisible
    <3>15. CASE FrontendReaped BY <3>15 DEF FrontendReaped
    <3>16. CASE FrontendEndPerf BY <3>16 DEF FrontendEndPerf
    <3>17. CASE FrontendDrainAgain BY <3>17 DEF FrontendDrainAgain
    <3>18. CASE FrontendDrained
      <4>1. backlight' \in BOOLEAN BY <3>18, Zenon
        DEF FrontendDrained, DrainOver, AfterDrain
      <4> QED BY <3>18, <4>1 DEF FrontendDrained, DrainOver, AfterDrain
    <3>19. CASE FrontendDone
      <4>1. backlight' \in BOOLEAN BY <3>19, Zenon DEF FrontendDone, DoneForgets
      <4>2. acked' \in BOOLEAN BY <3>19, Zenon DEF FrontendDone, DoneForgets
      <4> QED BY <3>19, <4>1, <4>2 DEF FrontendDone, DoneForgets
    <3>20. CASE FrontendShow BY <3>20 DEF FrontendShow
    <3> QED
      BY <2>1, <3>1, <3>2, <3>3, <3>4, <3>5, <3>6, <3>7, <3>8, <3>9, <3>10,
         <3>11, <3>12, <3>13, <3>14, <3>15, <3>16, <3>17, <3>18, <3>19, <3>20
      DEF Powerd
  <2>2. CASE Frontend
    <3>1. CASE BrowserReady BY <3>1 DEF BrowserReady, feRest
    <3>2. CASE BrowserAsks BY <3>2 DEF BrowserAsks, feRest
    <3>3. CASE BrowserExecs BY <3>3 DEF BrowserExecs, feRest
    <3>4. CASE BrowserExits BY <3>4 DEF BrowserExits, feRest
    <3>5. CASE FrontendDies
      <4>1. sessionLate' \in BOOLEAN BY <3>5, Zenon DEF FrontendDies, feRest
      <4> QED BY <3>5, <4>1 DEF FrontendDies, feRest
    <3> QED
      BY <2>2, <3>1, <3>2, <3>3, <3>4, <3>5 DEF Frontend
  <2>3. CASE Screen
    <3>1. CASE ScreenTop
      <4>1. watchdog' \in BOOLEAN BY <3>1, Zenon DEF ScreenTop, screenRest
      <4> QED BY <3>1, <4>1 DEF ScreenTop, screenRest
    <3>2. CASE ScreenService
      <4>1. watchdog' \in BOOLEAN BY <3>2, Zenon DEF ScreenService, screenRest
      <4>2. appPaused' \in BOOLEAN BY <3>2, Zenon DEF ScreenService, screenRest
      <4> QED BY <3>2, <4>1, <4>2 DEF ScreenService, screenRest
    <3>3. CASE ScreenDrain
      <4>1. watchdog' \in BOOLEAN BY <3>3, Zenon
        DEF ScreenDrain, screenRest, DrainFailed
      <4> QED BY <3>3, <4>1 DEF ScreenDrain, screenRest, DrainFailed
    <3>4. CASE ScreenPublish BY <3>4 DEF ScreenPublish, screenRest
    <3>5. CASE ScreenWait
      <4>1. appPaused' \in BOOLEAN BY <3>5, Zenon
        DEF ScreenWait, screenRest, KeepsWaiting
      <4> QED BY <3>5, <4>1 DEF ScreenWait, screenRest, KeepsWaiting
    <3>6. CASE ScreenUnpublish BY <3>6 DEF ScreenUnpublish, screenRest
    <3>7. CASE ScreenLoop BY <3>7 DEF ScreenLoop, screenRest
    <3>8. CASE ScreenDraw BY <3>8 DEF ScreenDraw, screenRest
    <3>9. CASE ScreenDark
      <4>1. backlight' \in BOOLEAN BY <3>9, Zenon DEF ScreenDark
      <4> QED BY <3>9, <4>1 DEF ScreenDark
    <3>10. CASE ScreenUnstop BY <3>10 DEF ScreenUnstop, screenRest
    <3> QED
      BY <2>3, <3>1, <3>2, <3>3, <3>4, <3>5, <3>6, <3>7, <3>8, <3>9, <3>10
      DEF Screen
  <2>4. CASE Logd
    <3>1. CASE LogdLook BY <3>1 DEF LogdLook, logdRest
    <3>2. CASE LogdBegin BY <3>2 DEF LogdBegin, logdRest, Acknowledge
    <3>3. CASE LogdEnd
      <4>1. deferred' \in BOOLEAN BY <3>3, Zenon DEF LogdEnd, logdRest
      <4> QED BY <3>3, <4>1 DEF LogdEnd, logdRest
    <3>4. CASE LogdClear BY <3>4 DEF LogdClear, logdRest
    <3>5. CASE LogdKeep BY <3>5 DEF LogdKeep, logdRest
    <3> QED
      BY <2>4, <3>1, <3>2, <3>3, <3>4, <3>5 DEF Logd
  <2>5. CASE InitStopsScreen BY <2>5 DEF InitStopsScreen
  <2>6. CASE UNCHANGED vars BY <2>6 DEF vars
  <2> QED
    BY <2>1, <2>2, <2>3, <2>4, <2>5, <2>6 DEF Next
<1>3. ControlOK /\ [Next]_vars => ControlOK'
  <2> SUFFICES ASSUME ControlOK, [Next]_vars PROVE ControlOK'
    OBVIOUS
  <2> USE ForegroundAssumption DEF ControlOK, PowerdPCs, ScreenPCs, AllKeys, Markers
  <2> USE DEF Create, Unlink, chord, call, lamp, child, journal, screen, verdict
  <2>1. CASE Powerd
    <3>1. CASE Boot BY <3>1 DEF Boot
    <3>2. ASSUME NEW k \in Keys, Key(k) PROVE ControlOK' BY <3>2 DEF Key, FlagsAfter
    <3>3. CASE StandbyMark BY <3>3 DEF StandbyMark
    <3>4. CASE StandbyDark BY <3>4 DEF StandbyDark
    <3>5. CASE StandbyResume BY <3>5 DEF StandbyResume
    <3>6. CASE StandbyUnmark BY <3>6 DEF StandbyUnmark
    <3>7. CASE PauseUnlink BY <3>7 DEF PauseUnlink, PauseForgets
    <3>8. CASE PauseCreate BY <3>8 DEF PauseCreate, AfterPause
    <3>9. CASE PauseAcked BY <3>9 DEF PauseAcked, AfterPause, PollsLeft
    <3>10. CASE PauseAgain BY <3>10 DEF PauseAgain, PollsLeft, NextPoll
    <3>11. CASE PauseTimeout BY <3>11 DEF PauseTimeout, AfterPause
    <3>12. CASE FrontendClear BY <3>12 DEF FrontendClear
    <3>13. CASE FrontendLaunch BY <3>13 DEF FrontendLaunch, LaunchForgets
    <3>14. CASE FrontendVisible BY <3>14 DEF FrontendVisible
    <3>15. CASE FrontendReaped BY <3>15 DEF FrontendReaped
    <3>16. CASE FrontendEndPerf BY <3>16 DEF FrontendEndPerf
    <3>17. CASE FrontendDrainAgain BY <3>17 DEF FrontendDrainAgain
    <3>18. CASE FrontendDrained BY <3>18 DEF FrontendDrained, DrainOver, AfterDrain
    <3>19. CASE FrontendDone BY <3>19 DEF FrontendDone, DoneForgets
    <3>20. CASE FrontendShow BY <3>20 DEF FrontendShow
    <3> QED
      BY <2>1, <3>1, <3>2, <3>3, <3>4, <3>5, <3>6, <3>7, <3>8, <3>9, <3>10,
         <3>11, <3>12, <3>13, <3>14, <3>15, <3>16, <3>17, <3>18, <3>19, <3>20
      DEF Powerd
  <2>2. CASE Frontend
    <3>1. CASE BrowserReady BY <3>1 DEF BrowserReady, feRest
    <3>2. CASE BrowserAsks BY <3>2 DEF BrowserAsks, feRest
    <3>3. CASE BrowserExecs BY <3>3 DEF BrowserExecs, feRest
    <3>4. CASE BrowserExits BY <3>4 DEF BrowserExits, feRest
    <3>5. CASE FrontendDies BY <3>5 DEF FrontendDies, feRest
    <3> QED
      BY <2>2, <3>1, <3>2, <3>3, <3>4, <3>5 DEF Frontend
  <2>3. CASE Screen
    <3>1. CASE ScreenTop BY <3>1 DEF ScreenTop, screenRest
    <3>2. CASE ScreenService BY <3>2 DEF ScreenService, screenRest
    <3>3. CASE ScreenDrain BY <3>3 DEF ScreenDrain, screenRest, DrainFailed
    <3>4. CASE ScreenPublish BY <3>4 DEF ScreenPublish, screenRest
    <3>5. CASE ScreenWait BY <3>5 DEF ScreenWait, screenRest, KeepsWaiting
    <3>6. CASE ScreenUnpublish BY <3>6 DEF ScreenUnpublish, screenRest
    <3>7. CASE ScreenLoop BY <3>7 DEF ScreenLoop, screenRest
    <3>8. CASE ScreenDraw BY <3>8 DEF ScreenDraw, screenRest
    <3>9. CASE ScreenDark BY <3>9 DEF ScreenDark
    <3>10. CASE ScreenUnstop BY <3>10 DEF ScreenUnstop, screenRest
    <3> QED
      BY <2>3, <3>1, <3>2, <3>3, <3>4, <3>5, <3>6, <3>7, <3>8, <3>9, <3>10
      DEF Screen
  <2>4. CASE Logd
    <3>1. CASE LogdLook BY <3>1 DEF LogdLook, logdRest
    <3>2. CASE LogdBegin BY <3>2 DEF LogdBegin, logdRest, Acknowledge
    <3>3. CASE LogdEnd BY <3>3 DEF LogdEnd, logdRest
    <3>4. CASE LogdClear BY <3>4 DEF LogdClear, logdRest
    <3>5. CASE LogdKeep BY <3>5 DEF LogdKeep, logdRest
    <3> QED
      BY <2>4, <3>1, <3>2, <3>3, <3>4, <3>5 DEF Logd
  <2>5. CASE InitStopsScreen BY <2>5 DEF InitStopsScreen
  <2>6. CASE UNCHANGED vars BY <2>6 DEF vars
  <2> QED
    BY <2>1, <2>2, <2>3, <2>4, <2>5, <2>6 DEF Next
<1>4. WaitsOK /\ [Next]_vars => WaitsOK'
  <2> SUFFICES ASSUME WaitsOK, [Next]_vars PROVE WaitsOK'
    OBVIOUS
  <2> USE ForegroundAssumption DEF WaitsOK
  <2> USE DEF Create, Unlink, chord, call, lamp, child, journal, screen, verdict
  <2>1. CASE Powerd
    <3>1. CASE Boot BY <3>1 DEF Boot
    <3>2. ASSUME NEW k \in Keys, Key(k) PROVE WaitsOK' BY <3>2 DEF Key, FlagsAfter
    <3>3. CASE StandbyMark BY <3>3 DEF StandbyMark
    <3>4. CASE StandbyDark BY <3>4 DEF StandbyDark
    <3>5. CASE StandbyResume BY <3>5 DEF StandbyResume
    <3>6. CASE StandbyUnmark BY <3>6 DEF StandbyUnmark
    <3>7. CASE PauseUnlink BY <3>7 DEF PauseUnlink, PauseForgets
    <3>8. CASE PauseCreate BY <3>8 DEF PauseCreate, AfterPause
    <3>9. CASE PauseAcked BY <3>9 DEF PauseAcked, AfterPause, PollsLeft
    <3>10. CASE PauseAgain BY <3>10 DEF PauseAgain, PollsLeft, NextPoll
    <3>11. CASE PauseTimeout BY <3>11 DEF PauseTimeout, AfterPause
    <3>12. CASE FrontendClear BY <3>12 DEF FrontendClear
    <3>13. CASE FrontendLaunch BY <3>13 DEF FrontendLaunch, LaunchForgets
    <3>14. CASE FrontendVisible BY <3>14 DEF FrontendVisible
    <3>15. CASE FrontendReaped BY <3>15 DEF FrontendReaped
    <3>16. CASE FrontendEndPerf BY <3>16 DEF FrontendEndPerf
    <3>17. CASE FrontendDrainAgain BY <3>17 DEF FrontendDrainAgain
    <3>18. CASE FrontendDrained BY <3>18 DEF FrontendDrained, DrainOver, AfterDrain
    <3>19. CASE FrontendDone BY <3>19 DEF FrontendDone, DoneForgets
    <3>20. CASE FrontendShow BY <3>20 DEF FrontendShow
    <3> QED
      BY <2>1, <3>1, <3>2, <3>3, <3>4, <3>5, <3>6, <3>7, <3>8, <3>9, <3>10,
         <3>11, <3>12, <3>13, <3>14, <3>15, <3>16, <3>17, <3>18, <3>19, <3>20
      DEF Powerd
  <2>2. CASE Frontend
    <3>1. CASE BrowserReady BY <3>1 DEF BrowserReady, feRest
    <3>2. CASE BrowserAsks BY <3>2 DEF BrowserAsks, feRest
    <3>3. CASE BrowserExecs BY <3>3 DEF BrowserExecs, feRest
    <3>4. CASE BrowserExits BY <3>4 DEF BrowserExits, feRest
    <3>5. CASE FrontendDies BY <3>5 DEF FrontendDies, feRest
    <3> QED
      BY <2>2, <3>1, <3>2, <3>3, <3>4, <3>5 DEF Frontend
  <2>3. CASE Screen
    <3>1. CASE ScreenTop BY <3>1 DEF ScreenTop, screenRest
    <3>2. CASE ScreenService BY <3>2 DEF ScreenService, screenRest
    <3>3. CASE ScreenDrain BY <3>3 DEF ScreenDrain, screenRest, DrainFailed
    <3>4. CASE ScreenPublish BY <3>4 DEF ScreenPublish, screenRest
    <3>5. CASE ScreenWait BY <3>5 DEF ScreenWait, screenRest, KeepsWaiting
    <3>6. CASE ScreenUnpublish BY <3>6 DEF ScreenUnpublish, screenRest
    <3>7. CASE ScreenLoop BY <3>7 DEF ScreenLoop, screenRest
    <3>8. CASE ScreenDraw BY <3>8 DEF ScreenDraw, screenRest
    <3>9. CASE ScreenDark BY <3>9 DEF ScreenDark
    <3>10. CASE ScreenUnstop BY <3>10 DEF ScreenUnstop, screenRest
    <3> QED
      BY <2>3, <3>1, <3>2, <3>3, <3>4, <3>5, <3>6, <3>7, <3>8, <3>9, <3>10
      DEF Screen
  <2>4. CASE Logd
    <3>1. CASE LogdLook BY <3>1 DEF LogdLook, logdRest
    <3>2. CASE LogdBegin BY <3>2 DEF LogdBegin, logdRest, Acknowledge
    <3>3. CASE LogdEnd BY <3>3 DEF LogdEnd, logdRest
    <3>4. CASE LogdClear BY <3>4 DEF LogdClear, logdRest
    <3>5. CASE LogdKeep BY <3>5 DEF LogdKeep, logdRest
    <3> QED
      BY <2>4, <3>1, <3>2, <3>3, <3>4, <3>5 DEF Logd
  <2>5. CASE InitStopsScreen BY <2>5 DEF InitStopsScreen
  <2>6. CASE UNCHANGED vars BY <2>6 DEF vars
  <2> QED
    BY <2>1, <2>2, <2>3, <2>4, <2>5, <2>6 DEF Next
<1> QED
  BY <1>1, <1>2, <1>3, <1>4, PTL DEF Spec, TypeOK

-----------------------------------------------------------------------------
(* The pause handshake                                                     *)

(* An acknowledgement is only remembered while its request stands, and a   *)
(* request only stands during the poll or after an acknowledgement.        *)
AckInv ==
    /\ "PAUSE_REQUEST" \in run <=> (pc = "pausePoll" \/ acked)
    /\ acked => \/ pc \in {"feLaunch", "feWait", "feEndPerf", "feDrain",
                           "feDone", "sbResume"}
                \/ pc = "idle" /\ standby
    /\ pc \in {"sbMark", "sbDark"} => standby
    /\ pc \in {"pauseUnlink", "pauseCreate", "pausePoll"} /\ task = "standby"
         => standby

(* AckInv is an invariant of its own: powerd alone keeps it.               *)
LEMMA AckHolds == Spec => []AckInv
<1>1. Init => AckInv
  BY DEF Init, AckInv
<1>2. AckInv /\ [Next]_vars => AckInv'
  <2> SUFFICES ASSUME AckInv, [Next]_vars PROVE AckInv'
    OBVIOUS
  <2> USE DEF AckInv, AfterPause
  <2> USE DEF Create, Unlink, chord, call, lamp, child, journal, screen, verdict
  <2>1. CASE Powerd
    <3>1. CASE Boot BY <3>1 DEF Boot
    <3>2. ASSUME NEW k \in Keys, Key(k) PROVE AckInv' BY <3>2 DEF Key, FlagsAfter
    <3>3. CASE StandbyMark BY <3>3 DEF StandbyMark
    <3>4. CASE StandbyDark BY <3>4 DEF StandbyDark
    <3>5. CASE StandbyResume BY <3>5 DEF StandbyResume
    <3>6. CASE StandbyUnmark BY <3>6 DEF StandbyUnmark
    <3>7. CASE PauseUnlink BY <3>7 DEF PauseUnlink, PauseForgets
    <3>8. CASE PauseCreate BY <3>8 DEF PauseCreate, AfterPause
    <3>9. CASE PauseAcked BY <3>9 DEF PauseAcked, AfterPause, PollsLeft
    <3>10. CASE PauseAgain BY <3>10 DEF PauseAgain, PollsLeft, NextPoll
    <3>11. CASE PauseTimeout BY <3>11 DEF PauseTimeout, AfterPause
    <3>12. CASE FrontendClear BY <3>12 DEF FrontendClear
    <3>13. CASE FrontendLaunch BY <3>13 DEF FrontendLaunch, LaunchForgets
    <3>14. CASE FrontendVisible BY <3>14 DEF FrontendVisible
    <3>15. CASE FrontendReaped BY <3>15 DEF FrontendReaped
    <3>16. CASE FrontendEndPerf BY <3>16 DEF FrontendEndPerf
    <3>17. CASE FrontendDrainAgain BY <3>17 DEF FrontendDrainAgain
    <3>18. CASE FrontendDrained BY <3>18 DEF FrontendDrained, DrainOver, AfterDrain
    <3>19. CASE FrontendDone BY <3>19 DEF FrontendDone, DoneForgets
    <3>20. CASE FrontendShow BY <3>20 DEF FrontendShow
    <3> QED
      BY <2>1, <3>1, <3>2, <3>3, <3>4, <3>5, <3>6, <3>7, <3>8, <3>9, <3>10,
         <3>11, <3>12, <3>13, <3>14, <3>15, <3>16, <3>17, <3>18, <3>19, <3>20
      DEF Powerd
  <2>2. CASE Frontend
    <3>1. CASE BrowserReady BY <3>1 DEF BrowserReady, feRest
    <3>2. CASE BrowserAsks BY <3>2 DEF BrowserAsks, feRest
    <3>3. CASE BrowserExecs BY <3>3 DEF BrowserExecs, feRest
    <3>4. CASE BrowserExits BY <3>4 DEF BrowserExits, feRest
    <3>5. CASE FrontendDies BY <3>5 DEF FrontendDies, feRest
    <3> QED
      BY <2>2, <3>1, <3>2, <3>3, <3>4, <3>5 DEF Frontend
  <2>3. CASE Screen
    <3>1. CASE ScreenTop BY <3>1 DEF ScreenTop, screenRest
    <3>2. CASE ScreenService BY <3>2 DEF ScreenService, screenRest
    <3>3. CASE ScreenDrain BY <3>3 DEF ScreenDrain, screenRest, DrainFailed
    <3>4. CASE ScreenPublish BY <3>4 DEF ScreenPublish, screenRest
    <3>5. CASE ScreenWait BY <3>5 DEF ScreenWait, screenRest, KeepsWaiting
    <3>6. CASE ScreenUnpublish BY <3>6 DEF ScreenUnpublish, screenRest
    <3>7. CASE ScreenLoop BY <3>7 DEF ScreenLoop, screenRest
    <3>8. CASE ScreenDraw BY <3>8 DEF ScreenDraw, screenRest
    <3>9. CASE ScreenDark BY <3>9 DEF ScreenDark
    <3>10. CASE ScreenUnstop BY <3>10 DEF ScreenUnstop, screenRest
    <3> QED
      BY <2>3, <3>1, <3>2, <3>3, <3>4, <3>5, <3>6, <3>7, <3>8, <3>9, <3>10
      DEF Screen
  <2>4. CASE Logd
    <3>1. CASE LogdLook BY <3>1 DEF LogdLook, logdRest
    <3>2. CASE LogdBegin BY <3>2 DEF LogdBegin, logdRest, Acknowledge
    <3>3. CASE LogdEnd BY <3>3 DEF LogdEnd, logdRest
    <3>4. CASE LogdClear BY <3>4 DEF LogdClear, logdRest
    <3>5. CASE LogdKeep BY <3>5 DEF LogdKeep, logdRest
    <3> QED
      BY <2>4, <3>1, <3>2, <3>3, <3>4, <3>5 DEF Logd
  <2>5. CASE InitStopsScreen BY <2>5 DEF InitStopsScreen
  <2>6. CASE UNCHANGED vars BY <2>6 DEF vars
  <2> QED
    BY <2>1, <2>2, <2>3, <2>4, <2>5, <2>6 DEF Next
<1> QED
  BY <1>1, <1>2, PTL DEF Spec

(* What the screen may be doing as long as every pause was acknowledged:   *)
(* it publishes PAUSED only for the request powerd is polling for. The     *)
(* stop request stands until the stopping screen has taken it with it.     *)
PauseInv ==
  /\ spc \in {"dark", "unstop"} => "STOP_REQUEST" \in run
  /\ ~pauseLate /\ "STOP_REQUEST" \notin run /\ spc # "stopped" =>
      /\ "PAUSED" \in run => spc \in {"wait", "unpub"}
      /\ "PAUSED" \in run /\ "PAUSE_REQUEST" \in run => spc = "wait"
      /\ pc = "pauseCreate" => "PAUSED" \notin run
      /\ spc \in {"drain", "publish", "wait"} => appPaused
      /\ appPaused /\ spc # "wait" => pc = "pausePoll"
      /\ acked => spc = "wait"

(* AckedPauseIsQuiescent for every bound and failure the constants allow:  *)
(* an acknowledged pause_screen owns the panel.                            *)
THEOREM AckedPauseOwnsPanel == Spec => []AckedPauseIsQuiescent
<1>1. Init => PauseInv
  BY DEF Init, PauseInv
<1>2. AckInv /\ PauseInv /\ [Next]_vars => PauseInv'
  <2> SUFFICES ASSUME AckInv, PauseInv, [Next]_vars PROVE PauseInv'
    OBVIOUS
  <2> USE DEF AckInv, PauseInv, AfterPause
  <2> USE DEF Create, Unlink, chord, call, lamp, child, journal, screen, verdict
  <2>1. CASE Powerd
    <3>1. CASE Boot BY <3>1 DEF Boot
    <3>2. ASSUME NEW k \in Keys, Key(k) PROVE PauseInv' BY <3>2 DEF Key, FlagsAfter
    <3>3. CASE StandbyMark BY <3>3 DEF StandbyMark
    <3>4. CASE StandbyDark BY <3>4 DEF StandbyDark
    <3>5. CASE StandbyResume BY <3>5 DEF StandbyResume
    <3>6. CASE StandbyUnmark BY <3>6 DEF StandbyUnmark
    <3>7. CASE PauseUnlink BY <3>7 DEF PauseUnlink, PauseForgets
    <3>8. CASE PauseCreate BY <3>8 DEF PauseCreate, AfterPause
    <3>9. CASE PauseAcked BY <3>9 DEF PauseAcked, AfterPause, PollsLeft
    <3>10. CASE PauseAgain BY <3>10 DEF PauseAgain, PollsLeft, NextPoll
    <3>11. CASE PauseTimeout BY <3>11 DEF PauseTimeout, AfterPause
    <3>12. CASE FrontendClear BY <3>12 DEF FrontendClear
    <3>13. CASE FrontendLaunch BY <3>13 DEF FrontendLaunch, LaunchForgets
    <3>14. CASE FrontendVisible BY <3>14 DEF FrontendVisible
    <3>15. CASE FrontendReaped BY <3>15 DEF FrontendReaped
    <3>16. CASE FrontendEndPerf BY <3>16 DEF FrontendEndPerf
    <3>17. CASE FrontendDrainAgain BY <3>17 DEF FrontendDrainAgain
    <3>18. CASE FrontendDrained BY <3>18 DEF FrontendDrained, DrainOver, AfterDrain
    <3>19. CASE FrontendDone BY <3>19 DEF FrontendDone, DoneForgets
    <3>20. CASE FrontendShow BY <3>20 DEF FrontendShow
    <3> QED
      BY <2>1, <3>1, <3>2, <3>3, <3>4, <3>5, <3>6, <3>7, <3>8, <3>9, <3>10,
         <3>11, <3>12, <3>13, <3>14, <3>15, <3>16, <3>17, <3>18, <3>19, <3>20
      DEF Powerd
  <2>2. CASE Frontend
    <3>1. CASE BrowserReady BY <3>1 DEF BrowserReady, feRest
    <3>2. CASE BrowserAsks BY <3>2 DEF BrowserAsks, feRest
    <3>3. CASE BrowserExecs BY <3>3 DEF BrowserExecs, feRest
    <3>4. CASE BrowserExits BY <3>4 DEF BrowserExits, feRest
    <3>5. CASE FrontendDies BY <3>5 DEF FrontendDies, feRest
    <3> QED
      BY <2>2, <3>1, <3>2, <3>3, <3>4, <3>5 DEF Frontend
  <2>3. CASE Screen
    <3>1. CASE ScreenTop BY <3>1 DEF ScreenTop, screenRest
    <3>2. CASE ScreenService BY <3>2 DEF ScreenService, screenRest
    <3>3. CASE ScreenDrain BY <3>3 DEF ScreenDrain, screenRest, DrainFailed
    <3>4. CASE ScreenPublish BY <3>4 DEF ScreenPublish, screenRest
    <3>5. CASE ScreenWait BY <3>5 DEF ScreenWait, screenRest, KeepsWaiting
    <3>6. CASE ScreenUnpublish BY <3>6 DEF ScreenUnpublish, screenRest
    <3>7. CASE ScreenLoop BY <3>7 DEF ScreenLoop, screenRest
    <3>8. CASE ScreenDraw BY <3>8 DEF ScreenDraw, screenRest
    <3>9. CASE ScreenDark BY <3>9 DEF ScreenDark
    <3>10. CASE ScreenUnstop BY <3>10 DEF ScreenUnstop, screenRest
    <3> QED
      BY <2>3, <3>1, <3>2, <3>3, <3>4, <3>5, <3>6, <3>7, <3>8, <3>9, <3>10
      DEF Screen
  <2>4. CASE Logd
    <3>1. CASE LogdLook BY <3>1 DEF LogdLook, logdRest
    <3>2. CASE LogdBegin BY <3>2 DEF LogdBegin, logdRest, Acknowledge
    <3>3. CASE LogdEnd BY <3>3 DEF LogdEnd, logdRest
    <3>4. CASE LogdClear BY <3>4 DEF LogdClear, logdRest
    <3>5. CASE LogdKeep BY <3>5 DEF LogdKeep, logdRest
    <3> QED
      BY <2>4, <3>1, <3>2, <3>3, <3>4, <3>5 DEF Logd
  <2>5. CASE InitStopsScreen BY <2>5 DEF InitStopsScreen
  <2>6. CASE UNCHANGED vars BY <2>6 DEF vars
  <2> QED
    BY <2>1, <2>2, <2>3, <2>4, <2>5, <2>6 DEF Next
<1>3. PauseInv => AckedPauseIsQuiescent
  BY DEF PauseInv, AckedPauseIsQuiescent
<1> QED
  BY <1>1, <1>2, <1>3, AckHolds, PTL DEF Spec

-----------------------------------------------------------------------------
(* The performance session                                                 *)

(* The four states of a session as powerd's marker, logd's marker and      *)
(* logd's own state have it.                                               *)
Quiet == /\ "PERFORMANCE" \notin run /\ "PERFORMANCE_READY" \notin run
         /\ ~deferred /\ lpc # "clear" /\ (lpc = "act" => ~logdActive)
Asked == /\ "PERFORMANCE" \in run /\ "PERFORMANCE_READY" \notin run
         /\ ~deferred /\ lpc # "clear"
Granted == /\ "PERFORMANCE" \in run /\ "PERFORMANCE_READY" \in run
           /\ deferred /\ lpc # "clear" /\ (lpc = "act" => logdActive)
Ending == /\ "PERFORMANCE" \notin run /\ "PERFORMANCE_READY" \in run
          /\ \/ deferred /\ lpc # "clear"
             \/ ~deferred /\ lpc = "clear"

(* A child exists exactly while run_frontend waits for it, and each of its *)
(* phases finds the session in the matching state.                         *)
SessionInv ==
    /\ fe # "none" <=> pc = "feWait"
    /\ ~sessionLate =>
         /\ fe = "browser" => Quiet
         /\ fe = "asking" => Asked \/ Granted
         /\ fe = "app" => Granted
         /\ fe = "zombie" \/ pc = "feEndPerf" => Quiet \/ Granted
         /\ pc = "feDrain" => Quiet \/ Ending
         /\ fe = "none" /\ pc \notin {"feEndPerf", "feDrain"} => Quiet

(* GameKeepsCardToItself for every bound: an application that waited for   *)
(* the acknowledgement plays while logd stays off the card.                *)
THEOREM GameHasCard == Spec => []GameKeepsCardToItself
<1>1. Init => SessionInv
  BY DEF Init, SessionInv, Quiet
<1>2. SessionInv /\ [Next]_vars => SessionInv'
  <2> SUFFICES ASSUME SessionInv, [Next]_vars PROVE SessionInv'
    OBVIOUS
  <2> USE DEF SessionInv, Quiet, Asked, Granted, Ending
  <2> USE DEF Create, Unlink, chord, call, lamp, child, journal, screen, verdict
  <2>1. CASE Powerd
    <3>1. CASE Boot BY <3>1 DEF Boot
    <3>2. ASSUME NEW k \in Keys, Key(k) PROVE SessionInv'
      BY <3>2 DEF Key, FlagsAfter
    <3>3. CASE StandbyMark BY <3>3 DEF StandbyMark
    <3>4. CASE StandbyDark BY <3>4 DEF StandbyDark
    <3>5. CASE StandbyResume BY <3>5 DEF StandbyResume
    <3>6. CASE StandbyUnmark BY <3>6 DEF StandbyUnmark
    <3>7. CASE PauseUnlink BY <3>7 DEF PauseUnlink, PauseForgets
    <3>8. CASE PauseCreate BY <3>8 DEF PauseCreate, AfterPause
    <3>9. CASE PauseAcked BY <3>9 DEF PauseAcked, AfterPause, PollsLeft
    <3>10. CASE PauseAgain BY <3>10 DEF PauseAgain, PollsLeft, NextPoll
    <3>11. CASE PauseTimeout BY <3>11 DEF PauseTimeout, AfterPause
    <3>12. CASE FrontendClear BY <3>12 DEF FrontendClear
    <3>13. CASE FrontendLaunch BY <3>13 DEF FrontendLaunch, LaunchForgets
    <3>14. CASE FrontendVisible BY <3>14 DEF FrontendVisible
    <3>15. CASE FrontendReaped BY <3>15 DEF FrontendReaped
    <3>16. CASE FrontendEndPerf BY <3>16 DEF FrontendEndPerf
    <3>17. CASE FrontendDrainAgain BY <3>17 DEF FrontendDrainAgain
    <3>18. CASE FrontendDrained BY <3>18 DEF FrontendDrained, DrainOver, AfterDrain
    <3>19. CASE FrontendDone BY <3>19 DEF FrontendDone, DoneForgets
    <3>20. CASE FrontendShow BY <3>20 DEF FrontendShow
    <3> QED
      BY <2>1, <3>1, <3>2, <3>3, <3>4, <3>5, <3>6, <3>7, <3>8, <3>9, <3>10,
         <3>11, <3>12, <3>13, <3>14, <3>15, <3>16, <3>17, <3>18, <3>19, <3>20
      DEF Powerd
  <2>2. CASE Frontend
    <3>1. CASE BrowserReady BY <3>1 DEF BrowserReady, feRest
    <3>2. CASE BrowserAsks BY <3>2 DEF BrowserAsks, feRest
    <3>3. CASE BrowserExecs BY <3>3 DEF BrowserExecs, feRest
    <3>4. CASE BrowserExits BY <3>4 DEF BrowserExits, feRest
    <3>5. CASE FrontendDies BY <3>5 DEF FrontendDies, feRest
    <3> QED
      BY <2>2, <3>1, <3>2, <3>3, <3>4, <3>5 DEF Frontend
  <2>3. CASE Screen
    <3>1. CASE ScreenTop BY <3>1 DEF ScreenTop, screenRest
    <3>2. CASE ScreenService BY <3>2 DEF ScreenService, screenRest
    <3>3. CASE ScreenDrain BY <3>3 DEF ScreenDrain, screenRest, DrainFailed
    <3>4. CASE ScreenPublish BY <3>4 DEF ScreenPublish, screenRest
    <3>5. CASE ScreenWait BY <3>5 DEF ScreenWait, screenRest, KeepsWaiting
    <3>6. CASE ScreenUnpublish BY <3>6 DEF ScreenUnpublish, screenRest
    <3>7. CASE ScreenLoop BY <3>7 DEF ScreenLoop, screenRest
    <3>8. CASE ScreenDraw BY <3>8 DEF ScreenDraw, screenRest
    <3>9. CASE ScreenDark BY <3>9 DEF ScreenDark
    <3>10. CASE ScreenUnstop BY <3>10 DEF ScreenUnstop, screenRest
    <3> QED
      BY <2>3, <3>1, <3>2, <3>3, <3>4, <3>5, <3>6, <3>7, <3>8, <3>9, <3>10
      DEF Screen
  <2>4. CASE Logd
    <3>1. CASE LogdLook BY <3>1 DEF LogdLook, logdRest
    <3>2. CASE LogdBegin BY <3>2 DEF LogdBegin, logdRest, Acknowledge
    <3>3. CASE LogdEnd BY <3>3 DEF LogdEnd, logdRest
    <3>4. CASE LogdClear BY <3>4 DEF LogdClear, logdRest
    <3>5. CASE LogdKeep BY <3>5 DEF LogdKeep, logdRest
    <3> QED
      BY <2>4, <3>1, <3>2, <3>3, <3>4, <3>5 DEF Logd
  <2>5. CASE InitStopsScreen BY <2>5 DEF InitStopsScreen
  <2>6. CASE UNCHANGED vars BY <2>6 DEF vars
  <2> QED
    BY <2>1, <2>2, <2>3, <2>4, <2>5, <2>6 DEF Next
<1>3. SessionInv => GameKeepsCardToItself
  BY DEF SessionInv, Granted, GameKeepsCardToItself
<1> QED
  BY <1>1, <1>2, <1>3, PTL DEF Spec

-----------------------------------------------------------------------------
(* The lamp, the mode and the watchdog                                     *)

PausePCs == {"pauseUnlink", "pauseCreate", "pausePoll"}

(* The lamp is dark from the start of a launch until the child of that     *)
(* launch has published a frame, and the ready marker is that child's.     *)
LampInv ==
    /\ fe # "none" <=> pc = "feWait"
    /\ pc \in PausePCs \cup {"feLaunch"} => ~backlight
    /\ pc = "feWait" /\ "FRONTEND_READY" \in run => freshReady
    /\ pc = "feWait" /\ backlight => freshReady

(* LitFrameIsOwn for every bound: a frame on a lit panel is the running    *)
(* child's own (run_frontend's unlink of the marker before each vfork).    *)
THEOREM LampWaitsForChild == Spec => []LitFrameIsOwn
<1>1. Init => LampInv
  BY DEF Init, LampInv, PausePCs
<1>2. LampInv /\ [Next]_vars => LampInv'
  <2> SUFFICES ASSUME LampInv, [Next]_vars PROVE LampInv'
    OBVIOUS
  <2> USE DEF LampInv, PausePCs, AfterPause
  <2> USE DEF Create, Unlink, chord, call, lamp, child, journal, screen, verdict
  <2>1. CASE Powerd
    <3>1. CASE Boot BY <3>1 DEF Boot
    <3>2. ASSUME NEW k \in Keys, Key(k) PROVE LampInv'
      BY <3>2 DEF Key, FlagsAfter
    <3>3. CASE StandbyMark BY <3>3 DEF StandbyMark
    <3>4. CASE StandbyDark BY <3>4 DEF StandbyDark
    <3>5. CASE StandbyResume BY <3>5 DEF StandbyResume
    <3>6. CASE StandbyUnmark BY <3>6 DEF StandbyUnmark
    <3>7. CASE PauseUnlink BY <3>7 DEF PauseUnlink, PauseForgets
    <3>8. CASE PauseCreate BY <3>8 DEF PauseCreate, AfterPause
    <3>9. CASE PauseAcked BY <3>9 DEF PauseAcked, AfterPause, PollsLeft
    <3>10. CASE PauseAgain BY <3>10 DEF PauseAgain, PollsLeft, NextPoll
    <3>11. CASE PauseTimeout BY <3>11 DEF PauseTimeout, AfterPause
    <3>12. CASE FrontendClear BY <3>12 DEF FrontendClear
    <3>13. CASE FrontendLaunch BY <3>13 DEF FrontendLaunch, LaunchForgets
    <3>14. CASE FrontendVisible BY <3>14 DEF FrontendVisible
    <3>15. CASE FrontendReaped BY <3>15 DEF FrontendReaped
    <3>16. CASE FrontendEndPerf BY <3>16 DEF FrontendEndPerf
    <3>17. CASE FrontendDrainAgain BY <3>17 DEF FrontendDrainAgain
    <3>18. CASE FrontendDrained BY <3>18 DEF FrontendDrained, DrainOver, AfterDrain
    <3>19. CASE FrontendDone BY <3>19 DEF FrontendDone, DoneForgets
    <3>20. CASE FrontendShow BY <3>20 DEF FrontendShow
    <3> QED
      BY <2>1, <3>1, <3>2, <3>3, <3>4, <3>5, <3>6, <3>7, <3>8, <3>9, <3>10,
         <3>11, <3>12, <3>13, <3>14, <3>15, <3>16, <3>17, <3>18, <3>19, <3>20
      DEF Powerd
  <2>2. CASE Frontend
    <3>1. CASE BrowserReady BY <3>1 DEF BrowserReady, feRest
    <3>2. CASE BrowserAsks BY <3>2 DEF BrowserAsks, feRest
    <3>3. CASE BrowserExecs BY <3>3 DEF BrowserExecs, feRest
    <3>4. CASE BrowserExits BY <3>4 DEF BrowserExits, feRest
    <3>5. CASE FrontendDies BY <3>5 DEF FrontendDies, feRest
    <3> QED
      BY <2>2, <3>1, <3>2, <3>3, <3>4, <3>5 DEF Frontend
  <2>3. CASE Screen
    <3>1. CASE ScreenTop BY <3>1 DEF ScreenTop, screenRest
    <3>2. CASE ScreenService BY <3>2 DEF ScreenService, screenRest
    <3>3. CASE ScreenDrain BY <3>3 DEF ScreenDrain, screenRest, DrainFailed
    <3>4. CASE ScreenPublish BY <3>4 DEF ScreenPublish, screenRest
    <3>5. CASE ScreenWait BY <3>5 DEF ScreenWait, screenRest, KeepsWaiting
    <3>6. CASE ScreenUnpublish BY <3>6 DEF ScreenUnpublish, screenRest
    <3>7. CASE ScreenLoop BY <3>7 DEF ScreenLoop, screenRest
    <3>8. CASE ScreenDraw BY <3>8 DEF ScreenDraw, screenRest
    <3>9. CASE ScreenDark BY <3>9 DEF ScreenDark
    <3>10. CASE ScreenUnstop BY <3>10 DEF ScreenUnstop, screenRest
    <3> QED
      BY <2>3, <3>1, <3>2, <3>3, <3>4, <3>5, <3>6, <3>7, <3>8, <3>9, <3>10
      DEF Screen
  <2>4. CASE Logd
    <3>1. CASE LogdLook BY <3>1 DEF LogdLook, logdRest
    <3>2. CASE LogdBegin BY <3>2 DEF LogdBegin, logdRest, Acknowledge
    <3>3. CASE LogdEnd BY <3>3 DEF LogdEnd, logdRest
    <3>4. CASE LogdClear BY <3>4 DEF LogdClear, logdRest
    <3>5. CASE LogdKeep BY <3>5 DEF LogdKeep, logdRest
    <3> QED
      BY <2>4, <3>1, <3>2, <3>3, <3>4, <3>5 DEF Logd
  <2>5. CASE InitStopsScreen BY <2>5 DEF InitStopsScreen
  <2>6. CASE UNCHANGED vars BY <2>6 DEF vars
  <2> QED
    BY <2>1, <2>2, <2>3, <2>4, <2>5, <2>6 DEF Next
<1>3. LampInv => LitFrameIsOwn
  BY DEF LampInv, LitFrameIsOwn
<1> QED
  BY <1>1, <1>2, <1>3, PTL DEF Spec

(* Powerd is in standby, or past the marker on its way in or out of it.    *)
InStandby == \/ pc \in {"sbDark", "sbResume", "sbUnmark"}
             \/ pc = "idle" /\ standby
             \/ pc \in PausePCs /\ task = "standby"

(* The stopping screen has turned the lamp off.                            *)
ScreenGone == spc \in {"unstop", "stopped"}

(* Where powerd is in standby, or on its way in or out of it; where its    *)
(* marker stands; where the lamp is on or off; and that a session marker   *)
(* outlives its child only until the end-of-session step.                  *)
ModeInv ==
    /\ standby <=> \/ pc \in {"sbMark", "sbDark"}
                   \/ pc = "idle" /\ standby
                   \/ pc \in PausePCs /\ task = "standby"
    /\ "STANDBY" \in run => InStandby
    /\ InStandby => "STANDBY" \in run \/ unmarked
    /\ pc \in {"boot", "sbUnmark"} => backlight \/ ScreenGone
    /\ pc \in PausePCs => ~backlight
    /\ pc = "idle" => /\ backlight => ~standby
                      /\ ~standby => backlight \/ ScreenGone
    /\ fe # "none" <=> pc = "feWait"
    /\ "PERFORMANCE" \in run => pc \in {"feWait", "feEndPerf"}

(* ModeInv and the request's invariant give IdleMatchesMode.               *)
LEMMA ModeImpliesIdle == AckInv /\ ModeInv => IdleMatchesMode
  BY DEF AckInv, ModeInv, InStandby, ScreenGone, PausePCs, IdleMatchesMode

(* IdleMatchesMode for every bound and every failing call: whatever path   *)
(* set_standby and run_frontend took, and whenever the screen stops, back  *)
(* in the event loop the lamp, the markers and the child are what the mode *)
(* says.                                                                   *)
THEOREM EventLoopIsConsistent == Spec => []IdleMatchesMode
<1>1. Init => ModeInv
  BY DEF Init, ModeInv, InStandby, ScreenGone, PausePCs
<1>2. ModeInv /\ [Next]_vars => ModeInv'
  <2> SUFFICES ASSUME ModeInv, [Next]_vars PROVE ModeInv'
    OBVIOUS
  <2> USE DEF ModeInv, InStandby, ScreenGone, PausePCs, AfterPause
  <2> USE DEF Create, Unlink, chord, call, lamp, child, journal, screen, verdict
  <2>1. CASE Powerd
    <3>1. CASE Boot BY <3>1 DEF Boot
    <3>2. ASSUME NEW k \in Keys, Key(k) PROVE ModeInv'
      BY <3>2 DEF Key, FlagsAfter
    <3>3. CASE StandbyMark BY <3>3 DEF StandbyMark
    <3>4. CASE StandbyDark BY <3>4 DEF StandbyDark
    <3>5. CASE StandbyResume BY <3>5 DEF StandbyResume
    <3>6. CASE StandbyUnmark BY <3>6 DEF StandbyUnmark
    <3>7. CASE PauseUnlink BY <3>7 DEF PauseUnlink, PauseForgets
    <3>8. CASE PauseCreate BY <3>8 DEF PauseCreate, AfterPause
    <3>9. CASE PauseAcked BY <3>9 DEF PauseAcked, AfterPause, PollsLeft
    <3>10. CASE PauseAgain BY <3>10 DEF PauseAgain, PollsLeft, NextPoll
    <3>11. CASE PauseTimeout BY <3>11 DEF PauseTimeout, AfterPause
    <3>12. CASE FrontendClear BY <3>12 DEF FrontendClear
    <3>13. CASE FrontendLaunch BY <3>13 DEF FrontendLaunch, LaunchForgets
    <3>14. CASE FrontendVisible BY <3>14 DEF FrontendVisible
    <3>15. CASE FrontendReaped BY <3>15 DEF FrontendReaped
    <3>16. CASE FrontendEndPerf BY <3>16 DEF FrontendEndPerf
    <3>17. CASE FrontendDrainAgain BY <3>17 DEF FrontendDrainAgain
    <3>18. CASE FrontendDrained BY <3>18 DEF FrontendDrained, DrainOver, AfterDrain
    <3>19. CASE FrontendDone BY <3>19 DEF FrontendDone, DoneForgets
    <3>20. CASE FrontendShow BY <3>20 DEF FrontendShow
    <3> QED
      BY <2>1, <3>1, <3>2, <3>3, <3>4, <3>5, <3>6, <3>7, <3>8, <3>9, <3>10,
         <3>11, <3>12, <3>13, <3>14, <3>15, <3>16, <3>17, <3>18, <3>19, <3>20
      DEF Powerd
  <2>2. CASE Frontend
    <3>1. CASE BrowserReady BY <3>1 DEF BrowserReady, feRest
    <3>2. CASE BrowserAsks BY <3>2 DEF BrowserAsks, feRest
    <3>3. CASE BrowserExecs BY <3>3 DEF BrowserExecs, feRest
    <3>4. CASE BrowserExits BY <3>4 DEF BrowserExits, feRest
    <3>5. CASE FrontendDies BY <3>5 DEF FrontendDies, feRest
    <3> QED
      BY <2>2, <3>1, <3>2, <3>3, <3>4, <3>5 DEF Frontend
  <2>3. CASE Screen
    <3>1. CASE ScreenTop BY <3>1 DEF ScreenTop, screenRest
    <3>2. CASE ScreenService BY <3>2 DEF ScreenService, screenRest
    <3>3. CASE ScreenDrain BY <3>3 DEF ScreenDrain, screenRest, DrainFailed
    <3>4. CASE ScreenPublish BY <3>4 DEF ScreenPublish, screenRest
    <3>5. CASE ScreenWait BY <3>5 DEF ScreenWait, screenRest, KeepsWaiting
    <3>6. CASE ScreenUnpublish BY <3>6 DEF ScreenUnpublish, screenRest
    <3>7. CASE ScreenLoop BY <3>7 DEF ScreenLoop, screenRest
    <3>8. CASE ScreenDraw BY <3>8 DEF ScreenDraw, screenRest
    <3>9. CASE ScreenDark BY <3>9 DEF ScreenDark
    <3>10. CASE ScreenUnstop BY <3>10 DEF ScreenUnstop, screenRest
    <3> QED
      BY <2>3, <3>1, <3>2, <3>3, <3>4, <3>5, <3>6, <3>7, <3>8, <3>9, <3>10
      DEF Screen
  <2>4. CASE Logd
    <3>1. CASE LogdLook BY <3>1 DEF LogdLook, logdRest
    <3>2. CASE LogdBegin BY <3>2 DEF LogdBegin, logdRest, Acknowledge
    <3>3. CASE LogdEnd BY <3>3 DEF LogdEnd, logdRest
    <3>4. CASE LogdClear BY <3>4 DEF LogdClear, logdRest
    <3>5. CASE LogdKeep BY <3>5 DEF LogdKeep, logdRest
    <3> QED
      BY <2>4, <3>1, <3>2, <3>3, <3>4, <3>5 DEF Logd
  <2>5. CASE InitStopsScreen BY <2>5 DEF InitStopsScreen
  <2>6. CASE UNCHANGED vars BY <2>6 DEF vars
  <2> QED
    BY <2>1, <2>2, <2>3, <2>4, <2>5, <2>6 DEF Next
<1> QED
  BY <1>1, <1>2, AckHolds, ModeImpliesIdle, PTL DEF Spec

(* Only the screen touches its own state, which makes the watchdog a       *)
(* matter of the screen's ten steps.                                     *)
LEMMA OnlyScreenMovesScreen ==
  ASSUME [Next]_vars, ~Screen PROVE UNCHANGED screen
<1> USE DEF chord, call, lamp, child, journal, verdict
<1>1. CASE Powerd
  BY <1>1 DEF Powerd, Boot, Key, StandbyMark, StandbyDark, StandbyResume,
     StandbyUnmark, PauseUnlink, PauseCreate, PauseAcked, PauseAgain,
     PauseTimeout, FrontendClear, FrontendLaunch, FrontendVisible,
     FrontendReaped, FrontendEndPerf, FrontendDrainAgain, FrontendDrained,
     FrontendDone, FrontendShow
<1>2. CASE Frontend
  BY <1>2 DEF Frontend, BrowserReady, BrowserAsks, BrowserExecs, BrowserExits,
     FrontendDies, feRest
<1>3. CASE Logd
  BY <1>3 DEF Logd, LogdLook, LogdBegin, LogdEnd, LogdClear, LogdKeep, logdRest
<1>4. CASE InitStopsScreen
  BY <1>4 DEF InitStopsScreen
<1>5. CASE UNCHANGED vars
  BY <1>5 DEF vars
<1> QED
  BY <1>1, <1>2, <1>3, <1>4, <1>5 DEF Next

(* WatchdogFollowsLoop for every bound: on every path into and out of      *)
(* application_pause_service the watchdog is armed exactly while the       *)
(* console loop pets it.                                                   *)
THEOREM WatchdogIsPetted == Spec => []WatchdogFollowsLoop
<1> DEFINE Unpetted == {"drain", "publish", "wait", "unpub", "dark", "unstop",
                        "stopped"}
           WInv == watchdog <=> spc \notin Unpetted
<1>1. Init => WInv
  BY DEF Init
<1>2. WInv /\ [Next]_vars => WInv'
  <2> SUFFICES ASSUME WInv, [Next]_vars PROVE WInv'
    OBVIOUS
  <2>1. CASE ~Screen BY <2>1, OnlyScreenMovesScreen DEF screen
  <2>2. CASE ScreenTop BY <2>2 DEF ScreenTop
  <2>3. CASE ScreenService BY <2>3 DEF ScreenService
  <2>4. CASE ScreenDrain BY <2>4 DEF ScreenDrain, DrainFailed
  <2>5. CASE ScreenPublish BY <2>5 DEF ScreenPublish
  <2>6. CASE ScreenWait BY <2>6 DEF ScreenWait
  <2>7. CASE ScreenUnpublish BY <2>7 DEF ScreenUnpublish
  <2>8. CASE ScreenLoop BY <2>8 DEF ScreenLoop
  <2>9. CASE ScreenDraw BY <2>9 DEF ScreenDraw
  <2>10. CASE ScreenDark BY <2>10 DEF ScreenDark
  <2>11. CASE ScreenUnstop BY <2>11 DEF ScreenUnstop
  <2> QED
    BY <2>1, <2>2, <2>3, <2>4, <2>5, <2>6, <2>7, <2>8, <2>9, <2>10, <2>11
    DEF Screen
<1>3. FlagsOK /\ WInv => WatchdogFollowsLoop
  BY DEF FlagsOK, WatchdogFollowsLoop
<1> QED
  BY <1>1, <1>2, <1>3, TypeCorrect, PTL DEF Spec, TypeOK
=============================================================================
