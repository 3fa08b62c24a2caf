---------------------------- MODULE MCForeground ----------------------------
(* TLC instances of Foreground: see ForegroundOwner.cfg (the pause          *)
(* handshake under every failure), ForegroundSession.cfg (performance       *)
(* sessions, and liveness) and ForegroundTwoWriters.cfg.                    *)
EXTENDS Foreground

ChordKeys == {"START", "Y", "R"}
LaunchKeys == {"START", "R"}
=============================================================================
